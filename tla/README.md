# Noctivue: specifications and proofs

Noctivue is a programming language with a compiler (`compiler/`), a
tree-walking interpreter that runs tasks on OS threads (`interp/`), a virtual
machine over an intermediate representation (`compiler/src/nir/`), a native
backend with its runtime (`runtime-native/`), a language server
(`noctivue-lsp/`) and a package tool, `noct` (`noct-cli/`, `nestpkg/`), with a
content store that all `noct` processes of a machine share.  This directory
holds TLA+ models of these parts, the TLC configurations that check them on
small instances, and proofs, checked by TLAPS, that hold for every instance.

They are of two kinds.  Where actors meet without a lock, or a crash may fall
between two writes, there is a state machine with one action per access to
shared state: the **task executor**, the **content store**, the **HTTP
server**, the **managed heap**, the **registry client and publisher keys**,
**dependency resolution** and the **project lock**.  Where the code is a
function from trees to trees there is a function, run over many small inputs
and held to a second, independent account: the **two back ends** against each
other, the **formatter** against the parser, the **module graph and resolver**
against a definition of what a name means.

    tlc -workers 2 -config MCStore.cfg MCStore      # one run
    tlapm StoreProofs.tla                           # one proof module

`PROJECT.json` lists every run with its properties, the source lines each
definition stands for, the hazards the properties are aimed at, and for each
property a mutation of the model that breaks it.

## Inventory

Paths are below `src/`; `lib.rs` alone is `interp/src/lib.rs`.

| component | state | operations | meets | what is hard | correct when |
|---|---|---|---|---|---|
| task executor, `lib.rs` 560-830, 1126-1351 | live, peak and bridge gauges (process-wide atomics), a task registry per interpreter, a cancel flag per task, `NOCT_WORKERS` | `task` call, `await`, `task_cancel`, `sleep`, `env_set`, end of `run` | worker threads | check-then-act on atomics, watchdog against completion, cancel against exit, thread creation fails, a thread dies | gauges are exact, no handle is lost or doubled, a cancel in time wins, exit 0 is earned, the drain ends |
| content store, `noct-cli/src/store.rs`, `cmd_clean.rs`, gate in `registry.rs` 714-768 | archives, trees, index records, points on disk; a memo per process | `put`, `verify_tree`, `state`, `place`, `clean`, by-name lookup | every `noct` process; editors | no lock, crashes anywhere, stale record, memo and listing | a fingerprint or memo hit means the recorded bytes; records attest archives; recovery |
| HTTP server, `lib.rs` 170-250, 2267-2361 | listener registry, route tables, shutdown flag, gauges | listen, route, serve, shutdown | connection threads, peers | shutdown against accept, registration against snapshot, drain, failing threads | an accepted connection has one owner and a fate; `serve` returns |
| managed heap, `interp/src/arc.rs`, `lib.rs` 2560-2660 | strong counts and objects per heap, one id counter | alloc, retain, release, load, weak, unowned | values, tasks | an upgrade that raises no count, a copy that crosses to another heap | no count underflows, no id comes back, an object lives while it is held |
| registry client, `noct-cli/src/registry.rs`, `cmd_add.rs`, `cmd_get.rs` | publisher keys trusted on first use | `fetch_locked`, key file, rotation | store, lock, an index that moves | the order of recording and checking, reads of one entry at different times, a torn key file | what is stored is signed under a recorded key; only a rotation replaces it |
| dependency resolution, `registry.rs` 358-480 | requirements, picks | `resolve` | index | a fixpoint that revises its choices; publishing meanwhile | every requirement is met by what is locked |
| project lock, `cmd_add.rs`, `nestpkg/src/lib.rs` 1380-1450, gate | manifest and lock on disk | `add` in two modes, staleness check, gate | editors, crashes | two files that must agree, each emptied before it is written | an undisturbed `add` leaves what the gate accepts |
| lexer and indentation, `compiler/src/lexer/` | bracket depths, indentation stack | next token | parser | interpolation, continuation lines, dedents | a text means one sequence of tokens |
| parser, `compiler/src/parser/` | position, errors, type names known so far | productions | formatter, checker | look-ahead between declarations, fields and calls | what is printed is read back |
| formatter, `noct-cli/src/fmt_v2.rs` | - | print, three gates | parser | a text that parses as something else | the tree and the words survive |
| module graph, `compiler/src/modules.rs` | loaded files, visiting stack, program under construction | resolve path, load, link, rewrite | store (by name) | cycles, re-exports, aliases, search order | each file once, in order; a name means what it says |
| name resolution, `compiler/src/resolver/` | kinds found so far | classify, check impls | linker | recursion over a hash map in no fixed order | kinds do not depend on the order |
| type checker, `compiler/src/typeck/` | signature and type tables, environments | check | both back ends | inference with unknown types | an accepted program meets no wrong operand |
| HIR, lowering, `compiler/src/{hir,nir}/` | blocks, registers | lower | virtual machine | joins, jumps out of nested forms | blocks are well formed, registers are written before read |
| virtual machine, `compiler/src/nir/vm.rs` | frames, registers | step | host | traps, limits | the machine does what the interpreter does |
| interpreter, `lib.rs` | environments | eval | all built-ins | unwinding | is the reference |
| timer heap, `lib.rs` | deadlines, cancelled set | insert, cancel, pop due | (its tests only) | - | - |
| database handles and pool, `lib.rs`, `stdlib/db/pool.nv` | handle table, idle list | open, exec, close | driver | - | - |
| JSON and random handles, `lib.rs` | handle tables | create, read, drop | - | - | - |
| borrow checker, `compiler/src/borrowck/` | state per variable | check | (nobody calls it) | - | - |
| native backend and runtime, `compiler/src/backends/cranelift/`, `runtime-native/` | code under construction | emit | Cranelift | - | - |
| analysis and language server, `compiler/src/analysis.rs`, `noctivue-lsp/` | open documents | requests | editor | - | - |
| manifests and locks, `nestpkg/src/lib.rs` | text | read, write | `add`, the gate | - | - |
| command line, linter, docs, scaffolding, diagnostics, `noct-cli/src/` | - | drivers, text to text | all | - | - |
| libraries in the language, `stdlib/`, `libs/` | - | - | built-ins | - | - |

How they interact: the compiler front end (lexer, parser, module graph,
resolver, type checker) produces a typed tree that the interpreter walks, or
that lowering turns into blocks for the virtual machine.  A `task` call moves a
clone of the program and its arguments to a new OS thread with a private
interpreter and a private heap, so threads share only atomics and flags;
`serve` starts a thread per connection, each with an interpreter of its own.
The package tool runs as many separate processes: `add` resolves, fetches every
package under its checks, puts it in the store and writes manifest and lock;
a build asks the gate, and the module graph reads the store by name.

## Modules

| module | what it is |
|---|---|
| `TaskPool` | what the executor promises, without threads, gauges, flags or handles: slots, what a cancel does, answers |
| `Executor` | the executor as written; implements `TaskPool` |
| `ExecutorProofs` | thread invariant (shape, control points, registries, joins, tombstones); gauge invariant, by counting threads; `Executor` implements `TaskPool`; exit 0 is earned; awaits close no circle |
| `Store`, `StoreProofs` | the content store, the gate, `noct clean`, the by-name lookup; fast path, memo, trust root and recovery |
| `HttpService` | what the HTTP server promises, without threads, locks, loops or gauges |
| `HttpServer`, `HttpServerProofs` | the interpreter's HTTP server; gauges, ownership of connections, routing; implements `HttpService`; joins close no circle |
| `ArcHeap` | the managed heaps of a program and its tasks |
| `PublisherKeys`, `PublisherKeysProofs` | fetching locked packages and trust on first use |
| `Resolver`, `ResolverProofs` | the version fixpoint; a stable pass is closed |
| `ProjectLock`, `ProjectLockProofs` | `add`, the staleness check and the gate over two files; what an undisturbed add leaves |
| `Lexer`, `Grammar`, `Printer` | text to tokens, tokens to tree, tree to text |
| `Format` | `noct fmt`: composes the three and its gates |
| `Hir` | types, constructors and values the next four share |
| `Typeck`, `Interp`, `Lowering`, `NirVm` | type checker, tree walker, lowering, virtual machine |
| `NirRules` | the rules a lowered module must keep, and what they are for; extends `NirVm` |
| `Backends` | a program run both ways, side by side; composes the five |
| `RuntimeProofs` | theorems on `ArcHeap` (counts and lifetimes) and on `NirRules` (a module that keeps the rules runs cleanly) |
| `Modules` | module loading, checks and linking |
| `Classify` | name resolution of what `Modules` links; extends it |
| `ModulesProofs` | theorems on both: load order, reachability and cycles; what a written name comes to; kinds without an order |
| `MC...` | instances for TLC, one per component, each with its `.cfg`s |

`RECURSIVE` operators occur only in the modules about trees (`Lexer`, `Grammar`,
`Printer`, `Typeck`, `Interp`, `Lowering` and those that extend them), which are
model-checked and not proved about.  `NirVm` and `NirRules` have none: the
machine is a loop over blocks, and theorems speak of it.

## The executor

A thread is `Main` or a member of `Tasks`; a `Task` is both the thread and the
task it runs.  `pc` says where a thread stands, and an action is one access to
state that threads share (`live`, `peak`, `depth`, `workers`, a `flag`, another
thread's end) together with the private code around it.  The accesses to a
thread's own registry are private and are merged with the shared access next to
them.  What a body computes is a free choice: a body may spawn, await and
cancel in any order, end in a value, in an error, or in an error whose message
happens to end in "cancelled" (`lookalike`), or never end.

| code | actions |
|---|---|
| `spawn_task` 1126-1215 | `SpawnBegin` (reads the cap), `SpawnReserve` (fetch_add and peak), `SpawnThread`, `SpawnThreadFails`, `SpawnRefused` |
| `join_task` 1257-1313 with `blocking_bridge_acquire` 715-740 | `Await`/`DrainNext`, `BridgeAdmit` (stale read of depth), `BridgeEnter` (increment), `BridgeRollback`, `WaitFinished`, `WaitTimesOut` (watchdog; the entry goes back), `JoinDone` |
| `task_cancel`, `sleep` | `Cancel`, `SleepCheckpoint` |
| worker closure 1180-1197 | `BodyEnds`, `ExitCheck` (the exit-time cancel check), `ThreadDies` |
| `run`, `drain_tasks` 1321-1351 | `DrainBegin`, `DrainNext`, `RunReturns`, `ExitCode` |
| `env_set` on `NOCT_WORKERS` | `EnvSetWorkers` |

Three variables are history: who spawned a task and under which handle, and
whether its slot is live, was given back to an await, or to the drain.

Abstractions: a refused call, a panic and a dead join all end the body in
`error`, as no construct of the language catches them.  A `sleep` without a
raised flag and a cancel of a finished task change nothing and are left out.
The fetch_max on the peak is merged with the fetch_add before it; the peak of
the bridge is not modelled, nor are diagnostics.  When `run` returns, the CLI
exits and takes orphaned threads with it; the model lets them go on, as they do
when the interpreter is embedded or tested.  One interpreter that runs several
programs (registry reset at 985-994) is not modelled.

*Runs.*  `executor`: 3 tasks, 2 workers, handles 1 and 2, a fixed
`NOCT_WORKERS`; gauges, caps, handles, joins, cancellation, the exit code and
the refinement of `TaskPool`.  With 2 workers, 3 tasks are the first number at
which a spawn can be refused by concurrent reservations, fill a slot that a join
has just freed, and nest (main, child, grandchild) with an await on each level;
2 handles let a registry hold two entries, a tombstone beside an entry, and run
out (`MaxId` bounds `next_id`, a u64).  The threads of `Tasks` are
interchangeable, so symmetry is sound here.  `executor_live`: 2 tasks, no
symmetry (unsound for liveness), and a body may set `NOCT_WORKERS` to 1
while tasks run, so that the bridge refuses and rolls back and a pool may be
fuller than its new size: is the bridge's gauge exact then, is `TaskPool` still
implemented, does `run` return, does every await answer.

`TaskPool` is the promise about cancellation: a cancel dooms a task that still
runs, a doomed task answers "cancelled" unless its thread dies, and the answer
given at the end never changes.  A cancel that comes after the end is no event
of `TaskPool`: in `Executor` it must be a stuttering step, whatever it does to
the flag.  CHECK_DEADLOCK stays on in both: `Terminated` is an
explicit stuttering step of a finished program.

*Fairness.*  Weak fairness of each thread's steps inside executor built-ins, of
the exit check and of the drain: the OS schedules runnable threads, and a wait
ends because the watchdog's 30 s are finite.  Bodies owe nothing: they may loop
for ever, so `RunAlwaysReturns` begins at the end of main's body.

## The store

`Keys` are the locked entries of one package, `Files` the files of a tree; a
content hash is modelled as the function from files to bytes it stands for (so
equal hashes mean equal trees) and a fingerprint as the function from files to
stamps.  A stamp is a (length, mtime) pair; each write gets a stamp never seen
before.  There is no lock in the code, so every action is one disk access of
one process.

| code | actions |
|---|---|
| `require_package_current_in` (the gate) | `Begin`, and the `caller` of each verification |
| `Store::state`, `verify_tree` 543-641 | `Probe`, `ReadRecord`, `OpenTree` (the names), `StatFile` (one file's stamp), `CompareListing` (memo, fast path), `ReadFile`, `Judge` (hash, refresh of the record, memo) |
| `Store::put` 393-498 | `PutArchive`, `UnpackFile`, `HashTemp`, `ProbeDest`, `OpenDrifted`, `RemoveFile`, `RemoveDir`, `Seal`, `WriteRecord`, `WritePoint` |
| `Store::place` 692-714 | `Place`, with the branch of the loser of a race |
| `cmd_clean` | `CleanBegin`, `CleanArchives`, `CleanTrees`, `CleanIndex`, `CleanPoints`: four renames, temp trees go with `trees/` |
| `pointer_tree_candidates` | `Candidates`, `Compile` |
| crash, kill, I/O error, refused fetch, next process | `Stop` |
| somebody writes into a tree (read-only flags deter, no more) | `Edit` |

`dir` names the unpack a directory came from, so that `remove_dir_all` can be
seen to go on in a directory that has been replaced.  `alone` is history: the
process has run undisturbed since it began.

Left out: `read_archive` and `vendor`, an archive tampered with in place,
the rename that restores a tree whose deletion by `clean` failed, a record
filed under another content, `--frozen`, path and git sources, and modification
times that are forged or too coarse to tell two writes apart; the fast path
trusts those, and a model of the latter would refute it at once.  The names in
a tree are read in one step; the files are then stat'ed one by one.

The stat walk (796-837) takes time.  A file that is edited after the walk has
passed it and before the walk ends is accepted with its new bytes, until the
next verification.  `AcceptedTreeIsGenuine` therefore speaks of the files that
still are as the walk found them: those are the archive's, on the fast path and
after a full hash.

*Runs.*  `store`: two processes verify, fetch, repair and crash over one entry
of two files that is edited meanwhile.  `store_clean`: one of them cleans
instead; a recorded fingerprint still stands for the recorded bytes.  Every
interaction is between one process and what another left on the disk, so two
processes show all pairs of steps; two files are needed for a listing, a hash,
an unpack or a removal to be interrupted half way; `MaxClock` counts unpacks and
edits, 3 being two racing unpacks and an edit, or one unpack, an edit and a
repair (2 with a cleaner).  One entry suffices where the entries do not interact.
Files are interchangeable, and so are processes when none of them cleans.

`RecoversWhenUndisturbed` and `TrustRootHolds` are stated for `Cleaners = {}`;
why, is told under "Where the documents and the code part".

Two details that the model confirms to be harmless: the loser of `place`
records the fingerprint of the temp tree it has thrown away (a later
verification hashes in full and refreshes the record), and the fast path
memoizes a fingerprint it has not hashed, although the comment on the memo says
otherwise (the record it matched was hashed).

## The HTTP server

`up`, `routes` and `flag` are the registry behind its mutex; a handle is a
number from `next`, never given again.  A program thread (`Threads`) or a
running handler calls the built-ins, so a handler may itself start a server or
shut its own one down; a connection and its worker thread are one name.  Each
step of `serve_loop` that looks at shared state is an action.

| code | actions |
|---|---|
| `http_server_listen`, `_register_route`, `_shutdown` 2267-2300, 2354-2361 | `Listen`, `RegisterRoute`, `Shutdown` (flag up, entry gone, one critical section) |
| `serve_loop` 2302-2352 | `ServeBegin`, `LoopCheck`, `Accept`, `AcceptNothing`, `AcceptFails`, `Snapshot`, `SnapshotGone`, `Spawn`, `SpawnFails`, `Join`, `ServeReturns` |
| worker 170-250 | `Count`, `TrackUp`, `ReadFails`, `NoRoute`, `CallHandler`, `HandlerEnds`, `Write`, `Uncount` |
| peers, kernel | `Connect`, `Refuse` |

The bytes of a request are left out: it has a route key, or cannot be read in
one of three ways.

`HttpService` is what remains of this for a program and its peers: servers that
are in service or not, a routing table that only gains keys, connections that
are queued, taken at one instant and answered once, by the handler the table
gave at that instant.  A connection counts as *taken* from the serve loop's
snapshot of the routes and as *working* once its worker exists; loops, gauges and
joins are not seen.  The handler of a key is the first registered one
(`First`), which is what `find` over the snapshot returns.

*Run* `http`: one program thread, two connections, one server, one key, two
handlers, two registrations; the program and the first connection's handler
call the built-ins.  It checks the gauges, the ownership of connections, the
refinement of `HttpService` (`ImplementsService`) and the two liveness
properties.  Two connections are what a race on the gauges, a stale
snapshot, a nested serve loop and a drain that waits for another worker need;
two handlers for one key make "first registration wins" visible (with the last
one winning the refinement fails at `CallHandler`); one server is
enough, as handles do not interact but through the threads that serve them.

*Fairness.*  Weak fairness of every serve loop and of every worker step: both
are threads whose steps take finite time (accept does not block, reads have a
timeout).  A handler that calls built-ins may go on doing so: `HandlerEnds` is
among the steps it owes, `Builtin` is not, and `AcceptedIsSettled` excludes a
handler that serves.  Peers owe nothing.

## The managed heap

Every interpreter has a heap; ids come from one process-wide counter.  A
reference is what a variable holds, and the model tells two kinds of `Arc`
apart that the code cannot: one that the count knows of (`arc`, from an
allocation or a retain) and one it does not (`borrowed`: copied by an
assignment, a load, an upgrade, a spawn or an await, or already released).
`strayed` is history: some program has released what it did not hold or has
overwritten what it did.  Each built-in is an action (`HeapAlloc`, `Retain`,
`Release`, `ArcLoad`, `WeakCreate`, `WeakLoad`, `UnownedCreate`,
`UnownedLoad`), with `Assign`, `Spawn`, `Await` and `Ends` around them.  The
weak count, which nothing reads, is left out.

*Run* `arc_heap`: main and one task, two variables each, two objects, counts up
to 2: an object in another object, a reference that crosses to a task and back,
and a count that goes up and down.  What holds of any program is `HeapIsSound`;
what holds while programs release each counted reference once is `CountIsHeld`.

## Fetching packages, publisher keys

A `PublisherKeys` release is what the index says of one package: the archive,
the hash it is listed under, the signer and the content signed.  A fetch reads
it in two steps with the index moving in between, checks in the code's order
(lock's hash, bytes' hash, key on record, key recorded, signature, store), and
the key file is emptied before it is written (`TruncateKey`, `WriteKey`).  `add`
stops at the first error, `get` notes it and goes on, and only `add` writes the
lock.  Commands of several processes share everything; a crash ends one
anywhere.

*Run* `keys`: two commands over two packages of one publisher, two contents,
two keys, a key on record beforehand (`Pins`), one move of the index, one
crash, rotation asked for or not.  One move is one difference between any two
reads; two packages make the second fetch meet what the first recorded.

## Resolution

`Resolver` is `resolve` (registry.rs:358-480) pick by pick: a pass visits the
packages known at its start by name (`Visit`: an error, or `Pick`), `NextPass`
begins another, `Finish` ends.  Requirements are a set per package that only
grows.  `Publish` adds a version meanwhile.  A version is its three numbers in
one, `major * 10000 + minor * 100 + patch`, and a requirement is a caret or an
exact one, over 0.x versions too.

*Run* `resolver`: six manifests over 5120 indexes of three packages in which a
version has at most one dependency, and over 15 that hold every kind of error,
to which up to two versions are published.  Three packages give a chain, a
cycle, a diamond and a version that is given up for a lower one after others
depended on it.  `PassLimit` 4 (1000 in the code) is low enough to be reached,
and nothing is claimed of a lock written on that exit; but `LockIsSound` says
when there is none: where nobody publishes and there are fewer versions to
choose from (`Choices`) than passes.  Both sides of that bound occur in the run:
resolutions without a publication that end at the limit, and sound ones that
need all but one of its passes.

## The project lock

`ProjectLock` has the two files.  `AddPath` and `AddRegistry` read the manifest
and build the new one; then `CutManifest`, `WriteManifest`, `CutLock`,
`WriteLock`, each of which a `Crash` may precede, leaving an emptied file.
`LockCurrent` is `check_lock_current`, `GateAccepts` the gate, `Upsert` the text
edit.  The user edits path dependencies in by hand, and the index gets releases.

*Run* `lock`: two packages of which the first needs the second, three adds in
any mode, two edits that write either package by hand into either table, one
crash.  `quiet` says that nothing interfered with the last add.  Two edits and
three adds let a package be added from the registry, be replaced by hand, and be
repaired.  Both packages can be written by hand, because what an add from the
registry loses is the path entry of *another* package: with one of them the
hypothesis `PathsAreDependencies` of `AddKeepsLocked` would never be missed.

## The front end and the formatter

A source is a sequence of atoms (a character that is looked at on its own, or a
run of letters or digits).  `Lexer` makes tokens and indentation marks of it as
the two passes of the code do; `Grammar` is the recursive-descent parser, every
production with its look-ahead, its use of the type names met so far and its
recovery after an error; `Printer` is the printer of `noct fmt`, with the
density heuristic and the breaking of lines at `Cap` atoms.  `Format` reads,
prints, and puts the text through the three gates of the code: the same tree,
the same text again, no new errors.

*Run* `format`: about 3070 sources; every expression in every place, every
block in each of the three ways to write one, lists one atom around the line
cap, calls without arguments past it, declarations, and programs with one atom left out (so that the recovery of
the parser is run too).  `Cap` is 24, to make short sources break.  The sources
the formatter does not take, or takes and loses words of, are listed in
`MCFormat` (`MCAwkward`, `MCLossy`); `FormatsWhatItReads` and `KeepsWords` say
that they are exactly the exceptions among all of these.

## The two back ends

`Typeck` turns a program into a typed tree or a set of errors; `Interp` walks
the tree (`noct run`), `Lowering` makes blocks of it and `NirVm` runs those, one
instruction per step (`noct run-vm`).  `Backends` takes one program of `Suite`
and has the machine run beside the walker's result; it is the model of
`noct-cli/tests/differential.rs`, over programs nobody wrote there.

*Run* `backends`: every pair of nested control forms of seven kinds (`if`,
`while`, `loop`, `for`, and matches on an integer, an option and a result), the
inner one in both arms where the outer is an `if`; every expression form and
every condition inside each kind; eight single bodies; ten kinds of value in
twenty-two uses and as operands of `!` and `<`; nearly all of it for three inputs.
Deeper nests are not run.  `Fuel` 24 bounds the calls and rounds of the walker (a
program it does not end is `stuck` and owes nothing); `MaxLocals` 1000 stands
for the register limit, which no such program reaches.  `Halts` assumes weak
fairness of the machine's step: it is one loop of one thread.

The code does not treat all of these programs as its documents say, and those it
does not are in the suite too.  `MCParting`, `MCMisjudged` and `MCBreaking` list
them by form, each with its reason in the code: what runs differently on the two
back ends, what the checker accepts though it goes wrong at run time, what is
lowered to blocks that break a rule.  `AgreesWithInterp`, `AcceptedIsSound` and
`LoweringKeepsRules` say that *exactly* the programs of these lists do so: a
program outside them that parts, or one inside them that no longer does, is a
violation.  The reasons are told under "Where the documents and the code part".

`NirRules` states what the lowering owes the machine, since nothing in the
compiler checks it and the machine reads a register that was never written as
unit: every block ends in a terminator that leads to a block of the function, a
`Phi` has a source for every block control can come from, registers suffice, and
a register is written on every path to where it is read (`DefinitelyAssigned`).
`LoweringKeepsRules` says for each program of the suite whether its module keeps
these rules.  `RunsCleanly` is what they are for: the run of a module that keeps
them stays in the code, meets no malformed block and reads nothing it has not
written.  The first is TLC's; the second is proved for every module (below).

## The module graph and name resolution

A world is a file system as the loader sees it; of an item's body the
references and the places they stand in are kept.  `Modules` resolves paths (own
directory, standard library, packages, points), loads depth first with one step
per edge (an edge is known by its place in the file, as the visit goes over all
items and follows the re-exports among them), checks visibility and aliases, and
links: what each file contributes, re-exports, aliases, and the rewriting of
qualified references.  `Classify` goes on with the linked program: which kind
each bare declaration is, found by recursion over a map that is walked in any
order.

`WorldOK`, in `Init`, is what the parser makes of any file: imports and items are
sequences, and so are the uses in an item, each a plain name, a member or a path.
It bounds neither the files nor what they say, so a theorem about `Spec` is
about every file system; the run's `MCSpec` starts in a few families of them.

*Run* `modules`, five families: every import and re-export graph of three
files; one import and one use in every form; two uses, plain and qualified, of
a name one module keeps private and another may export; one import that can be
found in each pair of places; every way three bare declarations call each other
(about 80000 states).  Three files are the least with a cycle that does not
include the root and with a diamond.  `LoadedInOrder` and `CyclesAreLoud`
compare the walk with reachability, `Reach` being the least set that holds the
roots and is closed under edges.  `KindsAreOrderFree` compares the kinds found
with every assignment of kinds that explains itself, that is in which each kind
follows from those of the calls in the body: the walk must find the one with the
most cycles, whatever order it took.  `NamesBind` says what a name written in a
file comes to: what it was meant for, or a hint; and what crosses between files
(`OnlyExportsCross`): the linked program defines all that files export, and of
what they keep private only what is a root's own or is called as an alias is.

## What is proved

Each theorem holds for every set of threads, processes, names, files and keys
and every value of the bounds, under the named assumptions of its module
(`ExecutorAssumption`, `StoreAssumption`, ...): finitely many threads, main is
not a task, a tree has a file, a model value that stands for nothing is no key.

**Executor.**  `IInv` has two halves.  The *thread* half ties control points to
locals and says of each live task that its handle sits in its spawner's
registry or in the join in progress, not both: the entry a join takes out is
`held`, and a watchdog puts it back under an id nobody else was given.  The
*gauge* half counts: `live` is the number of unjoined tasks and reservations in
flight, `depth` the number of threads between entering and leaving the bridge.
`LiveGaugeIsExact` alone is not inductive: that a join frees one slot for one
task needs that no other join holds the same task, which is the thread half.
The cap on live tasks needs that granted reservations are already within it
(`CountInv`), since a spawner checks after it increments.  `BridgeNeverRefuses`
needs that every thread on the bridge holds a different unjoined task, so the
bridge of the pool's size is never fuller than the pool; it is claimed while
`NOCT_WORKERS` does not change.  `Refinement` maps a task to its phase and its
answer; all but the creation of its thread, a cancel, its end and its join are
invisible in `TaskPool`.  It needs that a task in flight has no answer yet and
one that has ended has its answer for good (`ResultInv`), and that no flag is up
before its task has a slot (`FlagInv`); a cancel of a task that has ended raises
the flag and is a stutter, as the exit check has already been passed.  For `ExitZero`, `ExitInv` says
what the exit code already owes each of main's tasks: an awaited task that
failed has failed main, a drained one without a value has failed the drain, and
a live one is still in sight of the drain (`InSight`), in its list or in its
hands.  An orphan, whose handle died with a worker's registry, is out of sight
from the first, and the property does not speak of it.

`AwaitsEnd` says that no group of threads all wait for one another
(`NoCircularAwait`): the 30 s watchdog ends waits for a body that does not end,
and is never what breaks a deadlock.  A thread waits only for a task
it has spawned, and `ForestInv` says that who spawned whom closes no circle,
because a task has its spawner before it can spawn.  That every await *answers*
is liveness and stays with TLC.

**Store.**  Whoever does not take a step is a bystander.  Under a bystander a
file does one of three things: it stays, it goes, or it gets a stamp that is
*free*, in no record, note, listing or memo, so that nothing compares equal to
it (`Free`, `ClockInv`).  Hence a record that was read, an unpack's own record
and a hash in progress keep agreeing with the disk *wherever their stamps are
still there* (`Agrees`, `HashOf`), which is weaker than being right and is
what `FastPathIsSound` needs at the end, when all stamps match.  The listing
must precede the reading of the bytes: `HashOf` fails at once when the
fingerprint is taken afterwards, and that is the mutant of these properties.
`TrustInv` adds that without a cleaner all of it is the archive's: a temp tree
only grows, so what `HashTemp` records is complete.

Recovery (`AloneInv`) is about a process that has run alone since it began.
Every step takes `alone` from all processes but the actor, so interference need
not be considered; what must be said is what the process knows of the disk at
each of its steps.  Until its own tree is in place a put has the archive and an
unpacked tree, and knows whether there is an old tree to remove (`Putting`);
from then on the tree is the archive's, and the record precedes the pointer
(`Placed`); a verification compares what is still there (`ReadsTheDisk`).  The
only way into "failed" that is left is then a final verification of a tree that
is not the archive's, and `Placed` excludes it.

**HTTP server.**  An accepted connection is in one hand or one crew: `HandInv`
and `OwnerInv` need `LoopInv` (a thread outside `serve_loop` has no crew) and
`ConnInv` (what a connection's fate says of its worker).  `LateInv` carries a
connection accepted after the shutdown to the snapshot, where `RegistryInv` has
its handle gone.  Routing is stable because a snapshot is a prefix of the
server's list for ever (`RouteInv`): the first match in a prefix is the first
match in the list.  The mark is the maximum but for the threads about to raise
it (`GaugeInv`), which is how two atomics keep one true maximum.

For the refinement (`ServiceRefined`), `AnswerInv` says what a worker owes its
request at each of its steps: the handler that runs is the first one its
snapshot has for the key, and the status to be written is one the request and
that handler call for; `UnusedInv` that a handle not given out yet has no
routes, so that a listen adds an empty table.  A registration of a key that is
taken appends to the list and is a stutter; at the snapshot, `RegistryInv` turns
"the handle was found" into "the server is in service".  `JoinsEnd` is the
server's `AwaitsEnd`: handlers may serve in turn, so drains wait for workers
that drain, but a worker is in a crew before it has one (`CrewInv`).

**Heap.**  `HeapInv` is what holds of any program: ids are handed out once
(`RefsArePast`) and what an object refers to is older.  `CountIsHeld` needs in
addition that a counted reference is held in the heap where the object lives
(`ArcsAreHome`): spawn and await make borrowed copies, and that is why.

**Virtual machine.**  `RunInv` is an invariant of the call stack, whatever module
it belongs to: every frame is in the code (`InCode`); it was entered at its
function's entry, or from a block that leads to its block and handed over what
that block had (`Entered`); the top frame has written what its block starts with
and what the block has written so far (`HasWritten`); and a frame below the top
waits just behind a call whose result register is the one the frame above it
returns to (`Waits`), which is why a return completes the caller's writes.  What
a block starts with is a solution of the data-flow equations (`Assigned`); the
proof uses only that it satisfies them (`Justified`), so the number of `Passes`
that computes it bounds nothing but the modules for which it is found, and TLC
finds it for every one the suite lowers to well-formed blocks.
`MachineRunsCleanly` is about the machine started on any module whatever
(`VmRun`): the module of a run never changes, and if it keeps the rules the run
is clean.  Which programs the lowering makes such modules of is induction over
programs and stays with TLC.

**Keys.**  `EntryInv` says what each check has established about the entry in
hand, and survives the index moving because nothing is read twice; `AddInv`
that a running add has stored what it is done with.  `ExplicitRotation` has the
hypothesis `Nothing \notin Pins`: with an empty key directory two first fetches
race (below).

**Resolution.**  The comment in the code says "stable means closed";
`PassInv` is that argument: in a pass that has changed no pick, every package
visited is settled, because a new requirement would have come with a new pick.
`LowInv` says that no candidate is above a pick, since requirements only add up:
a pick never goes up until somebody publishes.  That bounds the passes
(`LimitInv`): a pass that changes something has picked a version that is new to
what has been tried (`Tried`: of each package, the indexed versions from its
pick up), and all of that is among `Choices`; so with fewer choices than passes
the last pass is quiet (`LimitIsAmple`).

**Project lock.**  `LockInv` follows one add through its four writes: while
nobody interferes, the manifest it writes is the one it read with its request in
it, and what it resolved is the closure of that (`Asking`); what the old lock
held of the other requests is still there to be kept (`FoundHolds`), until the
new lock is made, which is then current (`ResolvedIsCurrent`).  The closure is a
constant operator of the requests, the least set that holds the direct ones and
what they need, so no induction is called for: that each direct request is in
it, and that all of it is requested (`ClosureIsRequested`), is enough for both
directions of the staleness check.  The proof needed a hypothesis that the
property did not have, and TLC confirmed it once both packages could be written
by hand (`AddKeepsRequired` below).

**Modules.**  `LoadInv` is the white-grey-black invariant of a depth-first
search, with the diagnostics in it: of every file on the stack the edges it has
passed are answered, by a stored file or by a report (`BehindIsStored`), of a
stored file all of them are, by files stored earlier (`StoredInOrder`); a file on
the stack is reached from every one below it (`Chained`), so an edge back to it
closes a cycle, and nothing else reports one.  In the other direction, if no
cycle was reported all edges of the stored files lead to earlier ones, and the
order in which they are stored excludes a cycle.  `Reach` is defined by closed
sets and not by paths, so both directions are arguments about one set.

**Names.**  For `NamesBind` the linked program is described entry by entry: each
is an item a file contributes, a copy a re-export makes, or a copy under an
import's other name (`LinkElements`), and what a file exports is among them
(`ExportsAreDefined`).  That the rewriter finds the file an item came from is
arithmetic on the joined source (`BasesGrow`, `OwnerIs`): the extents of the
files do not overlap.  It holds of the entries a file contributes itself only;
the copies carry offsets local to their file (below).  `HintInv` says that the
hints of a load are exactly those its check gives.

**Kinds.**  `WalkInv` says of what is open that each declaration has passed the
calls before its own and waits for the one above it (`OpenIsChained`), of what is
known that its kind is justified by the calls in its body (`KindsGrounded`), and
of any kinds that explain themselves that they agree with those found but for
the cycles (`KindsLeast`).  `KindsGrounded` alone is not inductive: a declaration
that calls one still pending becomes a cycle at once, and until the walk has
unwound, the kind that justifies it is only promised (`Unwinding`).

| theorem | module | establishes |
|---|---|---|
| `ThreadInvariant`, `InductiveInvariant`, `TypeCorrect` | `ExecutorProofs` | the invariants; the unsigned gauges never wrap |
| `HandlesAreNeverLost`, `NoRunningTaskIsDetached` | `ExecutorProofs` | `HandleIsInOnePlace`, `JoinedTasksHaveStopped` (in no run) |
| `LiveGauge`, `BridgeGauge` | `ExecutorProofs` | the gauges are exact |
| `NoOversubscription`, `BridgeSizing`, `Sizing` | `ExecutorProofs` | `LiveWithinCap`, `BridgeNeverRefuses`, `PoolIsSized` |
| `Refinement`, `ExitZero` | `ExecutorProofs` | `ImplementsTaskPool` (`NOCT_WORKERS` may change), `ExitZeroIsClean` |
| `AwaitsEnd` | `ExecutorProofs` | `NoCircularAwait` |
| `Invariance`, `TypeCorrect` | `StoreProofs` | `IInv`, `TypeOK` |
| `FastPathSound`, `MemoSound`, `TrustRoot`, `AcceptedGenuine` | `StoreProofs` | `FastPathIsSound` (cleaners included), `MemoIsSound`, `TrustRootHolds`, `AcceptedTreeIsGenuine` |
| `UndisturbedRecovers` | `StoreProofs` | `RecoversWhenUndisturbed` |
| `TypeCorrect`, `AcceptedOwned`, `RoutesAreStable`, `GaugesExact` | `HttpServerProofs` | `TypeOK`, `AcceptedIsOwned`, `RoutingIsStable`, `GaugesAreExact` |
| `ServiceRefined`, `JoinsEnd` | `HttpServerProofs` | `ImplementsService`, `NoCircularJoin` |
| `TypeCorrect`, `HeapSound`, `FreedStaysFree`, `CountsAreHeld` | `RuntimeProofs` | `TypeOK`, `HeapIsSound`, `NoRecycling`, `CountIsHeld` |
| `MachineRunsCleanly` | `RuntimeProofs` | `RunsCleanly`, of the machine on any module |
| `TypeCorrect`, `StoredSigned`, `LockedStored`, `ExplicitRotation` | `PublisherKeysProofs` | `TypeOK`, `StoredIsSigned`, `LockedIsStored`, `RotationIsExplicit` |
| `TypeCorrect`, `QuietLockIsSound`, `ForeignOptedIn`, `PicksDescend` | `ResolverProofs` | `TypeOK`, `LockIsSound`, `ForeignOnlyByOptIn`, `PicksMoveDown` |
| `LockInvariant`, `TypeCorrect` | `ProjectLockProofs` | `LockInv`, `TypeOK` |
| `LockedStaysBuildable`, `StaleIsRepaired` | `ProjectLockProofs` | `AddKeepsLocked`, `RegistryAddRepairs` |
| `LoadInvariant`, `ClassifyInvariant` | `ModulesProofs` | `LoadInv`, `ClassifyInv` |
| `StoredInLoadOrder`, `LoadIsCompleteAndLoud` | `ModulesProofs` | `LoadedInOrder`, `CyclesAreLoud` |
| `WrittenNamesBind`, `ClassifiedOrderFree` | `ModulesProofs` | `NamesBind`, `KindsAreOrderFree` |

Only model-checked:

- liveness (`RunAlwaysReturns`, `AwaitAlwaysAnswers`,
  `ServeReturnsAfterShutdown`, `AcceptedIsSettled`, `Halts`), which the prover
  does not reach under fairness;
- that the two back ends agree, that an accepted program meets no wrong operand,
  that a lowered module keeps the rules, and what the formatter keeps
  (`AgreesWithInterp`, `AcceptedIsSound`, `LoweringKeepsRules`,
  `FormatsWhatItReads`, `KeepsWords`): they are about recursive
  functions over trees, and induction over data is out of the prover's reach.

Some theorems state what no run checks, as another of their component's
properties contains or accompanies it: `RoutingIsStable`, `NoRecycling`,
`MemoIsSound`, `LiveWithinCap`, `BridgeNeverRefuses`, `JoinedTasksHaveStopped`,
`NoCircularAwait`, `NoCircularJoin`.

What the closure of the resolver and the set a load reaches have in common with
those is recursion in the code; both are defined here as least closed sets, over
which the proofs need no induction on the data, and where an argument does
descend (along the stored files, along the bases of the joined source) it takes
a least counterexample among natural numbers (`Least`, `Greatest`).

## Where the documents and the code part

Each of these was met while modelling.  Where a definition is named, it is in
the module and states the claim as the document or comment makes it; it is in
no run, because the model of the code does not satisfy it.

*Executor.*
- `NoChildOutlivesItsTask`: "No child task outlives its parent scope"
  (docs/CONCURRENCY.md:45-47).  A task that ends with children drops their
  handles with its registry (lib.rs:1192), undrained; their slots are gone too.
- `DrainReportsRealFailures`: a task is taken for cancelled "when `v` is the
  pinned cancelled-class value" (lib.rs:790); the test is whether a string
  error ends in "cancelled" (796), so the drain passes over a real failure.
- `HandlesAreUniqueInARun`: handles are "NEVER reused" within a run
  (lib.rs:578-579); each registry starts again at 1 (622), so a handle passed to
  another task names another task there.
- `PeakCountsLiveTasks`: the high-water mark "for live executor tasks"
  (lib.rs:659) is raised by a spawn that is then refused (1139).
- The comment on `env_set` (lib.rs:1636) speaks of a single-threaded
  interpreter, while workers read the environment concurrently; and
  docs/CONCURRENCY.md section 3 lets an error fail the awaiting scope with the
  same value, while `join_task` hands an uncaught error back as a result.

*Store.*
- `RecordsAttestTheArchive`: a clean that moves `trees/` while `put` unpacks
  below it takes the files already unpacked; `put` recreates the directory for
  the rest and records what it finds (store.rs:425, 434).  Hence the trust root
  is claimed without cleaners only.
- `BuildsReadWholeTrees`: "never a half-verified tree a build will read"
  (store.rs:389-392).  A `put` that found no record removes, file by file, a tree
  that another `put` has recorded since (452).
- `BuildsCompileTheLockedTree`: the tree compiled is looked up by package name;
  the lock is not consulted (modules.rs:998).

*HTTP server.*
- `AcceptedRunToResponse`: "already-accepted connections run to response
  completion" (docs/PHASE5_PRODUCTION.md:81-83).  One accepted just before the
  shutdown finds its routes gone and is dropped (lib.rs:2310).
- `StalledPeerIsNotAnswered`: a peer that never finishes its request "is not
  owed a response" (http_wire.rs:56-57) but gets a 400 (lib.rs:174).

*Heap.*  An upgrade of a weak reference raises no count (arc.rs:173) although the
instruction's comment says it yields an owned one (instr.rs:83-85); the model
calls such a reference borrowed, and `CountIsHeld` counts none of them.
`unowned_create` on a freed object traps in the machine (vm.rs:256-265) and not
in the interpreter (lib.rs:2651).

*Registry client.*
- `MismatchMeansChanged`: the mismatch error says the key changed
  (registry.rs:39-40); two first fetches of one key id, each finding no file, may
  also report it, and a file torn by a crash between emptying and writing reads
  as another key (588, 597-598).  Of two first fetches that both find no file the
  second overwrites the first one's key, which no rotation asked for; the run
  keeps a key on record, so `RotationIsExplicit` does not speak of this.
- `FailedAddWritesNothing`: a failed add leaves everything as it was
  (cmd_add.rs:14, tests/registry.rs:245), but the key is recorded before the
  signature under it is checked (registry.rs:607).

*Resolution.*
- `LockIsClosure`: the requirements of a version given up for a lower one stay
  (registry.rs:448), so packages are locked that nothing locked requires (353).
- `NoFalseConflicts`: for the same reason a conflict is reported (403) where a
  solution exists, against "no backtracking false-conflicts" (25).

*Project lock.*
- `AddKeepsAccepted`: the gate accepts path dependencies written by hand without
  a lock (registry.rs:730); the next add writes a lock without them, which is
  then stale (cmd_add.rs:415), and a lock that is there is checked.
- `AddReestablishes`: a lock that does not parse is to be re-established by
  `noct add` (cmd_get.rs:124).  Both modes start from an empty lock instead
  (cmd_add.rs:404), so the entries of the other packages the manifest asks for
  are lost: all of them after a path add, the path dependencies' after a registry
  add, and the new lock is stale.
- `AddKeepsRequired`: "still-required path entries" are merged into the new lock
  (cmd_add.rs:404).  An add from the registry keeps those of the table
  `dependencies` only (415), while the staleness check asks for a path request of
  either table (nestpkg lib.rs:1363).  So a locked path package in
  `dev_dependencies` loses its entry when another package is added, and the
  project no longer builds; another add from the registry does not restore it.
  Hence the hypothesis `PathsAreDependencies` of `AddKeepsLocked`.
- The resolver locks the whole closure (noct-cli/tests/registry.rs:213), while
  the staleness check counts entries nobody requested as stale (nestpkg
  lib.rs:1410), and a path request of a name the closure also locks puts two
  entries of one name in the lock, which then does not parse.
  `ClosureIsRequested` is the exact condition, a hypothesis of both properties.

*Back ends*: the programs of `MCParting` (P), `MCMisjudged` (M) and `MCBreaking`
(B).
- `SplitArm` (P, B): an `if` branches to the block that is current when its arm
  has been lowered (lowering.rs:975, 990), so of an arm that holds a loop, a match
  or an expression that splits only what follows it runs, against docs/NIR.md
  section 4.1.  Where the operand of a `?` is skipped in this way, the unwrap
  behind it meets a register without an option in it (M).  Some of these modules
  keep the rules all the same (`Harmless`).
- `Chains` (P, B): a chain of `else if` is an `if` in the last arm, with the same
  outcome in the machine.  Before that it becomes a list of statements
  (typeck/mod.rs:1003), so that more than one branch may run, in both back ends
  alike (`OneBranchRuns`; docs/SYNTAX.md:249-250).
- `Unwritten` (P, B): an inner `let` of an outer name overwrites it (669); a
  variant without a payload, used by name, is a register nobody writes (1376), so
  two of them compare equal.
- `Computed` (P): an assignment to a field writes to the register the field was
  loaded into (701).  The comment at 1780 speaks of a special case for a loop
  over a range; there is none, and a range has no length, so the loop runs no
  round.  An index out of range reads as unit in the machine (vm.rs:1241) and is
  an error in the interpreter; a remainder by zero crashes the machine
  (vm.rs:2034), where the interpreter reports it.
- `AnyField` (P, M), `Operands1` (M, two of them P): the checker lets a primitive
  have any field, and does not look at the operands of `!`, `-` and comparisons
  (typeck 1440), against "no operand of the wrong type" (typeck/mod.rs:3-10).
- `LocalFn` (M): a local function passes the checker and is lost (typeck 1118;
  hir/items.rs:3-4).
- `TrueAsSome` (P, M), `OkAsSome` (P): a pattern `Some(y)` is accepted for any
  value; the machine takes whatever is true for a `Some`, the interpreter does not.

*Formatter.*  The anchors are fmt_v2.rs:33 and docs/EXECUTION_GUIDE.md:491-497
(formatting never changes the program).  `MCAwkward` lists eleven sources that
are valid and that the formatter refuses or panics on: a call with a block as a
function's value, `(a?)?`, `"\{a"`, type parameters of a trait member, of a local
structure, of a local function, a local function's result type, `| | a`, a call
with an empty block, a parenthesised call with a labelled argument before a
block, and `(state) = 3`.  `MCLossy` lists six whose words are lost without an
error, as the parser drops them: a tuple, `if let`, the type of a state, a
variant's field name, `async` and `managed`.  Met besides: a guard that ends in
a bare name before an inline body does not parse; `mod X:` never parses; an
unterminated block comment swallows the rest in silence; a block comment before
code on an indented line makes the line count as not indented; `return }` and
`break }` report E0106; recovery skips the keyword of the next declaration.

*Modules and names.*
- `owner()` (modules.rs:796) attributes re-exported and aliased copies, whose
  offsets are local to their file, to another file, so that the rewriter skips
  them or goes too far (513-523); a barrel over a module that has imports of its
  own leaves the copy's qualified references unrewritten.
- `export import` pushes a second definition of names the dependency has
  contributed already (290; 357, docs/MODULES.md:116-118).
- The standard library is "searched LAST" and "can never change how existing
  code resolves" (918-921), but its flat file comes before a project's directory
  module `math/mod.nv`; and `import ui` also matches an entry `ui-kit-1`, in the
  order of `read_dir` (965).
- Rewriting is not "root-scoped" as docs/MODULES.md has it (545); qualifiers are
  global and merged across files.
- `HintsAreForMisses`: a W0101 "only fires for names no file in the graph exports
  and no visible binding defines" (modules.rs:118-120).  Of the flat form this is
  so; the qualified form (184-209) asks neither, and `m.x` of a private `x` is
  hinted at although another module exports `x`.
- W0101 hints are given for private items that roots define after all, and for
  names an import's alias defines (126).  An item's alias works in the last root
  only (411); `export import m::Item` contributes nothing, in silence; private
  helpers, impls and derives of a dependency are dropped at link;
  docs/MODULES.md section 4 lists a search of `.noct/packages` that is gone; of
  two bare declarations of a name the later replaces the earlier
  (resolver/mod.rs:34, 105).

## Not modelled

- The HTTP table of compiled programs (`runtime-native`): nothing listens for
  it in this version.  The tickless timer heap: only its own tests call it.  The
  borrow checker: compiled and exported, and no command or pass runs it.  A
  model of these would say nothing about any program.
- Database handles and the pool: a table per interpreter over a foreign
  library, used by one thread.  JSON and random handles: the same without the
  library.
- The native backend: code generation for a third-party library in which its
  state lives.
- Analysis and the language server: one request loop over one document map;
  the queries are pure functions over the trees modelled here.
- Manifests and lock files as text: what is asked of them is modelled where it
  is asked, in `ProjectLock` and `Resolver`.
- Command-line drivers, linter, documentation, scaffolding, diagnostics: option
  parsing, wording and layout.
- Programs in the language itself (`stdlib/`, `libs/`): their built-ins are the
  executor's, the server's and the heap's.
- Inside modelled components: placing of comments (fmt_v2.rs 233-504), the check
  for tabs (111-142) and `--v1`; closures, tuples, floats and characters in the
  back ends; `derive`; what the notes of the sections above name.

## What could follow

`vendor` and `read_archive` in the store; closures and host calls in the two
back ends, where the two accounts could part as well; derive; the placing of comments, whose gate is only that
none is lost.
