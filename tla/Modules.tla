------------------------------ MODULE Modules ------------------------------
(***************************************************************************)
(* src/compiler/src/modules.rs: from the files named on a command line to  *)
(* one flat program.                                                       *)
(*                                                                         *)
(* A world is a file system as the loader sees it.  A path is a sequence   *)
(* of segments without the extension; a file holds its imports and its     *)
(* items.  Of an item's body only the references in it are kept, each with *)
(* the place it stands in, because that is all the collectors and the      *)
(* rewriter of this file look for.                                         *)
(*                                                                         *)
(*   world.files     path -> [imports, items]                              *)
(*   world.roots     the files named, in order                             *)
(*   world.std       the standard library's directory, or None             *)
(*   world.packages  the package roots handed over, in search order        *)
(*   world.listing   directory -> its entries in the order read_dir gives  *)
(*   world.points    package root -> its pointers in that order            *)
(*   world.packaged  <<entry, package>>: the entry is the package's name   *)
(*                   or starts with it and a dash                          *)
(***************************************************************************)
EXTENDS Naturals, Sequences, SequencesExt

VARIABLES
  world,        \* the file system: never changes
  answers,      \* file -> path asked for -> what resolve_path finds
  phase,        \* "load", "check", "link", "resolve" or "failed"
  todo,         \* roots not visited yet
  stack,        \* files being visited, innermost last: [path, next]
  visited,      \* path -> "active" or "done"
  files,        \* ModuleGraph.files: paths in the order they were completed
  roots,        \* ModuleGraph.roots
  diagnostics,  \* [code, file, at]
  program       \* the linked items: [own, at, item]; own unless it is a copy

vars == <<world, answers, phase, todo, stack, visited, files, roots, diagnostics, program>>

None == <<>>
NoName == ""

-----------------------------------------------------------------------------
(* Where an import points *)

\* The directory of a file, and every directory above it, nearest first.
Above(dir) == [i \in 1 .. Len(dir) + 1 |-> SubSeq(dir, 1, Len(dir) + 1 - i)]

Entries(dir) == IF dir \in DOMAIN world.listing THEN world.listing[dir] ELSE <<>>

\* Trees named after a package, or after the package and a version.
PackageTrees(root, package, module) ==
  LET Answers(entry) == <<entry, package>> \in world.packaged
      trees == SelectSeq(Entries(root), Answers)
  IN [i \in DOMAIN trees |-> root \o <<trees[i], "lib">> \o module]

\* Trees a store's pointers name.  A pointer that leaves the root is ignored.
PointerTrees(root, package, module) ==
  LET Answers(point) == <<point.name, package>> \in world.packaged /\ ~point.escapes
      points == IF root \in DOMAIN world.points
                THEN SelectSeq(world.points[root], Answers) ELSE <<>>
  IN [i \in DOMAIN points |-> root \o points[i].tree \o <<"lib">> \o module]

\* What one directory on the way up offers.  A bare name reaches a package's
\* entry module, and has no sibling of its own.
OfferedAt(dir, parts) ==
  LET package == Head(parts)
      bare == Len(parts) = 1
      module == IF bare THEN <<"main">> ELSE Tail(parts)
      siblings == IF bare THEN <<>>
                  ELSE <<dir \o <<package, "lib">> \o module,
                         dir \o <<"packages", package, "lib">> \o module>>
      rooted == [i \in DOMAIN world.packages |->
                   PackageTrees(world.packages[i], package, module)
                     \o PointerTrees(world.packages[i], package, module)]
  IN <<dir \o <<"lib">> \o parts>> \o siblings
       \o PackageTrees(dir \o <<"vendor">>, package, module) \o FlattenSeq(rooted)

Candidates(importer, parts) ==
  LET dir == Front(importer)
      above == Above(dir)
  IN <<dir \o parts>>
       \o FlattenSeq([i \in DOMAIN above |-> OfferedAt(above[i], parts)])
       \o (IF world.std = None THEN <<>> ELSE <<world.std \o parts>>)

\* The same bases read as directories: a/b/b.nv, then a/b/mod.nv.
DirectoryModules(bases, last) ==
  FlattenSeq([i \in DOMAIN bases |->
                <<Append(bases[i], last), Append(bases[i], "mod")>>])

FirstFile(paths) ==
  LET IsFile(path) == path \in DOMAIN world.files
      found == SelectSeq(paths, IsFile)
  IN IF found = <<>> THEN None ELSE Head(found)

ResolvePath(importer, parts) ==
  LET bases == Candidates(importer, parts)
      flat == FirstFile(bases)
  IN IF parts = <<>> THEN None
     ELSE IF flat # None THEN flat
     ELSE FirstFile(DirectoryModules(bases, Last(parts)))

\* The whole path as a module if it is one of those present, or else all but
\* the last segment as the module and the last as one of its items.  Loading
\* asks it of every file, linking of the loaded ones.
ResolveImport(importer, import, present) ==
  LET exact == answers[importer][import.path]
      module == answers[importer][Front(import.path)]
  IN IF exact \in present THEN [module |-> exact, item |-> NoName]
     ELSE IF module \in present THEN [module |-> module, item |-> Last(import.path)]
     ELSE [module |-> None, item |-> NoName]

-----------------------------------------------------------------------------
(* What a file says *)

Imports(file) == world.files[file].imports
Items(file) == world.files[file].items

Unnamed == {"impl", "reexport", "export_all", "export_except"}
ItemName(item) == IF item.kind \in Unnamed THEN NoName ELSE item.name
ExportedName(item) == IF item.exported THEN ItemName(item) ELSE NoName

Named(file) == {ItemName(Items(file)[i]) : i \in DOMAIN Items(file)} \ {NoName}
Exported(file) == {ExportedName(Items(file)[i]) : i \in DOMAIN Items(file)} \ {NoName}
Private(file) == Named(file) \ Exported(file)

\* Kinds an import may give another name: the others carry more than a name.
Aliasable == {"fn", "task", "struct", "enum", "const", "bare"}

\* The edges a visit follows, by their place in the file: the imports, then the
\* re-exports among the items.
Extent(file) == Len(Imports(file)) + Len(Items(file))
Edges(file) ==
  LET first == Len(Imports(file))
      forwards == {j \in 1 .. Len(Items(file)) : Items(file)[j].kind = "reexport"}
  IN [i \in 1 .. first \cup {first + j : j \in forwards} |->
        IF i <= first THEN [import |-> Imports(file)[i], forwarded |-> FALSE]
        ELSE [import |-> Items(file)[i - first].import, forwarded |-> TRUE]]

Target(file, i) == ResolveImport(file, Edges(file)[i].import, DOMAIN world.files)

\* `export import m::Item` names an item: it is not a module to load.
Follows(file, i) ==
  /\ Target(file, i).module # None
  /\ Edges(file)[i].forwarded => Target(file, i).item = NoName

IsStd(file) == world.std # None /\ IsPrefix(world.std, file)

-----------------------------------------------------------------------------
(* Loading *)

\* The paths a file's imports and re-exports ask for: whole, and for an item.
Asked(file) ==
  LET paths == {Edges(file)[i].import.path : i \in DOMAIN Edges(file)}
  IN paths \cup {Front(path) : path \in paths}

\* What the parser makes of a file, and the command line of the roots.
IsSequence(s) == s \in Seq(ToSet(s))
IsUse(use) ==
  /\ {"form", "qualifier", "name"} \subseteq DOMAIN use
  /\ use.form \in {"name", "member", "path"}
IsItem(item) ==
  /\ {"kind", "name", "exported", "uses"} \subseteq DOMAIN item
  /\ IsSequence(item.uses) /\ \A u \in DOMAIN item.uses : IsUse(item.uses[u])
WorldOK ==
  /\ IsSequence(world.roots)
  /\ \A file \in DOMAIN world.files :
       /\ IsSequence(Imports(file)) /\ IsSequence(Items(file))
       /\ \A i \in DOMAIN Items(file) : IsItem(Items(file)[i])

Init ==
  /\ WorldOK
  /\ answers = [file \in DOMAIN world.files |->
                  [parts \in Asked(file) |-> ResolvePath(file, parts)]]
  /\ phase = "load"
  /\ todo = world.roots
  /\ stack = <<>>
  /\ visited = <<>>
  /\ files = <<>>
  /\ roots = ToSet(world.roots)
  /\ diagnostics = {}
  /\ program = <<>>

Loading == phase = "load" /\ stack # <<>>
Top == Last(stack)
Edge == Edges(Top.path)[Top.next]
At == Target(Top.path, Top.next)
HasEdge == Top.next \in DOMAIN Edges(Top.path)
AtEnd == Top.next > Extent(Top.path)
StateOf(path) == IF path \in DOMAIN visited THEN visited[path] ELSE "new"

Advanced == [stack EXCEPT ![Len(stack)].next = @ + 1]
Mark(path, state) ==
  [p \in DOMAIN visited \cup {path} |-> IF p = path THEN state ELSE visited[p]]
Report(code) ==
  diagnostics \cup {[code |-> code, file |-> Top.path, at |-> Edge.import.path]}

\* Begin a file: it is active until all it imports is done, and a file of the
\* standard library becomes a root.  A file that cannot be read ends the load.
Begin(path, below) ==
  IF world.files[path].readable
  THEN /\ stack' = Append(below, [path |-> path, next |-> 1])
       /\ visited' = Mark(path, "active")
       /\ roots' = IF IsStd(path) THEN roots \cup {path} ELSE roots
       /\ UNCHANGED phase
  ELSE phase' = "failed" /\ UNCHANGED <<stack, visited, roots>>

VisitRoot ==
  /\ phase = "load" /\ stack = <<>> /\ todo # <<>>
  /\ todo' = Tail(todo)
  /\ IF Head(todo) \notin DOMAIN world.files
     THEN phase' = "failed" /\ UNCHANGED <<stack, visited, roots>>
     ELSE IF StateOf(Head(todo)) # "new"
     THEN UNCHANGED <<phase, stack, visited, roots>>
     ELSE Begin(Head(todo), <<>>)
  /\ UNCHANGED <<world, answers, files, diagnostics, program>>

Unresolved ==
  /\ Loading /\ HasEdge /\ At.module = None
  /\ diagnostics' = Report("E0101")
  /\ stack' = Advanced
  /\ UNCHANGED <<world, answers, phase, todo, visited, files, roots, program>>

\* Items that are no re-exports, and a re-export of one item, are passed over.
PassOver ==
  /\ Loading /\ ~AtEnd
  /\ HasEdge => At.module # None /\ ~Follows(Top.path, Top.next)
  /\ stack' = Advanced
  /\ UNCHANGED <<world, answers, phase, todo, visited, files, roots, diagnostics, program>>

Cycle ==
  /\ Loading /\ HasEdge /\ Follows(Top.path, Top.next)
  /\ StateOf(At.module) = "active"
  /\ diagnostics' = Report("E0100")
  /\ stack' = Advanced
  /\ UNCHANGED <<world, answers, phase, todo, visited, files, roots, program>>

Descend ==
  /\ Loading /\ HasEdge /\ Follows(Top.path, Top.next)
  /\ StateOf(At.module) = "new"
  /\ Begin(At.module, stack)
  /\ UNCHANGED <<world, answers, todo, files, diagnostics, program>>

\* The item an import names must be exported, or its module a standard one.
Reaches(file, item, name) ==
  \/ ExportedName(item) = name
  \/ IsStd(file) /\ ItemName(item) = name

ImportFault(import, module, name) ==
  LET items == Items(module)
      reached == SelectSeq(items, LAMBDA item : Reaches(module, item, name))
  IN IF name = NoName THEN NoName
     ELSE IF reached = <<>>
     THEN IF name \in Named(module) THEN "E0102" ELSE "E0103"
     ELSE IF import.alias # NoName /\ Head(reached).kind \notin Aliasable THEN "E0109"
     ELSE NoName

\* The module is there: only an import, not a re-export, is asked for its item.
Imported ==
  /\ Loading /\ HasEdge /\ Follows(Top.path, Top.next)
  /\ StateOf(At.module) = "done"
  /\ LET fault == ImportFault(Edge.import, At.module, At.item)
     IN diagnostics' = IF Edge.forwarded \/ fault = NoName THEN diagnostics ELSE Report(fault)
  /\ stack' = Advanced
  /\ UNCHANGED <<world, answers, phase, todo, visited, files, roots, program>>

\* Mutant: the importer is stored before what it imports.
LeaveFirst ==
  /\ Loading /\ AtEnd
  /\ files' = <<Top.path>> \o files
  /\ visited' = Mark(Top.path, "done")
  /\ stack' = Front(stack)
  /\ UNCHANGED <<world, answers, phase, todo, roots, diagnostics, program>>

\* Mutant: a file that is left stays active.
LeaveActive ==
  /\ Loading /\ AtEnd
  /\ files' = Append(files, Top.path)
  /\ stack' = Front(stack)
  /\ UNCHANGED <<world, answers, phase, todo, visited, roots, diagnostics, program>>

Leave ==
  /\ Loading /\ AtEnd
  /\ files' = Append(files, Top.path)
  /\ visited' = Mark(Top.path, "done")
  /\ stack' = Front(stack)
  /\ UNCHANGED <<world, answers, phase, todo, roots, diagnostics, program>>

-----------------------------------------------------------------------------
(* The two checks over the whole graph *)

Loaded == ToSet(files)

\* A file's references.  Each is [form, place, qualifier, name]: the form is
\* "name" for a bare name, "member" for q.n and "path" for q::n; the place is
\* "body", "header" (types and defaults) or "method" (inside a trait or impl).
References(file) == UNION {ToSet(Items(file)[i].uses) : i \in DOMAIN Items(file)}

\* A member access uses its object, a path its last segment.
UsedNames(file) ==
  {IF use.form = "member" THEN use.qualifier ELSE use.name : use \in References(file)}

\* Pairs q.n outside traits, impls, types and defaults.
QualifiedUses(file) ==
  {use \in References(file) : use.form = "member" /\ use.place = "body"}

\* Names bound by functions, bare declarations, tasks, constants and modules:
\* their own, their parameters' and their locals', but no closure's parameter
\* and nothing inside an impl.
BoundNames(file) ==
  UNION {{Items(file)[i].name} \cup Items(file)[i].binds :
           i \in {j \in DOMAIN Items(file) :
                    Items(file)[j].kind \in {"fn", "bare", "task", "const", "mod"}}}

\* The import as the linker sees it: its module, if it names no item.
ModuleOf(file, import) ==
  LET found == ResolveImport(file, import, Loaded)
  IN IF found.item = NoName THEN found.module ELSE None

Qualifier(import) == IF import.alias # NoName THEN import.alias ELSE Last(import.path)

ModuleImports(file) ==
  {import \in ToSet(Imports(file)) : ModuleOf(file, import) # None}

GraphExports == UNION {Exported(file) : file \in Loaded}

FlatHints(file) ==
  {name \in UsedNames(file) \ (Named(file) \cup BoundNames(file) \cup GraphExports) :
     \E import \in ModuleImports(file) : name \in Private(ModuleOf(file, import))}

QualifiedHints(file) ==
  {use.name : use \in
     {u \in QualifiedUses(file) :
        \E import \in ModuleImports(file) :
          /\ u.qualifier = Qualifier(import)
          /\ u.name \in Private(ModuleOf(file, import))}}

Hints(file) ==
  {[code |-> "W0101", file |-> file, at |-> <<name>>] :
     name \in FlatHints(file) \cup QualifiedHints(file)}

IdleExclusions(file) ==
  {[code |-> "E0110", file |-> file, at |-> <<name>>] :
     name \in UNION {ToSet(Items(file)[i].excluded) :
                       i \in {j \in DOMAIN Items(file) :
                                Items(file)[j].kind = "export_except"}} \ Exported(file)}

Check ==
  /\ phase = "load" /\ stack = <<>> /\ todo = <<>>
  /\ diagnostics' = diagnostics
       \cup UNION {Hints(file) \cup IdleExclusions(file) : file \in Loaded}
  /\ phase' = "link"
  /\ UNCHANGED <<world, answers, todo, stack, visited, files, roots, program>>

-----------------------------------------------------------------------------
(* Linking *)

\* Offsets in the joined source, with one line to an import or an item.
Size(file) == Extent(file) + 1
Bases ==
  LET base[i \in DOMAIN files] == IF i = 1 THEN 0 ELSE base[i - 1] + Size(files[i - 1])
  IN base
Base(i) == Bases[i]
Offset(file, j) == Len(Imports(file)) + j

\* The file an offset belongs to: the last whose base is not beyond it.
Owner(offset) ==
  files[CHOOSE i \in DOMAIN files :
          /\ Base(i) <= offset
          /\ \A j \in DOMAIN files : j > i => Base(j) > offset]

\* An item with where its span says it stands: copies keep the offset they
\* have in the file they are copied from.
Copy(file, j) ==
  [own |-> FALSE, at |-> Offset(file, j),
   item |-> [Items(file)[j] EXCEPT !.exported = FALSE]]
Contributed(i, j) ==
  LET copy == Copy(files[i], j) IN [copy EXCEPT !.own = TRUE, !.at = @ + Base(i)]

\* Every exported item of a re-exported module, unless it names an item.
Forwarded(file, import) ==
  LET module == ModuleOf(file, import)
      items == IF module = None THEN <<>> ELSE Items(module)
  IN FlattenSeq([j \in DOMAIN items |->
                   IF ExportedName(items[j]) # NoName THEN <<Copy(module, j)>> ELSE <<>>])

\* What the item j of the file i puts into the program.
Linked(i, j) ==
  LET file == files[i]
      item == Items(file)[j]
  IN IF item.kind = "reexport" THEN Forwarded(file, item.import)
     ELSE IF item.kind \in {"export_all", "export_except"} THEN <<>>
     ELSE IF file \in roots \/ item.exported THEN <<Contributed(i, j)>>
     ELSE <<>>

Flat ==
  FlattenSeq([i \in DOMAIN files |->
                FlattenSeq([j \in DOMAIN Items(files[i]) |-> Linked(i, j)])])

\* `import m::item as name`, in the last root only.
RootPlaces == {i \in DOMAIN files : files[i] \in roots}
LastRoot == files[CHOOSE i \in RootPlaces : \A j \in RootPlaces : j <= i]

Renamed(file, import) ==
  LET found == ResolveImport(file, import, Loaded)
      items == IF import.alias = NoName \/ found.item = NoName THEN <<>> ELSE Items(found.module)
      Picked(item) == ExportedName(item) = found.item /\ item.kind \in Aliasable
      Rename(copy) == [copy EXCEPT !.item.name = import.alias]
  IN FlattenSeq([j \in DOMAIN items |->
                   IF Picked(items[j]) THEN <<Rename(Copy(found.module, j))>> ELSE <<>>])

ItemAliases ==
  IF RootPlaces = {} THEN <<>>
  ELSE FlattenSeq([k \in DOMAIN Imports(LastRoot) |-> Renamed(LastRoot, Imports(LastRoot)[k])])

\* What each qualifier reaches.  A qualifier is a path, because the path above
\* a module counts as one too; it is the whole program's, not a file's.
QualifierPaths(import) ==
  {<<Qualifier(import)>>} \cup (IF Len(import.path) >= 2 THEN {Front(import.path)} ELSE {})

ModuleAliases ==
  LET Reached(file, import) ==
        {[path |-> path, names |-> Exported(ModuleOf(file, import))] :
           path \in QualifierPaths(import)}
      reached == UNION {UNION {Reached(file, import) : import \in ModuleImports(file)} :
                          file \in Loaded}
  IN [path \in {r.path : r \in reached} |->
        UNION {r.names : r \in {q \in reached : q.path = path}}]

UsesOwnQualifier(file) ==
  \E import \in ModuleImports(file) : Exported(ModuleOf(file, import)) # {}

\* q.n becomes n if n is an export under q; q::n becomes n if q is known.
Rewritten(use, aliases) ==
  LET known == <<use.qualifier>> \in DOMAIN aliases
      gone == \/ use.form = "member" /\ known /\ use.name \in aliases[<<use.qualifier>>]
              \/ use.form = "path" /\ known
  IN IF gone THEN [use EXCEPT !.form = "name", !.qualifier = NoName] ELSE use

\* Mutant: only roots are rewritten.
IsRewrittenRoot(entry) == Owner(entry.at) \in roots

IsRewritten(entry) ==
  Owner(entry.at) \in roots \/ UsesOwnQualifier(Owner(entry.at))

RewriteItem(entry, aliases) ==
  IF IsRewritten(entry)
  THEN [entry EXCEPT !.item.uses = [k \in DOMAIN @ |-> Rewritten(@[k], aliases)]]
  ELSE entry

Link ==
  /\ phase = "link"
  /\ LET aliases == ModuleAliases
         flat == Flat \o ItemAliases
     IN program' = [k \in DOMAIN flat |-> RewriteItem(flat[k], aliases)]
  /\ phase' = "resolve"
  /\ UNCHANGED <<world, answers, todo, stack, visited, files, roots, diagnostics>>

Load ==
  \/ VisitRoot
  \/ Unresolved
  \/ PassOver
  \/ Cycle
  \/ Descend
  \/ Imported
  \/ Leave
  \/ Check
  \/ Link

=============================================================================
