------------------------------ MODULE Classify ------------------------------
(***************************************************************************)
(* src/compiler/src/resolver: what each bare declaration of the linked     *)
(* program is.                                                             *)
(*                                                                         *)
(* The declarations sit in a hash map, which is walked in no fixed order,  *)
(* and classifying one may classify those it calls first.  A kind once     *)
(* found is kept; calling a declaration that is still being classified     *)
(* closes a cycle.                                                         *)
(*                                                                         *)
(* Of a bare declaration's body the shape is kept ("fields", "calls" or    *)
(* "statements") and, when it is all calls, the callees in order: they are *)
(* the declaration's references, as the linker left them.                  *)
(***************************************************************************)
EXTENDS Modules, FiniteSets

VARIABLES
  status,    \* name -> "pending" or the kind found
  open,      \* declarations being classified, innermost last: [name, next]
  cycles,    \* names an E0010 was reported for
  faults     \* E0300 and E0301 of the impl blocks: [code, trait]

classifying == <<status, open, cycles, faults>>

OfKind(kind) == {k \in DOMAIN program : program[k].item.kind = kind}
NamesOf(kind) == {program[k].item.name : k \in OfKind(kind)}

\* The maps hold, of two items of a kind and a name, the later one.
Latest(kind, name) ==
  LET places == {k \in OfKind(kind) : program[k].item.name = name}
  IN program[CHOOSE k \in places : \A l \in places : l <= k].item
Decl(name) == Latest("bare", name)
IsDecl(name) == name \in NamesOf("bare")

-----------------------------------------------------------------------------
(* Impl blocks against their traits *)

\* An impl of a trait the program does not hold, or one a method is missing in.
TraitFaults ==
  LET impls == {program[k].item : k \in OfKind("impl")}
      ofTrait == {impl \in impls : impl.trait # NoName}
      Held(impl) == impl.trait \in NamesOf("trait")
      Complete(impl) == Latest("trait", impl.trait).members \subseteq impl.members
  IN {[code |-> "E0301", trait |-> impl.trait] : impl \in {i \in ofTrait : ~Held(i)}}
     \cup {[code |-> "E0300", trait |-> impl.trait] :
             impl \in {i \in ofTrait : Held(i) /\ ~Complete(i)}}

CheckTraits ==
  /\ phase = "resolve"
  /\ faults' = TraitFaults
  /\ phase' = "classify"
  /\ UNCHANGED <<world, answers, todo, stack, visited, files, roots, diagnostics, program>>
  /\ UNCHANGED <<status, open, cycles>>

-----------------------------------------------------------------------------
(* Classification *)

\* The kind the body settles by itself; a body of calls depends on them.
Settled(decl) == decl.returns \/ decl.shape # "calls"
ByShape(decl) == IF ~decl.returns /\ decl.shape = "fields" THEN "struct" ELSE "function"

\* A callee is looked up when it is a plain name of a bare declaration.
Looked(use) == use.form = "name" /\ IsDecl(use.name)

InClassify == phase = "classify" /\ UNCHANGED vars
Known(name) == name \in DOMAIN status
Set(name, kind) ==
  [n \in DOMAIN status \cup {name} |-> IF n = name THEN kind ELSE status[n]]

\* classify, on a declaration nothing is known of yet.
Classify(name, below) ==
  IF Settled(Decl(name))
  THEN status' = Set(name, ByShape(Decl(name))) /\ open' = below
  ELSE status' = Set(name, "pending") /\ open' = Append(below, [name |-> name, next |-> 1])

\* The next declaration in the map's order, whatever it is.
NextDecl(name) ==
  /\ InClassify /\ open = <<>>
  /\ IsDecl(name) /\ ~Known(name)
  /\ Classify(name, <<>>)
  /\ UNCHANGED <<cycles, faults>>

Innermost == Last(open)
Calls == Decl(Innermost.name).uses
Callee == Calls[Innermost.next]
Calling == InClassify /\ open # <<>> /\ Innermost.next <= Len(Calls)

NextCall == [open EXCEPT ![Len(open)].next = @ + 1]
Finish(kind) == status' = Set(Innermost.name, kind) /\ open' = Front(open)

\* An import, a builtin or a member: assumed to be a function.
CallOutside ==
  /\ Calling /\ ~Looked(Callee)
  /\ open' = NextCall
  /\ UNCHANGED <<status, cycles, faults>>

CallUnknown ==
  /\ Calling /\ Looked(Callee) /\ ~Known(Callee.name)
  /\ Classify(Callee.name, open)
  /\ UNCHANGED <<cycles, faults>>

\* Mutant: a declaration being classified is taken for a function.
CallPendingPassed ==
  /\ Calling /\ Looked(Callee) /\ Known(Callee.name)
  /\ status[Callee.name] = "pending"
  /\ cycles' = cycles \cup {Callee.name}
  /\ open' = NextCall
  /\ UNCHANGED <<status, faults>>

CallPending ==
  /\ Calling /\ Looked(Callee) /\ Known(Callee.name)
  /\ status[Callee.name] = "pending"
  /\ cycles' = cycles \cup {Callee.name}
  /\ Finish("cycle")
  /\ UNCHANGED faults

\* A struct called makes a function of the caller, a cycle a cycle; after any
\* other the next call is looked at.
CallKnown ==
  /\ Calling /\ Looked(Callee) /\ Known(Callee.name)
  /\ status[Callee.name] # "pending"
  /\ CASE status[Callee.name] = "cycle"  -> Finish("cycle")
       [] status[Callee.name] = "struct" -> Finish("function")
       [] OTHER                          -> open' = NextCall /\ UNCHANGED status
  /\ UNCHANGED <<cycles, faults>>

AllCalled ==
  /\ InClassify /\ open # <<>> /\ Innermost.next > Len(Calls)
  /\ Finish("component")
  /\ UNCHANGED <<cycles, faults>>

\* Structs and functions take their kind; components and cycles stay bare.
Rekinded(item) ==
  IF item.kind # "bare" THEN item
  ELSE CASE status[item.name] = "struct"   -> [item EXCEPT !.kind = "struct"]
         [] status[item.name] = "function" -> [item EXCEPT !.kind = "fn"]
         [] OTHER                          -> item

Rewrite ==
  /\ phase = "classify" /\ open = <<>>
  /\ \A name \in NamesOf("bare") : Known(name)
  /\ program' = [k \in DOMAIN program |-> [program[k] EXCEPT !.item = Rekinded(@)]]
  /\ phase' = "done"
  /\ UNCHANGED <<world, answers, todo, stack, visited, files, roots, diagnostics>>
  /\ UNCHANGED classifying

\* A load that failed, or a program resolved, is the end.
Ended == phase \in {"done", "failed"} /\ UNCHANGED <<vars, classifying>>

-----------------------------------------------------------------------------
(* The whole front door: load, check, link, resolve *)

FrontInit ==
  /\ Init
  /\ status = <<>> /\ open = <<>> /\ cycles = {} /\ faults = {}

Next ==
  \/ Load /\ UNCHANGED classifying
  \/ CheckTraits
  \/ \E name \in NamesOf("bare") : NextDecl(name)
  \/ CallOutside
  \/ CallUnknown
  \/ CallPending
  \/ CallKnown
  \/ AllCalled
  \/ Rewrite
  \/ Ended

Spec == FrontInit /\ [][Next]_<<vars, classifying>>

-----------------------------------------------------------------------------
(* Properties *)

\* What the loader has decided about an edge it has gone past: the module is
\* stored, or the edge was reported as unresolved or as closing a cycle, or it
\* names one item of a re-export.
Answered(file, i) ==
  LET at == Edges(file)[i].import.path
      Told(code) == [code |-> code, file |-> file, at |-> at] \in diagnostics
  IN \/ Target(file, i).module = None /\ Told("E0101")
     \/ Target(file, i).module # None /\ ~Follows(file, i)
     \/ Follows(file, i) /\ Told("E0100")

Position(file) == CHOOSE i \in DOMAIN files : files[i] = file

\* "Dependencies are stored before their importers, which also gives the linker
\* a deterministic order" (modules.rs:43): a stored file has every module it
\* imports or forwards stored before it, unless the edge was reported; and no
\* file is stored twice, on whatever path the graph reaches it.
LoadedInOrder ==
  /\ \A i, j \in DOMAIN files : files[i] = files[j] => i = j
  /\ \A k \in DOMAIN files : \A i \in DOMAIN Edges(files[k]) :
       \/ Answered(files[k], i)
       \/ /\ Target(files[k], i).module \in Loaded
          /\ Position(Target(files[k], i).module) < k

\* What an edge leads to, and what can be reached from some files: the files in
\* every set that holds those and all its edges lead to.
ClosedUnderEdges(S) ==
  \A f \in S : \A i \in DOMAIN Edges(f) : Follows(f, i) => Target(f, i).module \in S
Reach(from) ==
  {f \in DOMAIN world.files :
     \A S \in SUBSET DOMAIN world.files : from \subseteq S /\ ClosedUnderEdges(S) => f \in S}

OnCycle(file) ==
  \E i \in DOMAIN Edges(file) :
    Follows(file, i) /\ file \in Reach({Target(file, i).module})

\* A load that ends has stored every file the roots reach, by imports and by
\* re-exports, and has reported a cycle (E0100) exactly when there is one among
\* them (modules.rs:693, "a mutual re-export is a loud E0100 rather than
\* infinite recursion").
CyclesAreLoud ==
  phase = "link" =>
    /\ Loaded = Reach(ToSet(world.roots))
    /\ (\E d \in diagnostics : d.code = "E0100") <=> \E file \in Loaded : OnCycle(file)

\* Where a name is written and what it should reach: a qualified use, in an item
\* the file itself contributes, of a module the file imports under that name.
Defined == {ItemName(program[d].item) : d \in DOMAIN program} \ {NoName}
MeantFor(file, use) ==
  {import \in ModuleImports(file) :
     /\ Qualifier(import) = use.qualifier
     /\ use.name \in Exported(ModuleOf(file, import))}

\* A file may use a qualifier it imported itself, whether or not it is a root
\* (modules.rs:513): in a linked program every such use, in an item a file
\* contributes itself, has become the flat name, and the program defines it.
QualifiedUsesBind ==
  phase = "resolve" =>
    \A k \in DOMAIN files : \A j \in DOMAIN Items(files[k]) : \A e \in DOMAIN program :
      (program[e].own /\ program[e].at = Offset(files[k], j) + Base(k)) =>
        \A u \in DOMAIN Items(files[k])[j].uses :
          LET use == Items(files[k])[j].uses[u]
          IN use.form # "name" /\ MeantFor(files[k], use) # {} =>
               /\ program[e].item.uses[u].form = "name"
               /\ use.name \in Defined

\* A name the program does not define, used in a file that imports the module
\* it is private in, is explained by a W0101; and where a W0101 is given for a
\* name the program does define, either a root's own private item or an import's
\* alias defines it, or the hint is for a qualified use of it (modules.rs:184).
MissesAreExplained ==
  phase = "resolve" =>
    \A file \in Loaded : \A name \in UsedNames(file) :
      LET private == \E import \in ModuleImports(file) :
                       name \in Private(ModuleOf(file, import))
          unbound == name \notin Named(file) \cup BoundNames(file)
          hinted == [code |-> "W0101", file |-> file, at |-> <<name>>] \in diagnostics
          chance == \/ \E root \in roots : name \in Named(root)
                    \/ \E import \in ToSet(Imports(LastRoot)) : import.alias = name
                    \/ name \in QualifiedHints(file)
      IN /\ private /\ unbound /\ name \notin Defined => hinted
         /\ private /\ unbound /\ hinted /\ name \in Defined => chance

\* modules.rs:118, "it only fires for names no file in the graph exports and no
\* visible binding defines": so the flat form does.  The qualified form does not
\* ask, and is told of a private name although another module exports it.
HintsAreForMisses ==
  phase = "link" =>
    \A file \in Loaded, name \in GraphExports :
      [code |-> "W0101", file |-> file, at |-> <<name>>] \notin diagnostics

\* What crosses from file to file: the program defines all that its files export,
\* and of what they keep private only what is a root's own (or what an alias of
\* the last root's happens to be called).
OnlyExportsCross ==
  phase = "resolve" =>
    /\ GraphExports \subseteq Defined
    /\ \A name \in Defined \ GraphExports :
         \/ \E root \in roots : name \in Named(root)
         \/ \E import \in ToSet(Imports(LastRoot)) : import.alias = name

\* What a written name comes to: the definition it was meant for, or a hint; and
\* what a file keeps private is not what it is taken for in another.
NamesBind == QualifiedUsesBind /\ MissesAreExplained /\ OnlyExportsCross

\* What a declaration is by its meaning alone: of the calls in its body the
\* first to a struct or into a cycle decides.
Passed(use, known) == ~Looked(use) \/ known[use.name] \in {"function", "component"}
FirstIs(decl, known, kind) ==
  \E i \in DOMAIN decl.uses :
    /\ Looked(decl.uses[i]) /\ known[decl.uses[i].name] = kind
    /\ \A j \in DOMAIN decl.uses : j < i => Passed(decl.uses[j], known)
KindGiven(decl, known) ==
  IF Settled(decl) THEN ByShape(decl)
  ELSE IF FirstIs(decl, known, "struct") THEN "function"
  ELSE IF FirstIs(decl, known, "cycle") THEN "cycle"
  ELSE "component"

\* Kinds that explain themselves: a cycle is what they need not settle.
Kinds == {"struct", "function", "component", "cycle"}
ExplainsItself(kinds) ==
  \A name \in NamesOf("bare") : kinds[name] = KindGiven(Decl(name), kinds)

\* The map is walked in no fixed order, and the walk keeps what it finds on the
\* way, cycles included: once all declarations are known, the kinds are the
\* least that explain themselves, whatever the order was (any others only say
\* more of the cycles), and a cycle was reported (E0010) exactly when some
\* declaration is on one or leads into one.
KindsAreOrderFree ==
  (phase = "classify" /\ open = <<>> /\ NamesOf("bare") \subseteq DOMAIN status) =>
    /\ ExplainsItself(status)
    /\ \A kinds \in [NamesOf("bare") -> Kinds] :
         ExplainsItself(kinds) =>
           \A name \in NamesOf("bare") : status[name] \in {kinds[name], "cycle"}
    /\ cycles # {} <=> \E name \in NamesOf("bare") : status[name] = "cycle"
=============================================================================
