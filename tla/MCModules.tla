----------------------------- MODULE MCModules -----------------------------
(***************************************************************************)
(* Small file systems for Modules and Classify, in four families: every    *)
(* import graph of three files, the forms of one import and one use, the   *)
(* places one import may be found in, and the bodies of three bare         *)
(* declarations that call each other.                                      *)
(***************************************************************************)
EXTENDS Classify, TLC

CONSTANT Families

App(name) == <<"app", name>>
Use(form, place, qualifier, name) ==
  [form |-> form, place |-> place, qualifier |-> qualifier, name |-> name]
Call(name) == Use("name", "body", NoName, name)

Import(path, alias) == [path |-> path, alias |-> alias]
Item(kind, name, exported, uses) ==
  [kind |-> kind, name |-> name, exported |-> exported, uses |-> uses, binds |-> {},
   excluded |-> <<>>, import |-> Import(None, NoName), members |-> {}, trait |-> NoName,
   returns |-> FALSE, shape |-> "statements"]
Forward(path) == [Item("reexport", NoName, FALSE, <<>>) EXCEPT !.import = Import(path, NoName)]
File(imports, items) == [imports |-> imports, items |-> items, readable |-> TRUE]

World(tree, named) ==
  [files |-> tree, roots |-> named, std |-> None, packages |-> <<>>,
   listing |-> <<>>, points |-> <<>>, packaged |-> {}]

-----------------------------------------------------------------------------
\* Every way three files import or forward one another.  Each uses the others
\* by their qualifiers.
Three == {"main", "a", "b"}
Modes == {"none", "import", "forward"}
Path(name) == <<name>>

Graph(mode, more) ==
  LET Wanted(f, m) == SelectSeq(<<"a", "b", "main">>, LAMBDA g : mode[f][g] = m)
      Uses(f) == <<Use("member", "body", "a", "run_a"), Use("path", "header", "b", "run_b"),
                   Use("member", "method", "main", "run_main")>>
      Names == [main |-> "run_main", a |-> "run_a", b |-> "run_b"]
      imports(f) == LET w == Wanted(f, "import")
                    IN [i \in DOMAIN w |-> Import(Path(w[i]), NoName)]
      forwards(f) == LET w == Wanted(f, "forward")
                     IN [i \in DOMAIN w |-> Forward(Path(w[i]))]
      tree == [path \in {App(f) : f \in Three} |->
                  File(imports(path[2]),
                       <<Item("fn", Names[path[2]], TRUE, Uses(path[2]))>> \o forwards(path[2]))]
  IN World(tree, <<App("main")>> \o more)

Graphs ==
  {Graph([main |-> [a |-> m1, b |-> m2, main |-> "none"],
          a |-> [a |-> "none", b |-> m3, main |-> m4],
          b |-> [a |-> m5, b |-> m6, main |-> "none"]], more) :
     m1 \in Modes, m2 \in Modes, m3 \in Modes, m4 \in Modes, m5 \in Modes,
     m6 \in {"none", "import"}, more \in {<<>>, <<App("b")>>}}

-----------------------------------------------------------------------------
\* One import and one use of a module of one item, with a module of the
\* standard library beside it.
Imported1 ==
  {Import(<<"dep">>, NoName), Import(<<"dep">>, "d"), Import(<<"dep", "it">>, NoName),
   Import(<<"dep", "it">>, "other"), Import(<<"dep", "missing">>, NoName),
   Import(<<"nowhere">>, NoName), Import(<<"lib", "dep">>, NoName),
   Import(<<"math", "it">>, NoName), Import(<<"math">>, NoName)}

OneUse(import, kind, exported, use, bound, others) ==
  LET main == [Item("fn", "main", FALSE, <<use>>) EXCEPT !.binds = bound]
      dep == File(<<>>, <<Item("fn", "help", FALSE, <<>>), Item(kind, "it", exported, <<>>)>>)
      math == File(<<>>, <<Item("fn", "it", FALSE, <<>>)>>)
      tree == App("main") :> File(<<import>>, <<main>> \o others)
                 @@ App("dep") :> dep @@ <<"std", "math">> :> math
  IN [World(tree, <<App("main")>>) EXCEPT !.std = <<"std">>]

Uses1 ==
  {Use("name", "body", NoName, "it"), Use("name", "body", NoName, "other"),
   Use("name", "method", NoName, "help")}
    \cup {Use(form, place, qualifier, name) :
            form \in {"member", "path"}, place \in {"body", "method"},
            qualifier \in {"d", "dep"}, name \in {"it", "help"}}

Except(name) == [Item("export_except", NoName, FALSE, <<>>) EXCEPT !.excluded = <<name>>]
Impl(trait, members) ==
  [Item("impl", NoName, FALSE, <<>>) EXCEPT !.trait = trait, !.members = members]
Trait(members) == [Item("trait", "Shape", FALSE, <<>>) EXCEPT !.members = members]

\* A name private in one module, used bare and by that module's qualifier, while
\* another module may export it.
TwoUses(exported) ==
  LET help(out) == Item("fn", "help", out, <<>>)
      calls == <<Use("member", "body", "d", "help"), Call("help")>>
  IN World(App("main") :> File(<<Import(<<"dep">>, "d"), Import(<<"more">>, NoName)>>,
                               <<Item("fn", "main", FALSE, calls)>>)
             @@ App("dep") :> File(<<>>, <<help(FALSE)>>)
             @@ App("more") :> File(<<>>, <<help(exported)>>), <<App("main")>>)

Uses ==
  {TwoUses(exported) : exported \in BOOLEAN} \cup
  {OneUse(import, kind, exported, use, bound, <<>>) :
     import \in Imported1, kind \in {"fn", "trait"}, exported \in BOOLEAN,
     use \in Uses1, bound \in {{}, {"it"}}}
  \cup {OneUse(Import(<<"dep">>, NoName), "fn", TRUE, Call("it"), {}, others) :
          others \in {<<Except("main")>>, <<Except("nothing")>>,
                      <<Trait({"area"}), Impl("Shape", {"area"})>>,
                      <<Trait({"area"}), Impl("Shape", {})>>, <<Impl("Shape", {})>>,
                      <<Forward(<<"dep", "it">>)>>, <<Forward(<<"nowhere">>)>>}}

-----------------------------------------------------------------------------
\* One import, found in some of the places it may stand in.
Places ==
  {App("ui"), <<"app", "lib", "ui">>, <<"lib", "ui">>, <<"app", "ui", "ui">>,
   <<"app", "ui", "mod">>, <<"vendor", "ui-1", "lib", "main">>,
   <<"vendor", "ui-kit-1", "lib", "main">>, <<"store", "t1", "lib", "main">>,
   <<"std", "ui">>, <<"app", "ui", "lib", "box">>, <<"packages", "ui", "lib", "box">>,
   <<"vendor", "ui-1", "lib", "box">>, <<"store", "t1", "lib", "box">>,
   <<"app", "ui", "box">>, <<"std", "ui", "box">>}

Placed(places, path, escapes, readable) ==
  LET found == File(<<>>, <<Item("fn", "it", TRUE, <<>>)>>)
      main == File(<<Import(path, NoName)>>,
                   <<Item("fn", "main", FALSE, <<Use("member", "body", Last(path), "it")>>)>>)
      tree == [p \in places \cup {App("main")} |->
                  IF p = App("main") THEN main ELSE [found EXCEPT !.readable = readable]]
  IN [files |-> tree, roots |-> <<App("main")>>, std |-> <<"std">>,
      packages |-> <<<<"store">>>>,
      listing |-> <<"vendor">> :> <<"ui-kit-1", "ui-1">>,
      points |-> <<"store">> :> <<[name |-> "ui-1", tree |-> <<"t1">>, escapes |-> escapes]>>,
      packaged |-> {<<"ui-1", "ui">>, <<"ui-kit-1", "ui">>}]

Finds ==
  {Placed({p, q}, path, escapes, readable) :
     p \in Places, q \in Places, path \in {<<"ui">>, <<"ui", "box">>},
     escapes \in BOOLEAN, readable \in BOOLEAN}

-----------------------------------------------------------------------------
\* Three bare declarations.
Decl3(name, body) ==
  [Item("bare", name, FALSE, body.uses) EXCEPT !.shape = body.shape, !.returns = body.returns]

Body(shape, returns, uses) == [shape |-> shape, returns |-> returns, uses |-> uses]
Plain == {Body("fields", FALSE, <<>>), Body("statements", FALSE, <<>>)}
Names3 == {"A", "B", "C"}
OneCall == {Body("calls", FALSE, <<Call(n)>>) : n \in Names3}
TwoCalls == {Body("calls", FALSE, <<Call(m), Call(n)>>) : m \in Names3, n \in Names3}
Outside == {Body("calls", FALSE, <<Use("member", "body", "x", "A"), Call("B")>>),
            Body("calls", FALSE, <<Call("print")>>), Body("calls", TRUE, <<Call("A")>>)}

Bodies ==
  {World(App("main") :> File(<<>>, <<Decl3("A", a), Decl3("B", b), Decl3("C", c)>>),
         <<App("main")>>) :
     a \in Plain \cup OneCall \cup TwoCalls, b \in Plain \cup OneCall \cup TwoCalls,
     c \in Plain \cup OneCall \cup Outside}

Worlds(family) ==
  CASE family = "graphs" -> Graphs
    [] family = "uses"   -> Uses
    [] family = "finds"  -> Finds
    [] family = "bodies" -> Bodies

MCInit == (\E family \in Families : world \in Worlds(family)) /\ FrontInit

MCSpec == MCInit /\ [][Next]_<<vars, classifying>>
=============================================================================
