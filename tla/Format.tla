--------------------------------- MODULE Format ---------------------------------
(* `noct fmt` on one source (noct-cli/src/fmt_v2.rs, format_v2): read it, print   *)
(* what was read, and let three gates decide whether the text may replace the     *)
(* source.  The lexer, the parser and the printer are those of Lexer, Grammar and *)
(* Printer; nothing is shared between two sources.                                *)
EXTENDS Grammar, Printer

(* ---- one source ------------------------------------------------------------------ *)
Read(source) ==
  LET lexed == Lex(source)
      parsed == Parse(lexed.tokens)
  IN [tokens |-> lexed.tokens, program |-> parsed.program, errors |-> Len(lexed.errors) + Len(parsed.errors)]

(* What the author wrote that no layout may lose: all but the marks that delimit       *)
(* blocks, lists and groups, and `fn`, which a function in a block does without.       *)
Marks == {"(", ")", "{", "}", ",", ";", ":", "Newline", "Indent", "Dedent", "fn"} \cup Comments
Words(tokens) == SelectSeq(tokens, LAMBDA tok : tok[1] \notin Marks)

(* What the formatter finds at each of its steps.  A source with errors is not printed. *)
Formatted(source) ==
  LET input == Read(source)
      out == Print1(input.program)
      back == Read(out)
      again == Print1(back.program)
      fits == input.errors = 0 /\ ~Contains(out, GivesUp)
  IN [source |-> source,
      errors |-> input.errors,
      printed |-> fits,
      same |-> fits /\ back.program = input.program,
      stable |-> fits /\ again = out,
      worse |-> fits /\ back.errors > input.errors,
      words |-> Words(input.tokens),
      kept |-> IF fits THEN Words(back.tokens) ELSE <<>>]

CONSTANTS
  Cases,                \* [source |-> Formatted(source)]: the sources to format
  Awkward,              \* sources known to have trees the printer cannot print
  Lossy                 \* sources known to lose words in the parser

VARIABLES
  found,                \* what the formatter finds in the source it is given
  stage                 \* how far it has come

vars == <<found, stage>>

Stages == {"source", "printed", "equivalent", "idempotent", "written", "input refused", "gave up", "output refused"}
TypeOK == stage \in Stages

Init == (\E source \in DOMAIN Cases : found = Cases[source]) /\ stage = "source"

RefuseInput == stage = "source" /\ found.errors > 0 /\ stage' = "input refused" /\ UNCHANGED found

PrintTree ==
  /\ stage = "source" /\ found.errors = 0
  /\ stage' = IF found.printed THEN "printed" ELSE "gave up"
  /\ UNCHANGED found

(* The gates, in their order: the same tree, the same text again, no new errors.        *)
Gate(from, passes, to) ==
  /\ stage = from
  /\ stage' = IF passes THEN to ELSE "output refused"
  /\ UNCHANGED found
SameTree == Gate("printed", found.same, "equivalent")
SameText == Gate("equivalent", found.stable, "idempotent")
NoNewErrors == Gate("idempotent", ~found.worse, "written")

Next == RefuseInput \/ PrintTree \/ SameTree \/ SameText \/ NoNewErrors
Spec == Init /\ [][Next]_vars

(* ---- properties --------------------------------------------------------------------- *)
(* A source without errors is printed, and the text passes every gate: it reads back as   *)
(* the same tree, prints as itself, and has no error of its own.  The awkward sources,     *)
(* and no others, are the exceptions.                                                      *)
FormatsWhatItReads ==
  /\ stage \in {"gave up", "output refused"} => found.source \in Awkward
  /\ stage = "written" => found.source \notin Awkward

(* A text that replaces its source has all the words of the source, in their order: what   *)
(* the parser drops without an error, the gates cannot miss.  The lossy sources, and no    *)
(* others, are the exceptions.                                                             *)
KeepsWords == stage = "written" => (found.kept = found.words <=> found.source \notin Lossy)
=================================================================================
