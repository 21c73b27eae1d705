-------------------------------- MODULE Backends --------------------------------
(* The two ways to run a program, side by side: `noct run` checks a program    *)
(* and walks its typed tree, `noct run-vm` lowers the typed tree to blocks and  *)
(* runs those (noct-cli/src/main.rs, cmd_run and cmd_run_vm).  Suite gives the  *)
(* source programs; one behaviour is one program the type checker accepts,      *)
(* run by the virtual machine against what the tree walker does with it.        *)
EXTENDS Typeck, Interp, Lowering, NirRules

(* What becomes of a source program: what the checker finds, what the tree       *)
(* walker does with the typed tree, and the blocks the virtual machine gets.     *)
Compile(source) ==
  LET checked == CheckProgram(source)
  IN [errs |-> checked.errs] @@
       (IF checked.errs # {} THEN << >>
        ELSE [walked |-> RunInterp(checked.module), lowered |-> LowerModule(checked.module)])

(* Equality of the machine's values: of structs, Ok and Err there is none.        *)
RECURSIVE VmValuesEqual(_, _)
VmValuesEqual(a, b) ==
  LET all(xs, ys) == Len(xs) = Len(ys) /\ \A i \in DOMAIN xs : VmValuesEqual(xs[i], ys[i])
  IN /\ a[1] = b[1]
     /\ CASE a[1] \in {"int", "bool", "string", "unit", "none"} -> a = b
          [] a[1] = "some" -> VmValuesEqual(a[2], b[2])
          [] a[1] = "enum" -> a[2] = b[2] /\ all(a[3], b[3])
          [] a[1] = "list" -> all(a[2], b[2])
          [] OTHER -> FALSE

CONSTANTS
  Suite,      \* programs and what becomes of them: [id |-> Compile(source)]
  Parting,    \* those known to run differently on the two back ends,
  Misjudged,  \* to meet at run time what the check should have found,
  Breaking    \* and to be lowered to blocks that break a rule

VARIABLES program,    \* the id of the program that runs
          walked      \* what the tree walker does with it: its output and exit code

(* A program the checker rejects runs nowhere.                                  *)
Init ==
  \E i \in DOMAIN Suite :
    LET compiled == Suite[i]
    IN /\ compiled.errs = {}
       /\ program = i
       /\ walked = compiled.walked
       /\ Start(compiled.lowered)

Step == Execute /\ UNCHANGED <<program, walked>>

(* The machine is a loop that runs until the program ends.                       *)
Spec == Init /\ [][Step]_<<vmVars, program, walked>> /\ WF_vmVars(Step)

(* ---- safety -------------------------------------------------------------------- *)
(* A Rust panic ends a process with 101, an error the program reports with 1.     *)
VmExit == CASE status = "done" -> 0
            [] status = "failed" -> IF err \in {"ice", "panic"} THEN 101 ELSE 1

(* Both runs print the same lines and end with the same exit code, at every       *)
(* nesting of two forms (noct-cli/tests/differential.rs:4-9), and the programs     *)
(* of Parting, and no others, do not: each has its reason in the code.            *)
Agrees == out = walked.out /\ VmExit = walked.exit
AgreesWithInterp ==
  status # "running" /\ walked.end # "stuck" => (Agrees <=> program \notin Parting)

(* A program the checker accepts meets no operand of the wrong type and no name   *)
(* that is not there (compiler/src/typeck/mod.rs:3-10), in either run; and `?`     *)
(* and `??` have split before they unwrap, so that no unwrap meets None or Err     *)
(* (NIR.md 4.1, rule 3).  The programs of Misjudged, and no others, do.           *)
MeetsWhatWasChecked ==
  /\ walked.end # "mismatch"
  /\ err \notin {"TypeMismatch", "OptionUnwrapNone", "ResultUnwrapErr"}
AcceptedIsSound ==
  /\ program \notin Misjudged => MeetsWhatWasChecked
  /\ program \in Misjudged /\ status # "running" => ~MeetsWhatWasChecked

(* However the forms of a program are nested, splits, Phis and registers of its    *)
(* blocks fit together as the rules of NirRules say, which nothing in the compiler *)
(* checks; but for the programs of Breaking, whose blocks all break one.           *)
AtStart == status = "running" /\ Len(frames) = 1 /\ Top.prev = <<>> /\ Top.pc = 1
LoweringKeepsRules == AtStart => (WellFormed(module) <=> program \notin Breaking)

(* ---- liveness ------------------------------------------------------------------- *)
(* A program the tree walker ends, the virtual machine ends: a wrong jump is      *)
(* most often a loop without an end (noct-cli/tests/differential.rs:33-35).       *)
Halts == walked.end # "stuck" ~> status # "running"
================================================================================
