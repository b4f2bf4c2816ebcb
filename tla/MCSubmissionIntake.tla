-------------------------- MODULE MCSubmissionIntake --------------------------
(* Instances of SubmissionIntake for TLC. *)
EXTENDS SubmissionIntake, TLC

CONSTANTS q1, q2, q3

\* The sizes on both sides of every limit
MCSize == "a" :> 4 @@ "b" :> 64 * 1024 - 1 @@ "nil" :> 3 @@ "big" :> 64 * 1024
          @@ "huge" :> 16 * 1024 * 1024
Ask(u, p, l, t) == [user |-> u, problem |-> p, lang |-> l, text |-> t]

\* Two texts, a second language, an output-only problem, one refusal of a kind
MCAsks == {Ask(7, "p", "py", "a"), Ask(7, "p", "py", "b"), Ask(7, "p", "c", "a"),
           Ask(7, "out", "py", "big"), Ask(7, "out", "py", "huge"),
           Ask(7, "p", "py", "big"), Ask(7, "p", "py", "nil"), Ask(0, "p", "py", "a"),
           Ask(7, "gone", "py", "a")}

RequestSymmetry == Permutations(Requests)
=============================================================================
