---------------------------- MODULE MCJudgeRouting ----------------------------
(* Instances of JudgeRouting for TLC. *)
EXTENDS JudgeRouting, TLC

MCToken == "1" :> "t1" @@ "2" :> "t2"

File(t1, t2, d, ok) == [judges |-> "1" :> t1 @@ "2" :> t2, default |-> d, readable |-> ok]

\* Both judges; one only; a wrong, an empty and a missing token; a broken file;
\* no default judge and one that is no number
MCFiles == {File("t1", "t2", "1", TRUE), File("t1", Absent, Unset, TRUE),
            File("t1", Wrong, Garbage, TRUE), File(Blank, "t2", "2", TRUE),
            File("t1", Null, "1", TRUE), File("t1", "t2", "1", FALSE)}

Entry(c, j, l, u) == [complete |-> c, judge |-> j, langs |-> l, users |-> u]

MCEntries == {Entry(TRUE, {"1"}, {}, {}), Entry(TRUE, {"2"}, {{27}}, {}),
              Entry(TRUE, {}, {}, {{7}}), Entry(TRUE, {"1"}, {{3, 27}}, {{7}}),
              Entry(FALSE, {"1"}, {{27}}, {{7}}), Entry(TRUE, {"1"}, {{}}, {})}

MCSettings == UNION {[1 .. n -> MCEntries] : n \in 0 .. 3}
=============================================================================
