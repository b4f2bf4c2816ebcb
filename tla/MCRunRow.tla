------------------------------- MODULE MCRunRow -------------------------------
(* Instances of RunRow for TLC. *)
EXTENDS RunRow, TLC

CONSTANTS r1, r2, j1, j2, c1, c2, h1, h2, s1, s2, n1, n2

MCContestOf == [r \in Runs |-> IF r = r1 THEN c1 ELSE c2]
\* r2 may be sent to the contest of r1, or to another judge.
MCRoutes    == [r \in Runs |-> IF r = r1 THEN {<<j1, c1>>} ELSE {<<j1, c2>>, <<j2, c1>>}]

Accepted  == [status |-> 0, score |-> 100, test |-> 5]
CompileError == [status |-> 1, score |-> None, test |-> None]
Progress  == [status |-> 96, score |-> None, test |-> None]

MCVerdicts   == {Accepted, CompileError, Progress}
MCReportless == {CompileError.status}
MCPuts       == {[status |-> 5]}
MCAskers     == {[admin |-> FALSE, user |-> 1, context |-> 0],
                 [admin |-> FALSE, user |-> 2, context |-> 8]}
MCUserOf     == [r \in Runs |-> IF r = r1 THEN 1 ELSE 2]
MCContextOf  == [r \in Runs |-> IF r = r1 THEN 8 ELSE None]
Symmetric == Permutations(Sessions) \cup Permutations(Subs) \cup Permutations(Numbers)
=============================================================================
