--------------------------- MODULE MCSubmissionLists ---------------------------
(* Instances of SubmissionLists for TLC. *)
EXTENDS SubmissionLists

Run(u, p, st, l, s, c, v) ==
  [user |-> u, problem |-> p, statement |-> st, lang |-> l, status |-> s, source |-> c,
   shown |-> v, time |-> 50]

\* A plain run, one of no user, and one that most filters leave out
MCRuns == {Run(7, 1, 5, 27, 377, 10, TRUE), Run(-1, 1, 5, 27, 0, 10, TRUE),
           Run(8, 2, 6, 3, 0, 11, FALSE)}

MCQueries == {
  [NoQuery EXCEPT !.problem = 1],
  [NoQuery EXCEPT !.problem = 1, !.statement = {5}, !.lang = {27}, !.users = {-1, 7},
                  !.status = 377, !.from = {-1}, !.to = {90}],
  [NoQuery EXCEPT !.statement = {100}],
  [NoQuery EXCEPT !.statement = {101}],
  [NoQuery EXCEPT !.user = {7}, !.hidden = TRUE],
  [NoQuery EXCEPT !.group = {1}, !.context = {5}, !.source = {10}],
  [NoQuery EXCEPT !.users = {7}]}

MCMembers      == [g \in {1} |-> {7, 8}]
MCInstance     == [m \in {100} |-> 5]
MCCorrelations == {[statement |-> 5, problem |-> 1, hidden |-> 0],
                   [statement |-> 5, problem |-> 2, hidden |-> 1]}
=============================================================================
