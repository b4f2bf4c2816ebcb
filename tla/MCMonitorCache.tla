---------------------------- MODULE MCMonitorCache ----------------------------
(* Instances of MonitorCache for TLC. *)
EXTENDS MonitorCache

CONSTANTS a, b, kA, kAll, kTimed, q1, q2, q3, c1, c2

\* kA lists user a, kAll names nobody, kTimed has a time limit only.
MCCovers == [k \in Keys |-> IF k = kA THEN {a} ELSE Users]
MCNamed  == {kA} \cap Keys
MCTimed  == {kTimed} \cap Keys

MCKeyOfOne   == [q \in Requests |-> kA]
MCKeyOfMixed == [q \in Requests |-> IF q = q1 THEN kA ELSE kAll]
MCKeyOfTimed == [q \in Requests |-> IF q = q1 THEN kTimed ELSE kA]
MCOneProcess == [q \in Requests |-> 1]
MCProcesses  == [q \in Requests |-> IF q = q1 THEN 1 ELSE 2]

MCUserOf    == [c \in Changes |-> a]
MCKindTask  == [c \in Changes |-> "task"]
MCKindPut   == [c \in Changes |-> IF c = c1 THEN "put" ELSE "task"]
MCKindQuiet == [c \in Changes |-> IF c = c1 THEN "put" ELSE "silent"]
=============================================================================
