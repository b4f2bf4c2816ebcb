---------------------------- MODULE MCRunLifecycle ----------------------------
(* Instances of RunLifecycle for TLC. *)
EXTENDS RunLifecycle, TLC

CONSTANTS r1, r2, j1, j2, u1, u2, u3, u4

MCRoutesOne  == [r \in Runs |-> Judges]
MCRoutesSome == [r \in Runs |-> IF r = r1 THEN Judges ELSE {}]

UuidSymmetry == Permutations(Uuids)
=============================================================================
