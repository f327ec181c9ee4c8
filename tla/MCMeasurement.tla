--------------------------- MODULE MCMeasurement ----------------------------
(* The CLI as the only writer of invitations, for TLC. *)
EXTENDS Measurement

CONSTANTS A, B

TwoMembers == {A, B}
OwnCohort == [m \in TwoMembers |-> m]
OneChannel == [m \in TwoMembers |-> "organic"]
BothBuckets == [m \in TwoMembers |-> IF m = A THEN "bucket_a" ELSE "bucket_b"]
=============================================================================
