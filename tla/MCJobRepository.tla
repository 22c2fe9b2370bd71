--------------------------- MODULE MCJobRepository ---------------------------
(* Instances of JobRepository for TLC.                                       *)
EXTENDS JobRepository, TLC

CONSTANTS j1, j2, j3, w1, w2

\* One user.
OneUser == [j \in Jobs |-> "u1"]

\* Two of the submissions carry the same idempotency key.
SharedByTwo == [j \in Jobs |-> IF j = j3 THEN "e" ELSE "d"]

==============================================================================
