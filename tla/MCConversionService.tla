------------------------ MODULE MCConversionService ------------------------
(* Instances of ConversionService for TLC.                                 *)
EXTENDS ConversionService, TLC

CONSTANTS j1, j2, j3, w1, w2

OneUser == [j \in Jobs |-> "u1"]
NoDigest == [j \in Jobs |-> NULL]
SharedDigest == [j \in Jobs |-> "d"]
SameRequest == [j \in Jobs |-> "r"]

SameWorkers == Permutations(Workers)
============================================================================
