------------------------- MODULE BrokerIdentities --------------------------
(***************************************************************************)
(* What the isolation broker and the reverse queue name in common: the     *)
(* create sequence numbers of the one principal and the broker's units.    *)
(***************************************************************************)
EXTENDS Integers, FiniteSets

CONSTANTS
    NULL,         \* no value
    MaxSequence,  \* bound: create sequences, hence attempts, of the principal
    MaxUnits      \* bound: unit identifiers that the broker may draw

ASSUME IdentityAssumption ==
    /\ MaxSequence \in Nat
    /\ MaxUnits \in Nat

CreateSequences == 1 .. MaxSequence

UnitIds == 1 .. MaxUnits
=============================================================================
