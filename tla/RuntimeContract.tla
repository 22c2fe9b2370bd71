-------------------------- MODULE RuntimeContract --------------------------
(***************************************************************************)
(* What the isolation broker is promised by the runtime that realises its  *)
(* units (IsolationRuntime, broker/ports.py), for one unit: the runtime    *)
(* may give evidence of exit, of emptiness and of removal, in that order,  *)
(* and evidence once given stays true of the unit whatever happens later.  *)
(* PodmanRuntime and KubernetesRuntime are shown to implement it.          *)
(***************************************************************************)
EXTENDS Naturals

VARIABLES running,   \* the unit's container runs
          members,   \* some process is left in the unit's control group
          present,   \* the runtime still keeps something of the unit
          proved     \* the evidence the broker has durably recorded

contractVars == <<running, members, present, proved>>

Evidence == {"exit", "empty", "removed"}

\* confirm_exit, confirm_empty and confirm_removed are asked in this order.
Before(e) == CASE e = "exit"    -> {}
               [] e = "empty"   -> {"exit"}
               [] e = "removed" -> {"exit", "empty"}

Kept(r, m, p, proofs) == /\ "exit" \in proofs => ~r
                         /\ "empty" \in proofs => ~m
                         /\ "removed" \in proofs => ~p

ContractInit == /\ running = FALSE
                /\ members = FALSE
                /\ present = FALSE
                /\ proved = {}

\* The unit changes as its own processes, the node and the broker's commands
\* make it, within what has been proved of it.
Change == /\ Kept(running', members', present', proved)
          /\ UNCHANGED proved

Prove(e) == /\ proved = Before(e)
            /\ proved' = proved \cup {e}
            /\ Kept(running, members, present, proved')
            /\ UNCHANGED <<running, members, present>>

ContractNext == Change \/ \E e \in Evidence : Prove(e)

Contract == ContractInit /\ [][ContractNext]_contractVars

=============================================================================
