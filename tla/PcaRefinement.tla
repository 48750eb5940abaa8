--------------------------- MODULE PcaRefinement ---------------------------
(***************************************************************************)
(* The detailed dispatcher of Pca implements PcaContract: what a consumer  *)
(* holds is what its mailbox and program counter say, and a datum is still *)
(* on offer while pca_feed_consumers is in its first loop.                 *)
(***************************************************************************)
EXTENDS Pca

PhaseOf(d) ==
  CASE d \notin owned -> "client"
    [] d \in owned /\ (HoldersOf(d) = {} \/ (Delivering /\ d = dslot)) -> "offered"
    [] OTHER -> "delivered"

Phase == [d \in Data |-> PhaseOf(d)]
Holders == [d \in Data |-> HoldersOf(d)]

Contract == INSTANCE PcaContract WITH phase <- Phase, holders <- Holders

(* Seen through the mapping, every step of the dispatcher, the consumers   *)
(* and the feeders is a step of the contract or none: data go back once,   *)
(* after their last holder, and no consumer finishes a datum that          *)
(* pca_feed_consumers is still handing out.                                *)
ImplementsContract == Contract!Spec
=============================================================================
