---------------------------- MODULE PcaContract ----------------------------
(***************************************************************************)
(* What the dispatcher of src/common/producer_consumer_async.c promises    *)
(* the client that feeds it: a datum is given back exactly once, by its    *)
(* callback, and only when no consumer has it any more; and it is handed   *)
(* to all the consumers that will get it before the first of them may      *)
(* finish with it.  Nothing here is about mutexes, semaphores or counts.   *)
(***************************************************************************)
CONSTANTS Data, Consumers

VARIABLES
  phase,   \* of each datum: the client's, offered to consumers, delivered
  holders  \* the consumers that have it

vars == <<phase, holders>>

Holding(c) == \E d \in Data : c \in holders[d]

Init == /\ phase = [d \in Data |-> "client"]
        /\ holders = [d \in Data |-> {}]

(* The client feeds d.                                                     *)
Offer(d) == /\ phase[d] = "client"
            /\ phase' = [phase EXCEPT ![d] = "offered"]
            /\ UNCHANGED holders

(* d is given back unused: the dispatcher is busy, a newer datum takes its *)
(* place, or no consumer accepts it.                                       *)
Refuse(d) == /\ phase[d] = "offered"
             /\ holders[d] = {}
             /\ phase' = [phase EXCEPT ![d] = "client"]
             /\ UNCHANGED holders

(* c, which has nothing, gets d.                                           *)
Hand(d, c) == /\ phase[d] = "offered"
              /\ ~Holding(c)
              /\ holders' = [holders EXCEPT ![d] = @ \union {c}]
              /\ UNCHANGED phase

(* Every consumer that was to get d has it.                                *)
Commit(d) == /\ phase[d] = "offered"
             /\ holders[d] # {}
             /\ phase' = [phase EXCEPT ![d] = "delivered"]
             /\ UNCHANGED holders

(* c is done with d, or a newer datum takes d's place in its mailbox; the  *)
(* last one gives d back.                                                  *)
Retire(d, c) == /\ phase[d] = "delivered"
                /\ c \in holders[d]
                /\ holders' = [holders EXCEPT ![d] = @ \ {c}]
                /\ phase' = IF holders[d] = {c}
                            THEN [phase EXCEPT ![d] = "client"] ELSE phase

Next == \E d \in Data :
          \/ Offer(d) \/ Refuse(d) \/ Commit(d)
          \/ \E c \in Consumers : Hand(d, c) \/ Retire(d, c)

Spec == Init /\ [][Next]_vars
=============================================================================
