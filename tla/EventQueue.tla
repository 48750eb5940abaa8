----------------------------- MODULE EventQueue -----------------------------
(***************************************************************************)
(* The queues of examples/camera/cam_demo_ir.c: one for each channel, a    *)
(* list of items the main thread allocates and appends and the channel's   *)
(* thread takes off and frees.  dequeue_event reads the head before it     *)
(* takes the lock.                                                         *)
(***************************************************************************)
EXTENDS Naturals, FiniteSets

CONSTANTS
  Queue,  \* the queues, each with the name of its channel
  Item,     \* what malloc can return
  NULL

ASSUME QueueAssumption == IsFiniteSet(Item) /\ NULL \notin Item

VARIABLES
  head, tail,  \* the two ends of the queue of each channel
  next,        \* next[i]: the field of item i, which outlives a free
  evet,        \* evet[i]: the event in item i
  heap         \* the items that are allocated

queueVars == <<head, tail, next, evet, heap>>

QueueInit ==
  /\ head = [n \in Queue |-> NULL]
  /\ tail = [n \in Queue |-> NULL]
  /\ next = [i \in Item |-> NULL]
  /\ evet = [i \in Item |-> NULL]
  /\ heap = {}

(* With the lock held.  An empty queue is one without a tail.              *)
enqueue_event(n, i) ==
  /\ tail' = [tail EXCEPT ![n] = i]
  /\ IF tail[n] # NULL
     THEN next' = [next EXCEPT ![i] = NULL, ![tail[n]] = i] /\ UNCHANGED head
     ELSE next' = [next EXCEPT ![i] = NULL] /\ head' = [head EXCEPT ![n] = i]
  /\ UNCHANGED <<evet, heap>>

(* Mutant: the tail is not reset when the last item is taken.              *)
Slip_TailKept(n, ev) ==
  /\ head' = [head EXCEPT ![n] = next[ev]]
  /\ UNCHANGED <<tail, next, evet, heap>>

(* With the lock held; ev is what the head was before.                     *)
dequeue_event(n, ev) ==
  /\ tail' = IF ev = tail[n] THEN [tail EXCEPT ![n] = NULL] ELSE tail
  /\ head' = [head EXCEPT ![n] = next[ev]]
  /\ UNCHANGED <<next, evet, heap>>

(* get_event writes the event into the item.                               *)
Fill(i, event) ==
  evet' = [evet EXCEPT ![i] = event] /\ UNCHANGED <<head, tail, next, heap>>

Allocate(i) == heap' = heap \cup {i} /\ UNCHANGED <<head, tail, next, evet>>
Free(i) == heap' = heap \ {i} /\ UNCHANGED <<head, tail, next, evet>>

(* The items of queue n, as one finds them from its head.                  *)
Items(n) ==
  LET at[k \in 0 .. Cardinality(Item)] ==
        IF k = 0 THEN head[n]
        ELSE IF at[k - 1] = NULL THEN NULL ELSE next[at[k - 1]]
  IN  {at[k] : k \in DOMAIN at} \ {NULL}

(* The queues are lists of allocated items that end at their tails, an     *)
(* item is in one queue at most, in its own channel's, and in none while   *)
(* a thread has it in its hands.                                           *)
QueuesAreLists(inHands) ==
  \A n \in Queue :
    /\ Items(n) \subseteq heap \ inHands
    /\ \A i \in Items(n) : evet[i] = n
    /\ IF tail[n] = NULL THEN head[n] = NULL
       ELSE tail[n] \in Items(n) /\ next[tail[n]] = NULL
    /\ \A m \in Queue \ {n} : Items(n) \cap Items(m) = {}
=============================================================================
