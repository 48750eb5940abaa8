-------------------------- MODULE PcaReleaseProofs --------------------------
(***************************************************************************)
(* Proofs about what becomes of a datum fed to the dispatcher of Pca: it   *)
(* is given back once, not before its last reader is done with it, and is  *)
(* never forgotten; and Pca implements PcaContract.  The proofs of mutual  *)
(* exclusion and of the wake-ups they rest on are in PcaProofs.            *)
(***************************************************************************)
EXTENDS PcaRefinement, PcaProofs, FiniteSetTheorems

(* The consumers that have a datum, and the feeders that are in a call.    *)
Holding == {c \in Consumers : Holds(c)}
Calling == {f \in Feeders : InHand(f)}

(* An owned datum is in exactly one of three places: held by consumers, in *)
(* the dispatcher's mailbox, or in the hands of one feeder.                *)
HeldOwned == \A c \in Holding : cslot[c] \in owned

OfferedOwned == Pending => dslot \in owned

FedOwned == \A f \in Calling : fdata[f] \in owned

(* The exception: while pca_feed_consumers hands a datum out it is in the  *)
(* mailbox and with the consumers passed so far, none of which can go on,  *)
(* for their mutexes are locked.                                           *)
OfferedApart ==
  Pending => /\ \A c \in Holding : cslot[c] = dslot =>
                  Delivering /\ accepted /\ need[c] /\ c < pos
             /\ \A f \in Calling : fdata[f] # dslot

FedApart == \A f \in Calling :
              /\ \A c \in Holding : cslot[c] # fdata[f]
              /\ \A g \in Calling : fdata[f] = fdata[g] => f = g

(* The return value of pca_feed_consumers can be trusted.                  *)
AcceptedHeld == Delivering /\ accepted => \E c \in Holding : cslot[c] = dslot

AllPlaced == \A d \in owned : \/ \E f \in Calling : fdata[f] = d
                              \/ Pending /\ dslot = d
                              \/ \E c \in Holding : cslot[c] = d

(* The flag on which a thread decided to release a datum has not changed   *)
(* when it does.                                                           *)
FlagsHold == /\ \A f \in Feeders : fpc[f] = "free_old" => dnew
             /\ dpc \in {"remove_lock", "remove"} => cnew[pos]
             /\ dpc = "free" => ~accepted

Places == /\ HeldOwned /\ OfferedOwned /\ FedOwned
          /\ OfferedApart /\ FedApart /\ AcceptedHeld /\ AllPlaced
          /\ FlagsHold

(* RefCountExact, over Holding.                                            *)
Counted == \A d \in Data : refs[d] = Cardinality({c \in Holding : cslot[c] = d})

ReleaseInv == Places /\ Counted

(* What a step may do to the data: a client feeds one, one that nobody     *)
(* holds is given back, the dispatcher hands the datum in its mailbox to   *)
(* one more consumer, a consumer drops its datum, or nothing moves.        *)
OnOffer == IF Delivering THEN {dslot} ELSE {}
Unheld(d) == \A c \in Holding : cslot[c] # d

Take == /\ \E d \in Data \ owned : owned' = owned \union {d} /\ Unheld(d)
        /\ UNCHANGED <<Holding, cslot, OnOffer>>
GiveBack == /\ \E d \in owned : owned' = owned \ {d} /\ Unheld(d)
            /\ UNCHANGED <<Holding, cslot, OnOffer>>
HandOut(c) == /\ c \notin Holding
              /\ Holding' = Holding \union {c}
              /\ \E d \in OnOffer \cap owned : cslot' = [cslot EXCEPT ![c] = d]
              /\ UNCHANGED <<owned, OnOffer>>
Drop(c) == /\ c \in Holding
           /\ cslot[c] \in owned \ OnOffer
           /\ Holding' = Holding \ {c}
           /\ owned' = IF \E e \in Holding \ {c} : cslot[e] = cslot[c]
                       THEN owned ELSE owned \ {cslot[c]}
           /\ UNCHANGED <<cslot, OnOffer>>
Finished == /\ OnOffer # {} /\ OnOffer' = {}
            /\ UNCHANGED <<owned, Holding, cslot>>
Stay == /\ \A d \in Data : Unheld(d) \/ (d \in OnOffer' <=> d \in OnOffer)
        /\ UNCHANGED <<owned, Holding, cslot>>

Moves == \/ Take \/ GiveBack \/ Finished \/ Stay
         \/ \E c \in Consumers : HandOut(c) \/ Drop(c)
-----------------------------------------------------------------------------
(* Facts about the state.                                                  *)

(* The facts of Base that are used over and over.                          *)
LEMMA BaseFacts ==
  ASSUME Base
  PROVE  /\ N \in Nat /\ Consumers \subseteq Nat /\ pos \in Nat /\ len \in Nat
         /\ Holding \subseteq Consumers /\ Calling \subseteq Feeders
         /\ cslot \in [Consumers -> Data] /\ fdata \in [Feeders -> Data]
         /\ dslot \in Data /\ refs \in [Data -> Nat] /\ owned \subseteq Data
         /\ cnew \in [Consumers -> BOOLEAN] /\ need \in [Consumers -> BOOLEAN]
         /\ cpc \in [Consumers -> ConsumerPc] /\ fpc \in [Feeders -> FeederPc]
         /\ dmutex = "dispatcher" <=> dpc \notin {"start", "wait", "lock"}
         /\ \A f \in Feeders : fpc[f] \in {"free_old", "store"} => dmutex = "feeder"
         /\ \A f, g \in Feeders :
              fpc[f] \in {"free_old", "store"} /\ fpc[g] \in {"free_old", "store"}
                => f = g
         /\ dpc \in {"remove_lock", "remove", "add"} =>
              pos \in Consumers /\ need[pos] /\ ~Handling(pos)
         /\ \A c \in Consumers : Handling(c) => ~need[c] /\ cnew[c]
BY PcaAssumption DEF PcaAssumption, Base, TypeInv, TypeOK, LockInv, MutexOwners,
   DispatcherMutex, ConsumerMutex, NeedRange, HandlingInv, Holding, Calling, Consumers

LEMMA CountedIsExact == Counted <=> RefCountExact
BY DEF Counted, RefCountExact, HoldersOf, Holding

LEMMA InitRelease == Init => ReleaseInv
<1> SUFFICES ASSUME Init PROVE ReleaseInv
  OBVIOUS
<1>1. Holding = {} /\ Calling = {} /\ owned = {} /\ ~Pending /\ ~Delivering
  <2>1. Holding = {} BY DEF Init, Holding, Holds
  <2>2. Calling = {} BY DEF Init, Calling, InHand
  <2>3. ~Pending /\ ~Delivering /\ owned = {}
    BY DEF Init, Pending, Delivering, Waking
  <2> QED BY <2>1, <2>2, <2>3
<1>2. FlagsHold
  BY DEF Init, FlagsHold
<1>3. Counted
  <2>1. \A d \in Data : {c \in Holding : cslot[c] = d} = {}
    BY <1>1
  <2> QED BY <2>1, FS_EmptySet DEF Counted, Init
<1> QED BY <1>1, <1>2, <1>3 DEF ReleaseInv, Places, HeldOwned, OfferedOwned,
           FedOwned, OfferedApart, FedApart, AcceptedHeld, AllPlaced
-----------------------------------------------------------------------------
(* The steps that move no datum keep every part of the invariant but the   *)
(* two about the dispatcher's walk and the one about full mailboxes.       *)

Unmoved == /\ Holding' = Holding /\ Calling' = Calling
           /\ UNCHANGED <<owned, refs, cslot, fdata, dslot>>

LEMMA UnmovedPlaces ==
  ASSUME Places, Unmoved, Pending' <=> Pending,
         OfferedApart', AcceptedHeld', FlagsHold'
  PROVE  Places'
<1>1. HeldOwned' /\ FedOwned' /\ FedApart'
  BY DEF Places, HeldOwned, FedOwned, FedApart, Unmoved
<1>2. OfferedOwned' /\ AllPlaced'
  BY DEF Places, OfferedOwned, AllPlaced, Unmoved
<1> QED BY <1>1, <1>2 DEF Places

LEMMA UnmovedCounted == Counted /\ Unmoved => Counted'
BY DEF Counted, Unmoved

(* The same when the dispatcher does not walk either.                      *)
LEMMA StillPlaces ==
  ASSUME Places, Unmoved, Pending' <=> Pending, UNCHANGED <<dpc, walkVars>>, FlagsHold'
  PROVE  Places'
<1>1. OfferedApart' /\ AcceptedHeld'
  BY DEF Places, OfferedApart, AcceptedHeld, Unmoved, Delivering, walkVars
<1> QED BY <1>1, UnmovedPlaces
-----------------------------------------------------------------------------
(* pca_feed_dispatcher.                                                    *)

LEMMA FeederRelease ==
  ASSUME Base, ReleaseInv, NEW f \in Feeders, Feed(f)
  PROVE  ReleaseInv' /\ Moves
<1> USE BaseFacts
<1> USE DEF slotVars, walkVars, listVars, freeVars, consVars, fvars
<1>0. Places /\ Counted
  BY DEF ReleaseInv
<1>1. ASSUME NEW d \in Data, FeedTrylock(f, d) PROVE ReleaseInv' /\ Moves
  <2>1. /\ Holding' = Holding /\ Calling' = Calling \union {f} /\ f \notin Calling
        /\ owned' = owned \union {d} /\ d \notin owned
        /\ fdata' = [fdata EXCEPT ![f] = d]
        /\ UNCHANGED <<refs, cslot, dslot, dpc, walkVars>>
    <3>1. Holding' = Holding
      BY <1>1 DEF FeedTrylock, Holding, Holds
    <3>2. Calling' = Calling \union {f} /\ f \notin Calling
      BY <1>1 DEF FeedTrylock, Calling, InHand
    <3> QED BY <1>1, <3>1, <3>2 DEF FeedTrylock
  <2>2. Pending' <=> Pending
    BY <1>1 DEF FeedTrylock, Pending, Delivering, Waking
  <2>3. HeldOwned' /\ FedOwned' /\ OfferedOwned'
    BY <1>0, <2>1, <2>2 DEF Places, HeldOwned, FedOwned, OfferedOwned
  <2>4. FedApart'
    BY <1>0, <2>1, <2>2 DEF Places, HeldOwned, FedOwned, FedApart
  <2>5. OfferedApart' /\ AcceptedHeld'
    BY <1>0, <2>1, <2>2 DEF Places, OfferedOwned, OfferedApart, AcceptedHeld, Delivering
  <2>6. AllPlaced'
    BY <1>0, <2>1, <2>2 DEF Places, AllPlaced
  <2>7. FlagsHold'
    BY <1>0, <1>1 DEF Places, FlagsHold, FeedTrylock
  <2>8. Counted'
    BY <1>0, <2>1 DEF Counted
  <2>9. Take
    <3>1. Unheld(d)
      BY <1>0, <2>1 DEF Places, HeldOwned, Unheld
    <3>2. OnOffer' = OnOffer
      BY <2>1 DEF OnOffer, Delivering
    <3> QED BY <2>1, <3>1, <3>2 DEF Take
  <2> QED BY <2>3, <2>4, <2>5, <2>6, <2>7, <2>8, <2>9 DEF ReleaseInv, Places, Moves
<1>2. CASE FeedFreeOld(f)
  <2>1. /\ Holding' = Holding /\ Calling' = Calling
        /\ owned' = owned \ {dslot}
        /\ UNCHANGED <<refs, cslot, fdata, dslot, dpc, walkVars>>
    <3>1. Holding' = Holding
      BY <1>2 DEF FeedFreeOld, Holding, Holds
    <3>2. Calling' = Calling
      BY <1>2 DEF FeedFreeOld, Calling, InHand
    <3> QED BY <1>2, <3>1, <3>2 DEF FeedFreeOld, DataFree
  <2>2. Pending /\ ~Delivering
    BY <1>0, <1>2
       DEF FeedFreeOld, Places, FlagsHold, Pending, Delivering, Waking,
       DispatcherPc
  <2>3. ~Pending'
    BY <1>2 DEF FeedFreeOld, Pending, Delivering, Waking
  <2>4. HeldOwned' /\ FedOwned' /\ FedApart'
    BY <1>0, <2>1, <2>2 DEF Places, HeldOwned, FedOwned, OfferedApart, FedApart
  <2>5. OfferedOwned' /\ OfferedApart' /\ AcceptedHeld'
    BY <2>1, <2>2, <2>3 DEF OfferedOwned, OfferedApart, AcceptedHeld, Delivering
  <2>6. AllPlaced'
    BY <1>0, <2>1 DEF Places, AllPlaced
  <2>7. FlagsHold'
    BY <1>0, <1>2 DEF Places, FlagsHold, FeedFreeOld
  <2>8. Counted'
    BY <1>0, <2>1 DEF Counted
  <2>9. GiveBack
    <3>1. Unheld(dslot) /\ dslot \in owned
      BY <1>0, <2>2 DEF Places, OfferedOwned, OfferedApart, Unheld
    <3>2. OnOffer' = OnOffer
      BY <2>1 DEF OnOffer, Delivering
    <3> QED BY <2>1, <3>1, <3>2 DEF GiveBack
  <2> QED BY <2>4, <2>5, <2>6, <2>7, <2>8, <2>9 DEF ReleaseInv, Places, Moves
<1>3. CASE FeedStore(f)
  <2>1. /\ Holding' = Holding /\ Calling' = Calling \ {f} /\ f \in Calling
        /\ dslot' = fdata[f]
        /\ UNCHANGED <<owned, refs, cslot, fdata, dpc, walkVars>>
    <3>1. Holding' = Holding
      BY <1>3 DEF FeedStore, Holding, Holds
    <3>2. Calling' = Calling \ {f} /\ f \in Calling
      BY <1>3 DEF FeedStore, Calling, InHand
    <3> QED BY <1>3, <3>1, <3>2 DEF FeedStore
  <2>2. ~Pending /\ ~Delivering
    BY <1>3 DEF FeedStore, Pending, Delivering, Waking, DispatcherPc
  <2>3. Pending'
    BY <1>3 DEF FeedStore, Pending, DispatcherPc
  <2>4. HeldOwned' /\ FedOwned' /\ FedApart'
    BY <1>0, <2>1 DEF Places, HeldOwned, FedOwned, FedApart
  <2>5. OfferedOwned' /\ OfferedApart' /\ AcceptedHeld'
    BY <1>0, <2>1, <2>2 DEF Places, FedOwned, FedApart, OfferedOwned, OfferedApart,
                            AcceptedHeld, Delivering
  <2>6. AllPlaced'
    BY <1>0, <2>1, <2>2, <2>3 DEF Places, AllPlaced
  <2>7. FlagsHold'
    BY <1>0, <1>3 DEF Places, FlagsHold, FeedStore
  <2>8. Counted'
    BY <1>0, <2>1 DEF Counted
  <2>9. Stay
    BY <2>1, <2>2 DEF OnOffer, Delivering, Stay
  <2> QED BY <2>4, <2>5, <2>6, <2>7, <2>8, <2>9 DEF ReleaseInv, Places, Moves
<1>4. CASE FeedDiscard(f)
  <2>1. /\ Holding' = Holding /\ Calling' = Calling \ {f} /\ f \in Calling
        /\ owned' = owned \ {fdata[f]}
        /\ UNCHANGED <<refs, cslot, fdata, dslot, dpc, walkVars>>
    <3>1. Holding' = Holding
      BY <1>4 DEF FeedDiscard, Holding, Holds
    <3>2. Calling' = Calling \ {f} /\ f \in Calling
      BY <1>4 DEF FeedDiscard, Calling, InHand
    <3> QED BY <1>4, <3>1, <3>2 DEF FeedDiscard, DataFree
  <2>2. Pending' <=> Pending
    BY <1>4 DEF FeedDiscard, Pending, Delivering, Waking
  <2>3. HeldOwned' /\ FedOwned' /\ FedApart'
    BY <1>0, <2>1 DEF Places, HeldOwned, FedOwned, FedApart
  <2>4. OfferedOwned' /\ OfferedApart' /\ AcceptedHeld'
    BY <1>0, <2>1, <2>2 DEF Places, OfferedOwned, OfferedApart, AcceptedHeld, Delivering
  <2>5. AllPlaced'
    BY <1>0, <2>1, <2>2 DEF Places, AllPlaced
  <2>6. FlagsHold'
    BY <1>0, <1>4 DEF Places, FlagsHold, FeedDiscard
  <2>7. Counted'
    BY <1>0, <2>1 DEF Counted
  <2>8. GiveBack
    <3>1. Unheld(fdata[f]) /\ fdata[f] \in owned
      BY <1>0, <2>1 DEF Places, FedOwned, FedApart, Unheld
    <3>2. OnOffer' = OnOffer
      BY <2>1 DEF OnOffer, Delivering
    <3> QED BY <2>1, <3>1, <3>2 DEF GiveBack
  <2> QED BY <2>3, <2>4, <2>5, <2>6, <2>7, <2>8 DEF ReleaseInv, Places, Moves
<1> QED BY <1>1, <1>2, <1>3, <1>4 DEF Feed
-----------------------------------------------------------------------------
(* The removal of a reference, by the dispatcher or by a consumer.         *)

LEMMA HoldersFinite ==
  ASSUME Base, NEW d
  PROVE  IsFiniteSet({c \in Holding : cslot[c] = d})
<1>1. IsFiniteSet(Consumers)
  BY FS_Interval, PcaAssumption DEF PcaAssumption, Consumers
<1> QED BY <1>1, FS_Subset DEF Holding

(* The last reference gives the datum back, any other one does not.        *)
LEMMA RemoveEffect ==
  ASSUME Base, ReleaseInv, NEW c \in Holding, RemoveDataFreeItem(cslot[c])
  PROVE  /\ refs[cslot[c]] > 0
         /\ refs' = [refs EXCEPT ![cslot[c]] = @ - 1]
         /\ owned' = IF \E e \in Holding \ {c} : cslot[e] = cslot[c]
                     THEN owned ELSE owned \ {cslot[c]}
<1> DEFINE H == {e \in Holding : cslot[e] = cslot[c]}
<1>1. IsFiniteSet(H) /\ cslot[c] \in Data /\ refs[cslot[c]] \in Nat
  BY HoldersFinite, BaseFacts
<1>2. refs[cslot[c]] = Cardinality(H) /\ c \in H
  BY <1>1 DEF ReleaseInv, Counted
<1>3. H = {c} <=> ~ \E e \in Holding \ {c} : cslot[e] = cslot[c]
  BY <1>2
<1> HIDE DEF H
<1>4. Cardinality(H) \in Nat /\ Cardinality(H) # 0
  BY <1>1, <1>2, FS_CardinalityType, FS_EmptySet
<1>5. Cardinality(H) = 1 <=> H = {c}
  BY <1>1, <1>2, FS_Singleton
<1>6. refs[cslot[c]] > 0
  BY <1>1, <1>2, <1>4
<1>7. /\ refs' = [refs EXCEPT ![cslot[c]] = @ - 1]
      /\ owned' = IF refs[cslot[c]] = 1 THEN owned \ {cslot[c]} ELSE owned
  BY <1>6 DEF RemoveDataFreeItem
<1> QED BY <1>2, <1>3, <1>5, <1>6, <1>7

(* The count follows when c is no longer a holder.                         *)
LEMMA RemoveCounted ==
  ASSUME Base, ReleaseInv, NEW c \in Holding,
         refs' = [refs EXCEPT ![cslot[c]] = @ - 1],
         Holding' = Holding \ {c}, cslot' = cslot
  PROVE  Counted'
<1> SUFFICES ASSUME NEW d \in Data
             PROVE  refs'[d] = Cardinality({e \in Holding' : cslot'[e] = d})
  BY DEF Counted
<1> DEFINE H == {e \in Holding : cslot[e] = d}
<1>1. {e \in Holding' : cslot'[e] = d} = H \ {c}
  OBVIOUS
<1>2. IsFiniteSet(H) /\ refs[d] = Cardinality(H)
  BY HoldersFinite DEF ReleaseInv, Counted
<1>3. c \in H <=> cslot[c] = d
  OBVIOUS
<1>4. refs'[d] = IF cslot[c] = d THEN refs[d] - 1 ELSE refs[d]
  BY BaseFacts
<1> HIDE DEF H
<1>5. Cardinality(H \ {c}) = IF c \in H THEN Cardinality(H) - 1 ELSE Cardinality(H)
  BY <1>2, FS_RemoveElement
<1> QED BY <1>1, <1>2, <1>3, <1>4, <1>5

(* The places after c has dropped its reference, if c's datum was not on   *)
(* offer as well.                                                          *)
LEMMA RemovePlaces ==
  ASSUME Base, ReleaseInv, NEW c \in Holding,
         Pending => cslot[c] # dslot,
         owned' = IF \E e \in Holding \ {c} : cslot[e] = cslot[c]
                  THEN owned ELSE owned \ {cslot[c]},
         Holding' = Holding \ {c}, Calling' = Calling, Pending' <=> Pending,
         Delivering' <=> Delivering, Delivering => Pending,
         UNCHANGED <<cslot, fdata, dslot, walkVars>>, FlagsHold'
  PROVE  Places'
<1> USE BaseFacts DEF walkVars
<1>0. Places
  BY DEF ReleaseInv
<1>1. HeldOwned' /\ FedOwned' /\ FedApart'
  BY <1>0 DEF Places, HeldOwned, FedOwned, FedApart
<1>2. OfferedOwned' /\ OfferedApart' /\ AcceptedHeld'
  BY <1>0 DEF Places, OfferedOwned, OfferedApart, AcceptedHeld
<1>3. AllPlaced'
  BY <1>0 DEF Places, AllPlaced
<1> QED BY <1>1, <1>2, <1>3 DEF Places
-----------------------------------------------------------------------------
(* _pca_thread_dispatcher.                                                 *)

(* The steps of the dispatcher that neither give out nor take back.        *)
LEMMA DispatcherWalkRelease ==
  ASSUME Base, ReleaseInv,
         \/ DispatcherStart \/ DispatcherWait \/ DispatcherLock \/ DispatcherFinish
         \/ FeedConsumersLock \/ FeedConsumersSkip \/ FeedConsumersTrylock
         \/ FeedConsumersRemoveLock \/ FeedConsumersUnlock \/ FeedConsumersHasNew
         \/ FeedConsumersPost \/ FeedConsumersReturn
  PROVE  ReleaseInv' /\ Moves
<1> USE BaseFacts
<1> USE DEF slotVars, walkVars, listVars, freeVars, consVars, fvars
<1>0. Places /\ Counted
  BY DEF ReleaseInv
<1> SUFFICES /\ Unmoved /\ (Pending' <=> Pending)
             /\ OfferedApart' /\ AcceptedHeld' /\ FlagsHold' /\ Stay
  BY <1>0, UnmovedPlaces, UnmovedCounted DEF ReleaseInv, Moves
<1>a. OfferedApart /\ AcceptedHeld /\ FlagsHold
  BY <1>0 DEF Places
<1>b. WakesForData
  BY DEF Base, WakeInv
<1> USE <1>a
<1>1. CASE DispatcherStart
  <2>1. Unmoved
    <3>1. Holding' = Holding BY <1>1 DEF DispatcherStart, Holding, Holds
    <3>2. Calling' = Calling BY <1>1 DEF DispatcherStart, Calling, InHand
    <3> QED BY <1>1, <3>1, <3>2 DEF DispatcherStart, Unmoved
  <2>2. Pending' <=> Pending
    BY <1>1, <1>b
       DEF DispatcherStart, Pending, WakesForData, Delivering, Waking
  <2>3. OfferedApart' /\ AcceptedHeld'
    BY <1>1, <2>1, <2>2
       DEF DispatcherStart, Unmoved, OfferedApart, AcceptedHeld, Delivering
  <2>4. FlagsHold' BY <1>1 DEF DispatcherStart, FlagsHold
  <2>5. Stay BY <1>1, <2>1 DEF DispatcherStart, Unmoved, Stay, OnOffer, Delivering
  <2> QED BY <2>1, <2>2, <2>3, <2>4, <2>5
<1>2. CASE DispatcherWait
  <2>1. Unmoved
    <3>1. Holding' = Holding BY <1>2 DEF DispatcherWait, Holding, Holds
    <3>2. Calling' = Calling BY <1>2 DEF DispatcherWait, Calling, InHand
    <3> QED BY <1>2, <3>1, <3>2 DEF DispatcherWait, Unmoved
  <2>2. Pending' <=> Pending
    BY <1>2, <1>b DEF DispatcherWait, Pending, WakesForData, Delivering, Waking
  <2>3. OfferedApart' /\ AcceptedHeld'
    BY <1>2, <2>1, <2>2
       DEF DispatcherWait, Unmoved, OfferedApart, AcceptedHeld, Delivering
  <2>4. FlagsHold' BY <1>2 DEF DispatcherWait, FlagsHold
  <2>5. Stay BY <1>2, <2>1 DEF DispatcherWait, Unmoved, Stay, OnOffer, Delivering
  <2> QED BY <2>1, <2>2, <2>3, <2>4, <2>5
<1>3. CASE DispatcherLock
  <2>1. Unmoved
    <3>1. Holding' = Holding BY <1>3 DEF DispatcherLock, Holding, Holds
    <3>2. Calling' = Calling BY <1>3 DEF DispatcherLock, Calling, InHand
    <3> QED BY <1>3, <3>1, <3>2 DEF DispatcherLock, Unmoved
  <2>2. Pending' <=> Pending
    BY <1>3, <1>b DEF DispatcherLock, Pending, WakesForData, Delivering, Waking
  <2>3. OfferedApart' /\ AcceptedHeld'
    BY <1>3, <2>1, <2>2
       DEF DispatcherLock, Unmoved, OfferedApart, AcceptedHeld, Delivering
  <2>4. FlagsHold' BY <1>3 DEF DispatcherLock, FlagsHold
  <2>5. Stay BY <1>3, <2>1 DEF DispatcherLock, Unmoved, Stay, OnOffer, Delivering
  <2> QED BY <2>1, <2>2, <2>3, <2>4, <2>5
<1>4. CASE DispatcherFinish
  <2>1. Unmoved
    <3>1. Holding' = Holding BY <1>4 DEF DispatcherFinish, Holding, Holds
    <3>2. Calling' = Calling BY <1>4 DEF DispatcherFinish, Calling, InHand
    <3> QED BY <1>4, <3>1, <3>2 DEF DispatcherFinish, Unmoved
  <2>2. Pending' <=> Pending
    BY <1>4, <1>b
       DEF DispatcherFinish, Pending, WakesForData, Delivering, Waking
  <2>3. OfferedApart' /\ AcceptedHeld'
    BY <1>4, <2>1, <2>2
       DEF DispatcherFinish, Unmoved, OfferedApart, AcceptedHeld, Delivering
  <2>4. FlagsHold' BY <1>4 DEF DispatcherFinish, FlagsHold
  <2>5. Stay BY <1>4, <2>1 DEF DispatcherFinish, Unmoved, Stay, OnOffer, Delivering
  <2> QED BY <2>1, <2>2, <2>3, <2>4, <2>5
<1>5. CASE FeedConsumersLock
  <2>1. Unmoved
    <3>1. Holding' = Holding BY <1>5 DEF FeedConsumersLock, Holding, Holds
    <3>2. Calling' = Calling BY <1>5 DEF FeedConsumersLock, Calling, InHand
    <3> QED BY <1>5, <3>1, <3>2 DEF FeedConsumersLock, Unmoved
  <2>2. Pending' <=> Pending
    BY <1>5, <1>b
       DEF FeedConsumersLock, Pending, WakesForData, Delivering, Waking
  <2>3. OfferedApart' /\ AcceptedHeld'
    BY <1>5, <2>1, <2>2
       DEF FeedConsumersLock, Unmoved, OfferedApart, AcceptedHeld, Delivering
  <2>4. FlagsHold' BY <1>5 DEF FeedConsumersLock, FlagsHold
  <2>5. Stay
    <3>1. Pending /\ ~Delivering
      BY <1>5, <1>b DEF FeedConsumersLock, Pending, WakesForData, Delivering
    <3>2. Unheld(dslot)
      BY <3>1 DEF OfferedApart, Unheld
    <3> QED BY <2>1, <3>1, <3>2 DEF Unmoved, Stay, OnOffer
  <2> QED BY <2>1, <2>2, <2>3, <2>4, <2>5
<1>6. CASE FeedConsumersSkip
  <2>1. Unmoved
    <3>1. Holding' = Holding BY <1>6 DEF FeedConsumersSkip, Holding, Holds
    <3>2. Calling' = Calling BY <1>6 DEF FeedConsumersSkip, Calling, InHand
    <3> QED BY <1>6, <3>1, <3>2 DEF FeedConsumersSkip, Unmoved
  <2>2. Pending' <=> Pending
    BY <1>6, <1>b
       DEF FeedConsumersSkip, Pending, WakesForData, Delivering, Waking
  <2>3. OfferedApart' /\ AcceptedHeld'
    BY <1>6, <2>1, <2>2
       DEF FeedConsumersSkip, Unmoved, OfferedApart, AcceptedHeld, Delivering
  <2>4. FlagsHold' BY <1>6 DEF FeedConsumersSkip, FlagsHold
  <2>5. Stay BY <1>6, <2>1 DEF FeedConsumersSkip, Unmoved, Stay, OnOffer, Delivering
  <2> QED BY <2>1, <2>2, <2>3, <2>4, <2>5
<1>7. CASE FeedConsumersTrylock
  <2>1. Unmoved
    <3>1. Holding' = Holding BY <1>7 DEF FeedConsumersTrylock, Holding, Holds
    <3>2. Calling' = Calling BY <1>7 DEF FeedConsumersTrylock, Calling, InHand
    <3> QED BY <1>7, <3>1, <3>2 DEF FeedConsumersTrylock, Unmoved
  <2>2. Pending' <=> Pending
    BY <1>7, <1>b
       DEF FeedConsumersTrylock, Pending, WakesForData, Delivering, Waking
  <2>3. OfferedApart' /\ AcceptedHeld'
    BY <1>7, <2>1, <2>2
       DEF FeedConsumersTrylock, Unmoved, OfferedApart, AcceptedHeld,
       Delivering
  <2>4. FlagsHold' BY <1>7 DEF FeedConsumersTrylock, FlagsHold
  <2>5. Stay BY <1>7, <2>1 DEF FeedConsumersTrylock, Unmoved, Stay, OnOffer, Delivering
  <2> QED BY <2>1, <2>2, <2>3, <2>4, <2>5
<1>8. CASE FeedConsumersRemoveLock
  <2>1. Unmoved
    <3>1. Holding' = Holding BY <1>8 DEF FeedConsumersRemoveLock, Holding, Holds
    <3>2. Calling' = Calling BY <1>8 DEF FeedConsumersRemoveLock, Calling, InHand
    <3> QED BY <1>8, <3>1, <3>2 DEF FeedConsumersRemoveLock, Unmoved
  <2>2. Pending' <=> Pending
    BY <1>8, <1>b
       DEF FeedConsumersRemoveLock, Pending, WakesForData, Delivering, Waking
  <2>3. OfferedApart' /\ AcceptedHeld'
    BY <1>8, <2>1, <2>2
       DEF FeedConsumersRemoveLock, Unmoved, OfferedApart, AcceptedHeld,
       Delivering
  <2>4. FlagsHold' BY <1>8 DEF FeedConsumersRemoveLock, FlagsHold
  <2>5. Stay
    BY <1>8, <2>1
       DEF FeedConsumersRemoveLock, Unmoved, Stay, OnOffer, Delivering
  <2> QED BY <2>1, <2>2, <2>3, <2>4, <2>5
<1>9. CASE FeedConsumersUnlock
  <2>1. Unmoved
    <3>1. Holding' = Holding BY <1>9 DEF FeedConsumersUnlock, Holding, Holds
    <3>2. Calling' = Calling BY <1>9 DEF FeedConsumersUnlock, Calling, InHand
    <3> QED BY <1>9, <3>1, <3>2 DEF FeedConsumersUnlock, Unmoved
  <2>2. Pending' <=> Pending
    BY <1>9, <1>b
       DEF FeedConsumersUnlock, Pending, WakesForData, Delivering, Waking
  <2>3. OfferedApart' /\ AcceptedHeld'
    BY <1>9, <2>1, <2>2
       DEF FeedConsumersUnlock, Unmoved, OfferedApart, AcceptedHeld, Delivering
  <2>4. FlagsHold' BY <1>9 DEF FeedConsumersUnlock, FlagsHold
  <2>5. Stay BY <1>9, <2>1 DEF FeedConsumersUnlock, Unmoved, Stay, OnOffer, Delivering
  <2> QED BY <2>1, <2>2, <2>3, <2>4, <2>5
<1>10. CASE FeedConsumersHasNew
  <2>1. Unmoved
    <3>1. Holding' = Holding BY <1>10 DEF FeedConsumersHasNew, Holding, Holds
    <3>2. Calling' = Calling BY <1>10 DEF FeedConsumersHasNew, Calling, InHand
    <3> QED BY <1>10, <3>1, <3>2 DEF FeedConsumersHasNew, Unmoved
  <2>2. Pending' <=> Pending
    BY <1>10, <1>b
       DEF FeedConsumersHasNew, Pending, WakesForData, Delivering, Waking
  <2>3. OfferedApart' /\ AcceptedHeld'
    BY <1>10, <2>1, <2>2
       DEF FeedConsumersHasNew, Unmoved, OfferedApart, AcceptedHeld, Delivering
  <2>4. FlagsHold' BY <1>10 DEF FeedConsumersHasNew, FlagsHold
  <2>5. Stay BY <1>10, <2>1 DEF FeedConsumersHasNew, Unmoved, Stay, OnOffer, Delivering
  <2> QED BY <2>1, <2>2, <2>3, <2>4, <2>5
<1>11. CASE FeedConsumersPost
  <2>1. Unmoved
    <3>1. Holding' = Holding BY <1>11 DEF FeedConsumersPost, Holding, Holds
    <3>2. Calling' = Calling BY <1>11 DEF FeedConsumersPost, Calling, InHand
    <3> QED BY <1>11, <3>1, <3>2 DEF FeedConsumersPost, Unmoved
  <2>2. Pending' <=> Pending
    BY <1>11, <1>b
       DEF FeedConsumersPost, Pending, WakesForData, Delivering, Waking
  <2>3. OfferedApart' /\ AcceptedHeld'
    BY <1>11, <2>1, <2>2
       DEF FeedConsumersPost, Unmoved, OfferedApart, AcceptedHeld, Delivering
  <2>4. FlagsHold' BY <1>11 DEF FeedConsumersPost, FlagsHold
  <2>5. Stay BY <1>11, <2>1 DEF FeedConsumersPost, Unmoved, Stay, OnOffer, Delivering
  <2> QED BY <2>1, <2>2, <2>3, <2>4, <2>5
<1>12. CASE FeedConsumersReturn
  <2>1. Unmoved
    <3>1. Holding' = Holding BY <1>12 DEF FeedConsumersReturn, Holding, Holds
    <3>2. Calling' = Calling BY <1>12 DEF FeedConsumersReturn, Calling, InHand
    <3> QED BY <1>12, <3>1, <3>2 DEF FeedConsumersReturn, Unmoved
  <2>2. Pending' <=> Pending
    BY <1>12, <1>b
       DEF FeedConsumersReturn, Pending, WakesForData, Delivering, Waking
  <2>3. OfferedApart' /\ AcceptedHeld'
    BY <1>12, <2>1, <2>2
       DEF FeedConsumersReturn, Unmoved, OfferedApart, AcceptedHeld, Delivering
  <2>4. FlagsHold' BY <1>12 DEF FeedConsumersReturn, FlagsHold
  <2>5. Stay BY <1>12, <2>1 DEF FeedConsumersReturn, Unmoved, Stay, OnOffer, Delivering
  <2> QED BY <2>1, <2>2, <2>3, <2>4, <2>5
<1> QED BY <1>1, <1>2, <1>3, <1>4, <1>5, <1>6, <1>7, <1>8, <1>9, <1>10, <1>11, <1>12

LEMMA DispatcherMoveRelease ==
  ASSUME Base, ReleaseInv,
         \/ FeedConsumersRemove \/ FeedConsumersAdd \/ FeedConsumersNextLoop
         \/ DispatcherFree
  PROVE  ReleaseInv' /\ Moves
<1> USE BaseFacts
<1> USE DEF slotVars, walkVars, listVars, freeVars, consVars, fvars
<1>0. /\ Counted /\ Places
      /\ HeldOwned /\ OfferedOwned /\ FedOwned /\ OfferedApart /\ FedApart
      /\ AcceptedHeld /\ AllPlaced /\ FlagsHold
  BY DEF ReleaseInv, Places
<1>1. CASE FeedConsumersRemove
  <2>1. pos \in Holding /\ RemoveDataFreeItem(cslot[pos])
    BY <1>0, <1>1 DEF FeedConsumersRemove, FlagsHold, Holding, Holds, Handling
  <2>2. /\ refs' = [refs EXCEPT ![cslot[pos]] = @ - 1]
        /\ owned' = IF \E e \in Holding \ {pos} : cslot[e] = cslot[pos]
                    THEN owned ELSE owned \ {cslot[pos]}
    BY <2>1, RemoveEffect
  <2>3. Holding' = Holding \ {pos}
    BY <1>1, <2>1 DEF FeedConsumersRemove, Holding, Holds
  <2>4. Calling' = Calling
    BY <1>1 DEF FeedConsumersRemove, Calling, InHand
  <2>5. Delivering /\ Delivering' /\ Pending /\ Pending'
    BY <1>1 DEF FeedConsumersRemove, Pending, Delivering
  <2>6. cslot[pos] # dslot
    BY <1>0, <2>1, <2>5 DEF OfferedApart
  <2>7. FlagsHold'
    BY <1>0, <1>1 DEF FeedConsumersRemove, FlagsHold
  <2>8. UNCHANGED <<cslot, fdata, dslot, walkVars>>
    BY <1>1 DEF FeedConsumersRemove
  <2>9. Places'
    BY <2>1, <2>2, <2>3, <2>4, <2>5, <2>6, <2>7, <2>8, RemovePlaces
  <2>10. Counted'
    BY <2>1, <2>2, <2>3, <2>8, RemoveCounted
  <2>11. Drop(pos)
    <3>1. cslot[pos] \in owned \ OnOffer /\ OnOffer' = OnOffer
      BY <1>0, <2>1, <2>5, <2>6, <2>8 DEF HeldOwned, OnOffer
    <3> QED BY <2>1, <2>2, <2>3, <2>8, <3>1 DEF Drop
  <2> QED BY <2>1, <2>9, <2>10, <2>11 DEF ReleaseInv, Moves
<1>2. CASE FeedConsumersAdd
  <2>1. /\ pos \in Consumers \ Holding /\ Holding' = Holding \union {pos}
        /\ refs' = [refs EXCEPT ![dslot] = @ + 1]
        /\ cslot' = [cslot EXCEPT ![pos] = dslot]
        /\ accepted' = TRUE /\ pos' = pos + 1 /\ need[pos]
        /\ UNCHANGED <<owned, fdata, dslot, need>>
    <3>1. pos \in Consumers \ Holding
      BY <1>2 DEF FeedConsumersAdd, Holding, Holds
    <3>2. Holding' = Holding \union {pos}
      BY <1>2, <3>1 DEF FeedConsumersAdd, Holding, Holds, Handling
    <3> QED BY <1>2, <3>1, <3>2 DEF FeedConsumersAdd, AddDataFreeItem
  <2>2. Calling' = Calling
    BY <1>2 DEF FeedConsumersAdd, Calling, InHand
  <2>3. Delivering /\ Delivering' /\ Pending /\ Pending'
    BY <1>2 DEF FeedConsumersAdd, Pending, Delivering
  <2>4. HeldOwned' /\ FedOwned' /\ OfferedOwned'
    BY <1>0, <2>1, <2>2, <2>3 DEF HeldOwned, FedOwned, OfferedOwned
  <2>5. FedApart'
    BY <1>0, <2>1, <2>2, <2>3 DEF FedApart, OfferedApart
  <2>6. OfferedApart' /\ AcceptedHeld'
    BY <1>0, <2>1, <2>2, <2>3 DEF OfferedApart, AcceptedHeld
  <2>7. AllPlaced'
    BY <1>0, <2>1, <2>2, <2>3 DEF AllPlaced
  <2>8. FlagsHold'
    BY <1>0, <1>2 DEF FeedConsumersAdd, FlagsHold
  <2>9. Counted'
    <3> SUFFICES ASSUME NEW d \in Data
                 PROVE  refs'[d] = Cardinality({c \in Holding' : cslot'[c] = d})
      BY DEF Counted
    <3> DEFINE H == {c \in Holding : cslot[c] = d}
    <3>1. {c \in Holding' : cslot'[c] = d} = IF d = dslot THEN H \union {pos} ELSE H
      BY <2>1
    <3>2. IsFiniteSet(H) /\ refs[d] = Cardinality(H) /\ pos \notin H
      BY <1>0, <2>1, HoldersFinite DEF Counted
    <3>3. refs'[d] = IF d = dslot THEN refs[d] + 1 ELSE refs[d]
      BY <2>1
    <3> HIDE DEF H
    <3>4. Cardinality(H \union {pos}) = Cardinality(H) + 1
      BY <3>2, FS_AddElement
    <3> QED BY <3>1, <3>2, <3>3, <3>4
  <2>10. HandOut(pos)
    <3>1. dslot \in OnOffer \cap owned /\ OnOffer' = OnOffer
      BY <1>0, <2>1, <2>3 DEF OfferedOwned, OnOffer
    <3> QED BY <2>1, <3>1 DEF HandOut
  <2> QED BY <2>1, <2>4, <2>5, <2>6, <2>7, <2>8, <2>9, <2>10
      DEF ReleaseInv, Places, Moves
<1>3. CASE FeedConsumersNextLoop
  <2>1. Unmoved
    <3>1. Holding' = Holding BY <1>3 DEF FeedConsumersNextLoop, Holding, Holds
    <3>2. Calling' = Calling BY <1>3 DEF FeedConsumersNextLoop, Calling, InHand
    <3> QED BY <1>3, <3>1, <3>2 DEF FeedConsumersNextLoop, Unmoved
  <2>2. Delivering /\ ~Delivering' /\ Pending /\ (Pending' <=> ~accepted)
    BY <1>3 DEF FeedConsumersNextLoop, Pending, Delivering, Waking
  <2>3. HeldOwned' /\ FedOwned' /\ FedApart' /\ OfferedOwned'
    BY <1>0, <2>1, <2>2 DEF Unmoved, HeldOwned, FedOwned, FedApart, OfferedOwned
  <2>4. OfferedApart' /\ AcceptedHeld'
    BY <1>0, <2>1, <2>2 DEF Unmoved, OfferedApart, AcceptedHeld
  <2>5. AllPlaced'
    BY <1>0, <2>1, <2>2 DEF Unmoved, AllPlaced, AcceptedHeld
  <2>6. FlagsHold'
    BY <1>0, <1>3 DEF FeedConsumersNextLoop, FlagsHold
  <2>7. Finished
    BY <2>1, <2>2 DEF Unmoved, Finished, OnOffer
  <2> QED BY <1>0, <2>1, <2>3, <2>4, <2>5, <2>6, <2>7, UnmovedCounted
      DEF ReleaseInv, Places, Moves
<1>4. CASE DispatcherFree
  <2>1. /\ Holding' = Holding /\ Calling' = Calling /\ owned' = owned \ {dslot}
        /\ UNCHANGED <<refs, cslot, fdata, dslot>>
    <3>1. Holding' = Holding BY <1>4 DEF DispatcherFree, Holding, Holds
    <3>2. Calling' = Calling BY <1>4 DEF DispatcherFree, Calling, InHand
    <3> QED BY <1>4, <3>1, <3>2 DEF DispatcherFree, DataFree
  <2>2. ~Delivering /\ ~Delivering' /\ ~Pending'
    BY <1>4 DEF DispatcherFree, Pending, Delivering, Waking
  <2>3. Pending
    BY <1>0, <1>4 DEF DispatcherFree, Pending, FlagsHold
  <2>4. (\A c \in Holding : cslot[c] # dslot) /\ (\A f \in Calling : fdata[f] # dslot)
    BY <1>0, <2>2, <2>3 DEF OfferedApart
  <2>5. HeldOwned' /\ FedOwned' /\ FedApart' /\ OfferedOwned'
    BY <1>0, <2>1, <2>2, <2>4 DEF HeldOwned, FedOwned, FedApart, OfferedOwned
  <2>6. OfferedApart' /\ AcceptedHeld' /\ AllPlaced'
    BY <1>0, <2>1, <2>2 DEF OfferedApart, AcceptedHeld, AllPlaced
  <2>7. FlagsHold' /\ Counted'
    BY <1>0, <1>4, <2>1 DEF DispatcherFree, FlagsHold, Counted
  <2>8. GiveBack
    <3>1. Unheld(dslot) /\ dslot \in owned
      BY <1>0, <2>3, <2>4 DEF OfferedOwned, Unheld
    <3>2. OnOffer' = OnOffer
      BY <2>2 DEF OnOffer
    <3> QED BY <2>1, <3>1, <3>2 DEF GiveBack
  <2> QED BY <2>5, <2>6, <2>7, <2>8 DEF ReleaseInv, Places, Moves
<1> QED BY <1>1, <1>2, <1>3, <1>4
-----------------------------------------------------------------------------
(* _pca_thread_consumer and pca_add_consumer_processor.                    *)

LEMMA ConsumerRelease ==
  ASSUME Base, ReleaseInv, NEW c \in Consumers, Consumer(c)
  PROVE  ReleaseInv' /\ Moves
<1> USE BaseFacts
<1> USE DEF slotVars, walkVars, listVars, freeVars, consVars, fvars, ConsumerStep
<1>0. Places /\ Counted /\ FlagsHold
  BY DEF ReleaseInv, Places
<1>1. CASE ConsumerRemove(c)
  <2>1. c \in Holding /\ RemoveDataFreeItem(cslot[c])
    <3>1. ~(dpc = "add" /\ pos = c)
      BY <1>1 DEF ConsumerRemove, Handling
    <3> QED BY <1>1, <3>1 DEF ConsumerRemove, Holding, Holds, Handling
  <2>2. /\ refs' = [refs EXCEPT ![cslot[c]] = @ - 1]
        /\ owned' = IF \E e \in Holding \ {c} : cslot[e] = cslot[c]
                    THEN owned ELSE owned \ {cslot[c]}
    BY <2>1, RemoveEffect
  <2>3. Holding' = Holding \ {c}
    BY <1>1 DEF ConsumerRemove, Holding, Holds
  <2>4. Calling' = Calling
    BY <1>1 DEF ConsumerRemove, Calling, InHand
  <2>5. /\ Delivering' <=> Delivering
        /\ Pending' <=> Pending
        /\ Delivering => Pending
    BY <1>1 DEF ConsumerRemove, Pending, Delivering, Waking
  <2>6. Pending => cslot[c] # dslot
    BY <1>0, <1>1, <2>1 DEF ConsumerRemove, Handling, Places, OfferedApart
  <2>7. FlagsHold'
    BY <1>0, <1>1 DEF ConsumerRemove, FlagsHold
  <2>8. UNCHANGED <<cslot, fdata, dslot, walkVars>>
    BY <1>1 DEF ConsumerRemove
  <2>9. Places'
    BY <2>1, <2>2, <2>3, <2>4, <2>5, <2>6, <2>7, <2>8, RemovePlaces
  <2>10. Counted'
    BY <2>1, <2>2, <2>3, <2>8, RemoveCounted
  <2>11. Drop(c)
    <3>1. cslot[c] \in owned \ OnOffer /\ OnOffer' = OnOffer
      BY <1>0, <2>1, <2>5, <2>6, <2>8 DEF Places, HeldOwned, OnOffer
    <3> QED BY <2>1, <2>2, <2>3, <2>8, <3>1 DEF Drop
  <2> QED BY <2>9, <2>10, <2>11 DEF ReleaseInv, Moves
<1>2. ASSUME \/ ConsumerStart(c) \/ ConsumerWait(c) \/ ConsumerHasNew(c)
             \/ ConsumerLock(c) \/ ConsumerProcess(c) \/ ConsumerRemoveLock(c)
             \/ ConsumerDone(c)
      PROVE  ReleaseInv' /\ Moves
  <2> USE <1>2 DEF ConsumerStart, ConsumerWait, ConsumerHasNew, ConsumerLock,
                   ConsumerProcess, ConsumerRemoveLock, ConsumerDone
  <2>1. Unmoved
    <3>1. Holding' = Holding
      BY DEF Holding, Holds
    <3>2. Calling' = Calling
      BY DEF Calling, InHand
    <3> QED BY <3>1, <3>2 DEF Unmoved
  <2>2. UNCHANGED <<dpc, walkVars, dnew, dmutex, fpc>>
    OBVIOUS
  <2>3. Pending' <=> Pending
    BY <2>2 DEF Pending, Delivering, Waking
  <2>4. FlagsHold'
    BY <1>0 DEF FlagsHold, Handling
  <2>5. Stay
    BY <2>1, <2>2 DEF Unmoved, Stay, OnOffer, Delivering
  <2> QED BY <1>0, <2>1, <2>2, <2>3, <2>4, <2>5, StillPlaces, UnmovedCounted
      DEF ReleaseInv, Moves
<1> QED BY <1>1, <1>2 DEF Consumer

LEMMA ClientRelease ==
  ASSUME Base, ReleaseInv, AddConsumer \/ AddConsumerSpawn \/ UNCHANGED vars
  PROVE  ReleaseInv' /\ Moves
<1> USE BaseFacts
<1> USE DEF slotVars, walkVars, listVars, freeVars, consVars, fvars
<1> USE DEF AddConsumer, AddConsumerSpawn, vars
<1>0. Places /\ Counted /\ FlagsHold
  BY DEF ReleaseInv, Places
<1>1. Unmoved
  <2>1. Holding' = Holding
    <3>1. apc = "spawn" => cpc[len] = "none"
      BY DEF Base, TypeInv, Positions
    <3> QED BY <3>1 DEF Holding, Holds
  <2>2. Calling' = Calling
    BY DEF Calling, InHand
  <2> QED BY <2>1, <2>2 DEF Unmoved
<1>2. UNCHANGED <<dpc, walkVars, dnew, dmutex, fpc, cnew>>
  OBVIOUS
<1>3. Pending' <=> Pending
  BY <1>2 DEF Pending, Delivering, Waking
<1>4. FlagsHold'
  BY <1>0, <1>2 DEF FlagsHold
<1>5. Stay
  BY <1>1, <1>2 DEF Unmoved, Stay, OnOffer, Delivering
<1> QED BY <1>0, <1>1, <1>2, <1>3, <1>4, <1>5, StillPlaces, UnmovedCounted
    DEF ReleaseInv, Moves

LEMMA NextRelease == Base /\ ReleaseInv /\ [Next]_vars => ReleaseInv' /\ Moves
<1> SUFFICES ASSUME Base, ReleaseInv, [Next]_vars PROVE ReleaseInv' /\ Moves
  OBVIOUS
<1>1. CASE \E f \in Feeders : Feed(f)
  BY <1>1, FeederRelease
<1>2. CASE Dispatcher
  BY <1>2, DispatcherWalkRelease, DispatcherMoveRelease DEF Dispatcher, FeedConsumers
<1>3. CASE \E c \in Consumers : Consumer(c)
  BY <1>3, ConsumerRelease
<1>4. CASE AddConsumer \/ AddConsumerSpawn \/ UNCHANGED vars
  BY <1>4, ClientRelease
<1> QED BY <1>1, <1>2, <1>3, <1>4 DEF Next
-----------------------------------------------------------------------------
(* What the invariant gives.                                               *)

LEMMA SpecRelease == Spec => [](Base /\ ReleaseInv)
BY SpecBase, InitRelease, NextRelease, PTL DEF Spec

(* The reference count of every datum is the number of its holders, for    *)
(* every number of consumers, data and feeders.                            *)
THEOREM CountExact == Spec => []RefCountExact
<1>1. ReleaseInv => RefCountExact
  BY CountedIsExact DEF ReleaseInv
<1> QED BY SpecRelease, <1>1, PTL

(* No datum goes back to the client while a consumer may still read it.    *)
THEOREM ReadersAreSafe == Spec => []NoUseAfterRelease
<1>1. ReleaseInv => NoUseAfterRelease
  BY DEF ReleaseInv, Places, HeldOwned, NoUseAfterRelease, Holding
<1> QED BY SpecRelease, <1>1, PTL

LEMMA HolderCounted ==
  ASSUME Base, ReleaseInv, NEW c \in Holding
  PROVE  refs[cslot[c]] > 0 /\ cslot[c] \in owned
<1> DEFINE H == {e \in Holding : cslot[e] = cslot[c]}
<1>1. IsFiniteSet(H) /\ cslot[c] \in Data /\ c \in H
  BY HoldersFinite, BaseFacts
<1>2. refs[cslot[c]] = Cardinality(H) /\ cslot[c] \in owned
  BY <1>1 DEF ReleaseInv, Counted, Places, HeldOwned
<1> HIDE DEF H
<1>3. Cardinality(H) \in Nat /\ Cardinality(H) # 0
  BY <1>1, FS_CardinalityType, FS_EmptySet
<1> QED BY <1>2, <1>3

(* Whichever of the five calls runs a callback, the datum is still the     *)
(* dispatcher's: none is given back twice.                                 *)
THEOREM ReleasedOnce == Spec => []NoDoubleRelease
<1>1. Base /\ ReleaseInv => NoDoubleRelease
  <2> SUFFICES ASSUME Base, ReleaseInv PROVE NoDoubleRelease
    OBVIOUS
  <2> USE BaseFacts
  <2>0. Places
    BY DEF ReleaseInv
  <2>1. ASSUME NEW f \in Feeders, fpc[f] = "free_old"
        PROVE  dslot \in owned /\ dslot # fdata[f]
    <3>1. f \in Calling
      BY <2>1 DEF Calling, InHand
    <3>2. Pending
      BY <2>0, <2>1 DEF Places, FlagsHold, Pending, DispatcherPc
    <3> QED BY <2>0, <3>1, <3>2 DEF Places, OfferedOwned, OfferedApart
  <2>2. ASSUME NEW f \in Feeders, fpc[f] = "discard" PROVE fdata[f] \in owned
    BY <2>0, <2>2 DEF Places, FedOwned, Calling, InHand
  <2>3. ASSUME dpc = "free" PROVE dslot \in owned
    BY <2>0, <2>3 DEF Places, FlagsHold, OfferedOwned, Pending
  <2>4. ASSUME dpc = "remove" PROVE refs[cslot[pos]] > 0 /\ cslot[pos] \in owned
    <3>1. pos \in Holding
      BY <2>0, <2>4 DEF Places, FlagsHold, Holding, Holds, Handling
    <3> QED BY <3>1, HolderCounted
  <2>5. ASSUME NEW c \in Consumers, cpc[c] = "remove"
        PROVE  refs[cslot[c]] > 0 /\ cslot[c] \in owned
    <3>1. c \in Holding
      BY <2>5 DEF Holding, Holds, Handling
    <3> QED BY <3>1, HolderCounted
  <2> QED BY <2>1, <2>2, <2>3, <2>4, <2>5 DEF NoDoubleRelease
<1> QED BY SpecRelease, <1>1, PTL

(* Every datum fed and not given back is where somebody will release it.   *)
THEOREM NothingForgotten == Spec => []NoLeak
<1>1. Base /\ ReleaseInv => NoLeak
  <2> SUFFICES ASSUME Base, ReleaseInv, NEW d \in owned
               PROVE  \/ \E f \in Feeders : InHand(f) /\ fdata[f] = d
                      \/ Pending /\ dslot = d
                      \/ refs[d] > 0
    BY DEF NoLeak
  <2>1. CASE \E c \in Holding : cslot[c] = d
    BY <2>1, HolderCounted
  <2> QED BY <2>1 DEF ReleaseInv, Places, AllPlaced, Calling
<1> QED BY SpecRelease, <1>1, PTL
-----------------------------------------------------------------------------
(* Pca implements PcaContract.                                             *)

(* The mapping, in terms of the sets the invariant is about.               *)
View == /\ DOMAIN Phase = Data /\ DOMAIN Holders = Data
        /\ \A d \in Data : Holders[d] = {c \in Holding : cslot[c] = d}
        /\ \A d \in Data \ owned : Phase[d] = "client"
        /\ \A d \in Data \cap owned :
             Phase[d] = IF Unheld(d) \/ d \in OnOffer THEN "offered" ELSE "delivered"

LEMMA ViewHolds == View
<1>1. ASSUME NEW d \in Data
      PROVE  HoldersOf(d) = {c \in Holding : cslot[c] = d}
  BY DEF HoldersOf, Holding
<1>2. ASSUME NEW d \in Data
      PROVE  HoldersOf(d) = {} <=> Unheld(d)
  BY <1>1 DEF Unheld
<1>3. ASSUME NEW d \in Data
      PROVE  PhaseOf(d) = IF d \notin owned THEN "client"
                          ELSE IF Unheld(d) \/ d \in OnOffer THEN "offered"
                          ELSE "delivered"
  BY <1>2 DEF PhaseOf, OnOffer
<1>4. /\ DOMAIN Phase = Data /\ \A d \in Data : Phase[d] = PhaseOf(d)
      /\ DOMAIN Holders = Data /\ \A d \in Data : Holders[d] = HoldersOf(d)
  BY DEF Phase, Holders
<1> QED BY <1>1, <1>3, <1>4 DEF View

LEMMA MovesImplement ==
  ASSUME Base, ReleaseInv, Moves
  PROVE  Contract!Next \/ UNCHANGED Contract!vars
<1>1. View /\ View'
  BY ViewHolds, PTL
<1>2. /\ \A c \in Holding : cslot[c] \in owned
      /\ owned \subseteq Data /\ cslot \in [Consumers -> Data]
      /\ Holding \subseteq Consumers
  BY BaseFacts DEF ReleaseInv, Places, HeldOwned
<1>3. Phase = [d \in Data |-> Phase[d]] /\ Holders = [d \in Data |-> Holders[d]]
  BY DEF Phase, Holders
<1>4. Phase' = [d \in Data |-> Phase'[d]] /\ Holders' = [d \in Data |-> Holders'[d]]
  BY DEF Phase, Holders
<1>5. CASE Take
  <2>1. PICK d \in Data \ owned : owned' = owned \union {d} /\ Unheld(d)
    BY <1>5 DEF Take
  <2>2. UNCHANGED <<Holding, cslot, OnOffer>>
    BY <1>5 DEF Take
  <2>3. Holders' = Holders
    BY <1>1, <1>3, <1>4, <2>2 DEF View
  <2>4. Phase[d] = "client"
    BY <1>1, <2>1 DEF View
  <2>5. Phase' = [Phase EXCEPT ![d] = "offered"]
    <3>1. ASSUME NEW e \in Data
          PROVE  Phase'[e] = IF e = d THEN "offered" ELSE Phase[e]
      BY <1>1, <1>2, <2>1, <2>2 DEF View, Unheld
    <3> QED BY <1>3, <1>4, <3>1
  <2>6. Contract!Offer(d)
    BY <2>3, <2>4, <2>5 DEF Contract!Offer
  <2> QED BY <2>6 DEF Contract!Next
<1>6. CASE GiveBack
  <2>1. PICK d \in owned : owned' = owned \ {d} /\ Unheld(d)
    BY <1>6 DEF GiveBack
  <2>2. UNCHANGED <<Holding, cslot, OnOffer>> /\ d \in Data
    BY <1>2, <1>6 DEF GiveBack
  <2>3. Holders' = Holders
    BY <1>1, <1>3, <1>4, <2>2 DEF View
  <2>4. Phase[d] = "offered" /\ Holders[d] = {}
    BY <1>1, <2>1, <2>2 DEF View, Unheld
  <2>5. Phase' = [Phase EXCEPT ![d] = "client"]
    <3>1. ASSUME NEW e \in Data
          PROVE  Phase'[e] = IF e = d THEN "client" ELSE Phase[e]
      BY <1>1, <1>2, <2>1, <2>2 DEF View, Unheld
    <3> QED BY <1>3, <1>4, <3>1
  <2>6. Contract!Refuse(d)
    BY <2>3, <2>4, <2>5 DEF Contract!Refuse
  <2> QED BY <2>2, <2>6 DEF Contract!Next
<1>7. CASE Finished
  <2>1. /\ OnOffer = {dslot} /\ OnOffer' = {} /\ dslot \in Data
        /\ UNCHANGED <<owned, Holding, cslot>>
    BY <1>7, BaseFacts DEF Finished, OnOffer
  <2>2. Holders' = Holders
    <3>1. \A d \in Data : Holders'[d] = Holders[d]
      BY <1>1, <2>1 DEF View
    <3> QED BY <1>3, <1>4, <3>1
  <2>3. ASSUME NEW e \in Data, e # dslot PROVE Phase'[e] = Phase[e]
    BY <1>1, <2>1, <2>3 DEF View, Unheld
  <2>4. CASE Unheld(dslot) \/ dslot \notin owned
    <3>1. Phase'[dslot] = Phase[dslot]
      BY <1>1, <2>1, <2>4 DEF View, Unheld
    <3>2. Phase' = Phase
      BY <1>3, <1>4, <2>3, <3>1
    <3> QED BY <2>2, <3>2 DEF Contract!vars
  <2>5. CASE ~Unheld(dslot) /\ dslot \in owned
    <3>1. Phase[dslot] = "offered" /\ Phase'[dslot] = "delivered" /\ Holders[dslot] # {}
      BY <1>1, <2>1, <2>5 DEF View, Unheld
    <3>2. Phase' = [Phase EXCEPT ![dslot] = "delivered"]
      BY <1>3, <1>4, <2>3, <3>1
    <3>3. Contract!Commit(dslot)
      BY <2>2, <3>1, <3>2 DEF Contract!Commit
    <3> QED BY <2>1, <3>3 DEF Contract!Next
  <2> QED BY <2>4, <2>5
<1>8. CASE Stay
  <2>1. UNCHANGED <<owned, Holding, cslot>>
    BY <1>8 DEF Stay
  <2>2. \A d \in Data : Unheld(d) \/ (d \in OnOffer' <=> d \in OnOffer)
    BY <1>8 DEF Stay
  <2>3. Holders' = Holders
    <3>1. \A d \in Data : Holders'[d] = Holders[d]
      BY <1>1, <2>1 DEF View
    <3> QED BY <1>3, <1>4, <3>1
  <2>4. ASSUME NEW e \in Data PROVE Phase'[e] = Phase[e]
    BY <1>1, <2>1, <2>2 DEF View, Unheld
  <2>5. Phase' = Phase
    BY <1>3, <1>4, <2>4
  <2> QED BY <2>3, <2>5 DEF Contract!vars
<1>9. ASSUME NEW c \in Consumers, HandOut(c) PROVE Contract!Next
  <2>1. PICK d \in OnOffer \cap owned : cslot' = [cslot EXCEPT ![c] = d]
    BY <1>9 DEF HandOut
  <2>2. /\ c \notin Holding /\ Holding' = Holding \union {c}
        /\ UNCHANGED <<owned, OnOffer>> /\ d \in Data
    BY <1>2, <1>9, <2>1 DEF HandOut
  <2>3. Phase[d] = "offered"
    BY <1>1, <2>1, <2>2 DEF View
  <2>4. ~Contract!Holding(c)
    BY <1>1, <2>2 DEF View, Contract!Holding
  <2>5. Holders' = [Holders EXCEPT ![d] = @ \union {c}]
    <3>1. ASSUME NEW e \in Data
          PROVE  Holders'[e] = IF e = d THEN Holders[e] \union {c} ELSE Holders[e]
      <4>1. Holders[e] = {b \in Holding : cslot[b] = e}
        BY <1>1 DEF View
      <4>2. Holders'[e] = {b \in Holding' : cslot'[b] = e}
        BY <1>1 DEF View
      <4> QED BY <1>2, <2>1, <2>2, <4>1, <4>2
    <3> QED BY <1>3, <1>4, <3>1
  <2>6. Phase' = Phase
    <3>1. ASSUME NEW e \in Data, e # d PROVE Unheld(e)' <=> Unheld(e)
      BY <1>2, <2>1, <2>2, <3>1 DEF Unheld
    <3>2. ASSUME NEW e \in Data PROVE Phase'[e] = Phase[e]
      BY <1>1, <2>1, <2>2, <3>1 DEF View
    <3> QED BY <1>3, <1>4, <3>2
  <2>7. Contract!Hand(d, c)
    BY <2>3, <2>4, <2>5, <2>6 DEF Contract!Hand
  <2> QED BY <2>2, <2>7 DEF Contract!Next
<1>10. ASSUME NEW c \in Consumers, Drop(c) PROVE Contract!Next
  <2> DEFINE d == cslot[c]
  <2>1. /\ c \in Holding /\ d \in owned \ OnOffer /\ Holding' = Holding \ {c}
        /\ owned' = IF \E e \in Holding \ {c} : cslot[e] = d
                    THEN owned ELSE owned \ {d}
        /\ UNCHANGED <<cslot, OnOffer>> /\ d \in Data
    BY <1>2, <1>10 DEF Drop
  <2>2. Phase[d] = "delivered" /\ c \in Holders[d]
    BY <1>1, <2>1 DEF View, Unheld
  <2>3. Holders[d] = {c} <=> ~ \E e \in Holding \ {c} : cslot[e] = d
    BY <1>1, <2>1 DEF View
  <2>4. Holders' = [Holders EXCEPT ![d] = @ \ {c}]
    <3>1. ASSUME NEW e \in Data
          PROVE  Holders'[e] = IF e = d THEN Holders[e] \ {c} ELSE Holders[e]
      <4>1. Holders[e] = {b \in Holding : cslot[b] = e}
        BY <1>1 DEF View
      <4>2. Holders'[e] = {b \in Holding' : cslot'[b] = e}
        BY <1>1 DEF View
      <4> QED BY <1>2, <2>1, <4>1, <4>2
    <3> QED BY <1>3, <1>4, <3>1
  <2>5. ASSUME NEW e \in Data, e # d PROVE Phase'[e] = Phase[e]
    <3>1. Unheld(e)' <=> Unheld(e)
      BY <2>1, <2>5 DEF Unheld
    <3> QED BY <1>1, <2>1, <2>5, <3>1 DEF View
  <2>6. Phase'[d] = IF Holders[d] = {c} THEN "client" ELSE "delivered"
    <3>1. Unheld(d)' <=> Holders[d] = {c}
      BY <2>1, <2>3 DEF Unheld
    <3> QED BY <1>1, <2>1, <2>3, <3>1 DEF View
  <2>7. Phase' = IF Holders[d] = {c} THEN [Phase EXCEPT ![d] = "client"] ELSE Phase
    BY <1>3, <1>4, <2>1, <2>2, <2>5, <2>6
  <2> HIDE DEF d
  <2>8. Contract!Retire(d, c)
    BY <2>2, <2>4, <2>7 DEF Contract!Retire
  <2> QED BY <2>1, <2>8 DEF Contract!Next
<1> QED BY <1>5, <1>6, <1>7, <1>8, <1>9, <1>10 DEF Moves

(* Seen from the client, the dispatcher, its consumers and its feeders do  *)
(* what PcaContract says and nothing else.                                 *)
THEOREM PcaImplementsContract == Spec => ImplementsContract
<1>1. Init => Contract!Init
  <2> SUFFICES ASSUME Init PROVE Contract!Init
    OBVIOUS
  <2>1. Holding = {} /\ owned = {}
    BY DEF Init, Holding, Holds
  <2>2. View
    BY ViewHolds
  <2>3. \A d \in Data : Phase[d] = "client" /\ Holders[d] = {}
    BY <2>1, <2>2 DEF View
  <2> QED BY <2>3 DEF Contract!Init, Phase, Holders
<1>2. Base /\ ReleaseInv /\ [Next]_vars => [Contract!Next]_Contract!vars
  BY NextRelease, MovesImplement
<1> QED BY SpecRelease, <1>1, <1>2, PTL DEF Spec, ImplementsContract, Contract!Spec
=============================================================================
