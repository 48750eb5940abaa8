------------------------------ MODULE IonProofs ------------------------------
(***************************************************************************)
(* Proofs about the allocator and the programs of IonApps: for every       *)
(* number of pages and buffers, every set of failing calls and every       *)
(* choice of programs, no page is lost or shared, and none is left behind  *)
(* when the programs have ended; a program closes and unmaps exactly what  *)
(* it has, whichever call fails; a consumer sees the image the producer    *)
(* stored.                                                                 *)
(***************************************************************************)
EXTENDS IonApps, FiniteSetTheorems, TLAPS

-----------------------------------------------------------------------------
(* The inductive invariant.                                                *)

IonShape ==
  /\ free \subseteq Page
  /\ pages \in [Buf -> SUBSET Page]
  /\ kpc \in [Proc -> Phase]
  /\ got \in [Proc -> SUBSET Page]
  /\ mine \in [Proc -> Buf \cup {None}]
  /\ \A p \in Proc : kpc[p] = "fd" => mine[p] \in Buf
  /\ orphans \subseteq Buf
  /\ DOMAIN held = Proc
  /\ DOMAIN maps = Proc

(* Outside the loop and its unwinding an ion_alloc has no pages in hand.   *)
GotInside ==
  \A p \in Proc : kpc[p] \notin {"pages", "export", "unwind"} => got[p] = {}

(* A buffer with pages is referred to, or it is on its way to its first    *)
(* descriptor, or it never got one.                                        *)
Alive ==
  \A b \in Buf : pages[b] # {} =>
    \/ Referenced(b, held, maps, queue)
    \/ b \in orphans
    \/ \E p \in Proc : kpc[p] = "fd" /\ mine[p] = b

(* A process is before its fork, at a call of its program, or ended; while *)
(* it is in the ioctl it is at the call that made it.                      *)
PcInCode == /\ DOMAIN pc = Proc
            /\ \A p \in Proc : pc[p] \in DOMAIN Code(p) \cup {0, Ended}

InsideAlloc ==
  \A p \in Proc : kpc[p] # "user" /\ pc[p] # Ended =>
    /\ pc[p] \in DOMAIN Code(p)
    /\ Code(p)[pc[p]].call = "alloc"

(* A process that has ended holds nothing.                                 *)
EndedClean ==
  \A p \in Proc : pc[p] = Ended =>
    /\ kpc[p] \in {"user", "oops"}
    /\ held[p] = {}
    /\ maps[p] = {}

(* The master forks its children, holds the socket pair as long as one of  *)
(* them may send, and never allocates.                                     *)
MasterInv ==
  /\ kpc[Main] = "user"
  /\ pc[Main] \in {1, 2} => pc[Producer] = 0 /\ pc[Consumer] = 0
  /\ pc[Main] = 3 => pc[Consumer] = 0
  /\ pc[Producer] \notin {0, Ended} => pc[Main] \in {3, 4}
  /\ pc[Main] \in 2 .. 7 => "sock1" \in held[Main]

(* A message lies only in a socket somebody has still open.                *)
MessageKept == queue # <<>> => \E p \in Proc : "sock1" \in held[p]

(* PageHasOneOwner, page by page: no page is in two hands, and each is in   *)
(* one.                                                                    *)
Disjoint ==
  /\ \A p \in Proc : /\ got[p] \cap free = {}
                     /\ \A r \in Proc \ {p} : got[p] \cap got[r] = {}
                     /\ \A b \in Buf : got[p] \cap pages[b] = {}
  /\ \A b \in Buf : /\ pages[b] \cap free = {}
                    /\ \A c \in Buf \ {b} : pages[b] \cap pages[c] = {}

Placed == \A g \in Page : \/ g \in free
                          \/ \E p \in Proc : g \in got[p]
                          \/ \E b \in Buf : g \in pages[b]

PageInv == IonShape /\ GotInside /\ Disjoint /\ Placed
ControlInv == PcInCode /\ InsideAlloc
EndInv == EndedClean /\ MasterInv /\ MessageKept
IonInv == PageInv /\ Alive /\ ControlInv /\ EndInv
-----------------------------------------------------------------------------
(* The programs: a jump leads to a call of the program, the last call is    *)
(* exit, and some calls are not made.                                       *)

(* The calls a program makes, in order, and where each leads when it fails *)
(* (0: nowhere else).                                                      *)
Is(code, calls, labels) ==
  /\ DOMAIN code = 1 .. Len(calls)
  /\ \A i \in 1 .. Len(calls) : code[i].call = calls[i] /\ code[i].label = labels[i]

LEMMA Rows_Forks ==
  Is(Forks,
    <<"socketpair", "fork_producer", "fork_consumer", "wait_producer",
      "wait_consumer", "close_sock0", "close_sock1", "exit">>,
    <<8, 0, 0, 0, 0, 0, 0, 0>>)
BY DEF Is, Forks, Program, Do, Then

LEMMA Rows_ion_test1 ==
  Is(ion_test1,
    <<"open_ion", "alloc", "mmap", "store", "munmap", "close_buf",
      "close_ion", "exit">>,
    <<8, 7, 6, 0, 0, 0, 0, 0>>)
BY DEF Is, ion_test1, Program, Do, Then

LEMMA Rows_frame_demo1 ==
  Is(frame_demo1,
    <<"stat", "open_ion", "alloc", "mmap", "open_file", "store",
      "create_frame", "destroy_frame", "close_file", "munmap",
      "close_buf", "close_ion", "exit">>,
    <<13, 13, 12, 11, 10, 9, 0, 0, 0, 0, 0, 0, 0>>)
BY DEF Is, frame_demo1, Program, Do, Then

LEMMA Rows_ion_test2_producer ==
  Is(ion_test2_producer,
    <<"close_other", "exec", "stat", "open_ion", "alloc", "mmap",
      "open_file", "store", "send", "close_file", "munmap", "close_buf",
      "close_ion", "close_socket", "exit">>,
    <<0, 15, 14, 14, 13, 12, 11, 10, 0, 0, 0, 0, 0, 0, 0>>)
BY DEF Is, ion_test2_producer, Program, Do, Then

LEMMA Rows_ion_test3_producer ==
  Is(ion_test3_producer,
    <<"close_other", "stat", "open_ion", "alloc", "mmap", "open_file",
      "store", "send", "close_file", "munmap", "close_buf", "close_ion",
      "close_socket", "exit">>,
    <<0, 13, 13, 12, 11, 10, 9, 0, 0, 0, 0, 0, 0, 0>>)
BY DEF Is, ion_test3_producer, Program, Do, Then

LEMMA Rows_frame_demo2_producer ==
  Is(frame_demo2_producer,
    <<"close_other", "stat", "open_ion", "alloc", "mmap", "open_file",
      "store", "create_frame", "send", "destroy_frame", "close_file",
      "munmap", "close_buf", "close_ion", "close_socket", "exit">>,
    <<0, 15, 15, 14, 13, 12, 11, 0, 0, 0, 0, 0, 0, 0, 0, 0>>)
BY DEF Is, frame_demo2_producer, Program, Do, Then

LEMMA Rows_ipc_fd_transfer_producer ==
  Is(ipc_fd_transfer_producer,
    <<"close_other", "exec", "open_file", "send", "close_file",
      "close_socket", "exit">>,
    <<0, 7, 7, 0, 0, 0, 0>>)
BY DEF Is, ipc_fd_transfer_producer, Program, Do, Then

LEMMA Rows_ion_test2_consumer ==
  Is(ion_test2_consumer,
    <<"close_other", "exec", "recv", "mmap", "dump", "munmap",
      "close_buf", "close_file", "close_socket", "exit">>,
    <<0, 10, 10, 7, 0, 0, 0, 0, 0, 0>>)
BY DEF Is, ion_test2_consumer, Program, Do, Then

LEMMA Rows_ion_test3_consumer ==
  Is(ion_test3_consumer,
    <<"close_other", "recv", "mmap", "dump", "munmap", "close_buf",
      "close_file", "close_socket", "exit">>,
    <<0, 9, 6, 0, 0, 0, 0, 0, 0>>)
BY DEF Is, ion_test3_consumer, Program, Do, Then

LEMMA Rows_frame_demo2_consumer ==
  Is(frame_demo2_consumer,
    <<"close_other", "recv", "fopen", "mmap", "dump", "close_buf",
      "close_socket", "exit">>,
    <<0, 8, 6, 0, 0, 0, 0, 0>>)
BY DEF Is, frame_demo2_consumer, Program, Do, Then

LEMMA Rows_ipc_fd_transfer_consumer ==
  Is(ipc_fd_transfer_consumer,
    <<"close_other", "exec", "recv", "close_file", "close_socket", "exit">>,
    <<0, 6, 6, 0, 0, 0>>)
BY DEF Is, ipc_fd_transfer_consumer, Program, Do, Then

Sound(code, never) ==
  \E n \in 1 .. 20 : /\ DOMAIN code = 1 .. n
                     /\ \A i \in 1 .. n : /\ code[i].label \in 0 .. n
                                          /\ code[i].call \notin never
                     /\ code[n].call = "exit"

Parent == {"fork_producer", "fork_consumer", "socketpair", "close_sock0",
           "close_sock1"}

LEMMA ProgramsSound ==
  /\ Sound(Forks, {"alloc", "send"})
  /\ Sound(ion_test1, Parent \cup {"send"})
  /\ Sound(frame_demo1, Parent \cup {"send"})
  /\ Sound(ion_test2_producer, Parent)
  /\ Sound(ion_test3_producer, Parent)
  /\ Sound(frame_demo2_producer, Parent)
  /\ Sound(ipc_fd_transfer_producer, Parent)
  /\ Sound(ion_test2_consumer, Parent \cup {"send"})
  /\ Sound(ion_test3_consumer, Parent \cup {"send"})
  /\ Sound(frame_demo2_consumer, Parent \cup {"send"})
  /\ Sound(ipc_fd_transfer_consumer, Parent \cup {"send"})
<1> USE DEF Is, Sound, Parent
<1>1. Sound(Forks, {"alloc", "send"})
  BY Rows_Forks
<1>2. Sound(ion_test1, Parent \cup {"send"})
  BY Rows_ion_test1
<1>3. Sound(frame_demo1, Parent \cup {"send"})
  BY Rows_frame_demo1
<1>4. Sound(ion_test2_producer, Parent)
  BY Rows_ion_test2_producer
<1>5. Sound(ion_test3_producer, Parent)
  BY Rows_ion_test3_producer
<1>6. Sound(frame_demo2_producer, Parent)
  BY Rows_frame_demo2_producer
<1>7. Sound(ipc_fd_transfer_producer, Parent)
  BY Rows_ipc_fd_transfer_producer
<1>8. Sound(ion_test2_consumer, Parent \cup {"send"})
  BY Rows_ion_test2_consumer
<1>9. Sound(ion_test3_consumer, Parent \cup {"send"})
  BY Rows_ion_test3_consumer
<1>10. Sound(frame_demo2_consumer, Parent \cup {"send"})
  BY Rows_frame_demo2_consumer
<1>11. Sound(ipc_fd_transfer_consumer, Parent \cup {"send"})
  BY Rows_ipc_fd_transfer_consumer
<1> HIDE DEF Is, Sound, Parent
<1> QED BY <1>1, <1>2, <1>3, <1>4, <1>5, <1>6, <1>7, <1>8, <1>9, <1>10, <1>11

(* The master makes the calls of Forks and nobody else forks; only the      *)
(* producer sends.                                                         *)
LEMMA CodeFacts ==
  /\ \A p \in Proc : Sound(Code(p), {})
  /\ \A p \in Proc \ {Main} : Sound(Code(p), Parent)
  /\ \A p \in Proc \ {Producer} : Sound(Code(p), {"send"})
  /\ Code(Main) = Forks
<1> USE IonAppsAssumption DEF IonAppsAssumption
<1>1. Code(Main) = Forks
  BY DEF Code, ion_test2_main, ion_test3_main, frame_demo2_main,
     ipc_fd_transfer_main
<1>2. \A code : \A never : \A calls \in SUBSET never :
        Sound(code, never) => Sound(code, calls)
  BY DEF Sound
<1>3. Sound(Code(Solo), Parent \cup {"send"})
  BY ProgramsSound DEF Code
<1>4. Sound(Code(Producer), Parent)
  BY ProgramsSound DEF Code
<1>5. Sound(Code(Consumer), Parent \cup {"send"})
  BY ProgramsSound DEF Code
<1>6. Sound(Code(Main), {"alloc", "send"})
  BY <1>1, ProgramsSound
<1>7. \A p \in Proc : p = Main \/ p = Solo \/ p = Producer \/ p = Consumer
  OBVIOUS
<1>8. \A p \in Proc : Sound(Code(p), {})
  <2>1. Sound(Code(Solo), {}) BY <1>2, <1>3
  <2>2. Sound(Code(Producer), {}) BY <1>2, <1>4
  <2>3. Sound(Code(Consumer), {}) BY <1>2, <1>5
  <2>4. Sound(Code(Main), {}) BY <1>2, <1>6
  <2> QED BY <2>1, <2>2, <2>3, <2>4, <1>7
<1>9. \A p \in Proc \ {Main} : Sound(Code(p), Parent)
  <2>1. Sound(Code(Solo), Parent) BY <1>2, <1>3
  <2>2. Sound(Code(Consumer), Parent) BY <1>2, <1>5
  <2> QED BY <2>1, <2>2, <1>4, <1>7
<1>10. \A p \in Proc \ {Producer} : Sound(Code(p), {"send"})
  <2>1. Sound(Code(Solo), {"send"}) BY <1>2, <1>3
  <2>2. Sound(Code(Consumer), {"send"}) BY <1>2, <1>5
  <2>3. Sound(Code(Main), {"send"}) BY <1>2, <1>6
  <2> QED BY <2>1, <2>2, <2>3, <1>7
<1> QED BY <1>1, <1>8, <1>9, <1>10

(* The calls of the master, and where its jumps lead.                      *)
LEMMA MasterCalls ==
  /\ DOMAIN Forks = 1 .. 8
  /\ Forks[1].call = "socketpair" /\ Forks[1].label = 8
  /\ Forks[2].call = "fork_producer"
  /\ Forks[3].call = "fork_consumer"
  /\ Forks[4].call = "wait_producer"
  /\ Forks[5].call = "wait_consumer"
  /\ Forks[6].call = "close_sock0"
  /\ Forks[7].call = "close_sock1"
  /\ Forks[8].call = "exit"
BY DEF Forks, Program, Do, Then

LEMMA CodeStays == scenario' = scenario => \A p : Code(p)' = Code(p)
BY DEF Code

-----------------------------------------------------------------------------
(* The pages.                                                              *)

LEMMA UnionOver ==
  \A f, S, x : x \in UNION {f[i] : i \in S} <=> \E i \in S : x \in f[i]
OBVIOUS

LEMMA OneOwner == IonShape => (PageHasOneOwner <=> Disjoint /\ Placed)
<1> SUFFICES ASSUME IonShape PROVE PageHasOneOwner <=> Disjoint /\ Placed
  OBVIOUS
<1> DEFINE G == UNION {got[p] : p \in Proc}
           B == UNION {pages[b] : b \in Buf}
<1>1. \A x : x \in G <=> \E p \in Proc : x \in got[p]
  BY UnionOver
<1>2. \A x : x \in B <=> \E b \in Buf : x \in pages[b]
  BY UnionOver
<1>3. PageHasOneOwner <=> Disjoint /\ Page = free \cup G \cup B
  BY DEF PageHasOneOwner, Disjoint
<1> HIDE DEF G, B
<1>4. free \subseteq Page /\ G \subseteq Page /\ B \subseteq Page
  BY <1>1, <1>2 DEF IonShape
<1>5. Page = free \cup G \cup B <=> Placed
  BY <1>1, <1>2, <1>4 DEF Placed
<1> QED BY <1>3, <1>5

LEMMA ReferPages ==
  ASSUME PageInv, Alive, NEW h, NEW m, NEW q, DOMAIN h = Proc, DOMAIN m = Proc,
         Refer(h, m, q)
  PROVE  PageInv' /\ Alive'
<1> DEFINE dead == {b \in Buf : /\ Referenced(b, held, maps, queue)
                               /\ ~Referenced(b, h, m, q)}
<1>1. /\ free' = free \cup UNION {pages[b] : b \in dead}
      /\ pages' = [b \in Buf |-> IF b \in dead THEN {} ELSE pages[b]]
      /\ UNCHANGED <<kpc, got, mine, orphans>>
      /\ held' = h /\ maps' = m /\ queue' = q
  BY DEF Refer, ion_release
<1>2. \A b \in Buf : b \notin dead /\ Referenced(b, held, maps, queue) =>
                     Referenced(b, h, m, q)
  OBVIOUS
<1>3. dead \subseteq Buf
  OBVIOUS
<1> HIDE DEF dead
<1> USE DEF PageInv
<1>4. \A b \in Buf : pages'[b] = IF b \in dead THEN {} ELSE pages[b]
  BY <1>1
<1>5. IonShape'
  <2>1. free' \subseteq Page
    BY <1>1, <1>3 DEF IonShape
  <2>2. pages' \in [Buf -> SUBSET Page]
    BY <1>1 DEF IonShape
  <2> QED BY <1>1, <2>1, <2>2 DEF IonShape
<1>6. GotInside'
  BY <1>1 DEF GotInside
<1>7. Disjoint'
  <2> USE DEF Disjoint
  <2>1. \A p \in Proc : got[p] \cap free' = {}
    BY <1>1, <1>3
  <2>2. \A b \in Buf : pages'[b] \cap free' = {}
    BY <1>1, <1>3, <1>4
  <2>3. \A p \in Proc : /\ \A r \in Proc \ {p} : got[p] \cap got[r] = {}
                       /\ \A b \in Buf : got[p] \cap pages'[b] = {}
    BY <1>4
  <2>4. \A b \in Buf : \A c \in Buf \ {b} : pages'[b] \cap pages'[c] = {}
    BY <1>4
  <2> QED BY <1>1, <2>1, <2>2, <2>3, <2>4
<1>9. Placed'
  <2>1. ASSUME NEW b \in Buf, NEW g \in pages[b]
        PROVE  g \in free' \/ g \in pages'[b]
    BY <1>1, <1>4
  <2>2. free \subseteq free'
    BY <1>1
  <2> QED BY <1>1, <2>1, <2>2 DEF Placed
<1>8. Alive'
  <2> SUFFICES ASSUME NEW b \in Buf, pages'[b] # {}
               PROVE  \/ Referenced(b, h, m, q)
                      \/ b \in orphans
                      \/ \E p \in Proc : kpc[p] = "fd" /\ mine[p] = b
    BY <1>1 DEF Alive
  <2>1. b \notin dead /\ pages[b] # {}
    BY <1>4
  <2> QED BY <2>1, <1>2 DEF Alive
<1> QED BY <1>5, <1>6, <1>7, <1>8, <1>9

LEMMA IoctlPages ==
  ASSUME PageInv, Alive, NEW p \in Proc, NEW len, ion_ioctl(p, len)
  PROVE  PageInv' /\ Alive'
<1> USE DEF PageInv, ion_ioctl, Enter
<1>1. got' = got
  BY DEF IonShape, GotInside
<1>2. IonShape'
  BY DEF IonShape, Phase
<1>3. GotInside'
  BY <1>1 DEF GotInside, IonShape
<1>4. Disjoint' /\ Placed'
  BY <1>1 DEF Disjoint, Placed
<1>5. Alive'
  BY DEF Alive, IonShape
<1> QED BY <1>2, <1>3, <1>4, <1>5

LEMMA AllocPages ==
  ASSUME PageInv, Alive, NEW p \in Proc, AllocPage(p)
  PROVE  PageInv' /\ Alive'
<1> USE DEF PageInv, AllocPage, Enter
<1>1. IonShape'
  BY DEF IonShape, Phase
<1>2. GotInside'
  BY DEF GotInside, IonShape
<1>3. Alive'
  BY DEF Alive, IonShape
<1>4. ASSUME NEW g \in free, free' = free \ {g},
             got' = [got EXCEPT ![p] = @ \cup {g}]
      PROVE  Disjoint' /\ Placed'
  <2>1. \A r \in Proc : got'[r] = IF r = p THEN got[p] \cup {g} ELSE got[r]
    BY <1>4 DEF IonShape
  <2>2. Disjoint'
    BY <1>4, <2>1 DEF Disjoint
  <2>3. Placed'
    BY <1>4, <2>1 DEF Placed
  <2> QED BY <2>2, <2>3
<1>5. CASE UNCHANGED <<free, got>>
  <2>1. UNCHANGED pages
    OBVIOUS
  <2> HIDE DEF AllocPage
  <2> QED BY <1>1, <1>2, <1>3, <1>5, <2>1 DEF Disjoint, Placed
<1> QED BY <1>1, <1>2, <1>3, <1>4, <1>5

LEMMA ExportPages ==
  ASSUME PageInv, Alive, NEW p \in Proc, Export(p)
  PROVE  PageInv' /\ Alive'
<1> USE DEF PageInv, Export, Enter
<1>1. IonShape'
  BY DEF IonShape, Phase
<1>2. GotInside'
  BY DEF GotInside, IonShape
<1>3. ASSUME NEW b \in Buf, pages[b] = {},
             pages' = [pages EXCEPT ![b] = got[p]],
             mine' = [mine EXCEPT ![p] = b],
             got' = [got EXCEPT ![p] = {}],
             kpc' = [kpc EXCEPT ![p] = "fd"]
      PROVE  Disjoint' /\ Placed' /\ Alive'
  <2>1. /\ \A c \in Buf : pages'[c] = IF c = b THEN got[p] ELSE pages[c]
        /\ \A r \in Proc : got'[r] = IF r = p THEN {} ELSE got[r]
        /\ \A r \in Proc : /\ mine'[r] = IF r = p THEN b ELSE mine[r]
                           /\ kpc'[r] = IF r = p THEN "fd" ELSE kpc[r]
    BY <1>3 DEF IonShape
  <2>2. kpc[p] = "export" /\ UNCHANGED <<free, held, maps, queue, orphans>>
    OBVIOUS
  <2> HIDE DEF Export
  <2>3. Disjoint'
    BY <1>3, <2>1, <2>2 DEF Disjoint
  <2>4. Placed'
    BY <1>3, <2>1, <2>2 DEF Placed
  <2>5. Alive'
    BY <1>3, <2>1, <2>2 DEF Alive
  <2> QED BY <2>3, <2>4, <2>5
<1>4. CASE /\ UNCHANGED <<pages, mine, got>>
           /\ kpc' = [kpc EXCEPT ![p] = "unwind"]
  <2>1. kpc[p] = "export" /\ UNCHANGED <<free, held, maps, queue, orphans>>
    OBVIOUS
  <2> HIDE DEF Export
  <2>2. Disjoint' /\ Placed'
    BY <1>4, <2>1 DEF Disjoint, Placed
  <2>3. Alive'
    BY <1>4, <2>1 DEF Alive, IonShape
  <2> QED BY <1>1, <1>2, <2>2, <2>3
<1> QED BY <1>1, <1>2, <1>3, <1>4

LEMMA UnwindPages ==
  ASSUME PageInv, Alive, NEW p \in Proc, Unwind(p)
  PROVE  PageInv' /\ Alive'
<1> USE DEF PageInv, Unwind, Enter
<1>1. \A r \in Proc : got'[r] = IF r = p THEN {} ELSE got[r]
  BY DEF IonShape
<1>2. IonShape'
  BY DEF IonShape, Phase
<1>3. GotInside'
  BY <1>1 DEF GotInside, IonShape
<1>4. Disjoint'
  BY <1>1 DEF Disjoint
<1>5. Placed'
  BY <1>1 DEF Placed
<1>6. Alive'
  BY DEF Alive, IonShape
<1> QED BY <1>2, <1>3, <1>4, <1>5, <1>6

LEMMA InstallPages ==
  ASSUME PageInv, Alive, NEW p \in Proc, InstallFd(p) \/ CopyToUser(p)
  PROVE  PageInv' /\ Alive'
<1> USE DEF PageInv, InstallFd, CopyToUser, Enter
<1>1. IonShape'
  BY DEF IonShape, Phase
<1>2. GotInside'
  BY DEF GotInside, IonShape
<1>3. Disjoint' /\ Placed'
  BY DEF Disjoint, Placed
<1>4. Alive'
  <2> SUFFICES ASSUME NEW b \in Buf, pages[b] # {}
               PROVE  \/ Referenced(b, held', maps', queue')
                      \/ b \in orphans'
                      \/ \E r \in Proc : kpc'[r] = "fd" /\ mine'[r] = b
    BY DEF Alive
  <2>1. CASE Referenced(b, held, maps, queue)
    BY <2>1 DEF Referenced, IonShape
  <2>2. CASE b \in orphans
    BY <2>2
  <2>3. ASSUME NEW r \in Proc, kpc[r] = "fd", mine[r] = b
        PROVE  \/ Referenced(b, held', maps', queue')
               \/ b \in orphans'
               \/ \E s \in Proc : kpc'[s] = "fd" /\ mine'[s] = b
    BY <2>3 DEF Referenced, IonShape
  <2> QED BY <2>1, <2>2, <2>3 DEF Alive
<1> QED BY <1>1, <1>2, <1>3, <1>4

LEMMA InIoctlPages ==
  ASSUME PageInv, Alive, NEW p \in Proc, InIoctl(p)
  PROVE  PageInv' /\ Alive'
BY AllocPages, ExportPages, UnwindPages, InstallPages DEF InIoctl

LEMMA StayPages ==
  ASSUME PageInv, Alive, UNCHANGED ionVars
  PROVE  PageInv' /\ Alive'
BY DEF PageInv, IonShape, GotInside, Disjoint, Placed, Alive, ionVars

LEMMA ReturnPages ==
  ASSUME PageInv, Alive, NEW p \in Proc, Return(p)
  PROVE  PageInv' /\ Alive'
<1> USE DEF PageInv, Return, Enter
<1>1. IonShape'
  BY DEF IonShape, Phase
<1>2. GotInside'
  BY DEF GotInside, IonShape
<1>3. Disjoint' /\ Placed'
  BY DEF Disjoint, Placed
<1>4. Alive'
  BY DEF Alive, IonShape
<1> QED BY <1>1, <1>2, <1>3, <1>4

LEMMA NextPages ==
  ASSUME PageInv, Alive, [Next]_vars
  PROVE  PageInv' /\ Alive'
<1> DEFINE Safe == PageInv' /\ Alive'
<1>1. DOMAIN held = Proc /\ DOMAIN maps = Proc
  BY DEF PageInv, IonShape
<1>2. UNCHANGED ionVars => Safe
  BY StayPages
<1>3. ASSUME NEW h, NEW m, NEW q, DOMAIN h = Proc, DOMAIN m = Proc, Refer(h, m, q)
      PROVE  Safe
  BY <1>3, ReferPages
<1>4. ASSUME NEW h, DOMAIN h = Proc, NEW q, Refer(h, maps, q) PROVE Safe
  BY <1>1, <1>3, <1>4
<1>5. ASSUME NEW p \in Proc, End(p) PROVE Safe
  <2> DEFINE h == [held EXCEPT ![p] = {}]
             m == [maps EXCEPT ![p] = {}]
  <2>1. Refer(h, m, Kept(h))
    BY <1>5 DEF End
  <2>2. DOMAIN h = Proc /\ DOMAIN m = Proc
    BY <1>1
  <2> HIDE DEF h, m, Safe
  <2> QED BY <2>1, <2>2, <1>3
<1> HIDE DEF Safe
<1>6. ASSUME NEW p \in Proc, Run(p) PROVE Safe
  <2>1. CASE Try(p) BY <1>2, <2>1 DEF Try
  <2>2. CASE Acquire(p)
    <3>1. Refer([held EXCEPT ![p] = @ \cup Opens[Call(p)]], maps, queue)
          \/ UNCHANGED ionVars
      BY <2>2 DEF Acquire, Hold
    <3>2. DOMAIN [held EXCEPT ![p] = @ \cup Opens[Call(p)]] = Proc
      BY <1>1
    <3> QED BY <1>2, <1>4, <3>1, <3>2
  <2>3. CASE Release(p)
    <3> DEFINE h == [held EXCEPT ![p] = @ \ Closes(p)]
    <3>1. Refer(h, maps, Kept(h))
      BY <2>3 DEF Release, Drop
    <3>2. DOMAIN h = Proc
      BY <1>1
    <3> HIDE DEF h
    <3> QED BY <1>4, <3>1, <3>2
  <2>4. CASE Alloc(p)
    <3>1. PICK len \in Sizes : ion_ioctl(p, len)
      BY <2>4 DEF Alloc
    <3> QED BY <3>1, IoctlPages DEF Safe
  <2>5. CASE Kernel(p) BY <2>5, InIoctlPages DEF Kernel, Safe
  <2>6. CASE Return(p) BY <2>6, ReturnPages DEF Safe
  <2>7. CASE Oops(p) BY <1>5, <2>7 DEF Oops
  <2>8. CASE fdc_mmap_dmabuf_addr(p)
    <3>1. Refer(held, [maps EXCEPT ![p] = @ \cup {buf[p]}], queue)
          \/ UNCHANGED ionVars
      BY <2>8 DEF fdc_mmap_dmabuf_addr
    <3>2. DOMAIN [maps EXCEPT ![p] = @ \cup {buf[p]}] = Proc
      BY <1>1
    <3> QED BY <1>1, <1>2, <1>3, <3>1, <3>2
  <2>9. CASE Munmap(p)
    <3>1. Refer(held, [maps EXCEPT ![p] = @ \ {buf[p]}], queue)
      BY <2>9 DEF Munmap
    <3>2. DOMAIN [maps EXCEPT ![p] = @ \ {buf[p]}] = Proc
      BY <1>1
    <3> QED BY <1>1, <1>3, <3>1, <3>2
  <2>10. CASE fdc_store_img_to_dmabuf(p)
    BY <1>2, <2>10 DEF fdc_store_img_to_dmabuf
  <2>11. CASE Send(p)
    <3>1. Refer(held, maps, Append(queue, Cargo(p))) \/ UNCHANGED ionVars
      BY <2>11 DEF Send
    <3> QED BY <1>1, <1>2, <1>4, <3>1
  <2>12. CASE Recv(p)
    <3>1. Refer([held EXCEPT ![p] = @ \cup Head(queue)], maps, Tail(queue))
          \/ UNCHANGED ionVars
      BY <2>12 DEF Recv
    <3>2. DOMAIN [held EXCEPT ![p] = @ \cup Head(queue)] = Proc
      BY <1>1
    <3> QED BY <1>2, <1>4, <3>1, <3>2
  <2>13. CASE Dump(p) BY <1>2, <1>5, <2>13 DEF Dump
  <2>14. CASE Fork(p)
    <3>1. PICK child \in {Producer, Consumer} :
            Refer([held EXCEPT ![child] = held[p]], maps, queue)
      BY <2>14 DEF Fork
    <3>2. DOMAIN [held EXCEPT ![child] = held[p]] = Proc
      BY <1>1
    <3> QED BY <1>4, <3>1, <3>2
  <2>15. CASE Wait(p) BY <1>2, <2>15 DEF Wait
  <2>16. CASE Exit(p) BY <1>5, <2>16 DEF Exit
  <2> QED BY <1>6, <2>1, <2>2, <2>3, <2>4, <2>5, <2>6, <2>7, <2>8, <2>9, <2>10,
             <2>11, <2>12, <2>13, <2>14, <2>15, <2>16 DEF Run
<1>7. CASE UNCHANGED vars
  <2>1. UNCHANGED ionVars
    BY <1>7 DEF vars
  <2> QED BY <1>2, <2>1 DEF Safe
<1> QED BY <1>6, <1>7 DEF Next, Safe

LEMMA InitPages == Init => PageInv /\ Alive
<1> SUFFICES ASSUME Init PROVE PageInv /\ Alive
  OBVIOUS
<1> USE DEF Init, IonInit
<1>1. IonShape
  BY DEF IonShape, Phase
<1>2. GotInside
  BY DEF GotInside
<1>3. Disjoint
  BY DEF Disjoint
<1>4. Placed /\ Alive
  BY DEF Placed, Alive
<1> QED BY <1>1, <1>2, <1>3, <1>4 DEF PageInv

(* No page is freed twice or forgotten by ion_alloc's unwinding, by        *)
(* ion_release or by the end of a process, in any order of the steps of    *)
(* any programs.                                                           *)
THEOREM PagesAreKept == Spec => []PageHasOneOwner
<1>1. PageInv => PageHasOneOwner
  BY OneOwner DEF PageInv
<1>2. PageInv /\ Alive /\ [Next]_vars => PageInv' /\ Alive'
  BY NextPages
<1> QED BY <1>1, <1>2, InitPages, PTL DEF Spec

-----------------------------------------------------------------------------
(* The programs' control.                                                  *)

Active(p) == pc[p] \in DOMAIN Code(p)

LEMMA InCode ==
  ASSUME NEW p \in Proc, NEW i \in DOMAIN Code(p)
  PROVE  /\ i \in 1 .. 20
         /\ Code(p)[i].call # "exit" => i + 1 \in DOMAIN Code(p)
         /\ Code(p)[i].label # 0 => Code(p)[i].label \in DOMAIN Code(p)
<1> DEFINE code == Code(p)
<1>1. Sound(code, {})
  BY CodeFacts
<1> HIDE DEF code
<1>2. PICK n \in 1 .. 20 : /\ DOMAIN code = 1 .. n
                          /\ \A j \in 1 .. n : code[j].label \in 0 .. n
                          /\ code[n].call = "exit"
  BY <1>1 DEF Sound
<1>3. i \in 1 .. n
  BY <1>2 DEF code
<1>4. i \in 1 .. 20 /\ (code[i].label # 0 => code[i].label \in DOMAIN code)
  BY <1>2, <1>3
<1>5. ASSUME code[i].call # "exit" PROVE i + 1 \in DOMAIN code
  <2>1. i # n
    BY <1>2, <1>5
  <2> QED BY <1>2, <1>3, <2>1
<1> QED BY <1>4, <1>5 DEF code

LEMMA Starts == \A p \in Proc : 1 \in DOMAIN Code(p)
<1> TAKE p \in Proc
<1> DEFINE code == Code(p)
<1>1. Sound(code, {})
  BY CodeFacts
<1> HIDE DEF code
<1>2. 1 \in DOMAIN code
  BY <1>1 DEF Sound
<1> QED BY <1>2 DEF code

LEMMA NotEnds ==
  ASSUME NEW p \in Proc, NEW i \in DOMAIN Code(p)
  PROVE  i # 0 /\ i # Ended
<1>1. i \in 1 .. 20
  BY InCode
<1> QED BY <1>1 DEF Ended

(* After a call that is not exit a process is at a call of its program.    *)
LEMMA Advance ==
  ASSUME PcInCode, NEW p \in Proc, Active(p), Code(p)[pc[p]].call # "exit",
         Go(p) \/ Jump(p)
  PROVE  /\ DOMAIN pc' = Proc
         /\ \A r \in Proc \ {p} : pc'[r] = pc[r]
         /\ pc'[p] \in DOMAIN Code(p)
<1> DEFINE to == Code(p)[pc[p]].label
           next == IF Go(p) \/ to = 0 THEN pc[p] + 1 ELSE to
<1>1. pc' = [pc EXCEPT ![p] = next]
  BY DEF Go, Jump
<1>2. next \in DOMAIN Code(p)
  BY InCode DEF Active
<1> HIDE DEF next
<1> QED BY <1>1, <1>2 DEF PcInCode

LEMMA CallOf ==
  ASSUME PcInCode, NEW p \in Proc, Call(p) # "none"
  PROVE  Active(p) /\ kpc[p] = "user" /\ Code(p)[pc[p]].call = Call(p)
BY DEF Call, PcInCode, Active

(* What a step of p other than a fork does: only p moves, to a call of its *)
(* program or to its end with nothing held; it enters the ioctl only by an *)
(* alloc; a message that remains has somebody who holds its socket.        *)
Effect(p) ==
  /\ Active(p)
  /\ DOMAIN pc' = Proc
  /\ scenario' = scenario
  /\ \A r \in Proc \ {p} : /\ pc'[r] = pc[r] /\ kpc'[r] = kpc[r]
                           /\ held'[r] = held[r] /\ maps'[r] = maps[r]
  /\ \/ /\ pc'[p] \in DOMAIN Code(p)
        /\ kpc'[p] # "user" => Code(p)[pc'[p]].call = "alloc"
     \/ /\ pc'[p] = Ended
        /\ kpc'[p] \in {"user", "oops"}
        /\ held'[p] = {}
        /\ maps'[p] = {}
  /\ queue' # <<>> =>
       \/ /\ queue # <<>> \/ p = Producer
          /\ "sock1" \in held[p] => "sock1" \in held'[p]
       \/ \E r \in Proc : "sock1" \in held'[r]

LEMMA EndEffect ==
  ASSUME IonShape, PcInCode, NEW p \in Proc, Active(p),
         kpc[p] \in {"user", "oops"}, End(p), scenario' = scenario
  PROVE  Effect(p)
<1> DEFINE h == [held EXCEPT ![p] = {}]
<1>1. /\ pc' = [pc EXCEPT ![p] = Ended] /\ held' = h
      /\ maps' = [maps EXCEPT ![p] = {}] /\ queue' = Kept(h) /\ kpc' = kpc
  BY DEF End, Refer
<1>2. queue' # <<>> => \E r \in Proc : "sock1" \in held'[r]
  BY <1>1 DEF Kept
<1>3. /\ DOMAIN pc' = Proc /\ pc'[p] = Ended /\ held'[p] = {} /\ maps'[p] = {}
      /\ \A r \in Proc \ {p} : /\ pc'[r] = pc[r] /\ kpc'[r] = kpc[r]
                               /\ held'[r] = held[r] /\ maps'[r] = maps[r]
  BY <1>1 DEF IonShape, PcInCode
<1> QED BY <1>1, <1>2, <1>3 DEF Effect

(* A call that only p's pc, descriptors and mappings change by.            *)
LEMMA CallEffect ==
  ASSUME IonShape, PcInCode, NEW p \in Proc, Call(p) \notin {"none", "exit"},
         Go(p) \/ Jump(p), kpc' = kpc, scenario' = scenario,
         \A r \in Proc \ {p} : held'[r] = held[r] /\ maps'[r] = maps[r],
         queue' # <<>> =>
           \/ /\ queue # <<>> \/ p = Producer
              /\ "sock1" \in held[p] => "sock1" \in held'[p]
           \/ \E r \in Proc : "sock1" \in held'[r]
  PROVE  Effect(p)
<1>1. Active(p) /\ kpc[p] = "user" /\ Code(p)[pc[p]].call # "exit"
  BY CallOf
<1>2. /\ DOMAIN pc' = Proc
      /\ \A r \in Proc \ {p} : pc'[r] = pc[r]
      /\ pc'[p] \in DOMAIN Code(p)
  BY <1>1, Advance
<1> QED BY <1>1, <1>2 DEF Effect

LEMMA RunEffect ==
  ASSUME IonShape, ControlInv, EndInv, NEW p \in Proc, Run(p), ~Fork(p)
  PROVE  Effect(p)
<1> USE DEF ControlInv
<1>0. DOMAIN held = Proc /\ DOMAIN maps = Proc /\ DOMAIN kpc = Proc
  BY DEF IonShape
<1>1. CASE Try(p)
  <2>1. UNCHANGED <<kpc, held, maps, queue, scenario>>
    BY <1>1 DEF Try, ionVars
  <2>2. Call(p) \notin {"none", "exit"} /\ (Go(p) \/ Jump(p))
    BY <1>1 DEF Try
  <2> QED BY <2>1, <2>2, CallEffect
<1>2. CASE Acquire(p)
  <2>1. Call(p) \notin {"none", "exit"} /\ (Go(p) \/ Jump(p)) /\ scenario' = scenario
    BY <1>2 DEF Acquire, Opens
  <2>2. \/ UNCHANGED <<kpc, held, maps, queue>>
        \/ /\ UNCHANGED <<kpc, maps, queue>>
           /\ held' = [held EXCEPT ![p] = @ \cup Opens[Call(p)]]
    BY <1>2 DEF Acquire, Hold, Refer, ionVars
  <2> QED BY <1>0, <2>1, <2>2, CallEffect
<1>3. CASE Release(p)
  <2> DEFINE h == [held EXCEPT ![p] = @ \ Closes(p)]
  <2>1. Call(p) \notin {"none", "exit"} /\ Go(p) /\ scenario' = scenario
    BY <1>3 DEF Release, Closing
  <2>2. UNCHANGED <<kpc, maps>> /\ held' = h /\ queue' = Kept(h)
    BY <1>3 DEF Release, Drop, Refer
  <2>3. queue' # <<>> => \E r \in Proc : "sock1" \in held'[r]
    BY <2>2 DEF Kept
  <2> QED BY <1>0, <2>1, <2>2, <2>3, CallEffect
<1>4. CASE Alloc(p)
  <2>1. At(p, "alloc") /\ UNCHANGED <<pc, scenario, held, maps, queue>>
        /\ \E phase : kpc' = [kpc EXCEPT ![p] = phase]
    BY <1>4 DEF Alloc, ion_ioctl, Enter, appVars
  <2>2. Active(p) /\ Code(p)[pc[p]].call = "alloc"
    BY <2>1, CallOf DEF At
  <2> QED BY <1>0, <2>1, <2>2 DEF Effect, PcInCode, Active
<1>5. CASE Kernel(p)
  <2>1. kpc[p] \in {"pages", "export", "unwind", "fd", "copy"}
    BY <1>5 DEF Kernel, InIoctl, AllocPage, Export, Unwind, InstallFd, CopyToUser
  <2>2. Active(p) /\ Code(p)[pc[p]].call = "alloc"
    BY <2>1 DEF InsideAlloc, EndInv, EndedClean, Active
  <2>3. UNCHANGED <<pc, scenario, maps, queue>>
    BY <1>5
       DEF Kernel, InIoctl, AllocPage, Export, Unwind, InstallFd, CopyToUser
  <2>4. kpc' = kpc \/ \E phase : kpc' = [kpc EXCEPT ![p] = phase]
    BY <1>5
       DEF Kernel, InIoctl, AllocPage, Export, Unwind, InstallFd, CopyToUser, Enter
  <2>5. held' = held \/ held' = [held EXCEPT ![p] = @ \cup {mine[p]}]
    BY <1>5
       DEF Kernel, InIoctl, AllocPage, Export, Unwind, InstallFd, CopyToUser
  <2> QED BY <1>0, <2>2, <2>3, <2>4, <2>5 DEF Effect, PcInCode, Active
<1>6. CASE Return(p)
  <2>1. Active(p) /\ Code(p)[pc[p]].call = "alloc"
    BY <1>6 DEF Return, InsideAlloc, EndInv, EndedClean, Active
  <2>2. /\ Go(p) \/ Jump(p)
        /\ kpc' = [kpc EXCEPT ![p] = "user"]
        /\ UNCHANGED <<scenario, held, maps, queue>>
    BY <1>6 DEF Return, Enter
  <2>3. /\ DOMAIN pc' = Proc
        /\ \A r \in Proc \ {p} : pc'[r] = pc[r]
        /\ pc'[p] \in DOMAIN Code(p)
    BY <2>1, <2>2, Advance
  <2> QED BY <1>0, <2>1, <2>2, <2>3 DEF Effect
<1>7. CASE Oops(p)
  <2>1. Active(p) /\ kpc[p] = "oops" /\ End(p) /\ scenario' = scenario
    BY <1>7 DEF Oops, InsideAlloc, Active
  <2> QED BY <2>1, EndEffect
<1>8. CASE fdc_mmap_dmabuf_addr(p)
  <2>1. Call(p) \notin {"none", "exit"} /\ (Go(p) \/ Jump(p)) /\ scenario' = scenario
    BY <1>8 DEF fdc_mmap_dmabuf_addr, At
  <2>2. \/ UNCHANGED <<kpc, held, maps, queue>>
        \/ /\ UNCHANGED <<kpc, held, queue>>
           /\ maps' = [maps EXCEPT ![p] = @ \cup {buf[p]}]
    BY <1>8 DEF fdc_mmap_dmabuf_addr, Refer, ionVars
  <2> QED BY <1>0, <2>1, <2>2, CallEffect
<1>9. CASE Munmap(p)
  <2>1. Call(p) \notin {"none", "exit"} /\ Go(p) /\ scenario' = scenario
    BY <1>9 DEF Munmap, At
  <2>2. /\ UNCHANGED <<kpc, held, queue>>
        /\ maps' = [maps EXCEPT ![p] = @ \ {buf[p]}]
    BY <1>9 DEF Munmap, Refer
  <2> QED BY <1>0, <2>1, <2>2, CallEffect
<1>10. CASE fdc_store_img_to_dmabuf(p)
  <2>1. /\ Call(p) \notin {"none", "exit"} /\ (Go(p) \/ Jump(p))
        /\ UNCHANGED <<kpc, held, maps, queue, scenario>>
    BY <1>10 DEF fdc_store_img_to_dmabuf, At, ionVars
  <2> QED BY <2>1, CallEffect
<1>11. CASE Send(p)
  <2>1. /\ Call(p) = "send" /\ Go(p)
        /\ UNCHANGED <<kpc, held, maps, scenario>>
    BY <1>11 DEF Send, At, Refer, ionVars
  <2>2. p = Producer
    BY <2>1, CallOf, CodeFacts DEF Sound, Active
  <2> QED BY <2>1, <2>2, CallEffect
<1>12. CASE Recv(p)
  <2>1. Call(p) \notin {"none", "exit"} /\ (Go(p) \/ Jump(p)) /\ scenario' = scenario
    BY <1>12 DEF Recv, At
  <2>2. \/ UNCHANGED <<kpc, held, maps, queue>>
        \/ /\ UNCHANGED <<kpc, maps>> /\ queue # <<>>
           /\ held' = [held EXCEPT ![p] = @ \cup Head(queue)]
    BY <1>12 DEF Recv, Refer, ionVars
  <2> QED BY <1>0, <2>1, <2>2, CallEffect
<1>13. CASE Dump(p)
  <2>1. Call(p) = "dump" /\ scenario' = scenario
    BY <1>13 DEF Dump, At
  <2>2. CASE Go(p) /\ UNCHANGED ionVars
    <3>1. UNCHANGED <<kpc, held, maps, queue>>
      BY <2>2 DEF ionVars
    <3> QED BY <2>1, <2>2, <3>1, CallEffect
  <2>3. CASE End(p)
    BY <2>1, <2>3, CallOf, EndEffect
  <2> QED BY <1>13, <2>2, <2>3 DEF Dump
<1>15. CASE Wait(p)
  <2>1. /\ Call(p) \notin {"none", "exit"} /\ Go(p)
        /\ UNCHANGED <<kpc, held, maps, queue, scenario>>
    BY <1>15 DEF Wait, At, ionVars
  <2> QED BY <2>1, CallEffect
<1>16. CASE Exit(p)
  <2>1. Call(p) = "exit" /\ End(p) /\ scenario' = scenario
    BY <1>16 DEF Exit, At
  <2> QED BY <2>1, CallOf, EndEffect
<1> QED BY <1>1, <1>2, <1>3, <1>4, <1>5, <1>6, <1>7, <1>8, <1>9, <1>10,
           <1>11, <1>12, <1>13, <1>15, <1>16 DEF Run

LEMMA EffectControl ==
  ASSUME IonShape, ControlInv, EndInv, NEW p \in Proc, Effect(p)
  PROVE  ControlInv' /\ EndedClean' /\ MessageKept'
<1>1. \A r : Code(r)' = Code(r)
  BY CodeStays DEF Effect
<1>2. PcInCode'
  BY <1>1 DEF Effect, ControlInv, PcInCode
<1>3. InsideAlloc'
  <2> SUFFICES ASSUME NEW r \in Proc, kpc'[r] # "user", pc'[r] # Ended
               PROVE  /\ pc'[r] \in DOMAIN Code(r)
                      /\ Code(r)[pc'[r]].call = "alloc"
    BY <1>1 DEF InsideAlloc
  <2> QED BY DEF Effect, ControlInv, InsideAlloc
<1>4. EndedClean'
  <2> SUFFICES ASSUME NEW r \in Proc, pc'[r] = Ended
               PROVE  kpc'[r] \in {"user", "oops"} /\ held'[r] = {} /\ maps'[r] = {}
    BY DEF EndedClean
  <2>1. CASE r = p
    <3>1. pc'[p] \notin DOMAIN Code(p)
      BY <2>1, InCode DEF Ended
    <3> QED BY <2>1, <3>1 DEF Effect
  <2> QED BY <2>1 DEF Effect, EndInv, EndedClean
<1>5. MessageKept'
  <2> SUFFICES ASSUME queue' # <<>> PROVE \E r \in Proc : "sock1" \in held'[r]
    BY DEF MessageKept
  <2>1. CASE queue # <<>> /\ ("sock1" \in held[p] => "sock1" \in held'[p])
    BY <2>1 DEF Effect, EndInv, MessageKept
  <2>2. CASE p = Producer
    <3>1. pc[Producer] \notin {0, Ended}
      BY <2>2, NotEnds DEF Effect, Active
    <3>2. Main \in Proc \ {p} /\ "sock1" \in held[Main]
      BY <2>2, <3>1, IonAppsAssumption DEF IonAppsAssumption, EndInv, MasterInv
    <3> QED BY <3>2 DEF Effect
  <2> QED BY <2>1, <2>2 DEF Effect
<1> QED BY <1>2, <1>3, <1>4, <1>5 DEF ControlInv

(* The steps of the children and of Solo leave the master alone.           *)
LEMMA OthersMaster ==
  ASSUME IonShape, ControlInv, EndInv, NEW p \in Proc \ {Main}, Effect(p)
  PROVE  MasterInv'
<1>1. pc[p] \notin {0, Ended} /\ pc'[p] # 0
  BY NotEnds DEF Effect, Active, Ended
<1>2. /\ Main \in Proc \ {p} /\ Producer \in Proc /\ Consumer \in Proc
      /\ Producer # Consumer
  BY IonAppsAssumption DEF IonAppsAssumption
<1>3. /\ pc'[Main] = pc[Main] /\ kpc'[Main] = kpc[Main]
      /\ held'[Main] = held[Main]
  BY <1>2 DEF Effect
<1>4. CASE p = Producer
  <2>1. pc'[Consumer] = pc[Consumer]
    BY <1>2, <1>4 DEF Effect
  <2> QED BY <1>1, <1>3, <1>4, <2>1 DEF EndInv, MasterInv
<1>5. CASE p = Consumer
  <2>1. pc'[Producer] = pc[Producer]
    BY <1>2, <1>5 DEF Effect
  <2> QED BY <1>1, <1>3, <1>5, <2>1 DEF EndInv, MasterInv
<1>6. CASE p \notin {Producer, Consumer}
  <2>1. pc'[Producer] = pc[Producer] /\ pc'[Consumer] = pc[Consumer]
    BY <1>2, <1>6 DEF Effect
  <2> QED BY <1>3, <2>1 DEF EndInv, MasterInv
<1> QED BY <1>4, <1>5, <1>6

(* The master's own steps, call by call.                                   *)
LEMMA MasterMaster ==
  ASSUME IonShape, ControlInv, EndInv, Run(Main), ~Fork(Main)
  PROVE  MasterInv'
<1> DEFINE i == pc[Main]
<1>1. /\ Main \in Proc /\ Producer \in Proc \ {Main} /\ Consumer \in Proc \ {Main}
  BY IonAppsAssumption DEF IonAppsAssumption
<1>2. Effect(Main)
  BY <1>1, RunEffect
<1>3. i \in 1 .. 8 /\ kpc[Main] = "user" /\ DOMAIN pc = Proc /\ DOMAIN held = Proc
  BY <1>2, CodeFacts, MasterCalls
     DEF Effect, Active, EndInv, MasterInv, ControlInv, PcInCode, IonShape
<1>4. Call(Main) = Forks[i].call
  BY <1>3, CodeFacts DEF Call, Ended
<1>5. /\ pc'[Producer] = pc[Producer] /\ pc'[Consumer] = pc[Consumer]
  BY <1>1, <1>2 DEF Effect
<1>6. ASSUME Go(Main) PROVE pc'[Main] = i + 1
  BY <1>1, <1>3, <1>6 DEF Go
<1>6a. /\ Call(Main) = "wait_producer" => i = 4
       /\ Call(Main) = "wait_consumer" => i = 5
       /\ Call(Main) = "exit" => i = 8
  <2> HIDE DEF i
  <2>1. i \in {1, 2, 3, 4, 5, 6, 7, 8}
    BY <1>3
  <2> QED BY <1>4, <2>1, MasterCalls
<1>7. CASE Acquire(Main)
  <2>1. i = 1 /\ Call(Main) = "socketpair"
    BY <1>3, <1>4, <1>7, MasterCalls DEF Acquire, Opens
  <2>2. CASE Jump(Main) /\ UNCHANGED ionVars
    <3>1. pc'[Main] = 8 /\ kpc'[Main] = "user"
      BY <1>1, <1>3, <2>1, <2>2, CodeFacts, MasterCalls DEF Jump, ionVars
    <3> QED BY <1>5, <2>1, <3>1 DEF EndInv, MasterInv
  <2>3. CASE Go(Main) /\ Hold(Main, Opens[Call(Main)])
    <3>1. /\ held' = [held EXCEPT ![Main] = @ \cup Opens[Call(Main)]]
          /\ kpc' = kpc
      BY <2>3 DEF Hold, Refer
    <3>2. "sock1" \in Opens["socketpair"]
      BY DEF Opens
    <3>3. pc'[Main] = 2 /\ kpc'[Main] = "user" /\ "sock1" \in held'[Main]
      BY <1>1, <1>3, <1>6, <2>1, <2>3, <3>1, <3>2
    <3> QED BY <1>5, <2>1, <3>3 DEF EndInv, MasterInv
  <2> QED BY <1>7, <2>2, <2>3 DEF Acquire
<1>8. CASE Release(Main)
  <2>1. i \in {6, 7} /\ Call(Main) = (IF i = 6 THEN "close_sock0" ELSE "close_sock1")
    BY <1>3, <1>4, <1>8, MasterCalls DEF Release, Closing
  <2>2. pc'[Main] = i + 1
    BY <1>6, <1>8 DEF Release
  <2>3. kpc' = kpc /\ held' = [held EXCEPT ![Main] = @ \ Closes(Main)]
    BY <1>8 DEF Release, Drop, Refer
  <2>4. i = 6 => "sock1" \in held'[Main]
    BY <1>1, <1>3, <2>1, <2>3 DEF Closes, At, EndInv, MasterInv
  <2> QED BY <1>3, <1>5, <2>1, <2>2, <2>3, <2>4 DEF EndInv, MasterInv
<1>9. CASE Wait(Main)
  <2>1. \/ i = 4 /\ pc[Producer] = Ended
        \/ i = 5
    BY <1>9, <1>6a DEF Wait, At
  <2>2. pc'[Main] = i + 1 /\ kpc' = kpc /\ held' = held
    BY <1>6, <1>9 DEF Wait, ionVars
  <2> QED BY <1>3, <1>5, <2>1, <2>2 DEF EndInv, MasterInv
<1>10. CASE Exit(Main)
  <2>1. i = 8
    BY <1>10, <1>6a DEF Exit, At
  <2>2. pc'[Main] = Ended /\ kpc' = kpc
    BY <1>1, <1>3, <1>10 DEF Exit, End, Refer
  <2> QED BY <1>3, <1>5, <2>1, <2>2 DEF EndInv, MasterInv, Ended
<1>11. Acquire(Main) \/ Release(Main) \/ Wait(Main) \/ Exit(Main)
  <2>1. ~Kernel(Main) /\ ~Return(Main) /\ ~Oops(Main)
    BY <1>3
       DEF Kernel, InIoctl, AllocPage, Export, Unwind, InstallFd, CopyToUser,
           Return, Oops
  <2>2. Call(Main) \in {"socketpair", "fork_producer", "fork_consumer",
                        "wait_producer", "wait_consumer", "close_sock0",
                        "close_sock1", "exit"}
    BY <1>3, <1>4, MasterCalls
  <2>3. ~Try(Main) /\ ~Alloc(Main) /\ ~fdc_mmap_dmabuf_addr(Main)
        /\ ~Munmap(Main) /\ ~fdc_store_img_to_dmabuf(Main)
        /\ ~Send(Main) /\ ~Recv(Main) /\ ~Dump(Main)
    BY <2>2
       DEF Try, Alloc, fdc_mmap_dmabuf_addr, Munmap, fdc_store_img_to_dmabuf,
           Send, Recv, Dump, At
  <2> QED BY <2>1, <2>3 DEF Run
<1> QED BY <1>7, <1>8, <1>9, <1>10, <1>11

(* Only the master forks, while it holds the socket pair.                  *)
LEMMA ForkControl ==
  ASSUME IonShape, ControlInv, EndInv, NEW p \in Proc, Fork(p)
  PROVE  ControlInv' /\ EndInv'
<1>1. PICK child \in {Producer, Consumer} :
        /\ At(p, IF child = Producer THEN "fork_producer" ELSE "fork_consumer")
        /\ pc' = [pc EXCEPT ![p] = @ + 1, ![child] = 1]
        /\ Refer([held EXCEPT ![child] = held[p]], maps, queue)
  BY DEF Fork
<1>2. /\ Active(p) /\ Code(p)[pc[p]].call \in Parent
      /\ Code(p)[pc[p]].call = (IF child = Producer THEN "fork_producer"
                                                     ELSE "fork_consumer")
  BY <1>1, CallOf DEF At, Parent, ControlInv
<1>3. p = Main
  BY <1>2, CodeFacts DEF Sound, Active
<1>4. /\ Main \in Proc /\ Producer \in Proc \ {Main} /\ Consumer \in Proc \ {Main}
      /\ Producer # Consumer
  BY IonAppsAssumption DEF IonAppsAssumption
<1>5. pc[Main] = (IF child = Producer THEN 2 ELSE 3)
  BY <1>2, <1>3, CodeFacts, MasterCalls DEF Active
<1>6. pc[child] = 0 /\ "sock1" \in held[Main] /\ kpc[Main] = "user"
  BY <1>5 DEF EndInv, MasterInv
<1>7. kpc[child] = "user"
  BY <1>4, <1>6, NotEnds DEF ControlInv, InsideAlloc, Ended
<1>8. /\ pc' = [pc EXCEPT ![Main] = @ + 1, ![child] = 1]
      /\ held' = [held EXCEPT ![child] = held[Main]]
      /\ UNCHANGED <<kpc, maps, queue, scenario>>
  BY <1>1, <1>3 DEF Refer, Fork
<1>9. /\ DOMAIN pc' = Proc
      /\ pc'[Main] = pc[Main] + 1 /\ pc'[child] = 1
      /\ held'[Main] = held[Main]
      /\ \A r \in Proc \ {Main, child} : pc'[r] = pc[r] /\ held'[r] = held[r]
      /\ held'[child] = held[Main]
  BY <1>4, <1>5, <1>8 DEF ControlInv, PcInCode, IonShape
<1>10. \A r : Code(r)' = Code(r)
  BY <1>8, CodeStays
<1>11. /\ 1 \in DOMAIN Code(child) /\ pc[Main] + 1 \in DOMAIN Code(Main)
  BY <1>4, <1>5, Starts, CodeFacts, MasterCalls
<1>12. PcInCode'
  BY <1>4, <1>9, <1>10, <1>11 DEF ControlInv, PcInCode
<1>13. InsideAlloc'
  <2> SUFFICES ASSUME NEW r \in Proc, kpc[r] # "user", pc'[r] # Ended
               PROVE  /\ pc'[r] \in DOMAIN Code(r)
                      /\ Code(r)[pc'[r]].call = "alloc"
    BY <1>8, <1>10 DEF InsideAlloc
  <2>1. r \notin {Main, child}
    BY <1>6, <1>7
  <2> QED BY <1>9, <2>1 DEF ControlInv, InsideAlloc
<1>14. EndedClean'
  <2> SUFFICES ASSUME NEW r \in Proc, pc'[r] = Ended
               PROVE  kpc[r] \in {"user", "oops"} /\ held'[r] = {} /\ maps[r] = {}
    BY <1>8 DEF EndedClean
  <2>1. r \notin {Main, child}
    BY <1>5, <1>9 DEF Ended
  <2> QED BY <1>9, <2>1 DEF EndInv, EndedClean
<1>15. MasterInv'
  <2>1. CASE child = Producer
    <3>1. pc'[Consumer] = pc[Consumer]
      BY <1>4, <1>9, <2>1
    <3> QED BY <1>5, <1>6, <1>8, <1>9, <2>1, <3>1 DEF EndInv, MasterInv
  <2>2. CASE child = Consumer
    <3>1. pc'[Producer] = pc[Producer]
      BY <1>4, <1>9, <2>2
    <3> QED BY <1>4, <1>5, <1>6, <1>8, <1>9, <2>2, <3>1 DEF EndInv, MasterInv
  <2> QED BY <2>1, <2>2
<1>16. MessageKept'
  BY <1>4, <1>6, <1>9 DEF MessageKept
<1> QED BY <1>12, <1>13, <1>14, <1>15, <1>16 DEF ControlInv, EndInv

LEMMA StayControl ==
  ASSUME ControlInv, EndInv, UNCHANGED vars
  PROVE  ControlInv' /\ EndInv'
<1>1. UNCHANGED <<pc, scenario, kpc, held, maps, queue>>
  BY DEF vars, ionVars, appVars
<1>2. \A r : Code(r)' = Code(r)
  BY <1>1, CodeStays
<1>3. ControlInv'
  BY <1>1, <1>2 DEF ControlInv, PcInCode, InsideAlloc
<1>4. EndInv'
  BY <1>1 DEF EndInv, EndedClean, MasterInv, MessageKept
<1> QED BY <1>3, <1>4

LEMMA NextIon == IonInv /\ [Next]_vars => IonInv'
<1> SUFFICES ASSUME IonInv, [Next]_vars PROVE IonInv'
  OBVIOUS
<1> USE DEF IonInv
<1>1. PageInv' /\ Alive'
  BY NextPages
<1>2. IonShape
  BY DEF PageInv
<1>3. ASSUME NEW p \in Proc, Run(p) PROVE ControlInv' /\ EndInv'
  <2>1. CASE Fork(p)
    BY <1>2, <2>1, ForkControl
  <2>2. CASE ~Fork(p)
    <3>1. Effect(p)
      BY <1>2, <1>3, <2>2, RunEffect
    <3>2. ControlInv' /\ EndedClean' /\ MessageKept'
      BY <1>2, <3>1, EffectControl
    <3>3. MasterInv'
      BY <1>2, <1>3, <2>2, <3>1, OthersMaster, MasterMaster
    <3> QED BY <3>2, <3>3 DEF EndInv
  <2> QED BY <2>1, <2>2
<1> QED BY <1>1, <1>3, StayControl DEF Next

LEMMA InitIon == Init => IonInv
<1> SUFFICES ASSUME Init PROVE IonInv
  OBVIOUS
<1>1. PageInv /\ Alive
  BY InitPages
<1> USE DEF Init, IonInit
<1>2. /\ Main \in Proc /\ Producer \in Proc \ {Main, Solo}
      /\ Consumer \in Proc \ {Main, Solo} /\ Main # Solo
  BY IonAppsAssumption DEF IonAppsAssumption
<1>3. \A p \in Proc : 1 \in DOMAIN Code(p)
  BY Starts
<1>4. ControlInv
  BY <1>3 DEF ControlInv, PcInCode, InsideAlloc
<1>5. pc[Main] = 1 /\ pc[Producer] = 0 /\ pc[Consumer] = 0
  BY <1>2
<1>6. EndInv
  BY <1>2, <1>5 DEF EndInv, EndedClean, MasterInv, MessageKept, Ended
<1> QED BY <1>1, <1>4, <1>6 DEF IonInv

LEMMA SpecIon == Spec => []IonInv
BY InitIon, NextIon, PTL DEF Spec

(* When every process has ended, killed in its ioctl or by an exit, with   *)
(* its message received or not, the pages are free, but for those of the   *)
(* buffers that never got a descriptor.                                    *)
THEOREM PagesComeBack == Spec => []NothingLeftBehind
<1>1. IonInv => NothingLeftBehind
  <2> SUFFICES ASSUME IonInv, AllEnded
               PROVE  free = Page \ UNION {pages[b] : b \in orphans}
    BY DEF NothingLeftBehind
  <2>1. \A p \in Proc : held[p] = {} /\ maps[p] = {} /\ kpc[p] \in {"user", "oops"}
    BY DEF IonInv, EndInv, EndedClean, AllEnded
  <2>2. queue = <<>>
    BY <2>1 DEF IonInv, EndInv, MessageKept
  <2>3. \A p \in Proc : got[p] = {}
    BY <2>1 DEF IonInv, PageInv, GotInside
  <2>4. \A b \in Buf : ~Referenced(b, held, maps, queue)
    BY <2>1, <2>2 DEF Referenced
  <2>5. \A b \in Buf : pages[b] # {} => b \in orphans
    BY <2>1, <2>4 DEF IonInv, Alive
  <2> DEFINE B == UNION {pages[b] : b \in orphans}
  <2>6. \A g : g \in B <=> \E b \in orphans : g \in pages[b]
    BY UnionOver
  <2> HIDE DEF B
  <2>7. free \subseteq Page /\ \A b \in Buf : pages[b] \cap free = {}
    BY DEF IonInv, PageInv, IonShape, Disjoint
  <2>8. \A g \in Page : g \in free \/ \E b \in Buf : g \in pages[b]
    BY <2>3 DEF IonInv, PageInv, Placed
  <2>9. orphans \subseteq Buf
    BY DEF IonInv, PageInv, IonShape
  <2> QED BY <2>5, <2>6, <2>7, <2>8, <2>9 DEF B
<1> QED BY <1>1, SpecIon, PTL

-----------------------------------------------------------------------------
(* The calls at which a program has what it has acquired: the device, the  *)
(* buffer, its mapping, the file, the metadata, the image in the buffer,   *)
(* its own and the other end of the socket pair.                           *)
Has(ion, b, m, file, meta, image, own, other) ==
  [ion |-> ion, buf |-> b, map |-> m, file |-> file, meta |-> meta,
   image |-> image, own |-> own, other |-> other]

(* Only a call that gives it leads to where a program has it, and only if  *)
(* it succeeds (fdc_create_csi_frame always does).                         *)
Keeps(code, has, gives, takes) ==
  /\ has \subseteq 1 .. 20
  /\ \A i \in DOMAIN code :
       /\ i + 1 \in has /\ i \notin has =>
            /\ code[i].call \in gives
            /\ code[i].label # 0 \/ code[i].call = "create_frame"
       /\ code[i].call \in takes => i \in has /\ i + 1 \notin has
       /\ code[i].label \in has => i \in has

(* And elsewhere it does not have it.                                      *)
KeepsOnly(code, has, gives, takes) ==
  \A i \in DOMAIN code :
    /\ code[i].call \in gives => i + 1 \in has
    /\ i \in has /\ i + 1 \notin has => code[i].call \in takes
    /\ i \in has /\ code[i].label # 0 => code[i].label \in has
    /\ code[i].call = "exit" => i \notin has

Order(code, s) ==
  \A i \in DOMAIN code :
    /\ code[i].label # 0 => code[i].label > i
    /\ i \in s.image \/ i \in s.map => i \in s.buf
    /\ code[i].call = "mmap" => i \in s.buf
    /\ code[i].call = "store" => i \in s.map
    /\ code[i].call = "dump" => i \in s.image
    /\ code[i].call \in {"alloc", "recv"} => i \notin s.map /\ i \notin s.image

OrderOnly(code, s) ==
  \A i \in DOMAIN code :
    /\ code[i].call # "recv"
    /\ code[i].call = "alloc" => \A j \in s.buf : i < j

Sends(code, s) == \A i \in DOMAIN code : code[i].call = "send" => i \in s.image

Layout(code, s) ==
  /\ Keeps(code, s.ion, {"open_ion"}, {"close_ion"})
  /\ Keeps(code, s.buf, {"alloc", "recv"}, {"close_buf"})
  /\ Keeps(code, s.map, {"mmap"}, {"munmap"})
  /\ Keeps(code, s.file, {"open_file", "recv"}, {"close_file"})
  /\ Keeps(code, s.meta, {"create_frame"}, {"destroy_frame"})
  /\ Keeps(code, s.image, {"store", "recv"}, {})
  /\ Keeps(code, s.own, {"socketpair"}, {"close_socket", "close_sock0"})
  /\ Keeps(code, s.other, {"socketpair"}, {"close_other", "close_sock1"})
  /\ Order(code, s)

LayoutOnly(code, s) ==
  /\ KeepsOnly(code, s.ion, {"open_ion"}, {"close_ion"})
  /\ KeepsOnly(code, s.buf, {"alloc", "recv"}, {"close_buf"})
  /\ KeepsOnly(code, s.map, {"mmap"}, {"munmap"})
  /\ KeepsOnly(code, s.file, {"open_file", "recv"}, {"close_file"})
  /\ KeepsOnly(code, s.meta, {"create_frame"}, {"destroy_frame"})
  /\ OrderOnly(code, s)

LEMMA Layout_Forks ==
  LET s == Has({}, {}, {}, {}, {}, {}, 2 .. 6, 2 .. 7)
  IN  Layout(Forks, s) /\ LayoutOnly(Forks, s)
BY Rows_Forks
   DEF Is, Has, Layout, Keeps, Order, LayoutOnly, KeepsOnly, OrderOnly

LEMMA Layout_ion_test1 ==
  LET s == Has(2 .. 7, 3 .. 6, 4 .. 5, {}, {}, {}, {}, {})
  IN  Layout(ion_test1, s) /\ LayoutOnly(ion_test1, s)
BY Rows_ion_test1
   DEF Is, Has, Layout, Keeps, Order, LayoutOnly, KeepsOnly, OrderOnly

LEMMA Layout_frame_demo1 ==
  LET s == Has(3 .. 12, 4 .. 11, 5 .. 10, 6 .. 9, {8}, {}, {}, {})
  IN  /\ Layout(frame_demo1, s)
      /\ LayoutOnly(frame_demo1, s)
<1> DEFINE s == Has(3 .. 12, 4 .. 11, 5 .. 10, 6 .. 9, {8}, {}, {}, {})
<1> USE Rows_frame_demo1 DEF Is, Has
<1>1. Layout(frame_demo1, s)
  <2>1. /\ Keeps(frame_demo1, s.ion, {"open_ion"}, {"close_ion"})
        /\ Keeps(frame_demo1, s.buf, {"alloc", "recv"}, {"close_buf"})
        /\ Keeps(frame_demo1, s.map, {"mmap"}, {"munmap"})
        /\ Keeps(frame_demo1, s.file, {"open_file", "recv"}, {"close_file"})
    BY SMTT(30) DEF Keeps
  <2>2. /\ Keeps(frame_demo1, s.meta, {"create_frame"}, {"destroy_frame"})
        /\ Keeps(frame_demo1, s.image, {"store", "recv"}, {})
        /\ Keeps(frame_demo1, s.own, {"socketpair"}, {"close_socket", "close_sock0"})
        /\ Keeps(frame_demo1, s.other, {"socketpair"}, {"close_other", "close_sock1"})
    BY SMTT(30) DEF Keeps
  <2>3. Order(frame_demo1, s)
    BY SMTT(30) DEF Order
  <2> QED BY <2>1, <2>2, <2>3 DEF Layout
<1>2. LayoutOnly(frame_demo1, s)
  <2>1. /\ KeepsOnly(frame_demo1, s.ion, {"open_ion"}, {"close_ion"})
        /\ KeepsOnly(frame_demo1, s.buf, {"alloc", "recv"}, {"close_buf"})
        /\ KeepsOnly(frame_demo1, s.map, {"mmap"}, {"munmap"})
        /\ KeepsOnly(frame_demo1, s.file, {"open_file", "recv"}, {"close_file"})
        /\ KeepsOnly(frame_demo1, s.meta, {"create_frame"}, {"destroy_frame"})
    BY SMTT(30) DEF KeepsOnly
  <2>2. OrderOnly(frame_demo1, s)
    BY SMTT(30) DEF OrderOnly
  <2> QED BY <2>1, <2>2 DEF LayoutOnly
<1> QED BY <1>1, <1>2

LEMMA Layout_ion_test2_producer ==
  LET s == Has(5 .. 13, 6 .. 12, 7 .. 11, 8 .. 10, {}, {9}, 1 .. 14, {1})
  IN  /\ Layout(ion_test2_producer, s)
      /\ LayoutOnly(ion_test2_producer, s)
      /\ Sends(ion_test2_producer, s)
<1> DEFINE s == Has(5 .. 13, 6 .. 12, 7 .. 11, 8 .. 10, {}, {9}, 1 .. 14, {1})
<1> USE Rows_ion_test2_producer DEF Is, Has
<1>1. Layout(ion_test2_producer, s)
  <2>1. /\ Keeps(ion_test2_producer, s.ion, {"open_ion"}, {"close_ion"})
        /\ Keeps(ion_test2_producer, s.buf, {"alloc", "recv"}, {"close_buf"})
        /\ Keeps(ion_test2_producer, s.map, {"mmap"}, {"munmap"})
        /\ Keeps(ion_test2_producer, s.file, {"open_file", "recv"}, {"close_file"})
    BY SMTT(30) DEF Keeps
  <2>2. /\ Keeps(ion_test2_producer, s.meta, {"create_frame"}, {"destroy_frame"})
        /\ Keeps(ion_test2_producer, s.image, {"store", "recv"}, {})
        /\ Keeps(ion_test2_producer, s.own, {"socketpair"}, {"close_socket", "close_sock0"})
        /\ Keeps(ion_test2_producer, s.other, {"socketpair"}, {"close_other", "close_sock1"})
    BY SMTT(30) DEF Keeps
  <2>3. Order(ion_test2_producer, s)
    BY SMTT(30) DEF Order
  <2> QED BY <2>1, <2>2, <2>3 DEF Layout
<1>2. LayoutOnly(ion_test2_producer, s)
  <2>1. /\ KeepsOnly(ion_test2_producer, s.ion, {"open_ion"}, {"close_ion"})
        /\ KeepsOnly(ion_test2_producer, s.buf, {"alloc", "recv"}, {"close_buf"})
        /\ KeepsOnly(ion_test2_producer, s.map, {"mmap"}, {"munmap"})
        /\ KeepsOnly(ion_test2_producer, s.file, {"open_file", "recv"}, {"close_file"})
        /\ KeepsOnly(ion_test2_producer, s.meta, {"create_frame"}, {"destroy_frame"})
    BY SMTT(30) DEF KeepsOnly
  <2>2. OrderOnly(ion_test2_producer, s)
    BY SMTT(30) DEF OrderOnly
  <2> QED BY <2>1, <2>2 DEF LayoutOnly
<1>3. Sends(ion_test2_producer, s)
  BY SMTT(30) DEF Sends
<1> QED BY <1>1, <1>2, <1>3

LEMMA Layout_ion_test3_producer ==
  LET s == Has(4 .. 12, 5 .. 11, 6 .. 10, 7 .. 9, {}, {8}, 1 .. 13, {1})
  IN  /\ Layout(ion_test3_producer, s)
      /\ LayoutOnly(ion_test3_producer, s)
      /\ Sends(ion_test3_producer, s)
<1> DEFINE s == Has(4 .. 12, 5 .. 11, 6 .. 10, 7 .. 9, {}, {8}, 1 .. 13, {1})
<1> USE Rows_ion_test3_producer DEF Is, Has
<1>1. Layout(ion_test3_producer, s)
  <2>1. /\ Keeps(ion_test3_producer, s.ion, {"open_ion"}, {"close_ion"})
        /\ Keeps(ion_test3_producer, s.buf, {"alloc", "recv"}, {"close_buf"})
        /\ Keeps(ion_test3_producer, s.map, {"mmap"}, {"munmap"})
        /\ Keeps(ion_test3_producer, s.file, {"open_file", "recv"}, {"close_file"})
    BY SMTT(30) DEF Keeps
  <2>2. /\ Keeps(ion_test3_producer, s.meta, {"create_frame"}, {"destroy_frame"})
        /\ Keeps(ion_test3_producer, s.image, {"store", "recv"}, {})
        /\ Keeps(ion_test3_producer, s.own, {"socketpair"}, {"close_socket", "close_sock0"})
        /\ Keeps(ion_test3_producer, s.other, {"socketpair"}, {"close_other", "close_sock1"})
    BY SMTT(30) DEF Keeps
  <2>3. Order(ion_test3_producer, s)
    BY SMTT(30) DEF Order
  <2> QED BY <2>1, <2>2, <2>3 DEF Layout
<1>2. LayoutOnly(ion_test3_producer, s)
  <2>1. /\ KeepsOnly(ion_test3_producer, s.ion, {"open_ion"}, {"close_ion"})
        /\ KeepsOnly(ion_test3_producer, s.buf, {"alloc", "recv"}, {"close_buf"})
        /\ KeepsOnly(ion_test3_producer, s.map, {"mmap"}, {"munmap"})
        /\ KeepsOnly(ion_test3_producer, s.file, {"open_file", "recv"}, {"close_file"})
        /\ KeepsOnly(ion_test3_producer, s.meta, {"create_frame"}, {"destroy_frame"})
    BY SMTT(30) DEF KeepsOnly
  <2>2. OrderOnly(ion_test3_producer, s)
    BY SMTT(30) DEF OrderOnly
  <2> QED BY <2>1, <2>2 DEF LayoutOnly
<1>3. Sends(ion_test3_producer, s)
  BY SMTT(30) DEF Sends
<1> QED BY <1>1, <1>2, <1>3

LEMMA Layout_frame_demo2_producer ==
  LET s == Has(4 .. 14, 5 .. 13, 6 .. 12, 7 .. 11, {9, 10}, {8, 9}, 1 .. 15, {1})
  IN  /\ Layout(frame_demo2_producer, s)
      /\ LayoutOnly(frame_demo2_producer, s)
      /\ Sends(frame_demo2_producer, s)
<1> DEFINE s == Has(4 .. 14, 5 .. 13, 6 .. 12, 7 .. 11, {9, 10}, {8, 9}, 1 .. 15, {1})
<1> USE Rows_frame_demo2_producer DEF Is, Has
<1>1. Layout(frame_demo2_producer, s)
  <2>1. /\ Keeps(frame_demo2_producer, s.ion, {"open_ion"}, {"close_ion"})
        /\ Keeps(frame_demo2_producer, s.buf, {"alloc", "recv"}, {"close_buf"})
        /\ Keeps(frame_demo2_producer, s.map, {"mmap"}, {"munmap"})
        /\ Keeps(frame_demo2_producer, s.file, {"open_file", "recv"}, {"close_file"})
    BY SMTT(30) DEF Keeps
  <2>2. /\ Keeps(frame_demo2_producer, s.meta, {"create_frame"}, {"destroy_frame"})
        /\ Keeps(frame_demo2_producer, s.image, {"store", "recv"}, {})
        /\ Keeps(frame_demo2_producer, s.own, {"socketpair"}, {"close_socket", "close_sock0"})
        /\ Keeps(frame_demo2_producer, s.other, {"socketpair"}, {"close_other", "close_sock1"})
    BY SMTT(30) DEF Keeps
  <2>3. Order(frame_demo2_producer, s)
    BY SMTT(30) DEF Order
  <2> QED BY <2>1, <2>2, <2>3 DEF Layout
<1>2. LayoutOnly(frame_demo2_producer, s)
  <2>1. /\ KeepsOnly(frame_demo2_producer, s.ion, {"open_ion"}, {"close_ion"})
        /\ KeepsOnly(frame_demo2_producer, s.buf, {"alloc", "recv"}, {"close_buf"})
        /\ KeepsOnly(frame_demo2_producer, s.map, {"mmap"}, {"munmap"})
        /\ KeepsOnly(frame_demo2_producer, s.file, {"open_file", "recv"}, {"close_file"})
        /\ KeepsOnly(frame_demo2_producer, s.meta, {"create_frame"}, {"destroy_frame"})
    BY SMTT(30) DEF KeepsOnly
  <2>2. OrderOnly(frame_demo2_producer, s)
    BY SMTT(30) DEF OrderOnly
  <2> QED BY <2>1, <2>2 DEF LayoutOnly
<1>3. Sends(frame_demo2_producer, s)
  BY SMTT(30) DEF Sends
<1> QED BY <1>1, <1>2, <1>3

LEMMA Layout_ipc_fd_transfer_producer ==
  LET s == Has({}, {}, {}, {4, 5}, {}, {}, 1 .. 6, {1})
  IN  Layout(ipc_fd_transfer_producer, s) /\ LayoutOnly(ipc_fd_transfer_producer, s)
BY Rows_ipc_fd_transfer_producer
   DEF Is, Has, Layout, Keeps, Order, LayoutOnly, KeepsOnly, OrderOnly

LEMMA Layout_ion_test2_consumer ==
  LET s == Has({}, 4 .. 7, {5, 6}, 4 .. 8, {}, 4 .. 7, 1 .. 9, {1})
  IN  Layout(ion_test2_consumer, s)
BY Rows_ion_test2_consumer
   DEF Is, Has, Layout, Keeps, Order

LEMMA Layout_ion_test3_consumer ==
  LET s == Has({}, 3 .. 6, {4, 5}, 3 .. 7, {}, 3 .. 6, 1 .. 8, {1})
  IN  Layout(ion_test3_consumer, s)
BY Rows_ion_test3_consumer
   DEF Is, Has, Layout, Keeps, Order

LEMMA Layout_frame_demo2_consumer ==
  LET s == Has({}, 3 .. 6, {}, {}, {}, 3 .. 6, 1 .. 7, {1})
  IN  Layout(frame_demo2_consumer, s)
BY Rows_frame_demo2_consumer
   DEF Is, Has, Layout, Keeps, Order

LEMMA Layout_ipc_fd_transfer_consumer ==
  LET s == Has({}, {}, {}, {4}, {}, {}, 1 .. 5, {1})
  IN  Layout(ipc_fd_transfer_consumer, s)
BY Rows_ipc_fd_transfer_consumer
   DEF Is, Has, Layout, Keeps, Order

-----------------------------------------------------------------------------
(* What a program has before each of its calls, by the position of the     *)
(* call in the table: ion open, its buffer, a mapping, its file, the       *)
(* frame's memory, the image in its buffer, its own and the other socket.  *)

Span(p) ==
  CASE p = Main -> Has({}, {}, {}, {}, {}, {}, 2 .. 6, 2 .. 7)
    [] p = Solo ->
         (IF scenario.solo = "ion_test1"
          THEN Has(2 .. 7, 3 .. 6, 4 .. 5, {}, {}, {}, {}, {})
          ELSE Has(3 .. 12, 4 .. 11, 5 .. 10, 6 .. 9, {8}, {}, {}, {}))
    [] p = Producer ->
         (CASE scenario.pair = "ion_test2" ->
                 Has(5 .. 13, 6 .. 12, 7 .. 11, 8 .. 10, {}, {9}, 1 .. 14, {1})
            [] scenario.pair = "ion_test3" ->
                 Has(4 .. 12, 5 .. 11, 6 .. 10, 7 .. 9, {}, {8}, 1 .. 13, {1})
            [] scenario.pair = "frame_demo2" ->
                 Has(4 .. 14, 5 .. 13, 6 .. 12, 7 .. 11, {9, 10}, {8, 9},
                     1 .. 15, {1})
            [] OTHER -> Has({}, {}, {}, {4, 5}, {}, {}, 1 .. 6, {1}))
    [] OTHER ->
         (CASE scenario.pair = "ion_test2" ->
                 Has({}, 4 .. 7, {5, 6}, 4 .. 8, {}, 4 .. 7, 1 .. 9, {1})
            [] scenario.pair = "ion_test3" ->
                 Has({}, 3 .. 6, {4, 5}, 3 .. 7, {}, 3 .. 6, 1 .. 8, {1})
            [] scenario.pair = "frame_demo2" ->
                 Has({}, 3 .. 6, {}, {}, {}, 3 .. 6, 1 .. 7, {1})
            [] OTHER -> Has({}, {}, {}, {4}, {}, {}, 1 .. 5, {1}))

LEMMA SpanStays == scenario' = scenario => \A p : Span(p)' = Span(p)
BY DEF Span

LEMMA SpanOfMain == Span(Main) = Has({}, {}, {}, {}, {}, {}, 2 .. 6, 2 .. 7)
BY IonAppsAssumption DEF IonAppsAssumption, Span

LEMMA SpanOfSolo ==
  Span(Solo) = IF scenario.solo = "ion_test1"
               THEN Has(2 .. 7, 3 .. 6, 4 .. 5, {}, {}, {}, {}, {})
               ELSE Has(3 .. 12, 4 .. 11, 5 .. 10, 6 .. 9, {8}, {}, {}, {})
BY IonAppsAssumption DEF IonAppsAssumption, Span

LEMMA Spans ==
  /\ \A p \in Proc : Layout(Code(p), Span(p))
  /\ \A p \in Proc \ {Consumer} : LayoutOnly(Code(p), Span(p))
  /\ scenario \in Scenarios /\ scenario.pair # "ipc_fd_transfer" =>
       Sends(Code(Producer), Span(Producer))
<1> USE IonAppsAssumption DEF IonAppsAssumption
<1>1. Layout(Code(Main), Span(Main)) /\ LayoutOnly(Code(Main), Span(Main))
  BY CodeFacts, SpanOfMain, Layout_Forks
<1>2. Layout(Code(Solo), Span(Solo)) /\ LayoutOnly(Code(Solo), Span(Solo))
  BY SpanOfSolo, Layout_ion_test1, Layout_frame_demo1 DEF Code
<1>3. Layout(Code(Producer), Span(Producer))
      /\ LayoutOnly(Code(Producer), Span(Producer))
  BY Layout_ion_test2_producer, Layout_ion_test3_producer,
     Layout_frame_demo2_producer, Layout_ipc_fd_transfer_producer DEF Code, Span
<1>4. Layout(Code(Consumer), Span(Consumer))
  BY Layout_ion_test2_consumer, Layout_ion_test3_consumer,
     Layout_frame_demo2_consumer, Layout_ipc_fd_transfer_consumer DEF Code, Span
<1>5. ASSUME scenario \in Scenarios, scenario.pair # "ipc_fd_transfer"
      PROVE  Sends(Code(Producer), Span(Producer))
  <2>1. scenario.pair \in {"ion_test2", "ion_test3", "frame_demo2"}
    BY <1>5
  <2> QED BY <2>1, Layout_ion_test2_producer, Layout_ion_test3_producer,
             Layout_frame_demo2_producer DEF Code, Span
<1> QED BY <1>1, <1>2, <1>3, <1>4, <1>5

LEMMA SpanOrder == \A p \in Proc : Order(Code(p), Span(p))
BY Spans DEF Layout

LEMMA SpanRange ==
  \A p \in Proc :
    /\ Span(p).ion \subseteq 1 .. 20 /\ Span(p).file \subseteq 1 .. 20
    /\ Span(p).meta \subseteq 1 .. 20 /\ Span(p).own \subseteq 1 .. 20
    /\ Span(p).other \subseteq 1 .. 20 /\ Span(p).buf \subseteq 1 .. 20
    /\ Span(p).map \subseteq 1 .. 20 /\ Span(p).image \subseteq 1 .. 20
BY Spans DEF Layout, Keeps

LEMMA SpanOrderOnly ==
  \A p \in Proc \ {Consumer} : OrderOnly(Code(p), Span(p))
BY Spans DEF LayoutOnly

(* The calls at which something is given back, and the exit.               *)
LEMMA SpanTakes ==
  ASSUME NEW p \in Proc, NEW i \in DOMAIN Code(p)
  PROVE  /\ Code(p)[i].call = "close_ion" => i \in Span(p).ion
         /\ Code(p)[i].call = "close_buf" => i \in Span(p).buf
         /\ Code(p)[i].call = "munmap" => i \in Span(p).map
         /\ Code(p)[i].call = "close_file" => i \in Span(p).file
         /\ Code(p)[i].call = "destroy_frame" => i \in Span(p).meta
         /\ Code(p)[i].call \in {"close_socket", "close_sock0"} => i \in Span(p).own
         /\ Code(p)[i].call \in {"close_other", "close_sock1"} => i \in Span(p).other
         /\ Code(p)[i].call = "exit" /\ p # Consumer =>
              /\ i \notin Span(p).ion /\ i \notin Span(p).file
              /\ i \notin Span(p).meta /\ i \notin Span(p).buf
              /\ i \notin Span(p).map
<1>1. /\ Code(p)[i].call = "close_ion" => i \in Span(p).ion
      /\ Code(p)[i].call = "close_buf" => i \in Span(p).buf
      /\ Code(p)[i].call = "munmap" => i \in Span(p).map
      /\ Code(p)[i].call = "close_file" => i \in Span(p).file
  BY Spans DEF Layout, Keeps
<1>2. /\ Code(p)[i].call = "destroy_frame" => i \in Span(p).meta
      /\ Code(p)[i].call \in {"close_socket", "close_sock0"} => i \in Span(p).own
      /\ Code(p)[i].call \in {"close_other", "close_sock1"} => i \in Span(p).other
  BY Spans DEF Layout, Keeps
<1>3. Code(p)[i].call = "exit" /\ p # Consumer =>
        /\ i \notin Span(p).ion /\ i \notin Span(p).file
        /\ i \notin Span(p).meta /\ i \notin Span(p).buf
        /\ i \notin Span(p).map
  BY Spans DEF LayoutOnly, KeepsOnly
<1> QED BY <1>1, <1>2, <1>3

(* Only the children begin with something: the socket pair.                *)
LEMMA SpanStarts ==
  ASSUME NEW p \in Proc
  PROVE  /\ 1 \notin Span(p).ion /\ 1 \notin Span(p).file /\ 1 \notin Span(p).meta
         /\ 1 \notin Span(p).buf /\ 1 \notin Span(p).map /\ 1 \notin Span(p).image
         /\ 1 \in Span(p).own \/ 1 \in Span(p).other => p \in {Producer, Consumer}
         /\ p = Main => /\ Span(p).own = 2 .. 6 /\ Span(p).other = 2 .. 7
                        /\ Span(p).ion = {} /\ Span(p).file = {}
                        /\ Span(p).meta = {} /\ Span(p).buf = {}
                        /\ Span(p).map = {}
<1>1. CASE p = Main
  BY <1>1, SpanOfMain DEF Has
<1>2. CASE p = Solo
  BY <1>2, SpanOfSolo, IonAppsAssumption DEF IonAppsAssumption, Has
<1>3. CASE p \in {Producer, Consumer}
  <2> USE <1>3, IonAppsAssumption DEF IonAppsAssumption, Span, Has
  <2>1. 1 \notin Span(p).ion OBVIOUS
  <2>2. 1 \notin Span(p).file OBVIOUS
  <2>3. 1 \notin Span(p).meta OBVIOUS
  <2>4. 1 \notin Span(p).buf OBVIOUS
  <2>5. 1 \notin Span(p).map OBVIOUS
  <2>6. 1 \notin Span(p).image OBVIOUS
  <2> HIDE DEF Span, Has
  <2> QED BY <2>1, <2>2, <2>3, <2>4, <2>5, <2>6
<1> QED BY <1>1, <1>2, <1>3, IonAppsAssumption DEF IonAppsAssumption

(* What a consumer's message has to bring.                                 *)
LEMMA SpanReceives ==
  /\ scenario.pair = "frame_demo2" => Span(Consumer).file = {}
  /\ scenario.pair = "ipc_fd_transfer" => Span(Consumer).buf = {}
<1> USE IonAppsAssumption DEF IonAppsAssumption, Span, Has
<1>1. scenario.pair = "frame_demo2" => Span(Consumer).file = {} OBVIOUS
<1>2. scenario.pair = "ipc_fd_transfer" => Span(Consumer).buf = {} OBVIOUS
<1> QED BY <1>1, <1>2

-----------------------------------------------------------------------------
(* What the processes have.                                                *)

(* At each call of its program p has at least what the text above it has   *)
(* acquired and not given back.                                            *)
Owns(p) ==
  /\ held[p] \subseteq Buf \cup Thing
  /\ maps[p] \subseteq Buf
  /\ buf[p] \in Buf \cup {None, Lost}
  /\ kpc[p] \in {"copy", "done"} => mine[p] \in held[p] \cup {None}
  /\ pc[p] \in Span(p).ion => "ion" \in held[p]
  /\ pc[p] \in Span(p).file => "file" \in held[p]
  /\ pc[p] \in Span(p).meta => "meta" \in held[p]
  /\ pc[p] \in Span(p).own => OwnEnd(p) \in held[p]
  /\ pc[p] \in Span(p).other => OtherEnd(p) \in held[p]
  /\ pc[p] \in Span(p).buf => buf[p] \in held[p] \cup {Lost}
  /\ pc[p] \in Span(p).map => buf[p] \in maps[p]

(* And of these things, but for the sockets, not more.                     *)
OwnsOnly(p) ==
  /\ "ion" \in held[p] => pc[p] \in Span(p).ion
  /\ "file" \in held[p] => pc[p] \in Span(p).file
  /\ "meta" \in held[p] => pc[p] \in Span(p).meta
  /\ buf[p] \in held[p] => pc[p] \in Span(p).buf
  /\ maps[p] \subseteq {buf[p]}
  /\ maps[p] # {} => pc[p] \in Span(p).map
  /\ (\A j \in Span(p).buf : pc[p] < j) => buf[p] = None

(* One of the consumers never unmaps.                                      *)
OwnsInv == \A p \in Proc : Owns(p) /\ (p # Consumer => OwnsOnly(p))

(* What is stored stays stored while somebody needs it.                    *)
ImageInv == \A p \in Proc : pc[p] \in Span(p).image => buf[p] \in stored

(* A message is the producer's file, its buffer with the image, or both.   *)
MessageInv ==
  \A i \in DOMAIN queue :
    /\ scenario.pair # "frame_demo2" => "file" \in queue[i]
    /\ scenario.pair # "ipc_fd_transfer" =>
         \E b \in stored : queue[i] \cap Buf = {b}

(* A buffer that is referred to has its pages, and so has one on its way   *)
(* to its first descriptor, which nobody knows yet.                        *)
LiveInv ==
  /\ \A b \in Buf : Referenced(b, held, maps, queue) => pages[b] # {}
  /\ \A p \in Proc : kpc[p] = "fd" =>
       /\ pages[mine[p]] # {}
       /\ ~Referenced(mine[p], held, maps, queue)
       /\ \A r \in Proc \ {p} : kpc[r] = "fd" => mine[r] # mine[p]
  /\ \A p \in Proc : kpc[p] = "pages" => npages[p] > 0
  /\ \A p \in Proc : kpc[p] = "export" => got[p] # {}

(* The types that are not in IonInv or OwnsInv.                            *)
RestInv ==
  /\ scenario \in Scenarios
  /\ DOMAIN buf = Proc
  /\ npages \in [Proc -> Nat]
  /\ queue \in Seq(SUBSET (Buf \cup Thing))
  /\ stored \subseteq Buf
  /\ sent \in BOOLEAN

AppsInv == RestInv /\ LiveInv /\ OwnsInv /\ ImageInv /\ MessageInv

LEMMA Apart ==
  /\ None \notin Buf /\ None \notin Thing /\ Lost \notin Buf /\ Lost \notin Thing
  /\ \A x \in Thing : x \notin Buf
  /\ {"ion", "file", "meta", "sock0", "sock1"} = Thing
BY IonAssumption, IonAppsAssumption DEF IonAssumption, IonAppsAssumption, Lost

-----------------------------------------------------------------------------
(* Where a step of p leads, in terms of what p has there.                  *)

Here(p) == Code(p)[pc[p]].call

LEMMA KeepsStep ==
  ASSUME PcInCode, NEW p \in Proc, Active(p), Here(p) # "exit",
         NEW has, NEW gives, NEW takes, Keeps(Code(p), has, gives, takes)
  PROVE  /\ Go(p) /\ pc'[p] \in has =>
              Here(p) \notin takes /\ (pc[p] \in has \/ Here(p) \in gives)
         /\ Jump(p) /\ Here(p) # "create_frame" /\ pc'[p] \in has => pc[p] \in has
<1> DEFINE i == pc[p]
           to == Code(p)[i].label
<1>1. i \in DOMAIN Code(p) /\ i \in 1 .. 20 /\ DOMAIN pc = Proc
  BY InCode DEF Active, PcInCode
<1>2. Go(p) => pc'[p] = i + 1
  BY <1>1 DEF Go
<1>3. Jump(p) => pc'[p] = IF to = 0 THEN i + 1 ELSE to
  BY <1>1 DEF Jump
<1>4. /\ i + 1 \in has /\ i \notin has =>
           /\ Here(p) \in gives
           /\ to # 0 \/ Here(p) = "create_frame"
      /\ Here(p) \in takes => i \in has /\ i + 1 \notin has
      /\ to \in has => i \in has
  BY <1>1 DEF Keeps, Here
<1> QED BY <1>2, <1>3, <1>4

LEMMA KeepsOnlyStep ==
  ASSUME PcInCode, NEW p \in Proc, Active(p), Here(p) # "exit",
         Go(p) \/ Jump(p),
         NEW has, NEW gives, NEW takes, KeepsOnly(Code(p), has, gives, takes)
  PROVE  /\ pc[p] \in has /\ Here(p) \notin takes => pc'[p] \in has
         /\ Go(p) /\ Here(p) \in gives => pc'[p] \in has
<1> DEFINE i == pc[p]
           to == Code(p)[i].label
<1>1. i \in DOMAIN Code(p) /\ i \in 1 .. 20 /\ DOMAIN pc = Proc
  BY InCode DEF Active, PcInCode
<1>2. Go(p) => pc'[p] = i + 1
  BY <1>1 DEF Go
<1>3. Jump(p) => pc'[p] = IF to = 0 THEN i + 1 ELSE to
  BY <1>1 DEF Jump
<1>4. /\ Here(p) \in gives => i + 1 \in has
      /\ i \in has /\ i + 1 \notin has => Here(p) \in takes
      /\ i \in has /\ to # 0 => to \in has
  BY <1>1 DEF KeepsOnly, Here
<1> QED BY <1>2, <1>3, <1>4

(* After a call that succeeds.                                             *)
Onward(p) ==
  /\ pc'[p] \in Span(p).ion =>
       Here(p) # "close_ion" /\ (pc[p] \in Span(p).ion \/ Here(p) = "open_ion")
  /\ pc'[p] \in Span(p).file =>
       /\ Here(p) # "close_file"
       /\ pc[p] \in Span(p).file \/ Here(p) \in {"open_file", "recv"}
  /\ pc'[p] \in Span(p).meta =>
       /\ Here(p) # "destroy_frame"
       /\ pc[p] \in Span(p).meta \/ Here(p) = "create_frame"
  /\ pc'[p] \in Span(p).own =>
       /\ Here(p) \notin {"close_socket", "close_sock0"}
       /\ pc[p] \in Span(p).own \/ Here(p) = "socketpair"
  /\ pc'[p] \in Span(p).other =>
       /\ Here(p) \notin {"close_other", "close_sock1"}
       /\ pc[p] \in Span(p).other \/ Here(p) = "socketpair"
  /\ pc'[p] \in Span(p).buf =>
       /\ Here(p) # "close_buf"
       /\ pc[p] \in Span(p).buf \/ Here(p) \in {"alloc", "recv"}
  /\ pc'[p] \in Span(p).map =>
       Here(p) # "munmap" /\ (pc[p] \in Span(p).map \/ Here(p) = "mmap")
  /\ pc'[p] \in Span(p).image =>
       pc[p] \in Span(p).image \/ Here(p) \in {"store", "recv"}

OnwardOnly(p) ==
  /\ (pc[p] \in Span(p).ion /\ Here(p) # "close_ion") \/ Here(p) = "open_ion" =>
       pc'[p] \in Span(p).ion
  /\ (pc[p] \in Span(p).file /\ Here(p) # "close_file") \/ Here(p) = "open_file" =>
       pc'[p] \in Span(p).file
  /\ (pc[p] \in Span(p).meta /\ Here(p) # "destroy_frame")
       \/ Here(p) = "create_frame" => pc'[p] \in Span(p).meta
  /\ (pc[p] \in Span(p).buf /\ Here(p) # "close_buf") \/ Here(p) = "alloc" =>
       pc'[p] \in Span(p).buf
  /\ (pc[p] \in Span(p).map /\ Here(p) # "munmap") \/ Here(p) = "mmap" =>
       pc'[p] \in Span(p).map
  /\ (\A j \in Span(p).buf : pc'[p] < j) => \A j \in Span(p).buf : pc[p] < j
  /\ Here(p) # "recv"

(* After one that fails, or neither gives nor takes anything.              *)
Aside(p) ==
  /\ pc'[p] \in Span(p).ion => pc[p] \in Span(p).ion
  /\ pc'[p] \in Span(p).file => pc[p] \in Span(p).file
  /\ pc'[p] \in Span(p).meta => pc[p] \in Span(p).meta
  /\ pc'[p] \in Span(p).own => pc[p] \in Span(p).own
  /\ pc'[p] \in Span(p).other => pc[p] \in Span(p).other
  /\ pc'[p] \in Span(p).buf => pc[p] \in Span(p).buf
  /\ pc'[p] \in Span(p).map => pc[p] \in Span(p).map

AsideOnly(p) ==
  /\ pc[p] \in Span(p).ion => pc'[p] \in Span(p).ion
  /\ pc[p] \in Span(p).file => pc'[p] \in Span(p).file
  /\ pc[p] \in Span(p).meta => pc'[p] \in Span(p).meta
  /\ pc[p] \in Span(p).buf => pc'[p] \in Span(p).buf
  /\ pc[p] \in Span(p).map => pc'[p] \in Span(p).map
  /\ (\A j \in Span(p).buf : pc'[p] < j) => \A j \in Span(p).buf : pc[p] < j

LEMMA GoOnward ==
  ASSUME PcInCode, NEW p \in Proc, Active(p), Here(p) # "exit", Go(p)
  PROVE  Onward(p) /\ (p # Consumer => OnwardOnly(p))
<1>1. Layout(Code(p), Span(p))
  BY Spans
<1>2. Onward(p)
  <2> DEFINE s == Span(p)
  <2>1. pc'[p] \in s.ion => Here(p) \notin {"close_ion"}
          /\ (pc[p] \in s.ion \/ Here(p) \in {"open_ion"})
    BY <1>1, KeepsStep DEF Layout
  <2>2. pc'[p] \in s.file => Here(p) \notin {"close_file"}
          /\ (pc[p] \in s.file \/ Here(p) \in {"open_file", "recv"})
    BY <1>1, KeepsStep DEF Layout
  <2>3. pc'[p] \in s.meta => Here(p) \notin {"destroy_frame"}
          /\ (pc[p] \in s.meta \/ Here(p) \in {"create_frame"})
    BY <1>1, KeepsStep DEF Layout
  <2>4. pc'[p] \in s.own => Here(p) \notin {"close_socket", "close_sock0"}
          /\ (pc[p] \in s.own \/ Here(p) \in {"socketpair"})
    BY <1>1, KeepsStep DEF Layout
  <2>5. pc'[p] \in s.other => Here(p) \notin {"close_other", "close_sock1"}
          /\ (pc[p] \in s.other \/ Here(p) \in {"socketpair"})
    BY <1>1, KeepsStep DEF Layout
  <2>6. pc'[p] \in s.buf => Here(p) \notin {"close_buf"}
          /\ (pc[p] \in s.buf \/ Here(p) \in {"alloc", "recv"})
    BY <1>1, KeepsStep DEF Layout
  <2>7. pc'[p] \in s.map => Here(p) \notin {"munmap"}
          /\ (pc[p] \in s.map \/ Here(p) \in {"mmap"})
    BY <1>1, KeepsStep DEF Layout
  <2>8. pc'[p] \in s.image => pc[p] \in s.image \/ Here(p) \in {"store", "recv"}
    BY <1>1, KeepsStep DEF Layout
  <2> QED BY <2>1, <2>2, <2>3, <2>4, <2>5, <2>6, <2>7, <2>8 DEF Onward
<1>3. ASSUME p # Consumer PROVE OnwardOnly(p)
  <2> DEFINE s == Span(p)
  <2>0. LayoutOnly(Code(p), Span(p))
    BY <1>3, Spans
  <2>1. /\ pc[p] \in s.ion /\ Here(p) \notin {"close_ion"} => pc'[p] \in s.ion
        /\ Here(p) \in {"open_ion"} => pc'[p] \in s.ion
    BY <2>0, KeepsOnlyStep DEF LayoutOnly
  <2>2. /\ pc[p] \in s.file /\ Here(p) \notin {"close_file"} => pc'[p] \in s.file
        /\ Here(p) \in {"open_file", "recv"} => pc'[p] \in s.file
    BY <2>0, KeepsOnlyStep DEF LayoutOnly
  <2>3. /\ pc[p] \in s.meta /\ Here(p) \notin {"destroy_frame"} => pc'[p] \in s.meta
        /\ Here(p) \in {"create_frame"} => pc'[p] \in s.meta
    BY <2>0, KeepsOnlyStep DEF LayoutOnly
  <2>4. /\ pc[p] \in s.buf /\ Here(p) \notin {"close_buf"} => pc'[p] \in s.buf
        /\ Here(p) \in {"alloc", "recv"} => pc'[p] \in s.buf
    BY <2>0, KeepsOnlyStep DEF LayoutOnly
  <2>5. /\ pc[p] \in s.map /\ Here(p) \notin {"munmap"} => pc'[p] \in s.map
        /\ Here(p) \in {"mmap"} => pc'[p] \in s.map
    BY <2>0, KeepsOnlyStep DEF LayoutOnly
  <2>6. (\A j \in s.buf : pc'[p] < j) => \A j \in s.buf : pc[p] < j
    <3>1. pc[p] \in 1 .. 20 /\ pc'[p] = pc[p] + 1 /\ s.buf \subseteq 1 .. 20
      BY <1>1, InCode DEF Layout, Keeps, Active, PcInCode, Go
    <3> QED BY <3>1
  <2>7. Here(p) # "recv"
    BY <2>0 DEF LayoutOnly, OrderOnly, Active, Here
  <2> QED BY <2>1, <2>2, <2>3, <2>4, <2>5, <2>6, <2>7 DEF OnwardOnly
<1> QED BY <1>2, <1>3

Taking == {"close_ion", "close_buf", "munmap", "close_file", "destroy_frame",
           "close_socket", "close_sock0", "close_other", "close_sock1"}
Giving == {"open_ion", "alloc", "recv", "mmap", "open_file", "create_frame",
           "socketpair"}

LEMMA GoAside ==
  ASSUME PcInCode, NEW p \in Proc, Active(p),
         Here(p) \notin Taking \cup Giving \cup {"exit"}, Go(p)
  PROVE  Aside(p) /\ (p # Consumer => AsideOnly(p))
<1>1. Onward(p) /\ (p # Consumer => OnwardOnly(p))
  BY GoOnward
<1> QED BY <1>1 DEF Onward, OnwardOnly, Aside, AsideOnly, Taking, Giving

LEMMA JumpAside ==
  ASSUME PcInCode, NEW p \in Proc, Active(p),
         Here(p) \notin Taking \cup {"create_frame", "exit"}, Jump(p)
  PROVE  /\ Aside(p) /\ (p # Consumer => AsideOnly(p))
         /\ pc'[p] \in Span(p).image => pc[p] \in Span(p).image
<1>1. Layout(Code(p), Span(p))
  BY Spans
<1> DEFINE s == Span(p)
<1>2. Aside(p) /\ (pc'[p] \in s.image => pc[p] \in s.image)
  <2>1. pc'[p] \in s.ion => pc[p] \in s.ion
    BY <1>1, KeepsStep DEF Layout
  <2>2. pc'[p] \in s.file => pc[p] \in s.file
    BY <1>1, KeepsStep DEF Layout
  <2>3. pc'[p] \in s.meta => pc[p] \in s.meta
    BY <1>1, KeepsStep DEF Layout
  <2>4. pc'[p] \in s.own => pc[p] \in s.own
    BY <1>1, KeepsStep DEF Layout
  <2>5. pc'[p] \in s.other => pc[p] \in s.other
    BY <1>1, KeepsStep DEF Layout
  <2>6. pc'[p] \in s.buf => pc[p] \in s.buf
    BY <1>1, KeepsStep DEF Layout
  <2>7. pc'[p] \in s.map => pc[p] \in s.map
    BY <1>1, KeepsStep DEF Layout
  <2>8. pc'[p] \in s.image => pc[p] \in s.image
    BY <1>1, KeepsStep DEF Layout
  <2> QED BY <2>1, <2>2, <2>3, <2>4, <2>5, <2>6, <2>7, <2>8 DEF Aside
<1>3. ASSUME p # Consumer PROVE AsideOnly(p)
  <2>0. LayoutOnly(Code(p), Span(p))
    BY <1>3, Spans
  <2>1. pc[p] \in s.ion /\ Here(p) \notin {"close_ion"} => pc'[p] \in s.ion
    BY <2>0, KeepsOnlyStep DEF LayoutOnly
  <2>2. pc[p] \in s.file /\ Here(p) \notin {"close_file"} => pc'[p] \in s.file
    BY <2>0, KeepsOnlyStep DEF LayoutOnly
  <2>3. pc[p] \in s.meta /\ Here(p) \notin {"destroy_frame"} => pc'[p] \in s.meta
    BY <2>0, KeepsOnlyStep DEF LayoutOnly
  <2>4. pc[p] \in s.buf /\ Here(p) \notin {"close_buf"} => pc'[p] \in s.buf
    BY <2>0, KeepsOnlyStep DEF LayoutOnly
  <2>5. pc[p] \in s.map /\ Here(p) \notin {"munmap"} => pc'[p] \in s.map
    BY <2>0, KeepsOnlyStep DEF LayoutOnly
  <2>6. (\A j \in s.buf : pc'[p] < j) => \A j \in s.buf : pc[p] < j
    <3>1. /\ pc[p] \in 1 .. 20 /\ s.buf \subseteq 1 .. 20
          /\ Code(p)[pc[p]].label \in 0 .. 20
      <4>1. Code(p)[pc[p]].label = 0 \/ Code(p)[pc[p]].label \in DOMAIN Code(p)
        BY InCode DEF Active
      <4> QED BY <1>1, <4>1, InCode DEF Layout, Keeps, Active
    <3>2. Code(p)[pc[p]].label # 0 => Code(p)[pc[p]].label > pc[p]
      BY <1>1 DEF Layout, Order, Active
    <3>3. pc'[p] = IF Code(p)[pc[p]].label = 0 THEN pc[p] + 1
                   ELSE Code(p)[pc[p]].label
      BY DEF Jump, PcInCode
    <3> HIDE DEF s
    <3>4. PICK l \in 0 .. 20 : l = Code(p)[pc[p]].label
      BY <3>1
    <3> QED BY <3>1, <3>2, <3>3, <3>4
  <2> QED BY <2>1, <2>2, <2>3, <2>4, <2>5, <2>6 DEF AsideOnly, Taking
<1> QED BY <1>2, <1>3

-----------------------------------------------------------------------------
(* What a step leaves its process with.                                    *)

LEMMA OthersOwn ==
  ASSUME NEW r \in Proc, OwnsInv, pc'[r] = pc[r], kpc'[r] = kpc[r],
         held'[r] = held[r], maps'[r] = maps[r], buf'[r] = buf[r],
         mine'[r] = mine[r], scenario' = scenario
  PROVE  Owns(r)' /\ (r # Consumer => OwnsOnly(r)')
<1>1. Span(r)' = Span(r)
  BY SpanStays
<1>2. Owns(r)'
  BY <1>1 DEF OwnsInv, Owns, OwnEnd, OtherEnd
<1>3. r # Consumer => OwnsOnly(r)'
  BY <1>1 DEF OwnsInv, OwnsOnly
<1> QED BY <1>2, <1>3

LEMMA AsideOwns ==
  ASSUME NEW p \in Proc, OwnsInv, Aside(p), p # Consumer => AsideOnly(p),
         kpc'[p] \notin {"copy", "done"},
         held'[p] = held[p], maps'[p] = maps[p], buf'[p] = buf[p],
         scenario' = scenario
  PROVE  Owns(p)' /\ (p # Consumer => OwnsOnly(p)')
<1>1. Span(p)' = Span(p)
  BY SpanStays
<1>2. Owns(p)'
  BY <1>1 DEF OwnsInv, Owns, OwnEnd, OtherEnd, Aside
<1>3. p # Consumer => OwnsOnly(p)'
  BY <1>1 DEF OwnsInv, OwnsOnly, AsideOnly
<1> QED BY <1>2, <1>3

LEMMA EndOwns ==
  ASSUME NEW p \in Proc, IonShape, PcInCode, OwnsInv, End(p),
         kpc[p] \in {"user", "oops"}, buf' = buf, scenario' = scenario
  PROVE  Owns(p)' /\ (p # Consumer => OwnsOnly(p)')
<1>1. Span(p)' = Span(p)
  BY SpanStays
<1>2. /\ pc'[p] = 99 /\ held'[p] = {} /\ maps'[p] = {} /\ kpc'[p] = kpc[p]
  BY DEF End, Refer, IonShape, PcInCode, Ended
<1>3. /\ Span(p).ion \subseteq 1 .. 20 /\ Span(p).file \subseteq 1 .. 20
      /\ Span(p).meta \subseteq 1 .. 20 /\ Span(p).own \subseteq 1 .. 20
      /\ Span(p).other \subseteq 1 .. 20 /\ Span(p).buf \subseteq 1 .. 20
      /\ Span(p).map \subseteq 1 .. 20
  BY SpanRange
<1>4. 99 \notin 1 .. 20
  OBVIOUS
<1>5. Owns(p)'
  BY <1>1, <1>2, <1>3, <1>4 DEF OwnsInv, Owns
<1>6. ASSUME p # Consumer PROVE OwnsOnly(p)'
  <2>1. (\A j \in Span(p).buf : 99 < j) => Span(p).buf = {}
    BY <1>3
  <2> QED BY <1>1, <1>2, <1>6, <2>1 DEF OwnsInv, OwnsOnly
<1> QED BY <1>5, <1>6

LEMMA AcquireOwns ==
  ASSUME NEW p \in Proc, IonShape, PcInCode, OwnsInv,
         Call(p) \in DOMAIN Opens, Go(p), Hold(p, Opens[Call(p)]),
         UNCHANGED <<buf, scenario>>
  PROVE  Owns(p)' /\ (p # Consumer => OwnsOnly(p)')
<1>1. Span(p)' = Span(p)
  BY SpanStays
<1>2. /\ Active(p) /\ kpc[p] = "user" /\ Here(p) = Call(p)
      /\ Call(p) \in {"open_ion", "open_file", "socketpair", "create_frame"}
  BY CallOf DEF Opens, Here
<1>3. Onward(p) /\ (p # Consumer => OnwardOnly(p))
  BY <1>2, GoOnward
<1>4. /\ held'[p] = held[p] \cup Opens[Call(p)] /\ maps'[p] = maps[p]
      /\ kpc'[p] = "user" /\ buf'[p] = buf[p]
  BY <1>2 DEF Hold, Refer, IonShape
<1>5. /\ Opens[Call(p)] \subseteq Thing
      /\ Call(p) = "open_ion" => Opens[Call(p)] = {"ion"}
      /\ Call(p) = "open_file" => Opens[Call(p)] = {"file"}
      /\ Call(p) = "socketpair" => Opens[Call(p)] = {"sock0", "sock1"}
      /\ Call(p) = "create_frame" => Opens[Call(p)] = {"meta"}
  BY <1>2, Apart DEF Opens
<1>6. Owns(p) /\ (p # Consumer => OwnsOnly(p))
  BY DEF OwnsInv
<1>7. Owns(p)'
  <2> USE <1>1, <1>2, <1>3, <1>4, <1>5, <1>6 DEF Owns, Onward
  <2>1. held'[p] \subseteq Buf \cup Thing OBVIOUS
  <2>2. pc'[p] \in Span(p).ion => "ion" \in held'[p] OBVIOUS
  <2>3. pc'[p] \in Span(p).file => "file" \in held'[p] OBVIOUS
  <2>4. pc'[p] \in Span(p).meta => "meta" \in held'[p] OBVIOUS
  <2>5. pc'[p] \in Span(p).own => OwnEnd(p) \in held'[p]
    BY DEF OwnEnd
  <2>6. pc'[p] \in Span(p).other => OtherEnd(p) \in held'[p]
    BY DEF OtherEnd
  <2>7. pc'[p] \in Span(p).buf => buf[p] \in held'[p] \cup {Lost} OBVIOUS
  <2>8. pc'[p] \in Span(p).map => buf[p] \in maps[p] OBVIOUS
  <2> HIDE DEF Onward
  <2> QED BY <2>1, <2>2, <2>3, <2>4, <2>5, <2>6, <2>7, <2>8 DEF OwnEnd, OtherEnd
<1>8. ASSUME p # Consumer PROVE OwnsOnly(p)'
  <2> USE <1>1, <1>2, <1>3, <1>4, <1>5, <1>6, <1>8, Apart
      DEF Owns, OwnsOnly, OnwardOnly
  <2>1. "ion" \in held'[p] => pc'[p] \in Span(p).ion OBVIOUS
  <2>2. "file" \in held'[p] => pc'[p] \in Span(p).file OBVIOUS
  <2>3. "meta" \in held'[p] => pc'[p] \in Span(p).meta OBVIOUS
  <2>4. buf[p] \in held'[p] => pc'[p] \in Span(p).buf OBVIOUS
  <2>5. maps[p] # {} => pc'[p] \in Span(p).map OBVIOUS
  <2>6. (\A j \in Span(p).buf : pc'[p] < j) => buf[p] = None OBVIOUS
  <2> HIDE DEF OnwardOnly
  <2> QED BY <2>1, <2>2, <2>3, <2>4, <2>5, <2>6
<1> QED BY <1>7, <1>8

LEMMA ReleaseOwns ==
  ASSUME NEW p \in Proc, IonShape, PcInCode, OwnsInv, Release(p)
  PROVE  Owns(p)' /\ (p # Consumer => OwnsOnly(p)')
<1>1. Span(p)' = Span(p)
  BY SpanStays DEF Release
<1>2. /\ Active(p) /\ kpc[p] = "user" /\ Here(p) = Call(p)
      /\ Here(p) \in Closing /\ Here(p) # "exit"
  BY CallOf DEF Release, Closing, Here
<1>3. Onward(p) /\ (p # Consumer => OnwardOnly(p))
  BY <1>2, GoOnward DEF Release
<1>4. /\ held'[p] = held[p] \ Closes(p) /\ maps'[p] = maps[p]
      /\ kpc'[p] = "user" /\ buf'[p] = buf[p]
  BY <1>2 DEF Release, Drop, Refer, IonShape
<1>5. Here(p) \in {"close_sock0", "close_sock1"} => p = Main
  BY <1>2, CodeFacts DEF Sound, Parent, Active, Here
<1>6. /\ Here(p) = "close_buf" => Closes(p) = {buf[p]}
      /\ Here(p) = "close_ion" => Closes(p) = {"ion"}
      /\ Here(p) = "close_file" => Closes(p) = {"file"}
      /\ Here(p) \in {"close_socket", "close_sock0"} => Closes(p) = {OwnEnd(p)}
      /\ Here(p) \in {"close_other", "close_sock1"} => Closes(p) = {OtherEnd(p)}
      /\ Here(p) = "destroy_frame" => Closes(p) = {"meta"}
  BY <1>2, <1>5, IonAppsAssumption
     DEF IonAppsAssumption, Closes, At, OwnEnd, OtherEnd
<1>7. Owns(p) /\ (p # Consumer => OwnsOnly(p))
  BY DEF OwnsInv
<1>8. /\ OwnEnd(p) # OtherEnd(p)
      /\ {OwnEnd(p), OtherEnd(p)} \cap {"ion", "file", "meta"} = {}
      /\ {OwnEnd(p), OtherEnd(p)} \subseteq Thing
  BY Apart DEF OwnEnd, OtherEnd
<1>9. buf[p] \notin Thing
  BY <1>7, Apart DEF Owns
<1>10. Here(p) \in {"close_buf", "close_ion", "close_file", "close_socket",
                    "close_sock0", "close_other", "close_sock1", "destroy_frame"}
  BY <1>2 DEF Closing
<1>11. Owns(p)'
  <2> USE <1>1, <1>3, <1>4, <1>6, <1>7, <1>8, <1>9, <1>10, Apart DEF Owns, Onward
  <2>1. held'[p] \subseteq Buf \cup Thing OBVIOUS
  <2>2. pc'[p] \in Span(p).ion => "ion" \in held'[p] OBVIOUS
  <2>3. pc'[p] \in Span(p).file => "file" \in held'[p] OBVIOUS
  <2>4. pc'[p] \in Span(p).meta => "meta" \in held'[p] OBVIOUS
  <2>5. pc'[p] \in Span(p).own => OwnEnd(p) \in held'[p] OBVIOUS
  <2>6. pc'[p] \in Span(p).other => OtherEnd(p) \in held'[p] OBVIOUS
  <2>7. pc'[p] \in Span(p).buf => buf[p] \in held'[p] \cup {Lost} OBVIOUS
  <2>8. pc'[p] \in Span(p).map => buf[p] \in maps[p] OBVIOUS
  <2> HIDE DEF Onward
  <2> QED BY <2>1, <2>2, <2>3, <2>4, <2>5, <2>6, <2>7, <2>8 DEF OwnEnd, OtherEnd
<1>12. ASSUME p # Consumer PROVE OwnsOnly(p)'
  <2> USE <1>1, <1>3, <1>4, <1>6, <1>7, <1>10, <1>12 DEF OwnsOnly, OnwardOnly
  <2>1. "ion" \in held'[p] => pc'[p] \in Span(p).ion OBVIOUS
  <2>2. "file" \in held'[p] => pc'[p] \in Span(p).file OBVIOUS
  <2>3. "meta" \in held'[p] => pc'[p] \in Span(p).meta OBVIOUS
  <2>4. buf[p] \in held'[p] => pc'[p] \in Span(p).buf OBVIOUS
  <2>5. maps[p] # {} => pc'[p] \in Span(p).map OBVIOUS
  <2>6. (\A j \in Span(p).buf : pc'[p] < j) => buf[p] = None OBVIOUS
  <2> HIDE DEF OnwardOnly
  <2> QED BY <2>1, <2>2, <2>3, <2>4, <2>5, <2>6
<1> QED BY <1>11, <1>12

LEMMA KernelOwns ==
  ASSUME NEW p \in Proc, IonShape, ControlInv, EndInv, OwnsInv, Kernel(p)
  PROVE  Owns(p)' /\ (p # Consumer => OwnsOnly(p)')
<1>1. Span(p)' = Span(p)
  BY SpanStays DEF Kernel
<1>2. UNCHANGED <<pc, maps, buf>>
  BY DEF Kernel, InIoctl, AllocPage, Export, Unwind, InstallFd, CopyToUser
<1>3. /\ kpc[p] \in {"pages", "export", "unwind", "fd", "copy"}
      /\ Active(p) /\ Here(p) = "alloc"
  <2>1. kpc[p] \in {"pages", "export", "unwind", "fd", "copy"}
    BY DEF Kernel, InIoctl, AllocPage, Export, Unwind, InstallFd, CopyToUser
  <2> QED BY <2>1 DEF ControlInv, InsideAlloc, EndInv, EndedClean, Active, Here
<1>4. Owns(p) /\ (p # Consumer => OwnsOnly(p))
  BY DEF OwnsInv
<1>5. \/ held'[p] = held[p] /\ kpc'[p] \notin {"copy", "done"}
      \/ kpc[p] = "fd" /\ mine[p] \in Buf /\ held'[p] = held[p] \cup {mine[p]}
         /\ mine'[p] = mine[p]
      \/ held'[p] = held[p] /\ mine'[p] = None
      \/ kpc[p] = "copy" /\ held'[p] = held[p] /\ mine'[p] = mine[p]
  BY DEF Kernel, InIoctl, AllocPage, Export, Unwind, InstallFd, CopyToUser,
         Enter, IonShape
<1>6. Owns(p)'
  BY <1>1, <1>2, <1>4, <1>5 DEF Owns, OwnEnd, OtherEnd
<1>7. ASSUME p # Consumer PROVE OwnsOnly(p)'
  <2>1. buf[p] = None
    <3>1. \A j \in Span(p).buf : pc[p] < j
      BY <1>3, <1>7, SpanOrderOnly DEF OrderOnly, Active, Here
    <3> QED BY <1>4, <1>7, <3>1 DEF OwnsOnly
  <2>2. held'[p] \subseteq held[p] \cup Buf
    BY <1>5
  <2> QED BY <1>1, <1>2, <1>4, <1>7, <2>1, <2>2, Apart DEF OwnsOnly, Owns
<1> QED BY <1>6, <1>7

LEMMA ReturnOwns ==
  ASSUME NEW p \in Proc, IonShape, ControlInv, EndInv, RestInv, OwnsInv, Return(p)
  PROVE  Owns(p)' /\ (p # Consumer => OwnsOnly(p)')
<1>1. Span(p)' = Span(p)
  BY SpanStays DEF Return
<1>2. /\ Active(p) /\ Here(p) = "alloc" /\ kpc'[p] = "user"
      /\ held'[p] = held[p] /\ maps'[p] = maps[p]
  <2>1. kpc[p] # "user" /\ pc[p] # Ended
    BY DEF Return, EndInv, EndedClean
  <2> QED BY <2>1 DEF Return, Enter, ControlInv, InsideAlloc, Active, Here, IonShape
<1>3. CASE Jump(p) /\ buf' = buf
  <2>1. Aside(p) /\ (p # Consumer => AsideOnly(p))
    BY <1>2, <1>3, JumpAside DEF ControlInv, Taking
  <2> QED BY <1>2, <1>3, <2>1, AsideOwns DEF Return
<1>4. CASE kpc[p] = "done" /\ Go(p)
           /\ buf' = [buf EXCEPT ![p] = IF mine[p] = None THEN Lost ELSE mine[p]]
  <2>1. Onward(p) /\ (p # Consumer => OnwardOnly(p))
    BY <1>2, <1>4, GoOnward DEF ControlInv
  <2>2. buf'[p] = IF mine[p] = None THEN Lost ELSE mine[p]
    BY <1>4 DEF RestInv
  <2>3. mine[p] \in Buf \cup {None} /\ mine[p] \in held[p] \cup {None}
    BY <1>4 DEF IonShape, OwnsInv, Owns
  <2>4. pc[p] \notin Span(p).map
    BY <1>2, SpanOrder DEF Order, Active, Here
  <2>5. Owns(p)'
    BY <1>1, <1>2, <2>1, <2>2, <2>3, <2>4
       DEF OwnsInv, Owns, Onward, OwnEnd, OtherEnd
  <2>6. ASSUME p # Consumer PROVE OwnsOnly(p)'
    <3>1. pc'[p] \in Span(p).buf /\ maps'[p] = {}
      BY <1>2, <2>1, <2>4, <2>6 DEF OwnsInv, OwnsOnly, OnwardOnly
    <3>2. ~ \A j \in Span(p).buf : pc'[p] < j
      <4>1. Span(p).buf \subseteq 1 .. 20
        BY SpanRange
      <4> QED BY <3>1, <4>1
    <3> QED BY <1>1, <1>2, <2>1, <2>6, <3>1, <3>2 DEF OwnsInv, OwnsOnly, OnwardOnly
  <2> QED BY <2>5, <2>6
<1> QED BY <1>3, <1>4 DEF Return

LEMMA MapOwns ==
  ASSUME NEW p \in Proc, IonShape, PcInCode, OwnsInv,
         fdc_mmap_dmabuf_addr(p) \/ Munmap(p)
  PROVE  Owns(p)' /\ (p # Consumer => OwnsOnly(p)')
<1>1. Span(p)' = Span(p)
  BY SpanStays DEF fdc_mmap_dmabuf_addr, Munmap
<1>2. /\ Active(p) /\ kpc[p] = "user" /\ Here(p) = Call(p)
      /\ Here(p) \in {"mmap", "munmap"}
  BY CallOf DEF fdc_mmap_dmabuf_addr, Munmap, At, Here
<1>3. Owns(p) /\ (p # Consumer => OwnsOnly(p))
  BY DEF OwnsInv
<1>4. CASE Here(p) = "mmap" /\ Jump(p) /\ UNCHANGED ionVars
  <2>1. Aside(p) /\ (p # Consumer => AsideOnly(p))
    BY <1>2, <1>4, JumpAside DEF Taking
  <2> QED BY <1>2, <1>4, <2>1, AsideOwns DEF ionVars, fdc_mmap_dmabuf_addr, Munmap
<1>5. CASE Here(p) = "mmap" /\ Go(p) /\ buf[p] \in Buf
           /\ Refer(held, [maps EXCEPT ![p] = @ \cup {buf[p]}], queue)
  <2>1. /\ held'[p] = held[p] /\ maps'[p] = maps[p] \cup {buf[p]}
        /\ kpc'[p] = "user" /\ buf'[p] = buf[p]
    BY <1>2, <1>5 DEF Refer, IonShape, fdc_mmap_dmabuf_addr, Munmap
  <2>2. Onward(p) /\ (p # Consumer => OnwardOnly(p))
    BY <1>2, <1>5, GoOnward
  <2>3. Owns(p)'
    BY <1>1, <1>3, <1>5, <2>1, <2>2 DEF Owns, Onward, OwnEnd, OtherEnd
  <2>4. ASSUME p # Consumer PROVE OwnsOnly(p)'
    BY <1>1, <1>3, <1>5, <2>1, <2>2, <2>4 DEF OwnsOnly, OnwardOnly
  <2> QED BY <2>3, <2>4
<1>6. CASE Here(p) = "munmap" /\ Go(p)
           /\ Refer(held, [maps EXCEPT ![p] = @ \ {buf[p]}], queue)
  <2>1. /\ held'[p] = held[p] /\ maps'[p] = maps[p] \ {buf[p]}
        /\ kpc'[p] = "user" /\ buf'[p] = buf[p]
    BY <1>2, <1>6 DEF Refer, IonShape, fdc_mmap_dmabuf_addr, Munmap
  <2>2. Onward(p) /\ (p # Consumer => OnwardOnly(p))
    BY <1>2, <1>6, GoOnward
  <2>3. Owns(p)'
    BY <1>1, <1>3, <1>6, <2>1, <2>2 DEF Owns, Onward, OwnEnd, OtherEnd
  <2>4. ASSUME p # Consumer PROVE OwnsOnly(p)'
    BY <1>1, <1>3, <1>6, <2>1, <2>2, <2>4 DEF OwnsOnly, OnwardOnly
  <2> QED BY <2>3, <2>4
<1> QED BY <1>2, <1>4, <1>5, <1>6 DEF fdc_mmap_dmabuf_addr, Munmap, At

LEMMA RecvOwns ==
  ASSUME NEW p \in Proc, IonShape, PcInCode, RestInv, OwnsInv, MessageInv, Recv(p),
         Go(p), queue # <<>>,
         Refer([held EXCEPT ![p] = @ \cup Head(queue)], maps, Tail(queue)),
         buf' = [buf EXCEPT ![p] = IF Head(queue) \cap Buf = {} THEN None
                                   ELSE CHOOSE b \in Head(queue) : b \in Buf]
  PROVE  /\ p = Consumer
         /\ Owns(p)'
         /\ pc'[p] \in Span(p).image => buf'[p] \in stored
<1> DEFINE head == Head(queue)
<1>1. Span(p)' = Span(p) /\ stored' = stored
  BY SpanStays DEF Recv
<1>2. Active(p) /\ kpc[p] = "user" /\ Here(p) = "recv"
  BY CallOf DEF Recv, At, Here
<1>3. Onward(p) /\ p = Consumer
  BY <1>2, GoOnward DEF OnwardOnly
<1>4. /\ held'[p] = held[p] \cup head /\ maps'[p] = maps[p] /\ kpc'[p] = "user"
  BY <1>2 DEF Refer, IonShape
<1>5. /\ head \subseteq Buf \cup Thing
      /\ 1 \in DOMAIN queue /\ queue[1] = head
  BY DEF RestInv
<1>6. /\ scenario.pair # "frame_demo2" => "file" \in head
      /\ scenario.pair # "ipc_fd_transfer" => \E b \in stored : head \cap Buf = {b}
  BY <1>5 DEF MessageInv
<1> HIDE DEF head
<1>7. buf'[p] = IF head \cap Buf = {} THEN None ELSE CHOOSE b \in head : b \in Buf
  BY DEF RestInv, head
<1>8. buf'[p] \in Buf \cup {None}
  BY <1>7
<1>9. scenario.pair # "ipc_fd_transfer" => buf'[p] \in head /\ buf'[p] \in stored
  BY <1>6, <1>7
<1>10. pc[p] \notin Span(p).map
  BY <1>2, SpanOrder DEF Order, Active, Here
<1>11. Owns(p)
  BY DEF OwnsInv
<1>12. Owns(p)'
  <2> USE <1>1, <1>2, <1>3, <1>4, <1>5, <1>6, <1>8, <1>9, <1>10, <1>11
      DEF Owns, Onward
  <2>1. held'[p] \subseteq Buf \cup Thing OBVIOUS
  <2>2. pc'[p] \in Span(p).ion => "ion" \in held'[p] OBVIOUS
  <2>3. pc'[p] \in Span(p).file => "file" \in held'[p]
    BY SpanReceives
  <2>4. pc'[p] \in Span(p).meta => "meta" \in held'[p] OBVIOUS
  <2>5. pc'[p] \in Span(p).own => OwnEnd(p) \in held'[p] OBVIOUS
  <2>6. pc'[p] \in Span(p).other => OtherEnd(p) \in held'[p] OBVIOUS
  <2>7. pc'[p] \in Span(p).buf => buf'[p] \in held'[p] \cup {Lost}
    BY SpanReceives
  <2>8. pc'[p] \notin Span(p).map OBVIOUS
  <2> HIDE DEF Onward
  <2> QED BY <2>1, <2>2, <2>3, <2>4, <2>5, <2>6, <2>7, <2>8 DEF OwnEnd, OtherEnd
<1>13. ASSUME pc'[p] \in Span(p).image PROVE buf'[p] \in stored
  <2>1. pc'[p] \in DOMAIN Code(p)
    BY <1>2, Advance DEF Here
  <2>2. pc'[p] \in Span(p).buf
    BY <1>13, <2>1, SpanOrder DEF Order
  <2> QED BY <1>3, <1>9, <2>2, SpanReceives
<1> QED BY <1>3, <1>12, <1>13

(* A step changes only its own process's buffer variables.                 *)
LEMMA Elsewhere ==
  ASSUME IonShape, RestInv, NEW p \in Proc, Run(p), NEW r \in Proc \ {p}
  PROVE  buf'[r] = buf[r] /\ mine'[r] = mine[r]
<1>0. DOMAIN buf = Proc /\ DOMAIN mine = Proc
  BY DEF RestInv, IonShape
<1>1. CASE Try(p) BY <1>1 DEF Try, ionVars
<1>2. CASE Acquire(p) BY <1>2 DEF Acquire, Hold, Refer, ionVars
<1>3. CASE Release(p) BY <1>3 DEF Release, Drop, Refer
<1>4. CASE Alloc(p) BY <1>4 DEF Alloc, ion_ioctl, appVars
<1>5. CASE Kernel(p)
  BY <1>0, <1>5
     DEF Kernel, InIoctl, AllocPage, Export, Unwind, InstallFd, CopyToUser
<1>6. CASE Return(p) BY <1>0, <1>6 DEF Return
<1>7. CASE Oops(p) BY <1>7 DEF Oops, End, Refer
<1>8. CASE fdc_mmap_dmabuf_addr(p)
  BY <1>8 DEF fdc_mmap_dmabuf_addr, Refer, ionVars
<1>9. CASE Munmap(p) BY <1>9 DEF Munmap, Refer
<1>10. CASE fdc_store_img_to_dmabuf(p)
  BY <1>10 DEF fdc_store_img_to_dmabuf, ionVars
<1>11. CASE Send(p) BY <1>11 DEF Send, Refer, ionVars
<1>12. CASE Recv(p) BY <1>0, <1>12 DEF Recv, Refer, ionVars
<1>13. CASE Dump(p) BY <1>13 DEF Dump, End, Refer, ionVars
<1>14. CASE Fork(p) BY <1>14 DEF Fork, Refer
<1>15. CASE Wait(p) BY <1>15 DEF Wait, ionVars
<1>16. CASE Exit(p) BY <1>16 DEF Exit, End, Refer
<1> QED BY <1>1, <1>2, <1>3, <1>4, <1>5, <1>6, <1>7, <1>8, <1>9, <1>10,
           <1>11, <1>12, <1>13, <1>14, <1>15, <1>16 DEF Run

LEMMA RunOwns ==
  ASSUME IonShape, ControlInv, EndInv, RestInv, OwnsInv, MessageInv,
         NEW p \in Proc, Run(p), ~Fork(p)
  PROVE  OwnsInv'
<1> USE DEF ControlInv
<1>1. Owns(p)' /\ (p # Consumer => OwnsOnly(p)')
  <2>1. ASSUME Call(p) \notin {"none", "exit"} \cup Taking \cup Giving, Go(p),
               UNCHANGED <<kpc, held, maps, buf, scenario>>
        PROVE  Owns(p)' /\ (p # Consumer => OwnsOnly(p)')
    <3>1. Active(p) /\ kpc[p] = "user" /\ Here(p) = Call(p)
      BY <2>1, CallOf DEF Here
    <3>2. Aside(p) /\ (p # Consumer => AsideOnly(p))
      BY <2>1, <3>1, GoAside
    <3> QED BY <2>1, <3>1, <3>2, AsideOwns
  <2>2. ASSUME Call(p) \notin {"none", "exit", "create_frame"} \cup Taking, Jump(p),
               UNCHANGED <<kpc, held, maps, buf, scenario>>
        PROVE  Owns(p)' /\ (p # Consumer => OwnsOnly(p)')
    <3>1. Active(p) /\ kpc[p] = "user" /\ Here(p) = Call(p)
      BY <2>2, CallOf DEF Here
    <3>2. Aside(p) /\ (p # Consumer => AsideOnly(p))
      BY <2>2, <3>1, JumpAside
    <3> QED BY <2>2, <3>1, <3>2, AsideOwns
  <2>3. CASE Try(p)
    <3>1. UNCHANGED <<kpc, held, maps, buf, scenario>>
          /\ Call(p) \in {"exec", "stat", "fopen"} /\ (Go(p) \/ Jump(p))
      BY <2>3 DEF Try, ionVars
    <3> QED BY <2>1, <2>2, <3>1 DEF Taking, Giving
  <2>4. CASE Acquire(p)
    <3>1. CASE Go(p) /\ Hold(p, Opens[Call(p)])
      BY <2>4, <3>1, AcquireOwns DEF Acquire
    <3>2. CASE May(Call(p)) /\ Jump(p) /\ UNCHANGED ionVars
      <4>1. Call(p) \in {"open_ion", "open_file", "socketpair"}
        BY <2>4, <3>2, IonAppsAssumption DEF IonAppsAssumption, May, Acquire, Opens
      <4>2. UNCHANGED <<kpc, held, maps, buf, scenario>>
        BY <2>4, <3>2 DEF Acquire, ionVars
      <4> QED BY <2>2, <3>2, <4>1, <4>2 DEF Taking
    <3> QED BY <2>4, <3>1, <3>2 DEF Acquire
  <2>5. CASE Release(p) BY <2>5, ReleaseOwns
  <2>6. CASE Alloc(p)
    <3>1. UNCHANGED <<pc, held, maps, buf, scenario>>
          /\ kpc'[p] \in {"pages", "oops", "efault"}
      BY <2>6 DEF Alloc, ion_ioctl, Enter, appVars, IonShape
    <3>2. Span(p)' = Span(p)
      BY <3>1, SpanStays
    <3>3. Owns(p)'
      BY <3>1, <3>2 DEF OwnsInv, Owns, OwnEnd, OtherEnd
    <3>4. p # Consumer => OwnsOnly(p)'
      BY <3>1, <3>2 DEF OwnsInv, OwnsOnly
    <3> QED BY <3>3, <3>4
  <2>7. CASE Kernel(p) BY <2>7, KernelOwns
  <2>8. CASE Return(p) BY <2>8, ReturnOwns
  <2>9. CASE Oops(p) BY <2>9, EndOwns DEF Oops
  <2>10. CASE fdc_mmap_dmabuf_addr(p) BY <2>10, MapOwns
  <2>11. CASE Munmap(p) BY <2>11, MapOwns
  <2>12. CASE fdc_store_img_to_dmabuf(p)
    <3>1. /\ UNCHANGED <<kpc, held, maps, buf, scenario>>
          /\ Call(p) = "store" /\ (Go(p) \/ Jump(p))
      BY <2>12 DEF fdc_store_img_to_dmabuf, At, ionVars
    <3> QED BY <2>1, <2>2, <3>1 DEF Taking, Giving
  <2>13. CASE Send(p)
    <3>1. /\ UNCHANGED <<kpc, held, maps, buf, scenario>>
          /\ Call(p) = "send" /\ Go(p)
      BY <2>13 DEF Send, At, Refer, ionVars
    <3> QED BY <2>1, <3>1 DEF Taking, Giving
  <2>14. CASE Recv(p)
    <3>1. CASE Jump(p) /\ UNCHANGED <<ionVars, buf>>
      <4>1. UNCHANGED <<kpc, held, maps, buf, scenario>> /\ Call(p) = "recv"
        BY <2>14, <3>1 DEF Recv, At, ionVars
      <4> QED BY <2>2, <3>1, <4>1 DEF Taking
    <3>2. CASE /\ queue # <<>>
               /\ Go(p)
               /\ Refer([held EXCEPT ![p] = @ \cup Head(queue)], maps, Tail(queue))
               /\ buf' = [buf EXCEPT ![p] =
                     IF Head(queue) \cap Buf = {} THEN None
                     ELSE CHOOSE b \in Head(queue) : b \in Buf]
      BY <2>14, <3>2, RecvOwns
    <3> QED BY <2>14, <3>1, <3>2 DEF Recv
  <2>15. CASE Dump(p)
    <3>1. Call(p) = "dump" /\ UNCHANGED <<buf, scenario>>
      BY <2>15 DEF Dump, At
    <3>2. CASE Go(p) /\ UNCHANGED ionVars
      <4>1. UNCHANGED <<kpc, held, maps, buf, scenario>>
        BY <3>1, <3>2 DEF ionVars
      <4> QED BY <2>1, <3>1, <3>2, <4>1 DEF Taking, Giving
    <3>3. CASE End(p)
      BY <3>1, <3>3, CallOf, EndOwns
    <3> QED BY <2>15, <3>2, <3>3 DEF Dump
  <2>16. CASE Wait(p)
    <3>1. /\ UNCHANGED <<kpc, held, maps, buf, scenario>> /\ Go(p)
          /\ Call(p) \in {"wait_producer", "wait_consumer"}
      BY <2>16 DEF Wait, At, ionVars
    <3> QED BY <2>1, <3>1 DEF Taking, Giving
  <2>17. CASE Exit(p)
    <3>1. Call(p) = "exit" /\ End(p) /\ UNCHANGED <<buf, scenario>>
      BY <2>17 DEF Exit, At
    <3> QED BY <3>1, CallOf, EndOwns
  <2> QED BY <2>3, <2>4, <2>5, <2>6, <2>7, <2>8, <2>9, <2>10, <2>11, <2>12,
             <2>13, <2>14, <2>15, <2>16, <2>17 DEF Run
<1>2. ASSUME NEW r \in Proc \ {p} PROVE Owns(r)' /\ (r # Consumer => OwnsOnly(r)')
  <2>1. /\ pc'[r] = pc[r] /\ kpc'[r] = kpc[r] /\ held'[r] = held[r]
        /\ maps'[r] = maps[r] /\ scenario' = scenario
    BY RunEffect DEF Effect
  <2>2. buf'[r] = buf[r] /\ mine'[r] = mine[r]
    BY Elsewhere
  <2> QED BY <2>1, <2>2, OthersOwn
<1> QED BY <1>1, <1>2 DEF OwnsInv

(* A fork gives the child the master's descriptors: the socket pair.       *)
LEMMA ForkOwns ==
  ASSUME IonShape, ControlInv, EndInv, RestInv, OwnsInv, NEW p \in Proc, Fork(p)
  PROVE  /\ OwnsInv'
         /\ \A r \in Proc : pc'[r] # pc[r] => pc'[r] \notin Span(r).image
<1>1. PICK child \in {Producer, Consumer} :
        /\ At(p, IF child = Producer THEN "fork_producer" ELSE "fork_consumer")
        /\ pc' = [pc EXCEPT ![p] = @ + 1, ![child] = 1]
        /\ Refer([held EXCEPT ![child] = held[p]], maps, queue)
  BY DEF Fork
<1>2. /\ Active(p) /\ Code(p)[pc[p]].call \in Parent
      /\ Code(p)[pc[p]].call = (IF child = Producer THEN "fork_producer"
                                                     ELSE "fork_consumer")
  BY <1>1, CallOf DEF At, Parent, ControlInv
<1>3. p = Main
  BY <1>2, CodeFacts DEF Sound, Active
<1>4. /\ Main \in Proc /\ child \in Proc /\ child # Main /\ Main # Consumer
  BY IonAppsAssumption DEF IonAppsAssumption
<1>5. pc[Main] = (IF child = Producer THEN 2 ELSE 3)
  BY <1>2, <1>3, CodeFacts, MasterCalls DEF Active
<1>6. pc[child] = 0
  BY <1>5 DEF EndInv, MasterInv
<1>7. kpc[child] = "user" /\ kpc[Main] = "user"
  BY <1>4, <1>6, NotEnds DEF ControlInv, InsideAlloc, Ended, EndInv, MasterInv
<1>8. /\ pc'[Main] = pc[Main] + 1 /\ pc'[child] = 1
      /\ held'[Main] = held[Main] /\ held'[child] = held[Main]
      /\ \A r \in Proc \ {Main, child} : pc'[r] = pc[r] /\ held'[r] = held[r]
      /\ UNCHANGED <<kpc, maps, buf, mine, scenario>>
  BY <1>1, <1>3, <1>4, <1>5 DEF Refer, Fork, ControlInv, PcInCode, IonShape
<1>9. \A r \in Proc : Span(r)' = Span(r)
  BY <1>8, SpanStays
<1>10. /\ Span(Main).own = 2 .. 6 /\ Span(Main).other = 2 .. 7
       /\ Span(Main).ion = {} /\ Span(Main).file = {} /\ Span(Main).meta = {}
       /\ Span(Main).buf = {} /\ Span(Main).map = {}
  BY <1>4, SpanStarts
<1>11. OwnEnd(Main) = "sock0" /\ OtherEnd(Main) = "sock1"
  BY <1>4 DEF OwnEnd, OtherEnd
<1>12. Owns(Main) /\ OwnsOnly(Main)
  BY <1>4 DEF OwnsInv
<1>13. /\ {"sock0", "sock1"} \subseteq held[Main]
       /\ held[Main] \cap {"ion", "file", "meta"} = {}
       /\ held[Main] \subseteq Buf \cup Thing
  BY <1>5, <1>10, <1>11, <1>12 DEF Owns, OwnsOnly
<1>14. Owns(Main)' /\ OwnsOnly(Main)'
  <2>1. pc'[Main] \in {3, 4}
    BY <1>5, <1>8
  <2>2. Owns(Main)'
    BY <1>4, <1>7, <1>8, <1>9, <1>10, <1>11, <1>12, <1>13, <2>1
       DEF Owns, OwnEnd, OtherEnd
  <2>3. OwnsOnly(Main)'
    BY <1>4, <1>8, <1>9, <1>10, <1>12 DEF OwnsOnly
  <2> QED BY <2>2, <2>3
<1>15. /\ 1 \notin Span(child).ion /\ 1 \notin Span(child).file
       /\ 1 \notin Span(child).meta /\ 1 \notin Span(child).buf
       /\ 1 \notin Span(child).map /\ 1 \notin Span(child).image
  BY <1>4, SpanStarts
<1>16. Owns(child)'
  <2>1. OwnEnd(child) \in {"sock0", "sock1"} /\ OtherEnd(child) \in {"sock0", "sock1"}
    BY DEF OwnEnd, OtherEnd
  <2>2. Owns(child)
    BY <1>4 DEF OwnsInv
  <2> QED BY <1>4, <1>7, <1>8, <1>9, <1>13, <1>15, <2>1, <2>2
          DEF Owns, OwnEnd, OtherEnd
<1>17. child # Consumer => OwnsOnly(child)'
  <2> SUFFICES ASSUME child # Consumer PROVE OwnsOnly(child)'
    OBVIOUS
  <2>1. OwnsOnly(child)
    BY <1>4 DEF OwnsInv
  <2>2. Span(child).buf \subseteq 1 .. 20 /\ Span(child).map \subseteq 1 .. 20
    BY <1>4, SpanRange
  <2>3. buf[child] = None /\ maps[child] = {}
    <3>1. \A j \in Span(child).buf : 0 < j
      BY <2>2
    <3>2. 0 \notin Span(child).map
      BY <2>2
    <3> QED BY <1>6, <2>1, <3>1, <3>2 DEF OwnsOnly
  <2>4. None \notin held[Main]
    BY <1>13, Apart
  <2> QED BY <1>4, <1>8, <1>9, <1>13, <2>3, <2>4 DEF OwnsOnly
<1>18. ASSUME NEW r \in Proc \ {Main, child}
       PROVE  Owns(r)' /\ (r # Consumer => OwnsOnly(r)')
  BY <1>8, <1>18, OthersOwn
<1>19. 3 \notin Span(Main).image /\ 4 \notin Span(Main).image
  BY SpanOfMain DEF Has
<1>20. OwnsInv'
  BY <1>14, <1>16, <1>17, <1>18 DEF OwnsInv
<1>21. \A r \in Proc : pc'[r] # pc[r] => pc'[r] \notin Span(r).image
  BY <1>5, <1>8, <1>15, <1>19
<1> QED BY <1>20, <1>21

(* What a step does to the messages, the image and what is beside them.    *)
LEMMA Changes ==
  ASSUME RestInv, NEW p \in Proc, Run(p)
  PROVE  /\ scenario' = scenario
         /\ DOMAIN buf' = Proc
         /\ npages' \in [Proc -> Nat]
         /\ sent' \in BOOLEAN
         /\ \/ queue' = queue
            \/ queue' = <<>>
            \/ queue # <<>> /\ queue' = Tail(queue)
            \/ Call(p) = "send" /\ queue' = Append(queue, Cargo(p))
         /\ \/ stored' = stored
            \/ stored' = {b \in stored : pages[b] # {}}
            \/ Call(p) = "store" /\ stored' = stored \cup {buf[p]}
<1> USE DEF RestInv
<1>0. Sizes \subseteq Nat
  BY IonAppsAssumption DEF IonAppsAssumption
<1>1. CASE Try(p) BY <1>1 DEF Try, ionVars
<1>2. CASE Acquire(p) BY <1>2 DEF Acquire, Hold, Refer, ionVars
<1>3. CASE Release(p) BY <1>3 DEF Release, Drop, Refer, Kept
<1>4. CASE Alloc(p) BY <1>0, <1>4 DEF Alloc, ion_ioctl, appVars
<1>5. CASE Kernel(p)
  <2>1. UNCHANGED <<npages, queue, scenario, buf, sent>>
    BY <1>5
       DEF Kernel, InIoctl, AllocPage, Export, Unwind, InstallFd, CopyToUser
  <2>2. stored' = {b \in stored : pages[b] # {}}
    BY <1>5 DEF Kernel
  <2> QED BY <2>1, <2>2
<1>6. CASE Return(p)
  <2>1. UNCHANGED <<npages, queue, scenario, stored, sent>>
    BY <1>6 DEF Return
  <2>2. DOMAIN buf' = Proc
    BY <1>6 DEF Return
  <2> QED BY <2>1, <2>2
<1>7. CASE Oops(p) BY <1>7 DEF Oops, End, Refer, Kept
<1>8. CASE fdc_mmap_dmabuf_addr(p)
  BY <1>8 DEF fdc_mmap_dmabuf_addr, Refer, ionVars
<1>9. CASE Munmap(p) BY <1>9 DEF Munmap, Refer
<1>10. CASE fdc_store_img_to_dmabuf(p)
  BY <1>10 DEF fdc_store_img_to_dmabuf, ionVars, At
<1>11. CASE Send(p) BY <1>11 DEF Send, Refer, ionVars, At
<1>12. CASE Recv(p)
  <2>1. UNCHANGED <<npages, scenario, stored, sent>>
    BY <1>12 DEF Recv, Refer, ionVars
  <2>2. DOMAIN buf' = Proc
    BY <1>12 DEF Recv
  <2>3. queue' = queue \/ (queue # <<>> /\ queue' = Tail(queue))
    <3>1. UNCHANGED ionVars => queue' = queue
      BY DEF ionVars
    <3> DEFINE h == [held EXCEPT ![p] = @ \cup Head(queue)]
    <3>2. Refer(h, maps, Tail(queue)) => queue' = Tail(queue)
      BY DEF Refer
    <3>3. (queue # <<>> /\ Refer(h, maps, Tail(queue))) \/ UNCHANGED ionVars
      BY <1>12 DEF Recv
    <3> HIDE DEF h
    <3> QED BY <3>1, <3>2, <3>3
  <2> QED BY <2>1, <2>2, <2>3
<1>13. CASE Dump(p) BY <1>13 DEF Dump, End, Refer, ionVars, Kept
<1>14. CASE Fork(p) BY <1>14 DEF Fork, Refer
<1>15. CASE Wait(p) BY <1>15 DEF Wait, ionVars
<1>16. CASE Exit(p) BY <1>16 DEF Exit, End, Refer, Kept
<1> QED BY <1>1, <1>2, <1>3, <1>4, <1>5, <1>6, <1>7, <1>8, <1>9, <1>10,
           <1>11, <1>12, <1>13, <1>14, <1>15, <1>16 DEF Run

(* Where a program has the image it has a buffer, with pages.              *)
LEMMA ImageHeld ==
  ASSUME PcInCode, RestInv, LiveInv, OwnsInv, ImageInv,
         NEW p \in Proc, pc[p] \in Span(p).image
  PROVE  /\ buf[p] \in stored /\ buf[p] \in Buf /\ buf[p] \in held[p]
         /\ pages[buf[p]] # {}
<1>1. buf[p] \in stored /\ buf[p] \in Buf
  BY DEF ImageInv, RestInv
<1>2. pc[p] \in 1 .. 20
  BY SpanRange
<1>3. pc[p] \in DOMAIN Code(p)
  BY <1>2 DEF PcInCode, Ended
<1>4. pc[p] \in Span(p).buf
  BY <1>3, SpanOrder DEF Order
<1>5. buf[p] \in held[p]
  BY <1>1, <1>4, Apart DEF OwnsInv, Owns
<1>6. Referenced(buf[p], held, maps, queue)
  BY <1>5 DEF Referenced
<1> QED BY <1>1, <1>5, <1>6 DEF LiveInv

(* What the producer sends is its buffer with the image, or its file.      *)
LEMMA CargoIs ==
  ASSUME PcInCode, RestInv, LiveInv, OwnsInv, ImageInv,
         NEW p \in Proc, Call(p) = "send"
  PROVE  /\ Cargo(p) \subseteq Buf \cup Thing
         /\ scenario.pair # "frame_demo2" => "file" \in Cargo(p)
         /\ scenario.pair # "ipc_fd_transfer" =>
              /\ Cargo(p) \cap Buf = {buf[p]}
              /\ buf[p] \in stored /\ buf[p] \in held[p]
         /\ scenario.pair = "ipc_fd_transfer" => Cargo(p) \cap Buf = {}
<1>1. Active(p) /\ Here(p) = "send"
  BY CallOf DEF Here
<1>2. p = Producer
  BY <1>1, CodeFacts DEF Sound, Active, Here
<1>3. scenario.pair # "ipc_fd_transfer" =>
        buf[p] \in stored /\ buf[p] \in Buf /\ buf[p] \in held[p]
  <2>1. scenario.pair # "ipc_fd_transfer" => pc[p] \in Span(p).image
    BY <1>1, <1>2, Spans DEF RestInv, Sends, Active, Here
  <2> QED BY <2>1, ImageHeld
<1>4. "file" \in Thing /\ "file" \notin Buf
  BY Apart
<1>5. /\ scenario.pair = "frame_demo2" => Cargo(p) = {buf[p]}
      /\ scenario.pair = "ipc_fd_transfer" => Cargo(p) = {"file"}
      /\ scenario.pair \notin {"frame_demo2", "ipc_fd_transfer"} =>
           Cargo(p) = {buf[p], "file"}
  BY DEF Cargo
<1> QED BY <1>3, <1>4, <1>5

LEMMA MessageStep ==
  ASSUME PcInCode, RestInv, LiveInv, OwnsInv, ImageInv, MessageInv,
         NEW p \in Proc, Run(p)
  PROVE  RestInv' /\ MessageInv'
<1>1. /\ scenario' = scenario
      /\ DOMAIN buf' = Proc
      /\ npages' \in [Proc -> Nat]
      /\ sent' \in BOOLEAN
      /\ \/ queue' = queue
         \/ queue' = <<>>
         \/ queue # <<>> /\ queue' = Tail(queue)
         \/ Call(p) = "send" /\ queue' = Append(queue, Cargo(p))
      /\ \/ stored' = stored
         \/ stored' = {b \in stored : pages[b] # {}}
         \/ Call(p) = "store" /\ stored' = stored \cup {buf[p]}
  BY Changes
<1>2. Call(p) = "store" => buf[p] \in Buf
  <2> SUFFICES ASSUME Call(p) = "store" PROVE buf[p] \in Buf
    OBVIOUS
  <2>1. Active(p) /\ Here(p) = "store"
    BY CallOf DEF Here
  <2>2. pc[p] \in Span(p).map
    BY <2>1, SpanOrder DEF Order, Active, Here
  <2> QED BY <2>2 DEF OwnsInv, Owns
<1>3. stored' \subseteq Buf
  BY <1>1, <1>2 DEF RestInv
<1>4. queue \in Seq(SUBSET (Buf \cup Thing))
  BY DEF RestInv
<1>5. queue' \in Seq(SUBSET (Buf \cup Thing))
  <2>1. Call(p) = "send" => Cargo(p) \in SUBSET (Buf \cup Thing)
    BY CargoIs
  <2> DEFINE S == SUBSET (Buf \cup Thing)
  <2> HIDE DEF S
  <2>2. queue # <<>> => Tail(queue) \in Seq(S)
    BY <1>4 DEF S
  <2>3. \A c \in S : Append(queue, c) \in Seq(S)
    BY <1>4 DEF S
  <2>4. <<>> \in Seq(S)
    OBVIOUS
  <2> QED BY <1>1, <1>4, <2>1, <2>2, <2>3, <2>4 DEF S
<1>6. ASSUME NEW i \in DOMAIN queue'
      PROVE  \/ \E j \in DOMAIN queue : queue'[i] = queue[j]
             \/ Call(p) = "send" /\ queue'[i] = Cargo(p)
  BY <1>1, <1>4
<1>7. ASSUME NEW b \in stored, pages[b] # {} PROVE b \in stored'
  BY <1>1, <1>7
<1>8. ASSUME NEW i \in DOMAIN queue'
      PROVE  /\ scenario.pair # "frame_demo2" => "file" \in queue'[i]
             /\ scenario.pair # "ipc_fd_transfer" =>
                  \E b \in stored' : queue'[i] \cap Buf = {b}
  <2>1. ASSUME NEW j \in DOMAIN queue, queue'[i] = queue[j]
        PROVE  /\ scenario.pair # "frame_demo2" => "file" \in queue'[i]
               /\ scenario.pair # "ipc_fd_transfer" =>
                    \E b \in stored' : queue'[i] \cap Buf = {b}
    <3>1. scenario.pair # "frame_demo2" => "file" \in queue[j]
      BY DEF MessageInv
    <3>2. ASSUME scenario.pair # "ipc_fd_transfer"
          PROVE  \E b \in stored' : queue[j] \cap Buf = {b}
      <4>1. PICK b \in stored : queue[j] \cap Buf = {b}
        BY <3>2 DEF MessageInv
      <4>2. Referenced(b, held, maps, queue) /\ b \in Buf
        BY <4>1 DEF Referenced
      <4>3. pages[b] # {}
        BY <4>2 DEF LiveInv
      <4> QED BY <1>7, <4>1, <4>3
    <3> QED BY <2>1, <3>1, <3>2
  <2>2. ASSUME Call(p) = "send", queue'[i] = Cargo(p)
        PROVE  /\ scenario.pair # "frame_demo2" => "file" \in queue'[i]
               /\ scenario.pair # "ipc_fd_transfer" =>
                    \E b \in stored' : queue'[i] \cap Buf = {b}
    <3>1. scenario.pair # "frame_demo2" => "file" \in Cargo(p)
      BY <2>2, CargoIs
    <3>2. scenario.pair # "ipc_fd_transfer" =>
            Cargo(p) \cap Buf = {buf[p]} /\ buf[p] \in stored /\ buf[p] \in held[p]
      BY <2>2, CargoIs
    <3>3. ASSUME buf[p] \in stored, buf[p] \in held[p] PROVE buf[p] \in stored'
      <4>1. buf[p] \in Buf /\ Referenced(buf[p], held, maps, queue)
        BY <3>3 DEF RestInv, Referenced
      <4> QED BY <1>7, <3>3, <4>1 DEF LiveInv
    <3> QED BY <2>2, <3>1, <3>2, <3>3
  <2> QED BY <1>6, <2>1, <2>2
<1>9. RestInv'
  BY <1>1, <1>3, <1>5 DEF RestInv
<1>10. MessageInv'
  BY <1>1, <1>8 DEF MessageInv
<1> QED BY <1>9, <1>10

-----------------------------------------------------------------------------
(* The pages of what somebody refers to.                                   *)

(* A change of references that adds none to a new buffer.                  *)
LEMMA ReferLive ==
  ASSUME IonShape, LiveInv, NEW h, NEW m, NEW q, Refer(h, m, q),
         \A b \in Buf : Referenced(b, h, m, q) => Referenced(b, held, maps, queue)
  PROVE  LiveInv'
<1> DEFINE dead == {b \in Buf : /\ Referenced(b, held, maps, queue)
                               /\ ~Referenced(b, h, m, q)}
<1>1. /\ pages' = [b \in Buf |-> IF b \in dead THEN {} ELSE pages[b]]
      /\ UNCHANGED <<kpc, npages, got, mine>>
      /\ held' = h /\ maps' = m /\ queue' = q
  BY DEF Refer, ion_release
<1>2. \A b \in Buf : (Referenced(b, h, m, q) \/ ~Referenced(b, held, maps, queue))
                       => b \notin dead
  OBVIOUS
<1> HIDE DEF dead
<1>3. \A b \in Buf : b \notin dead => pages'[b] = pages[b]
  BY <1>1
<1>4. \A b \in Buf : Referenced(b, h, m, q) => pages'[b] # {}
  BY <1>2, <1>3 DEF LiveInv
<1>5. ASSUME NEW p \in Proc, kpc[p] = "fd"
      PROVE  /\ pages'[mine[p]] # {}
             /\ ~Referenced(mine[p], h, m, q)
             /\ \A r \in Proc \ {p} : kpc[r] = "fd" => mine[r] # mine[p]
  <2>1. mine[p] \in Buf
    BY <1>5 DEF IonShape
  <2>2. /\ pages[mine[p]] # {} /\ ~Referenced(mine[p], held, maps, queue)
        /\ \A r \in Proc \ {p} : kpc[r] = "fd" => mine[r] # mine[p]
    BY <1>5 DEF LiveInv
  <2> QED BY <1>2, <1>3, <2>1, <2>2
<1>6. /\ \A p \in Proc : kpc[p] = "pages" => npages[p] > 0
      /\ \A p \in Proc : kpc[p] = "export" => got[p] # {}
  BY DEF LiveInv
<1> QED BY <1>1, <1>4, <1>5, <1>6 DEF LiveInv

LEMMA KernelLive ==
  ASSUME IonShape, RestInv, LiveInv, NEW p \in Proc, InIoctl(p)
  PROVE  LiveInv'
<1> USE DEF Enter
<1>1. CASE AllocPage(p)
  <2>1. UNCHANGED <<pages, npages, mine, held, maps, queue>>
    BY <1>1 DEF AllocPage
  <2>2. \A r \in Proc \ {p} : kpc'[r] = kpc[r] /\ got'[r] = got[r]
    BY <1>1 DEF AllocPage, IonShape
  <2>3. /\ kpc'[p] \in {"pages", "unwind", "export"}
        /\ kpc'[p] = "export" => got'[p] = got[p] /\ Cardinality(got[p]) = npages[p]
    BY <1>1 DEF AllocPage, IonShape
  <2>4. npages[p] > 0
    BY <1>1 DEF AllocPage, LiveInv
  <2>5. kpc'[p] = "export" => got'[p] # {}
    <3>1. Cardinality({}) = 0
      BY FS_EmptySet
    <3>2. npages[p] # 0
      BY <2>4
    <3>3. got[p] = {} => Cardinality(got[p]) = 0
      BY <3>1
    <3> QED BY <2>3, <3>2, <3>3
  <2>6. \A r \in Proc : kpc'[r] = "fd" => r # p /\ kpc[r] = "fd"
    BY <2>2, <2>3
  <2>7. \A r \in Proc : kpc'[r] = "pages" => npages[r] > 0
    BY <2>2, <2>4 DEF LiveInv
  <2>8. \A r \in Proc : kpc'[r] = "export" => got'[r] # {}
    BY <2>2, <2>5 DEF LiveInv
  <2> QED BY <2>1, <2>6, <2>7, <2>8 DEF LiveInv
<1>2. CASE Export(p)
  <2>1. CASE UNCHANGED <<pages, mine, got>> /\ kpc' = [kpc EXCEPT ![p] = "unwind"]
    <3>1. UNCHANGED <<pages, npages, got, mine, held, maps, queue>>
      BY <1>2, <2>1 DEF Export
    <3>2. \A r \in Proc : kpc'[r] \in {"fd", "pages", "export"} => kpc'[r] = kpc[r]
      BY <2>1 DEF IonShape
    <3> QED BY <3>1, <3>2 DEF LiveInv
  <2>2. ASSUME NEW b \in Buf, pages[b] = {}, pages' = [pages EXCEPT ![b] = got[p]],
               mine' = [mine EXCEPT ![p] = b], got' = [got EXCEPT ![p] = {}],
               kpc' = [kpc EXCEPT ![p] = "fd"]
        PROVE  LiveInv'
    <3>1. UNCHANGED <<npages, held, maps, queue>> /\ kpc[p] = "export"
      BY <1>2 DEF Export
    <3>2. /\ kpc'[p] = "fd" /\ mine'[p] = b /\ pages'[b] = got[p]
          /\ \A c \in Buf \ {b} : pages'[c] = pages[c]
          /\ \A r \in Proc \ {p} : /\ kpc'[r] = kpc[r] /\ mine'[r] = mine[r]
                                   /\ got'[r] = got[r]
      BY <2>2 DEF IonShape
    <3>3. got[p] # {} /\ ~Referenced(b, held, maps, queue)
      BY <2>2, <3>1 DEF LiveInv
    <3>4. \A r \in Proc \ {p} : kpc[r] = "fd" => mine[r] \in Buf \ {b}
      BY <2>2 DEF LiveInv, IonShape
    <3>5. \A c \in Buf : Referenced(c, held, maps, queue) => pages'[c] # {}
      BY <3>2, <3>3 DEF LiveInv
    <3>6. ASSUME NEW r \in Proc, kpc'[r] = "fd"
          PROVE  /\ pages'[mine'[r]] # {}
                 /\ ~Referenced(mine'[r], held, maps, queue)
                 /\ \A s \in Proc \ {r} : kpc'[s] = "fd" => mine'[s] # mine'[r]
      <4>1. CASE r = p
        BY <3>2, <3>3, <3>4, <4>1
      <4>2. CASE r # p
        <5>1. kpc[r] = "fd" /\ mine'[r] = mine[r] /\ mine[r] \in Buf \ {b}
          BY <3>2, <3>4, <3>6, <4>2
        <5>2. \A s \in Proc \ {r} : kpc'[s] = "fd" => mine'[s] # mine[r]
          BY <3>2, <4>2, <5>1 DEF LiveInv
        <5> QED BY <3>2, <5>1, <5>2 DEF LiveInv
      <4> QED BY <4>1, <4>2
    <3>7. /\ \A r \in Proc : kpc'[r] = "pages" => npages[r] > 0
          /\ \A r \in Proc : kpc'[r] = "export" => got'[r] # {}
      BY <3>2 DEF LiveInv
    <3> QED BY <3>1, <3>5, <3>6, <3>7 DEF LiveInv
  <2> QED BY <1>2, <2>1, <2>2 DEF Export
<1>3. CASE Unwind(p) \/ CopyToUser(p)
  <2>1. UNCHANGED <<pages, npages, mine, held, maps, queue>>
    BY <1>3 DEF Unwind, CopyToUser
  <2>2. \A r \in Proc : kpc'[r] \in {"fd", "pages", "export"} =>
                          kpc'[r] = kpc[r] /\ got'[r] = got[r]
    BY <1>3 DEF Unwind, CopyToUser, IonShape
  <2> QED BY <2>1, <2>2 DEF LiveInv
<1>4. CASE InstallFd(p)
  <2>1. /\ UNCHANGED <<pages, npages, got, maps, queue>> /\ kpc[p] = "fd"
        /\ kpc'[p] = "copy"
        /\ \A r \in Proc \ {p} : kpc'[r] = kpc[r] /\ mine'[r] = mine[r]
        /\ \/ held' = held
           \/ held' = [held EXCEPT ![p] = @ \cup {mine[p]}]
    BY <1>4 DEF InstallFd, IonShape
  <2>2. mine[p] \in Buf /\ pages[mine[p]] # {}
    BY <2>1 DEF IonShape, LiveInv
  <2>3. \A b : Referenced(b, held', maps, queue) =>
                 Referenced(b, held, maps, queue) \/ b = mine[p]
    BY <2>1 DEF Referenced, IonShape
  <2>4. \A b \in Buf : Referenced(b, held', maps, queue) => pages[b] # {}
    BY <2>2, <2>3 DEF LiveInv
  <2>5. ASSUME NEW r \in Proc, kpc'[r] = "fd"
        PROVE  /\ pages[mine'[r]] # {}
               /\ ~Referenced(mine'[r], held', maps, queue)
               /\ \A s \in Proc \ {r} : kpc'[s] = "fd" => mine'[s] # mine'[r]
    <3>1. r # p /\ kpc[r] = "fd" /\ mine'[r] = mine[r]
      BY <2>1, <2>5
    <3>2. mine[r] # mine[p]
      BY <2>1, <3>1 DEF LiveInv
    <3>3. ~Referenced(mine[r], held', maps, queue)
      BY <2>3, <3>1, <3>2 DEF LiveInv
    <3>4. \A s \in Proc \ {r} : kpc'[s] = "fd" => mine'[s] # mine[r]
      BY <2>1, <3>1 DEF LiveInv
    <3> QED BY <3>1, <3>3, <3>4 DEF LiveInv
  <2>6. \A r \in Proc : kpc'[r] \in {"pages", "export"} => kpc[r] = kpc'[r]
    BY <2>1
  <2> QED BY <2>1, <2>4, <2>5, <2>6 DEF LiveInv
<1> QED BY <1>1, <1>2, <1>3, <1>4 DEF InIoctl

LEMMA KeptRefers ==
  ASSUME NEW h, NEW m, NEW b, Referenced(b, h, m, Kept(h))
  PROVE  Referenced(b, h, m, queue)
<1>1. Kept(h) = queue \/ Kept(h) = <<>>
  BY DEF Kept
<1> QED BY <1>1 DEF Referenced

LEMMA RunLive ==
  ASSUME IonShape, PcInCode, RestInv, LiveInv, OwnsInv, ImageInv,
         NEW p \in Proc, Run(p)
  PROVE  LiveInv'
<1>0. DOMAIN held = Proc /\ DOMAIN maps = Proc /\ DOMAIN kpc = Proc
  BY DEF IonShape
<1>1. UNCHANGED ionVars => LiveInv'
  BY DEF ionVars, LiveInv
<1>2. End(p) => LiveInv'
  <2> SUFFICES ASSUME End(p) PROVE LiveInv'
    OBVIOUS
  <2> DEFINE h == [held EXCEPT ![p] = {}]
             m == [maps EXCEPT ![p] = {}]
  <2>1. Refer(h, m, Kept(h))
    BY DEF End
  <2>2. ASSUME NEW b \in Buf, Referenced(b, h, m, queue)
        PROVE  Referenced(b, held, maps, queue)
    BY <1>0, <2>2 DEF Referenced
  <2> HIDE DEF h, m
  <2> QED BY <2>1, <2>2, KeptRefers, ReferLive
<1>3. CASE Try(p) BY <1>1, <1>3 DEF Try
<1>4. CASE Acquire(p)
  <2>1. CASE Hold(p, Opens[Call(p)])
    <3> DEFINE h == [held EXCEPT ![p] = @ \cup Opens[Call(p)]]
    <3>1. Refer(h, maps, queue)
      BY <2>1 DEF Hold
    <3>2. Opens[Call(p)] \subseteq Thing
      BY <1>4, Apart DEF Acquire, Opens
    <3>3. ASSUME NEW b \in Buf, Referenced(b, h, maps, queue)
          PROVE  Referenced(b, held, maps, queue)
      BY <1>0, <3>2, <3>3, Apart DEF Referenced
    <3> HIDE DEF h
    <3> QED BY <3>1, <3>3, ReferLive
  <2> QED BY <1>1, <1>4, <2>1 DEF Acquire
<1>5. CASE Release(p)
  <2> DEFINE h == [held EXCEPT ![p] = @ \ Closes(p)]
  <2>1. Refer(h, maps, Kept(h))
    BY <1>5 DEF Release, Drop
  <2>2. ASSUME NEW b \in Buf, Referenced(b, h, maps, queue)
        PROVE  Referenced(b, held, maps, queue)
    BY <1>0, <2>2 DEF Referenced
  <2> HIDE DEF h
  <2> QED BY <2>1, <2>2, KeptRefers, ReferLive
<1>6. CASE Alloc(p)
  <2>1. PICK len \in Sizes : ion_ioctl(p, len)
    BY <1>6 DEF Alloc
  <2>2. /\ UNCHANGED <<pages, mine, held, maps, queue>>
        /\ kpc'[p] \in {"pages", "oops", "efault"}
        /\ kpc'[p] = "pages" => npages'[p] > 0
        /\ \A r \in Proc \ {p} : /\ kpc'[r] = kpc[r] /\ got'[r] = got[r]
                                 /\ npages'[r] = npages[r]
    <3>1. npages'[p] = len
      BY <2>1 DEF ion_ioctl, RestInv
    <3>2. /\ UNCHANGED <<pages, mine, held, maps, queue>>
          /\ kpc'[p] \in {"pages", "oops", "efault"}
          /\ kpc'[p] = "pages" => len > 0
      BY <2>1 DEF ion_ioctl, IonShape, Enter
    <3>3. \A r \in Proc \ {p} : /\ kpc'[r] = kpc[r] /\ got'[r] = got[r]
                                /\ npages'[r] = npages[r]
      BY <2>1 DEF ion_ioctl, IonShape, RestInv, Enter
    <3> QED BY <3>1, <3>2, <3>3
  <2>3. \A r \in Proc : kpc'[r] = "fd" => r # p /\ kpc[r] = "fd"
    BY <2>2
  <2>4. \A r \in Proc : kpc'[r] = "pages" => npages'[r] > 0
    BY <2>2 DEF LiveInv
  <2>5. \A r \in Proc : kpc'[r] = "export" => got'[r] # {}
    BY <2>2 DEF LiveInv
  <2> QED BY <2>2, <2>3, <2>4, <2>5 DEF LiveInv
<1>7. CASE Kernel(p) BY <1>7, KernelLive DEF Kernel
<1>8. CASE Return(p)
  <2>1. /\ UNCHANGED <<pages, npages, got, held, maps, queue>>
        /\ kpc'[p] = "user"
        /\ \A r \in Proc \ {p} : kpc'[r] = kpc[r] /\ mine'[r] = mine[r]
    BY <1>8 DEF Return, Enter, IonShape
  <2>2. \A r \in Proc : kpc'[r] \in {"fd", "pages", "export"} =>
                          r # p /\ kpc'[r] = kpc[r] /\ mine'[r] = mine[r]
    BY <2>1
  <2> QED BY <2>1, <2>2 DEF LiveInv
<1>9. CASE Oops(p) BY <1>2, <1>9 DEF Oops
<1>10. CASE fdc_mmap_dmabuf_addr(p)
  <2>1. CASE buf[p] \in Buf /\ Refer(held, [maps EXCEPT ![p] = @ \cup {buf[p]}], queue)
    <3> DEFINE m == [maps EXCEPT ![p] = @ \cup {buf[p]}]
    <3>1. Active(p) /\ Here(p) = "mmap"
      BY <1>10, CallOf DEF fdc_mmap_dmabuf_addr, At, Here
    <3>2. pc[p] \in Span(p).buf
      BY <3>1, SpanOrder DEF Order, Active, Here
    <3>3. buf[p] \in held[p]
      BY <2>1, <3>2, Apart DEF OwnsInv, Owns
    <3>4. ASSUME NEW b \in Buf, Referenced(b, held, m, queue)
          PROVE  Referenced(b, held, maps, queue)
      BY <1>0, <3>3, <3>4 DEF Referenced
    <3> HIDE DEF m
    <3> QED BY <2>1, <3>4, ReferLive DEF m
  <2> QED BY <1>1, <1>10, <2>1 DEF fdc_mmap_dmabuf_addr
<1>11. CASE Munmap(p)
  <2> DEFINE m == [maps EXCEPT ![p] = @ \ {buf[p]}]
  <2>1. Refer(held, m, queue)
    BY <1>11 DEF Munmap
  <2>2. ASSUME NEW b \in Buf, Referenced(b, held, m, queue)
        PROVE  Referenced(b, held, maps, queue)
    BY <1>0, <2>2 DEF Referenced
  <2> HIDE DEF m
  <2> QED BY <2>1, <2>2, ReferLive
<1>12. CASE fdc_store_img_to_dmabuf(p)
  BY <1>1, <1>12 DEF fdc_store_img_to_dmabuf
<1>13. CASE Send(p)
  <2>1. CASE Refer(held, maps, Append(queue, Cargo(p)))
    <3>1. Cargo(p) \cap Buf = {} \/ (Cargo(p) \cap Buf = {buf[p]} /\ buf[p] \in held[p])
      BY <1>13, CargoIs DEF Send, At
    <3>2. \A b \in Cargo(p) \cap Buf : Referenced(b, held, maps, queue)
      BY <3>1 DEF Referenced
    <3> DEFINE q == Append(queue, Cargo(p))
    <3>3. \A i \in DOMAIN q : q[i] = Cargo(p) \/ \E j \in DOMAIN queue : q[i] = queue[j]
      BY DEF RestInv
    <3> HIDE DEF q
    <3>4. ASSUME NEW b \in Buf, Referenced(b, held, maps, q)
          PROVE  Referenced(b, held, maps, queue)
      BY <3>2, <3>3, <3>4 DEF Referenced
    <3> QED BY <2>1, <3>4, ReferLive DEF q
  <2> QED BY <1>1, <1>13, <2>1 DEF Send, ionVars
<1>14. CASE Recv(p)
  <2> DEFINE h == [held EXCEPT ![p] = @ \cup Head(queue)]
             q == Tail(queue)
  <2>1. CASE queue # <<>> /\ Refer(h, maps, q)
    <3>1. /\ \A i \in DOMAIN q : \E j \in DOMAIN queue : q[i] = queue[j]
          /\ \E j \in DOMAIN queue : Head(queue) = queue[j]
      BY <2>1 DEF RestInv
    <3>2. \A r \in Proc : h[r] = IF r = p THEN held[p] \cup Head(queue) ELSE held[r]
      BY <1>0
    <3> HIDE DEF h, q
    <3>3. ASSUME NEW b \in Buf, Referenced(b, h, maps, q)
          PROVE  Referenced(b, held, maps, queue)
      BY <3>1, <3>2, <3>3 DEF Referenced
    <3> QED BY <2>1, <3>3, ReferLive
  <2>2. (queue # <<>> /\ Refer(h, maps, q)) \/ UNCHANGED ionVars
    BY <1>14 DEF Recv
  <2> HIDE DEF h, q
  <2> QED BY <1>1, <2>1, <2>2
<1>15. CASE Dump(p) BY <1>1, <1>2, <1>15 DEF Dump
<1>16. CASE Fork(p)
  <2>1. PICK child \in {Producer, Consumer} :
          Refer([held EXCEPT ![child] = held[p]], maps, queue)
    BY <1>16 DEF Fork
  <2> DEFINE h == [held EXCEPT ![child] = held[p]]
  <2>2. ASSUME NEW b \in Buf, Referenced(b, h, maps, queue)
        PROVE  Referenced(b, held, maps, queue)
    BY <1>0, <2>2 DEF Referenced
  <2> HIDE DEF h
  <2> QED BY <2>1, <2>2, ReferLive DEF h
<1>17. CASE Wait(p) BY <1>1, <1>17 DEF Wait
<1>18. CASE Exit(p) BY <1>2, <1>18 DEF Exit
<1> QED BY <1>3, <1>4, <1>5, <1>6, <1>7, <1>8, <1>9, <1>10, <1>11, <1>12,
           <1>13, <1>14, <1>15, <1>16, <1>17, <1>18 DEF Run

LEMMA ImageStep ==
  ASSUME IonShape, ControlInv, EndInv, RestInv, LiveInv, OwnsInv, ImageInv,
         MessageInv, NEW p \in Proc, Run(p)
  PROVE  ImageInv'
<1> USE DEF ControlInv
<1>1. \A r \in Proc : Span(r)' = Span(r)
  BY Changes, SpanStays
<1>2. \A b \in stored : pages[b] # {} => b \in stored'
  BY Changes
<1>3. ASSUME NEW r \in Proc, pc[r] \in Span(r).image, buf'[r] = buf[r]
      PROVE  buf'[r] \in stored'
  BY <1>2, <1>3, ImageHeld
<1>4. CASE Fork(p)
  <2>1. \A r \in Proc : pc'[r] # pc[r] => pc'[r] \notin Span(r).image
    BY <1>4, ForkOwns
  <2>2. buf' = buf
    BY <1>4 DEF Fork
  <2> QED BY <1>1, <1>3, <2>1, <2>2 DEF ImageInv
<1>5. CASE ~Fork(p)
  <2>1. ASSUME NEW r \in Proc \ {p}, pc'[r] \in Span(r).image
        PROVE  buf'[r] \in stored'
    <3>1. pc'[r] = pc[r] /\ buf'[r] = buf[r]
      BY <1>5, RunEffect, Elsewhere DEF Effect
    <3> QED BY <1>3, <2>1, <3>1
  <2>2. ASSUME pc'[p] \in Span(p).image PROVE buf'[p] \in stored'
    <3>1. ASSUME Call(p) \notin {"none", "exit", "store", "recv"}, Go(p), buf' = buf
          PROVE  buf'[p] \in stored'
      <4>1. Active(p) /\ Here(p) = Call(p)
        BY <3>1, CallOf DEF Here
      <4>2. Onward(p)
        BY <3>1, <4>1, GoOnward
      <4> QED BY <1>3, <2>2, <3>1, <4>1, <4>2 DEF Onward
    <3>2. ASSUME Call(p) \notin {"none", "exit", "create_frame"} \cup Taking,
                 Jump(p), buf' = buf
          PROVE  buf'[p] \in stored'
      <4>1. Active(p) /\ Here(p) = Call(p)
        BY <3>2, CallOf DEF Here
      <4>2. pc[p] \in Span(p).image
        BY <2>2, <3>2, <4>1, JumpAside
      <4> QED BY <1>3, <3>2, <4>2
    <3>3. ~End(p)
      <4>1. pc'[p] \in 1 .. 20
        BY <2>2, SpanRange
      <4> QED BY <4>1 DEF End, PcInCode, Ended
    <3>4. CASE Try(p)
      <4>1. /\ Call(p) \in {"exec", "stat", "fopen"} /\ (Go(p) \/ Jump(p))
            /\ buf' = buf
        BY <3>4 DEF Try
      <4> QED BY <3>1, <3>2, <4>1 DEF Taking
    <3>5. CASE Acquire(p)
      <4>1. /\ Call(p) \in {"open_ion", "open_file", "socketpair", "create_frame"}
            /\ Go(p) \/ (Jump(p) /\ Call(p) # "create_frame")
            /\ buf' = buf
        BY <3>5, IonAppsAssumption DEF Acquire, Opens, IonAppsAssumption, May
      <4> QED BY <3>1, <3>2, <4>1 DEF Taking
    <3>6. CASE Release(p)
      BY <3>1, <3>6 DEF Release, Closing
    <3>7. CASE Alloc(p)
      <4>1. pc' = pc /\ buf' = buf
        BY <3>7 DEF Alloc, appVars
      <4> QED BY <1>3, <2>2, <4>1
    <3>8. CASE Kernel(p)
      BY <1>3, <2>2, <3>8 DEF Kernel
    <3>9. CASE Return(p)
      <4>1. Active(p) /\ Here(p) = "alloc"
        <5>1. kpc[p] # "user" /\ pc[p] # Ended
          BY <3>9 DEF Return, EndInv, EndedClean
        <5> QED BY <5>1 DEF InsideAlloc, Active, Here
      <4>2. pc[p] \notin Span(p).image
        BY <4>1, SpanOrder DEF Order, Active, Here
      <4>3. Go(p) \/ Jump(p)
        BY <3>9 DEF Return
      <4>4. CASE Go(p)
        <5>1. Onward(p)
          BY <4>1, <4>4, GoOnward
        <5> QED BY <2>2, <4>1, <4>2, <5>1 DEF Onward
      <4>5. CASE Jump(p)
        BY <2>2, <4>1, <4>2, <4>5, JumpAside DEF Taking
      <4> QED BY <4>3, <4>4, <4>5
    <3>10. CASE fdc_mmap_dmabuf_addr(p)
      <4>1. Call(p) = "mmap" /\ (Go(p) \/ Jump(p)) /\ buf' = buf
        BY <3>10 DEF fdc_mmap_dmabuf_addr, At
      <4> QED BY <3>1, <3>2, <4>1 DEF Taking
    <3>11. CASE Munmap(p)
      BY <3>1, <3>11 DEF Munmap, At
    <3>12. CASE fdc_store_img_to_dmabuf(p)
      <4>1. CASE Go(p) /\ stored' = stored \cup {buf[p]}
        BY <3>12, <4>1 DEF fdc_store_img_to_dmabuf
      <4>2. CASE Jump(p)
        BY <3>2, <3>12, <4>2 DEF fdc_store_img_to_dmabuf, At, Taking
      <4> QED BY <3>12, <4>1, <4>2 DEF fdc_store_img_to_dmabuf
    <3>13. CASE Send(p)
      BY <3>1, <3>13 DEF Send, At
    <3>14. CASE Recv(p)
      <4>1. CASE Jump(p) /\ UNCHANGED <<ionVars, buf>>
        BY <3>2, <3>14, <4>1 DEF Recv, At, Taking
      <4>2. CASE /\ queue # <<>>
                 /\ Go(p)
                 /\ Refer([held EXCEPT ![p] = @ \cup Head(queue)], maps, Tail(queue))
                 /\ buf' = [buf EXCEPT ![p] =
                       IF Head(queue) \cap Buf = {} THEN None
                       ELSE CHOOSE b \in Head(queue) : b \in Buf]
        <5>1. buf'[p] \in stored
          BY <2>2, <3>14, <4>2, RecvOwns
        <5>2. stored' = stored
          BY <3>14 DEF Recv
        <5> QED BY <5>1, <5>2
      <4> QED BY <3>14, <4>1, <4>2 DEF Recv
    <3>15. CASE Dump(p)
      BY <3>1, <3>3, <3>15 DEF Dump, At
    <3>16. CASE Wait(p)
      <4>1. Call(p) \in {"wait_producer", "wait_consumer"} /\ Go(p) /\ buf' = buf
        BY <3>16 DEF Wait, At
      <4> QED BY <3>1, <4>1
    <3> QED BY <1>5, <3>3, <3>4, <3>5, <3>6, <3>7, <3>8, <3>9, <3>10, <3>11,
               <3>12, <3>13, <3>14, <3>15, <3>16 DEF Run, Oops, Exit
  <2> QED BY <1>1, <2>1, <2>2 DEF ImageInv
<1> QED BY <1>4, <1>5

LEMMA NextApps == IonInv /\ AppsInv /\ [Next]_vars => AppsInv'
<1> SUFFICES ASSUME IonInv, AppsInv, [Next]_vars PROVE AppsInv'
  OBVIOUS
<1> USE DEF IonInv, PageInv, AppsInv
<1>1. ASSUME NEW p \in Proc, Run(p) PROVE AppsInv'
  <2>1. RestInv' /\ MessageInv'
    BY <1>1, MessageStep DEF ControlInv
  <2>2. LiveInv'
    BY <1>1, RunLive DEF ControlInv
  <2>3. ImageInv'
    BY <1>1, ImageStep
  <2>4. OwnsInv'
    BY <1>1, RunOwns, ForkOwns
  <2> QED BY <2>1, <2>2, <2>3, <2>4
<1>2. CASE UNCHANGED vars
  <2>1. UNCHANGED <<scenario, pc, buf, stored, sent>> /\ UNCHANGED ionVars
    BY <1>2 DEF vars, appVars
  <2>2. UNCHANGED <<free, pages, kpc, npages, got, mine, held, maps, queue>>
    BY <2>1 DEF ionVars
  <2>3. \A r \in Proc : Span(r)' = Span(r)
    BY <2>1, SpanStays
  <2>4. RestInv' /\ MessageInv'
    BY <2>1, <2>2 DEF RestInv, MessageInv
  <2>5. LiveInv'
    BY <2>2 DEF LiveInv
  <2>6. ImageInv'
    BY <2>1, <2>3 DEF ImageInv
  <2>7. OwnsInv'
    BY <2>1, <2>2, OthersOwn DEF OwnsInv
  <2> QED BY <2>4, <2>5, <2>6, <2>7
<1> QED BY <1>1, <1>2 DEF Next

LEMMA InitApps == Init => AppsInv
<1> SUFFICES ASSUME Init PROVE AppsInv
  OBVIOUS
<1>0. MessageInv
  <2>1. queue = <<>>
    BY DEF Init, IonInit
  <2>2. \A i \in DOMAIN queue : FALSE
    BY <2>1
  <2> QED BY <2>2 DEF MessageInv
<1> USE DEF Init, IonInit
<1>1. RestInv
  <2>1. npages \in [Proc -> Nat]
    OBVIOUS
  <2>2. queue \in Seq(SUBSET (Buf \cup Thing))
    OBVIOUS
  <2>3. DOMAIN buf = Proc /\ stored \subseteq Buf /\ sent \in BOOLEAN
    OBVIOUS
  <2> QED BY <2>1, <2>2, <2>3 DEF RestInv
<1>2. LiveInv
  BY DEF LiveInv, Referenced
<1>3. ASSUME NEW p \in Proc
      PROVE  /\ Owns(p) /\ OwnsOnly(p)
             /\ pc[p] \notin Span(p).image
  <2>1. pc[p] \in {0, 1, 99} /\ (pc[p] = 1 => p \notin {Producer, Consumer})
    BY IonAppsAssumption DEF IonAppsAssumption, Ended
  <2>2. /\ Span(p).ion \subseteq 1 .. 20 /\ Span(p).file \subseteq 1 .. 20
        /\ Span(p).meta \subseteq 1 .. 20 /\ Span(p).own \subseteq 1 .. 20
        /\ Span(p).other \subseteq 1 .. 20 /\ Span(p).buf \subseteq 1 .. 20
        /\ Span(p).map \subseteq 1 .. 20 /\ Span(p).image \subseteq 1 .. 20
    BY SpanRange
  <2>3. 0 \notin 1 .. 20 /\ 99 \notin 1 .. 20
    OBVIOUS
  <2>4. /\ pc[p] \notin Span(p).ion /\ pc[p] \notin Span(p).file
        /\ pc[p] \notin Span(p).meta /\ pc[p] \notin Span(p).own
        /\ pc[p] \notin Span(p).other /\ pc[p] \notin Span(p).buf
        /\ pc[p] \notin Span(p).map /\ pc[p] \notin Span(p).image
    BY <2>1, <2>2, <2>3, SpanStarts
  <2>5. /\ held[p] = {} /\ maps[p] = {} /\ buf[p] = None /\ kpc[p] = "user"
    OBVIOUS
  <2> QED BY <2>4, <2>5 DEF Owns, OwnsOnly
<1>4. OwnsInv /\ ImageInv
  BY <1>3 DEF OwnsInv, ImageInv
<1> QED BY <1>0, <1>1, <1>2, <1>4 DEF AppsInv

LEMMA SpecApps == Spec => [](IonInv /\ AppsInv)
<1>1. IonInv /\ AppsInv /\ [Next]_vars => (IonInv /\ AppsInv)'
  BY NextIon, NextApps
<1> QED BY <1>1, InitIon, InitApps, PTL DEF Spec

-----------------------------------------------------------------------------
(* What the programs may rely on.                                          *)

(* What a consumer dumps is the image the producer stored, in pages that   *)
(* the buffer still has, whenever the producer unmapped it, closed it and  *)
(* exited.                                                                 *)
THEOREM ImageReachesConsumer == Spec => []ConsumerSeesTheImage
<1>1. IonInv /\ AppsInv => ConsumerSeesTheImage
  <2> SUFFICES ASSUME IonInv, AppsInv, NEW p \in Proc, At(p, "dump")
               PROVE  pages[buf[p]] # {} /\ buf[p] \in stored
    BY DEF ConsumerSeesTheImage
  <2>1. PcInCode
    BY DEF IonInv, ControlInv
  <2>2. Active(p) /\ Here(p) = "dump"
    BY <2>1, CallOf DEF At, Here
  <2>3. pc[p] \in Span(p).image
    BY <2>2, SpanOrder DEF Order, Active, Here
  <2> QED BY <2>1, <2>3, ImageHeld DEF AppsInv
<1> QED BY <1>1, SpecApps, PTL

(* Whichever call fails, the labels close and unmap only what the program  *)
(* has, and all of it but what its consumer leaves to the exit.            *)
THEOREM LabelsAreExact == Spec => []UnwindingIsExact
<1>1. IonInv /\ AppsInv => UnwindingIsExact
  <2> SUFFICES ASSUME IonInv, AppsInv, NEW p \in Proc
               PROVE  /\ Call(p) \in Closing => Closes(p) \ {Lost} \subseteq held[p]
                      /\ At(p, "munmap") => buf[p] \in maps[p]
                      /\ At(p, "exit") /\ p # Consumer =>
                           /\ maps[p] = {}
                           /\ held[p] \cap {"ion", "file", "meta", buf[p]} = {}
    BY DEF UnwindingIsExact
  <2>1. PcInCode
    BY DEF IonInv, ControlInv
  <2>2. Call(p) # "none" => Active(p) /\ Here(p) = Call(p)
    BY <2>1, CallOf DEF Here
  <2>3. Owns(p) /\ (p # Consumer => OwnsOnly(p))
    BY DEF AppsInv, OwnsInv
  <2>4. ASSUME Active(p)
        PROVE  /\ Here(p) = "close_ion" => pc[p] \in Span(p).ion
               /\ Here(p) = "close_buf" => pc[p] \in Span(p).buf
               /\ Here(p) = "munmap" => pc[p] \in Span(p).map
               /\ Here(p) = "close_file" => pc[p] \in Span(p).file
               /\ Here(p) = "destroy_frame" => pc[p] \in Span(p).meta
               /\ Here(p) \in {"close_socket", "close_sock0"} => pc[p] \in Span(p).own
               /\ Here(p) \in {"close_other", "close_sock1"} => pc[p] \in Span(p).other
    BY <2>4, SpanTakes DEF Active, Here
  <2>5. ASSUME Call(p) \in Closing PROVE Closes(p) \ {Lost} \subseteq held[p]
    <3>1. Active(p) /\ Here(p) = Call(p)
      BY <2>2, <2>5 DEF Closing
    <3>2. Here(p) \in {"close_sock0", "close_sock1"} => p = Main
      BY <3>1, CodeFacts DEF Sound, Parent, Active, Here
    <3>3. /\ Here(p) = "close_buf" => Closes(p) = {buf[p]}
          /\ Here(p) = "close_ion" => Closes(p) = {"ion"}
          /\ Here(p) = "close_file" => Closes(p) = {"file"}
          /\ Here(p) \in {"close_socket", "close_sock0"} => Closes(p) = {OwnEnd(p)}
          /\ Here(p) \in {"close_other", "close_sock1"} => Closes(p) = {OtherEnd(p)}
          /\ Here(p) = "destroy_frame" => Closes(p) = {"meta"}
      BY <3>1, <3>2, IonAppsAssumption
         DEF IonAppsAssumption, Closes, At, OwnEnd, OtherEnd
    <3>4. Here(p) \in {"close_buf", "close_ion", "close_file", "close_socket",
                       "close_sock0", "close_other", "close_sock1", "destroy_frame"}
      BY <2>5, <3>1 DEF Closing
    <3> QED BY <2>3, <2>4, <3>1, <3>3, <3>4 DEF Owns
  <2>6. At(p, "munmap") => buf[p] \in maps[p]
    BY <2>2, <2>3, <2>4 DEF At, Owns
  <2>7. ASSUME At(p, "exit"), p # Consumer
        PROVE  maps[p] = {} /\ held[p] \cap {"ion", "file", "meta", buf[p]} = {}
    <3>1. Active(p) /\ Here(p) = "exit"
      BY <2>2, <2>7 DEF At
    <3>2. /\ pc[p] \notin Span(p).ion /\ pc[p] \notin Span(p).file
          /\ pc[p] \notin Span(p).meta /\ pc[p] \notin Span(p).buf
          /\ pc[p] \notin Span(p).map
      BY <2>7, <3>1, SpanTakes DEF Active, Here
    <3> QED BY <2>3, <2>7, <3>2 DEF OwnsOnly
  <2> QED BY <2>5, <2>6, <2>7
<1> QED BY <1>1, SpecApps, PTL

(* A step changes a table of the processes at one process, or, by a fork,  *)
(* at two.                                                                 *)
LEMMA OneEntry ==
  ASSUME NEW p \in Proc, Run(p), ~Fork(p)
  PROVE  /\ pc' = pc \/ \E x : pc' = [pc EXCEPT ![p] = x]
         /\ held' = held \/ \E x : held' = [held EXCEPT ![p] = x]
         /\ maps' = maps \/ \E x : maps' = [maps EXCEPT ![p] = x]
         /\ buf' = buf \/ \E x : buf' = [buf EXCEPT ![p] = x]
<1>1. Go(p) \/ Jump(p) => \E x : pc' = [pc EXCEPT ![p] = x]
  BY DEF Go, Jump
<1>2. End(p) => /\ \E x : pc' = [pc EXCEPT ![p] = x]
                /\ \E x : held' = [held EXCEPT ![p] = x]
                /\ \E x : maps' = [maps EXCEPT ![p] = x]
  BY DEF End, Refer
<1>3. UNCHANGED ionVars => held' = held /\ maps' = maps
  BY DEF ionVars
<1>4. CASE Try(p) BY <1>1, <1>3, <1>4 DEF Try
<1>5. CASE Acquire(p) BY <1>1, <1>3, <1>5 DEF Acquire, Hold, Refer
<1>6. CASE Release(p) BY <1>1, <1>6 DEF Release, Drop, Refer
<1>7. CASE Alloc(p) BY <1>7 DEF Alloc, ion_ioctl, appVars
<1>8. CASE Kernel(p)
  BY <1>8 DEF Kernel, InIoctl, AllocPage, Export, Unwind, InstallFd, CopyToUser
<1>9. CASE Return(p) BY <1>1, <1>9 DEF Return
<1>10. CASE Oops(p) BY <1>2, <1>10 DEF Oops
<1>11. CASE fdc_mmap_dmabuf_addr(p)
  BY <1>1, <1>3, <1>11 DEF fdc_mmap_dmabuf_addr, Refer
<1>12. CASE Munmap(p) BY <1>1, <1>12 DEF Munmap, Refer
<1>13. CASE fdc_store_img_to_dmabuf(p)
  BY <1>1, <1>3, <1>13 DEF fdc_store_img_to_dmabuf
<1>14. CASE Send(p) BY <1>1, <1>3, <1>14 DEF Send, Refer
<1>15. CASE Recv(p) BY <1>1, <1>3, <1>15 DEF Recv, Refer
<1>16. CASE Dump(p) BY <1>1, <1>2, <1>3, <1>16 DEF Dump
<1>17. CASE Wait(p) BY <1>1, <1>3, <1>17 DEF Wait
<1>18. CASE Exit(p) BY <1>2, <1>18 DEF Exit
<1> QED BY <1>4, <1>5, <1>6, <1>7, <1>8, <1>9, <1>10, <1>11, <1>12, <1>13,
           <1>14, <1>15, <1>16, <1>17, <1>18 DEF Run

LEMMA StaysTable ==
  ASSUME NEW S, NEW f \in [Proc -> S], NEW g, NEW p \in Proc,
         g = f \/ \E x : g = [f EXCEPT ![p] = x],
         \A r \in Proc : g[r] \in S
  PROVE  g \in [Proc -> S]
OBVIOUS

LEMMA TypeStep ==
  ASSUME IonInv, AppsInv, AppsTypeOK, [Next]_vars, (IonInv /\ AppsInv)'
  PROVE  AppsTypeOK'
<1>1. /\ IonShape' /\ RestInv'
      /\ DOMAIN pc' = Proc
  BY DEF IonInv, PageInv, AppsInv, ControlInv, PcInCode
<1>2. ASSUME NEW r \in Proc
      PROVE  /\ held'[r] \in SUBSET (Buf \cup Thing)
             /\ maps'[r] \in SUBSET Buf
             /\ buf'[r] \in Buf \cup {None, Lost}
  BY DEF AppsInv, OwnsInv, Owns
<1>3. ASSUME NEW r \in Proc PROVE pc'[r] \in 0 .. 20 \cup {Ended}
  <2>1. pc'[r] \in DOMAIN Code(r)' \cup {0, Ended}
    BY DEF IonInv, ControlInv, PcInCode
  <2>2. Code(r)' = Code(r)
    <3>1. scenario' = scenario
      BY Changes DEF Next, AppsInv, vars, appVars
    <3> QED BY <3>1, CodeStays
  <2>3. \A i \in DOMAIN Code(r) : i \in 1 .. 20
    BY InCode
  <2> QED BY <2>1, <2>2, <2>3
<1>4. /\ pc \in [Proc -> 0 .. 20 \cup {Ended}]
      /\ held \in [Proc -> SUBSET (Buf \cup Thing)]
      /\ maps \in [Proc -> SUBSET Buf]
      /\ buf \in [Proc -> Buf \cup {None, Lost}]
  BY DEF AppsTypeOK, IonTypeOK
<1>5. /\ pc' \in [Proc -> 0 .. 20 \cup {Ended}]
      /\ held' \in [Proc -> SUBSET (Buf \cup Thing)]
      /\ maps' \in [Proc -> SUBSET Buf]
      /\ buf' \in [Proc -> Buf \cup {None, Lost}]
  <2>1. ASSUME NEW p \in Proc, Run(p), ~Fork(p)
        PROVE  /\ pc' \in [Proc -> 0 .. 20 \cup {Ended}]
               /\ held' \in [Proc -> SUBSET (Buf \cup Thing)]
               /\ maps' \in [Proc -> SUBSET Buf]
               /\ buf' \in [Proc -> Buf \cup {None, Lost}]
    <3>1. /\ pc' = pc \/ \E x : pc' = [pc EXCEPT ![p] = x]
          /\ held' = held \/ \E x : held' = [held EXCEPT ![p] = x]
          /\ maps' = maps \/ \E x : maps' = [maps EXCEPT ![p] = x]
          /\ buf' = buf \/ \E x : buf' = [buf EXCEPT ![p] = x]
      BY <2>1, OneEntry
    <3>2. pc' \in [Proc -> 0 .. 20 \cup {Ended}]
      BY <1>3, <1>4, <3>1, StaysTable
    <3>3. held' \in [Proc -> SUBSET (Buf \cup Thing)]
      BY <1>2, <1>4, <3>1, StaysTable
    <3>4. maps' \in [Proc -> SUBSET Buf]
      BY <1>2, <1>4, <3>1, StaysTable
    <3>5. buf' \in [Proc -> Buf \cup {None, Lost}]
      BY <1>2, <1>4, <3>1, StaysTable
    <3> QED BY <3>2, <3>3, <3>4, <3>5
  <2>2. ASSUME NEW p \in Proc, Fork(p)
        PROVE  /\ pc' \in [Proc -> 0 .. 20 \cup {Ended}]
               /\ held' \in [Proc -> SUBSET (Buf \cup Thing)]
               /\ maps' \in [Proc -> SUBSET Buf]
               /\ buf' \in [Proc -> Buf \cup {None, Lost}]
    <3>1. PICK child \in {Producer, Consumer} :
            /\ pc' = [pc EXCEPT ![p] = @ + 1, ![child] = 1]
            /\ held' = [held EXCEPT ![child] = held[p]]
            /\ maps' = maps /\ buf' = buf
      BY <2>2 DEF Fork, Refer
    <3>2. child \in Proc
      BY IonAppsAssumption DEF IonAppsAssumption
    <3>3. pc' = [r \in Proc |-> IF r = child THEN 1
                                ELSE IF r = p THEN pc[p] + 1 ELSE pc[r]]
      BY <1>4, <3>1, <3>2
    <3>4. pc' \in [Proc -> 0 .. 20 \cup {Ended}]
      BY <1>3, <3>3
    <3>5. held' \in [Proc -> SUBSET (Buf \cup Thing)]
      BY <1>4, <3>1, <3>2
    <3> QED BY <1>4, <3>1, <3>4, <3>5
  <2>3. CASE UNCHANGED vars
    BY <1>4, <2>3 DEF vars, appVars, ionVars
  <2> QED BY <2>1, <2>2, <2>3 DEF Next
<1> QED BY <1>1, <1>5 DEF AppsTypeOK, IonTypeOK, IonShape, RestInv

(* The variables of the kernel and of the programs keep their types.       *)
THEOREM AppsTypeCorrect == Spec => []AppsTypeOK
<1>1. Init => AppsTypeOK
  <2> SUFFICES ASSUME Init PROVE AppsTypeOK
    OBVIOUS
  <2>1. IonTypeOK
    BY DEF Init, IonInit, IonTypeOK, Phase
  <2>2. pc \in [Proc -> 0 .. 20 \cup {Ended}]
    BY DEF Init
  <2> QED BY <2>1, <2>2 DEF Init, AppsTypeOK
<1>2. AppsTypeOK /\ IonInv /\ AppsInv /\ [Next]_vars => AppsTypeOK'
  <2> SUFFICES ASSUME AppsTypeOK, IonInv, AppsInv, [Next]_vars PROVE AppsTypeOK'
    OBVIOUS
  <2>1. IonInv' /\ AppsInv'
    BY NextIon, NextApps
  <2> QED BY <2>1, TypeStep
<1> QED BY <1>1, <1>2, SpecApps, PTL DEF Spec

=============================================================================
