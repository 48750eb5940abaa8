------------------------------ MODULE IonApps -------------------------------
(***************************************************************************)
(* The programs that use the ion driver: the driver's own tests            *)
(* (drivers/tests/ion, drivers/tests/ipc_fd_transfer) and the frame        *)
(* examples (examples/frame).  One program, Solo, allocates, fills and     *)
(* unmaps a buffer on its own; at the same time a Main forks a Producer    *)
(* and a Consumer, and the producer sends its buffer to the consumer over  *)
(* a socket pair, usually exiting before the consumer looks at it.         *)
(*                                                                         *)
(* A program is a table: the calls of its body in order, each with the     *)
(* label its failure jumps to, and the calls after the labels, which the   *)
(* body falls into when it has done its work.                              *)
(***************************************************************************)
EXTENDS Ion

CONSTANTS
  Solo, Main, Producer, Consumer,  \* the processes
  Scenarios,  \* which programs run together
  Sizes       \* the sizes, in pages, a test file may have

Lost == "lost"   \* the value of alloc_data.fd when dma_buf_fd failed

(* fdc_create_csi_frame always returns 0.                                  *)
ASSUME IonAppsAssumption ==
  /\ Proc = {Solo, Main, Producer, Consumer}
  /\ Main \notin {Solo, Producer, Consumer}
  /\ Producer \notin {Solo, Consumer}
  /\ Solo # Consumer
  /\ Thing = {"ion", "file", "sock0", "sock1", "meta"}
  /\ Lost \notin Buf
  /\ Sizes \subseteq Nat
  /\ \A s \in Scenarios : s.pair \in {"ion_test2", "ion_test3", "frame_demo2",
                                      "ipc_fd_transfer"}
  /\ "create_frame" \notin Faults

VARIABLES
  scenario,  \* the programs of this execution
  pc,        \* pc[p]: the step p is at, 0 before the fork, -1 at the end
  buf,       \* buf[p]: what p's variable dmabuf_fd stands for
  stored,    \* the buffers that have the image in them
  sent       \* the producer has sent its message

appVars == <<scenario, pc, buf, stored, sent>>
vars == <<ionVars, appVars>>

Ended == 99

-----------------------------------------------------------------------------
(* The programs.  Do(call, k): a failure of the call jumps to the k-th     *)
(* call after the labels; Then(call): its result is not looked at.         *)

Do(call, k) == [call |-> call, label |-> k]
Then(call) == [call |-> call, label |-> 0]

Program(body, labels) ==
  [i \in 1 .. Len(body) + Len(labels) |->
     IF i > Len(body) THEN Then(labels[i - Len(body)])
     ELSE IF body[i].label = 0 THEN body[i]
     ELSE [body[i] EXCEPT !.label = @ + Len(body)]]

(* A master: it keeps both ends of the socket pair open until both of its  *)
(* children have exited.                                                   *)
Forks == Program(<<Do("socketpair", 3), Then("fork_producer"),
                   Then("fork_consumer"), Then("wait_producer"),
                   Then("wait_consumer")>>,
                 <<"close_sock0", "close_sock1", "exit">>)

ion_test2_main == Forks
ion_test3_main == Forks
frame_demo2_main == Forks
ipc_fd_transfer_main == Forks

ion_test1 ==
  Program(<<Do("open_ion", 3), Do("alloc", 2), Do("mmap", 1), Then("store"),
            Then("munmap")>>,
          <<"close_buf", "close_ion", "exit">>)

frame_demo1 ==
  Program(<<Do("stat", 5), Do("open_ion", 5), Do("alloc", 4), Do("mmap", 3),
            Do("open_file", 2), Do("store", 1), Then("create_frame"),
            Then("destroy_frame")>>,
          <<"close_file", "munmap", "close_buf", "close_ion", "exit">>)

(* Mutant: nobody looks at what mmap has returned.                         *)
Slip_MmapUnchecked ==
  Program(<<Then("close_other"), Do("exec", 6), Do("stat", 5),
            Do("open_ion", 5), Do("alloc", 4), Then("mmap"),
            Do("open_file", 2), Do("store", 1), Then("send")>>,
          <<"close_file", "munmap", "close_buf", "close_ion", "close_socket",
            "exit">>)

(* Mutant: a failed mmap jumps to the label before the munmap.             *)
Slip_LabelTooEarly ==
  Program(<<Then("close_other"), Do("exec", 6), Do("stat", 5),
            Do("open_ion", 5), Do("alloc", 4), Do("mmap", 2),
            Do("open_file", 2), Do("store", 1), Then("send")>>,
          <<"close_file", "munmap", "close_buf", "close_ion", "close_socket",
            "exit">>)

(* The first two calls are the child's branch in ion_test2.c.              *)
ion_test2_producer ==
  Program(<<Then("close_other"), Do("exec", 6), Do("stat", 5),
            Do("open_ion", 5), Do("alloc", 4), Do("mmap", 3),
            Do("open_file", 2), Do("store", 1), Then("send")>>,
          <<"close_file", "munmap", "close_buf", "close_ion", "close_socket",
            "exit">>)

ion_test3_producer ==
  Program(<<Then("close_other"), Do("stat", 5), Do("open_ion", 5),
            Do("alloc", 4), Do("mmap", 3), Do("open_file", 2), Do("store", 1),
            Then("send")>>,
          <<"close_file", "munmap", "close_buf", "close_ion", "close_socket",
            "exit">>)

frame_demo2_producer ==
  Program(<<Then("close_other"), Do("stat", 5), Do("open_ion", 5),
            Do("alloc", 4), Do("mmap", 3), Do("open_file", 2), Do("store", 1),
            Then("create_frame"), Then("send"), Then("destroy_frame")>>,
          <<"close_file", "munmap", "close_buf", "close_ion", "close_socket",
            "exit">>)

(* A failed open exits with the socket open.                               *)
ipc_fd_transfer_producer ==
  Program(<<Then("close_other"), Do("exec", 3), Do("open_file", 3),
            Then("send")>>,
          <<"close_file", "close_socket", "exit">>)

(* Mutant: a recvmsg for each of the two descriptors.                      *)
Slip_TwoMessages ==
  Program(<<Then("close_other"), Do("exec", 4), Do("recv", 4), Do("recv", 4),
            Do("mmap", 1), Then("dump"), Then("munmap")>>,
          <<"close_buf", "close_file", "close_socket", "exit">>)

(* A failed recvmsg exits with everything open.  The label reads a pointer *)
(* whose initialisation the jump has skipped; nothing is mapped then, and  *)
(* the process ends either way.                                            *)
ion_test2_consumer ==
  Program(<<Then("close_other"), Do("exec", 4), Do("recv", 4), Do("mmap", 1),
            Then("dump"), Then("munmap")>>,
          <<"close_buf", "close_file", "close_socket", "exit">>)

ion_test3_consumer ==
  Program(<<Then("close_other"), Do("recv", 4), Do("mmap", 1), Then("dump"),
            Then("munmap")>>,
          <<"close_buf", "close_file", "close_socket", "exit">>)

(* It dumps what mmap returned even when mmap failed, and never unmaps.    *)
frame_demo2_consumer ==
  Program(<<Then("close_other"), Do("recv", 3), Do("fopen", 1), Then("mmap"),
            Then("dump")>>,
          <<"close_buf", "close_socket", "exit">>)

ipc_fd_transfer_consumer ==
  Program(<<Then("close_other"), Do("exec", 3), Do("recv", 3)>>,
          <<"close_file", "close_socket", "exit">>)

(* What the message of a producer carries.                                 *)
Cargo(p) ==
  CASE scenario.pair = "frame_demo2" -> {buf[p]}
    [] scenario.pair = "ipc_fd_transfer" -> {"file"}
    [] OTHER -> {buf[p], "file"}

Code(p) ==
  IF p = Solo
  THEN IF scenario.solo = "ion_test1" THEN ion_test1 ELSE frame_demo1
  ELSE CASE scenario.pair = "ion_test2" ->
              (CASE p = Main -> ion_test2_main
                 [] p = Producer -> ion_test2_producer
                 [] OTHER -> ion_test2_consumer)
         [] scenario.pair = "ion_test3" ->
              (CASE p = Main -> ion_test3_main
                 [] p = Producer -> ion_test3_producer
                 [] OTHER -> ion_test3_consumer)
         [] scenario.pair = "frame_demo2" ->
              (CASE p = Main -> frame_demo2_main
                 [] p = Producer -> frame_demo2_producer
                 [] OTHER -> frame_demo2_consumer)
         [] OTHER ->
              (CASE p = Main -> ipc_fd_transfer_main
                 [] p = Producer -> ipc_fd_transfer_producer
                 [] OTHER -> ipc_fd_transfer_consumer)

-----------------------------------------------------------------------------
(* Running the programs.                                                   *)

(* The call p is about to make.                                            *)
Call(p) == IF pc[p] \in {0, Ended} \/ kpc[p] # "user" THEN "none"
           ELSE Code(p)[pc[p]].call

At(p, call) == Call(p) = call

Go(p) == pc' = [pc EXCEPT ![p] = @ + 1]
Jump(p) == LET to == Code(p)[pc[p]].label
           IN  pc' = [pc EXCEPT ![p] = IF to = 0 THEN @ + 1 ELSE to]

OwnEnd(p) == IF p = Consumer THEN "sock1" ELSE "sock0"
OtherEnd(p) == IF p = Consumer THEN "sock0" ELSE "sock1"

(* A message nobody can receive any more is thrown away.                   *)
Kept(h) == IF \E p \in Proc : "sock1" \in h[p] THEN queue ELSE <<>>

Hold(p, things) == Refer([held EXCEPT ![p] = @ \cup things], maps, queue)
Drop(p, things) == LET h == [held EXCEPT ![p] = @ \ things]
                   IN  Refer(h, maps, Kept(h))

(* The process ends, by exit or by a signal: the kernel closes and unmaps. *)
End(p) ==
  /\ pc' = [pc EXCEPT ![p] = Ended]
  /\ LET h == [held EXCEPT ![p] = {}]
     IN  Refer(h, [maps EXCEPT ![p] = {}], Kept(h))

(* Calls that succeed or fail and give nothing to hold.                    *)
Try(p) ==
  /\ Call(p) \in {"exec", "stat", "fopen"}
  /\ Go(p) \/ (May(Call(p)) /\ Jump(p))
  /\ UNCHANGED <<ionVars, scenario, buf, stored, sent>>

(* Calls that give something to hold.                                      *)
Opens == [call \in {"open_ion", "open_file", "socketpair", "create_frame"} |->
            CASE call = "open_ion" -> {"ion"}
              [] call = "open_file" -> {"file"}
              [] call = "socketpair" -> {"sock0", "sock1"}
              [] OTHER -> {"meta"}]

Acquire(p) ==
  /\ Call(p) \in DOMAIN Opens
  /\ \/ Go(p) /\ Hold(p, Opens[Call(p)])
     \/ May(Call(p)) /\ Jump(p) /\ UNCHANGED ionVars
  /\ UNCHANGED <<scenario, buf, stored, sent>>

Closing == {"close_buf", "close_ion", "close_file", "close_socket",
            "close_other", "close_sock0", "close_sock1", "destroy_frame"}

Closes(p) ==
  CASE At(p, "close_buf") -> {buf[p]}
    [] At(p, "close_ion") -> {"ion"}
    [] At(p, "close_file") -> {"file"}
    [] At(p, "close_socket") -> {OwnEnd(p)}
    [] At(p, "close_other") -> {OtherEnd(p)}
    [] At(p, "close_sock0") -> {"sock0"}
    [] At(p, "close_sock1") -> {"sock1"}
    [] OTHER -> {"meta"}

Release(p) ==
  /\ Call(p) \in Closing
  /\ Go(p)
  /\ Drop(p, Closes(p))
  /\ UNCHANGED <<scenario, buf, stored, sent>>

(* The ioctl, and its return to the program.                               *)
Alloc(p) ==
  /\ At(p, "alloc")
  /\ \E len \in Sizes : /\ Code(p) = ion_test1 => len > 0
                        /\ ion_ioctl(p, len)
  /\ UNCHANGED appVars

(* What an exporter writes into new pages is not the image.                *)
Kernel(p) ==
  /\ InIoctl(p)
  /\ stored' = {b \in stored : pages[b] # {}}
  /\ UNCHANGED <<scenario, pc, buf, sent>>

Return(p) ==
  /\ kpc[p] \in {"done", "efault"}
  /\ IF kpc[p] = "done"
     THEN /\ Go(p)
          /\ buf' = [buf EXCEPT ![p] = IF mine[p] = None THEN Lost ELSE mine[p]]
     ELSE Jump(p) /\ UNCHANGED buf
  /\ Enter(p, "user")
  /\ mine' = [mine EXCEPT ![p] = None]
  /\ UNCHANGED <<free, pages, npages, got, held, maps, queue, orphans,
                 scenario, stored, sent>>

(* dma_buf_fd follows an error pointer: the kernel kills the process, in   *)
(* the middle of its ioctl.                                                *)
Oops(p) ==
  /\ kpc[p] = "oops"
  /\ pc[p] # Ended
  /\ End(p)
  /\ UNCHANGED <<scenario, buf, stored, sent>>

fdc_mmap_dmabuf_addr(p) ==
  /\ At(p, "mmap")
  /\ \/ /\ buf[p] \in Buf
        /\ Go(p)
        /\ Refer(held, [maps EXCEPT ![p] = @ \cup {buf[p]}], queue)
     \/ /\ May("mmap") \/ buf[p] = Lost
        /\ Jump(p)
        /\ UNCHANGED ionVars
  /\ UNCHANGED <<scenario, buf, stored, sent>>

Munmap(p) ==
  /\ At(p, "munmap")
  /\ Go(p)
  /\ Refer(held, [maps EXCEPT ![p] = @ \ {buf[p]}], queue)
  /\ UNCHANGED <<scenario, buf, stored, sent>>

(* Reading the file into the buffer.  A program without a label for it     *)
(* (ion_test1) writes the buffer itself, which cannot fail.                *)
fdc_store_img_to_dmabuf(p) ==
  /\ At(p, "store")
  /\ \/ Go(p) /\ stored' = stored \cup {buf[p]}
     \/ /\ May("store") /\ Code(p)[pc[p]].label # 0
        /\ Jump(p)
        /\ UNCHANGED stored
  /\ UNCHANGED <<ionVars, scenario, buf, sent>>

(* A failed sendmsg is logged, and the program goes on.                    *)
Send(p) ==
  /\ At(p, "send")
  /\ Go(p)
  /\ \/ Refer(held, maps, Append(queue, Cargo(p))) /\ sent' = TRUE
     \/ May("send") /\ UNCHANGED <<ionVars, sent>>
  /\ UNCHANGED <<scenario, buf, stored>>

(* recvmsg waits as long as somebody could still send.                     *)
Recv(p) ==
  /\ At(p, "recv")
  /\ \/ /\ queue # <<>>
        /\ Go(p)
        /\ Refer([held EXCEPT ![p] = @ \cup Head(queue)], maps, Tail(queue))
        /\ buf' = [buf EXCEPT ![p] =
                     IF Head(queue) \cap Buf = {} THEN None
                     ELSE CHOOSE b \in Head(queue) : b \in Buf]
     \/ /\ \/ May("recv") /\ queue # <<>>
           \/ queue = <<>> /\ \A q \in Proc : "sock0" \notin held[q]
        /\ Jump(p)
        /\ UNCHANGED <<ionVars, buf>>
  /\ UNCHANGED <<scenario, stored, sent>>

(* Looking at the mapping; where mmap has failed the address is MAP_FAILED *)
(* and the program may die of it.                                          *)
Dump(p) ==
  /\ At(p, "dump")
  /\ \/ Go(p) /\ UNCHANGED ionVars
     \/ buf[p] \notin maps[p] /\ End(p)
  /\ UNCHANGED <<scenario, buf, stored, sent>>

Fork(p) ==
  /\ \E child \in {Producer, Consumer} :
        /\ At(p, IF child = Producer THEN "fork_producer" ELSE "fork_consumer")
        /\ pc' = [pc EXCEPT ![p] = @ + 1, ![child] = 1]
        /\ Refer([held EXCEPT ![child] = held[p]], maps, queue)
  /\ UNCHANGED <<scenario, buf, stored, sent>>

Wait(p) ==
  /\ \E child \in {Producer, Consumer} :
        /\ At(p, IF child = Producer THEN "wait_producer" ELSE "wait_consumer")
        /\ pc[child] = Ended
  /\ Go(p)
  /\ UNCHANGED <<ionVars, scenario, buf, stored, sent>>

Exit(p) == At(p, "exit") /\ End(p) /\ UNCHANGED <<scenario, buf, stored, sent>>

Run(p) ==
  \/ Try(p) \/ Acquire(p) \/ Release(p) \/ Alloc(p) \/ Kernel(p) \/ Return(p)
  \/ Oops(p) \/ fdc_mmap_dmabuf_addr(p) \/ Munmap(p)
  \/ fdc_store_img_to_dmabuf(p) \/ Send(p) \/ Recv(p) \/ Dump(p) \/ Fork(p)
  \/ Wait(p) \/ Exit(p)

Init ==
  /\ IonInit
  /\ scenario \in Scenarios
  /\ pc = [p \in Proc |-> CASE p = Main -> 1
                             [] p = Solo -> IF scenario.solo = "none" THEN Ended ELSE 1
                             [] OTHER -> 0]
  /\ buf = [p \in Proc |-> None]
  /\ stored = {}
  /\ sent = FALSE

Next == \E p \in Proc : Run(p)

Spec == Init /\ [][Next]_vars

(* The programs are finite, so that it is enough that some process runs.   *)
FairSpec == Spec /\ WF_vars(Next)

-----------------------------------------------------------------------------
AllEnded == \A p \in Proc : pc[p] = Ended

AppsTypeOK ==
  /\ IonTypeOK
  /\ scenario \in Scenarios
  /\ pc \in [Proc -> 0 .. 20 \cup {Ended}]
  /\ buf \in [Proc -> Buf \cup {None, Lost}]
  /\ stored \subseteq Buf
  /\ sent \in BOOLEAN

(* What a consumer dumps is the image the producer stored, in pages that   *)
(* still belong to the buffer, even when the producer has unmapped, closed *)
(* and exited long before.                                                 *)
ConsumerSeesTheImage ==
  \A p \in Proc : At(p, "dump") /\ buf[p] \in maps[p] =>
    pages[buf[p]] # {} /\ buf[p] \in stored

(* The labels release what has been acquired and nothing else, whichever   *)
(* call fails: no program closes or unmaps what it does not have, and the  *)
(* programs with labels come to their exit with everything given back.     *)
UnwindingIsExact ==
  \A p \in Proc :
    /\ Call(p) \in Closing => Closes(p) \ {Lost} \subseteq held[p]
    /\ At(p, "munmap") => buf[p] \in maps[p]
    /\ At(p, "exit") /\ p # Consumer =>
         /\ maps[p] = {}
         /\ held[p] \cap {"ion", "file", "meta", buf[p]} = {}

(* When every process has ended, however it ended, every page is free      *)
(* again, except those of a buffer that never got a descriptor: what was   *)
(* in a message nobody received is released with the socket.               *)
NothingLeftBehind ==
  AllEnded => free = Page \ UNION {pages[b] : b \in orphans}

(* Once the producer has sent, every process of the pair ends.             *)
SentIsReceived == sent ~> pc[Main] = Ended
=============================================================================
