-------------------------------- MODULE Ion ---------------------------------
(***************************************************************************)
(* The dma-buf exporter of drivers/ion/ion_thead.c, as the processes that  *)
(* use it see it: ION_IOC_ALLOC takes pages one at a time, undoes what it  *)
(* has when it runs out, exports a buffer and installs a descriptor for    *)
(* it; the buffer lives as long as a descriptor, a mapping or a message on *)
(* its way refers to it, and ion_release gives its pages back.             *)
(*                                                                         *)
(* The counting of the references is the kernel's; here a buffer is        *)
(* released by the step that drops the last one.  A process is what it     *)
(* holds: its descriptors, its mappings and its place inside the ioctl.    *)
(***************************************************************************)
EXTENDS Naturals, Sequences, FiniteSets

CONSTANTS
  Proc,     \* the processes
  Buf,      \* the dma_buf objects
  Page,     \* the pages alloc_page can hand out
  Thing,    \* what else a process may hold: files, sockets, memory
  Faults,   \* which calls may fail, by name
  None

ASSUME IonAssumption ==
  /\ None \notin Buf \cup Thing
  /\ Thing \cap Buf = {}

VARIABLES
  free,    \* the pages nobody has
  pages,   \* pages[b]: data->pages of the exported buffer b
  kpc,     \* kpc[p]: where p is in ion_ioctl, "user" outside it
  npages,  \* npages[p]: the size of the request p makes
  got,     \* got[p]: the pages p's ion_alloc has so far
  mine,    \* mine[p]: the buffer p's ion_alloc has exported
  held,    \* held[p]: what p has a descriptor of
  maps,    \* maps[p]: the buffers p has mapped
  queue,   \* the messages on their way, each the set of what it carries
  orphans  \* the buffers dma_buf_fd installed no descriptor for

ionVars ==
  <<free, pages, kpc, npages, got, mine, held, maps, queue, orphans>>

Phase == {"user", "pages", "export", "unwind", "fd", "copy", "done",
          "efault", "oops"}

IonTypeOK ==
  /\ free \subseteq Page
  /\ pages \in [Buf -> SUBSET Page]
  /\ kpc \in [Proc -> Phase]
  /\ npages \in [Proc -> Nat]
  /\ got \in [Proc -> SUBSET Page]
  /\ mine \in [Proc -> Buf \cup {None}]
  /\ held \in [Proc -> SUBSET (Buf \cup Thing)]
  /\ maps \in [Proc -> SUBSET Buf]
  /\ queue \in Seq(SUBSET (Buf \cup Thing))
  /\ orphans \subseteq Buf

IonInit ==
  /\ free = Page
  /\ pages = [b \in Buf |-> {}]
  /\ kpc = [p \in Proc |-> "user"]
  /\ npages = [p \in Proc |-> 0]
  /\ got = [p \in Proc |-> {}]
  /\ mine = [p \in Proc |-> None]
  /\ held = [p \in Proc |-> {}]
  /\ maps = [p \in Proc |-> {}]
  /\ queue = <<>>
  /\ orphans = {}

-----------------------------------------------------------------------------
(* References.                                                             *)

(* Mutant: what is in a message does not keep a buffer.                    *)
Slip_NotInMessages(b, h, m, q) == \E p \in Proc : b \in h[p] \/ b \in m[p]

(* Something refers to b, given the descriptors h, mappings m, messages q. *)
Referenced(b, h, m, q) ==
  \/ \E p \in Proc : b \in h[p] \/ b \in m[p]
  \/ \E i \in DOMAIN q : b \in q[i]

(* Mutant: the release forgets the pages.                                  *)
Slip_ForgetPages(h, m, q) ==
  LET dead == {b \in Buf : /\ Referenced(b, held, maps, queue)
                           /\ ~Referenced(b, h, m, q)}
  IN  /\ free' = free
      /\ pages' = [b \in Buf |-> IF b \in dead THEN {} ELSE pages[b]]

(* The descriptors, mappings and messages become h, m and q; the buffers   *)
(* that lose their last reference are released, all their pages with them. *)
ion_release(h, m, q) ==
  LET dead == {b \in Buf : /\ Referenced(b, held, maps, queue)
                           /\ ~Referenced(b, h, m, q)}
  IN  /\ free' = free \cup UNION {pages[b] : b \in dead}
      /\ pages' = [b \in Buf |-> IF b \in dead THEN {} ELSE pages[b]]

Refer(h, m, q) ==
  /\ held' = h
  /\ maps' = m
  /\ queue' = q
  /\ ion_release(h, m, q)
  /\ UNCHANGED <<kpc, npages, got, mine, orphans>>

May(fault) == fault \in Faults

-----------------------------------------------------------------------------
(* ION_IOC_ALLOC.                                                          *)

Enter(p, phase) == kpc' = [kpc EXCEPT ![p] = phase]

(* copy_from_user; a request of no pages and a failed kmalloc make an      *)
(* error pointer, as the unwinding does, and ion_ioctl, which looks for    *)
(* NULL, passes it on to dma_buf_fd: the kernel kills the process.         *)
ion_ioctl(p, len) ==
  /\ kpc[p] = "user"
  /\ npages' = [npages EXCEPT ![p] = len]
  /\ got' = [got EXCEPT ![p] = {}]
  /\ \/ len > 0 /\ Enter(p, "pages")
     \/ len = 0 /\ Enter(p, "oops")
     \/ May("kmalloc") /\ Enter(p, "oops")
     \/ May("copy_from_user") /\ Enter(p, "efault")
  /\ UNCHANGED <<free, pages, mine, held, maps, queue, orphans>>

(* One turn of the loop of alloc_page.                                     *)
AllocPage(p) ==
  /\ kpc[p] = "pages"
  /\ \/ /\ Cardinality(got[p]) < npages[p]
        /\ \E page \in free : /\ free' = free \ {page}
                              /\ got' = [got EXCEPT ![p] = @ \cup {page}]
        /\ UNCHANGED kpc
     \/ /\ Cardinality(got[p]) < npages[p]
        /\ free = {}
        /\ Enter(p, "unwind")
        /\ UNCHANGED <<free, got>>
     \/ /\ Cardinality(got[p]) = npages[p]
        /\ Enter(p, "export")
        /\ UNCHANGED <<free, got>>
  /\ UNCHANGED <<pages, npages, mine, held, maps, queue, orphans>>

(* dma_buf_export.                                                         *)
Export(p) ==
  /\ kpc[p] = "export"
  /\ \/ \E b \in Buf :
          /\ pages[b] = {}
          /\ pages' = [pages EXCEPT ![b] = got[p]]
          /\ mine' = [mine EXCEPT ![p] = b]
          /\ got' = [got EXCEPT ![p] = {}]
          /\ Enter(p, "fd")
     \/ /\ May("dma_buf_export")
        /\ Enter(p, "unwind")
        /\ UNCHANGED <<pages, mine, got>>
  /\ UNCHANGED <<free, npages, held, maps, queue, orphans>>

(* Mutant: --i instead of i--: the unwinding forgets one page.             *)
Slip_UnwindShort(p) ==
  /\ kpc[p] = "unwind"
  /\ \E left \in SUBSET got[p] : /\ Cardinality(left) <= 1
                                 /\ got[p] # {} => left # {}
                                 /\ free' = free \cup (got[p] \ left)
  /\ got' = [got EXCEPT ![p] = {}]
  /\ Enter(p, "oops")
  /\ UNCHANGED <<pages, npages, mine, held, maps, queue, orphans>>

(* The label err: the pages taken so far are put back.                     *)
Unwind(p) ==
  /\ kpc[p] = "unwind"
  /\ free' = free \cup got[p]
  /\ got' = [got EXCEPT ![p] = {}]
  /\ Enter(p, "oops")
  /\ UNCHANGED <<pages, npages, mine, held, maps, queue, orphans>>

(* dma_buf_fd, whose result nobody looks at: without a descriptor the      *)
(* buffer has no reference, and nothing will release it.                   *)
InstallFd(p) ==
  /\ kpc[p] = "fd"
  /\ \/ /\ held' = [held EXCEPT ![p] = @ \cup {mine[p]}]
        /\ UNCHANGED <<mine, orphans>>
     \/ /\ May("dma_buf_fd")
        /\ orphans' = orphans \cup {mine[p]}
        /\ mine' = [mine EXCEPT ![p] = None]
        /\ UNCHANGED held
  /\ Enter(p, "copy")
  /\ UNCHANGED <<free, pages, npages, got, maps, queue>>

CopyToUser(p) ==
  /\ kpc[p] = "copy"
  /\ \/ Enter(p, "done")
     \/ May("copy_to_user") /\ Enter(p, "efault")
  /\ UNCHANGED <<free, pages, npages, got, mine, held, maps, queue, orphans>>

InIoctl(p) ==
  AllocPage(p) \/ Export(p) \/ Unwind(p) \/ InstallFd(p) \/ CopyToUser(p)

-----------------------------------------------------------------------------
(* Every page is free, or in the hands of one ion_alloc, or of one buffer: *)
(* no page is freed twice or forgotten, whichever of the failures cuts an  *)
(* allocation short while another process is in the middle of its own.     *)
PageHasOneOwner ==
  /\ \A p \in Proc : /\ got[p] \cap free = {}
                     /\ \A q \in Proc \ {p} : got[p] \cap got[q] = {}
                     /\ \A b \in Buf : got[p] \cap pages[b] = {}
  /\ \A b \in Buf : /\ pages[b] \cap free = {}
                    /\ \A c \in Buf \ {b} : pages[b] \cap pages[c] = {}
  /\ Page = free \cup (UNION {got[p] : p \in Proc})
                 \cup (UNION {pages[b] : b \in Buf})
=============================================================================
