----------------------------- MODULE MCIonApps ------------------------------
(* Bounds for TLC: four processes, two requests that together want more    *)
(* pages than there are, and every call that may fail.                     *)
EXTENDS IonApps

AllThings == {"ion", "file", "sock0", "sock1", "meta"}

AllFaults == {"copy_from_user", "kmalloc", "dma_buf_export", "dma_buf_fd",
              "copy_to_user", "exec", "stat", "fopen", "open_ion",
              "open_file", "socketpair", "mmap", "store", "send", "recv"}

(* Each pair of programs, and a program that works alone next to two of    *)
(* them.                                                                   *)
Together == {[pair |-> "ion_test2", solo |-> "none"],
             [pair |-> "ion_test3", solo |-> "frame_demo1"],
             [pair |-> "frame_demo2", solo |-> "none"],
             [pair |-> "ipc_fd_transfer", solo |-> "ion_test1"]}
=============================================================================
