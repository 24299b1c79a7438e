----------------------------- MODULE MCOsKernel -----------------------------
(* Small instances of OsKernel for TLC.  The tasks are tcpip_thread (5),    *)
(* the server (6), spi_task (8) and idle (63): the first two share a group  *)
(* of the bitmaps.  5 reads its mailbox with a timeout; 6 and 8 wait for a  *)
(* semaphore, with and without one.                                         *)
EXTENDS OsKernel, TLC

Tasks == {5, 6, 8, 63}
List3 == <<8, 6, 5>>
PendsOf == 5 :> {"mbox"} @@ 6 :> {"sem"} @@ 8 :> {"sem"}
PostsOf == 5 :> {"sem"} @@ 6 :> {"mbox"} @@ 8 :> {"mbox"}
=============================================================================
