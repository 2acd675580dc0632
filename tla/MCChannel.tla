----------------------------- MODULE MCChannel -----------------------------
(* One channel shared by three threads, each of which may send, receive    *)
(* and close at any time: enough for two sleepers and the thread whose     *)
(* signal must not be lost.                                                *)
EXTENDS Channel
=============================================================================
