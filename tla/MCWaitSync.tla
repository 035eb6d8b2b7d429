----------------------------- MODULE MCWaitSync -----------------------------
(***************************************************************************)
(* Two resyncs with a tap each, which streams a record; one period that    *)
(* passes.  The tap, the control thread and the refresh thread race.       *)
(***************************************************************************)
EXTENDS WaitSync

CONSTANT t1
=============================================================================
