---------------------------- MODULE MCThreadPool ----------------------------
(* Two workers (the default thread_min_), two submitters and two tasks: one  *)
(* task can wait while the other is executed, there can be two sleepers at   *)
(* one signal, and a submission can race with Stop.  The theorems of         *)
(* ThreadPoolProofs cover every other number.                                *)
EXTENDS ThreadPool
=============================================================================
