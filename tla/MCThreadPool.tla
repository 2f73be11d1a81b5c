---------------------------- MODULE MCThreadPool ----------------------------
(* Instances of ThreadPool for TLC: one to three workers and tasks. *)
EXTENDS ThreadPool
=============================================================================
