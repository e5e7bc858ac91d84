------------------------------ MODULE MCWatcher ------------------------------
(* Watcher on small instances: three jobs, so that a list of two overflows. *)
EXTENDS Watcher
CONSTANTS j1, j2, j3
MCJobs == {j1, j2, j3}
=============================================================================
