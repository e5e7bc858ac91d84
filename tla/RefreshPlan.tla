----------------------------- MODULE RefreshPlan -----------------------------
(***************************************************************************)
(* What a watcher promises the owner of the cache, whatever list, deadline *)
(* or fallback it uses (the introduction of src/src/watcher.rs): a job     *)
(* that was reported stays owed until the watcher sends its new state, or  *)
(* until the event stream breaks, when the next connection reports every   *)
(* job again.  A job leaves `serving` only by being sent or by being owed  *)
(* again.                                                                  *)
(***************************************************************************)
CONSTANT Jobs

VARIABLES
  owed,     \* the jobs reported and not yet taken up
  serving,  \* the jobs being fetched
  sent      \* the jobs whose state the last step sent to the cache's owner

vars == <<owed, serving, sent>>

Init == owed = {} /\ serving = {} /\ sent = {}

\* Some jobs are reported (all of them, by a new connection).
Note ==
  /\ \E S \in SUBSET Jobs : owed' = owed \cup S
  /\ sent' = {}
  /\ UNCHANGED serving

\* Everything owed is taken up at once.
Take ==
  /\ serving = {}
  /\ serving' = owed
  /\ owed' = {}
  /\ sent' = {}

Publish ==
  /\ \E S \in SUBSET serving : serving' = serving \ S /\ sent' = S
  /\ UNCHANGED owed

\* What could not be fetched is owed again, perhaps with more.
Fail ==
  /\ \E S \in SUBSET Jobs : owed' = owed \cup serving \cup S
  /\ serving' = {}
  /\ sent' = {}

\* The stream broke.
Lose ==
  /\ owed' = {}
  /\ sent' = {}
  /\ UNCHANGED serving

Next == Note \/ Take \/ Publish \/ Fail \/ Lose

Spec == Init /\ [][Next]_vars
=============================================================================
