------------------------------- MODULE Channels -------------------------------
(***************************************************************************)
(* Channels without a bound, one per sender: what arrives is what was      *)
(* sent, in that order, each message once.  HostDaemon uses such channels  *)
(* (std's mpsc); the mailboxes of module Resident implement them.          *)
(***************************************************************************)
EXTENDS Sequences, Naturals

CONSTANT Senders

VARIABLES
  queue,    \* per sender, what was sent and has not arrived
  arrived   \* per sender, what has arrived

vars == <<queue, arrived>>

Init ==
  /\ queue = [s \in Senders |-> <<>>]
  /\ arrived = [s \in Senders |-> <<>>]

\* A sender sends one message.
Send ==
  /\ \E s \in Senders :
       /\ Len(queue'[s]) = Len(queue[s]) + 1
       /\ SubSeq(queue'[s], 1, Len(queue[s])) = queue[s]
       /\ \A other \in Senders \ {s} : queue'[other] = queue[other]
  /\ UNCHANGED arrived

\* The receiver takes some of what is there, the oldest of each sender first.
Receive ==
  \A s \in Senders : \E n \in 0..Len(queue[s]) :
    /\ queue'[s] = SubSeq(queue[s], n + 1, Len(queue[s]))
    /\ arrived'[s] = arrived[s] \o SubSeq(queue[s], 1, n)

Next == Send \/ Receive

Spec == Init /\ [][Next]_vars
=============================================================================
