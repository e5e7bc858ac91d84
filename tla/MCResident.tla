------------------------------ MODULE MCResident ------------------------------
(* Resident with two peers, inboxes of one and a mailbox for updates of two. *)
EXTENDS Resident
CONSTANTS p1, p2
MCPeers == {p1, p2}
=============================================================================
