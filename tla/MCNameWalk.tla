----------------------------- MODULE MCNameWalk -----------------------------
(* Every message of up to five bytes out of a root, labels of one and two,  *)
(* a character, and a pointer to one of the first positions; and of six     *)
(* without pointers, for plain names that are too long.                     *)
EXTENDS NameWalk
MCMessages == UNION {[1..n -> {0, 1, 2, 64, 192}] : n \in 1..5} \cup [1..6 -> {0, 1, 2, 64}]
=============================================================================
