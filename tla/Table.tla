-------------------------------- MODULE Table --------------------------------
(***************************************************************************)
(* The sorted table of src/src/table.rs.  The cache is a table of clusters *)
(* whose values are tables of jobs (src/src/cache.rs), and the two halves  *)
(* of the CNAME table are tables of names (src/src/cnames.rs).             *)
(*                                                                         *)
(* Data.  A key is an integer: its place in the order of bytes, which is   *)
(* all that the code asks of it.  insert() reserves memory before it       *)
(* changes a row, so one that fails leaves the table as it was; it is a    *)
(* step without a change, and no operator of its own.                      *)
(***************************************************************************)
EXTENDS Integers, Sequences

Row(key, value) == [key |-> key, value |-> value]

\* The rows are in strict order of their keys (the invariant of table.rs).
Sorted(rows) ==
  \A i, j \in DOMAIN rows : i < j => rows[i].key < rows[j].key

Keys(rows) == {rows[i].key : i \in DOMAIN rows}

\* Whether place splits the rows into those below key and the others.
Splits(rows, key, place) ==
  /\ \A i \in 1..place : rows[i].key < key
  /\ \A i \in place + 1..Len(rows) : key <= rows[i].key

\* fn find: std's binary_search_by promises this of rows in order, and
\* nothing of others.
Find(rows, key) == CHOOSE place \in 0..Len(rows) : Splits(rows, key, place)

\* contains_key, get
Has(rows, key) == Find(rows, key) < Len(rows) /\ rows[Find(rows, key) + 1].key = key
Get(rows, key) == rows[Find(rows, key) + 1].value

\* Mutant: a new key goes to the end.
InsertLast(rows, key, value) ==
  IF Has(rows, key) THEN [rows EXCEPT ![Find(rows, key) + 1] = Row(key, value)]
  ELSE Append(rows, Row(key, value))

\* insert: a value takes the place of the one before, a new key its own.
Insert(rows, key, value) ==
  LET place == Find(rows, key)
  IN  IF Has(rows, key) THEN [rows EXCEPT ![place + 1] = Row(key, value)]
      ELSE SubSeq(rows, 1, place) \o <<Row(key, value)>> \o SubSeq(rows, place + 1, Len(rows))

\* remove
RemoveKey(rows, key) ==
  LET place == Find(rows, key)
  IN  IF Has(rows, key) THEN SubSeq(rows, 1, place) \o SubSeq(rows, place + 2, Len(rows))
      ELSE rows

\* What a table stands for: a function on its keys.
AsMap(rows) ==
  [key \in Keys(rows) |-> rows[CHOOSE i \in DOMAIN rows : rows[i].key = key].value]
=============================================================================
