----------------------------- MODULE ServerProofs -----------------------------
(***************************************************************************)
(* Theorems about the server, for every domain, CNAME table, set of        *)
(* clusters, jobs and lists, and every datagram.                           *)
(*                                                                         *)
(* A sorted table is reduced to the set of its rows: what insert and       *)
(* remove make of that set, and that a key has one row, is all that the    *)
(* rest needs.  The invariant is that the cache is such a table of tables  *)
(* and that an answer is what `handle` made of its datagram, so a property *)
(* of the answers is shown for any datagram and any table.                 *)
(***************************************************************************)
EXTENDS Server, SequenceTheorems, FiniteSetTheorems, WellFoundedInduction, TLAPS

-----------------------------------------------------------------------------
(* Tables: binary search.                                                  *)

\* A table whose keys are from K and whose values are from V.
RowsOf(K, V) == [key : K, value : V]
IsTable(rows, K, V) == rows \in Seq(RowsOf(K, V)) /\ Sorted(rows)

\* What that says, row by row.
LEMMA TableRows ==
  ASSUME NEW K \in SUBSET Int, NEW V, NEW rows, IsTable(rows, K, V)
  PROVE  /\ Len(rows) \in Nat /\ DOMAIN rows = 1..Len(rows)
         /\ \A i \in 1..Len(rows) : rows[i] \in RowsOf(K, V)
         /\ \A i \in 1..Len(rows) :
              /\ rows[i].key \in Int
              /\ rows[i] = Row(rows[i].key, rows[i].value)
         /\ \A i, j \in 1..Len(rows) : i < j => rows[i].key < rows[j].key
<1>1. rows \in Seq(RowsOf(K, V))
  BY DEF IsTable
<1>2. Len(rows) \in Nat /\ DOMAIN rows = 1..Len(rows)
  BY <1>1
<1>3. \A i \in 1..Len(rows) : rows[i] \in RowsOf(K, V)
  BY <1>1, ElementOfSeq
<1>4. ASSUME NEW r \in RowsOf(K, V)
      PROVE  r.key \in Int /\ r = Row(r.key, r.value)
  <2>1. r.key \in K
    BY DEF RowsOf
  <2>2. r = [key |-> r.key, value |-> r.value]
    BY DEF RowsOf
  <2> QED
    BY <2>1, <2>2 DEF Row
<1>5. \A i, j \in 1..Len(rows) : i < j => rows[i].key < rows[j].key
  BY <1>2 DEF IsTable, Sorted
<1> QED
  BY <1>2, <1>3, <1>4, <1>5

\* A set of natural numbers has a least one.
LEMMA Least ==
  ASSUME NEW S \in SUBSET Nat, S # {}
  PROVE  \E m \in S : \A k \in S : m <= k
<1>1. PICK m \in S : \A k \in S : ~(<<k, m>> \in OpToRel(<, Nat))
  BY WFMin, NatLessThanWellFounded
<1>2. \A k \in S : ~(k < m)
  BY <1>1 DEF OpToRel
<1> QED
  BY <1>2

\* Induction over an interval, said of a set.
LEMMA Induct ==
  ASSUME NEW n \in Nat, NEW S, 0 \in S, \A i \in 1..n : i - 1 \in S => i \in S
  PROVE  0..n \subseteq S
<1> DEFINE T == {i \in 0..n : i \notin S}
<1>1. SUFFICES ASSUME T # {} PROVE FALSE
  OBVIOUS
<1>2. T \subseteq Nat /\ T # {}
  BY <1>1
<1>3. PICK m \in T : \A k \in T : m <= k
  <2> HIDE DEF T
  <2> QED
    BY <1>2, Least
<1>4. m \in 1..n /\ m - 1 \notin T
  BY <1>3
<1> QED
  BY <1>4

\* The search ends at the place that splits the rows.
LEMMA FindSplits ==
  ASSUME NEW K \in SUBSET Int, NEW V, NEW rows, IsTable(rows, K, V), NEW key \in Int
  PROVE  Find(rows, key) \in 0..Len(rows) /\ Splits(rows, key, Find(rows, key))
<1>1. /\ Len(rows) \in Nat
      /\ \A i \in 1..Len(rows) : rows[i].key \in Int
      /\ \A i, j \in 1..Len(rows) : i < j => rows[i].key < rows[j].key
  BY TableRows
<1> DEFINE T == {n \in 0..Len(rows) : n = Len(rows) \/ key <= rows[n + 1].key}
<1>2. T \subseteq Nat /\ T # {}
  BY <1>1
<1>3. PICK m \in T : \A k \in T : m <= k
  <2> HIDE DEF T
  <2> QED
    BY <1>2, Least
<1>4. \A i \in 1..m : rows[i].key < key
  <2> TAKE i \in 1..m
  <2>0. m \in 0..Len(rows) /\ i \in 1..Len(rows)
    BY <1>1, <1>3
  <2>1. i - 1 \notin T /\ i - 1 \in 0..Len(rows) /\ i - 1 # Len(rows) /\ (i - 1) + 1 = i
    <3>1. ~(m <= i - 1)
      BY <2>0
    <3>2. i - 1 \notin T
      <4> HIDE DEF T
      <4> QED
        BY <1>3, <3>1
    <3> QED
      BY <1>1, <2>0, <3>2
  <2>2. ~(key <= rows[i].key)
    BY <2>1
  <2> QED
    BY <1>1, <1>3, <2>2
<1>5. \A i \in m + 1..Len(rows) : key <= rows[i].key
  <2> TAKE i \in m + 1..Len(rows)
  <2>1. m # Len(rows) /\ key <= rows[m + 1].key /\ m + 1 \in 1..Len(rows) /\ i \in 1..Len(rows)
    BY <1>1, <1>3
  <2>2. i = m + 1 \/ rows[m + 1].key < rows[i].key
    BY <1>1, <2>1
  <2> QED
    BY <1>1, <2>1, <2>2
<1>6. m \in 0..Len(rows) /\ Splits(rows, key, m)
  BY <1>3, <1>4, <1>5 DEF Splits
<1> QED
  BY <1>6 DEF Find

\* A key is found if and only if it has a row, and then that row is found.
LEMMA HasKey ==
  ASSUME NEW K \in SUBSET Int, NEW V, NEW rows, IsTable(rows, K, V), NEW key \in Int
  PROVE  /\ Has(rows, key) <=> key \in Keys(rows)
         /\ Has(rows, key) => Row(key, Get(rows, key)) \in ToSet(rows)
<1> DEFINE place == Find(rows, key)
<1>1. place \in 0..Len(rows) /\ Splits(rows, key, place)
  BY FindSplits
<1>2. /\ Len(rows) \in Nat /\ DOMAIN rows = 1..Len(rows)
      /\ \A i, j \in 1..Len(rows) : i < j => rows[i].key < rows[j].key
  BY TableRows
<1>3. \A i \in 1..Len(rows) : rows[i].key \in Int /\ rows[i] = Row(rows[i].key, rows[i].value)
  BY TableRows
<1> HIDE DEF place
<1>4. ASSUME place < Len(rows), rows[place + 1].key = key
      PROVE  /\ key \in Keys(rows)
             /\ Row(key, rows[place + 1].value) \in ToSet(rows)
  <2>1. place + 1 \in DOMAIN rows
    BY <1>1, <1>2, <1>4
  <2> QED
    BY <1>2, <1>3, <1>4, <2>1 DEF Keys, ToSet
<1>5. ASSUME key \in Keys(rows)
      PROVE  place < Len(rows) /\ rows[place + 1].key = key
  <2>1. PICK i \in 1..Len(rows) : rows[i].key = key
    BY <1>2, <1>5 DEF Keys
  <2>2. i > place
    BY <1>1, <1>3, <2>1 DEF Splits
  <2>3. place < Len(rows) /\ place + 1 \in 1..Len(rows) /\ place + 1 \in place + 1..Len(rows)
    BY <1>1, <1>2, <2>2
  <2>4. key <= rows[place + 1].key
    BY <1>1, <2>3 DEF Splits
  <2>5. i = place + 1 \/ rows[place + 1].key < rows[i].key
    <3>1. place + 1 < i \/ i = place + 1
      BY <1>1, <2>2
    <3> QED
      BY <1>2, <2>3, <3>1
  <2> QED
    BY <1>3, <2>1, <2>3, <2>4, <2>5
<1> QED
  BY <1>4, <1>5 DEF Has, Get, place

\* A key has one row.
LEMMA OneRow ==
  ASSUME NEW K \in SUBSET Int, NEW V, NEW rows, IsTable(rows, K, V),
         NEW r \in ToSet(rows), NEW s \in ToSet(rows), r.key = s.key
  PROVE  r = s
<1>1. PICK i \in DOMAIN rows : r = rows[i]
  BY DEF ToSet
<1>2. PICK j \in DOMAIN rows : s = rows[j]
  BY DEF ToSet
<1>3. /\ i \in Nat /\ j \in Nat /\ rows[i].key \in Int /\ rows[j].key \in Int
      /\ i < j => rows[i].key < rows[j].key
      /\ j < i => rows[j].key < rows[i].key
  BY TableRows
<1> QED
  BY <1>1, <1>2, <1>3

-----------------------------------------------------------------------------
(* Tables: insert and remove.                                              *)

\* A value takes the place of the one before.
LEMMA InsertOver ==
  ASSUME NEW K \in SUBSET Int, NEW V, NEW rows, IsTable(rows, K, V),
         NEW key \in K, NEW value \in V, Has(rows, key)
  PROVE  /\ IsTable(Insert(rows, key, value), K, V)
         /\ ToSet(Insert(rows, key, value))
              = {r \in ToSet(rows) : r.key # key} \cup {Row(key, value)}
<1> DEFINE at == Find(rows, key) + 1
           t  == Insert(rows, key, value)
<1>1. /\ Len(rows) \in Nat /\ DOMAIN rows = 1..Len(rows) /\ rows \in Seq(RowsOf(K, V))
      /\ \A i \in 1..Len(rows) : rows[i].key \in Int
      /\ \A i, j \in 1..Len(rows) : i < j => rows[i].key < rows[j].key
  BY TableRows DEF IsTable
<1>2. at \in 1..Len(rows) /\ rows[at].key = key
  <2>1. key \in Int
    OBVIOUS
  <2>2. Find(rows, key) \in 0..Len(rows)
    BY <2>1, FindSplits
  <2>3. Find(rows, key) < Len(rows) /\ rows[Find(rows, key) + 1].key = key
    BY Zenon DEF Has
  <2> QED
    BY <1>1, <2>2, <2>3
<1>3. t = [rows EXCEPT ![at] = Row(key, value)]
  BY DEF Insert
<1>4. Row(key, value) \in RowsOf(K, V) /\ Row(key, value).key = key
  BY DEF Row, RowsOf
<1> HIDE DEF at, t
<1>5. /\ t \in Seq(RowsOf(K, V)) /\ DOMAIN t = 1..Len(rows)
      /\ t[at] = Row(key, value)
      /\ \A i \in 1..Len(rows) \ {at} : t[i] = rows[i]
  BY <1>1, <1>2, <1>3, <1>4
<1>6. \A i \in 1..Len(rows) : t[i].key = rows[i].key
  BY <1>2, <1>4, <1>5
<1>7. Sorted(t)
  BY <1>1, <1>5, <1>6 DEF Sorted
<1>8. \A i \in 1..Len(rows) : rows[i].key # key <=> i # at
  <2> TAKE i \in 1..Len(rows)
  <2>1. i = at \/ i < at \/ at < i
    BY <1>1, <1>2
  <2> QED
    BY <1>1, <1>2, <2>1
<1>9. ToSet(t) = {r \in ToSet(rows) : r.key # key} \cup {Row(key, value)}
  <2>1. ASSUME NEW r \in ToSet(t)
        PROVE  r \in {x \in ToSet(rows) : x.key # key} \cup {Row(key, value)}
    <3>1. PICK i \in 1..Len(rows) : r = t[i]
      BY <1>5 DEF ToSet
    <3>2. CASE i = at
      BY <1>5, <3>1, <3>2
    <3>3. CASE i # at
      BY <1>1, <1>5, <1>8, <3>1, <3>3 DEF ToSet
    <3> QED
      BY <3>2, <3>3
  <2>2. ASSUME NEW r \in ToSet(rows), r.key # key
        PROVE  r \in ToSet(t)
    <3>1. PICK i \in 1..Len(rows) : r = rows[i]
      BY <1>1 DEF ToSet
    <3>2. t[i] = r
      BY <1>2, <1>5, <2>2, <3>1
    <3> QED
      BY <1>5, <3>2 DEF ToSet
  <2>3. Row(key, value) \in ToSet(t)
    BY <1>2, <1>5 DEF ToSet
  <2> QED
    BY <2>1, <2>2, <2>3
<1> QED
  BY <1>5, <1>7, <1>9 DEF IsTable, t

\* A new key gets its own place.
LEMMA InsertNew ==
  ASSUME NEW K \in SUBSET Int, NEW V, NEW rows, IsTable(rows, K, V),
         NEW key \in K, NEW value \in V, ~Has(rows, key)
  PROVE  /\ IsTable(Insert(rows, key, value), K, V)
         /\ ToSet(Insert(rows, key, value))
              = {r \in ToSet(rows) : r.key # key} \cup {Row(key, value)}
<1> DEFINE at == Find(rows, key)
           n  == Len(rows)
           t  == Insert(rows, key, value)
           x  == Row(key, value)
<1>1. /\ n \in Nat /\ DOMAIN rows = 1..n /\ rows \in Seq(RowsOf(K, V))
      /\ \A i \in 1..n : rows[i] \in RowsOf(K, V) /\ rows[i].key \in Int
      /\ \A i, j \in 1..n : i < j => rows[i].key < rows[j].key
  BY TableRows DEF IsTable
<1>2. at \in 0..n /\ Splits(rows, key, at)
  BY <1>1, FindSplits
<1>3. \A i \in 1..n : rows[i].key # key
  BY <1>1, HasKey DEF Keys
<1>4. /\ \A i \in 1..at : rows[i].key < key
      /\ \A i \in at + 1..n : key < rows[i].key
  BY <1>1, <1>2, <1>3 DEF Splits
<1>5. t = SubSeq(rows, 1, at) \o <<x>> \o SubSeq(rows, at + 1, n)
  BY DEF Insert
<1>6. x \in RowsOf(K, V) /\ x.key = key
  BY DEF Row, RowsOf
<1> HIDE DEF at, t, x, n
<1>7. /\ SubSeq(rows, 1, at) \in Seq(RowsOf(K, V)) /\ Len(SubSeq(rows, 1, at)) = at
      /\ \A i \in 1..at : SubSeq(rows, 1, at)[i] = rows[i]
  BY <1>1, <1>2 DEF n
<1>8. /\ SubSeq(rows, at + 1, n) \in Seq(RowsOf(K, V)) /\ Len(SubSeq(rows, at + 1, n)) = n - at
      /\ \A i \in 1..n - at : SubSeq(rows, at + 1, n)[i] = rows[at + i]
  <2>1. at + 1 \in 1..n + 1 /\ n <= n /\ n - (at + 1) + 1 = n - at
    BY <1>1, <1>2
  <2> DEFINE high == SubSeq(rows, at + 1, n)
  <2>2. \A i \in at + 1..n : rows[i] \in RowsOf(K, V)
    BY <1>1, <1>2
  <2>3. high = [i \in 1..n - at |-> rows[at + i]]
    BY <1>1, <1>2 DEF n
  <2>4. \A i \in 1..n - at : rows[at + i] \in RowsOf(K, V)
    BY <1>1, <1>2
  <2>5. n - at \in Nat
    BY <1>1, <1>2
  <2> DEFINE m == n - at
  <2>6. high = [i \in 1..m |-> rows[at + i]] /\ m \in Nat
        /\ \A i \in 1..m : rows[at + i] \in RowsOf(K, V)
    BY <2>3, <2>4, <2>5
  <2> HIDE DEF high, m
  <2>7. high \in Seq(RowsOf(K, V)) /\ Len(high) = m
    BY <2>6
  <2>8. \A i \in 1..m : high[i] = rows[at + i]
    BY <2>6
  <2> QED
    BY <2>7, <2>8 DEF high, m
<1> DEFINE low  == SubSeq(rows, 1, at)
           high == SubSeq(rows, at + 1, n)
<1>9. /\ low \in Seq(RowsOf(K, V)) /\ Len(low) = at /\ \A i \in 1..at : low[i] = rows[i]
      /\ high \in Seq(RowsOf(K, V)) /\ Len(high) = n - at
      /\ \A i \in 1..n - at : high[i] = rows[at + i]
      /\ t = low \o <<x>> \o high
  BY <1>5, <1>7, <1>8
<1> HIDE DEF low, high
<1>10. /\ low \o <<x>> \in Seq(RowsOf(K, V)) /\ Len(low \o <<x>>) = at + 1
       /\ \A i \in 1..at : (low \o <<x>>)[i] = low[i]
       /\ (low \o <<x>>)[at + 1] = x
  <2>1. low \o <<x>> = Append(low, x)
    BY <1>6, <1>9, AppendIsConcat
  <2>2. /\ Append(low, x) \in Seq(RowsOf(K, V)) /\ Len(Append(low, x)) = at + 1
        /\ \A i \in 1..at : Append(low, x)[i] = low[i]
        /\ Append(low, x)[at + 1] = x
    BY <1>1, <1>2, <1>6, <1>9
  <2> QED
    BY <2>1, <2>2
<1>11. /\ t \in Seq(RowsOf(K, V)) /\ Len(t) = n + 1
       /\ \A i \in 1..at : t[i] = rows[i]
       /\ t[at + 1] = x
       /\ \A i \in at + 2..n + 1 : t[i] = high[i - (at + 1)]
  BY <1>1, <1>2, <1>9, <1>10
<1>12. \A i \in at + 2..n + 1 : t[i] = rows[i - 1]
  <2> TAKE i \in at + 2..n + 1
  <2>1. i - (at + 1) \in 1..n - at /\ at + (i - (at + 1)) = i - 1
    BY <1>1, <1>2
  <2> QED
    BY <1>9, <1>11, <2>1
<1>13. DOMAIN t = 1..n + 1
  BY <1>11
<1>14. Sorted(t)
  <2>1. SUFFICES ASSUME NEW i \in 1..n + 1, NEW j \in 1..n + 1, i < j
                 PROVE  t[i].key < t[j].key
    BY <1>13 DEF Sorted
  <2>2. CASE j <= at
    <3>1. i \in 1..at /\ j \in 1..at /\ i \in 1..n /\ j \in 1..n
      BY <1>1, <1>2, <2>1, <2>2
    <3> QED
      BY <1>1, <1>11, <2>1, <3>1
  <2>3. CASE j = at + 1
    <3>1. i \in 1..at
      BY <1>2, <2>1, <2>3
    <3> QED
      BY <1>4, <1>6, <1>11, <2>3, <3>1
  <2>4. CASE j > at + 1
    <3>1. j \in at + 2..n + 1 /\ j - 1 \in at + 1..n /\ j - 1 \in 1..n
      BY <1>1, <1>2, <2>1, <2>4
    <3>2. t[j] = rows[j - 1] /\ key < rows[j - 1].key
      BY <1>4, <1>12, <3>1
    <3>3. CASE i <= at
      <4>1. i \in 1..at /\ i \in 1..n /\ i < j - 1
        BY <1>1, <1>2, <2>1, <2>4, <3>3
      <4> QED
        BY <1>1, <1>11, <3>1, <3>2, <4>1
    <3>4. CASE i = at + 1
      BY <1>6, <1>11, <3>2, <3>4
    <3>5. CASE i > at + 1
      <4>1. i \in at + 2..n + 1 /\ i - 1 \in 1..n /\ i - 1 < j - 1
        BY <1>1, <1>2, <2>1, <3>5
      <4> QED
        BY <1>1, <1>12, <3>1, <3>2, <4>1
    <3> QED
      BY <1>2, <2>1, <3>3, <3>4, <3>5
  <2> QED
    BY <1>2, <2>1, <2>2, <2>3, <2>4
<1>15. ToSet(t) = {r \in ToSet(rows) : r.key # key} \cup {x}
  <2>1. ASSUME NEW r \in ToSet(t)
        PROVE  r \in {y \in ToSet(rows) : y.key # key} \cup {x}
    <3>1. PICK i \in 1..n + 1 : r = t[i]
      BY <1>13 DEF ToSet
    <3>2. CASE i <= at
      <4>1. i \in 1..at /\ i \in 1..n
        BY <1>1, <1>2, <3>2
      <4> QED
        BY <1>1, <1>3, <1>11, <3>1, <4>1 DEF ToSet
    <3>3. CASE i = at + 1
      BY <1>11, <3>1, <3>3
    <3>4. CASE i > at + 1
      <4>1. i \in at + 2..n + 1 /\ i - 1 \in 1..n
        BY <1>1, <1>2, <3>4
      <4> QED
        BY <1>1, <1>3, <1>12, <3>1, <4>1 DEF ToSet
    <3> QED
      BY <1>2, <3>2, <3>3, <3>4
  <2>2. ASSUME NEW r \in ToSet(rows)
        PROVE  r \in ToSet(t)
    <3>1. PICK i \in 1..n : r = rows[i]
      BY <1>1 DEF ToSet
    <3>2. CASE i <= at
      <4>1. i \in 1..at /\ i \in 1..n + 1
        BY <1>1, <1>2, <3>2
      <4> QED
        BY <1>11, <1>13, <3>1, <4>1 DEF ToSet
    <3>3. CASE i > at
      <4>1. i + 1 \in at + 2..n + 1 /\ i + 1 \in 1..n + 1 /\ (i + 1) - 1 = i
        BY <1>1, <1>2, <3>3
      <4>2. t[i + 1] = rows[i]
        BY <1>12, <4>1
      <4> QED
        BY <1>13, <3>1, <4>1, <4>2 DEF ToSet
    <3> QED
      BY <1>2, <3>2, <3>3
  <2>3. x \in ToSet(t)
    <3>1. at + 1 \in 1..n + 1
      BY <1>1, <1>2
    <3> QED
      BY <1>11, <1>13, <3>1 DEF ToSet
  <2> QED
    BY <2>1, <2>2, <2>3
<1> QED
  BY <1>11, <1>14, <1>15 DEF IsTable, t, x

\* What insert makes of a table.
LEMMA InsertTable ==
  ASSUME NEW K \in SUBSET Int, NEW V, NEW rows, IsTable(rows, K, V),
         NEW key \in K, NEW value \in V
  PROVE  /\ IsTable(Insert(rows, key, value), K, V)
         /\ ToSet(Insert(rows, key, value))
              = {r \in ToSet(rows) : r.key # key} \cup {Row(key, value)}
<1>1. CASE Has(rows, key)
  BY <1>1, InsertOver
<1>2. CASE ~Has(rows, key)
  BY <1>2, InsertNew
<1> QED
  BY <1>1, <1>2

\* What remove makes of a table.
LEMMA RemoveTable ==
  ASSUME NEW K \in SUBSET Int, NEW V, NEW rows, IsTable(rows, K, V), NEW key \in K
  PROVE  /\ IsTable(RemoveKey(rows, key), K, V)
         /\ ToSet(RemoveKey(rows, key)) = {r \in ToSet(rows) : r.key # key}
<1> DEFINE at == Find(rows, key)
           n  == Len(rows)
           t  == RemoveKey(rows, key)
<1>0. key \in Int
  OBVIOUS
<1>1. /\ n \in Nat /\ DOMAIN rows = 1..n /\ rows \in Seq(RowsOf(K, V))
      /\ \A i \in 1..n : rows[i] \in RowsOf(K, V) /\ rows[i].key \in Int
      /\ \A i, j \in 1..n : i < j => rows[i].key < rows[j].key
  BY TableRows DEF IsTable
<1>2. CASE ~Has(rows, key)
  <2>1. t = rows
    BY <1>2 DEF RemoveKey
  <2>2. \A i \in 1..n : rows[i].key # key
    BY <1>0, <1>1, <1>2, HasKey DEF Keys
  <2>3. \A r \in ToSet(rows) : r.key # key
    BY <1>1, <2>2 DEF ToSet
  <2> QED
    BY <2>1, <2>3
<1>3. CASE Has(rows, key)
  <2>1. at \in 0..n
    BY <1>0, FindSplits
  <2>2. at < n /\ rows[at + 1].key = key
    BY Zenon, <1>3 DEF Has
  <2>3. t = SubSeq(rows, 1, at) \o SubSeq(rows, at + 2, n)
    BY <1>3 DEF RemoveKey
  <2> HIDE DEF at, n, t
  <2>4. at \in 0..n - 1 /\ n - at - 1 \in Nat /\ at \in Nat
    BY <1>1, <2>1, <2>2
  <2> DEFINE low  == SubSeq(rows, 1, at)
             m    == n - at - 1
             high == SubSeq(rows, at + 2, n)
  <2>5. low \in Seq(RowsOf(K, V)) /\ Len(low) = at /\ \A i \in 1..at : low[i] = rows[i]
    BY <1>1, <2>4 DEF n
  <2>6. high \in Seq(RowsOf(K, V)) /\ Len(high) = m /\ \A i \in 1..m : high[i] = rows[at + 1 + i]
    <3>1. high = [i \in 1..m |-> rows[at + 1 + i]]
      BY <1>1, <2>4 DEF n
    <3>2. \A i \in 1..m : rows[at + 1 + i] \in RowsOf(K, V)
      BY <1>1, <2>4
    <3>3. m \in Nat
      BY <2>4
    <3> HIDE DEF high, m
    <3>4. high \in Seq(RowsOf(K, V)) /\ Len(high) = m
      BY <3>1, <3>2, <3>3
    <3>5. \A i \in 1..m : high[i] = rows[at + 1 + i]
      BY <3>1
    <3> QED
      BY <3>4, <3>5
  <2>7. t = low \o high
    BY <2>3
  <2>8. m \in Nat /\ m = n - at - 1
    BY <2>4
  <2> HIDE DEF low, high, m
  <2>9. /\ t \in Seq(RowsOf(K, V)) /\ Len(t) = at + m
        /\ \A i \in 1..at : t[i] = rows[i]
        /\ \A i \in at + 1..at + m : t[i] = high[i - at]
    <3>0. /\ low \in Seq(RowsOf(K, V)) /\ Len(low) = at /\ at \in Nat
          /\ high \in Seq(RowsOf(K, V)) /\ Len(high) = m /\ m \in Nat
          /\ t = low \o high
      BY <2>4, <2>5, <2>6, <2>7, <2>8
    <3>1. t \in Seq(RowsOf(K, V))
      BY <3>0, ConcatProperties
    <3>4. Len(t) = at + m
      BY <3>0
    <3>2. \A i \in 1..at : t[i] = low[i]
      BY <3>0
    <3>3. \A i \in at + 1..at + m : t[i] = high[i - at]
      BY <3>0
    <3> QED
      BY <2>5, <3>1, <3>2, <3>3, <3>4
  <2>10. \A i \in at + 1..at + m : t[i] = rows[i + 1]
    <3> TAKE i \in at + 1..at + m
    <3>1. i - at \in 1..m /\ at + 1 + (i - at) = i + 1
      BY <2>4, <2>8
    <3> QED
      BY <2>6, <2>9, <3>1
  <2>11. DOMAIN t = 1..at + m
    BY <2>9
  <2> DEFINE from(i) == IF i <= at THEN i ELSE i + 1
  <2>12. \A i \in 1..at + m : from(i) \in 1..n \ {at + 1} /\ t[i] = rows[from(i)]
    <3> TAKE i \in 1..at + m
    <3>1. i \in 1..at \/ i \in at + 1..at + m
      BY <2>4, <2>8
    <3>2. CASE i \in 1..at
      BY <1>1, <2>4, <2>8, <2>9, <3>2
    <3>3. CASE i \in at + 1..at + m
      BY <1>1, <2>4, <2>8, <2>10, <3>3
    <3> QED
      BY <3>1, <3>2, <3>3
  <2>13. \A i, j \in 1..at + m : i < j => from(i) < from(j)
    BY <2>4, <2>8
  <2>14. \A k \in 1..n \ {at + 1} : \E i \in 1..at + m : from(i) = k
    <3> TAKE k \in 1..n \ {at + 1}
    <3>1. k <= at \/ k - 1 > at
      BY <1>1, <2>4
    <3>2. CASE k <= at
      <4>1. k \in 1..at + m /\ from(k) = k
        BY <1>1, <2>4, <2>8, <3>2
      <4> QED
        BY <4>1
    <3>3. CASE k - 1 > at
      <4>1. k - 1 \in 1..at + m /\ from(k - 1) = k
        BY <1>1, <2>4, <2>8, <3>3
      <4> QED
        BY <4>1
    <3> QED
      BY <3>1, <3>2, <3>3
  <2> HIDE DEF from
  <2>15. Sorted(t)
    BY <1>1, <2>11, <2>12, <2>13 DEF Sorted
  <2>16. \A k \in 1..n : rows[k].key # key <=> k # at + 1
    <3> TAKE k \in 1..n
    <3>1. at + 1 \in 1..n /\ (k = at + 1 \/ k < at + 1 \/ at + 1 < k)
      BY <1>1, <2>4
    <3> QED
      BY <1>1, <2>2, <3>1
  <2>17. ToSet(t) = {rows[k] : k \in 1..n \ {at + 1}}
    BY <2>11, <2>12, <2>14 DEF ToSet
  <2>18. {r \in ToSet(rows) : r.key # key} = {rows[k] : k \in 1..n \ {at + 1}}
    BY <1>1, <2>16 DEF ToSet
  <2> QED
    BY <2>9, <2>15, <2>17, <2>18 DEF IsTable, t
<1> QED
  BY <1>2, <1>3

\* The keys are those of the rows.
LEMMA KeysAre ==
  ASSUME NEW rows
  PROVE  Keys(rows) = {r.key : r \in ToSet(rows)}
  BY DEF Keys, ToSet

\* What is read of a key is the value of its row.
LEMMA GetIs ==
  ASSUME NEW K \in SUBSET Int, NEW V, NEW rows, IsTable(rows, K, V),
         NEW key, NEW value, Row(key, value) \in ToSet(rows)
  PROVE  /\ key \in K /\ value \in V /\ key \in Keys(rows)
         /\ Has(rows, key) /\ Get(rows, key) = value
         /\ AsMap(rows)[key] = value
<1>1. Row(key, value) \in RowsOf(K, V)
  BY TableRows DEF ToSet
<1>2. key \in K /\ value \in V
  BY <1>1 DEF RowsOf, Row
<1>3. Row(key, value).key = key /\ Row(key, value).value = value
  BY DEF Row
<1>4. key \in Keys(rows)
  BY <1>3, KeysAre
<1>5. key \in Int
  BY <1>2
<1>6. Has(rows, key) /\ Row(key, Get(rows, key)) \in ToSet(rows)
  BY <1>4, <1>5, HasKey
<1>7. Row(key, Get(rows, key)).key = key /\ Row(key, Get(rows, key)).value = Get(rows, key)
  BY DEF Row
<1>8. Row(key, Get(rows, key)) = Row(key, value)
  BY <1>3, <1>6, <1>7, OneRow
<1>9. Get(rows, key) = value
  BY <1>3, <1>7, <1>8
<1> DEFINE i == CHOOSE i \in DOMAIN rows : rows[i].key = key
<1>10. i \in DOMAIN rows /\ rows[i].key = key
  BY <1>4 DEF Keys
<1>11. AsMap(rows)[key] = rows[i].value
  BY <1>4 DEF AsMap
<1> HIDE DEF i
<1>12. rows[i] \in ToSet(rows) /\ rows[i].key = Row(key, value).key
  BY <1>3, <1>10 DEF ToSet
<1>13. rows[i] = Row(key, value)
  BY <1>12, OneRow
<1> QED
  BY <1>2, <1>3, <1>4, <1>6, <1>9, <1>11, <1>13

\* Every row is one of a key and a value.
LEMMA RowIs ==
  ASSUME NEW K \in SUBSET Int, NEW V, NEW rows, IsTable(rows, K, V), NEW r \in ToSet(rows)
  PROVE  r = Row(r.key, r.value) /\ r.key \in K /\ r.value \in V
<1>1. PICK i \in 1..Len(rows) : r = rows[i]
  BY TableRows DEF ToSet
<1>2. r \in RowsOf(K, V) /\ r = Row(r.key, r.value)
  BY <1>1, TableRows
<1> QED
  BY <1>2 DEF RowsOf

\* A table without a row.
LEMMA EmptyTable ==
  ASSUME NEW K, NEW V
  PROVE  IsTable(<<>>, K, V) /\ ToSet(<<>>) = {}
  BY DEF IsTable, Sorted, ToSet

-----------------------------------------------------------------------------
(* Names and their keys, and the map that a table of names stands for.     *)

\* Min is what it says.
LEMMA MinIs ==
  ASSUME NEW S \in SUBSET Nat, S # {}
  PROVE  Min(S) \in S /\ \A k \in S : Min(S) <= k
  BY Least DEF Min

\* A name of Order has a key of its own; the others have the key that no row
\* can have.
LEMMA KeyOf ==
  ASSUME NEW name
  PROVE  /\ name \in ToSet(Order) => Key(name) \in DOMAIN Order /\ Order[Key(name)] = name
         /\ name \notin ToSet(Order) => Key(name) = 0
         /\ Key(name) \in Nat
<1> DEFINE S == {i \in 1..Len(Order) : Order[i] = name}
<1>1. DOMAIN Order = 1..Len(Order) /\ Len(Order) \in Nat
  BY ServerAssumption
<1>2. S \subseteq Nat /\ (S # {} <=> name \in ToSet(Order))
  BY <1>1 DEF ToSet
<1>3. Key(name) = IF S # {} THEN Min(S) ELSE 0
  BY DEF Key, SelectInSeq
<1>4. S # {} => Min(S) \in S
  <2> HIDE DEF S
  <2> QED
    BY <1>2, MinIs
<1> QED
  BY <1>1, <1>2, <1>3, <1>4

\* No two names of Order have one key.
LEMMA KeyOfOrder ==
  ASSUME NEW n \in DOMAIN Order
  PROVE  Key(Order[n]) = n
<1>1. Order[n] \in ToSet(Order)
  BY DEF ToSet
<1>2. Key(Order[n]) \in DOMAIN Order /\ Order[Key(Order[n])] = Order[n]
  BY <1>1, KeyOf
<1> QED
  BY <1>2, ServerAssumption DEF IsInjective

\* The keys of the names in X, and the map that a table with such keys is.
KeysOf(X) == {Key(x) : x \in X}
TableMap(rows) == [x \in Known(rows) |-> AsMap(rows)[Key(x)]]

\* They are keys of Order, one for each name.
LEMMA KeysOfAreInt ==
  ASSUME NEW X \in SUBSET ToSet(Order)
  PROVE  /\ KeysOf(X) \in SUBSET Int /\ KeysOf(X) \subseteq DOMAIN Order
         /\ \A x \in X : Order[Key(x)] = x /\ Key(x) \in KeysOf(X)
         /\ \A k \in KeysOf(X) : Order[k] \in X /\ Key(Order[k]) = k
<1>1. \A x \in X : Key(x) \in Nat /\ Key(x) \in DOMAIN Order /\ Order[Key(x)] = x
  BY KeyOf
<1> QED
  BY <1>1, KeyOfOrder DEF KeysOf

\* The names known in a table are those of its rows.
LEMMA KnownIs ==
  ASSUME NEW X \in SUBSET ToSet(Order), NEW V, NEW rows, IsTable(rows, KeysOf(X), V)
  PROVE  /\ Known(rows) \subseteq X
         /\ \A x \in X : x \in Known(rows) <=> Has(rows, Key(x))
         /\ \A x \in Known(rows) :
              /\ Row(Key(x), Get(rows, Key(x))) \in ToSet(rows)
              /\ TableMap(rows)[x] = Get(rows, Key(x)) /\ Get(rows, Key(x)) \in V
<1>1. /\ KeysOf(X) \in SUBSET Int
      /\ \A x \in X : Order[Key(x)] = x /\ Key(x) \in KeysOf(X) /\ Key(x) \in Int
      /\ \A k \in KeysOf(X) : Order[k] \in X /\ Key(Order[k]) = k
  BY KeysOfAreInt
<1>2. Keys(rows) \subseteq KeysOf(X)
  <2>1. \A r \in ToSet(rows) : r.key \in KeysOf(X)
    BY <1>1, RowIs
  <2> QED
    BY <2>1, KeysAre
<1>3. Known(rows) \subseteq X
  BY <1>1, <1>2 DEF Known
<1>4. ASSUME NEW x \in X
      PROVE  x \in Known(rows) <=> Has(rows, Key(x))
  <2>1. x \in Known(rows) <=> Key(x) \in Keys(rows)
    BY <1>1, <1>2 DEF Known
  <2> QED
    BY <1>1, <2>1, HasKey
<1>5. ASSUME NEW x \in Known(rows)
      PROVE  /\ Row(Key(x), Get(rows, Key(x))) \in ToSet(rows)
             /\ TableMap(rows)[x] = Get(rows, Key(x)) /\ Get(rows, Key(x)) \in V
  <2>1. x \in X /\ Has(rows, Key(x)) /\ Key(x) \in Int
    BY <1>1, <1>3, <1>4
  <2>2. Row(Key(x), Get(rows, Key(x))) \in ToSet(rows)
    BY <1>1, <2>1, HasKey
  <2>3. AsMap(rows)[Key(x)] = Get(rows, Key(x)) /\ Get(rows, Key(x)) \in V
    BY <1>1, <2>2, GetIs
  <2> QED
    BY <2>2, <2>3 DEF TableMap
<1> QED
  BY <1>3, <1>4, <1>5

\* Whoever has the row of a name has its value.
LEMMA MapIs ==
  ASSUME NEW X \in SUBSET ToSet(Order), NEW V, NEW rows, IsTable(rows, KeysOf(X), V),
         NEW x \in X, NEW value
  PROVE  /\ x \in Known(rows) <=> \E v : Row(Key(x), v) \in ToSet(rows)
         /\ Row(Key(x), value) \in ToSet(rows) => x \in Known(rows) /\ TableMap(rows)[x] = value
<1>1. KeysOf(X) \in SUBSET Int
  BY KeysOfAreInt
<1>2. ASSUME NEW v, Row(Key(x), v) \in ToSet(rows)
      PROVE  x \in Known(rows) /\ TableMap(rows)[x] = v
  <2>1. Has(rows, Key(x)) /\ AsMap(rows)[Key(x)] = v
    BY <1>1, <1>2, GetIs
  <2>2. x \in Known(rows)
    BY <2>1, KnownIs
  <2> QED
    BY <2>1, <2>2 DEF TableMap
<1>3. ASSUME x \in Known(rows)
      PROVE  \E v : Row(Key(x), v) \in ToSet(rows)
  BY <1>3, KnownIs
<1> QED
  BY <1>2, <1>3

\* Insert sets the map at one name.
LEMMA MapInsert ==
  ASSUME NEW X \in SUBSET ToSet(Order), NEW V, NEW rows, IsTable(rows, KeysOf(X), V),
         NEW x \in X, NEW value \in V
  PROVE  /\ IsTable(Insert(rows, Key(x), value), KeysOf(X), V)
         /\ TableMap(Insert(rows, Key(x), value)) = Map!Put(TableMap(rows), x, value)
<1> DEFINE t == Insert(rows, Key(x), value)
           X1 == KeysOf(X)
<1>1. X1 \in SUBSET Int /\ \A y \in X : Order[Key(y)] = y /\ Key(y) \in X1
  BY KeysOfAreInt
<1>2. IsTable(t, X1, V) /\ ToSet(t) = {r \in ToSet(rows) : r.key # Key(x)} \cup {Row(Key(x), value)}
  BY <1>1, InsertTable
<1> HIDE DEF t
<1>3. \A y \in X : \A v : Row(Key(y), v) \in ToSet(t) <=>
        IF y = x THEN v = value ELSE Row(Key(y), v) \in ToSet(rows)
  <2> TAKE y \in X
  <2> TAKE v
  <2>1. Row(Key(y), v).key = Key(y) /\ Row(Key(y), v).value = v
    BY DEF Row
  <2>2. Row(Key(x), value).key = Key(x) /\ Row(Key(x), value).value = value
    BY DEF Row
  <2>3. y = x <=> Key(y) = Key(x)
    BY <1>1
  <2> QED
    BY <1>2, <2>1, <2>2, <2>3
<1>4. Known(t) = Known(rows) \cup {x}
  <2>1. Known(t) \subseteq X /\ Known(rows) \subseteq X
    BY <1>2, KnownIs
  <2>2. \A y \in X : y \in Known(t) <=> y = x \/ y \in Known(rows)
    <3> TAKE y \in X
    <3>1. y \in Known(t) <=> \E v : Row(Key(y), v) \in ToSet(t)
      BY <1>2, MapIs
    <3>2. y \in Known(rows) <=> \E v : Row(Key(y), v) \in ToSet(rows)
      BY MapIs
    <3> QED
      BY <1>3, <3>1, <3>2
  <2> QED
    BY <2>1, <2>2
<1>5. \A y \in Known(t) : TableMap(t)[y] = IF y = x THEN value ELSE TableMap(rows)[y]
  <2> TAKE y \in Known(t)
  <2>1. y \in X
    BY <1>2, KnownIs
  <2>2. CASE y = x
    <3>1. Row(Key(x), value) \in ToSet(t)
      BY <1>3
    <3> QED
      BY <1>2, <2>2, <3>1, MapIs
  <2>3. CASE y # x
    <3>1. y \in Known(rows)
      BY <1>4, <2>3
    <3>2. Row(Key(y), TableMap(rows)[y]) \in ToSet(rows)
      BY <3>1, KnownIs
    <3>3. Row(Key(y), TableMap(rows)[y]) \in ToSet(t)
      BY <1>3, <2>1, <2>3, <3>2
    <3> QED
      BY <1>2, <2>1, <2>3, <3>3, MapIs
  <2> QED
    BY <2>2, <2>3
<1>6. TableMap(t) = [y \in Known(t) |-> TableMap(t)[y]]
  BY DEF TableMap
<1>7. DOMAIN TableMap(rows) = Known(rows)
  BY DEF TableMap
<1>8. TableMap(t) = Map!Put(TableMap(rows), x, value)
  BY <1>4, <1>5, <1>6, <1>7 DEF Map!Put
<1> QED
  BY <1>2, <1>8 DEF t

\* A map without one of its names.
Without(f, x) == [y \in DOMAIN f \ {x} |-> f[y]]

\* Remove takes one name from the map.
LEMMA MapRemove ==
  ASSUME NEW X \in SUBSET ToSet(Order), NEW V, NEW rows, IsTable(rows, KeysOf(X), V), NEW x \in X
  PROVE  /\ IsTable(RemoveKey(rows, Key(x)), KeysOf(X), V)
         /\ TableMap(RemoveKey(rows, Key(x))) = Without(TableMap(rows), x)
<1> DEFINE t == RemoveKey(rows, Key(x))
           X1 == KeysOf(X)
<1>1. X1 \in SUBSET Int /\ \A y \in X : Order[Key(y)] = y /\ Key(y) \in X1
  BY KeysOfAreInt
<1>2. IsTable(t, X1, V) /\ ToSet(t) = {r \in ToSet(rows) : r.key # Key(x)}
  BY <1>1, RemoveTable
<1> HIDE DEF t
<1>3. \A y \in X : \A v : Row(Key(y), v) \in ToSet(t) <=> y # x /\ Row(Key(y), v) \in ToSet(rows)
  <2> TAKE y \in X
  <2> TAKE v
  <2>1. Row(Key(y), v).key = Key(y)
    BY DEF Row
  <2>2. y = x <=> Key(y) = Key(x)
    BY <1>1
  <2> QED
    BY <1>2, <2>1, <2>2
<1>4. Known(t) = Known(rows) \ {x}
  <2>1. Known(t) \subseteq X /\ Known(rows) \subseteq X
    BY <1>2, KnownIs
  <2>2. \A y \in X : y \in Known(t) <=> y # x /\ y \in Known(rows)
    <3> TAKE y \in X
    <3>1. y \in Known(t) <=> \E v : Row(Key(y), v) \in ToSet(t)
      BY <1>2, MapIs
    <3>2. y \in Known(rows) <=> \E v : Row(Key(y), v) \in ToSet(rows)
      BY MapIs
    <3> QED
      BY <1>3, <3>1, <3>2
  <2> QED
    BY <2>1, <2>2
<1>5. \A y \in Known(t) : TableMap(t)[y] = TableMap(rows)[y]
  <2> TAKE y \in Known(t)
  <2>1. y \in X /\ y # x /\ y \in Known(rows)
    BY <1>2, <1>4, KnownIs
  <2>2. Row(Key(y), TableMap(rows)[y]) \in ToSet(rows)
    BY <2>1, KnownIs
  <2>3. Row(Key(y), TableMap(rows)[y]) \in ToSet(t)
    BY <1>3, <2>1, <2>2
  <2> QED
    BY <1>2, <2>1, <2>3, MapIs
<1>6. TableMap(t) = [y \in Known(t) |-> TableMap(t)[y]]
  BY DEF TableMap
<1>7. DOMAIN TableMap(rows) = Known(rows)
  BY DEF TableMap
<1>8. TableMap(t) = Without(TableMap(rows), x)
  BY <1>4, <1>5, <1>6, <1>7 DEF Without
<1> QED
  BY <1>2, <1>8 DEF t

\* A table without a row is a map without a name.
LEMMA MapEmpty ==
  ASSUME NEW X, NEW V
  PROVE  IsTable(<<>>, KeysOf(X), V) /\ Known(<<>>) = {}
<1>1. ToSet(<<>>) = {}
  BY EmptyTable
<1>2. Keys(<<>>) = {}
  BY <1>1, KeysAre
<1> QED
  BY <1>2, EmptyTable DEF Known

-----------------------------------------------------------------------------
(* The invariant.                                                          *)

JobTables == {jobs \in Seq(RowsOf(KeysOf(JobNames), Lists)) : Sorted(jobs)}

\* The cache is a table of clusters whose values are tables of jobs.
CacheOK == IsTable(cache, KeysOf(Clusters), JobTables)

\* An answer is what its datagram is told of the cache as it still is.
AnswerOK ==
  answer = NoAnswer \/ \E d \in Datagrams :
    answer = [to |-> d, head |-> HeadOf(d), said |-> HandleOf(d)]

IInv == CacheOK /\ AnswerOK

\* What is known of the constants.
LEMMA Constants ==
  /\ Clusters \in SUBSET ToSet(Order) /\ JobNames \in SUBSET ToSet(Order)
  /\ KeysOf(Clusters) \in SUBSET Int /\ KeysOf(JobNames) \in SUBSET Int
  BY ServerAssumption, KeysOfAreInt

\* The rows of a refresh are tables over the keys of job names.
LEMMA JobTablesAre ==
  ASSUME NEW jobs
  PROVE  jobs \in JobTables <=> IsTable(jobs, KeysOf(JobNames), Lists)
  BY DEF JobTables, IsTable

\* h holds, per name of Order, the rows of a refresh up to there.
Builds(known, lists, n, h) ==
  h = [i \in 0..n |->
         IF i = 0 THEN <<>>
         ELSE IF Order[i] \in known THEN Insert(h[i - 1], Key(Order[i]), lists[Order[i]])
         ELSE h[i - 1]]

\* The recursion of Replace has a solution.
LEMMA BuildsExists ==
  ASSUME NEW known, NEW lists, NEW n \in Nat
  PROVE  \E h : Builds(known, lists, n, h)
<1> DEFINE S == {k \in 0..n : \E h : Builds(known, lists, k, h)}
<1>1. 0 \in S
  <2>1. Builds(known, lists, 0, [i \in 0..0 |-> <<>>])
    BY DEF Builds
  <2> QED
    BY <2>1
<1>2. ASSUME NEW k \in 1..n, k - 1 \in S
      PROVE  k \in S
  <2>1. PICK h : Builds(known, lists, k - 1, h)
    BY <1>2
  <2> DEFINE last == IF Order[k] \in known THEN Insert(h[k - 1], Key(Order[k]), lists[Order[k]])
                     ELSE h[k - 1]
             g    == [i \in 0..k |-> IF i = k THEN last ELSE h[i]]
  <2>2. \A i \in 0..k - 1 :
          h[i] = IF i = 0 THEN <<>>
                 ELSE IF Order[i] \in known THEN Insert(h[i - 1], Key(Order[i]), lists[Order[i]])
                 ELSE h[i - 1]
    BY <2>1 DEF Builds
  <2>3. \A i \in 0..k :
          g[i] = IF i = 0 THEN <<>>
                 ELSE IF Order[i] \in known THEN Insert(g[i - 1], Key(Order[i]), lists[Order[i]])
                 ELSE g[i - 1]
    BY <2>2
  <2>4. Builds(known, lists, k, g)
    BY <2>3 DEF Builds
  <2> QED
    BY <2>4
<1>3. 0..n \subseteq S
  <2> HIDE DEF S
  <2> QED
    BY <1>1, <1>2, Induct
<1> QED
  BY <1>3

\* The table built up to a name, from the one before it.
LEMMA BuildsStep ==
  \A known, lists, n, h :
    Builds(known, lists, n, h) =>
      \A i \in 0..n :
        h[i] = IF i = 0 THEN <<>>
               ELSE IF Order[i] \in known THEN Insert(h[i - 1], Key(Order[i]), lists[Order[i]])
               ELSE h[i - 1]
  BY DEF Builds

\* What a refresh builds is a table of jobs.
LEMMA BuiltTable ==
  ASSUME NEW known \in SUBSET JobNames, NEW lists \in [known -> Lists \ {<<>>}], NEW h,
         Builds(known, lists, Len(Order), h)
  PROVE  h[Len(Order)] \in JobTables
<1> DEFINE n == Len(Order)
           S == {i \in 0..n : IsTable(h[i], KeysOf(JobNames), Lists)}
<1>1. n \in Nat /\ DOMAIN Order = 1..n
  BY ServerAssumption
<1> HIDE DEF n
<1>2. \A i \in 0..n :
        h[i] = IF i = 0 THEN <<>>
               ELSE IF Order[i] \in known THEN Insert(h[i - 1], Key(Order[i]), lists[Order[i]])
               ELSE h[i - 1]
  BY BuildsStep DEF n
<1>3. 0 \in S
  BY <1>1, <1>2, EmptyTable
<1>4. ASSUME NEW i \in 1..n, i - 1 \in S
      PROVE  i \in S
  <2>1. i \in 0..n /\ i # 0 /\ IsTable(h[i - 1], KeysOf(JobNames), Lists)
    BY <1>1, <1>4
  <2>2. CASE Order[i] \in known
    <3>1. Order[i] \in JobNames /\ lists[Order[i]] \in Lists
      BY <2>2
    <3>2. Key(Order[i]) \in KeysOf(JobNames)
      BY <3>1 DEF KeysOf
    <3>3. IsTable(Insert(h[i - 1], Key(Order[i]), lists[Order[i]]), KeysOf(JobNames), Lists)
      BY <2>1, <3>1, <3>2, Constants, InsertTable
    <3> QED
      BY <1>2, <2>1, <2>2, <3>3
  <2>3. CASE Order[i] \notin known
    BY <1>2, <2>1, <2>3
  <2> QED
    BY <2>2, <2>3
<1>5. 0..n \subseteq S
  <2> HIDE DEF S
  <2> QED
    BY <1>1, <1>3, <1>4, Induct
<1> QED
  BY <1>1, <1>5, JobTablesAre DEF n

\* So a full refresh inserts a table of jobs.
LEMMA Replaced ==
  ASSUME NEW c \in Clusters, Replace(c)
  PROVE  \E jobs \in JobTables : cache' = Insert(cache, Key(c), jobs)
<1>1. PICK known \in SUBSET JobNames :
        \E lists \in [known -> Lists \ {<<>>}] :
          cache' = Insert(cache, Key(c), (CHOOSE h : Builds(known, lists, Len(Order), h))[Len(Order)])
  BY Zenon DEF Replace, Builds
<1>2. PICK lists \in [known -> Lists \ {<<>>}] :
        cache' = Insert(cache, Key(c), (CHOOSE h : Builds(known, lists, Len(Order), h))[Len(Order)])
  BY <1>1
<1> DEFINE h == CHOOSE h : Builds(known, lists, Len(Order), h)
<1>3. Len(Order) \in Nat
  BY ServerAssumption
<1>4. Builds(known, lists, Len(Order), h)
  BY <1>3, BuildsExists
<1>5. h[Len(Order)] \in JobTables
  <2> HIDE DEF h
  <2> QED
    BY <1>4, BuiltTable
<1> QED
  BY <1>2, <1>5

\* A cluster that is not known has no jobs.
LEMMA JobsOfIs ==
  ASSUME CacheOK, NEW c \in Clusters
  PROVE  /\ JobsOf(c) \in JobTables
         /\ Knows(c) <=> c \in Known(cache)
         /\ Knows(c) => TableMap(cache)[c] = JobsOf(c)
         /\ ~Knows(c) => JobsOf(c) = <<>>
<1>1. /\ c \in Known(cache) <=> Has(cache, Key(c))
      /\ c \in Known(cache) =>
           TableMap(cache)[c] = Get(cache, Key(c)) /\ Get(cache, Key(c)) \in JobTables
  BY Constants, KnownIs DEF CacheOK
<1>2. <<>> \in JobTables
  BY EmptyTable, JobTablesAre
<1> QED
  BY <1>1, <1>2 DEF Knows, JobsOf

\* A job refresh inserts a table of jobs too.
LEMMA Set ==
  ASSUME CacheOK, NEW c \in Clusters, NEW job \in JobNames, NEW list \in Lists,
         SetJob(c, job, list)
  PROVE  /\ Insert(JobsOf(c), Key(job), list) \in JobTables
         /\ cache' = Insert(cache, Key(c), Insert(JobsOf(c), Key(job), list))
<1>1. IsTable(JobsOf(c), KeysOf(JobNames), Lists)
  BY JobsOfIs, JobTablesAre
<1>2. Key(job) \in KeysOf(JobNames)
  BY DEF KeysOf
<1>3. IsTable(Insert(JobsOf(c), Key(job), list), KeysOf(JobNames), Lists)
  BY <1>1, <1>2, Constants, InsertTable
<1> QED
  BY <1>3, JobTablesAre DEF SetJob

\* The program starts in the invariant.
LEMMA InitIInv == Init => IInv
  BY EmptyTable DEF Init, IInv, CacheOK, AnswerOK

\* While the cache stays, a datagram is told the same.
LEMMA HandleStays ==
  ASSUME cache' = cache
  PROVE  \A d : HandleOf(d)' = HandleOf(d)
<1>1. \A job, room : WriteMerged(job, room)' = WriteMerged(job, room)
  BY DEF WriteMerged, ListsOf
<1>2. \A name : OfCluster(name)' = OfCluster(name)
  BY DEF OfCluster, JobsOf, Knows
<1>3. \A name : Exists(name)' = Exists(name)
  BY <1>2 DEF Exists, HasJob, Knows
<1>4. \A name, room : Records(name, room)' = Records(name, room)
  BY <1>1, <1>2 DEF Records, OfCluster, JobsOf, Knows
<1>5. \A name, type, room : Service(name, type, room)' = Service(name, type, room)
  BY <1>3, <1>4 DEF Service, Negative
<1>6. \A name, type, class, room :
        Answer(name, type, class, room)' = Answer(name, type, class, room)
  BY <1>5 DEF Answer, Negative, Alias
<1> QED
  BY <1>6 DEF HandleOf

\* Every step keeps it.
LEMMA NextIInv == IInv /\ [Next]_vars => IInv'
<1> SUFFICES ASSUME IInv, [Next]_vars PROVE IInv'
  OBVIOUS
<1>0. CacheOK /\ AnswerOK
  BY DEF IInv
<1>1. ASSUME NEW c \in Clusters, NEW jobs \in JobTables, cache' = Insert(cache, Key(c), jobs)
      PROVE  CacheOK'
  <2>1. Key(c) \in KeysOf(Clusters)
    BY DEF KeysOf
  <2>2. IsTable(Insert(cache, Key(c), jobs), KeysOf(Clusters), JobTables)
    BY <1>0, <2>1, Constants, InsertTable DEF CacheOK
  <2> QED
    BY <1>1, <2>2 DEF CacheOK
<1>2. ASSUME NEW c \in Clusters, Replace(c)
      PROVE  IInv'
  <2>1. answer' = NoAnswer
    BY <1>2 DEF Replace
  <2> QED
    BY <1>1, <1>2, <2>1, Replaced DEF IInv, AnswerOK
<1>3. ASSUME NEW c \in Clusters, NEW job \in JobNames, NEW list \in Lists, SetJob(c, job, list)
      PROVE  IInv'
  <2>1. answer' = NoAnswer
    BY <1>3 DEF SetJob
  <2> QED
    BY <1>0, <1>1, <1>3, <2>1, Set DEF IInv, AnswerOK
<1>4. ASSUME NEW c \in Clusters, Clear(c)
      PROVE  IInv'
  <2>1. answer' = NoAnswer /\ cache' = RemoveKey(cache, Key(c))
    BY <1>4 DEF Clear
  <2>2. IsTable(RemoveKey(cache, Key(c)), KeysOf(Clusters), JobTables)
    BY <1>0, Constants, MapRemove DEF CacheOK
  <2> QED
    BY <2>1, <2>2 DEF IInv, AnswerOK, CacheOK
<1>5. ASSUME NEW d \in Datagrams, Handle(d)
      PROVE  IInv'
  <2>1. cache' = cache /\ answer' = [to |-> d, head |-> HeadOf(d), said |-> HandleOf(d)]
    BY <1>5 DEF Handle
  <2>2. HandleOf(d)' = HandleOf(d)
    BY <2>1, HandleStays
  <2> QED
    BY <1>0, <2>1, <2>2 DEF IInv, AnswerOK, CacheOK
<1>6. CASE SendTo
  BY <1>0, <1>6 DEF SendTo, IInv, AnswerOK, CacheOK
<1>7. CASE UNCHANGED vars
  <2>1. cache' = cache /\ answer' = answer
    BY <1>7 DEF vars
  <2>2. \A d \in Datagrams : HandleOf(d)' = HandleOf(d)
    BY <2>1, HandleStays
  <2> QED
    BY <1>0, <2>1, <2>2 DEF IInv, AnswerOK, CacheOK
<1> QED
  BY <1>2, <1>3, <1>4, <1>5, <1>6, <1>7 DEF Next

\* The invariant holds always.
LEMMA Always == Spec => []IInv
BY InitIInv, NextIInv, PTL DEF Spec

-----------------------------------------------------------------------------
(* Answers.                                                                *)

\* find_opt finds what the asker offers: the first record that is not of the
\* kinds to be passed over is the OPT, or there is none to be taken.
LEMMA FindOptIs ==
  ASSUME NEW d \in Datagrams
  PROVE  /\ Offers(d) = IF FindOpt(d) = NoEdns THEN {} ELSE {FindOpt(d)}
         /\ FindOpt(d) # NoEdns => FindOpt(d) \in Nat
<1> DEFINE n    == Len(d.records)
           m    == Min({d.count, n})
           seen == SubSeq(d.records, 1, m)
           I    == {i \in 1..Len(seen) : seen[i].what # "other"}
           stop == IF I # {} THEN Min(I) ELSE 0
           Record == [what : {"broken", "other"}] \cup [what : {"opt"}, size : Nat]
           Is(x, i) == /\ i \in 1..n /\ i <= d.count /\ d.records[i].what = "opt"
                       /\ \A j \in 1..i - 1 : d.records[j].what = "other"
                       /\ x = d.records[i].size
<1>1. d.count \in Nat /\ d.records \in Seq(Record)
  BY DatagramsAssumption
<1>2. n \in Nat /\ DOMAIN d.records = 1..n
      /\ \A i \in 1..n : /\ d.records[i].what \in {"broken", "other", "opt"}
                         /\ d.records[i].what = "opt" => d.records[i].size \in Nat
  BY <1>1
<1>3. m \in 0..n /\ m <= d.count /\ (m = d.count \/ m = n)
  <2>1. {d.count, n} \in SUBSET Nat /\ {d.count, n} # {}
    BY <1>1, <1>2
  <2>2. m \in {d.count, n} /\ m <= d.count /\ m <= n
    BY <2>1, MinIs
  <2> QED
    BY <1>1, <1>2, <2>2
<1>4. FindOpt(d) = IF stop # 0 /\ seen[stop].what = "opt" THEN seen[stop].size ELSE NoEdns
  BY DEF FindOpt, SelectInSeq
<1>5. Len(seen) = m /\ \A i \in 1..m : seen[i] = d.records[i]
  <2> HIDE DEF m
  <2> QED
    BY <1>1, <1>2, <1>3
<1> HIDE DEF m, seen
<1>6. /\ stop \in 0..m
      /\ stop # 0 => d.records[stop].what # "other" /\ \A j \in 1..stop - 1 : d.records[j].what = "other"
      /\ stop = 0 => \A j \in 1..m : d.records[j].what = "other"
  <2>1. I \in SUBSET Nat /\ I \subseteq 1..m
    BY <1>3, <1>5
  <2>2. I # {} => Min(I) \in I /\ \A k \in I : Min(I) <= k
    <3> HIDE DEF I
    <3> QED
      BY <2>1, MinIs
  <2>3. CASE I = {}
    <3>1. stop = 0
      BY <2>3
    <3>2. \A j \in 1..m : d.records[j].what = "other"
      BY <1>5, <2>3
    <3> QED
      BY <1>3, <3>1, <3>2
  <2>4. CASE I # {}
    <3>1. stop = Min(I) /\ stop \in 1..m /\ stop \in I /\ \A k \in I : stop <= k
      BY <2>1, <2>2, <2>4
    <3> HIDE DEF stop
    <3>2. \A j \in 1..stop - 1 : j \in 1..m /\ j \notin I
      BY <1>3, <3>1
    <3> QED
      BY <1>3, <1>5, <3>1, <3>2
  <2> QED
    BY <2>3, <2>4
<1> HIDE DEF stop, I
<1>7. FindOpt(d) = IF stop # 0 /\ d.records[stop].what = "opt" THEN d.records[stop].size ELSE NoEdns
  <2>1. stop # 0 => stop \in 1..m
    BY <1>3, <1>6
  <2>2. stop # 0 => seen[stop] = d.records[stop]
    BY <1>5, <2>1
  <2> QED
    BY <1>4, <2>2
<1>8. Offers(d) = {x \in {d.records[i].size : i \in 1..n} : \E i \in 1..n : Is(x, i)}
  BY <1>2 DEF Offers
<1>9. ASSUME stop # 0, d.records[stop].what = "opt"
      PROVE  Is(d.records[stop].size, stop)
  BY <1>1, <1>2, <1>3, <1>6, <1>9
<1>10. ASSUME NEW x, NEW i, Is(x, i)
       PROVE  i = stop
  <2>1. i \in 1..m
    BY <1>1, <1>2, <1>3, <1>10
  <2>2. stop # 0 /\ stop \in 1..m
    BY <1>3, <1>6, <1>10, <2>1
  <2>3. i <= stop
    <3>1. ~(stop \in 1..i - 1)
      BY <1>6, <1>10, <2>2
    <3> QED
      BY <1>3, <2>1, <2>2, <3>1
  <2>4. stop <= i
    <3>1. ~(i \in 1..stop - 1)
      BY <1>6, <1>10, <2>2
    <3> QED
      BY <1>3, <2>1, <2>2, <3>1
  <2> QED
    BY <1>3, <2>1, <2>2, <2>3, <2>4
<1>11. CASE stop # 0 /\ d.records[stop].what = "opt"
  <2>1. stop \in 1..n /\ FindOpt(d) = d.records[stop].size /\ FindOpt(d) \in Nat
    BY <1>2, <1>3, <1>6, <1>7, <1>11
  <2>2. FindOpt(d) # NoEdns
    BY <2>1 DEF NoEdns
  <2>3. Offers(d) = {FindOpt(d)}
    <3>1. \A x : (\E i \in 1..n : Is(x, i)) => x = FindOpt(d)
      BY <1>10, <2>1
    <3>2. \E i \in 1..n : Is(FindOpt(d), i)
      BY <1>9, <1>11, <2>1
    <3>3. FindOpt(d) \in {d.records[i].size : i \in 1..n}
      BY <2>1
    <3> HIDE DEF Is
    <3> QED
      BY <1>8, <3>1, <3>2, <3>3
  <2> QED
    BY <1>1, <1>2, <1>11, <2>1, <2>2, <2>3
<1>12. CASE ~(stop # 0 /\ d.records[stop].what = "opt")
  <2>1. FindOpt(d) = NoEdns
    BY <1>7, <1>12
  <2>2. \A x, i : ~Is(x, i)
    <3>1. SUFFICES ASSUME NEW x, NEW i, Is(x, i) PROVE FALSE
      OBVIOUS
    <3>2. i = stop
      BY <1>10, <3>1
    <3> QED
      BY <1>12, <3>1, <3>2
  <2>3. Offers(d) = {}
    <3> HIDE DEF Is
    <3> QED
      BY <1>8, <2>2
  <2> QED
    BY <2>1, <2>3
<1> QED
  BY <1>11, <1>12

\* Max is what it says.
LEMMA MaxIs ==
  ASSUME NEW S \in SUBSET Int, NEW m \in S, \A k \in S : k <= m
  PROVE  Max(S) = m
<1>1. \A y \in S : m >= y
  OBVIOUS
<1>2. Max(S) \in S /\ \A y \in S : Max(S) >= y
  BY <1>1, Zenon DEF Max
<1>3. Max(S) >= m /\ Max(S) <= m /\ Max(S) \in Int /\ m \in Int
  BY <1>2
<1> QED
  BY <1>3

\* The limit is the size that was offered, between the two that DNS knows.
LEMMA ClampedIs ==
  ASSUME NEW e \in Nat
  PROVE  Max({UdpMax, Min({e, EdnsMax})}) = Clamped(e)
<1> DEFINE s == Min({e, EdnsMax})
<1>1. s \in {e, EdnsMax} /\ s <= e /\ s <= EdnsMax
  <2>1. \E m \in {e, EdnsMax} : \A k \in {e, EdnsMax} : m <= k
    BY DEF EdnsMax
  <2> QED
    BY <2>1 DEF Min
<1> HIDE DEF s
<1>2. s \in Int /\ UdpMax \in Int /\ (s <= UdpMax <=> e <= UdpMax) /\ s = AtMost(e, EdnsMax)
  BY <1>1 DEF EdnsMax, UdpMax, AtMost
<1>3. CASE s <= UdpMax
  <2>1. Max({UdpMax, s}) = UdpMax
    BY <1>2, <1>3, MaxIs
  <2>2. Clamped(e) = UdpMax
    BY <1>2, <1>3 DEF Clamped, AtMost, NoEdns, UdpMax, EdnsMax
  <2> QED
    BY <2>1, <2>2 DEF s
<1>4. CASE ~(s <= UdpMax)
  <2>1. Max({UdpMax, s}) = s
    BY <1>2, <1>4, MaxIs
  <2>2. Clamped(e) = s
    BY <1>2, <1>4 DEF Clamped, NoEdns, UdpMax
  <2> QED
    BY <2>1, <2>2 DEF s
<1> QED
  BY <1>3, <1>4

\* The rooms there are: the longest question leaves 230 bytes of the smallest
\* limit, the shortest at most 1215 of the largest.
Spaces == 230..1215

\* The room for the answer to a question is one of them.
LEMMA RoomIs ==
  ASSUME NEW name \in Names, NEW offer \in Nat \cup {NoEdns}
  PROVE  Room(NameLen[name], offer) \in Spaces
<1>1. NameLen[name] \in 1..255
  BY LengthsAssumption DEF ReplyNameMax
<1>2. Clamped(offer) \in 512..1232
  BY DEF Clamped, AtMost, UdpMax, EdnsMax, NoEdns
<1> DEFINE c == Clamped(offer)
           n == NameLen[name]
           r == IF offer = NoEdns THEN 0 ELSE OptLen
<1>3. Room(n, offer) = c - HeaderLen - (n + 4) - r
  BY DEF Room
<1>4. r \in 0..11
  BY DEF OptLen
<1>5. n \in 1..255 /\ c \in 512..1232
  BY <1>1, <1>2
<1> HIDE DEF c, n, r
<1>6. Room(n, offer) \in Spaces
  BY <1>3, <1>4, <1>5 DEF Spaces, HeaderLen
<1> QED
  BY <1>6 DEF n

\* What is read of a question.
LEMMA Read ==
  ASSUME NEW d \in Hosts
  PROVE  /\ d \in Datagrams /\ d.labels \in Seq(STRING)
         /\ d.type \in Types /\ d.class \in {"IN", "ANY", "CH"}
         /\ Room(NameLen[d.labels], FindOpt(d)) \in Spaces
         /\ HandleOf(d) = Answer(d.labels, d.type, d.class, Room(NameLen[d.labels], FindOpt(d)))
<1> DEFINE q == ParseQuery(d)
<1>1. d \in Datagrams /\ q.what = "query" /\ d.name = "host"
  BY DEF Hosts
<1>2. q = [what |-> "query", name |-> d.name, labels |-> d.labels,
           type |-> d.type, class |-> d.class, edns |-> FindOpt(d)]
  BY <1>1 DEF ParseQuery, Drop, Bare
<1>3. HandleOf(d) = Answer(d.labels, d.type, d.class, Room(NameLen[d.labels], FindOpt(d)))
  <2> HIDE DEF q
  <2> QED
    BY <1>1, <1>2 DEF HandleOf, q
<1>4. d.labels \in Names
  BY DEF Names
<1>5. FindOpt(d) \in Nat \cup {NoEdns}
  BY <1>1, FindOptIs
<1>6. Room(NameLen[d.labels], FindOpt(d)) \in Spaces
  BY <1>4, <1>5, RoomIs
<1> QED
  BY <1>1, <1>3, <1>6, DatagramsAssumption DEF Types

\* A datagram with the QR bit gets no answer.
LEMMA Unanswered ==
  ASSUME NEW d, "QR" \in d.flags
  PROVE  HandleOf(d).rcode = "none"
<1>1. ParseQuery(d) = Drop
  BY DEF ParseQuery
<1>2. HandleOf(d) = Only("none")
  BY <1>1 DEF HandleOf, Drop
<1> QED
  BY <1>2 DEF Only, Say

\* The header that is written for an answer, an error included, has the QR
\* bit, and the reader looks at that bit before anything it would answer: no
\* answer of a server is answered by a server.
THEOREM EchoTheorem == Spec => []NoEcho
<1>1. IInv => NoEcho
  <2> SUFFICES ASSUME IInv, answer.said.rcode # "none" PROVE HandleOf(Sent).rcode = "none"
    BY DEF NoEcho
  <2>1. answer # NoAnswer
    BY DEF NoAnswer, Only, Say
  <2>2. PICK d \in Datagrams : answer = [to |-> d, head |-> HeadOf(d), said |-> HandleOf(d)]
    BY <2>1 DEF IInv, AnswerOK
  <2>3. "QR" \in answer.head.flags
    BY <2>2 DEF HeadOf
  <2>4. Sent.flags = answer.head.flags
    BY <2>2, DatagramsAssumption DEF Sent
  <2> QED
    BY <2>3, <2>4, Unanswered
<1> QED
  BY <1>1, Always, PTL

-----------------------------------------------------------------------------
(* Merged answers.                                                         *)

\* f holds, per place of seqs, what is flattened up to there.
Flattens(seqs, n, f) ==
  f = [i \in 1..n |-> IF i = 1 THEN seqs[i] ELSE f[i - 1] \o seqs[i]]

\* The recursion of FlattenSeq has a solution.
LEMMA FlattensExists ==
  ASSUME NEW seqs, NEW n \in Nat
  PROVE  \E f : Flattens(seqs, n, f)
<1> DEFINE S == {k \in 0..n : \E f : Flattens(seqs, k, f)}
<1>1. 0 \in S
  <2>1. Flattens(seqs, 0, [i \in 1..0 |-> <<>>])
    BY DEF Flattens
  <2> QED
    BY <2>1
<1>2. ASSUME NEW k \in 1..n, k - 1 \in S
      PROVE  k \in S
  <2>1. PICK f : Flattens(seqs, k - 1, f)
    BY <1>2
  <2> DEFINE last == IF k = 1 THEN seqs[k] ELSE f[k - 1] \o seqs[k]
             g    == [i \in 1..k |-> IF i = k THEN last ELSE f[i]]
  <2>2. \A i \in 1..k - 1 : f[i] = IF i = 1 THEN seqs[i] ELSE f[i - 1] \o seqs[i]
    BY <2>1 DEF Flattens
  <2>3. \A i \in 1..k : g[i] = IF i = 1 THEN seqs[i] ELSE g[i - 1] \o seqs[i]
    <3> TAKE i \in 1..k
    <3>1. CASE i = k
      <4>1. k # 1 => g[k - 1] = f[k - 1]
        OBVIOUS
      <4>2. g[k] = last
        OBVIOUS
      <4> HIDE DEF g
      <4> QED
        BY <3>1, <4>1, <4>2
    <3>2. CASE i # k
      <4>1. i \in 1..k - 1 /\ g[i] = f[i] /\ (i # 1 => g[i - 1] = f[i - 1])
        BY <3>2
      <4> HIDE DEF g
      <4> QED
        BY <2>2, <4>1
    <3> QED
      BY <3>1, <3>2
  <2>4. Flattens(seqs, k, g)
    <3>1. g = [i \in 1..k |-> g[i]]
      OBVIOUS
    <3> HIDE DEF g
    <3> QED
      BY <2>3, <3>1 DEF Flattens
  <2> QED
    BY <2>4
<1>3. 0..n \subseteq S
  <2> HIDE DEF S
  <2> QED
    BY <1>1, <1>2, Induct
<1> QED
  BY <1>3

\* What a solution says of each place.
LEMMA FlattensStep ==
  \A seqs, n, f :
    Flattens(seqs, n, f) =>
      \A i \in 1..n : f[i] = IF i = 1 THEN seqs[i] ELSE f[i - 1] \o seqs[i]
  BY DEF Flattens

\* The elements of a concatenation.
LEMMA ConcatSet ==
  ASSUME NEW S, NEW a \in Seq(S), NEW b \in Seq(S)
  PROVE  a \o b \in Seq(S) /\ ToSet(a \o b) = ToSet(a) \cup ToSet(b)
<1>1. /\ a \o b \in Seq(S) /\ Len(a) \in Nat /\ Len(b) \in Nat
      /\ DOMAIN a = 1..Len(a) /\ DOMAIN b = 1..Len(b)
      /\ DOMAIN (a \o b) = 1..Len(a) + Len(b)
      /\ \A i \in 1..Len(a) : (a \o b)[i] = a[i]
      /\ \A i \in Len(a) + 1..Len(a) + Len(b) : (a \o b)[i] = b[i - Len(a)]
  OBVIOUS
<1> DEFINE c == a \o b
<1>2. /\ DOMAIN c = 1..Len(a) + Len(b)
      /\ \A i \in 1..Len(a) : c[i] = a[i]
      /\ \A i \in Len(a) + 1..Len(a) + Len(b) : c[i] = b[i - Len(a)]
  BY <1>1
<1> HIDE DEF c
<1>3. ASSUME NEW x \in ToSet(c)
      PROVE  x \in ToSet(a) \cup ToSet(b)
  <2>1. PICK i \in 1..Len(a) + Len(b) : x = c[i]
    BY <1>2 DEF ToSet
  <2>2. CASE i <= Len(a)
    BY <1>1, <1>2, <2>1, <2>2 DEF ToSet
  <2>3. CASE i > Len(a)
    <3>1. i - Len(a) \in 1..Len(b) /\ i \in Len(a) + 1..Len(a) + Len(b)
      BY <1>1, <2>3
    <3> QED
      BY <1>1, <1>2, <2>1, <3>1 DEF ToSet
  <2> QED
    BY <1>1, <2>2, <2>3
<1>4. ASSUME NEW i \in 1..Len(a)
      PROVE  a[i] \in ToSet(c)
  <2>1. i \in DOMAIN c /\ c[i] = a[i]
    BY <1>1, <1>2
  <2> QED
    BY <2>1 DEF ToSet
<1>5. ASSUME NEW i \in 1..Len(b)
      PROVE  b[i] \in ToSet(c)
  <2>1. i + Len(a) \in Len(a) + 1..Len(a) + Len(b) /\ (i + Len(a)) - Len(a) = i
    BY <1>1
  <2>2. i + Len(a) \in DOMAIN c /\ c[i + Len(a)] = b[i]
    BY <1>1, <1>2, <2>1
  <2> QED
    BY <2>2 DEF ToSet
<1>6. ToSet(c) = ToSet(a) \cup ToSet(b)
  BY <1>1, <1>3, <1>4, <1>5 DEF ToSet
<1> QED
  BY <1>1, <1>6 DEF c

\* Flattening keeps every element of every sequence, and adds none.
LEMMA FlattenIs ==
  ASSUME NEW S, NEW seqs \in Seq(Seq(S))
  PROVE  /\ FlattenSeq(seqs) \in Seq(S)
         /\ ToSet(FlattenSeq(seqs)) = UNION {ToSet(list) : list \in ToSet(seqs)}
<1> DEFINE n == Len(seqs)
<1>1. n \in Nat /\ DOMAIN seqs = 1..n /\ \A i \in 1..n : seqs[i] \in Seq(S)
  OBVIOUS
<1>2. CASE n = 0
  <2>1. seqs = <<>> /\ FlattenSeq(seqs) = <<>>
    BY <1>2 DEF FlattenSeq
  <2>2. ToSet(<<>>) = {} /\ <<>> \in Seq(S)
    BY DEF ToSet
  <2> QED
    BY <2>1, <2>2
<1>3. CASE n # 0
  <2>1. FlattenSeq(seqs) = (CHOOSE f : Flattens(seqs, n, f))[n]
    BY <1>3, Zenon DEF FlattenSeq, Flattens
  <2> DEFINE f == CHOOSE f : Flattens(seqs, n, f)
  <2>2. Flattens(seqs, n, f)
    BY <1>1, FlattensExists
  <2> HIDE DEF f
  <2>3. \A i \in 1..n : f[i] = IF i = 1 THEN seqs[i] ELSE f[i - 1] \o seqs[i]
    BY <2>2, FlattensStep
  <2> DEFINE Upto(i) == UNION {ToSet(seqs[j]) : j \in 1..i}
             T == {i \in 0..n : i = 0 \/ (f[i] \in Seq(S) /\ ToSet(f[i]) = Upto(i))}
  <2>4. 0 \in T
    BY <1>1
  <2>5. ASSUME NEW i \in 1..n, i - 1 \in T
        PROVE  i \in T
    <3>1. CASE i = 1
      <4>1. f[i] = seqs[i] /\ f[i] \in Seq(S)
        BY <1>1, <2>3, <3>1
      <4>2. 1..i = {1}
        BY <3>1
      <4>3. ToSet(f[i]) = Upto(i)
        BY <3>1, <4>1, <4>2
      <4> QED
        BY <4>1, <4>3
    <3>2. CASE i # 1
      <4>1. f[i] = f[i - 1] \o seqs[i] /\ seqs[i] \in Seq(S)
        BY <1>1, <2>3, <3>2
      <4>2. f[i - 1] \in Seq(S) /\ ToSet(f[i - 1]) = Upto(i - 1)
        BY <2>5, <3>2
      <4>3. f[i] \in Seq(S) /\ ToSet(f[i]) = ToSet(f[i - 1]) \cup ToSet(seqs[i])
        BY <4>1, <4>2, ConcatSet
      <4>4. 1..i = (1..i - 1) \cup {i}
        OBVIOUS
      <4>5. Upto(i) = Upto(i - 1) \cup ToSet(seqs[i])
        <5> DEFINE P(x, j) == x \in ToSet(seqs[j])
        <5>1. \A x : x \in Upto(i) <=> \E j \in 1..i : P(x, j)
          OBVIOUS
        <5>2. \A x : x \in Upto(i - 1) <=> \E j \in 1..i - 1 : P(x, j)
          OBVIOUS
        <5> HIDE DEF Upto
        <5> QED
          BY <4>4, <5>1, <5>2
      <4> HIDE DEF Upto
      <4>6. ToSet(f[i]) = Upto(i)
        BY <4>2, <4>3, <4>5
      <4> QED
        BY <4>3, <4>6
    <3> QED
      BY <3>1, <3>2
  <2>6. 0..n \subseteq T
    <3> HIDE DEF T
    <3> QED
      BY <1>1, <2>4, <2>5, Induct
  <2>7. f[n] \in Seq(S) /\ ToSet(f[n]) = Upto(n)
    <3>1. n \in T
      <4> HIDE DEF T
      <4> QED
        BY <1>1, <2>6
    <3> HIDE DEF Upto
    <3> QED
      BY <1>3, <3>1
  <2>8. Upto(n) = UNION {ToSet(list) : list \in ToSet(seqs)}
    <3>1. ToSet(seqs) = {seqs[j] : j \in 1..n}
      BY <1>1 DEF ToSet
    <3> QED
      BY <3>1
  <2> QED
    BY <2>1, <2>7, <2>8 DEF f
<1> QED
  BY <1>2, <1>3

\* h holds, per place of ips, the addresses up to there, each once.
Keeps(ips, n, h) ==
  h = [i \in 0..n |->
         IF i = 0 THEN <<>>
         ELSE IF Contains(h[i - 1], ips[i]) THEN h[i - 1]
         ELSE Append(h[i - 1], ips[i])]

\* What a solution says of each place.
LEMMA KeepsStep ==
  \A ips, n, h :
    Keeps(ips, n, h) <=>
      h = [i \in 0..n |-> h[i]] /\
      \A i \in 0..n :
        h[i] = IF i = 0 THEN <<>>
               ELSE IF Contains(h[i - 1], ips[i]) THEN h[i - 1]
               ELSE Append(h[i - 1], ips[i])
  BY DEF Keeps

\* The recursion of WriteMerged has a solution.
LEMMA KeepsExists ==
  ASSUME NEW ips, NEW n \in Nat
  PROVE  \E h : Keeps(ips, n, h)
<1> DEFINE S == {k \in 0..n : \E h : Keeps(ips, k, h)}
<1>1. 0 \in S
  <2>1. Keeps(ips, 0, [i \in 0..0 |-> <<>>])
    BY DEF Keeps
  <2> QED
    BY <2>1
<1>2. ASSUME NEW k \in 1..n, k - 1 \in S
      PROVE  k \in S
  <2>1. PICK h : Keeps(ips, k - 1, h)
    BY <1>2
  <2> DEFINE last == IF Contains(h[k - 1], ips[k]) THEN h[k - 1] ELSE Append(h[k - 1], ips[k])
             g    == [i \in 0..k |-> IF i = k THEN last ELSE h[i]]
             Step(f, i) == IF i = 0 THEN <<>>
                           ELSE IF Contains(f[i - 1], ips[i]) THEN f[i - 1]
                           ELSE Append(f[i - 1], ips[i])
  <2>2. \A i \in 0..k - 1 : h[i] = Step(h, i)
    BY <2>1, KeepsStep
  <2>3. \A i \in 0..k : g[i] = Step(g, i)
    <3> TAKE i \in 0..k
    <3>1. CASE i = k
      <4>1. g[k - 1] = h[k - 1] /\ g[k] = last /\ k # 0
        OBVIOUS
      <4> HIDE DEF g
      <4> QED
        BY <3>1, <4>1
    <3>2. CASE i # k
      <4>1. i \in 0..k - 1 /\ g[i] = h[i] /\ (i # 0 => g[i - 1] = h[i - 1])
        BY <3>2
      <4> HIDE DEF g
      <4> QED
        BY <2>2, <4>1
    <3> QED
      BY <3>1, <3>2
  <2>4. Keeps(ips, k, g)
    <3>1. g = [i \in 0..k |-> g[i]]
      OBVIOUS
    <3> HIDE DEF g
    <3> QED
      BY <2>3, <3>1, KeepsStep
  <2> QED
    BY <2>4
<1>3. 0..n \subseteq S
  <2> HIDE DEF S
  <2> QED
    BY <1>1, <1>2, Induct
<1> QED
  BY <1>3

\* A new element at the end of a list without repetitions.
LEMMA AppendNew ==
  ASSUME NEW S, NEW list \in Seq(S), IsInjective(list), NEW x \in S
  PROVE  /\ Contains(list, x) <=> x \in ToSet(list)
         /\ ~Contains(list, x) => /\ Append(list, x) \in Seq(S) /\ IsInjective(Append(list, x))
                                  /\ ToSet(Append(list, x)) = ToSet(list) \cup {x}
<1> DEFINE n == Len(list)
           t == Append(list, x)
<1>1. /\ n \in Nat /\ DOMAIN list = 1..n
      /\ t \in Seq(S) /\ DOMAIN t = 1..n + 1
      /\ \A i \in 1..n : t[i] = list[i]
      /\ t[n + 1] = x
  OBVIOUS
<1>2. Contains(list, x) <=> x \in ToSet(list)
  BY <1>1 DEF Contains, ToSet
<1> HIDE DEF n, t
<1>3. ToSet(t) = ToSet(list) \cup {x}
  <2>1. \A i \in 1..n + 1 : i \in 1..n \/ i = n + 1
    BY <1>1
  <2>2. 1..n \subseteq 1..n + 1 /\ n + 1 \in 1..n + 1
    BY <1>1
  <2> QED
    BY <1>1, <2>1, <2>2 DEF ToSet
<1>4. ASSUME ~Contains(list, x)
      PROVE  IsInjective(t)
  <2>1. SUFFICES ASSUME NEW i \in 1..n + 1, NEW j \in 1..n + 1, t[i] = t[j] PROVE i = j
    BY <1>1 DEF IsInjective
  <2>2. \A k \in 1..n : list[k] # x
    BY <1>1, <1>2, <1>4 DEF ToSet
  <2>3. (i \in 1..n \/ i = n + 1) /\ (j \in 1..n \/ j = n + 1)
    BY <1>1
  <2>4. i \in 1..n /\ j \in 1..n => i = j
    BY <1>1, <2>1 DEF IsInjective
  <2> QED
    BY <1>1, <2>1, <2>2, <2>3, <2>4
<1> QED
  BY <1>1, <1>2, <1>3, <1>4 DEF t

\* What is kept is every address, once.
LEMMA KeepsAll ==
  ASSUME NEW S, NEW ips \in Seq(S), NEW h, Keeps(ips, Len(ips), h)
  PROVE  /\ h[Len(ips)] \in Seq(S) /\ IsInjective(h[Len(ips)])
         /\ ToSet(h[Len(ips)]) = ToSet(ips)
<1> DEFINE n == Len(ips)
           Upto(i) == {ips[j] : j \in 1..i}
           T == {i \in 0..n : /\ h[i] \in Seq(S) /\ IsInjective(h[i])
                              /\ ToSet(h[i]) = Upto(i)}
<1>1. n \in Nat /\ DOMAIN ips = 1..n /\ \A i \in 1..n : ips[i] \in S
  OBVIOUS
<1>2. \A i \in 0..n :
        h[i] = IF i = 0 THEN <<>>
               ELSE IF Contains(h[i - 1], ips[i]) THEN h[i - 1]
               ELSE Append(h[i - 1], ips[i])
  BY KeepsStep
<1>3. 0 \in T
  <2>1. h[0] = <<>> /\ Upto(0) = {} /\ 0 \in 0..n
    BY <1>1, <1>2
  <2>2. <<>> \in Seq(S) /\ IsInjective(<<>>) /\ ToSet(<<>>) = {}
    BY DEF IsInjective, ToSet
  <2> HIDE DEF Upto
  <2> QED
    BY <2>1, <2>2
<1>4. ASSUME NEW i \in 1..n, i - 1 \in T
      PROVE  i \in T
  <2>1. Upto(i) = Upto(i - 1) \cup {ips[i]}
    <3>1. 1..i = (1..i - 1) \cup {i}
      OBVIOUS
    <3> QED
      BY <3>1
  <2> HIDE DEF Upto
  <2>2. h[i - 1] \in Seq(S) /\ IsInjective(h[i - 1]) /\ ToSet(h[i - 1]) = Upto(i - 1)
    BY <1>4
  <2>3. /\ Contains(h[i - 1], ips[i]) <=> ips[i] \in ToSet(h[i - 1])
        /\ ~Contains(h[i - 1], ips[i]) =>
              /\ Append(h[i - 1], ips[i]) \in Seq(S) /\ IsInjective(Append(h[i - 1], ips[i]))
              /\ ToSet(Append(h[i - 1], ips[i])) = ToSet(h[i - 1]) \cup {ips[i]}
    BY <1>1, <2>2, AppendNew
  <2>4. i \in 0..n /\ h[i] = IF Contains(h[i - 1], ips[i]) THEN h[i - 1]
                             ELSE Append(h[i - 1], ips[i])
    BY <1>1, <1>2
  <2> QED
    BY <2>1, <2>2, <2>3, <2>4
<1>5. 0..n \subseteq T
  <2> HIDE DEF T
  <2> QED
    BY <1>1, <1>3, <1>4, Induct
<1>6. n \in T
  <2> HIDE DEF T
  <2> QED
    BY <1>1, <1>5
<1>7. Upto(n) = ToSet(ips)
  BY <1>1 DEF ToSet
<1> QED
  BY <1>6, <1>7

\* The first of a list, as many as there is room for.
LEMMA FirstFitIs ==
  ASSUME NEW S, NEW list \in Seq(S), NEW room \in Nat
  PROVE  /\ FirstFit(list, room) \in Seq(S)
         /\ Len(FirstFit(list, room)) = Min({Len(list), room})
         /\ Len(FirstFit(list, room)) <= room
         /\ FirstFit(list, room) # <<>> => list # <<>>
         /\ ToSet(FirstFit(list, room)) \subseteq ToSet(list)
         /\ IsInjective(list) => IsInjective(FirstFit(list, room))
<1> DEFINE n == Len(list)
           m == Min({n, room})
           t == SubSeq(list, 1, m)
<1>1. n \in Nat /\ DOMAIN list = 1..n
  OBVIOUS
<1>2. m \in 0..n /\ m <= room
  <2>1. {n, room} \in SUBSET Nat /\ {n, room} # {}
    BY <1>1
  <2>2. m \in {n, room} /\ m <= n /\ m <= room
    BY <2>1, MinIs
  <2> QED
    BY <1>1, <2>2
<1>3. FirstFit(list, room) = t
  BY DEF FirstFit
<1> HIDE DEF m
<1>4. t \in Seq(S) /\ Len(t) = m /\ DOMAIN t = 1..m /\ \A i \in 1..m : t[i] = list[i]
  BY <1>1, <1>2
<1> HIDE DEF t
<1>5. 1..m \subseteq 1..n
  BY <1>1, <1>2
<1>6. ToSet(t) \subseteq ToSet(list) /\ (IsInjective(list) => IsInjective(t))
  BY <1>1, <1>4, <1>5 DEF ToSet, IsInjective
<1>7. t # <<>> => list # <<>>
  <2>1. list = <<>> => m = 0
    BY <1>2
  <2>2. m = 0 => t = <<>>
    BY <1>4
  <2> QED
    BY <2>1, <2>2
<1> QED
  BY <1>2, <1>3, <1>4, <1>6, <1>7 DEF m

\* A list without repetitions is as long as its set is large.
LEMMA InjectiveLen ==
  ASSUME NEW S, NEW list \in Seq(S), IsInjective(list)
  PROVE  Cardinality(ToSet(list)) = Len(list)
<1>1. Len(list) \in Nat /\ list \in [1..Len(list) -> ToSet(list)]
      /\ DOMAIN list = 1..Len(list)
  BY DEF ToSet
<1>2. list \in Bijection(1..Len(list), ToSet(list))
  BY <1>1 DEF Bijection, Injection, Surjection, ToSet
<1> QED
  BY <1>1, <1>2, FS_CountingElements DEF ExistsBijection

\* The addresses there are.
Addresses == UNION {ToSet(list) : list \in Lists}

\* A value that is read is one of the table's.
LEMMA ValueIs ==
  ASSUME NEW K \in SUBSET Int, NEW V, NEW rows, IsTable(rows, K, V), NEW key \in Int,
         Has(rows, key)
  PROVE  key \in K /\ Get(rows, key) \in V
  BY HasKey, GetIs

\* The jobs of whatever name; only a cluster's name has any.
LEMMA JobsOfAny ==
  ASSUME CacheOK, NEW c
  PROVE  /\ IsTable(JobsOf(c), KeysOf(JobNames), Lists)
         /\ Knows(c) => c \in Clusters
         /\ ~Knows(c) => JobsOf(c) = <<>>
<1>1. Key(c) \in Int
  BY KeyOf
<1>2. IsTable(<<>>, KeysOf(JobNames), Lists)
  BY EmptyTable
<1>3. ASSUME Knows(c)
      PROVE  Key(c) \in KeysOf(Clusters) /\ Get(cache, Key(c)) \in JobTables
  BY <1>1, <1>3, Constants, ValueIs DEF CacheOK, Knows
<1>4. ASSUME Knows(c)
      PROVE  c \in Clusters
  <2>1. Key(c) \in DOMAIN Order /\ Order[Key(c)] \in Clusters
    BY <1>3, <1>4, Constants, KeysOfAreInt
  <2>2. 0 \notin DOMAIN Order
    BY ServerAssumption
  <2> QED
    BY <2>1, <2>2, KeyOf
<1> QED
  BY <1>2, <1>3, <1>4, JobTablesAre DEF JobsOf

\* A list of one cluster.
LEMMA OfClusterIs ==
  ASSUME CacheOK, NEW name, NEW list \in OfCluster(name)
  PROVE  list \in Lists /\ list \in Seq(Addresses)
<1> DEFINE jobs == JobsOf(Tail(Prefix(name)))
           key  == Key(<<Head(name)>>)
<1>1. IsTable(jobs, KeysOf(JobNames), Lists) /\ key \in Int
  BY JobsOfAny, KeyOf
<1>2. Has(jobs, key) /\ list = Get(jobs, key)
  BY DEF OfCluster
<1>3. list \in Lists
  BY <1>1, <1>2, Constants, ValueIs
<1>4. list \in Seq(ToSet(list)) /\ ToSet(list) \subseteq Addresses
  BY <1>3, ServerAssumption DEF Addresses
<1> QED
  BY <1>3, <1>4, SeqMonotonic

\* The lists of a job in every cluster.
LEMMA ListsOfIs ==
  ASSUME CacheOK, NEW job
  PROVE  /\ ListsOf(job) \in Seq(Seq(Addresses))
         /\ (\E list \in ToSet(ListsOf(job)) : list # <<>>) => HasJob(job)
<1>1. Len(cache) \in Nat /\ DOMAIN cache = 1..Len(cache) /\ Key(job) \in Int
      /\ \A i \in 1..Len(cache) : cache[i].value \in JobTables
  <2>1. \A i \in 1..Len(cache) : cache[i] \in RowsOf(KeysOf(Clusters), JobTables)
    BY Constants, TableRows DEF CacheOK
  <2> QED
    BY <2>1, Constants, TableRows, KeyOf DEF CacheOK, RowsOf
<1>2. ASSUME NEW i \in 1..Len(cache)
      PROVE  /\ ListsOf(job)[i] \in Seq(Addresses)
             /\ ~Has(cache[i].value, Key(job)) => ListsOf(job)[i] = <<>>
  <2>1. ListsOf(job)[i] = IF Has(cache[i].value, Key(job)) THEN Get(cache[i].value, Key(job))
                          ELSE <<>>
    BY <1>1 DEF ListsOf
  <2>2. CASE Has(cache[i].value, Key(job))
    <3>1. IsTable(cache[i].value, KeysOf(JobNames), Lists)
      BY <1>1, JobTablesAre
    <3>2. Get(cache[i].value, Key(job)) \in Lists
      BY <1>1, <2>2, <3>1, Constants, ValueIs
    <3> DEFINE list == Get(cache[i].value, Key(job))
    <3>3. list \in Seq(ToSet(list)) /\ ToSet(list) \subseteq Addresses
      BY <3>2, ServerAssumption DEF Addresses
    <3>4. list \in Seq(Addresses)
      <4> HIDE DEF list
      <4> QED
        BY <3>3, SeqMonotonic
    <3> QED
      BY <2>1, <2>2, <3>4
  <2>3. CASE ~Has(cache[i].value, Key(job))
    BY <2>1, <2>3
  <2> QED
    BY <2>2, <2>3
<1> DEFINE lists == ListsOf(job)
           n     == Len(cache)
<1>3. lists = [i \in 1..n |-> lists[i]]
  BY <1>1 DEF ListsOf
<1> HIDE DEF lists, n
<1>4. lists \in Seq(Seq(Addresses)) /\ DOMAIN lists = 1..n
  BY <1>1, <1>2, <1>3 DEF lists, n
<1>5. ASSUME NEW list \in ToSet(lists), list # <<>>
      PROVE  HasJob(job)
  <2>1. PICK i \in 1..n : list = lists[i]
    BY <1>4 DEF ToSet
  <2> QED
    BY <1>1, <1>2, <1>5, <2>1 DEF HasJob, lists, n
<1> QED
  BY <1>4, <1>5 DEF lists

\* The merged answer is the union over the clusters, each address once, as
\* many as fit, and only a job has one.
LEMMA MergedIs ==
  ASSUME CacheOK, NEW job, NEW room \in Spaces
  PROVE  /\ Len(WriteMerged(job, room)) \in Nat /\ Len(WriteMerged(job, room)) <= MaxAnswers
         /\ IsInjective(WriteMerged(job, room))
         /\ ToSet(WriteMerged(job, room))
              \subseteq UNION {ToSet(list) : list \in ToSet(ListsOf(job))}
         /\ Len(WriteMerged(job, room))
              = Min({Cardinality(UNION {ToSet(list) : list \in ToSet(ListsOf(job))}), room \div 16})
         /\ WriteMerged(job, room) # <<>> => HasJob(job)
<1> DEFINE ips == FlattenSeq(ListsOf(job))
           all == UNION {ToSet(list) : list \in ToSet(ListsOf(job))}
           h   == CHOOSE h : Keeps(ips, Len(ips), h)
           t   == WriteMerged(job, room)
           places == AtMost(room \div ASize, MaxAnswers)
<1>0. places = room \div 16 /\ places \in Nat /\ places <= MaxAnswers
  BY DEF Spaces, AtMost, ASize, MaxAnswers, EdnsMax, HeaderLen
<1>1. ips \in Seq(Addresses) /\ ToSet(ips) = all
  BY ListsOfIs, FlattenIs
<1>2. t = FirstFit(h[Len(ips)], places)
  BY Zenon DEF WriteMerged, Keeps
<1> HIDE DEF ips, all, t, places
<1>3. Len(ips) \in Nat
  BY <1>1
<1>4. Keeps(ips, Len(ips), h)
  BY <1>3, KeepsExists
<1> HIDE DEF h
<1> DEFINE seen == h[Len(ips)]
<1>5. seen \in Seq(Addresses) /\ IsInjective(seen) /\ ToSet(seen) = all
  BY <1>1, <1>4, KeepsAll
<1> HIDE DEF seen
<1>6. /\ t \in Seq(Addresses) /\ Len(t) = Min({Len(seen), places}) /\ Len(t) <= places
      /\ t # <<>> => seen # <<>>
      /\ ToSet(t) \subseteq ToSet(seen) /\ IsInjective(t)
  BY <1>0, <1>2, <1>5, FirstFitIs DEF seen
<1>7. Len(seen) = Cardinality(all)
  BY <1>5, InjectiveLen
<1>8. t # <<>> => HasJob(job)
  <2> SUFFICES ASSUME t # <<>> PROVE HasJob(job)
    OBVIOUS
  <2>1. seen # <<>>
    BY <1>6
  <2>2. PICK x : x \in all
    <3>1. 1 \in DOMAIN seen
      BY <1>5, <2>1
    <3>2. seen[1] \in ToSet(seen)
      BY <3>1 DEF ToSet
    <3> QED
      BY <1>5, <3>2
  <2>3. PICK list \in ToSet(ListsOf(job)) : x \in ToSet(list)
    BY <2>2 DEF all
  <2>4. list # <<>>
    BY <2>3 DEF ToSet
  <2> QED
    BY <2>3, <2>4, ListsOfIs
<1>9. Len(t) \in Nat /\ Len(t) <= MaxAnswers
  <2>1. Len(t) \in Nat /\ MaxAnswers \in Nat
    BY <1>6 DEF MaxAnswers, EdnsMax, HeaderLen
  <2> QED
    BY <1>0, <1>6, <2>1
<1> QED
  BY <1>0, <1>5, <1>6, <1>7, <1>8, <1>9 DEF t, all

-----------------------------------------------------------------------------
(* What an answer is.                                                      *)

\* Records come of what exists, and fit.
LEMMA RecordsAre ==
  ASSUME CacheOK, NEW name, NEW room \in Spaces
  PROVE  /\ Len(Records(name, room)) \in Nat /\ Len(Records(name, room)) <= MaxAnswers
         /\ Records(name, room) # <<>> => Exists(name)
<1>0. MaxAnswers \in Nat
  BY DEF MaxAnswers, EdnsMax, HeaderLen
<1>1. CASE Merged(name)
  <2>1. Records(name, room) = WriteMerged(Prefix(name), room)
    BY <1>1 DEF Records
  <2> QED
    BY <1>1, <2>1, MergedIs DEF Exists
<1>2. CASE ~Merged(name) /\ Single(name) /\ OfCluster(name) # {}
  <2> DEFINE list   == CHOOSE list \in OfCluster(name) : TRUE
             places == room \div ASize
  <2>1. list \in OfCluster(name)
    BY <1>2
  <2>2. Records(name, room) = FirstFit(list, places)
    BY <1>2 DEF Records
  <2>3. places \in Nat /\ places <= MaxAnswers
    BY DEF Spaces, ASize, MaxAnswers, EdnsMax, HeaderLen
  <2> HIDE DEF list, places
  <2>4. list \in Seq(Addresses)
    BY <2>1, OfClusterIs
  <2>5. FirstFit(list, places) \in Seq(Addresses) /\ Len(FirstFit(list, places)) <= places
    BY <2>3, <2>4, FirstFitIs
  <2>6. Len(FirstFit(list, places)) \in Nat
    BY <2>5
  <2>7. Len(FirstFit(list, places)) <= MaxAnswers
    BY <1>0, <2>3, <2>5, <2>6
  <2> QED
    BY <1>2, <2>2, <2>6, <2>7 DEF Exists
<1>3. CASE ~Merged(name) /\ ~(Single(name) /\ OfCluster(name) # {})
  BY <1>0, <1>3 DEF Records
<1> QED
  BY <1>1, <1>2, <1>3

\* What decides an answer, beside the room for it: the class, a CNAME, and
\* whether the name lies in the domain.
Mine(name, class) == class \in {"IN", "ANY"} /\ CnameOf(name) = None /\ InZone(name, Domain)
Far(name, class)  == class \in {"IN", "ANY"} /\ CnameOf(name) = None /\ ~InZone(name, Domain)

\* An answer, case by case.
LEMMA AnswerIs ==
  ASSUME CacheOK, NEW name, NEW type, NEW class, NEW room \in Spaces
  PROVE  LET said == Answer(name, type, class, room)
             ips  == IF Mine(name, class) /\ type \in {"A", "ANY"} THEN Records(name, room) ELSE <<>>
         IN  /\ said.ips = ips /\ Len(ips) \in Nat /\ Len(ips) <= MaxAnswers
             /\ class \notin {"IN", "ANY"} => said = Only("REFUSED")
             /\ class \in {"IN", "ANY"} /\ CnameOf(name) # None => said = Alias(CnameOf(name), room)
             /\ Mine(name, class) /\ ips # <<>> =>
                  Exists(name) /\ said = Say("NOERROR", None, ips, None)
             /\ Mine(name, class) /\ ips = <<>> =>
                  said = Negative(IF Exists(name) THEN "NOERROR" ELSE "NXDOMAIN", Domain, room)
             /\ Far(name, class) =>
                  said = IF ZoneOf(name) # None THEN Negative("NXDOMAIN", ZoneOf(name), room)
                         ELSE Only("REFUSED")
<1> DEFINE said == Answer(name, type, class, room)
           ips  == IF Mine(name, class) /\ type \in {"A", "ANY"} THEN Records(name, room) ELSE <<>>
           negative == Negative(IF Exists(name) THEN "NOERROR" ELSE "NXDOMAIN", Domain, room)
<1>1. Len(ips) \in Nat /\ Len(ips) <= MaxAnswers /\ (ips # <<>> => Exists(name))
  <2>1. Len(<<>>) = 0 /\ MaxAnswers \in Nat
    BY DEF MaxAnswers, EdnsMax, HeaderLen
  <2> QED
    BY <2>1, RecordsAre
<1>2. Mine(name, class) =>
        Service(name, type, room) = IF ips # <<>> THEN Say("NOERROR", None, ips, None) ELSE negative
  BY DEF Service
<1> HIDE DEF ips
<1>3. \A rcode, zone : Negative(rcode, zone, room).ips = <<>>
  BY DEF Negative, Say, Only
<1>4. \A entry : Alias(entry, room).ips = <<>>
  BY DEF Alias, Say, Only
<1>5. ~Mine(name, class) => ips = <<>>
  BY DEF ips
<1>6. Only("REFUSED").ips = <<>> /\ Say("NOERROR", None, ips, None).ips = ips
  BY DEF Only, Say
<1>7. CASE class \notin {"IN", "ANY"}
  <2>1. said = Only("REFUSED") /\ ~Mine(name, class) /\ ~Far(name, class)
    BY <1>7 DEF Answer, Mine, Far
  <2> HIDE DEF said
  <2> QED
    BY <1>1, <1>5, <1>6, <1>7, <2>1 DEF ips, said
<1>8. CASE class \in {"IN", "ANY"} /\ CnameOf(name) # None
  <2>1. said = Alias(CnameOf(name), room) /\ ~Mine(name, class) /\ ~Far(name, class)
    BY <1>8 DEF Answer, Mine, Far
  <2> HIDE DEF said
  <2> QED
    BY <1>1, <1>4, <1>5, <1>8, <2>1 DEF ips, said
<1>9. CASE Mine(name, class)
  <2>1. said = IF ips # <<>> THEN Say("NOERROR", None, ips, None) ELSE negative
    BY <1>2, <1>9 DEF Answer, Mine
  <2>2. ~Far(name, class) /\ class \in {"IN", "ANY"} /\ CnameOf(name) = None
    BY <1>9 DEF Mine, Far
  <2>3. negative.ips = <<>>
    BY <1>3
  <2> HIDE DEF said, negative
  <2>4. said.ips = ips
    BY <1>6, <2>1, <2>3
  <2> QED
    BY <1>1, <1>9, <2>1, <2>2, <2>4 DEF ips, said, negative
<1>10. CASE Far(name, class)
  <2>1. said = IF ZoneOf(name) # None THEN Negative("NXDOMAIN", ZoneOf(name), room)
               ELSE Only("REFUSED")
    BY <1>10 DEF Answer, Far
  <2>2. ~Mine(name, class) /\ class \in {"IN", "ANY"} /\ CnameOf(name) = None
    BY <1>10 DEF Mine, Far
  <2> HIDE DEF said
  <2>3. said.ips = <<>>
    BY <1>3, <1>6, <2>1
  <2> QED
    BY <1>1, <1>5, <1>10, <2>1, <2>2, <2>3 DEF ips, said
<1> QED
  BY <1>7, <1>8, <1>9, <1>10 DEF Mine, Far

\* The code of an answer for which there is room: what exists decides it, and
\* not the type.
RcodeOf(name, class) ==
  IF class \notin {"IN", "ANY"} THEN "REFUSED"
  ELSE IF CnameOf(name) # None THEN "NOERROR"
  ELSE IF InZone(name, Domain) THEN IF Exists(name) THEN "NOERROR" ELSE "NXDOMAIN"
  ELSE IF ZoneOf(name) # None THEN "NXDOMAIN" ELSE "REFUSED"

\* The zone whose SOA goes with a negative answer.
SoaZone(name) == IF InZone(name, Domain) THEN Domain ELSE ZoneOf(name)

\* Want of room makes it a SERVFAIL, and does not come about where the name
\* of the zone is short.
LEMMA RcodeIs ==
  ASSUME CacheOK, NEW name, NEW type, NEW class, NEW room \in Spaces
  PROVE  /\ Answer(name, type, class, room).rcode \in {RcodeOf(name, class), "SERVFAIL"}
         /\ CnameOf(name) = None
            /\ (SoaZone(name) = None \/ (NameLen[SoaZone(name)] \in Nat /\ NameLen[SoaZone(name)] <= 62))
            /\ Domain # None
              => Answer(name, type, class, room).rcode = RcodeOf(name, class)
<1> DEFINE said == Answer(name, type, class, room)
           zone == SoaZone(name)
           ips  == IF Mine(name, class) /\ type \in {"A", "ANY"} THEN Records(name, room) ELSE <<>>
           exists == IF Exists(name) THEN "NOERROR" ELSE "NXDOMAIN"
<1>0. /\ class \notin {"IN", "ANY"} => said = Only("REFUSED")
      /\ class \in {"IN", "ANY"} /\ CnameOf(name) # None => said = Alias(CnameOf(name), room)
      /\ Mine(name, class) /\ ips # <<>> => Exists(name) /\ said = Say("NOERROR", None, ips, None)
      /\ Mine(name, class) /\ ips = <<>> => said = Negative(exists, Domain, room)
      /\ Far(name, class) =>
           said = IF ZoneOf(name) # None THEN Negative("NXDOMAIN", ZoneOf(name), room)
                  ELSE Only("REFUSED")
  BY AnswerIs
<1>1. ASSUME NEW rcode, NEW z
      PROVE  /\ Negative(rcode, z, room).rcode \in {rcode, "SERVFAIL"}
             /\ NameLen[z] \in Nat /\ NameLen[z] <= 62 => Negative(rcode, z, room).rcode = rcode
  <2>1. NameLen[z] \in Nat /\ NameLen[z] <= 62 => SoaSize(NameLen[z]) <= AtMost(SoaScratch, room)
    BY DEF Spaces, SoaSize, AtMost, SoaScratch, ReplyNameMax
  <2> QED
    BY <2>1 DEF Negative, Say, Only
<1>2. \A entry : Alias(entry, room).rcode \in {"NOERROR", "SERVFAIL"}
  BY DEF Alias, Say, Only
<1>3. Only("REFUSED").rcode = "REFUSED" /\ Say("NOERROR", None, ips, None).rcode = "NOERROR"
  BY DEF Only, Say
<1> DEFINE fits(z) == NameLen[z] \in Nat /\ NameLen[z] <= 62
           short == CnameOf(name) = None /\ (zone = None \/ fits(zone)) /\ Domain # None
           code  == RcodeOf(name, class)
<1> SUFFICES said.rcode \in {code, "SERVFAIL"} /\ (short => said.rcode = code)
  OBVIOUS
<1>s. short => CnameOf(name) = None /\ (zone = None \/ fits(zone)) /\ Domain # None
  OBVIOUS
<1> HIDE DEF said, ips, short, fits
<1>4. CASE class \notin {"IN", "ANY"}
  <2>1. code = "REFUSED" /\ said = Only("REFUSED")
    BY <1>0, <1>4 DEF RcodeOf
  <2> QED
    BY <1>3, <2>1
<1>5. CASE class \in {"IN", "ANY"} /\ CnameOf(name) # None
  <2>1. code = "NOERROR" /\ said = Alias(CnameOf(name), room)
    BY <1>0, <1>5 DEF RcodeOf
  <2>2. said.rcode \in {"NOERROR", "SERVFAIL"}
    BY <1>2, <2>1
  <2> QED
    BY <1>s, <1>5, <2>1, <2>2
<1>6. CASE Mine(name, class)
  <2>1. code = exists /\ zone = Domain
    BY <1>6 DEF RcodeOf, Mine, SoaZone
  <2>2. CASE ips # <<>>
    <3>1. said = Say("NOERROR", None, ips, None) /\ code = "NOERROR"
      BY <1>0, <1>6, <2>1, <2>2
    <3> QED
      BY <1>3, <3>1
  <2>3. CASE ips = <<>>
    <3>1. said = Negative(exists, Domain, room)
      BY <1>0, <1>6, <2>3
    <3> HIDE DEF exists, code, zone
    <3>2. said.rcode \in {exists, "SERVFAIL"} /\ (fits(Domain) => said.rcode = exists)
      BY <1>1, <3>1 DEF fits
    <3> QED
      BY <1>s, <2>1, <3>2
  <2> QED
    BY <2>2, <2>3
<1>7. CASE Far(name, class)
  <2>1. code = (IF ZoneOf(name) # None THEN "NXDOMAIN" ELSE "REFUSED")
        /\ zone = ZoneOf(name)
    BY <1>7 DEF RcodeOf, Far, SoaZone
  <2>2. CASE ZoneOf(name) # None
    <3>1. said = Negative("NXDOMAIN", zone, room) /\ code = "NXDOMAIN" /\ zone # None
      BY <1>0, <1>7, <2>1, <2>2
    <3> HIDE DEF code, zone
    <3>2. said.rcode \in {"NXDOMAIN", "SERVFAIL"} /\ (fits(zone) => said.rcode = "NXDOMAIN")
      BY <1>1, <3>1 DEF fits
    <3> QED
      BY <1>s, <3>1, <3>2
  <2>3. CASE ZoneOf(name) = None
    <3>1. said = Only("REFUSED") /\ code = "REFUSED"
      BY <1>0, <1>7, <2>1, <2>3
    <3> QED
      BY <1>3, <3>1
  <2> QED
    BY <2>2, <2>3
<1> QED
  BY <1>4, <1>5, <1>6, <1>7 DEF Mine, Far

\* The room for the answer that was given.
Space == Room(NameLen[Name], FindOpt(answer.to))

\* The question that was answered, and with what.
LEMMA AnswerTo ==
  ASSUME IInv
  PROVE  /\ CacheOK
         /\ answer # NoAnswer => answer.to \in Datagrams /\ answer.said = HandleOf(answer.to)
         /\ Asked => /\ answer.to \in Datagrams /\ Name \in Seq(STRING) /\ Name \in Names
                     /\ answer.to.type \in Types /\ answer.to.class \in {"IN", "ANY", "CH"}
                     /\ Space \in Spaces
                     /\ answer.said = Answer(Name, answer.to.type, answer.to.class, Space)
<1>1. CacheOK /\ AnswerOK
  BY DEF IInv
<1>2. ASSUME answer # NoAnswer
      PROVE  answer.to \in Datagrams /\ answer.said = HandleOf(answer.to)
  BY <1>1, <1>2 DEF AnswerOK
<1>3. ASSUME Asked
      PROVE  answer # NoAnswer
  BY <1>3 DEF Asked, Hosts, NoAnswer, NoDatagram, ParseQuery, Drop
<1>4. ASSUME Asked
      PROVE  /\ answer.to \in Datagrams /\ Name \in Seq(STRING) /\ Name \in Names
             /\ answer.to.type \in Types /\ answer.to.class \in {"IN", "ANY", "CH"}
             /\ Space \in Spaces
             /\ HandleOf(answer.to) = Answer(Name, answer.to.type, answer.to.class, Space)
  BY <1>4, Read DEF Asked, Name, Names, Space
<1> QED
  BY <1>1, <1>2, <1>3, <1>4

\* A datagram without a question to answer is told a code, if anything.
LEMMA Others ==
  ASSUME NEW d \in Datagrams, d \notin Hosts
  PROVE  \E rcode \in {"none", "NOTIMP", "FORMERR", "REFUSED"} : HandleOf(d) = Only(rcode)
<1> DEFINE q == ParseQuery(d)
<1>1. CASE q = Drop
  BY <1>1 DEF HandleOf, Drop
<1>2. CASE q = Bare("NOTIMP") \/ q = Bare("FORMERR")
  BY <1>2 DEF HandleOf, Bare
<1>3. CASE q # Drop /\ q # Bare("NOTIMP") /\ q # Bare("FORMERR")
  <2>1. /\ q = [what |-> "query", name |-> d.name, labels |-> d.labels,
                type |-> d.type, class |-> d.class, edns |-> FindOpt(d)]
        /\ d.name \notin {"cut", "pointer", "long"}
    BY <1>3 DEF ParseQuery
  <2>2. q.what = "query" /\ q.name = d.name
    BY <2>1
  <2>3. d.name = "nohost"
    BY <2>1, <2>2, DatagramsAssumption DEF Hosts
  <2> HIDE DEF q
  <2>4. HandleOf(d) = Only("REFUSED")
    BY <2>2, <2>3 DEF HandleOf, q
  <2> QED
    BY <2>4
<1> QED
  BY <1>1, <1>2, <1>3

\* The cache is always in order and holds what refreshes bring, and no answer
\* is longer than the largest message allows.
THEOREM TypeCorrect == Spec => []TypeOK
<1>1. IInv => TypeOK
  <2> SUFFICES ASSUME IInv PROVE TypeOK
    OBVIOUS
  <2>1. CacheOK /\ AnswerOK
    BY DEF IInv
  <2>2. Sorted(cache) /\ Keys(cache) \subseteq {Key(c) : c \in Clusters}
    <3>1. \A r \in ToSet(cache) : r.key \in KeysOf(Clusters)
      BY <2>1, Constants, RowIs DEF CacheOK
    <3> QED
      BY <2>1, <3>1, KeysAre DEF CacheOK, IsTable, KeysOf
  <2>3. ASSUME NEW i \in DOMAIN cache
        PROVE  LET jobs == cache[i].value
               IN  /\ Sorted(jobs) /\ Keys(jobs) \subseteq {Key(job) : job \in JobNames}
                   /\ \A j \in DOMAIN jobs : jobs[j].value \in Lists
    <3> DEFINE jobs == cache[i].value
    <3>1. jobs \in JobTables
      BY <2>1, Constants, RowIs DEF CacheOK, ToSet
    <3> HIDE DEF jobs
    <3>2. IsTable(jobs, KeysOf(JobNames), Lists)
      BY <3>1, JobTablesAre
    <3>3. \A r \in ToSet(jobs) : r.key \in KeysOf(JobNames) /\ r.value \in Lists
      BY <3>2, Constants, RowIs
    <3>4. \A j \in DOMAIN jobs : jobs[j].value \in Lists
      BY <3>3 DEF ToSet
    <3>5. Sorted(jobs) /\ Keys(jobs) \subseteq {Key(job) : job \in JobNames}
      BY <3>2, <3>3, KeysAre DEF IsTable, KeysOf
    <3> QED
      BY <3>4, <3>5 DEF jobs
  <2>4. MaxAnswers \in Nat
    BY DEF MaxAnswers, EdnsMax, HeaderLen
  <2>5. CASE answer = NoAnswer
    <3>1. Len(answer.said.ips) = 0
      BY <2>5 DEF NoAnswer, Only, Say
    <3> QED
      BY <2>2, <2>3, <2>4, <2>5, <3>1 DEF TypeOK
  <2>6. CASE answer # NoAnswer
    <3>1. answer.to \in Datagrams /\ answer.said = HandleOf(answer.to)
      BY <2>6, AnswerTo
    <3>2. CASE Asked
      <4>1. Space \in Spaces /\ answer.said = Answer(Name, answer.to.type, answer.to.class, Space)
        BY <3>2, AnswerTo
      <4>2. Len(answer.said.ips) \in Nat /\ Len(answer.said.ips) <= MaxAnswers
        BY <2>1, <4>1, AnswerIs
      <4> QED
        BY <2>2, <2>3, <3>1, <4>2 DEF TypeOK
    <3>3. CASE ~Asked
      <4>1. PICK rcode : answer.said = Only(rcode)
        BY <3>1, <3>3, Others DEF Asked
      <4>2. Len(answer.said.ips) = 0
        BY <4>1 DEF Only, Say
      <4> QED
        BY <2>2, <2>3, <2>4, <3>1, <4>2 DEF TypeOK
    <3> QED
      BY <3>2, <3>3
  <2> QED
    BY <2>5, <2>6
<1> QED
  BY <1>1, Always, PTL

\* The limit of the asked size, as MergedIsUnion reads it from the records.
LEMMA LimitIs ==
  ASSUME NEW d \in Datagrams
  PROVE  /\ Max({UdpMax} \cup {Min({size, EdnsMax}) : size \in Offers(d)}) = Clamped(FindOpt(d))
         /\ Offers(d) = {} <=> FindOpt(d) = NoEdns
<1> DEFINE e     == FindOpt(d)
           sizes == {Min({size, EdnsMax}) : size \in Offers(d)}
<1>1. e \in Nat \cup {NoEdns} /\ Offers(d) = IF e = NoEdns THEN {} ELSE {e}
  BY FindOptIs
<1> HIDE DEF e
<1>2. CASE e = NoEdns
  <2>1. {UdpMax} \cup sizes = {UdpMax}
    BY <1>1, <1>2
  <2>2. Max({UdpMax}) = UdpMax
    BY MaxIs DEF UdpMax
  <2>3. Clamped(NoEdns) = UdpMax
    BY DEF Clamped
  <2> HIDE DEF sizes
  <2> QED
    BY <1>1, <1>2, <2>1, <2>2, <2>3 DEF e, sizes
<1>3. CASE e # NoEdns
  <2>1. {UdpMax} \cup sizes = {UdpMax, Min({e, EdnsMax})} /\ e \in Nat /\ Offers(d) # {}
    BY <1>1, <1>3
  <2>2. Max({UdpMax, Min({e, EdnsMax})}) = Clamped(e)
    BY <2>1, ClampedIs
  <2> HIDE DEF sizes
  <2> QED
    BY <1>3, <2>1, <2>2 DEF e, sizes
<1> QED
  BY <1>2, <1>3

\* A service of every cluster is answered with the union of its lists, each
\* address once; when they do not all fit, the answer is full.
THEOREM UnionTheorem == Spec => []MergedIsUnion
<1>1. IInv => MergedIsUnion
  <2> DEFINE said   == answer.said
             all    == UNION {ToSet(list) : list \in ToSet(ListsOf(Prefix(Name)))}
             offers == Offers(answer.to)
             limit  == Max({UdpMax} \cup {Min({size, EdnsMax}) : size \in offers})
             used   == HeaderLen + NameLen[Name] + 4 + (IF offers = {} THEN 0 ELSE OptLen)
  <2> SUFFICES ASSUME IInv, Asked, InZone(Name, Domain), Merged(Name), CnameOf(Name) = None,
                      answer.to.class # "CH", answer.to.type # "AAAA"
               PROVE  /\ IsInjective(said.ips) /\ ToSet(said.ips) \subseteq all
                      /\ Len(said.ips) = Min({Cardinality(all), (limit - used) \div 16})
    BY DEF MergedIsUnion
  <2>1. /\ CacheOK /\ answer.to \in Datagrams /\ Space \in Spaces /\ Name \in Names
        /\ answer.to.type \in {"A", "ANY"} /\ answer.to.class \in {"IN", "ANY"}
        /\ said = Answer(Name, answer.to.type, answer.to.class, Space)
    BY AnswerTo DEF Types
  <2>2. Mine(Name, answer.to.class)
    BY <2>1 DEF Mine
  <2>3. said.ips = Records(Name, Space)
    BY <2>1, <2>2, AnswerIs
  <2>4. said.ips = WriteMerged(Prefix(Name), Space)
    BY <2>3 DEF Records
  <2>5. limit - used = Space
    <3> DEFINE e == FindOpt(answer.to)
    <3>1. limit = Clamped(e) /\ (offers = {} <=> e = NoEdns) /\ e \in Nat \cup {NoEdns}
      BY <2>1, LimitIs, FindOptIs
    <3>2. NameLen[Name] \in Nat
      BY <2>1, LengthsAssumption
    <3>3. Clamped(e) \in Int
      BY <3>1 DEF Clamped, AtMost, UdpMax, EdnsMax
    <3>4. used = HeaderLen + NameLen[Name] + 4 + (IF e = NoEdns THEN 0 ELSE OptLen)
      BY <3>1
    <3>5. Space = Clamped(e) - HeaderLen - (NameLen[Name] + 4) - (IF e = NoEdns THEN 0 ELSE OptLen)
      BY DEF Space, Room
    <3> HIDE DEF limit, used, e, offers
    <3> QED
      BY <3>1, <3>2, <3>3, <3>4, <3>5 DEF HeaderLen, OptLen
  <2> HIDE DEF said, limit, used
  <2> QED
    BY <2>1, <2>4, <2>5, MergedIs
<1> QED
  BY <1>1, Always, PTL

-----------------------------------------------------------------------------
(* Names.                                                                  *)

Text == Seq(STRING)

\* A suffix, label by label from the end.
LEMMA SuffixIs ==
  ASSUME NEW s \in Text, NEW t \in Text
  PROVE  IsSuffix(s, t) <=>
           Len(s) <= Len(t) /\ \A i \in 1..Len(s) : s[i] = t[Len(t) - Len(s) + i]
<1> DEFINE n == Len(s)
           m == Len(t)
           a == Reverse(s)
           b == Reverse(t)
<1>1. n \in Nat /\ m \in Nat
  OBVIOUS
<1>2. /\ a \in Text /\ Len(a) = n /\ \A i \in 1..n : a[i] = s[n - i + 1]
      /\ b \in Text /\ Len(b) = m /\ \A i \in 1..m : b[i] = t[m - i + 1]
  <2>1. /\ \A i \in 1..n : s[n - i + 1] \in STRING
        /\ \A i \in 1..m : t[m - i + 1] \in STRING
    <3>1. \A i \in 1..n : n - i + 1 \in 1..n
      BY <1>1
    <3>2. \A i \in 1..m : m - i + 1 \in 1..m
      BY <1>1
    <3>3. /\ \A i \in 1..n : s[i] \in STRING
          /\ \A i \in 1..m : t[i] \in STRING
      BY DEF Text
    <3> QED
      BY <3>1, <3>2, <3>3
  <2>2. a = [i \in 1..n |-> s[n - i + 1]] /\ b = [i \in 1..m |-> t[m - i + 1]]
    BY DEF Reverse
  <2> HIDE DEF a, b, n, m
  <2>3. a \in Text /\ Len(a) = n /\ \A i \in 1..n : a[i] = s[n - i + 1]
    BY <1>1, <2>1, <2>2 DEF Text
  <2>4. b \in Text /\ Len(b) = m /\ \A i \in 1..m : b[i] = t[m - i + 1]
    BY <1>1, <2>1, <2>2 DEF Text
  <2> QED
    BY <2>3, <2>4
<1>3. IsSuffix(s, t) <=> n <= m /\ SubSeq(a, 1, n) = SubSeq(b, 1, n)
  BY <1>2 DEF IsSuffix, IsPrefix
<1> HIDE DEF a, b, n, m
<1>4. ASSUME n <= m
      PROVE  SubSeq(a, 1, n) = SubSeq(b, 1, n) <=> \A i \in 1..n : a[i] = b[i]
  <2>1. SubSeq(a, 1, n) = [i \in 1..n |-> a[i]]
    BY <1>1, <1>2 DEF Text
  <2>2. SubSeq(b, 1, n) = [i \in 1..n |-> b[i]]
    BY <1>1, <1>2, <1>4 DEF Text
  <2>3. [i \in 1..n |-> a[i]] = [i \in 1..n |-> b[i]] <=> \A i \in 1..n : a[i] = b[i]
    OBVIOUS
  <2> QED
    BY <2>1, <2>2, <2>3
<1>5. ASSUME n <= m
      PROVE  (\A i \in 1..n : a[i] = b[i]) <=> (\A i \in 1..n : s[i] = t[m - n + i])
  <2>1. \A i \in 1..n : /\ n - i + 1 \in 1..n /\ i \in 1..m
                        /\ n - (n - i + 1) + 1 = i
                        /\ m - n + (n - i + 1) = m - i + 1
                        /\ m - (n - i + 1) + 1 = m - n + i
                        /\ n - i + 1 \in 1..m
    BY <1>1, <1>5
  <2>2. ASSUME \A i \in 1..n : a[i] = b[i], NEW i \in 1..n
        PROVE  s[i] = t[m - n + i]
    <3>1. a[n - i + 1] = b[n - i + 1]
      BY <2>1, <2>2
    <3>2. a[n - i + 1] = s[i] /\ b[n - i + 1] = t[m - n + i]
      <4> DEFINE j == n - i + 1
      <4>1. j \in 1..n /\ j \in 1..m /\ n - j + 1 = i /\ m - j + 1 = m - n + i
        BY <1>1, <2>1
      <4> HIDE DEF j
      <4>2. a[j] = s[n - j + 1] /\ b[j] = t[m - j + 1]
        BY <1>2, <4>1
      <4>3. a[j] = s[i] /\ b[j] = t[m - n + i]
        BY <4>1, <4>2
      <4> QED
        BY <4>3 DEF j
    <3> QED
      BY <3>1, <3>2
  <2>3. ASSUME \A i \in 1..n : s[i] = t[m - n + i], NEW i \in 1..n
        PROVE  a[i] = b[i]
    <3>1. s[n - i + 1] = t[m - n + (n - i + 1)]
      BY <2>1, <2>3
    <3>2. a[i] = s[n - i + 1] /\ b[i] = t[m - i + 1]
      <4>1. i \in 1..m
        BY <2>1
      <4> QED
        BY <1>2, <4>1
    <3> QED
      BY <2>1, <3>1, <3>2
  <2> QED
    BY <2>2, <2>3
<1> QED
  BY <1>3, <1>4, <1>5 DEF n, m

\* Suffixes of suffixes, suffixes of one length, and of two lengths.
LEMMA SuffixTransitive ==
  ASSUME NEW s \in Text, NEW t \in Text, NEW u \in Text, IsSuffix(s, t), IsSuffix(t, u)
  PROVE  IsSuffix(s, u)
<1> DEFINE l == Len(s)
           m == Len(t)
           n == Len(u)
<1>1. l \in Nat /\ m \in Nat /\ n \in Nat
  BY DEF Text
<1>2. l <= m /\ \A i \in 1..l : s[i] = t[m - l + i]
  BY SuffixIs
<1>3. m <= n /\ \A i \in 1..m : t[i] = u[n - m + i]
  BY SuffixIs
<1> HIDE DEF l, m, n
<1>4. l <= n
  BY <1>1, <1>2, <1>3
<1>5. ASSUME NEW i \in 1..l
      PROVE  s[i] = u[n - l + i]
  <2>1. m - l + i \in 1..m /\ n - m + (m - l + i) = n - l + i
    BY <1>1, <1>2
  <2> QED
    BY <1>2, <1>3, <2>1
<1>6. Len(s) <= Len(u) /\ \A i \in 1..Len(s) : s[i] = u[Len(u) - Len(s) + i]
  BY <1>4, <1>5 DEF l, n
<1> QED
  BY <1>6, SuffixIs

\* Of two suffixes of one name, the shorter is a suffix of the longer.
LEMMA SuffixesNest ==
  ASSUME NEW s \in Text, NEW t \in Text, NEW u \in Text,
         IsSuffix(s, u), IsSuffix(t, u), Len(s) <= Len(t)
  PROVE  IsSuffix(s, t)
<1> DEFINE l == Len(s)
           m == Len(t)
           n == Len(u)
<1>1. l \in Nat /\ m \in Nat /\ n \in Nat /\ l <= m
  BY DEF Text
<1>2. l <= n /\ \A i \in 1..l : s[i] = u[n - l + i]
  BY SuffixIs
<1>3. m <= n /\ \A i \in 1..m : t[i] = u[n - m + i]
  BY SuffixIs
<1> HIDE DEF l, m, n
<1>4. ASSUME NEW i \in 1..l
      PROVE  s[i] = t[m - l + i]
  <2>1. m - l + i \in 1..m /\ n - m + (m - l + i) = n - l + i
    BY <1>1
  <2> QED
    BY <1>2, <1>3, <2>1
<1>5. Len(s) <= Len(t) /\ \A i \in 1..Len(s) : s[i] = t[Len(t) - Len(s) + i]
  BY <1>1, <1>4 DEF l, m
<1> QED
  BY <1>5, SuffixIs

\* A name that is no longer than its suffix is that suffix.
LEMMA SuffixSame ==
  ASSUME NEW s \in Text, NEW t \in Text, IsSuffix(s, t), Len(t) <= Len(s)
  PROVE  s = t
<1>1. Len(s) \in Nat /\ Len(t) \in Nat
  BY DEF Text
<1>2. Len(s) <= Len(t) /\ \A i \in 1..Len(s) : s[i] = t[Len(t) - Len(s) + i]
  BY SuffixIs
<1>3. Len(s) = Len(t)
  BY <1>1, <1>2
<1>4. \A i \in 1..Len(s) : Len(t) - Len(s) + i = i
  BY <1>1, <1>3
<1>5. \A i \in 1..Len(s) : s[i] = t[i]
  BY <1>2, <1>4
<1> QED
  BY <1>3, <1>5, SeqEqual DEF Text

\* What is known of the names of the constants.
LEMMA NamesAre ==
  /\ Domain \in Text /\ Domain # <<>>
  /\ \A name \in Exact \cup Wild : name \in Text /\ name # <<>>
  /\ \A zone \in Zones : zone \in Text /\ zone # <<>>
<1>1. \A name \in Exact \cup Wild \cup {Domain} : name \in Text /\ name # <<>>
  BY ServerAssumption DEF IsName, Text
<1>2. \A name \in Exact : Tail(name) \in Text
  BY <1>1 DEF Text
<1> QED
  BY <1>1, <1>2 DEF Zones

\* The longest of a set of suffixes.
LEMMA Longest ==
  ASSUME NEW u \in Text, NEW S \in SUBSET Text, S # {}, \A s \in S : IsSuffix(s, u)
  PROVE  \E s \in S : \A t \in S : Len(t) <= Len(s)
<1> DEFINE L == {Len(u) - Len(s) : s \in S}
<1>1. Len(u) \in Nat /\ \A s \in S : Len(s) \in Nat /\ Len(s) <= Len(u)
  <2>1. \A s \in Text : Len(s) \in Nat
    BY DEF Text
  <2> QED
    BY <2>1, SuffixIs
<1>2. L \subseteq Nat /\ L # {}
  BY <1>1
<1>3. PICK k \in L : \A j \in L : k <= j
  <2> HIDE DEF L
  <2> QED
    BY <1>2, Least
<1>4. PICK s \in S : k = Len(u) - Len(s)
  BY <1>3
<1>5. ASSUME NEW t \in S
      PROVE  Len(t) <= Len(s)
  <2>1. Len(u) - Len(s) <= Len(u) - Len(t)
    BY <1>3, <1>4
  <2> QED
    BY <1>1, <2>1
<1> QED
  BY <1>5

\* The zone of a name holds it, and is one of Zones.
LEMMA ZoneIs ==
  ASSUME NEW name \in Text, ZoneOf(name) # None
  PROVE  ZoneOf(name) \in Zones /\ InZone(name, ZoneOf(name))
<1> DEFINE over == {zone \in Zones : InZone(name, zone)}
<1>1. over # {}
  BY DEF ZoneOf
<1>2. over \in SUBSET Text /\ \A zone \in over : IsSuffix(zone, name)
  BY NamesAre DEF InZone
<1>3. \E zone \in over : \A other \in over : Len(other) <= Len(zone)
  <2> HIDE DEF over
  <2> QED
    BY <1>1, <1>2, Longest
<1>4. ZoneOf(name) = CHOOSE zone \in over : \A other \in over : Len(other) <= Len(zone)
  BY <1>1 DEF ZoneOf
<1>5. ZoneOf(name) \in over
  BY <1>3, <1>4
<1> QED
  BY <1>5

\* The length of the zone that a negative answer is of.
LEMMA SoaZoneIs ==
  ASSUME NEW name \in Text
  PROVE  /\ SoaZone(name) # None => NameLen[SoaZone(name)] \in Nat /\ InZone(name, SoaZone(name))
         /\ Domain # None
<1>1. Domain # None
  BY NamesAre DEF None
<1>2. CASE InZone(name, Domain)
  BY <1>1, <1>2, LengthsAssumption DEF SoaZone
<1>3. CASE ~InZone(name, Domain)
  <2>1. SoaZone(name) = ZoneOf(name)
    BY <1>3 DEF SoaZone
  <2> QED
    BY <1>1, <2>1, ZoneIs, LengthsAssumption
<1> QED
  BY <1>2, <1>3

\* Whether a name exists depends neither on the type asked nor on the room for
\* an answer: `service` looks for records first, and finds them only where it
\* would find the name.  The code of an answer is the same too, but for the
\* SERVFAIL of a CNAME or of an SOA that does not fit, and an SOA of a zone of
\* up to 62 bytes fits in the room that the longest question leaves.
THEOREM RcodeTheorem == Spec => []RcodeIgnoresType
<1>1. IInv => RcodeIgnoresType
  <2> DEFINE zone  == SoaZone(Name)
             class == answer.to.class
             said  == answer.said.rcode
             other(type, offer) == Told(Name, type, class, offer)
  <2> SUFFICES ASSUME IInv, Asked, NEW type \in Types, NEW offer \in Sizes
               PROVE  /\ {said, other(type, offer)} # {"NOERROR", "NXDOMAIN"}
                      /\ CnameOf(Name) = None /\ (zone = None \/ NameLen[zone] <= 62)
                           => other(type, offer) = said
    BY DEF RcodeIgnoresType, SoaZone
  <2>1. /\ CacheOK /\ Name \in Text /\ Name \in Names /\ Space \in Spaces
        /\ answer.said = Answer(Name, answer.to.type, class, Space)
    BY AnswerTo DEF Text
  <2>2. Room(NameLen[Name], offer) \in Spaces
    <3>1. offer \in Nat \cup {NoEdns}
      BY DEF Sizes, UdpMax, EdnsMax
    <3>2. Name \in Names
      BY <2>1
    <3> HIDE DEF Name
    <3> QED
      BY <3>1, <3>2, RoomIs
  <2> DEFINE short == CnameOf(Name) = None /\ (zone = None \/ NameLen[zone] <= 62)
             rcode == RcodeOf(Name, class)
             told  == other(type, offer)
  <2>3. short => \/ SoaZone(Name) = None
                 \/ NameLen[SoaZone(Name)] \in Nat /\ NameLen[SoaZone(Name)] <= 62
    BY <2>1, SoaZoneIs
  <2>4. Domain # None
    BY <2>1, SoaZoneIs
  <2>5. said \in {rcode, "SERVFAIL"} /\ (short => said = rcode)
    BY <2>1, <2>3, <2>4, RcodeIs
  <2>6. told \in {rcode, "SERVFAIL"} /\ (short => told = rcode)
    <3>1. told = Answer(Name, type, class, Room(NameLen[Name], offer)).rcode
      BY DEF Told
    <3> QED
      BY <2>1, <2>2, <2>3, <2>4, <3>1, RcodeIs
  <2> HIDE DEF short, rcode, told, said
  <2>7. {said, told} # {"NOERROR", "NXDOMAIN"}
    BY <2>5, <2>6
  <2> QED
    BY <2>5, <2>6, <2>7 DEF short, told, said
<1> QED
  BY <1>1, Always, PTL

\* The proper parents of a name are its strict suffixes, by length.
LEMMA ParentsAre ==
  ASSUME NEW name \in Text
  PROVE  /\ \A i \in 1..Len(Parents(name)) :
              /\ Parents(name)[i] \in Text /\ IsStrictSuffix(Parents(name)[i], name)
              /\ Len(Parents(name)[i]) = Len(name) - i
         /\ \A p \in Text :
              p # <<>> /\ IsStrictSuffix(p, name) =>
                \E i \in 1..Len(Parents(name)) : p = Parents(name)[i]
         /\ Len(Parents(name)) \in Nat /\ Len(name) \in Nat
<1> DEFINE n == Len(name)
           k == IF n = 0 THEN 0 ELSE n - 1
           all == Parents(name)
<1>1. n \in Nat /\ k \in Nat /\ 1..n - 1 = 1..k /\ \A i \in 1..n : name[i] \in STRING
  BY DEF Text
<1>2. all = [i \in 1..k |-> SubSeq(name, i + 1, n)]
  BY <1>1 DEF Parents
<1>3. Len(all) = k /\ \A i \in 1..k : all[i] = SubSeq(name, i + 1, n)
  BY <1>1, <1>2
<1> HIDE DEF all, k
<1>4. ASSUME NEW i \in 1..k
      PROVE  /\ all[i] \in Text /\ Len(all[i]) = n - i
             /\ \A j \in 1..n - i : all[i][j] = name[i + j]
  <2> DEFINE p == all[i]
             m == n - i
  <2>1. m \in Nat /\ i + 1 \in 1..n
    BY <1>1 DEF k
  <2>2. p = [j \in 1..m |-> name[i + j]]
    BY <1>1, <1>3, <2>1 DEF Text
  <2>3. \A j \in 1..m : name[i + j] \in STRING
    BY <1>1, <2>1
  <2> HIDE DEF p, m
  <2>4. p \in Text /\ Len(p) = m /\ \A j \in 1..m : p[j] = name[i + j]
    BY <2>1, <2>2, <2>3 DEF Text
  <2> QED
    BY <2>4 DEF p, m
<1>5. ASSUME NEW i \in 1..k
      PROVE  IsStrictSuffix(all[i], name)
  <2>1. /\ all[i] \in Text /\ Len(all[i]) = n - i
        /\ \A j \in 1..n - i : all[i][j] = name[i + j]
    BY <1>4
  <2>2. n - (n - i) = i /\ n - i < n /\ i \in Nat
    BY <1>1 DEF k
  <2>3. Len(all[i]) <= Len(name)
        /\ \A j \in 1..Len(all[i]) : all[i][j] = name[Len(name) - Len(all[i]) + j]
    BY <1>1, <2>1, <2>2
  <2>4. IsSuffix(all[i], name)
    BY <2>1, <2>3, SuffixIs
  <2>5. all[i] # name
    BY <1>1, <2>1, <2>2
  <2> QED
    BY <2>4, <2>5 DEF IsStrictSuffix
<1>6. ASSUME NEW p \in Text, p # <<>>, IsStrictSuffix(p, name)
      PROVE  \E i \in 1..k : p = all[i]
  <2>1. IsSuffix(p, name) /\ p # name
    BY <1>6 DEF IsStrictSuffix
  <2>2. Len(p) \in Nat /\ Len(p) # 0
    BY <1>6 DEF Text
  <2>3. Len(p) <= n /\ \A j \in 1..Len(p) : p[j] = name[n - Len(p) + j]
    BY <2>1, SuffixIs
  <2>4. ~(n <= Len(p))
    BY <2>1, SuffixSame
  <2> DEFINE i == n - Len(p)
  <2>5. i \in 1..k /\ n - i = Len(p)
    BY <1>1, <2>2, <2>3, <2>4 DEF k
  <2>6. /\ all[i] \in Text /\ Len(all[i]) = n - i
        /\ \A j \in 1..n - i : all[i][j] = name[i + j]
    BY <1>4, <2>5
  <2>7. Len(all[i]) = Len(p) /\ \A j \in 1..Len(p) : all[i][j] = p[j]
    BY <2>3, <2>5, <2>6
  <2>8. p = all[i]
    BY <2>6, <2>7, SeqEqual DEF Text
  <2> QED
    BY <2>5, <2>8
<1> QED
  BY <1>1, <1>3, <1>4, <1>5, <1>6 DEF all

\* What the table of CNAMEs finds: the exact name, else the longest star.
LEMMA CnameIs ==
  ASSUME NEW name \in Text
  PROVE  LET over == {parent \in Wild : IsStrictSuffix(parent, name)}
         IN  CnameOf(name) =
               IF name \in Exact THEN <<"exact", name>>
               ELSE IF over = {} THEN None
               ELSE <<"wild", CHOOSE p \in over : \A q \in over : IsSuffix(q, p)>>
<1> DEFINE over == {parent \in Wild : IsStrictSuffix(parent, name)}
           all  == Parents(name)
           k    == Len(all)
           I    == {i \in 1..k : all[i] \in Wild}
           hit  == IF I # {} THEN Min(I) ELSE 0
<1>1. CnameOf(name) = IF name \in Exact THEN <<"exact", name>>
                      ELSE IF hit = 0 THEN None ELSE <<"wild", all[hit]>>
  BY DEF CnameOf, SelectInSeq
<1>2. /\ \A i \in 1..k : /\ all[i] \in Text /\ IsStrictSuffix(all[i], name)
                         /\ Len(all[i]) = Len(name) - i
      /\ \A p \in Text : p # <<>> /\ IsStrictSuffix(p, name) => \E i \in 1..k : p = all[i]
      /\ k \in Nat /\ Len(name) \in Nat
  BY ParentsAre
<1> HIDE DEF all, k
<1>3. \A p \in over : p \in Text /\ IsSuffix(p, name) /\ \E i \in I : p = all[i]
  <2> TAKE p \in over
  <2>1. p \in Text /\ p # <<>> /\ IsStrictSuffix(p, name)
    BY NamesAre
  <2>2. PICK i \in 1..k : p = all[i]
    BY <1>2, <2>1
  <2>3. i \in I
    BY <2>2
  <2> QED
    BY <2>1, <2>2, <2>3 DEF IsStrictSuffix
<1>4. \A i \in I : all[i] \in over
  BY <1>2
<1>5. I \subseteq Nat
  OBVIOUS
<1>6. CASE over = {}
  <2>1. hit = 0
    BY <1>4, <1>6
  <2> QED
    BY <1>1, <1>6, <2>1
<1>7. CASE over # {}
  <2>1. I # {}
    BY <1>3, <1>7
  <2>2. hit \in I /\ hit # 0 /\ \A i \in I : hit <= i
    <3>1. Min(I) \in I /\ \A i \in I : Min(I) <= i
      <4> HIDE DEF I
      <4> QED
        BY <1>5, <2>1, MinIs
    <3> QED
      BY <2>1, <3>1
  <2> HIDE DEF hit, over
  <2> DEFINE best == all[hit]
  <2>3. best \in over /\ best \in Text /\ IsSuffix(best, name) /\ Len(best) = Len(name) - hit
    BY <1>2, <1>3, <1>4, <2>2
  <2>4. \A q \in over : IsSuffix(q, best)
    <3> TAKE q \in over
    <3>1. PICK i \in I : q = all[i]
      BY <1>3
    <3>2. Len(q) = Len(name) - i /\ hit <= i /\ i \in Nat /\ hit \in Nat
      BY <1>2, <2>2, <3>1
    <3>3. Len(q) <= Len(best)
      BY <1>2, <2>3, <3>2
    <3> HIDE DEF best
    <3> QED
      BY <1>3, <2>3, <3>3, SuffixesNest
  <2> HIDE DEF best
  <2> DEFINE nearest == CHOOSE p \in over : \A q \in over : IsSuffix(q, p)
  <2>5. nearest \in over /\ \A q \in over : IsSuffix(q, nearest)
    BY <2>3, <2>4
  <2> HIDE DEF nearest
  <2>6. nearest = best
    <3>1. IsSuffix(nearest, best) /\ IsSuffix(best, nearest) /\ nearest \in Text
      BY <1>3, <2>3, <2>4, <2>5
    <3>2. Len(best) <= Len(nearest)
      BY <2>3, <3>1, SuffixIs
    <3> QED
      BY <2>3, <3>1, <3>2, SuffixSame
  <2> QED
    BY <1>1, <1>7, <2>2, <2>6 DEF nearest, best, over
<1> QED
  BY <1>6, <1>7

\* What the table finds is an entry of it.
LEMMA EntryIs ==
  ASSUME NEW name \in Text, CnameOf(name) # None
  PROVE  CnameOf(name) \in Entries
<1> DEFINE all == Parents(name)
           I   == {i \in 1..Len(all) : all[i] \in Wild}
           hit == IF I # {} THEN Min(I) ELSE 0
<1>1. CnameOf(name) = IF name \in Exact THEN <<"exact", name>>
                      ELSE IF hit = 0 THEN None ELSE <<"wild", all[hit]>>
  BY DEF CnameOf, SelectInSeq
<1> HIDE DEF all
<1>2. CASE name \in Exact
  BY <1>1, <1>2 DEF Entries
<1>3. CASE name \notin Exact
  <2>1. hit # 0 /\ CnameOf(name) = <<"wild", all[hit]>>
    BY <1>1, <1>3
  <2>2. I # {} /\ I \subseteq Nat
    BY <2>1
  <2>3. hit \in I
    <3>1. Min(I) \in I
      <4> HIDE DEF I
      <4> QED
        BY <2>2, MinIs
    <3> QED
      BY <2>2, <3>1
  <2> HIDE DEF hit
  <2> QED
    BY <2>1, <2>3 DEF Entries
<1> QED
  BY <1>2, <1>3

\* A record or a code is not negative, and a SERVFAIL is not either; what is
\* negative has the SOA of its zone.
LEMMA Forms ==
  ASSUME NEW said
  PROVE  LET negative == said.rcode \in {"NOERROR", "NXDOMAIN"} /\ said.cname = None /\ said.ips = <<>>
         IN  /\ \A rcode \in {"none", "NOTIMP", "FORMERR", "REFUSED", "SERVFAIL"} :
                  said = Only(rcode) => said.soa = None /\ ~negative
             /\ \A entry \in Entries : \A room : said = Alias(entry, room) => said.soa = None /\ ~negative
             /\ \A ips : ips # <<>> /\ said = Say("NOERROR", None, ips, None) => said.soa = None /\ ~negative
             /\ \A rcode \in {"NOERROR", "NXDOMAIN"} : \A zone, room :
                  zone # None /\ said = Negative(rcode, zone, room)
                    => \/ said.soa = zone /\ negative
                       \/ said.soa = None /\ ~negative
<1> DEFINE negative == said.rcode \in {"NOERROR", "NXDOMAIN"} /\ said.cname = None /\ said.ips = <<>>
<1>1. ASSUME NEW rcode \in {"none", "NOTIMP", "FORMERR", "REFUSED", "SERVFAIL"}, said = Only(rcode)
      PROVE  said.soa = None /\ ~negative
  BY <1>1 DEF Only, Say
<1>2. ASSUME NEW entry \in Entries, NEW room, said = Alias(entry, room)
      PROVE  said.soa = None /\ ~negative
  <2>1. entry # None
    BY DEF Entries, None
  <2>2. CASE said = Only("SERVFAIL")
    BY <1>1, <2>2
  <2>3. CASE said = Say("NOERROR", entry, <<>>, None)
    BY <2>1, <2>3 DEF Say
  <2> QED
    BY <1>2, <2>2, <2>3 DEF Alias
<1>3. ASSUME NEW ips, ips # <<>>, said = Say("NOERROR", None, ips, None)
      PROVE  said.soa = None /\ ~negative
  BY <1>3 DEF Say
<1>4. ASSUME NEW rcode \in {"NOERROR", "NXDOMAIN"}, NEW zone, NEW room,
             zone # None, said = Negative(rcode, zone, room)
      PROVE  \/ said.soa = zone /\ negative
             \/ said.soa = None /\ ~negative
  <2>1. CASE said = Only("SERVFAIL")
    BY <1>1, <2>1
  <2>2. CASE said = Say(rcode, None, <<>>, zone)
    BY <2>2 DEF Say
  <2> QED
    BY <1>4, <2>1, <2>2 DEF Negative
<1> QED
  BY <1>1, <1>2, <1>3, <1>4

\* Every negative answer carries the SOA of a zone that holds the name, and
\* no other answer does.
THEOREM SoaTheorem == Spec => []NegativeHasSoa
<1>1. IInv => NegativeHasSoa
  <2> DEFINE said == answer.said
             negative == said.rcode \in {"NOERROR", "NXDOMAIN"} /\ said.cname = None /\ said.ips = <<>>
  <2> SUFFICES ASSUME IInv
               PROVE  (said.soa # None <=> negative) /\ (said.soa # None => InZone(Name, said.soa))
    BY DEF NegativeHasSoa
  <2>1. ASSUME NEW rcode \in {"none", "NOTIMP", "FORMERR", "REFUSED"}, said = Only(rcode)
        PROVE  said.soa = None /\ ~negative
    BY <2>1, Forms
  <2>2. CASE answer = NoAnswer
    BY <2>1, <2>2 DEF NoAnswer
  <2>3. CASE answer # NoAnswer /\ ~Asked
    <3>1. \E rcode \in {"none", "NOTIMP", "FORMERR", "REFUSED"} : said = Only(rcode)
      BY <2>3, AnswerTo, Others DEF Asked
    <3> HIDE DEF said, negative
    <3> QED
      BY <2>1, <3>1
  <2>4. CASE Asked
    <3> DEFINE class == answer.to.class
               type  == answer.to.type
               ips   == IF Mine(Name, class) /\ type \in {"A", "ANY"} THEN Records(Name, Space) ELSE <<>>
    <3>1. CacheOK /\ Name \in Text /\ Space \in Spaces /\ said = Answer(Name, type, class, Space)
      BY <2>4, AnswerTo DEF Text
    <3>2. /\ class \notin {"IN", "ANY"} => said = Only("REFUSED")
          /\ class \in {"IN", "ANY"} /\ CnameOf(Name) # None => said = Alias(CnameOf(Name), Space)
          /\ Mine(Name, class) /\ ips # <<>> => said = Say("NOERROR", None, ips, None)
          /\ Mine(Name, class) /\ ips = <<>> =>
               said = Negative(IF Exists(Name) THEN "NOERROR" ELSE "NXDOMAIN", Domain, Space)
          /\ Far(Name, class) =>
               said = IF ZoneOf(Name) # None THEN Negative("NXDOMAIN", ZoneOf(Name), Space)
                      ELSE Only("REFUSED")
      BY <3>1, AnswerIs
    <3>3. CnameOf(Name) # None => CnameOf(Name) \in Entries
      BY <3>1, EntryIs
    <3>4. /\ InZone(Name, Domain) => SoaZone(Name) = Domain
          /\ ~InZone(Name, Domain) => SoaZone(Name) = ZoneOf(Name)
          /\ SoaZone(Name) # None => InZone(Name, SoaZone(Name))
          /\ Domain # None
      BY <3>1, SoaZoneIs DEF SoaZone
    <3> HIDE DEF class, type, ips, said
    <3>5. CASE class \notin {"IN", "ANY"}
      <4>1. said = Only("REFUSED")
        BY <3>2, <3>5
      <4> QED
        BY <2>1, <4>1
    <3>6. CASE class \in {"IN", "ANY"} /\ CnameOf(Name) # None
      <4>1. said = Alias(CnameOf(Name), Space) /\ CnameOf(Name) \in Entries
        BY <3>2, <3>3, <3>6
      <4>2. said.soa = None /\ ~negative
        BY <4>1, Forms
      <4> QED
        BY <4>2
    <3>7. CASE Mine(Name, class) /\ ips # <<>>
      <4>1. said = Say("NOERROR", None, ips, None) /\ ips # <<>>
        BY <3>2, <3>7
      <4>2. said.soa = None /\ ~negative
        BY <4>1, Forms
      <4> QED
        BY <4>2
    <3>8. CASE Mine(Name, class) /\ ips = <<>>
      <4> DEFINE rcode == IF Exists(Name) THEN "NOERROR" ELSE "NXDOMAIN"
      <4>1. said = Negative(rcode, Domain, Space) /\ rcode \in {"NOERROR", "NXDOMAIN"}
        BY <3>2, <3>8
      <4> HIDE DEF rcode
      <4>2. \/ said.soa = Domain /\ negative
            \/ said.soa = None /\ ~negative
        BY <3>4, <4>1, Forms
      <4> QED
        BY <3>4, <3>8, <4>2 DEF Mine
    <3>9. CASE Far(Name, class) /\ ZoneOf(Name) # None
      <4>1. said = Negative("NXDOMAIN", ZoneOf(Name), Space)
        BY <3>2, <3>9
      <4>2. \/ said.soa = ZoneOf(Name) /\ negative
            \/ said.soa = None /\ ~negative
        BY <3>9, <4>1, Forms
      <4> QED
        BY <3>4, <3>9, <4>2 DEF Far
    <3>10. CASE Far(Name, class) /\ ZoneOf(Name) = None
      <4>1. said = Only("REFUSED")
        BY <3>2, <3>10
      <4> QED
        BY <2>1, <4>1
    <3> QED
      BY <3>5, <3>6, <3>7, <3>8, <3>9, <3>10 DEF Mine, Far
  <2> QED
    BY <2>2, <2>3, <2>4
<1> QED
  BY <1>1, Always, PTL

\* A static CNAME wins from a service, the exact entry from a star, and the
\* longest star from the shorter ones; the winner alone decides what is said.
THEOREM CnameTheorem == Spec => []CnameIsNearest
<1>1. IInv => CnameIsNearest
  <2> DEFINE over  == {parent \in Wild : IsStrictSuffix(parent, Name)}
             entry == IF Name \in Exact THEN <<"exact", Name>>
                      ELSE IF over = {} THEN None
                      ELSE <<"wild", CHOOSE p \in over : \A q \in over : IsSuffix(q, p)>>
             class == answer.to.class
             type  == answer.to.type
             said  == answer.said
  <2> SUFFICES ASSUME IInv, Asked, class # "CH"
               PROVE  IF entry = None THEN said.cname = None ELSE said = Alias(entry, Space)
    BY DEF CnameIsNearest, Space
  <2>1. /\ CacheOK /\ Name \in Text /\ class \in {"IN", "ANY"} /\ Space \in Spaces
        /\ said = Answer(Name, type, class, Space)
    BY AnswerTo DEF Text
  <2>2. entry = CnameOf(Name)
    BY <2>1, CnameIs
  <2> HIDE DEF entry, class, type, said
  <2>3. CASE CnameOf(Name) # None
    <3>1. said = Alias(CnameOf(Name), Space)
      BY <2>1, <2>3, AnswerIs
    <3> QED
      BY <2>2, <2>3, <3>1
  <2>4. CASE CnameOf(Name) = None
    <3>1. \A rcode, zone : Negative(rcode, zone, Space).cname = None
      BY DEF Negative, Say, Only
    <3>2. \A ips : Say("NOERROR", None, ips, None).cname = None
      BY DEF Say
    <3>3. Only("REFUSED").cname = None
      BY DEF Only, Say
    <3>4. said.cname = None
      BY <2>1, <2>4, <3>1, <3>2, <3>3, AnswerIs DEF Mine, Far
    <3> QED
      BY <2>2, <2>4, <3>4
  <2> QED
    BY <2>3, <2>4
<1> QED
  BY <1>1, Always, PTL

-----------------------------------------------------------------------------
(* NXDOMAIN.                                                               *)

\* The labels before the domain.
LEMMA PrefixIs ==
  ASSUME NEW name \in Text, InZone(name, Domain)
  PROVE  /\ Len(Prefix(name)) = Len(name) - Len(Domain) /\ Len(Prefix(name)) \in Nat
         /\ Prefix(name) \in Text
         /\ \A i \in 1..Len(Prefix(name)) : Prefix(name)[i] = name[i]
         /\ Len(name) \in Nat /\ Len(Domain) \in Nat
         /\ name # Domain => Len(Prefix(name)) # 0
<1> DEFINE k == Len(name) - Len(Domain)
           p == Prefix(name)
<1>1. IsSuffix(Domain, name) /\ Domain \in Text
  BY NamesAre DEF InZone
<1>2. Len(name) \in Nat /\ Len(Domain) \in Nat /\ \A i \in 1..Len(name) : name[i] \in STRING
  BY <1>1 DEF Text
<1>3. Len(Domain) <= Len(name)
  BY <1>1, SuffixIs
<1>4. k \in Nat /\ k <= Len(name)
  BY <1>2, <1>3
<1>5. p = [i \in 1..k |-> name[i]]
  BY <1>4 DEF Prefix, Text
<1>6. name # Domain => k # 0
  <2>1. k = 0 => Len(name) <= Len(Domain)
    BY <1>2
  <2> QED
    BY <1>1, <2>1, SuffixSame
<1> HIDE DEF p, k
<1>7. \A i \in 1..k : name[i] \in STRING
  BY <1>2, <1>4
<1>8. p \in Text /\ Len(p) = k /\ \A i \in 1..k : p[i] = name[i]
  BY <1>4, <1>5, <1>7 DEF Text
<1> QED
  BY <1>2, <1>4, <1>6, <1>8 DEF p, k

\* A cluster with a service is known.
LEMMA ServiceKnows ==
  ASSUME CacheOK, NEW name, OfCluster(name) # {}
  PROVE  Tail(Prefix(name)) \in Clusters /\ Knows(Tail(Prefix(name)))
<1> DEFINE c == Tail(Prefix(name))
<1>1. Has(JobsOf(c), Key(<<Head(name)>>))
  BY DEF OfCluster
<1>2. IsTable(JobsOf(c), KeysOf(JobNames), Lists) /\ Key(<<Head(name)>>) \in Int
  BY JobsOfAny, KeyOf
<1>3. Key(<<Head(name)>>) \in Keys(JobsOf(c))
  BY <1>1, <1>2, Constants, HasKey
<1>4. JobsOf(c) # <<>>
  BY <1>3 DEF Keys
<1>5. Knows(c) /\ c \in Clusters
  <2> HIDE DEF c
  <2> QED
    BY <1>4, JobsOfAny
<1> QED
  BY <1>5

\* A name above one that exists is there too, down to the domain, unless the
\* cluster of that one has more than one label.
LEMMA AboveExists ==
  ASSUME CacheOK, NEW above \in Text, NEW name \in Text, InZone(above, Domain), InZone(name, Domain),
         IsSuffix(above, name), Exists(name), Len(name) <= Len(Domain) + 2
  PROVE  Exists(above)
<1> SUFFICES ASSUME ~Apex(above), above # name PROVE Exists(above)
  BY DEF Exists
<1>1. /\ Len(Prefix(above)) = Len(above) - Len(Domain) /\ Len(Prefix(above)) \in Nat
      /\ \A i \in 1..Len(Prefix(above)) : Prefix(above)[i] = above[i]
      /\ Len(above) \in Nat /\ Len(Domain) \in Nat /\ Len(Prefix(above)) # 0
      /\ Prefix(above) \in Text
  BY PrefixIs DEF Apex
<1>2. /\ Len(Prefix(name)) = Len(name) - Len(Domain) /\ Len(Prefix(name)) \in Nat
      /\ \A i \in 1..Len(Prefix(name)) : Prefix(name)[i] = name[i]
      /\ Len(name) \in Nat /\ Prefix(name) \in Text
  BY PrefixIs
<1>3. Len(above) <= Len(name) /\ \A i \in 1..Len(above) : above[i] = name[Len(name) - Len(above) + i]
  BY SuffixIs
<1>4. ~(Len(name) <= Len(above))
  BY SuffixSame
<1> HIDE DEF Prefix
<1>5. Len(Prefix(name)) > 1
  BY <1>1, <1>2, <1>3, <1>4
<1>6. ~Apex(name)
  <2>1. Len(name) # Len(Domain)
    BY <1>2, <1>5
  <2> QED
    BY <2>1 DEF Apex
<1>7. OfCluster(name) # {}
  BY <1>2, <1>5, <1>6 DEF Exists, Merged, Single
<1> DEFINE c == Tail(Prefix(name))
<1>8. c \in Clusters /\ Knows(c)
  BY <1>7, ServiceKnows
<1>9. /\ Len(c) = Len(Prefix(name)) - 1 /\ c \in Text
      /\ \A i \in 1..Len(c) : c[i] = Prefix(name)[i + 1]
  <2>1. Prefix(name) \in Text /\ Prefix(name) # <<>>
    BY <1>2, <1>5
  <2> HIDE DEF c
  <2> QED
    BY <2>1, HeadTailProperties DEF c, Text
<1> HIDE DEF c
<1>10. Len(Prefix(name)) = 2 /\ Len(Prefix(above)) = 1 /\ Len(name) - Len(above) = 1
  <2>1. Len(Prefix(name)) = 2
    BY <1>1, <1>2, <1>5
  <2>2. /\ Len(name) \in Nat /\ Len(above) \in Nat /\ Len(Domain) \in Nat
        /\ Len(name) - Len(Domain) = 2 /\ Len(above) - Len(Domain) # 0
        /\ Len(above) - Len(Domain) \in Nat
        /\ ~(Len(name) <= Len(above))
    <3>1. Len(name) \in Nat /\ Len(name) - Len(Domain) = 2
      BY <1>2, <2>1
    <3>2. /\ Len(above) \in Nat /\ Len(Domain) \in Nat
          /\ Len(above) - Len(Domain) # 0 /\ Len(above) - Len(Domain) \in Nat
      BY <1>1
    <3> QED
      BY <1>4, <3>1, <3>2
  <2>3. Len(above) - Len(Domain) = 1 /\ Len(name) - Len(above) = 1
    BY <2>2
  <2> QED
    BY <1>1, <2>1, <2>3
<1>11. Len(c) = 1 /\ c[1] = name[2]
  <2>1. Len(c) = 1 /\ c[1] = Prefix(name)[1 + 1]
    BY <1>9, <1>10
  <2>2. Prefix(name)[2] = name[2]
    <3>1. 2 \in 1..Len(Prefix(name))
      BY <1>10
    <3> QED
      BY <1>2, <3>1
  <2> QED
    BY <2>1, <2>2
<1>12. Prefix(above)[1] = name[2]
  <2>1. 1 \in 1..Len(above) /\ Len(name) - Len(above) + 1 = 2
    <3>1. Len(above) \in Nat /\ Len(Domain) \in Nat /\ Len(above) - Len(Domain) = 1
      BY <1>1, <1>10
    <3>2. 1 \in 1..Len(above)
      BY <3>1
    <3> QED
      BY <1>10, <3>2
  <2>2. above[1] = name[2]
    BY <1>3, <2>1
  <2> QED
    BY <1>1, <1>10, <2>2
<1>13. Prefix(above) = c
  BY <1>1, <1>9, <1>10, <1>11, <1>12, SeqEqual DEF Text
<1> QED
  BY <1>8, <1>10, <1>13 DEF Exists, Merged

\* Within the domain, an NXDOMAIN hides no service of a cluster whose name is
\* one label: what is answered below a name makes the name exist.  The service
\* "eu" of a cluster "prod" that is not there is denied though a cluster
\* "eu.prod" has services, and a zone "local" denies names above "hop.local".
THEOREM NxdomainTheorem == Spec => []NxdomainHidesNoService
<1>1. IInv => NxdomainHidesNoService
  <2> SUFFICES ASSUME IInv, answer.said.rcode = "NXDOMAIN", InZone(Name, Domain),
                      NEW name \in Names, NEW type \in Types,
                      IsSuffix(Name, name), CnameOf(name) = None, Len(name) <= Len(Domain) + 2
               PROVE  Told(name, type, "IN", EdnsMax) # "NOERROR"
    BY DEF NxdomainHidesNoService
  <2>1. Asked
    <3>1. answer # NoAnswer
      BY DEF NoAnswer, Only, Say
    <3>2. answer.to \in Datagrams /\ answer.said = HandleOf(answer.to)
      BY <3>1, AnswerTo
    <3> SUFFICES ASSUME ~Asked PROVE FALSE
      OBVIOUS
    <3>3. PICK rcode \in {"none", "NOTIMP", "FORMERR", "REFUSED"} : answer.said = Only(rcode)
      BY <3>2, Others DEF Asked
    <3> QED
      BY <3>3 DEF Only, Say
  <2>2. /\ CacheOK /\ Name \in Text /\ Space \in Spaces
        /\ answer.said = Answer(Name, answer.to.type, answer.to.class, Space)
    BY <2>1, AnswerTo DEF Text
  <2>3. name \in Text
    BY Read DEF Names, Text
  <2>4. RcodeOf(Name, answer.to.class) = "NXDOMAIN"
    BY <2>2, RcodeIs
  <2>5. ~Exists(Name)
    BY <2>4 DEF RcodeOf
  <2>6. InZone(name, Domain)
    BY <2>2, <2>3, NamesAre, SuffixTransitive DEF InZone
  <2>7. ~Exists(name)
    BY <2>2, <2>3, <2>5, <2>6, AboveExists
  <2>8. RcodeOf(name, "IN") = "NXDOMAIN"
    BY <2>6, <2>7 DEF RcodeOf
  <2>9. Room(NameLen[name], EdnsMax) \in Spaces
    BY RoomIs DEF EdnsMax
  <2>10. Told(name, type, "IN", EdnsMax) \in {"NXDOMAIN", "SERVFAIL"}
    BY <2>2, <2>8, <2>9, RcodeIs DEF Told
  <2> QED
    BY <2>10
<1> QED
  BY <1>1, Always, PTL

-----------------------------------------------------------------------------
(* The cache implements the map of ClusterMap.                             *)

\* The map that a cache stands for, as CacheIsMap writes it.
MapOf(rows) ==
  [c \in Known(rows) |->
     LET jobs == AsMap(rows)[Key(c)]
     IN  [job \in Known(jobs) |-> AsMap(jobs)[Key(job)]]]

\* It is a map of maps.
LEMMA MapOfIs ==
  ASSUME NEW rows
  PROVE  /\ DOMAIN MapOf(rows) = Known(rows) /\ DOMAIN TableMap(rows) = Known(rows)
         /\ MapOf(rows) = [c \in Known(rows) |-> TableMap(TableMap(rows)[c])]
<1>1. \A c \in Known(rows) : TableMap(rows)[c] = AsMap(rows)[Key(c)]
  BY DEF TableMap
<1>2. \A c \in Known(rows) :
        MapOf(rows)[c] = TableMap(AsMap(rows)[Key(c)])
  BY Zenon DEF MapOf, TableMap
<1>3. MapOf(rows) = [c \in Known(rows) |-> MapOf(rows)[c]] /\ DOMAIN MapOf(rows) = Known(rows)
  BY DEF MapOf
<1>4. DOMAIN TableMap(rows) = Known(rows)
  BY DEF TableMap
<1> HIDE DEF MapOf, TableMap
<1>5. \A c \in Known(rows) : MapOf(rows)[c] = TableMap(TableMap(rows)[c])
  BY <1>1, <1>2
<1> QED
  BY <1>3, <1>4, <1>5

\* A cluster's table that is inserted sets the map at the cluster.
LEMMA MapOfInsert ==
  ASSUME CacheOK, NEW c \in Clusters, NEW jobs \in JobTables
  PROVE  MapOf(Insert(cache, Key(c), jobs)) = Map!Put(MapOf(cache), c, TableMap(jobs))
<1> DEFINE t == Insert(cache, Key(c), jobs)
<1>1. TableMap(t) = Map!Put(TableMap(cache), c, jobs)
  BY Constants, MapInsert DEF CacheOK
<1> HIDE DEF t
<1>2. Known(t) = Known(cache) \cup {c}
      /\ \A d \in Known(t) : TableMap(t)[d] = IF d = c THEN jobs ELSE TableMap(cache)[d]
  <2>1. DOMAIN TableMap(t) = Known(t) /\ DOMAIN TableMap(cache) = Known(cache)
    BY MapOfIs
  <2>2. TableMap(t) = [d \in Known(cache) \cup {c} |-> IF d = c THEN jobs ELSE TableMap(cache)[d]]
    BY <1>1, <2>1 DEF Map!Put
  <2> HIDE DEF TableMap
  <2> QED
    BY <2>1, <2>2
<1>3. \A d \in Known(t) :
        TableMap(TableMap(t)[d])
          = IF d = c THEN TableMap(jobs) ELSE TableMap(TableMap(cache)[d])
  BY <1>2
<1>4. /\ DOMAIN MapOf(cache) = Known(cache)
      /\ MapOf(cache) = [d \in Known(cache) |-> TableMap(TableMap(cache)[d])]
      /\ MapOf(t) = [d \in Known(t) |-> TableMap(TableMap(t)[d])]
  BY MapOfIs
<1>5. \A d \in Known(cache) : MapOf(cache)[d] = TableMap(TableMap(cache)[d])
  BY <1>4
<1>6. MapOf(t) = [d \in Known(cache) \cup {c} |->
                    IF d = c THEN TableMap(jobs) ELSE MapOf(cache)[d]]
  BY <1>2, <1>3, <1>4, <1>5
<1> QED
  BY <1>4, <1>6 DEF Map!Put, t

\* A table of jobs is a view.
LEMMA ViewIs ==
  ASSUME NEW jobs \in JobTables
  PROVE  TableMap(jobs) \in Map!Views
<1>1. IsTable(jobs, KeysOf(JobNames), Lists)
  BY JobTablesAre
<1>2. Known(jobs) \in SUBSET JobNames /\ \A job \in Known(jobs) : TableMap(jobs)[job] \in Lists
  BY <1>1, Constants, KnownIs
<1>3. TableMap(jobs) = [job \in Known(jobs) |-> TableMap(jobs)[job]]
  BY DEF TableMap
<1>4. TableMap(jobs) \in [Known(jobs) -> Lists]
  BY <1>2, <1>3
<1> QED
  BY <1>2, <1>4 DEF Map!Views

\* A full refresh replaces the jobs of one cluster.
LEMMA ReplaceIs ==
  ASSUME CacheOK, NEW c \in Clusters, Replace(c)
  PROVE  \E view \in Map!Views : MapOf(cache') = Map!Put(MapOf(cache), c, view)
<1>1. PICK jobs \in JobTables : cache' = Insert(cache, Key(c), jobs)
  BY Replaced
<1> QED
  BY <1>1, MapOfInsert, ViewIs

\* A job refresh sets one job of one cluster.
LEMMA SetJobIs ==
  ASSUME CacheOK, NEW c \in Clusters, NEW job \in JobNames, NEW list \in Lists,
         SetJob(c, job, list)
  PROVE  MapOf(cache') = Map!Put(MapOf(cache), c, Map!Put(
           IF c \in DOMAIN MapOf(cache) THEN MapOf(cache)[c] ELSE Map!NoJobs, job, list))
<1> DEFINE jobs == Insert(JobsOf(c), Key(job), list)
           view == IF c \in DOMAIN MapOf(cache) THEN MapOf(cache)[c] ELSE Map!NoJobs
<1>1. jobs \in JobTables /\ cache' = Insert(cache, Key(c), jobs)
  BY Set
<1>2. MapOf(cache') = Map!Put(MapOf(cache), c, TableMap(jobs))
  BY <1>1, MapOfInsert
<1>3. IsTable(JobsOf(c), KeysOf(JobNames), Lists)
  BY JobsOfIs, JobTablesAre
<1>4. TableMap(jobs) = Map!Put(TableMap(JobsOf(c)), job, list)
  BY <1>3, Constants, MapInsert
<1>5. TableMap(JobsOf(c)) = view
  <2>1. /\ DOMAIN MapOf(cache) = Known(cache)
        /\ MapOf(cache) = [d \in Known(cache) |-> TableMap(TableMap(cache)[d])]
    BY MapOfIs
  <2>2. /\ Knows(c) <=> c \in Known(cache)
        /\ Knows(c) => TableMap(cache)[c] = JobsOf(c)
        /\ ~Knows(c) => JobsOf(c) = <<>>
    BY JobsOfIs
  <2>3. CASE Knows(c)
    <3>1. MapOf(cache)[c] = TableMap(TableMap(cache)[c])
      BY <2>1, <2>2, <2>3
    <3> QED
      BY <2>1, <2>2, <2>3, <3>1
  <2>4. CASE ~Knows(c)
    <3>1. Known(<<>>) = {}
      BY MapEmpty
    <3>2. TableMap(<<>>) = [x \in {} |-> AsMap(<<>>)[Key(x)]]
      BY <3>1 DEF TableMap
    <3>3. TableMap(<<>>) = Map!NoJobs
      BY <3>2 DEF Map!NoJobs
    <3> QED
      BY <2>1, <2>2, <2>4, <3>3
  <2> QED
    BY <2>3, <2>4
<1> QED
  BY <1>2, <1>4, <1>5

\* Clearing a cluster takes it from the map.
LEMMA ClearIs ==
  ASSUME CacheOK, NEW c \in Clusters, Clear(c)
  PROVE  MapOf(cache') = [d \in DOMAIN MapOf(cache) \ {c} |-> MapOf(cache)[d]]
<1>1. cache' = RemoveKey(cache, Key(c))
  BY DEF Clear
<1>2. TableMap(cache') = Without(TableMap(cache), c)
  BY <1>1, Constants, MapRemove DEF CacheOK
<1>3. /\ DOMAIN MapOf(cache) = Known(cache) /\ DOMAIN TableMap(cache) = Known(cache)
      /\ MapOf(cache) = [d \in Known(cache) |-> TableMap(TableMap(cache)[d])]
      /\ DOMAIN TableMap(cache') = Known(cache')
      /\ MapOf(cache') = [d \in Known(cache') |-> TableMap(TableMap(cache')[d])]
  BY MapOfIs
<1> HIDE DEF MapOf, TableMap
<1>4. Known(cache') = Known(cache) \ {c}
      /\ \A d \in Known(cache') : TableMap(cache')[d] = TableMap(cache)[d]
  BY <1>2, <1>3 DEF Without
<1>5. \A d \in Known(cache) : MapOf(cache)[d] = TableMap(TableMap(cache)[d])
  BY <1>3
<1> QED
  BY <1>3, <1>4, <1>5

\* The sorted tables implement the map from clusters and jobs to lists, step
\* by step: a refresh of one job leaves the other jobs and clusters alone,
\* whatever the table had to shift to make room for its row.
THEOREM CacheTheorem == Spec => CacheIsMap
<1> DEFINE Sets == \A c \in Clusters, job \in JobNames, list \in Lists :
                     SetJob(c, job, list) => Map!SetJob(c, job, list)
<1>1. Init => Map!Init
  <2> SUFFICES ASSUME Init PROVE Map!Init
    OBVIOUS
  <2>1. cache = <<>> /\ Known(<<>>) = {}
    BY MapEmpty DEF Init
  <2>2. MapOf(cache) = [c \in {} |-> Map!NoJobs]
    BY <2>1, MapOfIs
  <2> QED
    BY <2>2 DEF Map!Init, MapOf
<1>2. IInv => Sets
  <2> SUFFICES ASSUME IInv, NEW c \in Clusters, NEW job \in JobNames, NEW list \in Lists,
                      SetJob(c, job, list)
               PROVE  Map!SetJob(c, job, list)
    OBVIOUS
  <2>1. MapOf(cache') = Map!Put(MapOf(cache), c, Map!Put(
          IF c \in DOMAIN MapOf(cache) THEN MapOf(cache)[c] ELSE Map!NoJobs, job, list))
    BY SetJobIs DEF IInv
  <2> QED
    BY <2>1 DEF Map!SetJob, Map!ViewOf, MapOf
<1>3. IInv /\ [Next]_vars => [Map!Next]_(MapOf(cache))
  <2> SUFFICES ASSUME IInv, [Next]_vars, cache' # cache PROVE Map!Next
    BY DEF vars
  <2>0. CacheOK
    BY DEF IInv
  <2>1. ASSUME NEW c \in Clusters, Replace(c)
        PROVE  Map!Next
    <3>1. \E view \in Map!Views : MapOf(cache') = Map!Put(MapOf(cache), c, view)
      BY <2>0, <2>1, ReplaceIs
    <3>2. Map!Replace
      BY <3>1 DEF Map!Replace, MapOf
    <3> QED
      BY <3>2 DEF Map!Next
  <2>2. ASSUME NEW c \in Clusters, Clear(c)
        PROVE  Map!Next
    <3>1. MapOf(cache') = [d \in DOMAIN MapOf(cache) \ {c} |-> MapOf(cache)[d]]
      BY <2>0, <2>2, ClearIs
    <3>2. Map!Clear
      BY <3>1 DEF Map!Clear, MapOf
    <3> QED
      BY <3>2 DEF Map!Next
  <2>3. ASSUME NEW c \in Clusters, NEW job \in JobNames, NEW list \in Lists, SetJob(c, job, list)
        PROVE  Map!Next
    BY <1>2, <2>3 DEF Map!Next
  <2> QED
    BY <2>1, <2>2, <2>3 DEF Next, Handle, SendTo, vars
<1>4. IInv /\ [Next]_vars => [Sets]_cache
  BY <1>2
<1> QED
  BY <1>1, <1>3, <1>4, Always, PTL DEF CacheIsMap, Spec, Map!Spec, MapOf
=============================================================================
