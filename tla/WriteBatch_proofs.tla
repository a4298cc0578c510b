--------------------------- MODULE WriteBatch_proofs ---------------------------
(***************************************************************************)
(* Proofs about batches and write/3: every update that was answered ok is  *)
(* in one place and one only, reaches the database once and in order, and  *)
(* savepoints fit their batch, for any number of processes, updates,       *)
(* savepoints and refused writes.                                          *)
(*                                                                         *)
(* Two operators of the model are recursive functions on the prefixes of a *)
(* list.  What they compute is proved by induction, with RecursionFacts.   *)
(***************************************************************************)
EXTENDS WriteBatch, SequenceTheorems, RecursionFacts

-----------------------------------------------------------------------------
(* The updates of existing families *)

\* e are the updates with an existing family among the first n of s, in order.
Selects(e, s, n) ==
    /\ e \in Seq(Updates)
    /\ \A i \in 1..Len(e) : \E k \in 1..n : e[i] = s[k] /\ Exists(s[k].cf)
    /\ \A k \in 1..n : Exists(s[k].cf) => \E i \in 1..Len(e) : e[i] = s[k]
    /\ \A i, j \in 1..Len(e) : i < j => \E k, l \in 1..n : k < l /\ e[i] = s[k] /\ e[j] = s[l]

\* One more update is looked at.
LEMMA SelectsOneMore ==
  ASSUME NEW s \in Seq(Updates), NEW n \in Nat, n + 1 <= Len(s), NEW e, Selects(e, s, n)
  PROVE  Selects(IF Exists(s[n + 1].cf) THEN Append(e, s[n + 1]) ELSE e, s, n + 1)
<1>. DEFINE m == n + 1
            x == s[m]
            a == Append(e, x)
<1>1. x \in Updates /\ m \in 1..m /\ 1..n \subseteq 1..m /\ \A k \in 1..m : k = m \/ k \in 1..n
  OBVIOUS
<1>2. e \in Seq(Updates) /\ Len(e) \in Nat
  BY DEF Selects
<1>3. CASE ~Exists(x.cf)
  <2>. HIDE DEF m, x
  <2>1. Selects(e, s, m)
    BY <1>1, <1>3 DEF Selects, x
  <2>. QED BY <2>1, <1>3 DEF m, x
<1>4. CASE Exists(x.cf)
  <2>1. /\ a \in Seq(Updates)
        /\ Len(a) = Len(e) + 1
        /\ \A i \in 1..Len(e) : a[i] = e[i]
        /\ a[Len(e) + 1] = x
    BY <1>1, <1>2, AppendProperties
  <2>2. \A i \in 1..Len(a) : i = Len(e) + 1 \/ i \in 1..Len(e)
    BY <1>2, <2>1
  <2>3. 1..Len(e) \subseteq 1..Len(a) /\ Len(e) + 1 \in 1..Len(a)
    BY <1>2, <2>1
  <2>. HIDE DEF a
  <2>4. \A i \in 1..Len(a) : \E k \in 1..m : a[i] = s[k] /\ Exists(s[k].cf)
    <3>. TAKE i \in 1..Len(a)
    <3>1. CASE i = Len(e) + 1
      BY <1>1, <1>4, <2>1, <3>1
    <3>2. CASE i \in 1..Len(e)
      <4>1. PICK k \in 1..n : e[i] = s[k] /\ Exists(s[k].cf)
        BY <3>2 DEF Selects
      <4>. QED BY <1>1, <2>1, <3>2, <4>1
    <3>. QED BY <2>2, <3>1, <3>2
  <2>5. \A k \in 1..m : Exists(s[k].cf) => \E i \in 1..Len(a) : a[i] = s[k]
    <3>. SUFFICES ASSUME NEW k \in 1..m, Exists(s[k].cf) PROVE \E i \in 1..Len(a) : a[i] = s[k]
      OBVIOUS
    <3>1. CASE k = m
      BY <2>1, <2>3, <3>1
    <3>2. CASE k \in 1..n
      <4>1. PICK i \in 1..Len(e) : e[i] = s[k]
        BY <3>2 DEF Selects
      <4>. QED BY <2>1, <2>3, <4>1
    <3>. QED BY <1>1, <3>1, <3>2
  <2>6. \A i, j \in 1..Len(a) : i < j => \E k, l \in 1..m : k < l /\ a[i] = s[k] /\ a[j] = s[l]
    <3>. SUFFICES ASSUME NEW i \in 1..Len(a), NEW j \in 1..Len(a), i < j
                  PROVE  \E k, l \in 1..m : k < l /\ a[i] = s[k] /\ a[j] = s[l]
      OBVIOUS
    <3>1. i \in 1..Len(e)
      BY <1>2, <2>1
    <3>2. CASE j = Len(e) + 1
      <4>1. PICK k \in 1..n : e[i] = s[k]
        BY <3>1 DEF Selects
      <4>2. k < m /\ k \in 1..m
        OBVIOUS
      <4>. QED BY <1>1, <2>1, <3>1, <3>2, <4>1, <4>2
    <3>3. CASE j \in 1..Len(e)
      <4>1. PICK k, l \in 1..n : k < l /\ e[i] = s[k] /\ e[j] = s[l]
        BY <3>1, <3>3 DEF Selects
      <4>. QED BY <1>1, <2>1, <3>1, <3>3, <4>1
    <3>. QED BY <2>2, <3>2, <3>3
  <2>7. Selects(a, s, m)
    BY <2>1, <2>4, <2>5, <2>6 DEF Selects
  <2>. QED BY <2>7, <1>4 DEF a
<1>. QED BY <1>3, <1>4

\* Existing keeps what exists, in order, and nothing else.
LEMMA ExistingIs ==
  ASSUME NEW s \in Seq(Updates)
  PROVE  Selects(Existing(s), s, Len(s))
<1>. DEFINE L == Len(s)
            Value(f, n) == IF n = 0 THEN <<>>
                           ELSE IF Exists(s[n].cf) THEN Append(f[n - 1], s[n]) ELSE f[n - 1]
            upTo == CHOOSE f : f = [n \in 0..L |-> Value(f, n)]
            step == [n \in 1..L |-> [q \in Seq(Updates) |-> IF Exists(s[n].cf) THEN Append(q, s[n]) ELSE q]]
<1>1. L \in Nat /\ <<>> \in Seq(Updates) /\ \A n \in 1..L : s[n] \in Updates
  OBVIOUS
<1>2. step \in [1..L -> [Seq(Updates) -> Seq(Updates)]]
  BY <1>1
<1>3. PICK f \in [0..L -> Seq(Updates)] : f[0] = <<>> /\ \A n \in 1..L : f[n] = step[n][f[n - 1]]
  <2>. DEFINE S == Seq(Updates)
              a == <<>>
  <2>. HIDE DEF step, L, S, a
  <2>1. \E f \in [0..L -> S] : f[0] = a /\ \A n \in 1..L : f[n] = step[n][f[n - 1]]
    <3>1. L \in Nat /\ a \in S /\ step \in [1..L -> [S -> S]]
      BY <1>1, <1>2 DEF S, a
    <3>. QED BY <3>1, Recursion
  <2>. QED BY <2>1 DEF S, a
<1>4. f = [n \in 0..L |-> Value(f, n)]
  <2>1. \A n \in 0..L : n # 0 => f[n - 1] \in Seq(Updates) /\ n \in 1..L
    BY <1>1
  <2>. QED BY <1>3, <2>1
<1>5. upTo = [n \in 0..L |-> Value(upTo, n)]
  <2>. HIDE DEF Value, L
  <2>. QED BY <1>4
<1>6. Existing(s) = upTo[L]
  BY DEF Existing
<1>. DEFINE T == {n \in Nat : n <= L => Selects(upTo[n], s, n)}
<1>7. 0 \in T
  <2>1. upTo[0] = <<>>
    <3>. HIDE DEF upTo
    <3>. QED BY <1>1, <1>5
  <2>2. Selects(<<>>, s, 0)
    BY <1>1 DEF Selects
  <2>. HIDE DEF upTo
  <2>. QED BY <2>1, <2>2
<1>8. ASSUME NEW n \in Nat, n \in T PROVE n + 1 \in T
  <2>. SUFFICES ASSUME n + 1 <= L PROVE Selects(upTo[n + 1], s, n + 1)
    OBVIOUS
  <2>1. Selects(upTo[n], s, n)
    <3>. HIDE DEF upTo
    <3>. QED BY <1>8, <1>1
  <2>2. upTo[n + 1] = IF Exists(s[n + 1].cf) THEN Append(upTo[n], s[n + 1]) ELSE upTo[n]
    <3>. HIDE DEF upTo
    <3>1. n + 1 \in 0..L /\ n + 1 # 0 /\ (n + 1) - 1 = n
      BY <1>1
    <3>. QED BY <1>5, <3>1
  <2>. HIDE DEF upTo
  <2>. QED BY <2>1, <2>2, SelectsOneMore
<1>9. L \in T
  <2>. HIDE DEF T
  <2>. QED BY <1>1, <1>7, <1>8, Induction
<1>. QED BY <1>1, <1>6, <1>9
\* The ids of a sequence grow.
Increasing(s) == \A i, j \in 1..Len(s) : i < j => s[i].id < s[j].id

\* A write takes every update of a batch: those with a family reach the
\* database in order, the others are left out.
LEMMA TakenIs ==
  ASSUME NEW s \in Seq(Updates), Increasing(s)
  PROVE  LET e    == Existing(s)
             left == {u.id : u \in {v \in ToSet(s) : ~Exists(v.cf)}}
         IN  /\ e \in Seq(Updates) /\ Increasing(e)
             /\ \A i \in 1..Len(e) : \E k \in 1..Len(s) : e[i] = s[k]
             /\ Ids(e) \cup left = Ids(s)
             /\ Ids(e) \cap left = {}
<1>. DEFINE e    == Existing(s)
            left == {u.id : u \in {v \in ToSet(s) : ~Exists(v.cf)}}
<1>1. Selects(e, s, Len(s))
  BY ExistingIs
<1>2. e \in Seq(Updates) /\ DOMAIN e = 1..Len(e) /\ DOMAIN s = 1..Len(s)
  BY <1>1 DEF Selects
<1>3. \A x : x \in left <=> \E k \in 1..Len(s) : ~Exists(s[k].cf) /\ s[k].id = x
  <2>1. \A v : v \in ToSet(s) <=> \E k \in 1..Len(s) : s[k] = v
    BY <1>2 DEF ToSet
  <2>. QED BY <2>1
<1>4. \A x : x \in Ids(e) <=> \E k \in 1..Len(s) : Exists(s[k].cf) /\ s[k].id = x
  <2>. HIDE DEF e
  <2>1. \A x : x \in Ids(e) <=> \E i \in 1..Len(e) : e[i].id = x
    BY <1>2 DEF Ids
  <2>2. \A i \in 1..Len(e) : \E k \in 1..Len(s) : e[i] = s[k] /\ Exists(s[k].cf)
    BY <1>1 DEF Selects
  <2>3. \A k \in 1..Len(s) : Exists(s[k].cf) => \E i \in 1..Len(e) : e[i] = s[k]
    BY <1>1 DEF Selects
  <2>. TAKE x
  <2>4. ASSUME NEW i \in 1..Len(e), e[i].id = x
        PROVE  \E k \in 1..Len(s) : Exists(s[k].cf) /\ s[k].id = x
    BY <2>2, <2>4
  <2>5. ASSUME NEW k \in 1..Len(s), Exists(s[k].cf), s[k].id = x
        PROVE  \E i \in 1..Len(e) : e[i].id = x
    BY <2>3, <2>5
  <2>. QED BY <2>1, <2>4, <2>5
<1>5. \A x : x \in Ids(s) <=> \E k \in 1..Len(s) : s[k].id = x
  BY <1>2 DEF Ids
<1>6. \A k, l \in 1..Len(s) : s[k].id = s[l].id => k = l
  <2>1. \A k \in 1..Len(s) : s[k].id \in Int
    <3>1. \A u \in Updates : u.id \in Int
      BY DEF Updates
    <3>2. \A k \in 1..Len(s) : s[k] \in Updates
      OBVIOUS
    <3>. QED BY <3>1, <3>2
  <2>2. \A k, l \in 1..Len(s) : k < l \/ l < k \/ k = l
    OBVIOUS
  <2>. QED BY <2>1, <2>2 DEF Increasing
<1>. HIDE DEF e, left
<1>7. Increasing(e)
  <2>. SUFFICES ASSUME NEW i \in 1..Len(e), NEW j \in 1..Len(e), i < j PROVE e[i].id < e[j].id
    BY DEF Increasing
  <2>1. PICK k, l \in 1..Len(s) : k < l /\ e[i] = s[k] /\ e[j] = s[l]
    BY <1>1 DEF Selects
  <2>. QED BY <2>1 DEF Increasing
<1>8. Ids(e) \cap left = {}
  BY <1>3, <1>4, <1>6
<1>9. Ids(e) \cup left = Ids(s)
  BY <1>3, <1>4, <1>5
<1>10. \A i \in 1..Len(e) : \E k \in 1..Len(s) : e[i] = s[k]
  BY <1>1 DEF Selects
<1>. QED BY <1>2, <1>7, <1>8, <1>9, <1>10 DEF e, left

-----------------------------------------------------------------------------
(* The list of write/3 *)

Sendable == [id : Nat, cf : Families, by : {"write"}]

\* r is what the fold has made of the first n items of a list.
Folded(r, list, n) ==
    /\ r \in [ok : BOOLEAN, batch : Seq(Sendable)]
    /\ \A i \in 1..Len(r.batch) : r.batch[i].id \in next..(next + n - 1)
    /\ Increasing(r.batch)
    /\ r.ok => \A i \in 1..n : list[i].act # "bad" /\ RetrieveColumnFamily(list[i].cf)

\* The items that a list can have.
LEMMA ActionsAre ==
  ASSUME NEW action \in Actions
  PROVE  /\ action.act \in {"put", "clear", "bad"} /\ action.cf \in Families
         /\ action.act = "clear" => RetrieveColumnFamily(action.cf)
BY DEF Actions, Families, RetrieveColumnFamily

\* What write_batch_item does with an item.
LEMMA ItemIs ==
  ASSUME NEW r \in [ok : BOOLEAN, batch : Seq(Sendable)], NEW i \in Nat \ {0},
         NEW action \in Actions, next \in Nat
  PROVE  LET q == WriteBatchItem(r, i, action)
             u == [id |-> next + i - 1, cf |-> action.cf, by |-> "write"]
         IN  /\ q \in [ok : BOOLEAN, batch : Seq(Sendable)]
             /\ u \in Sendable
             /\ q.batch = r.batch \/ q.batch = <<>> \/ q.batch = Append(r.batch, u)
             /\ q.ok => r.ok /\ action.act # "bad" /\ RetrieveColumnFamily(action.cf)
<1>. DEFINE q == WriteBatchItem(r, i, action)
            u == [id |-> next + i - 1, cf |-> action.cf, by |-> "write"]
<1>1. u \in Sendable
  BY ActionsAre DEF Sendable
<1>2. r.ok \in BOOLEAN /\ r.batch \in Seq(Sendable) /\ r = [ok |-> r.ok, batch |-> r.batch]
  OBVIOUS
<1>. HIDE DEF u
<1>3. Append(r.batch, u) \in Seq(Sendable)
  BY <1>1, <1>2
<1>4. CASE ~r.ok
  <2>1. q = r
    BY <1>4 DEF WriteBatchItem
  <2>. QED BY <1>1, <1>4, <2>1 DEF u
<1>5. CASE r.ok /\ action.act = "clear"
  <2>1. q = [r EXCEPT !.batch = <<>>]
    BY <1>5 DEF WriteBatchItem
  <2>2. q = [ok |-> r.ok, batch |-> <<>>]
    BY <1>2, <2>1
  <2>. HIDE DEF q
  <2>. QED BY <1>1, <1>2, <1>5, <2>2, ActionsAre DEF q, u
<1>6. CASE r.ok /\ action.act = "put" /\ RetrieveColumnFamily(action.cf)
  <2>1. q = [r EXCEPT !.batch = Append(@, u)]
    BY <1>6 DEF WriteBatchItem, u
  <2>2. q = [ok |-> r.ok, batch |-> Append(r.batch, u)]
    BY <1>2, <2>1
  <2>. HIDE DEF q
  <2>. QED BY <1>1, <1>2, <1>3, <1>6, <2>2 DEF q, u
<1>7. CASE r.ok /\ action.act # "clear" /\ ~(action.act = "put" /\ RetrieveColumnFamily(action.cf))
  <2>1. q = [r EXCEPT !.ok = FALSE]
    BY <1>7 DEF WriteBatchItem
  <2>2. q = [ok |-> FALSE, batch |-> r.batch]
    BY <1>2, <2>1
  <2>. HIDE DEF q
  <2>. QED BY <1>1, <1>2, <2>2 DEF q, u
<1>. QED BY <1>2, <1>4, <1>5, <1>6, <1>7, ActionsAre

\* One more item is folded.
LEMMA FoldsOneMore ==
  ASSUME NEW list \in Seq(Actions), NEW n \in Nat, n + 1 <= Len(list), NEW r, Folded(r, list, n),
         next \in Nat
  PROVE  Folded(WriteBatchItem(r, n + 1, list[n + 1]), list, n + 1)
<1>. DEFINE m == n + 1
            q == WriteBatchItem(r, m, list[m])
            u == [id |-> next + m - 1, cf |-> list[m].cf, by |-> "write"]
            b == r.batch
<1>1. list[m] \in Actions /\ m \in Nat \ {0}
  OBVIOUS
<1>2. r \in [ok : BOOLEAN, batch : Seq(Sendable)] /\ b \in Seq(Sendable)
  BY DEF Folded
<1>3. /\ q \in [ok : BOOLEAN, batch : Seq(Sendable)]
      /\ u \in Sendable
      /\ q.batch = b \/ q.batch = <<>> \/ q.batch = Append(b, u)
      /\ q.ok => r.ok /\ list[m].act # "bad" /\ RetrieveColumnFamily(list[m].cf)
  <2>. HIDE DEF m
  <2>. QED BY <1>1, <1>2, ItemIs
<1>4. u.id = next + n
  OBVIOUS
<1>. HIDE DEF q, u, b
<1>5. q.ok => \A i \in 1..m : list[i].act # "bad" /\ RetrieveColumnFamily(list[i].cf)
  <2>1. \A i \in 1..m : i = m \/ i \in 1..n
    OBVIOUS
  <2>. QED BY <1>3, <2>1 DEF Folded
<1>6. \A i \in 1..Len(b) : b[i].id \in next..(next + n - 1)
  BY DEF Folded, b
<1>7. /\ \A i \in 1..Len(q.batch) : q.batch[i].id \in next..(next + m - 1)
      /\ Increasing(q.batch)
  <2>1. CASE q.batch = b
    BY <1>6, <2>1 DEF Folded, b
  <2>2. CASE q.batch = <<>>
    BY <2>2 DEF Increasing
  <2>3. CASE q.batch = Append(b, u)
    <3>1. /\ Len(b) \in Nat
          /\ Len(q.batch) = Len(b) + 1
          /\ \A i \in 1..Len(b) : q.batch[i] = b[i]
          /\ q.batch[Len(b) + 1] = u
      BY <1>2, <1>3, <2>3, AppendProperties
    <3>2. \A i \in 1..Len(q.batch) : i = Len(b) + 1 \/ i \in 1..Len(b)
      BY <3>1
    <3>3. \A i \in 1..Len(q.batch) : q.batch[i].id \in next..(next + m - 1)
      <4>. TAKE i \in 1..Len(q.batch)
      <4>1. CASE i = Len(b) + 1
        BY <1>4, <3>1, <4>1
      <4>2. CASE i \in 1..Len(b)
        <5>1. q.batch[i].id \in next..(next + n - 1)
          BY <1>6, <3>1, <4>2
        <5>. QED BY <5>1
      <4>. QED BY <3>2, <4>1, <4>2
    <3>4. Increasing(b)
      BY DEF Folded, b
    <3>5. \A i, j \in 1..Len(q.batch) : i < j => q.batch[i].id < q.batch[j].id
      <4>. SUFFICES ASSUME NEW i \in 1..Len(q.batch), NEW j \in 1..Len(q.batch), i < j
                    PROVE  q.batch[i].id < q.batch[j].id
        OBVIOUS
      <4>1. i \in 1..Len(b)
        BY <3>1
      <4>2. CASE j \in 1..Len(b)
        BY <3>1, <3>4, <4>1, <4>2 DEF Increasing
      <4>3. CASE j = Len(b) + 1
        <5>1. b[i].id < next + n
          BY <1>6, <4>1
        <5>. QED BY <1>4, <3>1, <4>1, <4>3, <5>1
      <4>. QED BY <3>2, <4>2, <4>3
    <3>. QED BY <3>3, <3>5 DEF Increasing
  <2>. QED BY <1>3, <2>1, <2>2, <2>3
<1>8. Folded(q, list, m)
  BY <1>3, <1>5, <1>7 DEF Folded
<1>. QED BY <1>8 DEF q

\* A list that write/3 accepts has no item that it may not accept, and its
\* updates get the next numbers, in order.
LEMMA BatchOfIs ==
  ASSUME NEW list \in Seq(Actions), next \in Nat
  PROVE  Folded(BatchOf(list), list, Len(list))
<1>. DEFINE L == Len(list)
            S == [ok : BOOLEAN, batch : Seq(Sendable)]
            a == [ok |-> TRUE, batch |-> <<>>]
            Value(f, n) == IF n = 0 THEN a ELSE WriteBatchItem(f[n - 1], n, list[n])
            after == CHOOSE f : f = [n \in 0..L |-> Value(f, n)]
            step == [n \in 1..L |-> [r \in S |-> WriteBatchItem(r, n, list[n])]]
<1>1. L \in Nat /\ a \in S /\ \A n \in 1..L : list[n] \in Actions
  OBVIOUS
<1>2. step \in [1..L -> [S -> S]]
  <2>1. ASSUME NEW n \in 1..L, NEW r \in S PROVE WriteBatchItem(r, n, list[n]) \in S
    <3>1. n \in Nat \ {0} /\ list[n] \in Actions
      BY <1>1
    <3>. QED BY <3>1, ItemIs
  <2>. HIDE DEF S, L
  <2>. QED BY <2>1
<1>3. PICK f \in [0..L -> S] : f[0] = a /\ \A n \in 1..L : f[n] = step[n][f[n - 1]]
  <2>1. L \in Nat /\ a \in S
    BY <1>1
  <2>. HIDE DEF step, L, S, a
  <2>. QED BY <2>1, <1>2, Recursion
<1>4. f = [n \in 0..L |-> Value(f, n)]
  <2>1. \A n \in 0..L : n # 0 => n - 1 \in 0..L /\ n \in 1..L
    BY <1>1
  <2>. HIDE DEF S, L, a
  <2>2. \A n \in 0..L : n # 0 => f[n - 1] \in S /\ n \in 1..L
    BY <2>1
  <2>. QED BY <1>3, <2>2
<1>5. after = [n \in 0..L |-> Value(after, n)]
  <2>. HIDE DEF Value, L
  <2>. QED BY <1>4
<1>6. BatchOf(list) = after[L]
  BY DEF BatchOf
<1>. DEFINE T == {n \in Nat : n <= L => Folded(after[n], list, n)}
<1>7. 0 \in T
  <2>1. after[0] = a
    <3>. HIDE DEF after
    <3>. QED BY <1>1, <1>5
  <2>2. Folded(a, list, 0)
    BY <1>1 DEF Folded, Increasing
  <2>. HIDE DEF after
  <2>. QED BY <2>1, <2>2
<1>8. ASSUME NEW n \in Nat, n \in T PROVE n + 1 \in T
  <2>. HIDE DEF after
  <2>. SUFFICES ASSUME n + 1 <= L PROVE Folded(after[n + 1], list, n + 1)
    OBVIOUS
  <2>1. Folded(after[n], list, n)
    BY <1>8, <1>1
  <2>2. after[n + 1] = WriteBatchItem(after[n], n + 1, list[n + 1])
    <3>1. n + 1 \in 0..L /\ n + 1 # 0 /\ (n + 1) - 1 = n
      BY <1>1
    <3>. HIDE DEF L
    <3>. QED BY <1>5, <3>1
  <2>. QED BY <2>1, <2>2, FoldsOneMore
<1>9. L \in T
  <2>. HIDE DEF T
  <2>. QED BY <1>1, <1>7, <1>8, Induction
<1>. QED BY <1>1, <1>6, <1>9

-----------------------------------------------------------------------------
(* The invariant *)

Types ==
    /\ ops \in [Owners -> Seq(Updates)]
    /\ savepoints \in [Owners -> Seq(0..MaxUpdates)]
    /\ writing \in [Owners -> BOOLEAN]
    /\ word \in [Cfs -> {"open", "dropped", "closed"}]
    /\ dbClosed \in BOOLEAN
    /\ applied \in Seq(Updates)
    /\ next \in 1..(MaxUpdates + 1)
    /\ failures \in 0..MaxFailures
    /\ discarded \cup ignored \cup refused \subseteq 1..MaxUpdates

\* The batch s holds updates of its owner only, numbered as they came, all
\* before n.
Batch(o, s, n) ==
    /\ Len(s) < n
    /\ Increasing(s)
    /\ \A i \in 1..Len(s) : s[i].by = o /\ s[i].id < n

Batches == \A o \in Owners : Batch(o, ops[o], next)

\* No update is in two batches.
Apart == \A o, p \in Owners : o # p => Ids(ops[o]) \cap Ids(ops[p]) = {}

\* What of a batch was written comes before what it still holds.
Ordered ==
    /\ \A k \in 1..Len(applied) : applied[k].id < next
    /\ \A o \in Owners : ~writing[o] =>
         \A k \in 1..Len(applied), i \in 1..Len(ops[o]) :
             applied[k].by = o => applied[k].id < ops[o][i].id
    /\ AppliedOnceInOrder

IInv == Types /\ Batches /\ Apart /\ SavepointsFit /\ Ordered /\ EveryUpdateIsAccountedFor

-----------------------------------------------------------------------------
(* One batch *)

\* The elements of a sequence of updates, and their ids.
LEMMA UpdatesAre ==
  ASSUME NEW s \in Seq(Updates)
  PROVE  /\ Len(s) \in Nat /\ DOMAIN s = 1..Len(s)
         /\ \A i \in 1..Len(s) : s[i] \in Updates /\ s[i].id \in 1..MaxUpdates
         /\ \A x : x \in Ids(s) <=> \E i \in 1..Len(s) : s[i].id = x
<1>1. /\ Len(s) \in Nat /\ DOMAIN s = 1..Len(s)
      /\ \A i \in 1..Len(s) : s[i] \in Updates
  OBVIOUS
<1>2. \A u \in Updates : u.id \in 1..MaxUpdates
  BY DEF Updates
<1>. QED BY <1>1, <1>2 DEF Ids

\* A batch without updates.
LEMMA EmptyBatch ==
  ASSUME NEW o, NEW n \in Nat \ {0}
  PROVE  <<>> \in Seq(Updates) /\ Len(<<>>) = 0 /\ Batch(o, <<>>, n) /\ Ids(<<>>) = {}
BY DEF Batch, Increasing, Ids

\* Updates of others do not touch a batch.
LEMMA BatchStays ==
  ASSUME NEW o, NEW s \in Seq(Updates), NEW n \in Nat, NEW m \in Nat, n <= m, Batch(o, s, n)
  PROVE  Batch(o, s, m) /\ Ids(s) \subseteq 1..(n - 1)
<1>1. \A i \in 1..Len(s) : s[i].id \in 1..MaxUpdates /\ s[i].id < n
  BY UpdatesAre DEF Batch
<1>2. Len(s) \in Nat
  OBVIOUS
<1>3. Batch(o, s, m)
  BY <1>1, <1>2, BoundsAreNaturals DEF Batch
<1>. QED BY <1>1, <1>3, UpdatesAre, BoundsAreNaturals

\* The next update is put.
LEMMA BatchGrows ==
  ASSUME NEW o \in Owners, NEW cf \in Families, NEW s \in Seq(Updates), NEW n \in 1..MaxUpdates,
         Batch(o, s, n)
  PROVE  LET u == [id |-> n, cf |-> cf, by |-> o]
             e == Append(s, u)
         IN  /\ e \in Seq(Updates) /\ Len(e) = Len(s) + 1 /\ Batch(o, e, n + 1)
             /\ \A i \in 1..Len(e) : (i \in 1..Len(s) /\ e[i] = s[i]) \/ e[i].id = n
             /\ Ids(e) = Ids(s) \cup {n}
<1>. DEFINE u == [id |-> n, cf |-> cf, by |-> o]
            e == Append(s, u)
<1>1. u \in Updates /\ u.id = n /\ u.by = o
  BY DEF Updates
<1>. HIDE DEF u
<1>2. /\ e \in Seq(Updates)
      /\ Len(s) \in Nat
      /\ Len(e) = Len(s) + 1
      /\ \A i \in 1..Len(s) : e[i] = s[i]
      /\ e[Len(s) + 1] = u
  BY <1>1, AppendProperties
<1>. HIDE DEF e
<1>3. 1..Len(e) = 1..Len(s) \cup {Len(s) + 1}
  BY <1>2
<1>4. \A i \in 1..Len(s) : s[i].id < n /\ s[i].by = o /\ s[i].id \in 1..MaxUpdates
  BY UpdatesAre DEF Batch
<1>5. \A i \in 1..Len(e) : e[i].by = o /\ e[i].id < n + 1
  <2>. TAKE i \in 1..Len(e)
  <2>1. CASE i \in 1..Len(s)
    BY <1>2, <1>4, <2>1, BoundsAreNaturals
  <2>2. CASE i = Len(s) + 1
    BY <1>1, <1>2, <2>2, BoundsAreNaturals
  <2>. QED BY <1>3, <2>1, <2>2
<1>6. Increasing(e)
  <2>. SUFFICES ASSUME NEW i \in 1..Len(e), NEW j \in 1..Len(e), i < j PROVE e[i].id < e[j].id
    BY DEF Increasing
  <2>1. i \in 1..Len(s)
    BY <1>2
  <2>2. CASE j \in 1..Len(s)
    BY <1>2, <2>1, <2>2 DEF Batch, Increasing
  <2>3. CASE j = Len(s) + 1
    BY <1>1, <1>2, <1>4, <2>1, <2>3
  <2>. QED BY <1>3, <2>2, <2>3
<1>7. Batch(o, e, n + 1)
  BY <1>2, <1>5, <1>6 DEF Batch
<1>8. Ids(e) = Ids(s) \cup {n}
  <2>1. \A x : x \in Ids(e) <=> \E i \in 1..Len(e) : e[i].id = x
    BY <1>2, UpdatesAre
  <2>2. \A x : x \in Ids(s) <=> \E i \in 1..Len(s) : s[i].id = x
    BY UpdatesAre
  <2>. QED BY <1>1, <1>2, <1>3, <2>1, <2>2
<1>. QED BY <1>1, <1>2, <1>3, <1>7, <1>8 DEF e, u

\* The last updates are taken back.
LEMMA BatchShrinks ==
  ASSUME NEW o, NEW s \in Seq(Updates), NEW n \in Nat, Batch(o, s, n), NEW k \in 0..Len(s)
  PROVE  LET e == SubSeq(s, 1, k)
             r == SubSeq(s, k + 1, Len(s))
         IN  /\ e \in Seq(Updates) /\ Len(e) = k /\ Batch(o, e, n)
             /\ \A i \in 1..k : i \in 1..Len(s) /\ e[i] = s[i]
             /\ Ids(e) \cup Ids(r) = Ids(s)
             /\ Ids(e) \cap Ids(r) = {}
<1>. DEFINE e == SubSeq(s, 1, k)
            r == SubSeq(s, k + 1, Len(s))
<1>1. k \in Nat /\ Len(s) \in Nat /\ k <= Len(s) /\ \A i \in 1..Len(s) : s[i] \in Updates
  OBVIOUS
<1>2. e \in Seq(Updates) /\ Len(e) = k /\ \A i \in 1..k : e[i] = s[i]
  <2>1. \A i \in 1..k : s[i] \in Updates
    BY <1>1
  <2>. QED BY <1>1, <2>1, SubSeqProperties
<1>3. r \in Seq(Updates) /\ Len(r) = Len(s) - k /\ \A i \in 1..(Len(s) - k) : r[i] = s[k + i]
  <2>1. \A i \in (k + 1)..Len(s) : s[i] \in Updates
    BY <1>1
  <2>. QED BY <1>1, <2>1, SubSeqProperties
<1>. HIDE DEF e, r
<1>4. Batch(o, e, n)
  <2>1. 1..k \subseteq 1..Len(s) /\ Len(e) = k /\ Len(s) < n
    BY <1>1, <1>2 DEF Batch
  <2>2. \A i \in 1..k : e[i].by = o /\ e[i].id < n
    BY <1>2, <2>1 DEF Batch
  <2>3. Increasing(e)
    BY <1>2, <2>1 DEF Batch, Increasing
  <2>4. Len(e) < n
    BY <1>1, <2>1
  <2>. QED BY <2>1, <2>2, <2>3, <2>4 DEF Batch
<1>5. \A x : x \in Ids(e) <=> \E i \in 1..k : s[i].id = x
  <2>1. \A x : x \in Ids(e) <=> \E i \in 1..Len(e) : e[i].id = x
    BY <1>2, UpdatesAre
  <2>. QED BY <1>2, <2>1
<1>6. \A x : x \in Ids(r) <=> \E i \in (k + 1)..Len(s) : s[i].id = x
  <2>. TAKE x
  <2>1. x \in Ids(r) <=> \E i \in 1..Len(r) : r[i].id = x
    BY <1>3, UpdatesAre
  <2>2. ASSUME NEW i \in (k + 1)..Len(s), s[i].id = x PROVE \E j \in 1..Len(r) : r[j].id = x
    <3>1. i - k \in 1..Len(r) /\ r[i - k] = s[i]
      BY <1>1, <1>3
    <3>. QED BY <2>2, <3>1
  <2>3. ASSUME NEW j \in 1..Len(r), r[j].id = x PROVE \E i \in (k + 1)..Len(s) : s[i].id = x
    <3>1. k + j \in (k + 1)..Len(s) /\ r[j] = s[k + j]
      BY <1>1, <1>3
    <3>. QED BY <2>3, <3>1
  <2>. QED BY <2>1, <2>2, <2>3
<1>7. \A x : x \in Ids(s) <=> \E i \in 1..Len(s) : s[i].id = x
  BY UpdatesAre
<1>8. 1..Len(s) = 1..k \cup ((k + 1)..Len(s))
  BY <1>1
<1>9. Ids(e) \cup Ids(r) = Ids(s)
  BY <1>5, <1>6, <1>7, <1>8
<1>10. \A i \in 1..k, j \in (k + 1)..Len(s) : s[i].id # s[j].id
  <2>. TAKE i \in 1..k, j \in (k + 1)..Len(s)
  <2>1. i < j /\ i \in 1..Len(s) /\ j \in 1..Len(s)
    BY <1>1
  <2>2. s[i].id < s[j].id /\ s[i].id \in Int /\ s[j].id \in Int
    BY <2>1, UpdatesAre, BoundsAreNaturals DEF Batch, Increasing
  <2>. QED BY <2>2
<1>11. Ids(e) \cap Ids(r) = {}
  BY <1>5, <1>6, <1>10
<1>. QED BY <1>1, <1>2, <1>4, <1>9, <1>11 DEF e, r

-----------------------------------------------------------------------------
(* Where updates are *)

\* Each id below n is in one of five sets and in one only.
Partition(h, a, d, g, r, n) ==
    /\ h \cup a \cup d \cup g \cup r = 1..(n - 1)
    /\ h \cap a = {} /\ h \cap d = {} /\ h \cap g = {} /\ h \cap r = {}
    /\ a \cap d = {} /\ a \cap g = {} /\ a \cap r = {}
    /\ d \cap g = {} /\ d \cap r = {} /\ g \cap r = {}

\* The property says so of the list of the sets.
LEMMA PlacesAre ==
  ASSUME NEW h, NEW a, NEW d, NEW g, NEW r, NEW n
  PROVE  LET places == <<h, a, d, g, r>>
         IN  (/\ UNION ToSet(places) = 1..(n - 1)
              /\ \A i, j \in DOMAIN places : i # j => places[i] \cap places[j] = {})
             <=> Partition(h, a, d, g, r, n)
<1>. DEFINE places == <<h, a, d, g, r>>
<1>1. /\ DOMAIN places = {1, 2, 3, 4, 5}
      /\ places[1] = h /\ places[2] = a /\ places[3] = d /\ places[4] = g /\ places[5] = r
  OBVIOUS
<1>. HIDE DEF places
<1>2. UNION ToSet(places) = h \cup a \cup d \cup g \cup r
  <2>1. ToSet(places) = {h, a, d, g, r}
    BY <1>1 DEF ToSet
  <2>. QED BY <2>1
<1>3. (\A i, j \in DOMAIN places : i # j => places[i] \cap places[j] = {})
      <=> /\ h \cap a = {} /\ h \cap d = {} /\ h \cap g = {} /\ h \cap r = {}
          /\ a \cap d = {} /\ a \cap g = {} /\ a \cap r = {}
          /\ d \cap g = {} /\ d \cap r = {} /\ g \cap r = {}
  <2>1. ASSUME \A i, j \in DOMAIN places : i # j => places[i] \cap places[j] = {}
        PROVE  /\ h \cap a = {} /\ h \cap d = {} /\ h \cap g = {} /\ h \cap r = {}
               /\ a \cap d = {} /\ a \cap g = {} /\ a \cap r = {}
               /\ d \cap g = {} /\ d \cap r = {} /\ g \cap r = {}
    BY <1>1, <2>1
  <2>2. ASSUME /\ h \cap a = {} /\ h \cap d = {} /\ h \cap g = {} /\ h \cap r = {}
               /\ a \cap d = {} /\ a \cap g = {} /\ a \cap r = {}
               /\ d \cap g = {} /\ d \cap r = {} /\ g \cap r = {}
        PROVE  \A i, j \in DOMAIN places : i # j => places[i] \cap places[j] = {}
    BY <1>1, <2>2
  <2>. QED BY <2>1, <2>2
<1>. QED BY <1>2, <1>3 DEF places, Partition

\* The same of the model's variables, before and after a step.
LEMMA AccountedIs ==
  /\ EveryUpdateIsAccountedFor <=> Partition(Held, Ids(applied), discarded, ignored, refused, next)
  /\ EveryUpdateIsAccountedFor' <=>
        Partition(Held', Ids(applied'), discarded', ignored', refused', next')
BY PlacesAre DEF EveryUpdateIsAccountedFor

\* A sequence of updates after another one.
LEMMA JoinedIs ==
  ASSUME NEW s \in Seq(Updates), NEW e \in Seq(Updates)
  PROVE  LET j == s \o e
         IN  /\ j \in Seq(Updates) /\ Len(j) = Len(s) + Len(e)
             /\ \A k \in 1..Len(s) : j[k] = s[k]
             /\ \A k \in 1..Len(e) : j[Len(s) + k] = e[k]
             /\ \A k \in 1..Len(j) : k \in 1..Len(s) \/ (k - Len(s) \in 1..Len(e) /\ j[k] = e[k - Len(s)])
             /\ Ids(j) = Ids(s) \cup Ids(e)
<1>. DEFINE j == s \o e
<1>1. /\ Len(s) \in Nat /\ Len(e) \in Nat
      /\ j \in Seq(Updates) /\ Len(j) = Len(s) + Len(e)
      /\ \A i \in 1..(Len(s) + Len(e)) : j[i] = IF i <= Len(s) THEN s[i] ELSE e[i - Len(s)]
  BY ConcatProperties
<1>. HIDE DEF j
<1>2. \A k \in 1..Len(s) : j[k] = s[k]
  BY <1>1
<1>3. \A k \in 1..Len(e) : j[Len(s) + k] = e[k]
  <2>. TAKE k \in 1..Len(e)
  <2>1. Len(s) + k \in 1..(Len(s) + Len(e)) /\ ~(Len(s) + k <= Len(s)) /\ (Len(s) + k) - Len(s) = k
    BY <1>1
  <2>. QED BY <1>1, <2>1
<1>4. \A k \in 1..Len(j) : k \in 1..Len(s) \/ (k - Len(s) \in 1..Len(e) /\ j[k] = e[k - Len(s)])
  BY <1>1
<1>5. Ids(j) = Ids(s) \cup Ids(e)
  <2>1. /\ \A x : x \in Ids(j) <=> \E i \in 1..Len(j) : j[i].id = x
        /\ \A x : x \in Ids(s) <=> \E i \in 1..Len(s) : s[i].id = x
        /\ \A x : x \in Ids(e) <=> \E i \in 1..Len(e) : e[i].id = x
    BY <1>1, UpdatesAre
  <2>2. ASSUME NEW i \in 1..Len(e) PROVE e[i].id \in Ids(j)
    <3>1. Len(s) + i \in 1..Len(j)
      BY <1>1
    <3>. QED BY <1>3, <2>1, <3>1
  <2>3. Ids(s) \subseteq Ids(j)
    <3>1. 1..Len(s) \subseteq 1..Len(j)
      BY <1>1
    <3>. QED BY <1>2, <2>1, <3>1
  <2>4. Ids(j) \subseteq Ids(s) \cup Ids(e)
    <3>. SUFFICES ASSUME NEW k \in 1..Len(j) PROVE j[k].id \in Ids(s) \cup Ids(e)
      BY <2>1
    <3>1. CASE k \in 1..Len(s)
      BY <1>2, <2>1, <3>1
    <3>2. CASE k - Len(s) \in 1..Len(e) /\ j[k] = e[k - Len(s)]
      BY <2>1, <3>2
    <3>. QED BY <1>4, <3>1, <3>2
  <2>. QED BY <2>1, <2>2, <2>3, <2>4
<1>. QED BY <1>1, <1>2, <1>3, <1>4, <1>5 DEF j

\* What a write does to the database: the updates of s are applied in order
\* or ignored.
LEMMA WrittenIs ==
  ASSUME Types, AppliedOnceInOrder, NEW s \in Seq(Updates), Increasing(s), NEW b, DbWrite(s, b),
         \A k \in 1..Len(applied), i \in 1..Len(s) :
             applied[k].by = s[i].by => applied[k].id < s[i].id
  PROVE  /\ applied' \in Seq(Updates)
         /\ AppliedOnceInOrder'
         /\ \A k \in 1..Len(applied') : \/ k \in 1..Len(applied) /\ applied'[k] = applied[k]
                                        \/ \E i \in 1..Len(s) : applied'[k] = s[i]
         /\ \E A, M : /\ Ids(applied') = Ids(applied) \cup A /\ ignored' = ignored \cup M
                      /\ A \cup M = Ids(s) /\ A \cap M = {}
<1>. DEFINE e == Existing(s)
            left == {u.id : u \in {v \in ToSet(s) : ~Exists(v.cf)}}
<1>1. /\ e \in Seq(Updates) /\ Increasing(e)
      /\ \A i \in 1..Len(e) : \E k \in 1..Len(s) : e[i] = s[k]
      /\ Ids(e) \cup left = Ids(s) /\ Ids(e) \cap left = {}
  BY TakenIs
<1>2. applied' = applied \o e /\ ignored' = ignored \cup left
  BY DEF DbWrite
<1>3. applied \in Seq(Updates) /\ Len(applied) \in Nat /\ Len(e) \in Nat
  BY <1>1 DEF Types
<1>. HIDE DEF e, left
<1>4. /\ applied' \in Seq(Updates) /\ Len(applied') = Len(applied) + Len(e)
      /\ \A k \in 1..Len(applied) : applied'[k] = applied[k]
      /\ \A k \in 1..Len(applied') : k \in 1..Len(applied) \/
            (k - Len(applied) \in 1..Len(e) /\ applied'[k] = e[k - Len(applied)])
      /\ Ids(applied') = Ids(applied) \cup Ids(e)
  BY <1>1, <1>2, <1>3, JoinedIs
<1>5. DOMAIN applied = 1..Len(applied) /\ DOMAIN applied' = 1..Len(applied')
  BY <1>3, <1>4
<1>6. AppliedOnceInOrder'
  <2>. SUFFICES ASSUME NEW i \in 1..Len(applied'), NEW j \in 1..Len(applied'),
                       i < j, applied'[i].by = applied'[j].by
                PROVE  applied'[i].id < applied'[j].id
    BY <1>5 DEF AppliedOnceInOrder
  <2>1. CASE j \in 1..Len(applied)
    <3>1. i \in 1..Len(applied)
      BY <1>3, <2>1
    <3>. QED BY <1>4, <1>5, <2>1, <3>1 DEF AppliedOnceInOrder
  <2>2. CASE j \notin 1..Len(applied) /\ i \in 1..Len(applied)
    <3>1. j - Len(applied) \in 1..Len(e) /\ applied'[j] = e[j - Len(applied)]
      BY <1>4, <2>2
    <3>2. PICK k \in 1..Len(s) : applied'[j] = s[k]
      BY <1>1, <3>1
    <3>. QED BY <1>4, <2>2, <3>2
  <2>3. CASE j \notin 1..Len(applied) /\ i \notin 1..Len(applied)
    <3>1. /\ j - Len(applied) \in 1..Len(e) /\ applied'[j] = e[j - Len(applied)]
          /\ i - Len(applied) \in 1..Len(e) /\ applied'[i] = e[i - Len(applied)]
      BY <1>4, <2>3
    <3>2. i - Len(applied) < j - Len(applied)
      BY <1>3
    <3>. QED BY <1>1, <3>1, <3>2 DEF Increasing
  <2>. QED BY <2>1, <2>2, <2>3
<1>7. \A k \in 1..Len(applied') : \/ k \in 1..Len(applied) /\ applied'[k] = applied[k]
                                  \/ \E i \in 1..Len(s) : applied'[k] = s[i]
  BY <1>1, <1>4
<1>. QED BY <1>1, <1>2, <1>4, <1>6, <1>7

-----------------------------------------------------------------------------
(* The steps *)

\* A step that changes the batch of o only, and writes nothing.
LEMMA OneBatch ==
  ASSUME IInv, NEW o \in Owners, NEW e \in Seq(Updates),
         ops' = [ops EXCEPT ![o] = e], next' \in Nat, next <= next', Batch(o, e, next'),
         \A i \in 1..Len(e) : \/ \E k \in 1..Len(ops[o]) : e[i] = ops[o][k]
                              \/ e[i].id = next,
         applied' = applied, writing' = writing \/ e = <<>>,
         \A p \in Owners : ~writing'[p] => ~writing[p] \/ p = o
  PROVE  /\ ops' \in [Owners -> Seq(Updates)] /\ ops'[o] = e
         /\ \A p \in Owners : p # o => ops'[p] = ops[p]
         /\ Batches' /\ Apart' /\ Ordered'
<1>1. /\ ops \in [Owners -> Seq(Updates)] /\ applied \in Seq(Updates)
      /\ next \in Nat
      /\ \A p \in Owners : ops[p] \in Seq(Updates) /\ Batch(p, ops[p], next)
  BY BoundsAreNaturals DEF IInv, Types, Batches
<1>2. /\ ops' \in [Owners -> Seq(Updates)] /\ ops'[o] = e
      /\ \A p \in Owners : p # o => ops'[p] = ops[p]
  BY <1>1
<1>3. Batches'
  <2>. SUFFICES ASSUME NEW p \in Owners PROVE Batch(p, ops'[p], next')
    BY DEF Batches, Batch
  <2>1. CASE p = o
    BY <1>2, <2>1
  <2>2. CASE p # o
    BY <1>1, <1>2, <2>2, BatchStays
  <2>. QED BY <2>1, <2>2
<1>4. \A p \in Owners : Ids(ops[p]) \subseteq 1..(next - 1)
  BY <1>1, BatchStays
<1>5. Ids(e) \subseteq Ids(ops[o]) \cup {next}
  <2>1. \A x : x \in Ids(e) <=> \E i \in 1..Len(e) : e[i].id = x
    BY UpdatesAre
  <2>2. \A x : x \in Ids(ops[o]) <=> \E i \in 1..Len(ops[o]) : ops[o][i].id = x
    BY <1>1, UpdatesAre
  <2>. QED BY <2>1, <2>2
<1>6. Apart'
  <2>. SUFFICES ASSUME NEW p \in Owners, NEW q \in Owners, p # q
                PROVE  Ids(ops'[p]) \cap Ids(ops'[q]) = {}
    BY DEF Apart, Ids
  <2>1. Ids(ops[p]) \cap Ids(ops[q]) = {}
    BY DEF IInv, Apart
  <2>2. next \notin Ids(ops[p]) /\ next \notin Ids(ops[q])
    BY <1>1, <1>4
  <2>. QED BY <1>2, <1>5, <2>1, <2>2
<1>7. Ordered'
  <2>1. \A k \in 1..Len(applied) : applied[k].id < next /\ applied[k].id \in Nat
    BY <1>1, UpdatesAre, BoundsAreNaturals DEF IInv, Ordered
  <2>2. ASSUME NEW p \in Owners, ~writing'[p], NEW k \in 1..Len(applied), NEW i \in 1..Len(ops'[p]),
               applied[k].by = p
        PROVE  applied[k].id < ops'[p][i].id
    <3>1. CASE p # o
      <4>1. ~writing[p] /\ ops'[p] = ops[p]
        BY <1>2, <2>2, <3>1
      <4>. QED BY <2>2, <4>1 DEF IInv, Ordered
    <3>2. CASE p = o
      <4>1. ops'[p] = e
        BY <1>2, <3>2
      <4>2. CASE e = <<>>
        BY <4>1, <4>2
      <4>3. CASE e # <<>>
        <5>1. ~writing[o]
          BY <2>2, <3>2, <4>3
        <5>2. CASE e[i].id = next
          BY <2>1, <4>1, <5>2
        <5>3. CASE \E j \in 1..Len(ops[o]) : e[i] = ops[o][j]
          <6>1. \A j \in 1..Len(ops[o]) : applied[k].id < ops[o][j].id
            BY <2>2, <3>2, <5>1 DEF IInv, Ordered
          <6>. QED BY <4>1, <5>3, <6>1
        <5>. QED BY <4>1, <5>2, <5>3
      <4>. QED BY <4>2, <4>3
    <3>. QED BY <3>1, <3>2
  <2>3. \A k \in 1..Len(applied) : applied[k].id < next'
    BY <1>1, <2>1
  <2>4. AppliedOnceInOrder'
    BY DEF IInv, Ordered, AppliedOnceInOrder
  <2>. QED BY <2>2, <2>3, <2>4 DEF Ordered
<1>. QED BY <1>2, <1>3, <1>6, <1>7

\* The updates that idle batches hold.
LEMMA HeldIs ==
  /\ \A x : x \in Held <=> \E o \in Owners : ~writing[o] /\ x \in Ids(ops[o])
  /\ \A x : x \in Held' <=> \E o \in Owners : ~writing'[o] /\ x \in Ids(ops'[o])
BY DEF Held, Ids

\* A batch takes one more update.
LEMMA PutKeeps ==
  ASSUME IInv, NEW o \in Owners, NEW cf \in Families, PutBatch(o, cf)
  PROVE  IInv'
<1>. DEFINE u == [id |-> next, cf |-> cf, by |-> o]
            e == Append(ops[o], u)
<1>1. /\ ops[o] \in Seq(Updates) /\ Batch(o, ops[o], next) /\ next \in 1..MaxUpdates
      /\ ops' = [ops EXCEPT ![o] = e] /\ next' = next + 1 /\ next' \in 1..(MaxUpdates + 1)
      /\ next \in Nat /\ next' \in Nat /\ next <= next'
      /\ ~writing[o]
      /\ UNCHANGED <<savepoints, writing, word, dbClosed, applied, failures,
                     discarded, ignored, refused>>
  BY BoundsAreNaturals DEF PutBatch, Idle, IInv, Types, Batches
<1>2. /\ e \in Seq(Updates) /\ Len(e) = Len(ops[o]) + 1 /\ Batch(o, e, next + 1)
      /\ \A i \in 1..Len(e) : (i \in 1..Len(ops[o]) /\ e[i] = ops[o][i]) \/ e[i].id = next
      /\ Ids(e) = Ids(ops[o]) \cup {next}
  BY <1>1, BatchGrows
<1>. HIDE DEF e
<1>3. /\ ops' \in [Owners -> Seq(Updates)] /\ ops'[o] = e
      /\ \A p \in Owners : p # o => ops'[p] = ops[p]
      /\ Batches' /\ Apart' /\ Ordered'
  <2>1. \A i \in 1..Len(e) : \/ \E k \in 1..Len(ops[o]) : e[i] = ops[o][k]
                             \/ e[i].id = next
    BY <1>2
  <2>2. Batch(o, e, next')
    BY <1>1, <1>2
  <2>. QED BY <1>1, <1>2, <2>1, <2>2, OneBatch
<1>4. Types'
  BY <1>1, <1>3 DEF IInv, Types
<1>5. SavepointsFit'
  <2>. SUFFICES ASSUME NEW p \in Owners, NEW i \in DOMAIN savepoints[p]
                PROVE  /\ savepoints[p][i] <= Len(ops'[p])
                       /\ \A j \in DOMAIN savepoints[p] : i < j => savepoints[p][i] <= savepoints[p][j]
    BY <1>1 DEF SavepointsFit
  <2>1. /\ savepoints[p][i] <= Len(ops[p])
        /\ \A j \in DOMAIN savepoints[p] : i < j => savepoints[p][i] <= savepoints[p][j]
    BY DEF IInv, SavepointsFit
  <2>2. savepoints[p][i] \in Nat
    <3>1. savepoints[p] \in Seq(0..MaxUpdates)
      BY DEF IInv, Types
    <3>2. i \in 1..Len(savepoints[p])
      BY <3>1
    <3>3. savepoints[p][i] \in 0..MaxUpdates
      BY <3>1, <3>2, ElementOfSeq
    <3>. QED BY <3>3
  <2>3. Len(ops[p]) \in Nat /\ Len(ops[p]) <= Len(ops'[p]) /\ Len(ops'[p]) \in Nat
    <3>1. Len(ops[p]) \in Nat
      BY DEF IInv, Types
    <3>. QED BY <1>2, <1>3, <3>1
  <2>. QED BY <2>1, <2>2, <2>3
<1>6. Held' = Held \cup {next}
  BY <1>1, <1>2, <1>3, HeldIs
<1>7. EveryUpdateIsAccountedFor'
  <2>1. Partition(Held, Ids(applied), discarded, ignored, refused, next)
    BY AccountedIs DEF IInv
  <2>2. 1..(next' - 1) = 1..(next - 1) \cup {next} /\ next \notin 1..(next - 1)
    BY <1>1
  <2>3. Partition(Held \cup {next}, Ids(applied), discarded, ignored, refused, next')
    BY <2>1, <2>2 DEF Partition
  <2>. QED BY <1>1, <1>6, <2>3, AccountedIs
<1>. QED BY <1>3, <1>4, <1>5, <1>7 DEF IInv

\* A step that leaves the batches alone.
LEMMA SameBatches ==
  ASSUME IInv, ops' = ops, next' \in Nat, next <= next'
  PROVE  /\ Batches' /\ Apart'
         /\ savepoints' = savepoints => SavepointsFit'
         /\ applied' = applied /\ writing' = writing => Ordered'
<1>1. Batches'
  <2>. SUFFICES ASSUME NEW o \in Owners PROVE Batch(o, ops[o], next')
    BY DEF Batches, Batch
  <2>1. ops[o] \in Seq(Updates) /\ Batch(o, ops[o], next) /\ next \in Nat
    BY BoundsAreNaturals DEF IInv, Types, Batches
  <2>. QED BY <2>1, BatchStays
<1>2. Apart'
  BY DEF IInv, Apart, Ids
<1>3. savepoints' = savepoints => SavepointsFit'
  BY DEF IInv, SavepointsFit
<1>4. ASSUME applied' = applied, writing' = writing PROVE Ordered'
  <2>1. \A k \in 1..Len(applied) : applied[k].id \in Nat /\ applied[k].id < next
    BY UpdatesAre, BoundsAreNaturals DEF IInv, Types, Ordered
  <2>2. \A k \in 1..Len(applied) : applied[k].id < next'
    BY <2>1, BoundsAreNaturals DEF IInv, Types
  <2>. QED BY <1>4, <2>2 DEF IInv, Ordered, AppliedOnceInOrder
<1>. QED BY <1>1, <1>2, <1>3, <1>4

\* A savepoint is the number of updates that the batch has.
LEMMA SetSavePointKeeps ==
  ASSUME IInv, NEW o \in Owners, BatchSetSavePoint(o)
  PROVE  IInv'
<1>. DEFINE n == Len(ops[o])
            s == Append(savepoints[o], n)
<1>1. /\ savepoints \in [Owners -> Seq(0..MaxUpdates)] /\ savepoints[o] \in Seq(0..MaxUpdates)
      /\ savepoints' = [savepoints EXCEPT ![o] = s]
      /\ UNCHANGED <<ops, writing, word, dbClosed, applied, next, failures, discarded, ignored, refused>>
  BY DEF BatchSetSavePoint, IInv, Types
<1>2. n \in 0..MaxUpdates
  <2>1. n \in Nat /\ n < next /\ next \in 1..(MaxUpdates + 1)
    BY DEF IInv, Types, Batches, Batch
  <2>. QED BY <2>1, BoundsAreNaturals
<1>. HIDE DEF n
<1>3. /\ s \in Seq(0..MaxUpdates) /\ Len(s) = Len(savepoints[o]) + 1 /\ Len(savepoints[o]) \in Nat
      /\ \A i \in 1..Len(savepoints[o]) : s[i] = savepoints[o][i]
      /\ s[Len(savepoints[o]) + 1] = n
  BY <1>1, <1>2, AppendProperties
<1>. HIDE DEF s
<1>4. Types'
  BY <1>1, <1>3 DEF IInv, Types
<1>5. SavepointsFit'
  <2>. SUFFICES ASSUME NEW p \in Owners, NEW i \in DOMAIN savepoints'[p]
                PROVE  /\ savepoints'[p][i] <= Len(ops[p])
                       /\ \A j \in DOMAIN savepoints'[p] :
                             i < j => savepoints'[p][i] <= savepoints'[p][j]
    BY <1>1 DEF SavepointsFit
  <2>1. CASE p # o
    BY <1>1, <2>1 DEF IInv, SavepointsFit
  <2>2. CASE p = o
    <3>1. savepoints'[p] = s /\ DOMAIN s = 1..Len(s) /\ DOMAIN savepoints[o] = 1..Len(savepoints[o])
      BY <1>1, <1>3, <2>2
    <3>2. \A k \in 1..Len(s) : k \in 1..Len(savepoints[o]) \/ k = Len(savepoints[o]) + 1
      BY <1>3
    <3>3. \A k \in 1..Len(savepoints[o]) : savepoints[o][k] <= n
      BY <3>1 DEF IInv, SavepointsFit, n
    <3>4. \A k \in 1..Len(s) : s[k] <= n
      BY <1>2, <1>3, <3>2, <3>3
    <3>5. ASSUME NEW j \in 1..Len(s), i < j PROVE s[i] <= s[j]
      <4>1. i \in 1..Len(savepoints[o])
        BY <1>3, <3>1, <3>5
      <4>2. CASE j \in 1..Len(savepoints[o])
        BY <1>3, <3>1, <3>5, <4>1, <4>2 DEF IInv, SavepointsFit
      <4>3. CASE j = Len(savepoints[o]) + 1
        BY <1>3, <3>3, <4>1, <4>3
      <4>. QED BY <3>2, <4>2, <4>3
    <3>. QED BY <2>2, <3>1, <3>4, <3>5 DEF n
  <2>. QED BY <2>1, <2>2
<1>6. Batches' /\ Apart' /\ Ordered'
  <2>1. next' \in Nat /\ next <= next'
    BY <1>1, BoundsAreNaturals DEF IInv, Types
  <2>. QED BY <1>1, <2>1, SameBatches
<1>7. EveryUpdateIsAccountedFor'
  <2>1. Held' = Held
    BY <1>1 DEF Held, Ids
  <2>. QED BY <1>1, <2>1, AccountedIs DEF IInv
<1>. QED BY <1>4, <1>5, <1>6, <1>7 DEF IInv

\* A batch gives up its last updates, or all of them.
LEMMA GivenUp ==
  ASSUME IInv, NEW o \in Owners, ~writing[o], NEW e \in Seq(Updates), NEW G,
         Ids(e) \cup G = Ids(ops[o]), Ids(e) \cap G = {},
         ops'[o] = e, \A p \in Owners : p # o => ops'[p] = ops[p],
         discarded' = discarded \cup G,
         UNCHANGED <<writing, applied, next, ignored, refused>>
  PROVE  EveryUpdateIsAccountedFor' /\ G \subseteq 1..MaxUpdates
<1>1. \A p \in Owners : p # o => Ids(ops[o]) \cap Ids(ops[p]) = {}
  BY DEF IInv, Apart
<1>2. Held' = Held \ G /\ G \subseteq Held
  BY <1>1, HeldIs
<1>3. Partition(Held, Ids(applied), discarded, ignored, refused, next)
  BY AccountedIs DEF IInv
<1>4. Partition(Held \ G, Ids(applied), discarded \cup G, ignored, refused, next)
  BY <1>2, <1>3 DEF Partition
<1>5. ops[o] \in Seq(Updates) /\ Ids(ops[o]) \subseteq 1..MaxUpdates
  <2>1. ops[o] \in Seq(Updates)
    BY DEF IInv, Types
  <2>. QED BY <2>1, UpdatesAre
<1>. QED BY <1>2, <1>4, <1>5, AccountedIs

\* A rollback gives up what came after the last savepoint.
LEMMA RollbackKeeps ==
  ASSUME IInv, NEW o \in Owners, BatchRollbackToSavePoint(o)
  PROVE  IInv'
<1>. DEFINE sp == savepoints[o]
            n == Last(sp)
            e == SubSeq(ops[o], 1, n)
            G == Ids(SubSeq(ops[o], n + 1, Len(ops[o])))
<1>1. /\ ops' = [ops EXCEPT ![o] = e] /\ savepoints' = [savepoints EXCEPT ![o] = Front(sp)]
      /\ discarded' = discarded \cup G /\ ~writing[o] /\ sp # <<>>
      /\ UNCHANGED <<writing, word, dbClosed, applied, next, failures, ignored, refused>>
  BY DEF BatchRollbackToSavePoint, Idle
<1>2. /\ ops[o] \in Seq(Updates) /\ Batch(o, ops[o], next) /\ next \in Nat
      /\ sp \in Seq(0..MaxUpdates) /\ savepoints \in [Owners -> Seq(0..MaxUpdates)]
  BY BoundsAreNaturals DEF IInv, Types, Batches
<1>3. Len(sp) \in Nat /\ Len(sp) # 0 /\ Len(sp) \in 1..Len(sp) /\ DOMAIN sp = 1..Len(sp)
  BY <1>1, <1>2
<1>4. /\ n = sp[Len(sp)] /\ n \in 0..Len(ops[o])
      /\ \A i \in 1..Len(sp) : sp[i] \in Nat /\ sp[i] <= n
  <2>1. n = sp[Len(sp)]
    BY DEF Last
  <2>2. \A i \in 1..Len(sp) : sp[i] \in Nat
    BY <1>2, BoundsAreNaturals
  <2>. HIDE DEF n
  <2>3. \A i \in 1..Len(sp) : sp[i] <= Len(ops[o]) /\ \A j \in 1..Len(sp) : i < j => sp[i] <= sp[j]
    BY <1>3 DEF IInv, SavepointsFit
  <2>4. \A i \in 1..Len(sp) : i = Len(sp) \/ i < Len(sp)
    BY <1>3
  <2>5. n \in Nat /\ Len(ops[o]) \in Nat /\ n <= Len(ops[o])
    BY <1>2, <1>3, <2>1, <2>2, <2>3
  <2>6. \A i \in 1..Len(sp) : sp[i] <= n
    BY <1>3, <2>1, <2>2, <2>3, <2>4
  <2>. QED BY <2>1, <2>2, <2>5, <2>6
<1>5. /\ Front(sp) \in Seq(0..MaxUpdates) /\ Len(Front(sp)) = Len(sp) - 1
      /\ \A i \in 1..(Len(sp) - 1) : Front(sp)[i] = sp[i]
  <2>. HIDE DEF sp
  <2>1. \A i \in 1..(Len(sp) - 1) : sp[i] \in 0..MaxUpdates
    <3>1. sp \in Seq(0..MaxUpdates)
      BY <1>2
    <3>2. \A i \in 1..(Len(sp) - 1) : i \in 1..Len(sp)
      BY <1>3
    <3>. QED BY <3>1, <3>2, ElementOfSeq
  <2>2. Front(sp) = SubSeq(sp, 1, Len(sp) - 1)
    BY DEF Front
  <2>. QED BY <1>3, <2>1, <2>2, SubSeqProperties
<1>. HIDE DEF n
<1>6. /\ e \in Seq(Updates) /\ Len(e) = n /\ Batch(o, e, next)
      /\ \A i \in 1..n : i \in 1..Len(ops[o]) /\ e[i] = ops[o][i]
      /\ Ids(e) \cup G = Ids(ops[o]) /\ Ids(e) \cap G = {}
  <2>1. n \in 0..Len(ops[o])
    BY <1>4
  <2>. QED BY <1>2, <2>1, BatchShrinks
<1>. HIDE DEF e, G
<1>7. /\ ops' \in [Owners -> Seq(Updates)] /\ ops'[o] = e
      /\ \A p \in Owners : p # o => ops'[p] = ops[p]
      /\ Batches' /\ Apart' /\ Ordered'
  <2>1. \A i \in 1..Len(e) : \/ \E k \in 1..Len(ops[o]) : e[i] = ops[o][k]
                             \/ e[i].id = next
    BY <1>6
  <2>2. next' \in Nat /\ next <= next' /\ Batch(o, e, next')
    BY <1>1, <1>2, <1>6
  <2>. QED BY <1>1, <1>6, <2>1, <2>2, OneBatch
<1>8. EveryUpdateIsAccountedFor' /\ G \subseteq 1..MaxUpdates
  BY <1>1, <1>6, <1>7, GivenUp
<1>9. Types'
  <2>1. savepoints' \in [Owners -> Seq(0..MaxUpdates)]
    BY <1>1, <1>2, <1>5
  <2>. QED BY <1>1, <1>7, <1>8, <2>1 DEF IInv, Types
<1>10. SavepointsFit'
  <2>. SUFFICES ASSUME NEW p \in Owners, NEW i \in DOMAIN savepoints'[p]
                PROVE  /\ savepoints'[p][i] <= Len(ops'[p])
                       /\ \A j \in DOMAIN savepoints'[p] :
                             i < j => savepoints'[p][i] <= savepoints'[p][j]
    BY DEF SavepointsFit
  <2>1. CASE p # o
    <3>1. savepoints'[p] = savepoints[p] /\ ops'[p] = ops[p]
      BY <1>1, <1>2, <1>7, <2>1
    <3>. QED BY <3>1 DEF IInv, SavepointsFit
  <2>2. CASE p = o
    <3>1. savepoints'[p] = Front(sp) /\ DOMAIN Front(sp) = 1..(Len(sp) - 1)
      BY <1>1, <1>2, <1>5, <2>2
    <3>2. \A k \in 1..(Len(sp) - 1) : k \in 1..Len(sp)
      BY <1>3
    <3>3. \A k, l \in 1..Len(sp) : k < l => sp[k] <= sp[l]
      BY <1>3 DEF IInv, SavepointsFit
    <3>4. i \in 1..(Len(sp) - 1) /\ savepoints'[p][i] = sp[i]
      BY <1>5, <3>1
    <3>5. savepoints'[p][i] <= Len(ops'[p])
      BY <1>4, <1>6, <1>7, <2>2, <3>2, <3>4
    <3>6. \A j \in 1..(Len(sp) - 1) : i < j => sp[i] <= sp[j]
      BY <3>2, <3>3, <3>4
    <3>. QED BY <1>5, <3>1, <3>4, <3>5, <3>6
  <2>. QED BY <2>1, <2>2
<1>. QED BY <1>7, <1>8, <1>9, <1>10 DEF IInv

\* What Clear leaves behind.
LEMMA ClearIs ==
  ASSUME IInv, NEW o \in Owners, Clear(o), applied' = applied, next' = next,
         \A p \in Owners : ~writing'[p] => ~writing[p] \/ p = o
  PROVE  /\ ops' \in [Owners -> Seq(Updates)] /\ ops'[o] = <<>>
         /\ \A p \in Owners : p # o => ops'[p] = ops[p]
         /\ savepoints' \in [Owners -> Seq(0..MaxUpdates)]
         /\ Batches' /\ Apart' /\ Ordered' /\ SavepointsFit'
<1>1. next \in Nat \ {0} /\ <<>> \in Seq(Updates) /\ Batch(o, <<>>, next)
  BY EmptyBatch, BoundsAreNaturals DEF IInv, Types
<1>2. /\ ops' \in [Owners -> Seq(Updates)] /\ ops'[o] = <<>>
      /\ \A p \in Owners : p # o => ops'[p] = ops[p]
      /\ Batches' /\ Apart' /\ Ordered'
  <2>. DEFINE e == <<>>
  <2>1. \A i \in 1..Len(e) : \/ \E k \in 1..Len(ops[o]) : e[i] = ops[o][k]
                             \/ e[i].id = next
    OBVIOUS
  <2>2. /\ ops' = [ops EXCEPT ![o] = e] /\ next' \in Nat /\ next <= next' /\ e \in Seq(Updates)
        /\ Batch(o, e, next') /\ (writing' = writing \/ e = <<>>)
    BY <1>1 DEF Clear
  <2>. HIDE DEF e
  <2>3. /\ ops' \in [Owners -> Seq(Updates)] /\ ops'[o] = e
        /\ \A p \in Owners : p # o => ops'[p] = ops[p]
        /\ Batches' /\ Apart' /\ Ordered'
    BY <2>1, <2>2, OneBatch
  <2>. QED BY <2>3 DEF e
<1>3. /\ savepoints' \in [Owners -> Seq(0..MaxUpdates)] /\ savepoints'[o] = <<>>
      /\ \A p \in Owners : p # o => savepoints'[p] = savepoints[p]
  BY DEF Clear, IInv, Types
<1>4. SavepointsFit'
  <2>. SUFFICES ASSUME NEW p \in Owners, NEW i \in DOMAIN savepoints'[p]
                PROVE  /\ savepoints'[p][i] <= Len(ops'[p])
                       /\ \A j \in DOMAIN savepoints'[p] :
                             i < j => savepoints'[p][i] <= savepoints'[p][j]
    BY DEF SavepointsFit
  <2>1. p # o
    BY <1>3
  <2>. QED BY <1>2, <1>3, <2>1 DEF IInv, SavepointsFit
<1>. QED BY <1>2, <1>3, <1>4

\* Clearing a batch gives up all of it.
LEMMA ClearKeeps ==
  ASSUME IInv, NEW o \in Owners, ClearBatch(o)
  PROVE  IInv'
<1>1. /\ Clear(o) /\ ~writing[o] /\ discarded' = discarded \cup Ids(ops[o])
      /\ UNCHANGED <<writing, word, dbClosed, applied, next, failures, ignored, refused>>
  BY DEF ClearBatch, Idle
<1>2. /\ ops' \in [Owners -> Seq(Updates)] /\ ops'[o] = <<>>
      /\ \A p \in Owners : p # o => ops'[p] = ops[p]
      /\ savepoints' \in [Owners -> Seq(0..MaxUpdates)]
      /\ Batches' /\ Apart' /\ Ordered' /\ SavepointsFit'
  BY <1>1, ClearIs
<1>3. EveryUpdateIsAccountedFor' /\ Ids(ops[o]) \subseteq 1..MaxUpdates
  <2>. DEFINE e == <<>>
  <2>1. e \in Seq(Updates) /\ Ids(e) = {}
    BY EmptyBatch DEF Ids
  <2>2. ops'[o] = e
    BY <1>2
  <2>. HIDE DEF e
  <2>3. Ids(e) \cup Ids(ops[o]) = Ids(ops[o]) /\ Ids(e) \cap Ids(ops[o]) = {}
    BY <2>1
  <2>. QED BY <1>1, <1>2, <2>1, <2>2, <2>3, GivenUp
<1>4. Types'
  BY <1>1, <1>2, <1>3 DEF IInv, Types
<1>. QED BY <1>2, <1>3, <1>4 DEF IInv

\* The batch that was written is cleared: its updates are in the database.
LEMMA WriteBatchClearsKeeps ==
  ASSUME IInv, NEW o \in Owners, WriteBatchClears(o)
  PROVE  IInv'
<1>1. /\ Clear(o) /\ writing[o] /\ writing' = [writing EXCEPT ![o] = FALSE]
      /\ UNCHANGED <<word, dbClosed, applied, next, failures, discarded, ignored, refused>>
  BY DEF WriteBatchClears
<1>2. /\ writing' \in [Owners -> BOOLEAN] /\ \A p \in Owners : p # o => writing'[p] = writing[p]
  BY <1>1 DEF IInv, Types
<1>3. /\ ops' \in [Owners -> Seq(Updates)] /\ ops'[o] = <<>>
      /\ \A p \in Owners : p # o => ops'[p] = ops[p]
      /\ savepoints' \in [Owners -> Seq(0..MaxUpdates)]
      /\ Batches' /\ Apart' /\ Ordered' /\ SavepointsFit'
  BY <1>1, <1>2, ClearIs
<1>4. Held' = Held
  <2>1. Ids(ops'[o]) = {}
    BY <1>3 DEF Ids
  <2>. QED BY <1>1, <1>2, <1>3, <2>1, HeldIs
<1>5. EveryUpdateIsAccountedFor'
  BY <1>1, <1>4, AccountedIs DEF IInv
<1>6. Types'
  BY <1>1, <1>2, <1>3 DEF IInv, Types
<1>. QED BY <1>3, <1>5, <1>6 DEF IInv

\* The batch is written: what it held is in the database, or was to be
\* ignored.
LEMMA WriteBatchKeeps ==
  ASSUME IInv, NEW o \in Owners, NEW b, WriteBatch(o, b)
  PROVE  IInv'
<1>1. /\ ~writing[o] /\ DbWrite(ops[o], b) /\ writing' = [writing EXCEPT ![o] = TRUE]
      /\ UNCHANGED <<ops, savepoints, word, dbClosed, next, failures, discarded, refused>>
  BY DEF WriteBatch, Idle
<1>2. /\ writing' \in [Owners -> BOOLEAN] /\ writing'[o]
      /\ \A p \in Owners : p # o => writing'[p] = writing[p]
  BY <1>1 DEF IInv, Types
<1>3. /\ ops[o] \in Seq(Updates) /\ Batch(o, ops[o], next) /\ Types /\ AppliedOnceInOrder
      /\ next \in Nat
  BY BoundsAreNaturals DEF IInv, Types, Batches, Ordered
<1>4. /\ applied' \in Seq(Updates)
      /\ AppliedOnceInOrder'
      /\ \A k \in 1..Len(applied') : \/ k \in 1..Len(applied) /\ applied'[k] = applied[k]
                                     \/ \E i \in 1..Len(ops[o]) : applied'[k] = ops[o][i]
      /\ \E A, M : /\ Ids(applied') = Ids(applied) \cup A /\ ignored' = ignored \cup M
                   /\ A \cup M = Ids(ops[o]) /\ A \cap M = {}
  <2>1. Increasing(ops[o])
    BY <1>3 DEF Batch
  <2>2. \A k \in 1..Len(applied), i \in 1..Len(ops[o]) :
             applied[k].by = ops[o][i].by => applied[k].id < ops[o][i].id
    BY <1>1, <1>3 DEF Batch, IInv, Ordered
  <2>. QED BY <1>1, <1>3, <2>1, <2>2, WrittenIs
<1>5. PICK A, M : /\ Ids(applied') = Ids(applied) \cup A /\ ignored' = ignored \cup M
                  /\ A \cup M = Ids(ops[o]) /\ A \cap M = {}
  BY <1>4
<1>6. Ids(ops[o]) \subseteq 1..MaxUpdates
  BY <1>3, UpdatesAre
<1>7. Types'
  BY <1>1, <1>2, <1>4, <1>5, <1>6 DEF IInv, Types
<1>8. Batches' /\ Apart' /\ SavepointsFit'
  <2>1. next' \in Nat /\ next <= next'
    BY <1>1, <1>3
  <2>. QED BY <1>1, <2>1, SameBatches
<1>9. Ordered'
  <2>1. \A i \in 1..Len(ops[o]) : ops[o][i].by = o /\ ops[o][i].id < next
    BY <1>3 DEF Batch
  <2>2. \A k \in 1..Len(applied) : applied[k].id < next
    BY DEF IInv, Ordered
  <2>3. \A k \in 1..Len(applied') : applied'[k].id < next
    BY <1>4, <2>1, <2>2
  <2>4. ASSUME NEW p \in Owners, ~writing'[p], NEW k \in 1..Len(applied'), NEW i \in 1..Len(ops[p]),
               applied'[k].by = p
        PROVE  applied'[k].id < ops[p][i].id
    <3>1. p # o /\ ~writing[p]
      BY <1>2, <2>4
    <3>2. k \in 1..Len(applied) /\ applied'[k] = applied[k]
      BY <1>4, <2>1, <2>4, <3>1
    <3>. QED BY <2>4, <3>1, <3>2 DEF IInv, Ordered
  <2>. QED BY <1>1, <1>4, <2>3, <2>4 DEF Ordered
<1>10. EveryUpdateIsAccountedFor'
  <2>1. \A p \in Owners : p # o => Ids(ops[o]) \cap Ids(ops[p]) = {}
    BY DEF IInv, Apart
  <2>2. Held' = Held \ Ids(ops[o]) /\ Ids(ops[o]) \subseteq Held
    BY <1>1, <1>2, <2>1, HeldIs
  <2>3. Partition(Held, Ids(applied), discarded, ignored, refused, next)
    BY AccountedIs DEF IInv
  <2>4. Partition(Held \ (A \cup M), Ids(applied) \cup A, discarded, ignored \cup M, refused, next)
    BY <1>5, <2>2, <2>3 DEF Partition
  <2>. QED BY <1>1, <1>5, <2>2, <2>4, AccountedIs
<1>. QED BY <1>7, <1>8, <1>9, <1>10 DEF IInv

\* The list of write/3 is written as one, or refused as one.
LEMMA WriteKeeps ==
  ASSUME IInv, NEW o, NEW list \in Seq(Actions), NEW b, Write(o, list, b)
  PROVE  IInv'
<1>. DEFINE L == Len(list)
            result == BatchOf(list)
            s == result.batch
            sent == next..(next + L - 1)
<1>1. /\ L \in Nat /\ next \in Nat /\ next \in 1..(MaxUpdates + 1) /\ MaxUpdates \in Nat
      /\ next + L - 1 <= MaxUpdates
  BY BoundsAreNaturals DEF Write, IInv, Types
<1>2. /\ result \in [ok : BOOLEAN, batch : Seq(Sendable)]
      /\ \A i \in 1..Len(s) : s[i].id \in sent
      /\ Increasing(s)
      /\ result.ok => ~Spoilt(list)
  <2>1. Folded(result, list, L)
    BY <1>1, BatchOfIs
  <2>2. DOMAIN list = 1..L
    OBVIOUS
  <2>. HIDE DEF result
  <2>. QED BY <2>1, <2>2 DEF Folded, Spoilt
<1>3. /\ next' = next + L
      /\ UNCHANGED <<ops, savepoints, writing, word, dbClosed>>
      /\ \/ /\ result.ok
            /\ DbWrite(s, b)
            /\ discarded' = discarded \cup (sent \ Ids(s))
            /\ refused' = IF Spoilt(list) THEN refused \cup sent ELSE refused
            /\ UNCHANGED failures
         \/ /\ refused' = refused \cup sent
            /\ UNCHANGED <<applied, discarded, ignored, failures>>
         \/ /\ DbRefuses(s, b)
            /\ refused' = refused \cup sent
            /\ UNCHANGED <<applied, discarded, ignored>>
  BY DEF Write
<1>. HIDE DEF L, result, sent
<1>4. next' \in Nat /\ next <= next' /\ next' \in 1..(MaxUpdates + 1)
  BY <1>1, <1>3
<1>5. Batches' /\ Apart' /\ SavepointsFit'
  BY <1>3, <1>4, SameBatches
<1>6. Held' = Held
  BY <1>3 DEF Held, Ids
<1>7. Partition(Held, Ids(applied), discarded, ignored, refused, next)
  BY AccountedIs DEF IInv
<1>8. sent \subseteq 1..MaxUpdates /\ 1..(next' - 1) = 1..(next - 1) \cup sent
      /\ sent \cap (1..(next - 1)) = {}
  BY <1>1, <1>3 DEF sent
<1>9. CASE /\ refused' = refused \cup sent
           /\ UNCHANGED <<applied, discarded, ignored>>
           /\ failures' \in 0..MaxFailures
  <2>1. Types'
    BY <1>3, <1>4, <1>8, <1>9 DEF IInv, Types
  <2>2. Ordered'
    BY <1>3, <1>4, <1>9, SameBatches
  <2>3. Partition(Held, Ids(applied), discarded, ignored, refused \cup sent, next')
    BY <1>7, <1>8 DEF Partition
  <2>4. EveryUpdateIsAccountedFor'
    BY <1>6, <1>9, <2>3, AccountedIs
  <2>. QED BY <1>5, <2>1, <2>2, <2>4 DEF IInv
<1>10. CASE /\ result.ok
            /\ DbWrite(s, b)
            /\ discarded' = discarded \cup (sent \ Ids(s))
            /\ refused' = IF Spoilt(list) THEN refused \cup sent ELSE refused
            /\ UNCHANGED failures
  <2>1. refused' = refused
    BY <1>2, <1>10
  <2>2. \A i \in 1..Len(s) : s[i].by = "write" /\ s[i].id \in sent /\ s[i].id >= next
    <3>1. s \in Seq(Sendable)
      BY <1>2
    <3>2. \A i \in 1..Len(s) : s[i].by = "write"
      <4>1. \A u \in Sendable : u.by = "write"
        BY DEF Sendable
      <4>. HIDE DEF s
      <4>. QED BY <3>1, <4>1, ElementOfSeq
    <3>. QED BY <1>1, <1>2, <3>2 DEF sent
  <2>3. s \in Seq(Updates)
    <3>1. s \in Seq(Sendable)
      BY <1>2
    <3>2. \A u \in Sendable : u.id \in 1..MaxUpdates => u \in Updates
      BY DEF Sendable, Updates
    <3>3. Len(s) \in Nat /\ DOMAIN s = 1..Len(s) /\ s = [i \in 1..Len(s) |-> s[i]]
          /\ \A i \in 1..Len(s) : s[i] \in Sendable
      BY <3>1
    <3>4. \A i \in 1..Len(s) : s[i] \in Updates
      BY <1>8, <2>2, <3>2, <3>3
    <3>. HIDE DEF s
    <3>. QED BY <3>3, <3>4
  <2>4. \A k \in 1..Len(applied) : applied[k].id < next /\ applied[k].id \in Nat
    BY UpdatesAre, <1>1 DEF IInv, Types, Ordered
  <2>5. /\ applied' \in Seq(Updates)
        /\ AppliedOnceInOrder'
        /\ \A k \in 1..Len(applied') : \/ k \in 1..Len(applied) /\ applied'[k] = applied[k]
                                       \/ \E i \in 1..Len(s) : applied'[k] = s[i]
        /\ \E A, M : /\ Ids(applied') = Ids(applied) \cup A /\ ignored' = ignored \cup M
                     /\ A \cup M = Ids(s) /\ A \cap M = {}
    <3>1. \A k \in 1..Len(applied), i \in 1..Len(s) :
             applied[k].by = s[i].by => applied[k].id < s[i].id
      <4>1. \A i \in 1..Len(s) : s[i].id \in Int
        <5>1. sent \subseteq Int
          BY <1>1 DEF sent
        <5>. HIDE DEF s
        <5>. QED BY <2>2, <5>1
      <4>2. \A k \in 1..Len(applied) : applied[k].id \in Int /\ applied[k].id < next /\ next \in Int
        BY <1>1, <2>4
      <4>3. \A i \in 1..Len(s) : s[i].id >= next
        BY <2>2
      <4>. HIDE DEF s
      <4>. QED BY <4>1, <4>2, <4>3
    <3>. HIDE DEF s
    <3>. QED BY <1>2, <1>10, <2>3, <3>1, WrittenIs DEF IInv, Ordered
  <2>6. PICK A, M : /\ Ids(applied') = Ids(applied) \cup A /\ ignored' = ignored \cup M
                    /\ A \cup M = Ids(s) /\ A \cap M = {}
    BY <2>5
  <2>7. Ids(s) \subseteq sent
    BY <2>2, <2>3, UpdatesAre
  <2>8. Types'
    BY <1>3, <1>4, <1>8, <1>10, <2>1, <2>5, <2>6, <2>7 DEF IInv, Types
  <2>9. Ordered'
    <3>1. \A k \in 1..Len(applied') : applied'[k].id < next'
      <4>. TAKE k \in 1..Len(applied')
      <4>1. CASE k \in 1..Len(applied) /\ applied'[k] = applied[k]
        BY <1>1, <1>4, <2>4, <4>1
      <4>2. CASE \E i \in 1..Len(s) : applied'[k] = s[i]
        <5>1. applied'[k].id \in sent
          BY <2>2, <4>2
        <5>. QED BY <1>1, <1>3, <5>1 DEF sent
      <4>. QED BY <2>5, <4>1, <4>2
    <3>2. ASSUME NEW p \in Owners, ~writing[p], NEW k \in 1..Len(applied'), NEW i \in 1..Len(ops[p]),
                 applied'[k].by = p
          PROVE  applied'[k].id < ops[p][i].id
      <4>1. k \in 1..Len(applied) /\ applied'[k] = applied[k]
        BY <2>2, <2>5, <3>2, WriteIsNoOwner
      <4>. QED BY <3>2, <4>1 DEF IInv, Ordered
    <3>. QED BY <1>3, <2>5, <3>1, <3>2 DEF Ordered
  <2>10. EveryUpdateIsAccountedFor'
    <3>1. Partition(Held, Ids(applied) \cup A, discarded \cup (sent \ (A \cup M)), ignored \cup M, refused, next')
      BY <1>7, <1>8, <2>6, <2>7 DEF Partition
    <3>. QED BY <1>6, <1>10, <2>1, <2>6, <3>1, AccountedIs
  <2>. QED BY <1>5, <2>8, <2>9, <2>10 DEF IInv
<1>11. ASSUME DbRefuses(s, b) PROVE failures' \in 0..MaxFailures
  BY <1>11, BoundsAreNaturals DEF DbRefuses, IInv, Types
<1>12. failures \in 0..MaxFailures
  BY DEF IInv, Types
<1>. QED BY <1>3, <1>9, <1>10, <1>11, <1>12

\* A write that fails gives nothing up, and families and the database may be
\* closed while updates wait in batches.
LEMMA OthersKeep ==
  ASSUME IInv,
         \/ \E o \in Owners, b \in BOOLEAN : WriteBatchFails(o, b)
         \/ \E c \in Cfs : DropColumnFamily(c)
         \/ Close
         \/ UNCHANGED vars
  PROVE  IInv'
<1>1. UNCHANGED <<ops, savepoints, writing, applied, next, discarded, ignored, refused>>
  BY DEF WriteBatchFails, DropColumnFamily, Close, vars
<1>2. /\ failures' \in 0..MaxFailures /\ dbClosed' \in BOOLEAN
      /\ word' \in [Cfs -> {"open", "dropped", "closed"}]
  <2>1. /\ failures \in 0..MaxFailures /\ dbClosed \in BOOLEAN
        /\ word \in [Cfs -> {"open", "dropped", "closed"}]
    BY DEF IInv, Types
  <2>2. CASE \E o \in Owners, b \in BOOLEAN : WriteBatchFails(o, b)
    BY <2>1, <2>2, BoundsAreNaturals DEF WriteBatchFails, DbRefuses
  <2>3. CASE \E c \in Cfs : DropColumnFamily(c)
    BY <2>1, <2>3 DEF DropColumnFamily
  <2>4. CASE Close
    BY <2>1, <2>4 DEF Close
  <2>5. CASE UNCHANGED vars
    BY <2>1, <2>5 DEF vars
  <2>. QED BY <2>2, <2>3, <2>4, <2>5
<1>3. Types'
  BY <1>1, <1>2 DEF IInv, Types
<1>4. Batches' /\ Apart' /\ SavepointsFit' /\ Ordered'
  <2>1. next' \in Nat /\ next <= next'
    BY <1>1, BoundsAreNaturals DEF IInv, Types
  <2>. QED BY <1>1, <2>1, SameBatches
<1>5. EveryUpdateIsAccountedFor'
  <2>1. Held' = Held
    BY <1>1 DEF Held, Ids
  <2>. QED BY <1>1, <2>1, AccountedIs DEF IInv
<1>. QED BY <1>3, <1>4, <1>5 DEF IInv

-----------------------------------------------------------------------------
(* Theorems *)

\* The invariant holds in every state: batches are numbered as their updates
\* came, share none, and what is written of them precedes what they hold.
THEOREM IInvInductive == Spec => []IInv
<1>1. Init => IInv
  <2>. SUFFICES ASSUME Init PROVE IInv
    OBVIOUS
  <2>1. Types
    <3>1. ops \in [Owners -> Seq(Updates)] /\ savepoints \in [Owners -> Seq(0..MaxUpdates)]
      BY EmptySeq DEF Init
    <3>2. applied \in Seq(Updates)
      BY EmptySeq DEF Init
    <3>3. next \in 1..(MaxUpdates + 1) /\ failures \in 0..MaxFailures
      BY BoundsAreNaturals DEF Init
    <3>4. writing \in [Owners -> BOOLEAN] /\ word \in [Cfs -> {"open", "dropped", "closed"}]
      BY DEF Init
    <3>5. dbClosed \in BOOLEAN /\ discarded \cup ignored \cup refused \subseteq 1..MaxUpdates
      BY DEF Init
    <3>. QED BY <3>1, <3>2, <3>3, <3>4, <3>5 DEF Types
  <2>2. Batches /\ Apart
    <3>1. next \in Nat \ {0} /\ \A o \in Owners : ops[o] = <<>>
      BY DEF Init
    <3>. QED BY <3>1, EmptyBatch DEF Batches, Apart
  <2>3. SavepointsFit /\ Ordered
    BY DEF Init, SavepointsFit, Ordered, AppliedOnceInOrder
  <2>4. EveryUpdateIsAccountedFor
    <3>1. Held = {} /\ Ids(applied) = {}
      BY DEF Init, Held, Ids
    <3>2. Partition({}, {}, {}, {}, {}, 1)
      BY DEF Partition
    <3>. QED BY <3>1, <3>2, AccountedIs DEF Init
  <2>. QED BY <2>1, <2>2, <2>3, <2>4 DEF IInv
<1>2. IInv /\ [Next]_vars => IInv'
  <2>. SUFFICES ASSUME IInv, [Next]_vars PROVE IInv'
    OBVIOUS
  <2>1. ASSUME NEW o \in Owners, NEW b \in BOOLEAN, NEW n \in 1..MaxList, NEW l \in [1..n -> Actions],
               Write(o, l, b)
        PROVE  IInv'
    <3>1. l \in Seq(Actions)
      OBVIOUS
    <3>. QED BY <2>1, <3>1, WriteKeeps
  <2>2. ASSUME NEW o \in Owners, \E cf \in Families : PutBatch(o, cf)
        PROVE  IInv'
    BY <2>2, PutKeeps
  <2>3. ASSUME NEW o \in Owners,
               BatchSetSavePoint(o) \/ BatchRollbackToSavePoint(o) \/ ClearBatch(o) \/ WriteBatchClears(o)
        PROVE  IInv'
    BY <2>3, SetSavePointKeeps, RollbackKeeps, ClearKeeps, WriteBatchClearsKeeps
  <2>4. ASSUME NEW o \in Owners, NEW b \in BOOLEAN, WriteBatch(o, b)
        PROVE  IInv'
    BY <2>4, WriteBatchKeeps
  <2>. QED BY <2>1, <2>2, <2>3, <2>4, OthersKeep DEF Next
<1>. QED BY <1>1, <1>2, PTL DEF Spec

\* Every variable keeps to its values; a batch never has more updates than
\* were ever put.
THEOREM TypesHold == Spec => []TypeOK
<1>1. IInv => TypeOK
  BY DEF IInv, Types, TypeOK
<1>. QED BY <1>1, IInvInductive, PTL

\* Savepoints fit their batch, through rollbacks, writes and clears.
THEOREM SavepointsAlwaysFit == Spec => []SavepointsFit
<1>1. IInv => SavepointsFit
  BY DEF IInv
<1>. QED BY <1>1, IInvInductive, PTL

\* The updates of a batch reach the database once each and in order, for any
\* number of processes, refused writes, rollbacks and dropped families.
THEOREM AppliedInOrder == Spec => []AppliedOnceInOrder
<1>1. IInv => AppliedOnceInOrder
  BY DEF IInv, Ordered
<1>. QED BY <1>1, IInvInductive, PTL

\* An update that was answered ok is in its batch, in the database, or given
\* up for a reason its owner knows, and never in two of these places.
THEOREM NoUpdateIsLost == Spec => []EveryUpdateIsAccountedFor
<1>1. IInv => EveryUpdateIsAccountedFor
  BY DEF IInv
<1>. QED BY <1>1, IInvInductive, PTL
=============================================================================
