------------------------------ MODULE Reads_proofs ------------------------------
(***************************************************************************)
(* Proofs about reads: a fold returns the elements of the view it started  *)
(* with, reads through one snapshot agree, a walk leaves nothing out, no   *)
(* fold leaves its iterator open, and no call reads after a close, for     *)
(* any number of processes, keys, snapshots, writes and read errors.       *)
(***************************************************************************)
EXTENDS Reads, SequenceTheorems, RecursionFacts

-----------------------------------------------------------------------------
(* The elements of a view *)

Pairs == Keys \X Values

\* The recursive definition, as an equation.
LEMMA ElementsAre ==
  ASSUME NEW v \in Views
  PROVE  /\ ElementsUpTo(v) \in [0..NumKeys -> Seq(Pairs)]
         /\ ElementsUpTo(v)[0] = <<>>
         /\ \A k \in 1..NumKeys :
               ElementsUpTo(v)[k] = IF v[k] # 0 THEN Append(ElementsUpTo(v)[k - 1], <<k, v[k]>>)
                                    ELSE ElementsUpTo(v)[k - 1]
<1>. DEFINE S == Seq(Pairs)
            L == NumKeys
            Value(f, k) == IF k = 0 THEN <<>>
                           ELSE IF v[k] # 0 THEN Append(f[k - 1], <<k, v[k]>>) ELSE f[k - 1]
            upTo == CHOOSE f : f = [k \in 0..L |-> Value(f, k)]
            step == [k \in 1..L |-> [q \in S |-> IF v[k] # 0 THEN Append(q, <<k, v[k]>>) ELSE q]]
<1>1. L \in Nat /\ <<>> \in S /\ \A k \in 1..L : v[k] # 0 => <<k, v[k]>> \in Pairs
  BY BoundsAreNaturals DEF Views, Keys, Values, Pairs
<1>2. step \in [1..L -> [S -> S]]
  <2>1. ASSUME NEW k \in 1..L, NEW q \in S
        PROVE  (IF v[k] # 0 THEN Append(q, <<k, v[k]>>) ELSE q) \in S
    <3>. DEFINE x == <<k, v[k]>>
    <3>1. v[k] # 0 => x \in Pairs
      BY <1>1
    <3>. HIDE DEF x
    <3>2. v[k] # 0 => Append(q, x) \in S
      BY <3>1
    <3>. QED BY <3>2 DEF x
  <2>. HIDE DEF S, L
  <2>. QED BY <2>1
<1>3. PICK f \in [0..L -> S] : f[0] = <<>> /\ \A k \in 1..L : f[k] = step[k][f[k - 1]]
  <2>. DEFINE a == <<>>
  <2>1. L \in Nat /\ a \in S
    BY <1>1
  <2>. HIDE DEF step, L, S, a
  <2>2. \E f \in [0..L -> S] : f[0] = a /\ \A k \in 1..L : f[k] = step[k][f[k - 1]]
    BY <2>1, <1>2, Recursion
  <2>. QED BY <2>2 DEF a
<1>4. f = [k \in 0..L |-> Value(f, k)]
  <2>1. \A k \in 0..L : k # 0 => k - 1 \in 0..L /\ k \in 1..L
    BY <1>1
  <2>. HIDE DEF S, L
  <2>2. \A k \in 0..L : k # 0 => f[k - 1] \in S /\ k \in 1..L
    BY <2>1
  <2>. QED BY <1>3, <2>2
<1>5. upTo = [k \in 0..L |-> Value(upTo, k)]
  <2>. HIDE DEF Value, L
  <2>. QED BY <1>4
<1>6. ElementsUpTo(v) = upTo
  BY DEF ElementsUpTo
<1>. HIDE DEF upTo
<1>7. upTo[0] = <<>> /\ \A k \in 1..L : upTo[k] = IF v[k] # 0 THEN Append(upTo[k - 1], <<k, v[k]>>)
                                                  ELSE upTo[k - 1]
  <2>1. \A k \in 0..L : upTo[k] = Value(upTo, k)
    BY <1>5
  <2>2. 0 \in 0..L /\ \A k \in 1..L : k \in 0..L /\ k # 0
    BY <1>1
  <2>. HIDE DEF L
  <2>. QED BY <2>1, <2>2
<1>. DEFINE T == {k \in Nat : k <= L => upTo[k] \in S}
<1>8. 0 \in T
  BY <1>1, <1>7
<1>9. ASSUME NEW k \in Nat, k \in T PROVE k + 1 \in T
  <2>. SUFFICES ASSUME k + 1 <= L PROVE upTo[k + 1] \in S
    OBVIOUS
  <2>. DEFINE m == k + 1
              x == <<m, v[m]>>
  <2>1. upTo[k] \in S /\ m \in 1..L /\ m - 1 = k
    BY <1>1, <1>9
  <2>2. v[m] # 0 => x \in Pairs
    BY <1>1, <2>1
  <2>3. upTo[m] = IF v[m] # 0 THEN Append(upTo[k], x) ELSE upTo[k]
    BY <1>7, <2>1
  <2>. HIDE DEF m, x
  <2>4. upTo[m] \in S
    BY <2>1, <2>2, <2>3
  <2>. QED BY <2>4 DEF m
<1>10. \A k \in 0..L : upTo[k] \in S
  <2>. HIDE DEF T
  <2>1. Nat \subseteq T
    BY <1>8, <1>9, Induction
  <2>. QED BY <1>1, <2>1 DEF T
<1>11. upTo \in [0..L -> S]
  <2>. HIDE DEF S
  <2>. QED BY <1>5, <1>10
<1>. QED BY <1>6, <1>7, <1>11

\* Where no key is present nothing is added.
LEMMA NothingBetween ==
  ASSUME NEW v \in Views, NEW j \in 0..NumKeys, NEW n \in 0..NumKeys, j <= n,
         \A k \in Present(v) : ~(j < k /\ k <= n)
  PROVE  ElementsUpTo(v)[n] = ElementsUpTo(v)[j]
<1>. DEFINE e == ElementsUpTo(v)
            T == {d \in Nat : j + d <= n => e[j + d] = e[j]}
<1>1. NumKeys \in Nat /\ j \in Nat /\ n \in Nat
  BY BoundsAreNaturals
<1>2. 0 \in T
  BY <1>1
<1>3. ASSUME NEW d \in Nat, d \in T PROVE d + 1 \in T
  <2>. SUFFICES ASSUME j + (d + 1) <= n PROVE e[j + (d + 1)] = e[j]
    OBVIOUS
  <2>. DEFINE m == j + (d + 1)
  <2>1. e[j + d] = e[j] /\ m \in 1..NumKeys /\ m - 1 = j + d /\ j < m /\ m <= n
    BY <1>1, <1>3
  <2>2. v[m] = 0
    BY <2>1 DEF Present, Keys
  <2>. HIDE DEF m
  <2>3. e[m] = e[m - 1]
    BY <2>1, <2>2, ElementsAre
  <2>. QED BY <2>1, <2>3 DEF m
<1>4. n - j \in T
  <2>1. n - j \in Nat
    BY <1>1
  <2>. HIDE DEF T
  <2>. QED BY <1>2, <1>3, <2>1, Induction
<1>. QED BY <1>1, <1>4

\* One key further.
LEMMA OneMore ==
  ASSUME NEW v \in Views, NEW k \in Present(v)
  PROVE  /\ k \in 1..NumKeys /\ k - 1 \in 0..NumKeys
         /\ <<k, v[k]>> \in Pairs
         /\ ElementsUpTo(v)[k] = Append(ElementsUpTo(v)[k - 1], <<k, v[k]>>)
<1>1. k \in 1..NumKeys /\ v[k] # 0
  BY DEF Present, Keys
<1>2. k - 1 \in 0..NumKeys
  BY <1>1, BoundsAreNaturals
<1>3. k \in Keys /\ v[k] \in Values
  BY <1>1 DEF Views, Keys
<1>4. <<k, v[k]>> \in Pairs
  BY <1>3 DEF Pairs
<1>5. ElementsUpTo(v)[k] = Append(ElementsUpTo(v)[k - 1], <<k, v[k]>>)
  BY <1>1, ElementsAre
<1>. QED BY <1>1, <1>2, <1>4, <1>5

\* The elements up to a key are a prefix of those up to a later key.
LEMMA PrefixesGrow ==
  ASSUME NEW v \in Views, NEW j \in 0..NumKeys, NEW n \in 0..NumKeys, j <= n
  PROVE  IsPrefix(ElementsUpTo(v)[j], ElementsUpTo(v)[n])
<1>. DEFINE e == ElementsUpTo(v)
            p == e[j]
            Fits(q) == Len(p) <= Len(q) /\ \A i \in 1..Len(p) : q[i] = p[i]
            T == {d \in Nat : j + d <= n => Fits(e[j + d])}
<1>1. NumKeys \in Nat /\ j \in Nat /\ n \in Nat
  BY BoundsAreNaturals
<1>2. e \in [0..NumKeys -> Seq(Pairs)] /\ p \in Seq(Pairs) /\ Len(p) \in Nat
  <2>1. e \in [0..NumKeys -> Seq(Pairs)]
    BY ElementsAre
  <2>. HIDE DEF e
  <2>. QED BY <2>1
<1>. HIDE DEF e, p
<1>3. 0 \in T
  <2>1. e[j + 0] = p
    BY <1>1 DEF p
  <2>2. Fits(p)
    BY <1>2
  <2>. HIDE DEF Fits
  <2>. QED BY <2>1, <2>2
<1>4. ASSUME NEW d \in Nat, d \in T PROVE d + 1 \in T
  <2>. SUFFICES ASSUME j + (d + 1) <= n PROVE Fits(e[j + (d + 1)])
    OBVIOUS
  <2>. DEFINE m == j + (d + 1)
              x == <<m, v[m]>>
              q == e[m - 1]
  <2>1. m \in 1..NumKeys /\ m - 1 = j + d /\ m - 1 \in 0..NumKeys
    BY <1>1
  <2>2. Fits(q) /\ q \in Seq(Pairs)
    BY <1>1, <1>2, <1>4, <2>1
  <2>3. e[m] = IF v[m] # 0 THEN Append(q, x) ELSE q
    BY <2>1, ElementsAre DEF e
  <2>4. v[m] # 0 => x \in Pairs
    BY <2>1, OneMore DEF Present, Keys
  <2>. HIDE DEF m, x, q
  <2>5. CASE v[m] = 0
    BY <2>2, <2>3, <2>5 DEF m
  <2>6. CASE v[m] # 0
    <3>. DEFINE a == Append(q, x)
    <3>1. Len(a) = Len(q) + 1 /\ Len(q) \in Nat /\ \A i \in 1..Len(q) : a[i] = q[i]
      BY <2>2, <2>4, <2>6, AppendProperties
    <3>. HIDE DEF a
    <3>2. Fits(a)
      BY <1>2, <2>2, <3>1
    <3>3. e[m] = a
      BY <2>3, <2>6 DEF a
    <3>. QED BY <3>2, <3>3 DEF m
  <2>. QED BY <2>5, <2>6
<1>5. Fits(e[n])
  <2>1. n - j \in Nat /\ j + (n - j) = n
    BY <1>1
  <2>2. n - j \in T
    <3>. HIDE DEF T
    <3>. QED BY <1>3, <1>4, <2>1, Induction
  <2>. HIDE DEF Fits
  <2>. QED BY <1>1, <2>1, <2>2
<1>6. e[n] \in Seq(Pairs)
  BY <1>2
<1>7. SubSeq(p, 1, Len(p)) = SubSeq(e[n], 1, Len(p))
  <2>1. /\ \A i \in 1..Len(p) : p[i] \in Pairs
        /\ \A i \in 1..Len(p) : e[n][i] \in Pairs
    BY <1>2, <1>5
  <2>. DEFINE a == SubSeq(p, 1, Len(p))
              b == SubSeq(e[n], 1, Len(p))
  <2>2. a \in Seq(Pairs) /\ Len(a) = Len(p) /\ \A i \in 1..Len(p) : a[i] = p[i]
    BY <1>2, <2>1, SubSeqProperties
  <2>3. b \in Seq(Pairs) /\ Len(b) = Len(p) /\ \A i \in 1..Len(p) : b[i] = e[n][i]
    BY <1>2, <2>1, SubSeqProperties
  <2>. HIDE DEF a, b
  <2>4. a = b
    BY <1>5, <2>2, <2>3, SeqEqual
  <2>. QED BY <2>4 DEF a, b
<1>. QED BY <1>5, <1>7 DEF IsPrefix, e, p

\* The elements up to a key are the pairs of the keys that are present.
LEMMA ElementsTell ==
  ASSUME NEW v \in Views, NEW n \in 0..NumKeys
  PROVE  \A x : x \in ToSet(ElementsUpTo(v)[n]) <=> \E k \in Present(v) : k <= n /\ x = <<k, v[k]>>
<1>. DEFINE e == ElementsUpTo(v)
            Tells(q, m) == /\ \A i \in 1..Len(q) : \E k \in Present(v) : k <= m /\ q[i] = <<k, v[k]>>
                           /\ \A k \in Present(v) : k <= m => \E i \in 1..Len(q) : q[i] = <<k, v[k]>>
            T == {m \in Nat : m <= NumKeys => Tells(e[m], m)}
<1>1. NumKeys \in Nat /\ \A k \in Present(v) : k \in 1..NumKeys
  BY BoundsAreNaturals DEF Present, Keys
<1>2. e \in [0..NumKeys -> Seq(Pairs)] /\ e[0] = <<>>
  BY ElementsAre
<1>. HIDE DEF e
<1>3. 0 \in T
  <2>1. Tells(<<>>, 0)
    BY <1>1
  <2>. HIDE DEF Tells
  <2>. QED BY <1>2, <2>1
<1>4. ASSUME NEW m \in Nat, m \in T PROVE m + 1 \in T
  <2>. SUFFICES ASSUME m + 1 <= NumKeys PROVE Tells(e[m + 1], m + 1)
    OBVIOUS
  <2>. DEFINE l == m + 1
              x == <<l, v[l]>>
              q == e[m]
  <2>1. Tells(q, m) /\ q \in Seq(Pairs) /\ l \in 1..NumKeys /\ l - 1 = m
    <3>1. m \in 0..NumKeys /\ l \in 1..NumKeys /\ l - 1 = m
      BY <1>1
    <3>2. q \in Seq(Pairs)
      BY <1>2, <3>1
    <3>. HIDE DEF Tells
    <3>3. Tells(q, m)
      BY <1>4, <3>1
    <3>. QED BY <3>1, <3>2, <3>3
  <2>2. e[l] = IF v[l] # 0 THEN Append(q, x) ELSE q
    BY <2>1, ElementsAre DEF e
  <2>3. /\ v[l] # 0 => l \in Present(v) /\ x \in Pairs
        /\ l \in Present(v) => v[l] # 0
    BY <2>1, OneMore DEF Present, Keys
  <2>4. \A k \in Present(v) : k <= l <=> k <= m \/ k = l
    BY <1>1
  <2>. HIDE DEF q
  <2>5. CASE v[l] = 0
    <3>1. \A k \in Present(v) : k <= l <=> k <= m
      BY <2>3, <2>4, <2>5
    <3>2. Tells(q, l)
      BY <2>1, <3>1
    <3>. HIDE DEF Tells
    <3>. QED BY <2>2, <2>5, <3>2
  <2>6. CASE v[l] # 0
    <3>. DEFINE a == Append(q, x)
    <3>. HIDE DEF x
    <3>1. Len(a) = Len(q) + 1 /\ Len(q) \in Nat /\ (\A i \in 1..Len(q) : a[i] = q[i]) /\ a[Len(q) + 1] = x
      BY <2>1, <2>3, <2>6, AppendProperties
    <3>. HIDE DEF a, l
    <3>2. \A i \in 1..Len(a) : i \in 1..Len(q) \/ i = Len(q) + 1
      BY <3>1
    <3>3. 1..Len(q) \subseteq 1..Len(a) /\ Len(q) + 1 \in 1..Len(a)
      BY <3>1
    <3>4. x = <<l, v[l]>>
      BY DEF x
    <3>5. \A i \in 1..Len(a) : \E k \in Present(v) : k <= l /\ a[i] = <<k, v[k]>>
      <4>. TAKE i \in 1..Len(a)
      <4>1. CASE i \in 1..Len(q)
        BY <2>1, <2>4, <3>1, <4>1
      <4>2. CASE i = Len(q) + 1
        BY <2>3, <2>4, <2>6, <3>1, <3>4, <4>2
      <4>. QED BY <3>2, <4>1, <4>2
    <3>6. \A k \in Present(v) : k <= l => \E i \in 1..Len(a) : a[i] = <<k, v[k]>>
      <4>. SUFFICES ASSUME NEW k \in Present(v), k <= l PROVE \E i \in 1..Len(a) : a[i] = <<k, v[k]>>
        OBVIOUS
      <4>1. CASE k <= m
        BY <2>1, <3>1, <3>3, <4>1
      <4>2. CASE k = l
        BY <3>1, <3>3, <3>4, <4>2
      <4>. QED BY <2>4, <4>1, <4>2
    <3>7. Tells(a, l)
      BY <3>5, <3>6
    <3>8. e[l] = a
      BY <2>2, <2>6 DEF a
    <3>. HIDE DEF Tells
    <3>. QED BY <3>7, <3>8 DEF l
  <2>. QED BY <2>5, <2>6
<1>5. Tells(e[n], n)
  <2>1. n \in Nat /\ n <= NumKeys
    BY <1>1
  <2>2. n \in T
    <3>. HIDE DEF T
    <3>. QED BY <1>3, <1>4, <2>1, Induction
  <2>. HIDE DEF Tells
  <2>. QED BY <2>1, <2>2
<1>6. DOMAIN e[n] = 1..Len(e[n])
  BY <1>2
<1>7. \A x : x \in ToSet(e[n]) <=> \E i \in 1..Len(e[n]) : e[n][i] = x
  BY <1>6 DEF ToSet
<1>8. ASSUME NEW x PROVE x \in ToSet(e[n]) <=> \E k \in Present(v) : k <= n /\ x = <<k, v[k]>>
  <2>1. ASSUME NEW i \in 1..Len(e[n]), e[n][i] = x PROVE \E k \in Present(v) : k <= n /\ x = <<k, v[k]>>
    BY <1>5, <2>1
  <2>2. ASSUME NEW k \in Present(v), k <= n, x = <<k, v[k]>> PROVE \E i \in 1..Len(e[n]) : e[n][i] = x
    BY <1>5, <2>2
  <2>. QED BY <1>7, <2>1, <2>2
<1>. QED BY <1>8 DEF e

-----------------------------------------------------------------------------
(* The places an iterator moves to *)

\* A set of naturals has a least element.
LEMMA MinIs ==
  ASSUME NEW S \in SUBSET Nat, S # {}
  PROVE  Min(S) \in S /\ \A x \in S : Min(S) <= x
<1>1. PICK m \in S : \A x \in S : <<x, m>> \notin OpToRel(<, Nat)
  BY WFMin, NatLessThanWellFounded
<1>2. ASSUME NEW x \in S PROVE m <= x
  <2>1. <<x, m>> \notin OpToRel(<, Nat)
    BY <1>1
  <2>2. x \in Nat /\ m \in Nat
    OBVIOUS
  <2>3. ~(x < m)
    BY <2>1, <2>2 DEF OpToRel
  <2>. QED BY <2>2, <2>3
<1>. QED BY <1>2 DEF Min

\* The greatest of a bounded set.
LEMMA MaxIs ==
  ASSUME NEW N \in Nat, NEW S \in SUBSET (0..N), S # {}
  PROVE  Max(S) \in S /\ \A x \in S : x <= Max(S)
<1>. DEFINE Bounds == {n \in Nat : \A x \in S : x <= n}
            m == Min(Bounds)
<1>1. Bounds \in SUBSET Nat /\ N \in Bounds
  OBVIOUS
<1>2. m \in Bounds /\ \A n \in Bounds : m <= n
  <2>. HIDE DEF Bounds
  <2>. QED BY <1>1, MinIs
<1>. HIDE DEF m
<1>3. m \in S
  <2>. SUFFICES ASSUME m \notin S PROVE FALSE
    OBVIOUS
  <2>1. \A x \in S : x \in Nat /\ x <= m /\ x # m
    BY <1>2
  <2>2. m \in Nat /\ m # 0
    <3>1. PICK x \in S : TRUE
      OBVIOUS
    <3>2. x \in Nat /\ x <= m /\ x # m /\ m \in Nat
      BY <1>2, <2>1
    <3>. QED BY <3>2
  <2>3. m - 1 \in Bounds
    BY <2>1, <2>2
  <2>4. m <= m - 1
    BY <1>2, <2>3
  <2>. QED BY <2>2, <2>4
<1>4. \A x \in S : x \in Nat /\ m >= x
  BY <1>2
<1>. QED BY <1>3, <1>4 DEF Max

\* Next leads to the next key that is there.
LEMMA KeyAfterIs ==
  ASSUME NEW v \in Views, NEW p \in 0..NumKeys
  PROVE  LET k == KeyAfter(v, p)
         IN  /\ k \in {0} \cup Present(v)
             /\ k = 0 => \A l \in Present(v) : ~(p < l)
             /\ k # 0 => p < k /\ \A l \in Present(v) : ~(p < l /\ l < k)
<1>. DEFINE later == {k \in Present(v) : k > p}
<1>1. NumKeys \in Nat /\ Present(v) \subseteq 1..NumKeys
  BY BoundsAreNaturals DEF Present, Keys
<1>2. CASE later = {}
  BY <1>1, <1>2 DEF KeyAfter
<1>3. CASE later # {}
  <2>1. later \in SUBSET Nat
    BY <1>1
  <2>2. Min(later) \in later /\ \A x \in later : Min(later) <= x
    <3>. HIDE DEF later
    <3>. QED BY <1>3, <2>1, MinIs
  <2>3. KeyAfter(v, p) = Min(later)
    BY <1>3 DEF KeyAfter
  <2>. QED BY <1>1, <2>2, <2>3
<1>. QED BY <1>2, <1>3

\* Prev leads to the key before.
LEMMA KeyBeforeIs ==
  ASSUME NEW v \in Views, NEW p \in 0..(NumKeys + 1)
  PROVE  LET k == KeyBefore(v, p)
         IN  /\ k \in {0} \cup Present(v)
             /\ p # 0 => k < p
             /\ \A l \in Present(v) : ~(k < l /\ l < p)
<1>. DEFINE S == {k \in Present(v) : k < p} \cup {0}
<1>1. NumKeys \in Nat /\ Present(v) \subseteq 1..NumKeys
  BY BoundsAreNaturals DEF Present, Keys
<1>2. S \in SUBSET (0..NumKeys) /\ S # {}
  BY <1>1
<1>3. Max(S) \in S /\ \A x \in S : x <= Max(S)
  <2>. HIDE DEF S
  <2>. QED BY <1>1, <1>2, MaxIs
<1>4. KeyBefore(v, p) = Max(S)
  BY DEF KeyBefore
<1>. QED BY <1>1, <1>3, <1>4

-----------------------------------------------------------------------------
(* The invariant *)

\* Where a process may be.
Places == {"idle", "first", "reading", "fun", "next", "browse", "moving", "after", "over", "dead"}

Types ==
    /\ stored \in Views /\ writes \in 0..MaxWrites /\ errors \in 0..MaxErrors
    /\ dbClosed \in BOOLEAN
    /\ snap \in [Snaps -> {"none", "taken", "released"}]
    /\ snapView \in [Snaps -> Views]
    /\ itr \in [Folders -> {"none", "open", "closed"}]
    /\ view \in [Folders -> Views]
    /\ with \in [Folders -> Snaps \cup {NoSnap}]
    /\ pos \in [Folders -> 0..NumKeys]
    /\ pc \in [Folders -> Places]
    /\ outcome \in [Folders -> {"none", "returned", "returnedAcc0", "badarg", "funRaised"}]
    /\ underWay \subseteq Folders
    /\ failed \in [Folders -> BOOLEAN]
    /\ walk \in [Folders -> SUBSET (0..(NumKeys + 1))]
    /\ acc \in [Folders -> Seq(Pairs)]

\* What a process that has not begun, has begun, and is done, has.
Begun(f) ==
    /\ pc[f] = "idle" => /\ itr[f] = "none" /\ acc[f] = <<>> /\ pos[f] = 0
                         /\ walk[f] = {} /\ outcome[f] = "none"
    /\ pc[f] \in {"first", "reading", "fun", "next", "browse", "moving"} => outcome[f] = "none"
    /\ pc[f] = "first" => pos[f] = 0 /\ acc[f] = <<>>
    /\ pc[f] = "over" => itr[f] # "open"

\* How far a fold has come: it has the elements up to a key, which is the one
\* before its position while the fun works on that.
Folded(f) ==
    /\ pc[f] = "fun" => /\ pos[f] \in Present(view[f])
                        /\ acc[f] = ElementsUpTo(view[f])[pos[f] - 1]
    /\ pc[f] \in {"reading", "next"} => acc[f] = ElementsUpTo(view[f])[pos[f]]
    /\ outcome[f] = "returned" /\ ~failed[f] => acc[f] = Elements(view[f])
    /\ \E k \in 0..NumKeys : acc[f] = ElementsUpTo(view[f])[k]

\* A walk leaves no element out between two places where it was.
Walked(f) ==
    /\ walk[f] \cap Keys \subseteq Present(view[f])
    /\ \A x, y \in walk[f] : \A k \in Present(view[f]) : x < k /\ k < y => k \in walk[f]
    /\ pc[f] \in {"browse", "moving"} /\ pos[f] # 0 => pos[f] \in walk[f]

\* The iterator of a fold through a snapshot sees the contents of that.
Sees(f) ==
    (pc[f] \in {"first", "reading", "fun", "next"} \/ outcome[f] = "returned") /\ with[f] # NoSnap =>
        snap[with[f]] # "none" /\ view[f] = snapView[with[f]]

\* A get through a snapshot that was not released has read its contents.
Recorded ==
    got.op = "get" /\ got.with # NoSnap =>
        /\ got.with \in Snaps /\ got.key \in Keys
        /\ snap[got.with] # "none"
        /\ snap[got.with] = "taken" => got.there = snapView[got.with][got.key]

IInv == Types /\ (\A f \in Folders : Begun(f) /\ Folded(f) /\ Walked(f) /\ Sees(f)) /\ Recorded

\* Snapshots that were taken keep their contents.
SnapsStay == \A s \in Snaps : snap[s] # "none" => snap'[s] # "none" /\ snapView'[s] = snapView[s]

\* A process that does nothing keeps its part of the invariant.
LEMMA OtherFolders ==
  ASSUME IInv, NEW f \in Folders, SnapsStay,
         itr'[f] = itr[f] \/ (itr[f] = "open" /\ itr'[f] = "closed"),
         view'[f] = view[f], with'[f] = with[f], pos'[f] = pos[f], pc'[f] = pc[f],
         acc'[f] = acc[f], outcome'[f] = outcome[f], walk'[f] = walk[f], failed'[f] = failed[f]
  PROVE  (Begun(f) /\ Folded(f) /\ Walked(f) /\ Sees(f))'
<1>1. Begun(f) /\ Folded(f) /\ Walked(f) /\ Sees(f) /\ with[f] \in Snaps \cup {NoSnap}
  BY DEF IInv, Types
<1>2. Begun(f)'
  BY <1>1 DEF Begun
<1>3. Folded(f)'
  BY <1>1 DEF Folded
<1>4. Walked(f)'
  BY <1>1 DEF Walked
<1>5. Sees(f)'
  BY <1>1 DEF Sees, SnapsStay
<1>. QED BY <1>2, <1>3, <1>4, <1>5

-----------------------------------------------------------------------------
(* The steps of one process *)

\* A fold has the elements up to a key when it moves on from there: nothing is
\* present before the next one.
LEMMA MoveKeeps ==
  ASSUME NEW v \in Views, NEW p \in 0..NumKeys, NEW k, k = KeyAfter(v, p)
  PROVE  /\ k = 0 => ElementsUpTo(v)[p] = Elements(v)
         /\ k # 0 => k \in Present(v) /\ ElementsUpTo(v)[p] = ElementsUpTo(v)[k - 1]
<1>1. NumKeys \in Nat /\ Present(v) \subseteq 1..NumKeys
  BY BoundsAreNaturals DEF Present, Keys
<1>2. /\ k \in {0} \cup Present(v)
      /\ k = 0 => \A l \in Present(v) : ~(p < l)
      /\ k # 0 => p < k /\ \A l \in Present(v) : ~(p < l /\ l < k)
  BY KeyAfterIs
<1>3. CASE k = 0
  <2>1. \A l \in Present(v) : ~(p < l /\ l <= NumKeys)
    BY <1>2, <1>3
  <2>2. NumKeys \in 0..NumKeys /\ p <= NumKeys
    BY <1>1
  <2>. QED BY <1>3, <2>1, <2>2, NothingBetween DEF Elements
<1>4. CASE k # 0
  <2>1. k \in Present(v) /\ k - 1 \in 0..NumKeys /\ p <= k - 1
    BY <1>1, <1>2, <1>4
  <2>2. \A l \in Present(v) : ~(p < l /\ l <= k - 1)
    BY <1>1, <1>2, <1>4
  <2>. QED BY <1>4, <2>1, <2>2, NothingBetween
<1>. QED BY <1>3, <1>4

\* A process begins: it has no element and has been nowhere.
LEMMA BeginKeeps ==
  ASSUME IInv, NEW f \in Folders, NEW s \in Snaps \cup {NoSnap}, Fold(f, s) \/ Browse(f, s)
  PROVE  Types' /\ (Begun(f) /\ Folded(f) /\ Walked(f) /\ Sees(f))'
<1>1. Types /\ Begun(f) /\ Folded(f) /\ Walked(f)
  BY DEF IInv
<1>2. /\ itr[f] = "none" /\ acc[f] = <<>> /\ pos[f] = 0 /\ walk[f] = {} /\ outcome[f] = "none"
      /\ with' = [with EXCEPT ![f] = s]
      /\ UNCHANGED <<stored, writes, errors, dbClosed, snap, snapView, pos, walk, acc, underWay, failed, got>>
  BY <1>1 DEF Fold, Browse, Begun, db, snaps
<1>3. CASE /\ Iterator(f, s) /\ outcome' = outcome
           /\ \E p \in {"first", "browse"} : pc' = [pc EXCEPT ![f] = p]
  <2>1. (IF s = NoSnap THEN stored ELSE snapView[s]) \in Views
    BY <1>1, <1>3 DEF Types
  <2>2. Types'
    BY <1>1, <1>2, <1>3, <2>1 DEF Types, Iterator, Places
  <2>3. /\ itr'[f] = "open" /\ acc'[f] = <<>> /\ pos'[f] = 0 /\ walk'[f] = {} /\ outcome'[f] = "none"
        /\ pc'[f] \in {"first", "browse"} /\ with'[f] = s
        /\ view'[f] = IF s = NoSnap THEN stored ELSE snapView[s]
        /\ s # NoSnap => snap[s] = "taken"
    BY <1>1, <1>2, <1>3 DEF Iterator, Types
  <2>4. Begun(f)'
    BY <2>3 DEF Begun
  <2>5. Folded(f)'
    <3>1. ElementsUpTo(view'[f])[0] = <<>>
      BY <2>1, <2>3, ElementsAre
    <3>2. 0 \in 0..NumKeys
      BY BoundsAreNaturals
    <3>. QED BY <2>3, <3>1, <3>2 DEF Folded
  <2>6. Walked(f)' /\ Sees(f)'
    BY <1>2, <2>3 DEF Walked, Sees
  <2>. QED BY <2>2, <2>4, <2>5, <2>6
<1>4. CASE IteratorRefused(f, s)
  <2>1. Types'
    BY <1>1, <1>2, <1>4 DEF Types, IteratorRefused, Places
  <2>2. /\ itr' = itr /\ view' = view /\ pc'[f] = "over" /\ outcome'[f] = "badarg"
    BY <1>1, <1>4 DEF IteratorRefused, Types
  <2>3. Begun(f)' /\ Folded(f)' /\ Walked(f)' /\ Sees(f)'
    BY <1>1, <1>2, <2>2 DEF Begun, Folded, Walked, Sees
  <2>. QED BY <2>1, <2>3
<1>. QED BY <1>3, <1>4 DEF Fold, Browse

\* The fold calls iterator_move, which passes its test or refuses.
LEMMA LoopKeeps ==
  ASSUME IInv, NEW f \in Folders, FoldLoop(f)
  PROVE  Types' /\ (Begun(f) /\ Folded(f) /\ Walked(f) /\ Sees(f))'
<1>1. Types /\ Begun(f) /\ Folded(f) /\ Walked(f) /\ Sees(f)
  BY DEF IInv
<1>2. UNCHANGED <<stored, writes, errors, dbClosed, snap, snapView, itr, view, with, pos, walk, acc,
                  underWay, failed, got>>
  BY DEF FoldLoop, db, snaps, cur
<1>3. pc[f] \in {"first", "next"} /\ outcome[f] = "none" /\ acc[f] = ElementsUpTo(view[f])[pos[f]]
  <2>1. view[f] \in Views
    BY <1>1 DEF Types
  <2>2. ElementsUpTo(view[f])[0] = <<>>
    BY <2>1, ElementsAre
  <2>. QED BY <1>1, <2>2 DEF FoldLoop, Begun, Folded
<1>4. CASE pc' = [pc EXCEPT ![f] = "reading"] /\ outcome' = outcome
  <2>1. Types'
    BY <1>1, <1>2, <1>4 DEF Types, Places
  <2>2. pc'[f] = "reading" /\ outcome'[f] = "none"
    BY <1>1, <1>3, <1>4 DEF Types
  <2>3. Begun(f)' /\ Folded(f)' /\ Walked(f)' /\ Sees(f)'
    BY <1>1, <1>2, <1>3, <2>2 DEF Begun, Folded, Walked, Sees
  <2>. QED BY <2>1, <2>3
<1>5. CASE MoveRefused(f)
  <2>1. Types'
    BY <1>1, <1>2, <1>5 DEF Types, MoveRefused, Places
  <2>2. pc'[f] = "after" /\ outcome'[f] = "badarg"
    BY <1>1, <1>5 DEF MoveRefused, Types
  <2>3. Begun(f)' /\ Folded(f)' /\ Walked(f)' /\ Sees(f)'
    BY <1>1, <1>2, <2>2 DEF Begun, Folded, Walked, Sees
  <2>. QED BY <2>1, <2>3
<1>. QED BY <1>4, <1>5 DEF FoldLoop

\* The fold moves on, to the next element or to the end.
LEMMA FoldMoveKeeps ==
  ASSUME IInv, NEW f \in Folders, FoldMove(f) \/ FoldMoveError(f)
  PROVE  Types' /\ (Begun(f) /\ Folded(f) /\ Walked(f) /\ Sees(f))'
<1>. DEFINE v == view[f]
            p == pos[f]
            e == ElementsUpTo(v)
<1>1. Types /\ Begun(f) /\ Folded(f) /\ Walked(f) /\ Sees(f)
  BY DEF IInv
<1>2. /\ pc[f] = "reading" /\ outcome[f] = "none" /\ acc[f] = e[p]
      /\ v \in Views /\ p \in 0..NumKeys /\ failed[f] \in BOOLEAN
  <2>1. pc[f] = "reading" /\ outcome[f] = "none"
    BY <1>1 DEF FoldMove, FoldMoveError, Begun
  <2>2. v \in Views /\ p \in 0..NumKeys /\ failed[f] \in BOOLEAN
    BY <1>1 DEF Types
  <2>. QED BY <1>1, <2>1, <2>2 DEF Folded
<1>3. /\ UNCHANGED <<stored, writes, dbClosed, snap, snapView, itr, view, with, walk, acc, got>>
      /\ underWay' \subseteq Folders
      /\ \/ Move(f, KeyAfter(v, p)) /\ failed' = failed /\ errors' = errors
         \/ Move(f, 0) /\ failed' = [failed EXCEPT ![f] = TRUE] /\ errors' \in 0..MaxErrors
  <2>1. CASE FoldMove(f)
    BY <1>1, <2>1 DEF FoldMove, db, snaps, Types
  <2>2. CASE FoldMoveError(f)
    <3>1. errors' \in 0..MaxErrors
      BY <1>1, <2>2, BoundsAreNaturals DEF FoldMoveError, Types
    <3>. QED BY <1>1, <2>2, <3>1 DEF FoldMoveError, db, snaps, Types
  <2>. QED BY <2>1, <2>2
<1>4. /\ KeyAfter(v, p) \in 0..NumKeys
      /\ KeyAfter(v, p) = 0 => e[p] = Elements(v)
      /\ KeyAfter(v, p) # 0 => KeyAfter(v, p) \in Present(v) /\ e[p] = e[KeyAfter(v, p) - 1]
  <2>1. Present(v) \subseteq 0..NumKeys /\ 0 \in 0..NumKeys
    BY BoundsAreNaturals DEF Present, Keys
  <2>. QED BY <1>2, <2>1, MoveKeeps, KeyAfterIs
<1>. DEFINE k == KeyAfter(v, p)
<1>. HIDE DEF k, v, p, e
<1>5. CASE Move(f, k) /\ failed' = failed /\ errors' = errors
  <2>1. Types'
    <3>1. pos' \in [Folders -> 0..NumKeys]
      BY <1>1, <1>4, <1>5 DEF Types, Move, k
    <3>2. /\ pc' \in [Folders -> Places]
          /\ outcome' \in [Folders -> {"none", "returned", "returnedAcc0", "badarg", "funRaised"}]
      BY <1>1, <1>5 DEF Types, Move, Places
    <3>. QED BY <1>1, <1>3, <1>5, <3>1, <3>2 DEF Types
  <2>2. /\ pos'[f] = k /\ view'[f] = v /\ acc'[f] = e[p] /\ walk'[f] = walk[f]
        /\ failed'[f] = failed[f] /\ with'[f] = with[f]
        /\ \/ k # 0 /\ pc'[f] = "fun" /\ outcome'[f] = "none"
           \/ k = 0 /\ pc'[f] = "after" /\ outcome'[f] = "returned"
    BY <1>1, <1>2, <1>3, <1>5 DEF Move, Types, v
  <2>3. Begun(f)'
    BY <2>2 DEF Begun
  <2>4. Folded(f)'
    BY <1>2, <1>4, <2>2 DEF Folded, e, k
  <2>5. Walked(f)'
    BY <1>1, <2>2 DEF Walked, v
  <2>6. Sees(f)'
    BY <1>1, <1>2, <1>3, <2>2 DEF Sees, v
  <2>. QED BY <2>1, <2>3, <2>4, <2>5, <2>6
<1>6. CASE Move(f, 0) /\ failed' = [failed EXCEPT ![f] = TRUE] /\ errors' \in 0..MaxErrors
  <2>1. Types'
    <3>1. 0 \in 0..NumKeys
      BY BoundsAreNaturals
    <3>2. pos' \in [Folders -> 0..NumKeys] /\ failed' \in [Folders -> BOOLEAN]
      BY <1>1, <1>6, <3>1 DEF Types, Move
    <3>. QED BY <1>1, <1>3, <1>6, <3>2 DEF Types, Move, Places
  <2>2. /\ pc'[f] = "after" /\ outcome'[f] = "returned" /\ failed'[f]
    BY <1>1, <1>6 DEF Move, Types
  <2>3. Begun(f)' /\ Folded(f)' /\ Walked(f)' /\ Sees(f)'
    BY <1>1, <1>2, <1>3, <2>2 DEF Begun, Folded, Walked, Sees
  <2>. QED BY <2>1, <2>3
<1>. QED BY <1>3, <1>5, <1>6 DEF k

\* The fun is called with the next element, or raises.
LEMMA FunKeeps ==
  ASSUME IInv, NEW f \in Folders, Fun(f)
  PROVE  Types' /\ (Begun(f) /\ Folded(f) /\ Walked(f) /\ Sees(f))'
<1>. DEFINE v == view[f]
            p == pos[f]
            e == ElementsUpTo(v)
            x == <<p, v[p]>>
<1>1. Types /\ Begun(f) /\ Folded(f) /\ Walked(f) /\ Sees(f)
  BY DEF IInv
<1>2. /\ pc[f] = "fun" /\ outcome[f] = "none" /\ acc[f] = e[p - 1] /\ acc[f] \in Seq(Pairs)
      /\ v \in Views /\ p \in Present(v) /\ p \in 0..NumKeys
  BY <1>1 DEF Fun, Begun, Folded, Types
<1>3. UNCHANGED <<stored, writes, errors, dbClosed, snap, snapView, itr, view, with, pos, walk,
                  underWay, failed, got>>
  BY DEF Fun, db, snaps, cur
<1>4. x \in Pairs /\ e[p] = Append(acc[f], x)
  BY <1>2, OneMore
<1>. HIDE DEF v, p, e, x
<1>5. CASE acc' = [acc EXCEPT ![f] = Append(acc[f], x)] /\ pc' = [pc EXCEPT ![f] = "next"] /\ outcome' = outcome
  <2>1. e[p] \in Seq(Pairs)
    BY <1>2, <1>4, AppendProperties
  <2>2. acc' = [acc EXCEPT ![f] = e[p]]
    BY <1>4, <1>5
  <2>3. Types'
    <3>1. acc' \in [Folders -> Seq(Pairs)] /\ pc' \in [Folders -> Places]
      BY <1>1, <1>5, <2>1, <2>2 DEF Types, Places
    <3>. QED BY <1>1, <1>3, <1>5, <3>1 DEF Types
  <2>4. acc'[f] = e[p] /\ pc'[f] = "next" /\ outcome'[f] = "none"
    BY <1>1, <1>2, <1>5, <2>2 DEF Types
  <2>5. Begun(f)' /\ Walked(f)' /\ Sees(f)'
    BY <1>1, <1>2, <1>3, <2>4 DEF Begun, Walked, Sees
  <2>6. Folded(f)'
    BY <1>2, <1>3, <2>4 DEF Folded, e, v, p
  <2>. QED BY <2>3, <2>5, <2>6
<1>6. CASE acc' = acc /\ pc' = [pc EXCEPT ![f] = "after"] /\ outcome' = [outcome EXCEPT ![f] = "funRaised"]
  <2>1. Types'
    BY <1>1, <1>3, <1>6 DEF Types, Places
  <2>2. pc'[f] = "after" /\ outcome'[f] = "funRaised"
    BY <1>1, <1>6 DEF Types
  <2>3. Begun(f)' /\ Folded(f)' /\ Walked(f)' /\ Sees(f)'
    BY <1>1, <1>3, <1>6, <2>2 DEF Begun, Folded, Walked, Sees
  <2>. QED BY <2>1, <2>3
<1>. QED BY <1>5, <1>6 DEF Fun, x, p, v

\* The end of a process: it closes its iterator, raises, dies, or its term is
\* collected.
LEMMA EndKeeps ==
  ASSUME IInv, NEW f \in Folders,
         After(f) \/ FoldColumnFamily(f) \/ Kill(f) \/ CollectIterator(f) \/ CloseIterator(f) \/ StopBrowsing(f)
  PROVE  Types' /\ (Begun(f) /\ Folded(f) /\ Walked(f) /\ Sees(f))'
<1>1. Types /\ Begun(f) /\ Folded(f) /\ Walked(f) /\ Sees(f)
  BY DEF IInv
<1>2. /\ UNCHANGED <<stored, writes, errors, dbClosed, snap, snapView, view, with, pos, walk, acc,
                     underWay, failed, got>>
      /\ \/ After(f) \/ FoldColumnFamily(f) \/ StopBrowsing(f) \/ Kill(f)
         \/ CollectIterator(f) \/ CloseIterator(f)
  BY DEF After, FoldColumnFamily, Kill, CollectIterator, CloseIterator, StopBrowsing, db, snaps, cur
<1>3. CASE After(f)
  <2>1. Types'
    BY <1>1, <1>2, <1>3 DEF Types, After, Places
  <2>2. /\ pc'[f] = "over" /\ itr'[f] # "open" /\ outcome'[f] \in {outcome[f], "badarg"}
    BY <1>1, <1>3 DEF After, Types
  <2>3. Begun(f)' /\ Folded(f)' /\ Walked(f)' /\ Sees(f)'
    BY <1>1, <1>2, <2>2 DEF Begun, Folded, Walked, Sees
  <2>. QED BY <2>1, <2>3
<1>4. CASE FoldColumnFamily(f)
  <2>1. Types'
    BY <1>1, <1>2, <1>4 DEF Types, FoldColumnFamily, Places
  <2>2. pc'[f] = "over" /\ outcome'[f] = "returnedAcc0" /\ itr'[f] = "none"
    BY <1>1, <1>4 DEF FoldColumnFamily, Types, Begun
  <2>3. Begun(f)' /\ Folded(f)' /\ Walked(f)' /\ Sees(f)'
    BY <1>1, <1>2, <2>2 DEF Begun, Folded, Walked, Sees
  <2>. QED BY <2>1, <2>3
<1>5. CASE Kill(f) \/ StopBrowsing(f)
  <2>1. itr' = itr /\ outcome' = outcome /\ \E p \in {"dead", "after"} : pc' = [pc EXCEPT ![f] = p]
    BY <1>5 DEF Kill, StopBrowsing
  <2>2. Types'
    BY <1>1, <1>2, <2>1 DEF Types, Places
  <2>3. pc'[f] \in {"dead", "after"}
    BY <1>1, <2>1 DEF Types
  <2>4. Begun(f)' /\ Folded(f)' /\ Walked(f)' /\ Sees(f)'
    BY <1>1, <1>2, <2>1, <2>3 DEF Begun, Folded, Walked, Sees
  <2>. QED BY <2>2, <2>4
<1>6. CASE CollectIterator(f) \/ CloseIterator(f)
  <2>1. itr[f] = "open" /\ pc' = pc /\ outcome' = outcome /\ itr' = [itr EXCEPT ![f] = "closed"]
    BY <1>6 DEF CollectIterator, CloseIterator
  <2>2. Types'
    BY <1>1, <1>2, <2>1 DEF Types
  <2>3. itr'[f] = "closed"
    BY <1>1, <2>1 DEF Types
  <2>4. Begun(f)' /\ Folded(f)' /\ Walked(f)' /\ Sees(f)'
    BY <1>1, <1>2, <2>1, <2>3 DEF Begun, Folded, Walked, Sees
  <2>. QED BY <2>2, <2>4
<1>. QED BY <1>2, <1>3, <1>4, <1>5, <1>6

\* A walk that goes on to a place with nothing in between stays without gaps.
LEMMA WalkGrows ==
  ASSUME NEW v \in Views, NEW W \in SUBSET (0..(NumKeys + 1)), NEW p \in W, NEW w \in 0..(NumKeys + 1),
         \A x, y \in W : \A l \in Present(v) : x < l /\ l < y => l \in W,
         \A l \in Present(v) : ~(p < l /\ l < w) /\ ~(w < l /\ l < p)
  PROVE  \A x, y \in W \cup {w} : \A l \in Present(v) : x < l /\ l < y => l \in W \cup {w}
<1>1. NumKeys \in Nat /\ Present(v) \subseteq 1..NumKeys
  BY BoundsAreNaturals DEF Present, Keys
<1>. SUFFICES ASSUME NEW x \in W \cup {w}, NEW y \in W \cup {w}, NEW l \in Present(v), x < l, l < y
              PROVE  l \in W \cup {w}
  OBVIOUS
<1>2. x \in Int /\ y \in Int /\ l \in Int /\ p \in Int /\ w \in Int
  BY <1>1
<1>3. CASE x \in W /\ y \in W
  BY <1>3
<1>4. CASE x \in W /\ y = w
  <2>1. ~(p < l)
    BY <1>4
  <2>2. l = p \/ l < p
    BY <1>2, <2>1
  <2>. QED BY <1>4, <2>2
<1>5. CASE x = w /\ y \in W
  <2>1. ~(l < p)
    BY <1>5
  <2>2. l = p \/ p < l
    BY <1>2, <2>1
  <2>. QED BY <1>5, <2>2
<1>6. CASE x = w /\ y = w
  BY <1>2, <1>6
<1>. QED BY <1>3, <1>4, <1>5, <1>6

\* A process that moves its iterator itself.
LEMMA BrowserKeeps ==
  ASSUME IInv, NEW f \in Folders, Jump(f) \/ WalkOn(f) \/ MoveFails(f) \/ BrowserCalls(f)
  PROVE  Types' /\ (Begun(f) /\ Folded(f) /\ Walked(f) /\ Sees(f))'
<1>. DEFINE v == view[f]
            p == pos[f]
            W == walk[f]
<1>1. Types /\ Begun(f) /\ Folded(f) /\ Walked(f) /\ Sees(f)
  BY DEF IInv
<1>2. /\ pc[f] \in {"browse", "moving"} /\ outcome[f] = "none" /\ v \in Views /\ p \in 0..NumKeys
      /\ W \in SUBSET (0..(NumKeys + 1))
      /\ p # 0 => p \in W
  BY <1>1 DEF Begun, Walked, Types, Jump, WalkOn, MoveFails, BrowserReturns, BrowserCalls
<1>3. /\ NumKeys \in Nat /\ Present(v) \subseteq Keys /\ Present(v) \subseteq 1..NumKeys
      /\ Keys = 1..NumKeys
  BY BoundsAreNaturals DEF Present, Keys
<1>4. /\ UNCHANGED <<stored, writes, dbClosed, snap, snapView, itr, view, with, acc, outcome, failed, got>>
      /\ errors' \in 0..MaxErrors /\ underWay' \subseteq Folders
      /\ \E x \in {"browse", "moving"} : pc' = [pc EXCEPT ![f] = x]
  <2>1. CASE BrowserCalls(f)
    BY <1>1, <2>1 DEF BrowserCalls, Types, db, snaps, cur
  <2>2. CASE BrowserReturns(f) /\ (errors' = errors \/ (errors < MaxErrors /\ errors' = errors + 1))
    <3>1. errors' \in 0..MaxErrors
      BY <1>1, <2>2, BoundsAreNaturals DEF Types
    <3>. QED BY <1>1, <2>2, <3>1 DEF BrowserReturns, Types, db, snaps
  <2>. QED BY <2>1, <2>2 DEF Jump, WalkOn, MoveFails
<1>. HIDE DEF v, p, W
<1>5. ASSUME NEW k \in 0..NumKeys, NEW V \in SUBSET (0..(NumKeys + 1)),
             pos' = [pos EXCEPT ![f] = k], walk' = [walk EXCEPT ![f] = V],
             k # 0 => k \in V, V \cap Keys \subseteq Present(v),
             \A x, y \in V : \A l \in Present(v) : x < l /\ l < y => l \in V
      PROVE  Types' /\ (Begun(f) /\ Folded(f) /\ Walked(f) /\ Sees(f))'
  <2>1. Types'
    BY <1>1, <1>4, <1>5 DEF Types, Places
  <2>2. pos'[f] = k /\ walk'[f] = V /\ view'[f] = v /\ pc'[f] \in {"browse", "moving"}
    BY <1>1, <1>4, <1>5 DEF Types, v
  <2>3. Begun(f)' /\ Folded(f)' /\ Sees(f)'
    BY <1>1, <1>2, <1>4, <2>2 DEF Begun, Folded, Sees, v
  <2>4. Walked(f)'
    BY <1>4, <1>5, <2>2 DEF Walked
  <2>. QED BY <2>1, <2>3, <2>4
<1>6. /\ W \cap Keys \subseteq Present(v)
      /\ \A x, y \in W : \A l \in Present(v) : x < l /\ l < y => l \in W
  BY <1>1 DEF Walked, W, v
<1>7. CASE Jump(f)
  <2>1. PICK k \in {KeyAfter(v, q) : q \in 0..NumKeys} \cup {KeyBefore(v, NumKeys + 1)} :
             pos' = [pos EXCEPT ![f] = k] /\ walk' = [walk EXCEPT ![f] = {k} \ {0}]
    BY <1>7 DEF Jump, v
  <2>2. k \in {0} \cup Present(v)
    <3>1. CASE k \in {KeyAfter(v, q) : q \in 0..NumKeys}
      BY <1>2, <3>1, KeyAfterIs
    <3>2. CASE k = KeyBefore(v, NumKeys + 1)
      <4>1. NumKeys + 1 \in 0..(NumKeys + 1)
        BY <1>3
      <4>. QED BY <1>2, <3>2, <4>1, KeyBeforeIs
    <3>. QED BY <2>1, <3>1, <3>2
  <2>. DEFINE V == {k} \ {0}
  <2>3. k \in 0..NumKeys /\ V \in SUBSET (0..(NumKeys + 1))
    BY <1>3, <2>2
  <2>4. (k # 0 => k \in V) /\ V \cap Keys \subseteq Present(v)
    BY <2>2
  <2>5. \A x, y \in V : \A l \in Present(v) : x < l /\ l < y => l \in V
    <3>1. \A x, y \in V : \A l \in Present(v) : ~(x < l /\ l < y)
      BY <1>3, <2>3
    <3>. QED BY <3>1
  <2>. HIDE DEF V
  <2>6. walk' = [walk EXCEPT ![f] = V]
    BY <2>1 DEF V
  <2>. QED BY <1>5, <2>1, <2>3, <2>4, <2>5, <2>6
<1>8. CASE WalkOn(f)
  <2>1. p # 0 /\ p \in W
    BY <1>2, <1>8 DEF WalkOn, p
  <2>2. ASSUME NEW k \in {0} \cup Present(v), NEW w \in {k, NumKeys + 1}, k # 0 => w = k,
               pos' = [pos EXCEPT ![f] = k], walk' = [walk EXCEPT ![f] = W \cup {w}],
               \A l \in Present(v) : ~(p < l /\ l < w) /\ ~(w < l /\ l < p)
        PROVE  Types' /\ (Begun(f) /\ Folded(f) /\ Walked(f) /\ Sees(f))'
    <3>. DEFINE V == W \cup {w}
    <3>1. k \in 0..NumKeys /\ w \in 0..(NumKeys + 1)
      BY <1>3
    <3>2. V \in SUBSET (0..(NumKeys + 1))
      BY <1>2, <3>1
    <3>3. k # 0 => k \in V
      BY <2>2
    <3>4. V \cap Keys \subseteq Present(v)
      <4>1. w \in Keys => w \in Present(v)
        BY <1>3
      <4>. QED BY <1>6, <4>1
    <3>5. \A x, y \in V : \A l \in Present(v) : x < l /\ l < y => l \in V
      BY <1>2, <1>6, <2>1, <2>2, <3>1, WalkGrows
    <3>. HIDE DEF V
    <3>6. walk' = [walk EXCEPT ![f] = V]
      BY <2>2 DEF V
    <3>. QED BY <1>5, <2>2, <3>1, <3>2, <3>3, <3>4, <3>5, <3>6
  <2>3. ASSUME NEW k, k = KeyAfter(v, p), pos' = [pos EXCEPT ![f] = k],
               walk' = [walk EXCEPT ![f] = W \cup {IF k = 0 THEN NumKeys + 1 ELSE k}]
        PROVE  Types' /\ (Begun(f) /\ Folded(f) /\ Walked(f) /\ Sees(f))'
    <3>. DEFINE w == IF k = 0 THEN NumKeys + 1 ELSE k
    <3>1. /\ k \in {0} \cup Present(v)
          /\ k = 0 => \A l \in Present(v) : ~(p < l)
          /\ k # 0 => p < k /\ \A l \in Present(v) : ~(p < l /\ l < k)
      BY <1>2, <2>3, KeyAfterIs
    <3>2. w \in {k, NumKeys + 1} /\ (k # 0 => w = k)
      OBVIOUS
    <3>3. \A l \in Present(v) : ~(p < l /\ l < w) /\ ~(w < l /\ l < p)
      <4>. TAKE l \in Present(v)
      <4>1. CASE k = 0
        BY <1>2, <1>3, <3>1, <4>1
      <4>2. CASE k # 0
        BY <1>2, <1>3, <3>1, <4>2
      <4>. QED BY <4>1, <4>2
    <3>4. walk' = [walk EXCEPT ![f] = W \cup {w}]
      BY <2>3
    <3>. HIDE DEF w
    <3>. QED BY <2>2, <2>3, <3>1, <3>2, <3>3, <3>4
  <2>4. ASSUME NEW k, k = KeyBefore(v, p), pos' = [pos EXCEPT ![f] = k],
               walk' = [walk EXCEPT ![f] = W \cup {k}]
        PROVE  Types' /\ (Begun(f) /\ Folded(f) /\ Walked(f) /\ Sees(f))'
    <3>0. p \in 0..(NumKeys + 1)
      BY <1>2, <1>3
    <3>1. /\ k \in {0} \cup Present(v)
          /\ k < p
          /\ \A l \in Present(v) : ~(k < l /\ l < p)
      BY <1>2, <2>1, <2>4, <3>0, KeyBeforeIs
    <3>2. \A l \in Present(v) : ~(p < l /\ l < k) /\ ~(k < l /\ l < p)
      BY <1>2, <1>3, <3>1
    <3>. QED BY <2>2, <2>4, <3>1, <3>2
  <2>. QED BY <1>8, <2>3, <2>4 DEF WalkOn, v, p, W
<1>9. CASE MoveFails(f)
  <2>1. 0 \in 0..NumKeys /\ walk' = [walk EXCEPT ![f] = W]
    BY <1>1, <1>3, <1>9 DEF MoveFails, Types, W
  <2>2. pos' = [pos EXCEPT ![f] = 0]
    BY <1>9 DEF MoveFails
  <2>. QED BY <1>2, <1>5, <1>6, <2>1, <2>2
<1>10. CASE BrowserCalls(f)
  <2>1. pos' = [pos EXCEPT ![f] = p] /\ walk' = [walk EXCEPT ![f] = W]
    BY <1>1, <1>10 DEF BrowserCalls, cur, Types, p, W
  <2>. QED BY <1>2, <1>5, <1>6, <2>1
<1>. QED BY <1>7, <1>8, <1>9, <1>10

-----------------------------------------------------------------------------
(* The invariant holds *)

\* Writers, the snapshots, the close and the recorded reads touch no process.
Outside == \/ \E k \in Keys : Put(k) \/ Delete(k)
           \/ \E s \in Snaps : GetSnapshot(s) \/ ReleaseSnapshot(s)
           \/ Close \/ IsEmpty
           \/ \E k \in Keys, s \in Snaps \cup {NoSnap} : Get(k, s)

\* What one process does.
Inside(f) == \/ \E s \in Snaps \cup {NoSnap} : Fold(f, s) \/ Browse(f, s)
             \/ FoldLoop(f) \/ FoldMove(f) \/ FoldMoveError(f) \/ Fun(f)
             \/ After(f) \/ FoldColumnFamily(f) \/ Kill(f) \/ CollectIterator(f)
             \/ CloseIterator(f) \/ StopBrowsing(f)
             \/ BrowserCalls(f) \/ Jump(f) \/ WalkOn(f) \/ MoveFails(f)

\* A step is one process's, or nobody's.
LEMMA StepsAre ==
  ASSUME Next
  PROVE  Outside \/ \E f \in Folders : Inside(f)
BY DEF Next, Outside, Inside, Step

\* Steps of others keep the types, the contents of the snapshots that were
\* taken and what was read through them.
LEMMA OutsideKeeps ==
  ASSUME IInv, Outside
  PROVE  Types' /\ SnapsStay /\ Recorded' /\ UNCHANGED <<itr, view, with, pos, pc, acc, outcome, walk, failed>>
<1>1. Types /\ Recorded
  BY DEF IInv
<1>2. UNCHANGED <<itr, view, with, pos, pc, acc, outcome, walk, failed>>
  BY DEF Outside, Put, Delete, GetSnapshot, ReleaseSnapshot, Close, IsEmpty, Get, cur
<1>3. ASSUME NEW k \in Keys, Put(k) \/ Delete(k) PROVE Types' /\ SnapsStay /\ Recorded'
  <2>1. writes' = writes + 1 /\ writes' \in 0..MaxWrites /\ writes' + 1 \in Values
    BY <1>1, <1>3, BoundsAreNaturals DEF Put, Delete, Types, Values
  <2>2. stored' \in Views
    <3>1. stored \in [Keys -> {0} \cup Values]
      BY <1>1 DEF Types, Views
    <3>2. \E x \in {0} \cup Values : stored' = [stored EXCEPT ![k] = x]
      BY <1>3, <2>1 DEF Put, Delete
    <3>. QED BY <3>1, <3>2 DEF Views
  <2>3. UNCHANGED <<errors, dbClosed, snap, snapView, underWay, got>>
    BY <1>3 DEF Put, Delete, snaps
  <2>4. Types'
    BY <1>1, <1>2, <2>1, <2>2, <2>3 DEF Types
  <2>5. SnapsStay /\ Recorded'
    BY <1>1, <2>3 DEF SnapsStay, Recorded
  <2>. QED BY <2>4, <2>5
<1>4. ASSUME NEW s \in Snaps, GetSnapshot(s) \/ ReleaseSnapshot(s) PROVE Types' /\ SnapsStay /\ Recorded'
  <2>1. UNCHANGED <<stored, writes, errors, dbClosed, underWay, got>>
    BY <1>4 DEF GetSnapshot, ReleaseSnapshot, db
  <2>2. /\ \E x \in {"taken", "released"} : snap' = [snap EXCEPT ![s] = x]
        /\ snapView' = [snapView EXCEPT ![s] = stored] \/ snapView' = snapView
        /\ snap[s] # "none" => snapView' = snapView /\ snap'[s] = "released"
    <3>1. CASE GetSnapshot(s)
      BY <3>1 DEF GetSnapshot
    <3>2. CASE ReleaseSnapshot(s)
      BY <1>1, <3>2 DEF ReleaseSnapshot, Types
    <3>. QED BY <1>4, <3>1, <3>2
  <2>3. Types'
    <3>1. snap' \in [Snaps -> {"none", "taken", "released"}]
      BY <1>1, <2>2 DEF Types
    <3>2. snapView' \in [Snaps -> Views]
      BY <1>1, <2>2 DEF Types
    <3>. QED BY <1>1, <1>2, <2>1, <3>1, <3>2 DEF Types
  <2>4. ASSUME NEW t \in Snaps, snap[t] # "none"
        PROVE  snap'[t] # "none" /\ snapView'[t] = snapView[t] /\ (snap'[t] = "taken" => snap[t] = "taken")
    BY <1>1, <2>2, <2>4 DEF Types
  <2>5. SnapsStay
    BY <2>4 DEF SnapsStay
  <2>6. Recorded'
    BY <1>1, <2>1, <2>4 DEF Recorded
  <2>. QED BY <2>3, <2>5, <2>6
<1>5. CASE Close
  <2>1. /\ dbClosed' = TRUE /\ underWay' \subseteq Folders
        /\ UNCHANGED <<stored, writes, errors, snap, snapView, got>>
    BY <1>5 DEF Close, db, snaps
  <2>2. Types'
    BY <1>1, <1>2, <2>1 DEF Types
  <2>3. SnapsStay /\ Recorded'
    BY <1>1, <2>1 DEF SnapsStay, Recorded
  <2>. QED BY <1>2, <2>2, <2>3
<1>6. ASSUME errors' = errors \/ (errors < MaxErrors /\ errors' = errors + 1),
             UNCHANGED <<stored, writes, dbClosed, snap, snapView, underWay>>
      PROVE  Types' /\ SnapsStay
  <2>1. errors' \in 0..MaxErrors
    BY <1>1, <1>6, BoundsAreNaturals DEF Types
  <2>. QED BY <1>1, <1>2, <1>6, <2>1 DEF Types, SnapsStay
<1>7. CASE IsEmpty
  <2>1. got'.op = "isEmpty"
    BY <1>7 DEF IsEmpty
  <2>2. Recorded'
    BY <2>1 DEF Recorded
  <2>3. Types' /\ SnapsStay
    BY <1>6, <1>7 DEF IsEmpty, db, snaps
  <2>. QED BY <1>2, <2>2, <2>3
<1>8. ASSUME NEW k \in Keys, NEW s \in Snaps \cup {NoSnap}, Get(k, s) PROVE Types' /\ SnapsStay /\ Recorded'
  <2>1. Types' /\ SnapsStay
    BY <1>6, <1>8 DEF Get, db, snaps
  <2>. DEFINE there == IF s # NoSnap /\ snap[s] = "taken" THEN snapView[s][k] ELSE stored[k]
  <2>2. got'.with = s /\ got'.key = k /\ got'.there = there /\ (s # NoSnap => snap[s] # "none")
    BY <1>8 DEF Get
  <2>3. snap' = snap /\ snapView' = snapView
    BY <1>8 DEF Get, snaps
  <2>4. Recorded'
    BY <2>2, <2>3 DEF Recorded
  <2>. QED BY <2>1, <2>4
<1>. QED BY <1>2, <1>3, <1>4, <1>5, <1>7, <1>8 DEF Outside

\* The inductive invariant: what each process has read is what lies before
\* its place in the view that it took when it began.
THEOREM IInvInductive == Spec => []IInv
<1>1. Init => IInv
  <2>. SUFFICES ASSUME Init PROVE IInv
    OBVIOUS
  <2>1. 0 \in 0..NumKeys /\ 0 \in 0..MaxWrites /\ 0 \in 0..MaxErrors /\ 1 \in Values
    BY BoundsAreNaturals DEF Values
  <2>2. Empty \in Views /\ stored \in Views
    BY <2>1 DEF Init, Empty, Views
  <2>3. <<>> \in Seq(Pairs)
    OBVIOUS
  <2>4. Types
    BY <2>1, <2>2, <2>3 DEF Init, Types, Places
  <2>5. \A f \in Folders : Begun(f) /\ Walked(f) /\ Sees(f)
    BY DEF Init, Begun, Walked, Sees
  <2>6. \A f \in Folders : Folded(f)
    <3>1. ElementsUpTo(Empty)[0] = <<>>
      BY <2>2, ElementsAre
    <3>. QED BY <2>1, <3>1 DEF Init, Folded
  <2>7. Recorded
    BY DEF Init, Recorded, NoGet
  <2>. QED BY <2>4, <2>5, <2>6, <2>7 DEF IInv
<1>2. IInv /\ [Next]_vars => IInv'
  <2>. SUFFICES ASSUME IInv, [Next]_vars PROVE IInv'
    OBVIOUS
  <2>1. CASE Outside
    <3>1. Types' /\ SnapsStay /\ Recorded' /\ UNCHANGED <<itr, view, with, pos, pc, acc, outcome, walk, failed>>
      BY <2>1, OutsideKeeps
    <3>2. ASSUME NEW f \in Folders PROVE (Begun(f) /\ Folded(f) /\ Walked(f) /\ Sees(f))'
      BY <3>1, OtherFolders
    <3>. QED BY <3>1, <3>2 DEF IInv
  <2>2. ASSUME NEW f \in Folders, Inside(f) PROVE IInv'
    <3>1. Types' /\ (Begun(f) /\ Folded(f) /\ Walked(f) /\ Sees(f))'
      BY <2>2, BeginKeeps, LoopKeeps, FoldMoveKeeps, FunKeeps, EndKeeps, BrowserKeeps DEF Inside
    <3>2. UNCHANGED <<snap, snapView, got>>
      BY <2>2 DEF Inside, Fold, Browse, FoldLoop, FoldMove, FoldMoveError, Fun, After, FoldColumnFamily, Kill,
                  CollectIterator, CloseIterator, StopBrowsing, BrowserCalls, BrowserReturns,
                  Jump, WalkOn, MoveFails, snaps
    <3>3. SnapsStay /\ Recorded'
      BY <3>2 DEF SnapsStay, Recorded, IInv
    <3>4. ASSUME NEW g \in Folders, g # f PROVE (Begun(g) /\ Folded(g) /\ Walked(g) /\ Sees(g))'
      <4>0. Types
        BY DEF IInv
      <4>1. itr'[g] = itr[g] /\ view'[g] = view[g] /\ with'[g] = with[g]
        BY <2>2, <3>4, <4>0 DEF Types, Inside, Fold, Iterator, IteratorRefused, Browse, FoldLoop, FoldMove, FoldMoveError,
             Fun, After, FoldColumnFamily, Kill, CollectIterator, CloseIterator, StopBrowsing, Jump,
             WalkOn, MoveFails, BrowserCalls, BrowserReturns, cur
      <4>2. pos'[g] = pos[g] /\ walk'[g] = walk[g]
        BY <2>2, <3>4, <4>0 DEF Types, Inside, Fold, Browse, FoldLoop, FoldMove, FoldMoveError, Move, MoveRefused,
             Fun, After, FoldColumnFamily, Kill, CollectIterator, CloseIterator, StopBrowsing, Jump,
             WalkOn, MoveFails, BrowserCalls, BrowserReturns, cur
      <4>3. pc'[g] = pc[g] /\ outcome'[g] = outcome[g]
        BY <2>2, <3>4, <4>0 DEF Types, Inside, Fold, IteratorRefused, Browse, FoldLoop, FoldMove, FoldMoveError,
             Move, MoveRefused, Fun, After, FoldColumnFamily, Kill, CollectIterator, CloseIterator,
             StopBrowsing, Jump, WalkOn, MoveFails, BrowserCalls, BrowserReturns
      <4>4. acc'[g] = acc[g] /\ failed'[g] = failed[g]
        BY <2>2, <3>4, <4>0 DEF Types, Inside, Fold, Browse, FoldLoop, FoldMove, FoldMoveError,
             Fun, After, FoldColumnFamily, Kill, CollectIterator, CloseIterator,
             StopBrowsing, Jump, WalkOn, MoveFails, BrowserCalls, BrowserReturns
      <4>. QED BY <3>3, <4>1, <4>2, <4>3, <4>4, OtherFolders
    <3>. QED BY <3>1, <3>3, <3>4 DEF IInv
  <2>3. CASE UNCHANGED vars
    <3>1. Types' /\ Recorded' /\ SnapsStay
      BY <2>3 DEF vars, IInv, Types, Recorded, SnapsStay
    <3>2. ASSUME NEW f \in Folders PROVE (Begun(f) /\ Folded(f) /\ Walked(f) /\ Sees(f))'
      <4>1. UNCHANGED <<itr, view, with, pos, pc, acc, outcome, walk, failed>>
        BY <2>3 DEF vars
      <4>. QED BY <3>1, <4>1, OtherFolders
    <3>. QED BY <3>1, <3>2 DEF IInv
  <2>. QED BY <2>1, <2>2, <2>3, StepsAre
<1>. QED BY <1>1, <1>2, PTL DEF Spec

-----------------------------------------------------------------------------
(* What follows *)

\* Every variable has its values, and the fun is called with a key.
THEOREM TypesHold == Spec => []TypeOK
<1>1. IInv => TypeOK
  <2>. SUFFICES ASSUME IInv PROVE TypeOK
    OBVIOUS
  <2>1. Types
    BY DEF IInv
  <2>2. \A f \in Folders : acc[f] \in Seq(Keys \X Values)
    BY <2>1 DEF Types, Pairs
  <2>3. \A f \in Folders : pc[f] = "fun" => pos[f] \in Keys
    BY DEF IInv, Folded, Present
  <2>. QED BY <2>1, <2>2, <2>3 DEF Types, TypeOK, Places
<1>. QED BY <1>1, IInvInductive, PTL

\* A fold that returns has seen each element of the moment it started, once
\* and in order, and one that is on its way or was cut short a part of them
\* from the first on.
THEOREM FoldsReturnTheirView == Spec => []FoldReturnsItsView
<1>1. IInv => FoldReturnsItsView
  <2>. SUFFICES ASSUME IInv, NEW f \in Folders
                PROVE  /\ outcome[f] = "returned" /\ ~failed[f] => acc[f] = Elements(view[f])
                       /\ IsPrefix(acc[f], Elements(view[f]))
    BY DEF FoldReturnsItsView
  <2>1. Folded(f) /\ view[f] \in Views
    BY DEF IInv, Types
  <2>2. PICK k \in 0..NumKeys : acc[f] = ElementsUpTo(view[f])[k]
    BY <2>1 DEF Folded
  <2>3. NumKeys \in 0..NumKeys /\ k <= NumKeys
    BY BoundsAreNaturals
  <2>4. IsPrefix(acc[f], Elements(view[f]))
    BY <2>1, <2>2, <2>3, PrefixesGrow DEF Elements
  <2>. QED BY <2>1, <2>4 DEF Folded
<1>. QED BY <1>1, IInvInductive, PTL

\* What is read through one snapshot is one state of the database.
THEOREM SnapshotsAgree == Spec => []SnapshotReadsAgree
<1>1. IInv => SnapshotReadsAgree
  <2>. SUFFICES ASSUME IInv, NEW f \in Folders, outcome[f] = "returned", ~failed[f], with[f] # NoSnap
                PROVE  /\ \A g \in Folders : outcome[g] = "returned" /\ ~failed[g] /\ with[g] = with[f]
                                               => acc[g] = acc[f]
                       /\ got.op = "get" /\ got.with = with[f] /\ got.answer = got.there
                            /\ snap[with[f]] = "taken"
                            => got.answer = IF \E e \in ToSet(acc[f]) : e[1] = got.key
                                            THEN (CHOOSE e \in ToSet(acc[f]) : e[1] = got.key)[2]
                                            ELSE 0
    BY DEF SnapshotReadsAgree
  <2>. DEFINE v == snapView[with[f]]
  <2>1. /\ \A g \in Folders : Folded(g) /\ Sees(g)
        /\ Recorded /\ Types
    BY DEF IInv
  <2>2. \A g \in Folders : outcome[g] = "returned" /\ ~failed[g] /\ with[g] = with[f] => acc[g] = Elements(v)
    BY <2>1 DEF Folded, Sees
  <2>3. v \in Views
    BY <2>1 DEF Types
  <2>. HIDE DEF v
  <2>4. ASSUME got.op = "get", got.with = with[f], got.answer = got.there, snap[with[f]] = "taken"
        PROVE  got.answer = IF \E e \in ToSet(acc[f]) : e[1] = got.key
                            THEN (CHOOSE e \in ToSet(acc[f]) : e[1] = got.key)[2]
                            ELSE 0
    <3>. DEFINE q == got.key
                E == ToSet(acc[f])
                x == <<q, v[q]>>
                there == CHOOSE e \in E : e[1] = q
    <3>1. q \in Keys /\ got.answer = v[q]
      BY <2>1, <2>4 DEF Recorded, v
    <3>2. NumKeys \in Nat /\ NumKeys \in 0..NumKeys /\ Present(v) \subseteq 1..NumKeys
      BY BoundsAreNaturals DEF Present, Keys
    <3>3. \A e : e \in E <=> \E k \in Present(v) : k <= NumKeys /\ e = <<k, v[k]>>
      BY <2>2, <2>3, <3>2, ElementsTell DEF Elements
    <3>. HIDE DEF E, q
    <3>4. \A e \in E : e[1] = q => e = x /\ v[q] # 0
      BY <3>3 DEF Present
    <3>5. v[q] # 0 => x \in E /\ x[1] = q
      <4>1. v[q] # 0 => q \in Present(v) /\ q <= NumKeys
        BY <3>1, <3>2 DEF Present
      <4>. QED BY <3>3, <4>1
    <3>6. CASE v[q] = 0
      BY <3>1, <3>4, <3>6 DEF E, q
    <3>7. CASE v[q] # 0
      <4>1. \E e \in E : e[1] = q
        BY <3>5, <3>7
      <4>2. there \in E /\ there[1] = q
        BY <4>1
      <4>3. there = x
        BY <3>4, <4>2
      <4>4. there[2] = v[q]
        <5>. HIDE DEF there
        <5>. QED BY <4>3
      <4>. QED BY <3>1, <4>1, <4>4 DEF E, q
    <3>. QED BY <3>6, <3>7
  <2>. QED BY <2>2, <2>4
<1>. QED BY <1>1, IInvInductive, PTL

\* However a fold ends, the iterator it opened is closed by then.
THEOREM NoIteratorIsLeft == Spec => []FoldLeavesNoIterator
<1>1. IInv => FoldLeavesNoIterator
  BY DEF IInv, Begun, FoldLeavesNoIterator
<1>. QED BY <1>1, IInvInductive, PTL

\* Between the places that a walk led to lies no element that the process was
\* not shown.
THEOREM WalksLeaveNothingOut == Spec => []WalksHaveNoGaps
<1>1. IInv => WalksHaveNoGaps
  <2>. SUFFICES ASSUME IInv, NEW f \in Folders, walk[f] # {}
                PROVE  walk[f] \cap Keys = {k \in Present(view[f]) : Min(walk[f]) <= k /\ k <= Max(walk[f])}
    BY DEF WalksHaveNoGaps
  <2>. DEFINE W == walk[f]
              v == view[f]
  <2>1. /\ W \in SUBSET (0..(NumKeys + 1)) /\ W # {}
        /\ W \cap Keys \subseteq Present(v)
        /\ \A x, y \in W : \A k \in Present(v) : x < k /\ k < y => k \in W
    BY DEF IInv, Types, Walked
  <2>2. /\ NumKeys \in Nat /\ NumKeys + 1 \in Nat
        /\ Present(v) \subseteq Keys /\ Keys = 1..NumKeys
    BY BoundsAreNaturals DEF Present, Keys
  <2>. HIDE DEF W, v
  <2>3. W \in SUBSET Nat
    BY <2>1, <2>2
  <2>4. Min(W) \in W /\ \A x \in W : Min(W) <= x
    BY <2>1, <2>3, MinIs
  <2>5. Max(W) \in W /\ \A x \in W : x <= Max(W)
    BY <2>1, <2>2, MaxIs
  <2>. DEFINE a == Min(W)
              b == Max(W)
  <2>. HIDE DEF a, b
  <2>6. \A k \in W \cap Keys : k \in Present(v) /\ a <= k /\ k <= b
    BY <2>1, <2>4, <2>5 DEF a, b
  <2>7. ASSUME NEW k \in Present(v), a <= k, k <= b PROVE k \in W
    <3>1. a \in W /\ b \in W
      BY <2>4, <2>5 DEF a, b
    <3>2. a \in Nat /\ b \in Nat /\ k \in Nat
      BY <2>2, <2>3, <3>1
    <3>3. k = a \/ k = b \/ (a < k /\ k < b)
      BY <2>7, <3>2
    <3>. QED BY <2>1, <3>1, <3>3
  <2>8. W \cap Keys = {k \in Present(v) : a <= k /\ k <= b}
    BY <2>2, <2>6, <2>7
  <2>. QED BY <2>8 DEF W, v, a, b
<1>. QED BY <1>1, IInvInductive, PTL

\* Once the close word of the database is set only a call that was past its
\* test at that moment reads an element, and no process more than that one.
THEOREM NothingAfterTheCallsUnderWay == Spec => OnlyCallsUnderWayReadOn
<1>. DEFINE Left == dbClosed => \A f \in Folders : pc[f] \in {"reading", "moving"} => f \in underWay
            Silent == dbClosed => \A f \in Folders :
                        (pc[f] = "reading" /\ pc'[f] = "fun") \/ (pc[f] = "moving" /\ pos'[f] # pos[f])
                        => f \in underWay
<1>1. Init => Left
  BY DEF Init
<1>2. IInv /\ Left /\ [Next]_vars => Left'
  <2>. SUFFICES ASSUME IInv, Left, [Next]_vars PROVE Left'
    OBVIOUS
  <2>0. Types
    BY DEF IInv
  <2>1. CASE Close
    BY <2>1 DEF Close
  <2>2. CASE Outside /\ ~Close
    <3>1. pc' = pc
      BY <2>2, OutsideKeeps
    <3>2. UNCHANGED <<dbClosed, underWay>>
      BY <2>2 DEF Outside, Put, Delete, GetSnapshot, ReleaseSnapshot, IsEmpty, Get
    <3>. QED BY <3>1, <3>2
  <2>3. ASSUME NEW f \in Folders, Inside(f) PROVE Left'
    <3>1. dbClosed' = dbClosed /\ underWay \ {f} \subseteq underWay'
      BY <2>3 DEF Inside, Fold, Browse, FoldLoop, FoldMove, FoldMoveError, Fun, After, FoldColumnFamily,
             Kill, CollectIterator, CloseIterator, StopBrowsing, BrowserCalls, BrowserReturns, Jump,
             WalkOn, MoveFails
    <3>2. \/ dbClosed = FALSE
          \/ pc' = pc /\ underWay' = underWay
          \/ \E x \in Places \ {"reading", "moving"} : pc' = [pc EXCEPT ![f] = x]
      BY <2>0, <2>3 DEF Inside, Fold, Iterator, IteratorRefused, Browse, FoldLoop, FoldMove, FoldMoveError,
             Move, MoveRefused, RetrieveItrObject, Fun, After, FoldColumnFamily, Kill, CollectIterator,
             CloseIterator, StopBrowsing, BrowserCalls, BrowserReturns, Jump, WalkOn, MoveFails, Places, Types
    <3>. QED BY <2>0, <3>1, <3>2 DEF Types
  <2>4. CASE UNCHANGED vars
    BY <2>4 DEF vars
  <2>. QED BY <2>1, <2>2, <2>3, <2>4, StepsAre
<1>3. Left => [Silent]_vars
  OBVIOUS
<1>4. Spec => []Left
  <2>. HIDE DEF Left
  <2>. QED BY <1>1, <1>2, IInvInductive, PTL DEF Spec
<1>5. Left /\ [Next]_vars => [Silent]_vars
  BY <1>3
<1>. HIDE DEF Left
<1>. QED BY <1>4, <1>5, PTL DEF Spec, OnlyCallsUnderWayReadOn
=============================================================================
