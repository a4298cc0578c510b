------------------------- MODULE DbLifecycle_proofs -------------------------
(***************************************************************************)
(* The nesting of Shutdown, destructors and NIFs keeps the reference       *)
(* counts, leaves nothing destroyed in a list, destroys a column family    *)
(* after its iterators and closes the database last, but for late calls,   *)
(* for any finite sets of threads and objects.                             *)
(*                                                                         *)
(* A step replaces the first entry of a thread's todo, and leaves what is  *)
(* behind it alone: seen as a call stack, counted from the bottom, an      *)
(* entry stays at its depth until it is on top.                            *)
(***************************************************************************)
EXTENDS DbLifecycle, FiniteSetTheorems, SequenceTheorems, TLAPS

Entries == Operations \X Handles

\* The entry op on h of thread t has d entries below it.
On(t, d, op, h) == /\ d < Len(todo[t])
                   /\ todo[t][Len(todo[t]) - d] = <<op, h>>

\* It is the uppermost one.
Top(t, n, op, h) == On(t, n, op, h) /\ n + 1 = Len(todo[t])

Somewhere(op, h) == \E t \in Threads, d \in Nat : On(t, d, op, h)

\* The handles that somebody has a term of, an Erlang process or a call.
Names == terms \cup UNION {args[t] : t \in Threads}

\* A call that has no reference yet has done nothing, and its caller has the
\* term of the handle.
Retrieval == \A t \in Threads : retrieved[t] # {} => todo[t] = <<>> /\ retrieved[t] \subseteq args[t]

\* The types, with the domains that TypeOK leaves out.
Types == /\ TypeOK
         /\ todo \in [Threads -> Seq(Entries)]
         /\ args \in [Threads -> SUBSET Handles]
         /\ Retrieval

-----------------------------------------------------------------------------
(* What the stacks and the state say of each other *)

Creates == {"construct", "link", "linkCf", "refInc"}

\* How many entries a NIF that creates o has below its entry op.
Below(op, o) == CASE op = "refInc"    -> 1
                  [] op = "linkCf"    -> 2
                  [] op = "link"      -> IF OnCf(o) THEN 3 ELSE 2
                  [] op = "construct" -> IF OnCf(o) THEN 4 ELSE 3

\* An object is created by one thread, in the order of the NIF, and is there
\* once its constructor ran.
Creation ==
    /\ \A t \in Threads, d \in Nat, o \in Handles : \A op \in Creates :
          On(t, d, op, o) => /\ o \in Objects /\ d = Below(op, o)
                             /\ On(t, 1, "refInc", o) /\ On(t, 0, "refDec", Db)
                             /\ op = "linkCf" => OnCf(o)
    /\ \A t \in Threads, o \in Objects : On(t, 1, "refInc", o) =>
          (life[o] = "absent" <=> On(t, Below("construct", o), "construct", o))
    /\ \A t, u \in Threads, o \in Objects :
          On(t, 1, "refInc", o) /\ On(u, 1, "refInc", o) => t = u

\* What is known, closed, in a list or in a stack is there, and with an
\* iterator the column family it reads.
Present ==
    /\ Constructed(Db)
    /\ \A h \in Names : Constructed(h)
    /\ \A h \in Handles : closeReq[h] # 0 => Constructed(h)
    /\ \A w \in Owners : \A o \in linked[w] : Constructed(o)
    /\ \A t \in Threads, d \in Nat, h \in Handles : \A op \in Operations \ Creates :
          On(t, d, op, h) => Constructed(h)
    /\ \A i \in Itrs : OnCf(i) /\ (Constructed(i) \/ Somewhere("refInc", i)) => Constructed(CfOf[i])

\* A destructor runs once.
Destruction ==
    /\ \A h \in Handles : closeReq[h] = 2 <=> Somewhere("done", h)
    /\ \A t, u \in Threads, d, c \in Nat, h \in Handles :
          On(t, d, "done", h) /\ On(u, c, "done", h) => t = u /\ d = c

Nesting == Creation /\ Present /\ Destruction
-----------------------------------------------------------------------------
(* The call stacks *)

\* The heights of stacks.
LEMMA StackTypes ==
  ASSUME Types, NEW t \in Threads
  PROVE  /\ Len(todo[t]) \in Nat
         /\ \A d \in Nat : \A op, h : On(t, d, op, h) => op \in Operations /\ h \in Handles
<1>1. todo[t] \in Seq(Entries)
  BY DEF Types
<1>2. Len(todo[t]) \in Nat /\ \A k \in 1..Len(todo[t]) : todo[t][k] \in Entries
  BY <1>1
<1>3. ASSUME NEW d \in Nat, NEW op, NEW h, On(t, d, op, h)
      PROVE  op \in Operations /\ h \in Handles
  <2>1. Len(todo[t]) - d \in 1..Len(todo[t])
    BY <1>2, <1>3 DEF On
  <2>2. <<op, h>> \in Entries
    BY <1>2, <1>3, <2>1 DEF On
  <2>. QED BY <2>2 DEF Entries
<1>. QED BY <1>2, <1>3

\* One entry at a time.
LEMMA OneEntry ==
  ASSUME NEW t, NEW d, NEW op, NEW h, NEW op2, NEW h2, On(t, d, op, h), On(t, d, op2, h2)
  PROVE  op = op2 /\ h = h2
BY DEF On

\* What Pending says of the stacks.
LEMMA PendingIs ==
  ASSUME Types
  PROVE  /\ \A t \in Threads : \A op, h :
               <<op, h>> \in ToSet(todo[t]) <=> \E d \in Nat : On(t, d, op, h)
         /\ \A op, h : <<op, h>> \in Pending <=> Somewhere(op, h)
<1>1. ASSUME NEW t \in Threads, NEW op, NEW h
      PROVE  <<op, h>> \in ToSet(todo[t]) <=> \E d \in Nat : On(t, d, op, h)
  <2>1. Len(todo[t]) \in Nat /\ DOMAIN todo[t] = 1..Len(todo[t])
    BY DEF Types
  <2>2. ASSUME <<op, h>> \in ToSet(todo[t]) PROVE \E d \in Nat : On(t, d, op, h)
    <3>1. PICK k \in 1..Len(todo[t]) : todo[t][k] = <<op, h>>
      BY <2>1, <2>2 DEF ToSet
    <3>2. Len(todo[t]) - k \in Nat /\ Len(todo[t]) - (Len(todo[t]) - k) = k
          /\ Len(todo[t]) - k < Len(todo[t])
      BY <2>1
    <3>. QED BY <3>1, <3>2 DEF On
  <2>3. ASSUME NEW d \in Nat, On(t, d, op, h) PROVE <<op, h>> \in ToSet(todo[t])
    <3>1. d < Len(todo[t]) /\ <<op, h>> = todo[t][Len(todo[t]) - d]
      BY <2>3 DEF On
    <3>2. Len(todo[t]) - d \in 1..Len(todo[t])
      BY <2>1, <3>1
    <3>. QED BY <2>1, <3>1, <3>2 DEF ToSet
  <2>. QED BY <2>2, <2>3
<1>. QED BY <1>1 DEF Pending, Somewhere

\* One thread replaces its stack from the depth n on.
Rest(t, n) == \A u \in Threads, d \in Nat : \A op, h :
                 u # t \/ d < n => (On(u, d, op, h)' <=> On(u, d, op, h))

\* The entry k of a sequence e that was put on n others.
Lies(n, e, d, op, h) == d < n + Len(e) /\ e[n + Len(e) - d] = <<op, h>>

Puts(t, n, e) == \A d \in Nat : \A op, h : d >= n => (On(t, d, op, h)' <=> Lies(n, e, d, op, h))

\* Putting e in front of a rest r leaves r where it is, from the bottom.
LEMMA PushStack ==
  ASSUME Types, NEW t \in Threads, NEW r \in Seq(Entries), NEW e \in Seq(Entries),
         todo' = [todo EXCEPT ![t] = e \o r],
         \A d \in Nat : d < Len(r) => d < Len(todo[t]) /\ r[Len(r) - d] = todo[t][Len(todo[t]) - d]
  PROVE  Rest(t, Len(r)) /\ Puts(t, Len(r), e)
<1>1. todo[t] \in Seq(Entries) /\ todo'[t] = e \o r
      /\ \A u \in Threads : u # t => todo'[u] = todo[u]
  BY DEF Types
<1>2. Len(todo'[t]) = Len(e) + Len(r) /\ Len(e) \in Nat /\ Len(r) \in Nat
  <2>1. Len(e \o r) = Len(e) + Len(r)
    BY ConcatProperties
  <2>2. Len(e) \in Nat /\ Len(r) \in Nat
    BY LenProperties
  <2>. QED BY <1>1, <2>1, <2>2
<1>3. \A k \in 1..Len(e) : todo'[t][k] = e[k]
  BY <1>1, <1>2, ConcatProperties
<1>4. \A k \in Len(e) + 1..Len(e) + Len(r) : todo'[t][k] = r[k - Len(e)]
  BY <1>1, <1>2, ConcatProperties
<1>5. ASSUME NEW d \in Nat, NEW op, NEW h, d < Len(r)
      PROVE  On(t, d, op, h)' <=> On(t, d, op, h)
  <2>. DEFINE k == Len(e) + Len(r) - d
  <2>1. k \in Len(e) + 1..Len(e) + Len(r) /\ k - Len(e) = Len(r) - d /\ d < Len(e) + Len(r)
    BY <1>2, <1>5
  <2>2. todo'[t][k] = r[Len(r) - d]
    BY <1>4, <2>1
  <2>3. On(t, d, op, h)' <=> todo'[t][k] = <<op, h>>
    <3>1. Len(todo'[t]) - d = k /\ d < Len(todo'[t])
      BY <1>2, <2>1
    <3>. HIDE DEF k
    <3>. QED BY <3>1 DEF On
  <2>. HIDE DEF k
  <2>4. On(t, d, op, h) <=> r[Len(r) - d] = <<op, h>>
    BY <1>5 DEF On
  <2>. QED BY <2>2, <2>3, <2>4
<1>6. Rest(t, Len(r))
  BY <1>1, <1>5 DEF Rest, On
<1>7. ASSUME NEW d \in Nat, NEW op, NEW h, d >= Len(r)
      PROVE  On(t, d, op, h)' <=> Lies(Len(r), e, d, op, h)
  <2>1. Len(todo'[t]) = Len(r) + Len(e)
    BY <1>2
  <2>2. CASE d < Len(r) + Len(e)
    <3>1. Len(r) + Len(e) - d \in 1..Len(e)
      BY <1>2, <1>7, <2>2
    <3>2. todo'[t][Len(r) + Len(e) - d] = e[Len(r) + Len(e) - d]
      BY <1>3, <3>1
    <3>3. On(t, d, op, h)' <=> todo'[t][Len(r) + Len(e) - d] = <<op, h>>
      BY <2>1, <2>2 DEF On
    <3>. QED BY <2>2, <3>2, <3>3 DEF Lies
  <2>3. CASE ~(d < Len(r) + Len(e))
    BY <2>1, <2>3 DEF On, Lies
  <2>. QED BY <2>2, <2>3
<1>. QED BY <1>6, <1>7 DEF Puts

\* A call starts on an empty stack, and so does one that takes its reference.
LEMMA CallStack ==
  ASSUME Types, NEW t \in Threads, NEW e \in Seq(Entries),
         todo[t] = <<>>, todo' = [todo EXCEPT ![t] = e]
  PROVE  /\ Rest(t, 0) /\ Puts(t, 0, e)
         /\ \A d \in Nat : \A op, h : ~On(t, d, op, h)
<1>1. todo[t] = <<>> /\ todo' = [todo EXCEPT ![t] = e \o <<>>] /\ <<>> \in Seq(Entries)
      /\ Len(<<>>) = 0
  <2>1. e \o <<>> = e
    BY ConcatEmptySeq
  <2>. QED BY <2>1
<1>2. Rest(t, 0) /\ Puts(t, 0, e)
  <2>1. \A d \in Nat : ~(d < Len(<<>>))
    BY <1>1
  <2>2. Rest(t, Len(<<>>)) /\ Puts(t, Len(<<>>), e)
    BY <1>1, <2>1, PushStack
  <2>. QED BY <1>1, <2>2
<1>3. \A d \in Nat : \A op, h : ~On(t, d, op, h)
  BY <1>1 DEF On
<1>. QED BY <1>2, <1>3

\* A step of a call replaces the entry on top.
LEMMA ThenStack ==
  ASSUME Types, NEW t \in Threads, NEW op, NEW h, NEW e \in Seq(Entries),
         At(t, op, h), Go(t, e)
  PROVE  \E n \in Nat : Top(t, n, op, h) /\ Rest(t, n) /\ Puts(t, n, e)
<1>. DEFINE r == Tail(todo[t])
            n == Len(todo[t]) - 1
<1>1. todo[t] \in Seq(Entries) /\ todo[t] # <<>> /\ Head(todo[t]) = <<op, h>>
  BY DEF Types, At
<1>2. /\ r \in Seq(Entries) /\ Len(r) = n /\ n \in Nat /\ Len(todo[t]) = n + 1
      /\ \A k \in 1..n : r[k] = todo[t][k + 1]
      /\ todo[t][1] = <<op, h>>
  BY <1>1
<1>. HIDE DEF r, n
<1>3. todo' = [todo EXCEPT ![t] = e \o r]
  BY DEF Go, r
<1>4. ASSUME NEW d \in Nat, d < Len(r)
      PROVE  d < Len(todo[t]) /\ r[Len(r) - d] = todo[t][Len(todo[t]) - d]
  <2>1. n - d \in 1..n /\ n - d + 1 = n + 1 - d
    BY <1>2, <1>4
  <2>2. r[n - d] = todo[t][n + 1 - d]
    BY <1>2, <2>1
  <2>. QED BY <1>2, <1>4, <2>2
<1>5. Rest(t, Len(r)) /\ Puts(t, Len(r), e)
  BY <1>2, <1>3, <1>4, PushStack
<1>6. Top(t, n, op, h)
  <2>1. n < Len(todo[t]) /\ Len(todo[t]) - n = 1
    BY <1>2
  <2>. QED BY <1>2, <2>1 DEF Top, On
<1>. QED BY <1>2, <1>5, <1>6

\* Nothing lies above the top.
LEMMA TopIs ==
  ASSUME Types, NEW t \in Threads, NEW n \in Nat, NEW op, NEW h, Top(t, n, op, h)
  PROVE  /\ On(t, n, op, h) /\ op \in Operations /\ h \in Handles
         /\ \A d \in Nat : \A o, g : On(t, d, o, g) =>
               d < n \/ (d = n /\ o = op /\ g = h)
<1>1. On(t, n, op, h) /\ n + 1 = Len(todo[t])
  BY DEF Top
<1>2. ASSUME NEW d \in Nat, NEW o, NEW g, On(t, d, o, g), ~(d < n) PROVE d = n /\ o = op /\ g = h
  <2>1. d < n + 1
    BY <1>1, <1>2 DEF On
  <2>2. d = n
    BY <1>2, <2>1
  <2>. QED BY <1>1, <1>2, <2>2, OneEntry
<1>. QED BY <1>1, <1>2, StackTypes

-----------------------------------------------------------------------------
(* The types *)

\* A sequence put together from one and its last element.
LEMMA AddLast ==
  ASSUME NEW S, NEW r \in Seq(S), NEW x \in S, NEW q \in Seq(S),
         Len(q) = Len(r) + 1, \A i \in 1..Len(r) : q[i] = r[i], q[Len(r) + 1] = x
  PROVE  r \o <<x>> = q
<1>1. r \o <<x>> = Append(r, x)
  BY AppendIsConcat
<1>2. /\ Append(r, x) \in Seq(S) /\ Len(Append(r, x)) = Len(q)
      /\ \A i \in 1..Len(r) : Append(r, x)[i] = q[i]
      /\ Append(r, x)[Len(r) + 1] = q[Len(r) + 1]
  BY AppendProperties
<1>3. \A i \in 1..Len(q) : i \in 1..Len(r) \/ i = Len(r) + 1
  BY LenProperties
<1>4. \A i \in 1..Len(q) : Append(r, x)[i] = q[i]
  BY <1>2, <1>3
<1>. QED BY <1>1, <1>2, <1>4, SeqEqual

\* The short ones that the model puts together.
LEMMA ShortJoins ==
  /\ \A a \in Entries : << >> \o <<a>> = <<a>>
  /\ \A r \in Seq(Entries) : r \o << >> = r
  /\ \A a, b \in Entries : <<a>> \o <<b>> = <<a, b>>
  /\ \A a, b, c \in Entries : <<a, b>> \o <<c>> = <<a, b, c>>
  /\ \A a, b, c, d \in Entries : <<a, b, c>> \o <<d>> = <<a, b, c, d>>
  /\ \A a, b, c, d, e \in Entries : <<a, b, c, d>> \o <<e>> = <<a, b, c, d, e>>
  /\ \A a, b, c, d, e, f \in Entries : <<a, b, c, d, e>> \o <<f>> = <<a, b, c, d, e, f>>
<1>0. /\ \A a \in Entries : << >> \o <<a>> = <<a>>
      /\ \A r \in Seq(Entries) : r \o << >> = r
  BY ConcatEmptySeq
<1>1. ASSUME NEW a \in Entries, NEW b \in Entries
      PROVE  <<a>> \o <<b>> = <<a, b>>
  <2>. DEFINE r == <<a>> q == <<a, b>>
  <2>1. /\ r \in Seq(Entries) /\ q \in Seq(Entries) /\ Len(q) = Len(r) + 1
        /\ \A i \in 1..Len(r) : q[i] = r[i]
        /\ q[Len(r) + 1] = b
    OBVIOUS
  <2>. HIDE DEF r, q
  <2>2. r \o <<b>> = q
    BY <2>1, AddLast
  <2>. QED BY <2>2 DEF r, q
<1>2. ASSUME NEW a \in Entries, NEW b \in Entries, NEW c \in Entries
      PROVE  <<a, b>> \o <<c>> = <<a, b, c>>
  <2>. DEFINE r == <<a, b>> q == <<a, b, c>>
  <2>1. /\ r \in Seq(Entries) /\ q \in Seq(Entries) /\ Len(q) = Len(r) + 1
        /\ \A i \in 1..Len(r) : q[i] = r[i]
        /\ q[Len(r) + 1] = c
    OBVIOUS
  <2>. HIDE DEF r, q
  <2>2. r \o <<c>> = q
    BY <2>1, AddLast
  <2>. QED BY <2>2 DEF r, q
<1>3. ASSUME NEW a \in Entries, NEW b \in Entries, NEW c \in Entries, NEW d \in Entries
      PROVE  <<a, b, c>> \o <<d>> = <<a, b, c, d>>
  <2>. DEFINE r == <<a, b, c>> q == <<a, b, c, d>>
  <2>1. /\ r \in Seq(Entries) /\ q \in Seq(Entries) /\ Len(q) = Len(r) + 1
        /\ \A i \in 1..Len(r) : q[i] = r[i]
        /\ q[Len(r) + 1] = d
    OBVIOUS
  <2>. HIDE DEF r, q
  <2>2. r \o <<d>> = q
    BY <2>1, AddLast
  <2>. QED BY <2>2 DEF r, q
<1>4. ASSUME NEW a \in Entries, NEW b \in Entries, NEW c \in Entries, NEW d \in Entries, NEW e \in Entries
      PROVE  <<a, b, c, d>> \o <<e>> = <<a, b, c, d, e>>
  <2>. DEFINE r == <<a, b, c, d>> q == <<a, b, c, d, e>>
  <2>1. /\ r \in Seq(Entries) /\ q \in Seq(Entries) /\ Len(q) = Len(r) + 1
        /\ \A i \in 1..Len(r) : q[i] = r[i]
        /\ q[Len(r) + 1] = e
    OBVIOUS
  <2>. HIDE DEF r, q
  <2>2. r \o <<e>> = q
    BY <2>1, AddLast
  <2>. QED BY <2>2 DEF r, q
<1>5. ASSUME NEW a \in Entries, NEW b \in Entries, NEW c \in Entries, NEW d \in Entries, NEW e \in Entries, NEW f \in Entries
      PROVE  <<a, b, c, d, e>> \o <<f>> = <<a, b, c, d, e, f>>
  <2>. DEFINE r == <<a, b, c, d, e>> q == <<a, b, c, d, e, f>>
  <2>1. /\ r \in Seq(Entries) /\ q \in Seq(Entries) /\ Len(q) = Len(r) + 1
        /\ \A i \in 1..Len(r) : q[i] = r[i]
        /\ q[Len(r) + 1] = f
    OBVIOUS
  <2>. HIDE DEF r, q
  <2>2. r \o <<f>> = q
    BY <2>1, AddLast
  <2>. QED BY <2>2 DEF r, q
<1>. QED BY <1>0, <1>1, <1>2, <1>3, <1>4, <1>5

\* Two entries are put behind a sequence one after the other.
LEMMA JoinTwo ==
  ASSUME NEW r \in Seq(Entries), NEW a \in Entries, NEW b \in Entries
  PROVE  r \o <<a, b>> = (r \o <<a>>) \o <<b>>
<1>1. <<a>> \in Seq(Entries) /\ <<b>> \in Seq(Entries)
  OBVIOUS
<1>2. r \o (<<a>> \o <<b>>) = (r \o <<a>>) \o <<b>>
  BY <1>1, ConcatAssociative
<1>. QED BY <1>2, ShortJoins

\* The entries that a close leaves to do.
LEMMA ShutdownIs ==
  ASSUME NEW h \in Handles
  PROVE  /\ ShutdownOf(h) \in Seq(Entries)
         /\ h = Db => ShutdownOf(h) = << <<"itrs", h>>, <<"snaps", h>>, <<"cfs", h>>,
                                         <<"tlogs", h>>, <<"refDec", h>> >>
         /\ h # Db /\ h \in Cfs => ShutdownOf(h) = << <<"itrs", h>>, <<"refDec", h>> >>
         /\ h # Db /\ h \notin Cfs => ShutdownOf(h) = << <<"refDec", h>> >>
<1>. DEFINE i == <<"itrs", h>>  s == <<"snaps", h>>  c == <<"cfs", h>>  l == <<"tlogs", h>>
            r == <<"refDec", h>>
<1>1. i \in Entries /\ s \in Entries /\ c \in Entries /\ l \in Entries /\ r \in Entries
  BY DEF Entries, Operations
<1>2. ShutdownOf(h) = (IF h = Db THEN <<i, s, c, l>> ELSE IF h \in Cfs THEN <<i>> ELSE << >>) \o <<r>>
  BY DEF ShutdownOf
<1>. HIDE DEF i, s, c, l, r
<1>3. /\ << >> \o <<r>> = <<r>> /\ <<i>> \o <<r>> = <<i, r>>
      /\ <<i, s, c, l>> \o <<r>> = <<i, s, c, l, r>>
  BY <1>1, ShortJoins
<1>4. <<r>> \in Seq(Entries) /\ <<i, r>> \in Seq(Entries) /\ <<i, s, c, l, r>> \in Seq(Entries)
  BY <1>1
<1>5. CASE h = Db
  BY <1>2, <1>3, <1>4, <1>5 DEF i, s, c, l, r
<1>6. CASE h # Db /\ h \in Cfs
  BY <1>2, <1>3, <1>4, <1>6 DEF i, r
<1>7. CASE h # Db /\ h \notin Cfs
  BY <1>2, <1>3, <1>4, <1>7 DEF r
<1>. QED BY <1>5, <1>6, <1>7

\* The entries that a destructor goes through.
LEMMA DestructorIs ==
  ASSUME NEW h \in Handles
  PROVE  /\ DestructorOf(h) \in Seq(Entries)
         /\ h = Db => DestructorOf(h) = << <<"deleteDb", Db>>, <<"done", h>> >>
         /\ h # Db /\ OnCf(h) =>
              DestructorOf(h) = << <<"unlink", h>>, <<"unlinkCf", h>>, <<"refDec", Db>>,
                                   <<"refDec", CfOf[h]>>, <<"done", h>> >>
         /\ h # Db /\ ~OnCf(h) =>
              DestructorOf(h) = << <<"unlink", h>>, <<"refDec", Db>>, <<"done", h>> >>
<1>. DEFINE x == <<"deleteDb", Db>>  u == <<"unlink", h>>  v == <<"unlinkCf", h>>
            r == <<"refDec", Db>>  c == <<"refDec", CfOf[h]>>  n == <<"done", h>>
<1>1. x \in Entries /\ u \in Entries /\ v \in Entries /\ r \in Entries /\ n \in Entries
  BY DEF Entries, Operations, Handles
<1>2. OnCf(h) => c \in Entries
  BY CfOfType DEF OnCf, Entries, Operations, Handles, Objects
<1>3. DestructorOf(h) = (IF h = Db THEN <<x>>
                         ELSE <<u>> \o (IF OnCf(h) THEN <<v>> ELSE << >>) \o <<r>>
                                    \o (IF OnCf(h) THEN <<c>> ELSE << >>)) \o <<n>>
  BY DEF DestructorOf
<1>. HIDE DEF x, u, v, r, c, n
<1>4. CASE h = Db
  <2>1. <<x>> \o <<n>> = <<x, n>> /\ <<x, n>> \in Seq(Entries)
    BY <1>1, ShortJoins
  <2>. QED BY <1>3, <1>4, <2>1 DEF x, n
<1>5. CASE h # Db /\ OnCf(h)
  <2>1. <<u>> \o <<v>> = <<u, v>> /\ <<u, v>> \o <<r>> = <<u, v, r>>
    BY <1>1, ShortJoins
  <2>2. <<u, v, r>> \o <<c>> = <<u, v, r, c>> /\ <<u, v, r, c>> \o <<n>> = <<u, v, r, c, n>>
    BY <1>1, <1>2, <1>5, ShortJoins
  <2>3. <<u, v, r, c, n>> \in Seq(Entries)
    BY <1>1, <1>2, <1>5
  <2>4. DestructorOf(h) = <<u, v, r, c, n>>
    BY <1>3, <1>5, <2>1, <2>2, Zenon
  <2>. QED BY <1>5, <2>3, <2>4 DEF u, v, r, c, n
<1>6. CASE h # Db /\ ~OnCf(h)
  <2>1. /\ <<u>> \o << >> = <<u>> /\ <<u>> \o <<r>> = <<u, r>> /\ <<u, r>> \o << >> = <<u, r>>
        /\ <<u, r>> \o <<n>> = <<u, r, n>>
    BY <1>1, ShortJoins
  <2>2. <<u, r, n>> \in Seq(Entries)
    BY <1>1
  <2>3. DestructorOf(h) = <<u, r, n>>
    BY <1>3, <1>6, <2>1, Zenon
  <2>. QED BY <1>6, <2>2, <2>3 DEF u, r, n
<1>. QED BY <1>4, <1>5, <1>6

\* What a thread has to do stays a sequence of entries.
TodoTypes ==
    /\ todo \in [Threads -> Seq(Entries)] /\ args \in [Threads -> SUBSET Handles]
    /\ retrieved \in [Threads -> SUBSET Handles] /\ late \subseteq Threads \cup Objects
    /\ Retrieval

\* A call leaves entries.
LEMMA CallTypes ==
  ASSUME Types, NEW t \in Threads, NEW hs, NEW e \in Seq(Entries), Call(t, hs, e)
  PROVE  TodoTypes'
BY DEF Types, TypeOK, Call, Idle, Retrieval, TodoTypes

\* A call that finds its handle open leaves it retrieved.
LEMMA RetrieveTypes ==
  ASSUME Types, NEW t \in Threads, NEW h \in Handles, NEW hs, h \in hs, Retrieve(t, h, hs)
  PROVE  TodoTypes'
<1>1. hs \subseteq Handles /\ todo' = todo /\ late' = late /\ todo[t] = <<>>
      /\ retrieved' = [retrieved EXCEPT ![t] = {h}] /\ args' = [args EXCEPT ![t] = hs]
  BY DEF Types, TypeOK, Retrieve, Idle
<1>2. retrieved' \in [Threads -> SUBSET Handles] /\ args' \in [Threads -> SUBSET Handles]
  BY <1>1 DEF Types, TypeOK
<1>3. Retrieval'
  BY <1>1 DEF Types, TypeOK, Retrieval
<1>. QED BY <1>1, <1>2, <1>3 DEF Types, TypeOK, TodoTypes

\* A call that takes its reference leaves entries.
LEMMA AssignTypes ==
  ASSUME Types, NEW t \in Threads, NEW h \in Handles, NEW e \in Seq(Entries), Assign(t, h, e)
  PROVE  TodoTypes'
<1>. DEFINE x == << <<"refDec", h>> >>
<1>1. x \in Seq(Entries)
  BY DEF Entries, Operations
<1>. HIDE DEF x
<1>2. e \o x \in Seq(Entries)
  BY <1>1, ConcatProperties
<1>3. /\ todo' = [todo EXCEPT ![t] = e \o x] /\ retrieved' = [retrieved EXCEPT ![t] = {}]
      /\ args' = args /\ late' \subseteq late \cup {t}
  BY DEF Assign, x
<1>4. todo' \in [Threads -> Seq(Entries)] /\ retrieved' \in [Threads -> SUBSET Handles]
  BY <1>2, <1>3 DEF Types, TypeOK
<1>5. Retrieval'
  BY <1>3 DEF Types, TypeOK, Retrieval
<1>. QED BY <1>3, <1>4, <1>5 DEF Types, TypeOK, TodoTypes

\* A step of a call leaves entries.
LEMMA GoTypes ==
  ASSUME Types, NEW t \in Threads, NEW op, NEW h, NEW e \in Seq(Entries),
         At(t, op, h), Go(t, e), late' \subseteq late \cup Objects
  PROVE  TodoTypes'
<1>1. todo[t] \in Seq(Entries) /\ todo[t] # <<>>
  BY DEF Types, At
<1>2. e \o Tail(todo[t]) \in Seq(Entries)
  BY <1>1, HeadTailProperties, ConcatProperties
<1>3. /\ todo' = [todo EXCEPT ![t] = e \o Tail(todo[t])] /\ retrieved' = retrieved
      /\ args' = [args EXCEPT ![t] = IF todo'[t] = <<>> THEN {} ELSE args[t]]
  BY DEF Go
<1>4. todo' \in [Threads -> Seq(Entries)] /\ args' \in [Threads -> SUBSET Handles]
  BY <1>2, <1>3 DEF Types
<1>5. Retrieval'
  <2>1. retrieved[t] = {}
    BY <1>1 DEF Types, Retrieval
  <2>2. \A u \in Threads : u # t => todo'[u] = todo[u] /\ args'[u] = args[u]
    BY <1>3 DEF Types
  <2>. QED BY <1>3, <2>1, <2>2 DEF Types, Retrieval
<1>. QED BY <1>3, <1>4, <1>5 DEF Types, TypeOK, TodoTypes

\* The same of most steps.
LEMMA ThenTypes ==
  ASSUME Types, NEW t \in Threads, NEW op, NEW h, NEW e \in Seq(Entries),
         At(t, op, h), Then(t, e)
  PROVE  TodoTypes'
<1>1. Go(t, e) /\ late' \subseteq late \cup Objects
  BY DEF Then
<1>. QED BY <1>1, GoTypes

\* Who is late stays late, a call for as long as it lasts.
Lateness ==
    /\ \A u \in Threads, d \in Nat : \A op, g : u \in late /\ On(u, d, op, g)' => u \in late'
    /\ \A o \in Objects : o \in late' <=> o \in late

\* A step of a call makes no term but what it returns, and who is late stays so.
LEMMA ThenKeeps ==
  ASSUME Types, NEW t \in Threads, NEW e
  PROVE  /\ Go(t, e) => \A x : terms' \subseteq terms \cup x => Names' \subseteq Names \cup x
         /\ Then(t, e) => Lateness
         /\ Then(t, e) /\ terms' = terms => Names' \subseteq Names
<1>1. ASSUME Go(t, e), NEW x, terms' \subseteq terms \cup x PROVE Names' \subseteq Names \cup x
  <2>1. \A u \in Threads : args'[u] \subseteq args[u]
    BY <1>1 DEF Go, Types
  <2>. QED BY <1>1, <2>1 DEF Names
<1>2. ASSUME Then(t, e) PROVE Lateness
  <2>1. late' = IF todo'[t] = <<>> THEN late \ {t} ELSE late
    BY <1>2 DEF Then
  <2>2. t \notin Objects
    BY KindsAreDistinct DEF Handles
  <2>3. ASSUME NEW u \in Threads, NEW d \in Nat, NEW op, NEW g, u \in late, On(u, d, op, g)'
        PROVE  u \in late'
    <3>1. d < Len(todo'[u])
      BY <2>3 DEF On
    <3>2. todo'[u] # <<>>
      BY <3>1
    <3>. QED BY <2>1, <2>3, <3>2
  <2>. QED BY <2>1, <2>2, <2>3 DEF Lateness
<1>3. ASSUME Then(t, e), terms' = terms PROVE Names' \subseteq Names
  <2>1. Names' \subseteq Names \cup {}
    BY <1>1, <1>3 DEF Then
  <2>. QED BY <2>1
<1>. QED BY <1>1, <1>2, <1>3

\* The types of what is not in the stacks.
StateTypes ==
    /\ life \in [Handles -> {"absent", "live", "collecting", "freed"}]
    /\ terms \subseteq Handles
    /\ closeReq \in [Handles -> 0..3]
    /\ refs \in [Handles -> Int]
    /\ linked \in [Owners -> SUBSET Objects]
    /\ mDb \in {"open", "deleted"}
    /\ released \in [Snaps -> 0..2]
    /\ dropped \subseteq Cfs
    /\ crashed \in BOOLEAN

\* Types has two halves.
LEMMA TypesHalves == Types <=> StateTypes /\ TodoTypes
BY DEF Types, TypeOK, StateTypes, TodoTypes, Entries, Retrieval

\* The same of the state after a step.
LEMMA TypesHalvesAfter == StateTypes' /\ TodoTypes' => Types'
BY TypesHalves, PTL

\* No NIF and no step of one leaves the types of the state.
LEMMA StateTypesStep ==
  ASSUME StateTypes, [Next]_vars
  PROVE  StateTypes'
<1>. USE DEF StateTypes
<1>0. Db \in Handles /\ \A o \in Objects : o \in Handles
  BY DEF Handles
<1>1. ASSUME NEW t \in Threads, Begin(t) PROVE StateTypes'
  <2>1. ASSUME NEW h, NEW hs, Retrieve(t, h, hs) PROVE StateTypes'
    BY <2>1 DEF Retrieve
  <2>2. ASSUME NEW h, RequestClose(t, h) PROVE StateTypes'
    BY <2>2 DEF RequestClose
  <2>3. ASSUME NEW h \in Handles, Collect(t, h) PROVE StateTypes'
    BY <2>3 DEF Collect
  <2>. QED BY <1>0, <1>1, <2>1, <2>2, <2>3
           DEF Begin, RetrieveDbObject, RetrieveDbObjectWith, RetrieveItrObject, RetrieveObject,
               Close, IteratorClose, UpdatesIteratorClose
<1>10. ASSUME NEW t \in Threads, Refer(t) PROVE StateTypes'
  <2>1. ASSUME NEW h \in Handles, NEW e, Assign(t, h, e) PROVE StateTypes'
    BY <2>1 DEF Assign
  <2>2. ASSUME NEW e, AssignDb(t, e) PROVE StateTypes'
    BY <1>0, <2>1, <2>2 DEF AssignDb
  <2>3. ASSUME NEW o, NEW e, Create(t, o, e) PROVE StateTypes'
    BY <2>2, <2>3 DEF Create
  <2>4. ASSUME NEW o, CreateAlone(t, o) PROVE StateTypes'
    BY <2>3, <2>4 DEF CreateAlone
  <2>5. CASE FailOnDb(t) \/ UseDb(t)
    BY <1>0, <2>1, <2>2, <2>5 DEF FailOnDb, UseDb
  <2>6. ASSUME NEW o \in Objects, Use(t, o) PROVE StateTypes'
    BY <1>0, <2>1, <2>6 DEF Use
  <2>7. ASSUME NEW i \in Itrs, Iterator(t, i) \/ Iterators(t, i) PROVE StateTypes'
    BY <2>3, <2>4, <2>7 DEF Iterator, Iterators
  <2>8. ASSUME NEW s \in Snaps, ReadSnapshot(t, s) \/ GetSnapshot(t, s) \/ ReleaseSnapshot(t, s)
        PROVE  StateTypes'
    BY <1>0, <2>1, <2>2, <2>4, <2>8 DEF ReadSnapshot, GetSnapshot, ReleaseSnapshot, Objects
  <2>9. ASSUME NEW c \in Cfs, CreateColumnFamily(t, c) \/ DropColumnFamily(t, c) PROVE StateTypes'
    BY <1>0, <2>1, <2>4, <2>9 DEF CreateColumnFamily, DropColumnFamily, Objects
  <2>10. ASSUME NEW l \in TLogs, UpdatesIterator(t, l) PROVE StateTypes'
    BY <2>4, <2>10 DEF UpdatesIterator
  <2>. QED BY <1>10, <2>5, <2>6, <2>7, <2>8, <2>9, <2>10 DEF Refer
<1>2. ASSUME NEW t \in Threads, NEW h \in Handles,
             \/ UseHandle(t, h) \/ Initiate(t, h) \/ RefDec(t, h)
             \/ Done(t, h) \/ Await(t, h) \/ TouchGone(t, h)
      PROVE  StateTypes'
  <2>1. CASE UseHandle(t, h) \/ TouchGone(t, h)
    BY <2>1 DEF UseHandle, TouchGone
  <2>2. CASE Initiate(t, h)
    BY <2>2 DEF Initiate
  <2>3. CASE RefDec(t, h)
    <3>1. refs' = [refs EXCEPT ![h] = refs[h] - 1] /\ refs' \in [Handles -> Int]
      BY <2>3 DEF RefDec
    <3>2. closeReq' = [closeReq EXCEPT ![h] = 2] \/ closeReq' = closeReq
      BY <2>3 DEF RefDec
    <3>3. UNCHANGED <<life, terms, linked, mDb, released, dropped, crashed>>
      BY <2>3 DEF RefDec
    <3>. QED BY <3>1, <3>2, <3>3
  <2>4. CASE Done(t, h)
    BY <2>4 DEF Done
  <2>5. CASE Await(t, h)
    BY <2>5 DEF Await
  <2>. QED BY <1>2, <2>1, <2>2, <2>3, <2>4, <2>5
<1>3. ASSUME NEW t \in Threads, NEW o \in Objects,
             \/ Construct(t, o) \/ Link(t, o) \/ LinkCf(t, o)
             \/ RefInc(t, o) \/ Unlink(t, o) \/ UnlinkCf(t, o) \/ AssignBriefly(t, o)
      PROVE  StateTypes'
  BY <1>3 DEF Construct, Link, LinkCf, RefInc, Unlink, UnlinkCf, AssignBriefly, Handles
<1>4. ASSUME NEW t \in Threads, NEW w \in Owners, NEW list, Drain(t, list, w) PROVE StateTypes'
  BY <1>4 DEF Drain
<1>5. ASSUME NEW t \in Threads, NEW s \in Snaps, Release(t, s) \/ TestSnapshot(t, s) \/ RetrieveSnapshot(t, s)
      PROVE  StateTypes'
  <2>1. CASE Release(t, s)
    <3>1. /\ released' = released \/ released' = [released EXCEPT ![s] = IF @ = 2 THEN 2 ELSE @ + 1]
          /\ crashed' = crashed \/ crashed' = TRUE
          /\ UNCHANGED <<life, terms, closeReq, refs, linked, mDb, dropped>>
      BY <2>1 DEF Release
    <3>2. released' \in [Snaps -> 0..2]
      BY <3>1
    <3>. QED BY <3>1, <3>2
  <2>2. CASE TestSnapshot(t, s) \/ RetrieveSnapshot(t, s)
    BY <2>2 DEF TestSnapshot, RetrieveSnapshot
  <2>. QED BY <1>5, <2>1, <2>2
<1>6. ASSUME NEW t \in Threads, NEW c \in Cfs, Drop(t, c) \/ RetrieveCf(t, c) PROVE StateTypes'
  <2>1. CASE Drop(t, c)
    BY <2>1 DEF Drop
  <2>2. CASE RetrieveCf(t, c)
    <3>1. /\ crashed' = crashed \/ crashed' = TRUE
          /\ UNCHANGED <<life, terms, closeReq, refs, linked, mDb, released, dropped>>
      BY <2>2 DEF RetrieveCf
    <3>. QED BY <3>1
  <2>. QED BY <1>6, <2>1, <2>2
<1>7. ASSUME NEW t \in Threads, DeleteDb(t) PROVE StateTypes'
  BY <1>7 DEF DeleteDb
<1>8. ASSUME NEW h \in Handles, Forget(h) PROVE StateTypes'
  BY <1>8 DEF Forget
<1>9. CASE Over \/ UNCHANGED vars
  BY <1>9 DEF Over, vars
<1>. QED BY <1>1, <1>2, <1>3, <1>4, <1>5, <1>6, <1>7, <1>8, <1>9, <1>10 DEF Next, Step

-----------------------------------------------------------------------------
(* The steps, by what they do to stacks and state *)

Lists == {"itrs", "snaps", "cfs", "tlogs"}

SameState == UNCHANGED <<life, closeReq, refs, linked, mDb>> /\ Names' \subseteq Names /\ Lateness

\* Nothing happens but that a term is dropped, a handle is found open, or the
\* emulator dies.
Neutral == /\ UNCHANGED <<life, closeReq, refs, linked, mDb, todo, late>>
           /\ Names' \subseteq Names

\* A step of a call does its uppermost entry.
Turns(t, n, op, h) == t \in Threads /\ n \in Nat /\ Top(t, n, op, h) /\ Rest(t, n)

\* What takes its place.
Nothing(t, n) == \A d \in Nat : \A o, g : d >= n => ~On(t, d, o, g)'
OnlyOne(t, n, o1, g1) == \A d \in Nat : \A o, g :
    d >= n => (On(t, d, o, g)' <=> d = n /\ o = o1 /\ g = g1)
OnlyTwo(t, n, o2, g2, o1, g1) == \A d \in Nat : \A o, g :
    d >= n => (On(t, d, o, g)' <=> \/ d = n + 1 /\ o = o2 /\ g = g2
                                   \/ d = n /\ o = o1 /\ g = g1)

Passes(t, n, op, h) ==
    /\ Turns(t, n, op, h) /\ Nothing(t, n)
    /\ op \in {"use", "release", "drop", "initiate", "testSnapshot", "retrieveSnapshot"} \cup Lists
    /\ SameState

Goes(t, n, op, h, new) ==
    /\ Turns(t, n, op, h) /\ OnlyOne(t, n, new, h)
    /\ \/ op = "drop" /\ new = "initiate"
       \/ op = "testSnapshot" /\ new = "release"
       \/ op = "retrieveCf" /\ new = "assign"
    /\ SameState

Reads(t, n, s) ==
    /\ Turns(t, n, "retrieveSnapshot", s) /\ OnlyTwo(t, n, "assign", s, "use", s)
    /\ SameState

Retrieves(t, n, o) ==
    /\ Turns(t, n, "assign", o) /\ OnlyOne(t, n, "refDec", o)
    /\ o \in Objects /\ refs' = [refs EXCEPT ![o] = @ + 1]
    /\ UNCHANGED <<life, closeReq, linked, mDb>> /\ Names' \subseteq Names /\ Lateness

Constructs(t, n, o) ==
    /\ Turns(t, n, "construct", o) /\ Nothing(t, n)
    /\ o \in Objects /\ life' = [life EXCEPT ![o] = "live"]
    /\ refs' = [h \in Handles |-> IF h = Db \/ (OnCf(o) /\ h = CfOf[o])
                                  THEN refs[h] + 1 ELSE refs[h]]
    /\ UNCHANGED <<closeReq, linked, mDb>> /\ Names' \subseteq Names
    /\ \A u \in Threads : u \in late => u \in late'
    /\ \A g \in Objects : g \in late' <=> g \in late \/ (g = o /\ closeReq[Db] >= 2)

ListOf(op, o) == IF op \in {"link", "unlink"} THEN Db ELSE CfOf[o]

Links(t, n, op, o) ==
    /\ Turns(t, n, op, o) /\ Nothing(t, n)
    /\ o \in Objects /\ op \in {"link", "linkCf"}
    /\ linked' = [linked EXCEPT ![ListOf(op, o)] = @ \cup {o}]
    /\ UNCHANGED <<life, closeReq, refs, mDb>> /\ Names' \subseteq Names /\ Lateness

Counts(t, n, o) ==
    /\ Turns(t, n, "refInc", o) /\ Nothing(t, n)
    /\ o \in Objects /\ refs' = [refs EXCEPT ![o] = @ + 1]
    /\ Names' \subseteq Names \cup {o} /\ Lateness
    /\ UNCHANGED <<life, closeReq, linked, mDb>>

Closes(t, n, h) ==
    /\ Turns(t, n, "initiate", h)
    /\ On(t, n, "refDec", h)'
    /\ \A d \in Nat : \A o, g : d >= n /\ On(t, d, o, g)' =>
          g = h /\ ((d = n /\ o = "refDec") \/ (d > n /\ o \in Lists))
    /\ h \in Handles /\ closeReq[h] = 0 /\ closeReq' = [closeReq EXCEPT ![h] = 1]
    /\ UNCHANGED <<life, refs, linked, mDb>> /\ Names' \subseteq Names /\ Lateness

Drains(t, n, list, w, o) ==
    /\ Turns(t, n, list, w) /\ OnlyTwo(t, n, "initiate", o, list, w)
    /\ list \in Lists /\ w \in Owners /\ o \in linked[w]
    /\ linked' = [linked EXCEPT ![w] = @ \ {o}]
    /\ UNCHANGED <<life, closeReq, refs, mDb>> /\ Names' \subseteq Names /\ Lateness

GivesBack(t, n, h) ==
    /\ Turns(t, n, "refDec", h) /\ Nothing(t, n)
    /\ h \in Handles /\ refs' = [refs EXCEPT ![h] = @ - 1]
    /\ UNCHANGED <<life, closeReq, linked, mDb>> /\ Names' \subseteq Names /\ Lateness

\* The entries of the destructor of h, from the depth n on.
Falls(n, h, d, o, g) ==
    IF h = Db THEN \/ d = n + 1 /\ o = "deleteDb" /\ g = Db
                   \/ d = n /\ o = "done" /\ g = h
    ELSE IF OnCf(h) THEN \/ d = n + 4 /\ o = "unlink" /\ g = h
                         \/ d = n + 3 /\ o = "unlinkCf" /\ g = h
                         \/ d = n + 2 /\ o = "refDec" /\ g = Db
                         \/ d = n + 1 /\ o = "refDec" /\ g = CfOf[h]
                         \/ d = n /\ o = "done" /\ g = h
    ELSE \/ d = n + 2 /\ o = "unlink" /\ g = h
         \/ d = n + 1 /\ o = "refDec" /\ g = Db
         \/ d = n /\ o = "done" /\ g = h

Destroys(t, n, h) ==
    /\ Turns(t, n, "refDec", h)
    /\ \A d \in Nat : \A o, g : d >= n => (On(t, d, o, g)' <=> Falls(n, h, d, o, g))
    /\ h \in Handles /\ refs[h] = 1 /\ closeReq[h] = 1
    /\ refs' = [refs EXCEPT ![h] = @ - 1] /\ closeReq' = [closeReq EXCEPT ![h] = 2]
    /\ UNCHANGED <<life, linked, mDb>> /\ Names' \subseteq Names /\ Lateness

Unlinks(t, n, op, o) ==
    /\ Turns(t, n, op, o) /\ Nothing(t, n)
    /\ o \in Objects /\ op \in {"unlink", "unlinkCf"}
    /\ linked' = [linked EXCEPT ![ListOf(op, o)] = @ \ {o}]
    /\ UNCHANGED <<life, closeReq, refs, mDb>> /\ Names' \subseteq Names /\ Lateness

Deletes(t, n) ==
    /\ Turns(t, n, "deleteDb", Db) /\ Nothing(t, n)
    /\ mDb' = "deleted"
    /\ UNCHANGED <<life, closeReq, refs, linked>> /\ Names' \subseteq Names /\ Lateness

Finishes(t, n, h) ==
    /\ Turns(t, n, "done", h) /\ Nothing(t, n)
    /\ h \in Handles /\ closeReq' = [closeReq EXCEPT ![h] = 3]
    /\ UNCHANGED <<life, refs, linked, mDb>> /\ Names' \subseteq Names /\ Lateness

Frees(t, n, h) ==
    /\ Turns(t, n, "await", h) /\ Nothing(t, n)
    /\ h \in Handles /\ closeReq[h] = 3 /\ life' = [life EXCEPT ![h] = "freed"]
    /\ UNCHANGED <<closeReq, refs, linked, mDb>> /\ Names' \subseteq Names /\ Lateness

\* A call begins on an empty stack.
Begins(t) == /\ t \in Threads /\ Rest(t, 0)
             /\ \A d \in Nat : \A o, g : ~On(t, d, o, g)

Borrows(t, h) ==
    /\ Begins(t) /\ h \in Handles /\ h \in Names
    /\ closeReq[h] >= 2 \/ h \in late => t \in late'
    /\ On(t, 0, "refDec", h)'
    /\ \A d \in Nat : \A o, g : On(t, d, o, g)' =>
          g = h /\ ((d = 0 /\ o = "refDec") \/ (d > 0 /\ o \in {"use", "drop", "release", "initiate"}))
    /\ refs' = [refs EXCEPT ![h] = @ + 1]
    /\ UNCHANGED <<life, closeReq, linked, mDb>> /\ Names' \subseteq Names /\ Lateness

ReadsSnapshot(t, s) ==
    /\ Begins(t) /\ s \in Snaps /\ {Db, s} \subseteq Names
    /\ closeReq[Db] >= 2 => t \in late'
    /\ \A d \in Nat : \A o, g : On(t, d, o, g)' <=> \/ d = 1 /\ o = "retrieveSnapshot" /\ g = s
                                                    \/ d = 0 /\ o = "refDec" /\ g = Db
    /\ refs' = [refs EXCEPT ![Db] = @ + 1]
    /\ UNCHANGED <<life, closeReq, linked, mDb>> /\ Names' \subseteq Names /\ Lateness

Creating(t, o) ==
    /\ Begins(t) /\ o \in Objects /\ life[o] = "absent"
    /\ closeReq[Db] >= 2 => t \in late'
    /\ Db \in Names /\ (OnCf(o) => CfOf[o] \in Names)
    /\ \A u \in Threads, d \in Nat : ~On(u, d, "construct", o)
    /\ \A d \in Nat : \A op, g : On(t, d, op, g)' <=>
          \/ d = 0 /\ op = "refDec" /\ g = Db
          \/ op \in Creates /\ g = o /\ d = Below(op, o) /\ (op = "linkCf" => OnCf(o))
          \/ OnCf(o) /\ d = 5 /\ op = "retrieveCf" /\ g = CfOf[o]
    /\ refs' = [refs EXCEPT ![Db] = @ + 1]
    /\ UNCHANGED <<life, closeReq, linked, mDb>> /\ Names' \subseteq Names /\ Lateness

Requests(t, h) ==
    /\ Begins(t) /\ OnlyOne(t, 0, "initiate", h)
    /\ h \in Handles /\ h \in Names
    /\ SameState

Collects(t, h) ==
    /\ Begins(t)
    /\ \A d \in Nat : \A o, g : On(t, d, o, g)' =>
          g = h /\ o \in {"testSnapshot", "initiate", "await"}
    /\ h \in Handles /\ life[h] = "live" /\ life' = [life EXCEPT ![h] = "collecting"]
    /\ UNCHANGED <<closeReq, refs, linked, mDb>> /\ Names' \subseteq Names /\ Lateness

\* Where the entries of a short sequence lie.
LEMMA LiesIs ==
  ASSUME NEW n \in Nat, NEW d \in Nat, d >= n, NEW e, NEW o, NEW g
  PROVE  /\ Len(e) = 0 => ~Lies(n, e, d, o, g)
         /\ Len(e) = 1 =>
              (Lies(n, e, d, o, g) <=> d = n /\ e[1] = <<o, g>>)
         /\ Len(e) = 2 =>
              (Lies(n, e, d, o, g) <=> \/ d = n + 1 /\ e[1] = <<o, g>>
                                       \/ d = n /\ e[2] = <<o, g>>)
         /\ Len(e) = 3 =>
              (Lies(n, e, d, o, g) <=> \/ d = n + 2 /\ e[1] = <<o, g>>
                                       \/ d = n + 1 /\ e[2] = <<o, g>>
                                       \/ d = n /\ e[3] = <<o, g>>)
         /\ Len(e) = 4 =>
              (Lies(n, e, d, o, g) <=> \/ d = n + 3 /\ e[1] = <<o, g>>
                                       \/ d = n + 2 /\ e[2] = <<o, g>>
                                       \/ d = n + 1 /\ e[3] = <<o, g>>
                                       \/ d = n /\ e[4] = <<o, g>>)
         /\ Len(e) = 5 =>
              (Lies(n, e, d, o, g) <=> \/ d = n + 4 /\ e[1] = <<o, g>>
                                       \/ d = n + 3 /\ e[2] = <<o, g>>
                                       \/ d = n + 2 /\ e[3] = <<o, g>>
                                       \/ d = n + 1 /\ e[4] = <<o, g>>
                                       \/ d = n /\ e[5] = <<o, g>>)
         /\ Len(e) = 6 =>
              (Lies(n, e, d, o, g) <=> \/ d = n + 5 /\ e[1] = <<o, g>>
                                       \/ d = n + 4 /\ e[2] = <<o, g>>
                                       \/ d = n + 3 /\ e[3] = <<o, g>>
                                       \/ d = n + 2 /\ e[4] = <<o, g>>
                                       \/ d = n + 1 /\ e[5] = <<o, g>>
                                       \/ d = n /\ e[6] = <<o, g>>)
<1>0. Lies(n, e, d, o, g) <=> d < n + Len(e) /\ e[n + Len(e) - d] = <<o, g>>
  BY DEF Lies
<1>1. CASE Len(e) = 0
  BY <1>0, <1>1
<1>2. CASE Len(e) = 1
  <2>1. d < n + 1 <=> d = n
    OBVIOUS
  <2>2. /\ d = n => n + 1 - d = 1
    OBVIOUS
  <2>. QED BY <1>0, <1>2, <2>1, <2>2
<1>3. CASE Len(e) = 2
  <2>1. d < n + 2 <=> d = n + 1 \/ d = n
    OBVIOUS
  <2>2. /\ d = n + 1 => n + 2 - d = 1
        /\ d = n => n + 2 - d = 2
    OBVIOUS
  <2>. QED BY <1>0, <1>3, <2>1, <2>2
<1>4. CASE Len(e) = 3
  <2>1. d < n + 3 <=> d = n + 2 \/ d = n + 1 \/ d = n
    OBVIOUS
  <2>2. /\ d = n + 2 => n + 3 - d = 1
        /\ d = n + 1 => n + 3 - d = 2
        /\ d = n => n + 3 - d = 3
    OBVIOUS
  <2>. QED BY <1>0, <1>4, <2>1, <2>2
<1>5. CASE Len(e) = 4
  <2>1. d < n + 4 <=> d = n + 3 \/ d = n + 2 \/ d = n + 1 \/ d = n
    OBVIOUS
  <2>2. /\ d = n + 3 => n + 4 - d = 1
        /\ d = n + 2 => n + 4 - d = 2
        /\ d = n + 1 => n + 4 - d = 3
        /\ d = n => n + 4 - d = 4
    OBVIOUS
  <2>. QED BY <1>0, <1>5, <2>1, <2>2
<1>6. CASE Len(e) = 5
  <2>1. d < n + 5 <=> d = n + 4 \/ d = n + 3 \/ d = n + 2 \/ d = n + 1 \/ d = n
    OBVIOUS
  <2>2. /\ d = n + 4 => n + 5 - d = 1
        /\ d = n + 3 => n + 5 - d = 2
        /\ d = n + 2 => n + 5 - d = 3
        /\ d = n + 1 => n + 5 - d = 4
        /\ d = n => n + 5 - d = 5
    OBVIOUS
  <2>. QED BY <1>0, <1>6, <2>1, <2>2
<1>7. CASE Len(e) = 6
  <2>1. d < n + 6 <=> d = n + 5 \/ d = n + 4 \/ d = n + 3 \/ d = n + 2 \/ d = n + 1 \/ d = n
    OBVIOUS
  <2>2. /\ d = n + 5 => n + 6 - d = 1
        /\ d = n + 4 => n + 6 - d = 2
        /\ d = n + 3 => n + 6 - d = 3
        /\ d = n + 2 => n + 6 - d = 4
        /\ d = n + 1 => n + 6 - d = 5
        /\ d = n => n + 6 - d = 6
    OBVIOUS
  <2>. QED BY <1>0, <1>7, <2>1, <2>2
<1>8. CASE Len(e) \notin 0..6
  BY <1>8
<1>. QED BY <1>1, <1>2, <1>3, <1>4, <1>5, <1>6, <1>7, <1>8

\* A step that puts two entries in place of its own.
LEMMA ThenPutsTwo ==
  ASSUME Types, NEW t \in Threads, NEW op, NEW h, At(t, op, h),
         NEW o2 \in Operations, NEW g2 \in Handles, NEW o1 \in Operations, NEW g1 \in Handles,
         Then(t, << <<o2, g2>>, <<o1, g1>> >>)
  PROVE  \E n \in Nat : Turns(t, n, op, h) /\ OnlyTwo(t, n, o2, g2, o1, g1)
<1>1. << <<o2, g2>>, <<o1, g1>> >> \in Seq(Entries)
  BY DEF Entries
<1>2. PICK n \in Nat : Top(t, n, op, h) /\ Rest(t, n) /\ Puts(t, n, << <<o2, g2>>, <<o1, g1>> >>)
  BY <1>1, ThenStack DEF Then
<1>. DEFINE e == << <<o2, g2>>, <<o1, g1>> >>
<1>3. Len(e) = 2 /\ e[1] = <<o2, g2>> /\ e[2] = <<o1, g1>> /\ Puts(t, n, e)
  BY <1>2
<1>. HIDE DEF e
<1>4. ASSUME NEW d \in Nat, NEW o, NEW g, d >= n
      PROVE  On(t, d, o, g)' <=> \/ d = n + 1 /\ o = o2 /\ g = g2
                                 \/ d = n /\ o = o1 /\ g = g1
  <2>1. On(t, d, o, g)' <=> Lies(n, e, d, o, g)
    BY <1>3, <1>4 DEF Puts
  <2>2. Lies(n, e, d, o, g) <=> \/ d = n + 1 /\ e[1] = <<o, g>>
                                \/ d = n /\ e[2] = <<o, g>>
    BY <1>3, <1>4, LiesIs
  <2>. QED BY <1>3, <2>1, <2>2
<1>5. OnlyTwo(t, n, o2, g2, o1, g1)
  BY <1>4 DEF OnlyTwo
<1>. QED BY <1>2, <1>5 DEF Turns

\* A step that puts nothing, one entry or two in place of its own.
LEMMA ThenPuts ==
  ASSUME Types, NEW t \in Threads, NEW op, NEW h, At(t, op, h)
  PROVE  /\ Go(t, << >>) => \E n \in Nat : Turns(t, n, op, h) /\ Nothing(t, n)
         /\ Then(t, << >>) => \E n \in Nat : Turns(t, n, op, h) /\ Nothing(t, n)
         /\ \A o1 \in Operations, g1 \in Handles : Then(t, << <<o1, g1>> >>) =>
               \E n \in Nat : Turns(t, n, op, h) /\ OnlyOne(t, n, o1, g1)
         /\ \A o2, o1 \in Operations, g2, g1 \in Handles :
               Then(t, << <<o2, g2>>, <<o1, g1>> >>) =>
               \E n \in Nat : Turns(t, n, op, h) /\ OnlyTwo(t, n, o2, g2, o1, g1)
<1>1. ASSUME Go(t, << >>) PROVE \E n \in Nat : Turns(t, n, op, h) /\ Nothing(t, n)
  <2>1. << >> \in Seq(Entries)
    OBVIOUS
  <2>2. PICK n \in Nat : Top(t, n, op, h) /\ Rest(t, n) /\ Puts(t, n, << >>)
    BY <1>1, <2>1, ThenStack
  <2>3. Len(<< >>) = 0
    OBVIOUS
  <2>4. Nothing(t, n)
    BY <2>2, <2>3, LiesIs DEF Puts, Nothing
  <2>. QED BY <2>2, <2>4 DEF Turns
<1>2. ASSUME NEW o1 \in Operations, NEW g1 \in Handles, Then(t, << <<o1, g1>> >>)
      PROVE  \E n \in Nat : Turns(t, n, op, h) /\ OnlyOne(t, n, o1, g1)
  <2>1. << <<o1, g1>> >> \in Seq(Entries)
    BY DEF Entries
  <2>2. PICK n \in Nat : Top(t, n, op, h) /\ Rest(t, n) /\ Puts(t, n, << <<o1, g1>> >>)
    BY <1>2, <2>1, ThenStack DEF Then
  <2>. DEFINE e == << <<o1, g1>> >>
  <2>3. Len(e) = 1 /\ e[1] = <<o1, g1>>
    OBVIOUS
  <2>. HIDE DEF e
  <2>4. OnlyOne(t, n, o1, g1)
    BY <2>2, <2>3, LiesIs DEF Puts, OnlyOne, e
  <2>. QED BY <2>2, <2>4 DEF Turns
<1>3. ASSUME NEW o2 \in Operations, NEW g2 \in Handles, NEW o1 \in Operations, NEW g1 \in Handles,
             Then(t, << <<o2, g2>>, <<o1, g1>> >>)
      PROVE  \E n \in Nat : Turns(t, n, op, h) /\ OnlyTwo(t, n, o2, g2, o1, g1)
  BY <1>3, ThenPutsTwo
<1>4. Then(t, << >>) => Go(t, << >>)
  BY DEF Then
<1>. QED BY <1>1, <1>2, <1>3, <1>4

\* Every kind of step of a call.
Turn(t) == \E n \in Nat, h \in Handles :
    \/ \E op \in Operations : \/ Passes(t, n, op, h)
                              \/ \E new \in Operations : Goes(t, n, op, h, new)
                              \/ Links(t, n, op, h) \/ Unlinks(t, n, op, h)
                              \/ \E w \in Owners : Drains(t, n, op, w, h)
    \/ Reads(t, n, h) \/ Retrieves(t, n, h) \/ Constructs(t, n, h) \/ Counts(t, n, h)
    \/ Closes(t, n, h) \/ GivesBack(t, n, h) \/ Destroys(t, n, h)
    \/ Deletes(t, n) \/ Finishes(t, n, h) \/ Frees(t, n, h)

\* The steps with one entry at most in place of their own.
LEMMA StepIs ==
  ASSUME Types, NEW t \in Threads, Step(t)
  PROVE  Neutral \/ Turn(t)
<1>. /\ \A o \in Objects : o \in Handles
     /\ \A w \in Owners : w \in Handles
     /\ \A s \in Snaps : s \in Objects
     /\ \A c \in Cfs : c \in Objects /\ c \in Owners
     /\ Db \in Handles /\ Db \in Owners
  BY DEF Handles, Objects, Owners
<1>. Operations = {"use", "retrieveCf", "construct", "link", "linkCf", "refInc", "refDec",
               "initiate", "itrs", "snaps", "cfs", "tlogs", "unlink", "unlinkCf",
               "deleteDb", "done", "release", "drop", "testSnapshot", "await",
               "retrieveSnapshot", "assign"}
  BY DEF Operations
<1>0. \A e : Then(t, e) /\ UNCHANGED terms => Names' \subseteq Names /\ Lateness
  BY ThenKeeps
<1>1. ASSUME NEW h \in Handles, UseHandle(t, h) PROVE Turn(t)
  <2>1. PICK n \in Nat : Turns(t, n, "use", h) /\ Nothing(t, n)
    BY <1>1, ThenPuts DEF UseHandle
  <2>2. Passes(t, n, "use", h)
    BY <1>0, <1>1, <2>1 DEF UseHandle, Passes, SameState
  <2>. QED BY <2>2 DEF Turn
<1>2. ASSUME NEW h \in Handles, Initiate(t, h) PROVE Turn(t)
  <2>1. CASE closeReq[h] # 0
    <3>1. PICK n \in Nat : Turns(t, n, "initiate", h) /\ Nothing(t, n)
      BY <1>2, <2>1, ThenPuts DEF Initiate
    <3>2. Passes(t, n, "initiate", h)
      BY <1>0, <1>2, <2>1, <3>1 DEF Initiate, Passes, SameState
    <3>. QED BY <3>2 DEF Turn
  <2>2. CASE closeReq[h] = 0
    <3>. DEFINE e == ShutdownOf(h)
    <3>1. At(t, "initiate", h) /\ Then(t, e) /\ e \in Seq(Entries)
      BY <1>2, <2>2, ShutdownIs DEF Initiate
    <3>2. PICK n \in Nat : Top(t, n, "initiate", h) /\ Rest(t, n) /\ Puts(t, n, e)
      BY <3>1, ThenStack DEF Then
    <3>. HIDE DEF e
    <3>3. On(t, n, "refDec", h)'
          /\ \A d \in Nat : \A o, g : d >= n /\ On(t, d, o, g)' =>
                g = h /\ ((d = n /\ o = "refDec") \/ (d > n /\ o \in Lists))
      <4>1. ASSUME NEW d \in Nat, NEW o, NEW g, d >= n
            PROVE  On(t, d, o, g)' <=> Lies(n, e, d, o, g)
        BY <3>2, <4>1 DEF Puts
      <4>2. CASE h = Db
        <5>1. e = << <<"itrs", h>>, <<"snaps", h>>, <<"cfs", h>>, <<"tlogs", h>>, <<"refDec", h>> >>
          BY <4>2, ShutdownIs DEF e
        <5>2. Len(e) = 5 /\ e[1] = <<"itrs", h>> /\ e[2] = <<"snaps", h>> /\ e[3] = <<"cfs", h>> /\ e[4] = <<"tlogs", h>> /\ e[5] = <<"refDec", h>>
          BY <5>1
        <5>3. ASSUME NEW d \in Nat, NEW o, NEW g, d >= n
              PROVE  On(t, d, o, g)' <=> g = h /\ \/ d = n + 4 /\ o = "itrs"
                                                  \/ d = n + 3 /\ o = "snaps"
                                                  \/ d = n + 2 /\ o = "cfs"
                                                  \/ d = n + 1 /\ o = "tlogs"
                                                  \/ d = n /\ o = "refDec"
          <6>1. Lies(n, e, d, o, g) <=> \/ d = n + 4 /\ e[1] = <<o, g>>
                                        \/ d = n + 3 /\ e[2] = <<o, g>>
                                        \/ d = n + 2 /\ e[3] = <<o, g>>
                                        \/ d = n + 1 /\ e[4] = <<o, g>>
                                        \/ d = n /\ e[5] = <<o, g>>
            BY <5>2, <5>3, LiesIs
          <6>. QED BY <4>1, <5>2, <5>3, <6>1
        <5>. QED BY <5>3 DEF Lists
      <4>3. CASE h # Db /\ h \in Cfs
        <5>1. e = << <<"itrs", h>>, <<"refDec", h>> >>
          BY <4>3, ShutdownIs DEF e
        <5>2. Len(e) = 2 /\ e[1] = <<"itrs", h>> /\ e[2] = <<"refDec", h>>
          BY <5>1
        <5>3. ASSUME NEW d \in Nat, NEW o, NEW g, d >= n
              PROVE  On(t, d, o, g)' <=> g = h /\ \/ d = n + 1 /\ o = "itrs"
                                                  \/ d = n /\ o = "refDec"
          <6>1. Lies(n, e, d, o, g) <=> \/ d = n + 1 /\ e[1] = <<o, g>>
                                        \/ d = n /\ e[2] = <<o, g>>
            BY <5>2, <5>3, LiesIs
          <6>. QED BY <4>1, <5>2, <5>3, <6>1
        <5>. QED BY <5>3 DEF Lists
      <4>4. CASE h # Db /\ h \notin Cfs
        <5>1. e = << <<"refDec", h>> >>
          BY <4>4, ShutdownIs DEF e
        <5>2. Len(e) = 1 /\ e[1] = <<"refDec", h>>
          BY <5>1
        <5>3. ASSUME NEW d \in Nat, NEW o, NEW g, d >= n
              PROVE  On(t, d, o, g)' <=> g = h /\ d = n /\ o = "refDec"
          <6>0. Len(e) = 1
            BY <5>2
          <6>1. Lies(n, e, d, o, g) <=> (d = n /\ e[1] = <<o, g>>)
            BY <5>3, <6>0, LiesIs
          <6>. QED BY <4>1, <5>2, <5>3, <6>1
        <5>. QED BY <5>3 DEF Lists
      <4>. QED BY <4>2, <4>3, <4>4
    <3>4. Closes(t, n, h)
      BY <1>0, <1>2, <2>2, <3>2, <3>3 DEF Initiate, Closes, Turns
    <3>. QED BY <3>4 DEF Turn
  <2>. QED BY <2>1, <2>2
<1>3. ASSUME NEW h \in Handles, RefDec(t, h) PROVE Turn(t)
  <2>0. refs'[h] = refs[h] - 1 /\ refs[h] \in Int
    BY <1>3 DEF RefDec, Types, TypeOK
  <2>1. CASE ~(refs'[h] = 0 /\ closeReq[h] = 1)
    <3>1. PICK n \in Nat : Turns(t, n, "refDec", h) /\ Nothing(t, n)
      BY <1>3, <2>1, ThenPuts DEF RefDec
    <3>2. GivesBack(t, n, h)
      BY <1>0, <1>3, <2>1, <3>1 DEF RefDec, GivesBack
    <3>. QED BY <3>2 DEF Turn
  <2>2. CASE refs'[h] = 0 /\ closeReq[h] = 1
    <3>. DEFINE e == DestructorOf(h)
    <3>1. At(t, "refDec", h) /\ Then(t, e) /\ e \in Seq(Entries)
      BY <1>3, <2>2, DestructorIs DEF RefDec
    <3>2. PICK n \in Nat : Top(t, n, "refDec", h) /\ Rest(t, n) /\ Puts(t, n, e)
      BY <3>1, ThenStack DEF Then
    <3>. HIDE DEF e
    <3>3. ASSUME NEW d \in Nat, NEW o, NEW g, d >= n
          PROVE  On(t, d, o, g)' <=> Falls(n, h, d, o, g)
      <4>1. On(t, d, o, g)' <=> Lies(n, e, d, o, g)
        BY <3>2, <3>3 DEF Puts
      <4>2. CASE h = Db
        <5>1. e = << <<"deleteDb", Db>>, <<"done", h>> >>
          BY <4>2, DestructorIs DEF e
        <5>2. Len(e) = 2 /\ e[1] = <<"deleteDb", Db>> /\ e[2] = <<"done", h>>
          BY <5>1
        <5>3. Lies(n, e, d, o, g) <=> \/ d = n + 1 /\ o = "deleteDb" /\ g = Db
                                      \/ d = n /\ o = "done" /\ g = h
          <6>1. Lies(n, e, d, o, g) <=> \/ d = n + 1 /\ e[1] = <<o, g>>
                                        \/ d = n /\ e[2] = <<o, g>>
            BY <3>3, <5>2, LiesIs
          <6>. QED BY <5>2, <6>1
        <5>. QED BY <4>1, <4>2, <5>3 DEF Falls
      <4>3. CASE h # Db /\ OnCf(h)
        <5>1. e = << <<"unlink", h>>, <<"unlinkCf", h>>, <<"refDec", Db>>,
                     <<"refDec", CfOf[h]>>, <<"done", h>> >>
          BY <4>3, DestructorIs DEF e
        <5>2. Len(e) = 5 /\ e[1] = <<"unlink", h>> /\ e[2] = <<"unlinkCf", h>> /\ e[3] = <<"refDec", Db>> /\ e[4] = <<"refDec", CfOf[h]>> /\ e[5] = <<"done", h>>
          BY <5>1
        <5>3. Lies(n, e, d, o, g) <=> \/ d = n + 4 /\ o = "unlink" /\ g = h
                                      \/ d = n + 3 /\ o = "unlinkCf" /\ g = h
                                      \/ d = n + 2 /\ o = "refDec" /\ g = Db
                                      \/ d = n + 1 /\ o = "refDec" /\ g = CfOf[h]
                                      \/ d = n /\ o = "done" /\ g = h
          <6>1. Lies(n, e, d, o, g) <=> \/ d = n + 4 /\ e[1] = <<o, g>>
                                        \/ d = n + 3 /\ e[2] = <<o, g>>
                                        \/ d = n + 2 /\ e[3] = <<o, g>>
                                        \/ d = n + 1 /\ e[4] = <<o, g>>
                                        \/ d = n /\ e[5] = <<o, g>>
            BY <3>3, <5>2, LiesIs
          <6>. QED BY <5>2, <6>1
        <5>. QED BY <4>1, <4>3, <5>3 DEF Falls
      <4>4. CASE h # Db /\ ~OnCf(h)
        <5>1. e = << <<"unlink", h>>, <<"refDec", Db>>, <<"done", h>> >>
          BY <4>4, DestructorIs DEF e
        <5>2. Len(e) = 3 /\ e[1] = <<"unlink", h>> /\ e[2] = <<"refDec", Db>> /\ e[3] = <<"done", h>>
          BY <5>1
        <5>3. Lies(n, e, d, o, g) <=> \/ d = n + 2 /\ o = "unlink" /\ g = h
                                      \/ d = n + 1 /\ o = "refDec" /\ g = Db
                                      \/ d = n /\ o = "done" /\ g = h
          <6>1. Lies(n, e, d, o, g) <=> \/ d = n + 2 /\ e[1] = <<o, g>>
                                        \/ d = n + 1 /\ e[2] = <<o, g>>
                                        \/ d = n /\ e[3] = <<o, g>>
            BY <3>3, <5>2, LiesIs
          <6>. QED BY <5>2, <6>1
        <5>. QED BY <4>1, <4>4, <5>3 DEF Falls
      <4>. QED BY <4>2, <4>3, <4>4
    <3>4. refs[h] = 1
      BY <2>0, <2>2
    <3>5. Destroys(t, n, h)
      BY <1>0, <1>3, <2>2, <3>2, <3>3, <3>4 DEF RefDec, Destroys, Turns
    <3>. QED BY <3>5 DEF Turn
  <2>. QED BY <2>1, <2>2
<1>4. ASSUME NEW h \in Handles, Done(t, h) PROVE Turn(t)
  <2>1. PICK n \in Nat : Turns(t, n, "done", h) /\ Nothing(t, n)
    BY <1>4, ThenPuts DEF Done
  <2>2. Finishes(t, n, h)
    BY <1>0, <1>4, <2>1 DEF Done, Finishes
  <2>. QED BY <2>2 DEF Turn
<1>5. ASSUME NEW h \in Handles, Await(t, h) PROVE Turn(t)
  <2>1. PICK n \in Nat : Turns(t, n, "await", h) /\ Nothing(t, n)
    BY <1>5, ThenPuts DEF Await
  <2>2. Frees(t, n, h)
    BY <1>0, <1>5, <2>1 DEF Await, Frees
  <2>. QED BY <2>2 DEF Turn
<1>6. ASSUME NEW h \in Handles, TouchGone(t, h) PROVE Neutral
  BY <1>6 DEF TouchGone, Neutral, Names
<1>7. ASSUME NEW o \in Objects, Construct(t, o) PROVE Turn(t)
  <2>1. PICK n \in Nat : Turns(t, n, "construct", o) /\ Nothing(t, n)
    BY <1>7, ThenPuts DEF Construct
  <2>2. Names' \subseteq Names
    <3>1. Go(t, << >>) /\ terms' \subseteq terms \cup {}
      BY <1>7 DEF Construct
    <3>2. Names' \subseteq Names \cup {}
      BY <3>1, ThenKeeps
    <3>. QED BY <3>2
  <2>3. Constructs(t, n, o)
    BY <1>7, <2>1, <2>2, KindsAreDistinct DEF Construct, Constructs, Handles
  <2>. QED BY <2>3 DEF Turn
<1>8. ASSUME NEW o \in Objects, RefInc(t, o) PROVE Turn(t)
  <2>1. PICK n \in Nat : Turns(t, n, "refInc", o) /\ Nothing(t, n)
    BY <1>8, ThenPuts DEF RefInc
  <2>2. Then(t, << >>) /\ terms' \subseteq terms \cup {o}
    BY <1>8 DEF RefInc
  <2>3. Names' \subseteq Names \cup {o} /\ Lateness
    BY <2>2, ThenKeeps DEF Then
  <2>4. Counts(t, n, o)
    BY <1>8, <2>1, <2>3 DEF RefInc, Counts
  <2>. QED BY <2>4 DEF Turn
<1>9. ASSUME NEW o \in Objects, Link(t, o) PROVE Turn(t)
  <2>1. PICK n \in Nat : Turns(t, n, "link", o) /\ Nothing(t, n)
    BY <1>9, ThenPuts DEF Link
  <2>2. Links(t, n, "link", o)
    BY <1>0, <1>9, <2>1 DEF Link, Links, ListOf
  <2>. QED BY <2>2 DEF Turn
<1>10. ASSUME NEW o \in Objects, Unlink(t, o) PROVE Turn(t)
  <2>1. PICK n \in Nat : Turns(t, n, "unlink", o) /\ Nothing(t, n)
    BY <1>10, ThenPuts DEF Unlink
  <2>2. Unlinks(t, n, "unlink", o)
    BY <1>0, <1>10, <2>1 DEF Unlink, Unlinks, ListOf
  <2>. QED BY <2>2 DEF Turn
<1>11. ASSUME NEW o \in Objects, LinkCf(t, o) PROVE Turn(t)
  <2>1. PICK n \in Nat : Turns(t, n, "linkCf", o) /\ Nothing(t, n)
    BY <1>11, ThenPuts DEF LinkCf
  <2>2. Links(t, n, "linkCf", o)
    BY <1>0, <1>11, <2>1 DEF LinkCf, Links, ListOf
  <2>. QED BY <2>2 DEF Turn
<1>12. ASSUME NEW o \in Objects, UnlinkCf(t, o) PROVE Turn(t)
  <2>1. PICK n \in Nat : Turns(t, n, "unlinkCf", o) /\ Nothing(t, n)
    BY <1>12, ThenPuts DEF UnlinkCf
  <2>2. Unlinks(t, n, "unlinkCf", o)
    BY <1>0, <1>12, <2>1 DEF UnlinkCf, Unlinks, ListOf
  <2>. QED BY <2>2 DEF Turn
<1>13. ASSUME NEW w \in Owners, NEW list \in Lists, Drain(t, list, w) PROVE Turn(t)
  <2>0. At(t, list, w) /\ list \in Operations /\ w \in Handles
    BY <1>13 DEF Drain, Lists
  <2>1. CASE linked[w] \cap Kind(list) = {} /\ Then(t, <<>>) /\ UNCHANGED linked
    <3>1. PICK n \in Nat : Turns(t, n, list, w) /\ Nothing(t, n)
      BY <2>0, <2>1, ThenPuts
    <3>2. Passes(t, n, list, w)
      BY <1>0, <1>13, <2>1, <3>1 DEF Drain, Passes, SameState
    <3>. QED BY <2>0, <3>2 DEF Turn
  <2>2. ASSUME NEW o \in linked[w] \cap Kind(list),
               linked' = [linked EXCEPT ![w] = @ \ {o}],
               Then(t, << <<"initiate", o>>, <<list, w>> >>)
        PROVE  Turn(t)
    <3>1. o \in Objects /\ o \in Handles /\ "initiate" \in Operations
      BY <2>2 DEF Types, TypeOK
    <3>2. PICK n \in Nat : Turns(t, n, list, w) /\ OnlyTwo(t, n, "initiate", o, list, w)
      <4>. HIDE DEF Operations
      <4>. QED BY <2>0, <2>2, <3>1, ThenPutsTwo
    <3>3. UNCHANGED <<life, terms, closeReq, refs, mDb>>
      BY <1>13 DEF Drain
    <3>4. Drains(t, n, list, w, o)
      BY <1>0, <2>2, <3>1, <3>2, <3>3 DEF Drains
    <3>. QED BY <2>0, <3>1, <3>4 DEF Turn
  <2>. QED BY <1>13, <2>1, <2>2 DEF Drain
<1>14. ASSUME NEW s \in Snaps, Release(t, s) PROVE Neutral \/ Turn(t)
  <2>1. CASE mDb = "open"
    <3>1. PICK n \in Nat : Turns(t, n, "release", s) /\ Nothing(t, n)
      BY <1>14, <2>1, ThenPuts DEF Release
    <3>2. Passes(t, n, "release", s)
      BY <1>0, <1>14, <2>1, <3>1 DEF Release, Passes, SameState
    <3>. QED BY <3>2 DEF Turn
  <2>2. CASE mDb # "open"
    BY <1>14, <2>2 DEF Release, Neutral, Names
  <2>. QED BY <2>1, <2>2
<1>15. ASSUME NEW s \in Snaps, TestSnapshot(t, s) PROVE Turn(t)
  <2>0. At(t, "testSnapshot", s) /\ (Then(t, << <<"release", s>> >>) \/ Then(t, <<>>))
    BY <1>15 DEF TestSnapshot
  <2>1. CASE Then(t, <<>>)
    <3>1. PICK n \in Nat : Turns(t, n, "testSnapshot", s) /\ Nothing(t, n)
      BY <2>0, <2>1, ThenPuts
    <3>2. Passes(t, n, "testSnapshot", s)
      BY <1>0, <1>15, <3>1 DEF TestSnapshot, Passes, SameState
    <3>. QED BY <3>2 DEF Turn
  <2>2. CASE Then(t, << <<"release", s>> >>)
    <3>1. PICK n \in Nat : Turns(t, n, "testSnapshot", s) /\ OnlyOne(t, n, "release", s)
      BY <2>0, <2>2, ThenPuts
    <3>2. Goes(t, n, "testSnapshot", s, "release")
      BY <1>0, <1>15, <3>1 DEF TestSnapshot, Goes, SameState
    <3>. QED BY <3>2 DEF Turn
  <2>. QED BY <2>0, <2>1, <2>2
<1>16. ASSUME NEW c \in Cfs, Drop(t, c) PROVE Turn(t)
  <2>1. CASE c \in dropped
    <3>1. PICK n \in Nat : Turns(t, n, "drop", c) /\ Nothing(t, n)
      BY <1>16, <2>1, ThenPuts DEF Drop
    <3>2. Passes(t, n, "drop", c)
      BY <1>0, <1>16, <3>1 DEF Drop, Passes, SameState
    <3>. QED BY <3>2 DEF Turn
  <2>2. CASE c \notin dropped
    <3>1. PICK n \in Nat : Turns(t, n, "drop", c) /\ OnlyOne(t, n, "initiate", c)
      BY <1>16, <2>2, ThenPuts DEF Drop
    <3>2. Goes(t, n, "drop", c, "initiate")
      BY <1>0, <1>16, <3>1 DEF Drop, Goes, SameState
    <3>. QED BY <3>2 DEF Turn
  <2>. QED BY <2>1, <2>2
<1>17. ASSUME NEW c \in Cfs, RetrieveCf(t, c) PROVE Neutral \/ Turn(t)
  <2>1. CASE closeReq[c] = 0
    <3>1. PICK n \in Nat : Turns(t, n, "retrieveCf", c) /\ OnlyOne(t, n, "assign", c)
      BY <1>17, <2>1, ThenPuts DEF RetrieveCf
    <3>2. Goes(t, n, "retrieveCf", c, "assign")
      BY <1>0, <1>17, <2>1, <3>1 DEF RetrieveCf, Goes, SameState
    <3>. QED BY <3>2 DEF Turn
  <2>2. CASE closeReq[c] # 0
    BY <1>17, <2>2 DEF RetrieveCf, Neutral, Names
  <2>. QED BY <2>1, <2>2
<1>19. ASSUME NEW s \in Snaps, RetrieveSnapshot(t, s) PROVE Turn(t)
  <2>0. At(t, "retrieveSnapshot", s)
        /\ (Then(t, << <<"assign", s>>, <<"use", s>> >>) \/ Then(t, <<>>))
    BY <1>19 DEF RetrieveSnapshot
  <2>1. CASE Then(t, <<>>)
    <3>1. PICK n \in Nat : Turns(t, n, "retrieveSnapshot", s) /\ Nothing(t, n)
      BY <2>0, <2>1, ThenPuts
    <3>2. Passes(t, n, "retrieveSnapshot", s)
      BY <1>0, <1>19, <2>1, <3>1 DEF RetrieveSnapshot, Passes, SameState
    <3>. QED BY <3>2 DEF Turn
  <2>2. CASE Then(t, << <<"assign", s>>, <<"use", s>> >>)
    <3>1. PICK n \in Nat : Turns(t, n, "retrieveSnapshot", s) /\ OnlyTwo(t, n, "assign", s, "use", s)
      <4>1. "assign" \in Operations /\ "use" \in Operations /\ s \in Handles
        OBVIOUS
      <4>. HIDE DEF Operations
      <4>. QED BY <2>0, <2>2, <4>1, ThenPutsTwo
    <3>2. Reads(t, n, s)
      BY <1>0, <1>19, <2>2, <3>1 DEF RetrieveSnapshot, Reads, SameState
    <3>3. s \in Handles
      OBVIOUS
    <3>. QED BY <3>2, <3>3 DEF Turn
  <2>. QED BY <2>0, <2>1, <2>2
<1>20. ASSUME NEW o \in Objects, AssignBriefly(t, o) PROVE Turn(t)
  <2>1. PICK n \in Nat : Turns(t, n, "assign", o) /\ OnlyOne(t, n, "refDec", o)
    BY <1>20, ThenPuts DEF AssignBriefly
  <2>2. Retrieves(t, n, o)
    BY <1>0, <1>20, <2>1 DEF AssignBriefly, Retrieves
  <2>. QED BY <2>2 DEF Turn
<1>18. ASSUME DeleteDb(t) PROVE Turn(t)
  <2>1. PICK n \in Nat : Turns(t, n, "deleteDb", Db) /\ Nothing(t, n)
    BY <1>18, ThenPuts DEF DeleteDb
  <2>2. Deletes(t, n)
    BY <1>0, <1>18, <2>1 DEF DeleteDb, Deletes
  <2>. QED BY <2>2 DEF Turn
<1>. QED BY <1>1, <1>2, <1>3, <1>4, <1>5, <1>6, <1>7, <1>8, <1>9, <1>10, <1>11, <1>12, <1>13,
            <1>14, <1>15, <1>16, <1>17, <1>18, <1>19, <1>20 DEF Step, Lists

\* A call that starts with one entry.
LEMMA CallPutsOne ==
  ASSUME Types, NEW t \in Threads, NEW e \in Seq(Entries), Len(e) = 1,
         todo[t] = <<>>, todo' = [todo EXCEPT ![t] = e]
  PROVE  \A d \in Nat : \A o, g : On(t, d, o, g)' <=> (d = 0 /\ e[1] = <<o, g>>)
<1>1. Puts(t, 0, e)
  BY CallStack
<1>. SUFFICES ASSUME NEW d \in Nat, NEW o, NEW g
              PROVE  On(t, d, o, g)' <=> (d = 0 /\ e[1] = <<o, g>>)
  OBVIOUS
<1>2. On(t, d, o, g)' <=> Lies(0, e, d, o, g)
  BY <1>1 DEF Puts
<1>3. 0 \in Nat /\ d >= 0
  OBVIOUS
<1>. QED BY <1>2, <1>3, LiesIs

\* A call that starts with some entries more.
LEMMA CallPuts ==
  ASSUME Types, NEW t \in Threads, NEW e \in Seq(Entries),
         todo[t] = <<>>, todo' = [todo EXCEPT ![t] = e]
  PROVE  /\ Begins(t)
         /\ Len(e) = 2 => \A d \in Nat : \A o, g : On(t, d, o, g)' <=>
                              \/ d = 1 /\ e[1] = <<o, g>>
                              \/ d = 0 /\ e[2] = <<o, g>>
         /\ Len(e) = 3 => \A d \in Nat : \A o, g : On(t, d, o, g)' <=>
                              \/ d = 2 /\ e[1] = <<o, g>>
                              \/ d = 1 /\ e[2] = <<o, g>>
                              \/ d = 0 /\ e[3] = <<o, g>>
         /\ Len(e) = 4 => \A d \in Nat : \A o, g : On(t, d, o, g)' <=>
                              \/ d = 3 /\ e[1] = <<o, g>>
                              \/ d = 2 /\ e[2] = <<o, g>>
                              \/ d = 1 /\ e[3] = <<o, g>>
                              \/ d = 0 /\ e[4] = <<o, g>>
         /\ Len(e) = 6 => \A d \in Nat : \A o, g : On(t, d, o, g)' <=>
                              \/ d = 5 /\ e[1] = <<o, g>>
                              \/ d = 4 /\ e[2] = <<o, g>>
                              \/ d = 3 /\ e[3] = <<o, g>>
                              \/ d = 2 /\ e[4] = <<o, g>>
                              \/ d = 1 /\ e[5] = <<o, g>>
                              \/ d = 0 /\ e[6] = <<o, g>>
<1>1. Begins(t) /\ Puts(t, 0, e)
  BY CallStack DEF Begins
<1>2. ASSUME NEW d \in Nat, NEW o, NEW g
      PROVE  /\ On(t, d, o, g)' <=> Lies(0, e, d, o, g)
             /\ Len(e) = 2 => (Lies(0, e, d, o, g) <=> \/ d = 1 /\ e[1] = <<o, g>>
                                                       \/ d = 0 /\ e[2] = <<o, g>>)
             /\ Len(e) = 3 => (Lies(0, e, d, o, g) <=> \/ d = 2 /\ e[1] = <<o, g>>
                                                       \/ d = 1 /\ e[2] = <<o, g>>
                                                       \/ d = 0 /\ e[3] = <<o, g>>)
             /\ Len(e) = 4 => (Lies(0, e, d, o, g) <=> \/ d = 3 /\ e[1] = <<o, g>>
                                                       \/ d = 2 /\ e[2] = <<o, g>>
                                                       \/ d = 1 /\ e[3] = <<o, g>>
                                                       \/ d = 0 /\ e[4] = <<o, g>>)
             /\ Len(e) = 6 => (Lies(0, e, d, o, g) <=> \/ d = 5 /\ e[1] = <<o, g>>
                                                       \/ d = 4 /\ e[2] = <<o, g>>
                                                       \/ d = 3 /\ e[3] = <<o, g>>
                                                       \/ d = 2 /\ e[4] = <<o, g>>
                                                       \/ d = 1 /\ e[5] = <<o, g>>
                                                       \/ d = 0 /\ e[6] = <<o, g>>)
  <2>1. On(t, d, o, g)' <=> Lies(0, e, d, o, g)
    BY <1>1 DEF Puts
  <2>2. 0 \in Nat /\ d >= 0 /\ \A k \in Nat : 0 + k = k
    OBVIOUS
  <2>. QED BY <2>1, <2>2, LiesIs
<1>. QED BY <1>1, <1>2

\* A call without a reference keeps the terms of the handles it has.
LEMMA CallIs ==
  ASSUME Types, NEW t \in Threads, NEW hs, NEW e, Call(t, hs, e), UNCHANGED terms
  PROVE  /\ todo[t] = <<>> /\ todo' = [todo EXCEPT ![t] = e]
         /\ hs \subseteq Names /\ Names' \subseteq Names /\ Lateness
<1>1. /\ todo[t] = <<>> /\ todo' = [todo EXCEPT ![t] = e] /\ hs \subseteq terms
      /\ args' = [args EXCEPT ![t] = hs] /\ late' = late
  BY DEF Call, Idle
<1>2. \A u \in Threads : args'[u] = IF u = t THEN hs ELSE args[u]
  BY <1>1 DEF Types
<1>3. Names' \subseteq Names /\ hs \subseteq Names
  BY <1>1, <1>2 DEF Names
<1>4. Lateness
  BY <1>1 DEF Lateness
<1>. QED BY <1>1, <1>3, <1>4

\* Every kind of call.
Beginning(t) == \E h \in Handles : \/ Borrows(t, h) \/ ReadsSnapshot(t, h) \/ Creating(t, h)
                                   \/ Requests(t, h) \/ Collects(t, h)

\* What a NIF does when it takes its reference, whatever its work is.
LEMMA AssignIs ==
  ASSUME Types, NEW t \in Threads, NEW h \in Handles, NEW work \in Seq(Entries),
         Assign(t, h, work)
  PROVE  /\ todo[t] = <<>> /\ todo' = [todo EXCEPT ![t] = work \o << <<"refDec", h>> >>]
         /\ h \in Names /\ args[t] \subseteq Names /\ Names' \subseteq Names /\ Lateness
         /\ closeReq[h] >= 2 \/ h \in late => t \in late'
         /\ refs' = [refs EXCEPT ![h] = @ + 1]
         /\ UNCHANGED <<life, closeReq, linked, mDb>>
<1>1. /\ retrieved[t] = {h} /\ todo' = [todo EXCEPT ![t] = work \o << <<"refDec", h>> >>]
      /\ late' = IF closeReq[h] >= 2 \/ h \in late THEN late \cup {t} ELSE late
      /\ refs' = [refs EXCEPT ![h] = @ + 1]
      /\ UNCHANGED <<life, terms, closeReq, linked, mDb, args>>
  BY DEF Assign
<1>2. todo[t] = <<>> /\ h \in args[t]
  BY <1>1 DEF Types, Retrieval
<1>3. args[t] \subseteq Names /\ Names' = Names
  BY <1>1 DEF Names
<1>4. t \notin Objects
  BY KindsAreDistinct DEF Handles
<1>5. late \subseteq late' /\ late' \subseteq late \cup {t} /\ (closeReq[h] >= 2 \/ h \in late => t \in late')
  BY <1>1
<1>6. Lateness
  BY <1>4, <1>5 DEF Lateness
<1>. QED BY <1>1, <1>2, <1>3, <1>5, <1>6

\* A NIF that borrows one handle.
LEMMA BorrowIs ==
  ASSUME Types, NEW t \in Threads, NEW h \in Handles,
         \/ Assign(t, h, <<>>)
         \/ \E op \in {"use", "drop"} : Assign(t, h, << <<op, h>> >>)
         \/ Assign(t, h, << <<"release", h>>, <<"initiate", h>> >>)
  PROVE  Borrows(t, h)
<1>0. <<"refDec", h>> \in Entries
  BY DEF Entries, Operations
<1>1. CASE Assign(t, h, <<>>)
  <2>. DEFINE e == << <<"refDec", h>> >>
  <2>1. << >> \in Seq(Entries) /\ << >> \o e = e /\ e \in Seq(Entries)
        /\ Len(e) = 1 /\ e[1] = <<"refDec", h>>
    BY <1>0, ShortJoins
  <2>. HIDE DEF e
  <2>2. todo[t] = <<>> /\ todo' = [todo EXCEPT ![t] = e]
    <3>1. todo' = [todo EXCEPT ![t] = << >> \o << <<"refDec", h>> >>] /\ todo[t] = <<>>
      BY <1>1, <2>1, AssignIs
    <3>. QED BY <2>1, <3>1 DEF e
  <2>3. Begins(t)
    BY <2>1, <2>2, CallPuts
  <2>4. \A d \in Nat : \A o, g : On(t, d, o, g)' <=> (d = 0 /\ e[1] = <<o, g>>)
    <3>1. e \in Seq(Entries) /\ Len(e) = 1 /\ todo[t] = <<>> /\ todo' = [todo EXCEPT ![t] = e]
      BY <2>1, <2>2
    <3>. QED BY <3>1, CallPutsOne
  <2>5. \A d \in Nat : \A o, g : On(t, d, o, g)' <=> g = h /\ d = 0 /\ o = "refDec"
    BY <2>1, <2>4
  <2>9. /\ h \in Names /\ Names' \subseteq Names /\ Lateness
        /\ closeReq[h] >= 2 \/ h \in late => t \in late'
        /\ refs' = [refs EXCEPT ![h] = @ + 1]
        /\ UNCHANGED <<life, closeReq, linked, mDb>>
    BY <1>1, <2>1, AssignIs
  <2>. QED BY <2>3, <2>5, <2>9 DEF Borrows
<1>2. ASSUME NEW op \in {"use", "drop"}, Assign(t, h, << <<op, h>> >>)
      PROVE  Borrows(t, h)
  <2>. DEFINE w == << <<op, h>> >>  e == << <<op, h>>, <<"refDec", h>> >>
  <2>1. /\ <<op, h>> \in Entries /\ w \in Seq(Entries) /\ e \in Seq(Entries)
        /\ Len(e) = 2 /\ e[1] = <<op, h>> /\ e[2] = <<"refDec", h>>
    BY <1>0 DEF Entries, Operations
  <2>2. w \o << <<"refDec", h>> >> = e
    BY <1>0, <2>1, ShortJoins
  <2>3. Assign(t, h, w)
    BY <1>2
  <2>. HIDE DEF w, e
  <2>4. todo[t] = <<>> /\ todo' = [todo EXCEPT ![t] = e]
    BY <2>1, <2>2, <2>3, AssignIs
  <2>5. Begins(t)
    BY <2>1, <2>4, CallPuts
  <2>6. \A d \in Nat : \A o, g : On(t, d, o, g)' <=>
           \/ d = 1 /\ e[1] = <<o, g>>
           \/ d = 0 /\ e[2] = <<o, g>>
    BY <2>1, <2>4, CallPuts
  <2>7. \A d \in Nat : \A o, g : On(t, d, o, g)' <=>
           g = h /\ \/ d = 1 /\ o = op
                    \/ d = 0 /\ o = "refDec"
    <3>1. \A o, g : /\ e[1] = <<o, g>> <=> (o = op /\ g = h)
                    /\ e[2] = <<o, g>> <=> (o = "refDec" /\ g = h)
      BY <2>1
    <3>. QED BY <2>6, <3>1
  <2>9. /\ h \in Names /\ Names' \subseteq Names /\ Lateness
        /\ closeReq[h] >= 2 \/ h \in late => t \in late'
        /\ refs' = [refs EXCEPT ![h] = @ + 1]
        /\ UNCHANGED <<life, closeReq, linked, mDb>>
    BY <2>1, <2>3, AssignIs
  <2>. QED BY <2>5, <2>7, <2>9 DEF Borrows
<1>3. CASE Assign(t, h, << <<"release", h>>, <<"initiate", h>> >>)
  <2>. DEFINE w == << <<"release", h>>, <<"initiate", h>> >>
              e == << <<"release", h>>, <<"initiate", h>>, <<"refDec", h>> >>
  <2>1. /\ <<"release", h>> \in Entries /\ <<"initiate", h>> \in Entries
        /\ w \in Seq(Entries) /\ e \in Seq(Entries)
        /\ Len(e) = 3 /\ e[1] = <<"release", h>> /\ e[2] = <<"initiate", h>>
        /\ e[3] = <<"refDec", h>>
    BY <1>0 DEF Entries, Operations
  <2>2. w \o << <<"refDec", h>> >> = e
    <3>1. \A a, b, c \in Entries : <<a, b>> \o <<c>> = <<a, b, c>>
      BY ShortJoins
    <3>. QED BY <1>0, <2>1, <3>1
  <2>3. Assign(t, h, w)
    BY <1>3
  <2>. HIDE DEF w, e
  <2>4. todo[t] = <<>> /\ todo' = [todo EXCEPT ![t] = e]
    BY <2>1, <2>2, <2>3, AssignIs
  <2>5. Begins(t)
    BY <2>1, <2>4, CallPuts
  <2>6. \A d \in Nat : \A o, g : On(t, d, o, g)' <=>
           \/ d = 2 /\ e[1] = <<o, g>>
           \/ d = 1 /\ e[2] = <<o, g>>
           \/ d = 0 /\ e[3] = <<o, g>>
    BY <2>1, <2>4, CallPuts
  <2>7. \A d \in Nat : \A o, g : On(t, d, o, g)' <=>
           g = h /\ \/ d = 2 /\ o = "release"
                    \/ d = 1 /\ o = "initiate"
                    \/ d = 0 /\ o = "refDec"
    BY <2>1, <2>6
  <2>9. /\ h \in Names /\ Names' \subseteq Names /\ Lateness
        /\ closeReq[h] >= 2 \/ h \in late => t \in late'
        /\ refs' = [refs EXCEPT ![h] = @ + 1]
        /\ UNCHANGED <<life, closeReq, linked, mDb>>
    BY <2>1, <2>3, AssignIs
  <2>. QED BY <2>5, <2>7, <2>9 DEF Borrows
<1>. QED BY <1>1, <1>2, <1>3

\* A read through a snapshot.
LEMMA ReadSnapshotIs ==
  ASSUME Types, NEW t \in Threads, NEW s \in Snaps, ReadSnapshot(t, s)
  PROVE  ReadsSnapshot(t, s)
<1>. DEFINE w == << <<"retrieveSnapshot", s>> >>
            e == << <<"retrieveSnapshot", s>>, <<"refDec", Db>> >>
<1>0. <<"retrieveSnapshot", s>> \in Entries /\ <<"refDec", Db>> \in Entries /\ Db \in Handles
  BY DEF Entries, Operations, Handles, Objects
<1>1. /\ w \in Seq(Entries) /\ e \in Seq(Entries) /\ w \o << <<"refDec", Db>> >> = e
      /\ Len(e) = 2 /\ e[1] = <<"retrieveSnapshot", s>> /\ e[2] = <<"refDec", Db>>
  BY <1>0, ShortJoins
<1>2. s \in args[t] /\ Assign(t, Db, w)
  BY DEF ReadSnapshot, AssignDb
<1>. HIDE DEF w, e
<1>3. todo[t] = <<>> /\ todo' = [todo EXCEPT ![t] = e]
  BY <1>0, <1>1, <1>2, AssignIs
<1>4. Begins(t)
  BY <1>1, <1>3, CallPuts
<1>5. \A d \in Nat : \A o, g : On(t, d, o, g)' <=>
         \/ d = 1 /\ e[1] = <<o, g>>
         \/ d = 0 /\ e[2] = <<o, g>>
  BY <1>1, <1>3, CallPuts
<1>6. \A d \in Nat : \A o, g : On(t, d, o, g)' <=>
         \/ d = 1 /\ o = "retrieveSnapshot" /\ g = s
         \/ d = 0 /\ o = "refDec" /\ g = Db
  BY <1>1, <1>5
<1>7. s \in Names
  BY <1>0, <1>1, <1>2, AssignIs
<1>. QED BY <1>0, <1>1, <1>2, <1>4, <1>6, <1>7, AssignIs DEF ReadsSnapshot

\* A NIF that creates an object.
LEMMA CreateIs ==
  ASSUME Types, NEW t \in Threads, NEW i \in Objects,
         (OnCf(i) /\ Iterators(t, i)) \/ (~OnCf(i) /\ CreateAlone(t, i))
  PROVE  Creating(t, i)
<1>. DEFINE x == <<"construct", i>>  l == <<"link", i>>  m == <<"linkCf", i>>
            r == <<"refInc", i>>  f == <<"refDec", Db>>  v == <<"retrieveCf", CfOf[i]>>
<1>0. i \in Handles /\ Db \in Handles /\ (OnCf(i) => CfOf[i] \in Handles)
  BY CfOfType DEF Handles, Objects, OnCf
<1>1. /\ x \in Entries /\ l \in Entries /\ m \in Entries /\ r \in Entries /\ f \in Entries
      /\ OnCf(i) => v \in Entries
  BY <1>0 DEF Entries, Operations
<1>2. ASSUME NEW e \in Seq(Entries), Create(t, i, e)
      PROVE  /\ life[i] = "absent" /\ todo[t] = <<>>
             /\ \A u \in Threads, d \in Nat : ~On(u, d, "construct", i)
             /\ todo' = [todo EXCEPT ![t] = (e \o <<r>>) \o <<f>>]
             /\ closeReq[Db] >= 2 => t \in late'
             /\ Db \in Names /\ args[t] \subseteq Names
             /\ refs' = [refs EXCEPT ![Db] = @ + 1]
             /\ UNCHANGED <<life, closeReq, linked, mDb>> /\ Names' \subseteq Names /\ Lateness
  <2>1. \A u \in Threads : <<"construct", i>> \notin ToSet(todo[u])
    BY <1>2 DEF Create
  <2>2. \A u \in Threads, d \in Nat : ~On(u, d, "construct", i)
    BY <2>1, PendingIs
  <2>3. Assign(t, Db, e \o <<r>>)
    BY <1>2 DEF Create, AssignDb
  <2>4. e \o <<r>> \in Seq(Entries)
    <3>. HIDE DEF r
    <3>1. <<r>> \in Seq(Entries)
      BY <1>1
    <3>. QED BY <3>1, ConcatProperties
  <2>5. life[i] = "absent"
    BY <1>2 DEF Create
  <2>. QED BY <1>0, <2>2, <2>3, <2>4, <2>5, AssignIs
<1>3. CASE OnCf(i) /\ Iterators(t, i)
  <2>. DEFINE w == <<v, x, l, m>>
              e == <<v, x, l, m, r, f>>
  <2>1. w \in Seq(Entries) /\ (w \o <<r>>) \o <<f>> = e
    <3>. HIDE DEF v, x, l, m, r, f
    <3>1. <<v, x, l, m>> \in Seq(Entries)
      BY <1>1, <1>3
    <3>2. <<v, x, l, m>> \o <<r>> = <<v, x, l, m, r>>
      BY <1>1, <1>3, ShortJoins
    <3>3. <<v, x, l, m, r>> \o <<f>> = <<v, x, l, m, r, f>>
      BY <1>1, <1>3, ShortJoins
    <3>. QED BY <3>1, <3>2, <3>3
  <2>2. CfOf[i] \in args[t] /\ Create(t, i, w)
    BY <1>3 DEF Iterators
  <2>4. /\ e \in Seq(Entries) /\ Len(e) = 6 /\ e[1] = v /\ e[2] = x /\ e[3] = l
        /\ e[4] = m /\ e[5] = r /\ e[6] = f
    <3>. HIDE DEF v, x, l, m, r, f
    <3>. QED BY <1>1, <1>3
  <2>. HIDE DEF w, e
  <2>3. todo[t] = <<>> /\ todo' = [todo EXCEPT ![t] = e] /\ CfOf[i] \in Names
    BY <1>2, <2>1, <2>2
  <2>5. Begins(t)
    BY <2>3, <2>4, CallPuts
  <2>6. \A d \in Nat : \A o, g : On(t, d, o, g)' <=>
           \/ d = 5 /\ e[1] = <<o, g>>
           \/ d = 4 /\ e[2] = <<o, g>>
           \/ d = 3 /\ e[3] = <<o, g>>
           \/ d = 2 /\ e[4] = <<o, g>>
           \/ d = 1 /\ e[5] = <<o, g>>
           \/ d = 0 /\ e[6] = <<o, g>>
    BY <2>3, <2>4, CallPuts
  <2>7. ASSUME NEW d \in Nat, NEW op, NEW g
        PROVE  On(t, d, op, g)' <=>
           \/ d = 0 /\ op = "refDec" /\ g = Db
           \/ op \in Creates /\ g = i /\ d = Below(op, i) /\ (op = "linkCf" => OnCf(i))
           \/ OnCf(i) /\ d = 5 /\ op = "retrieveCf" /\ g = CfOf[i]
    <3>1. On(t, d, op, g)' <=> \/ d = 5 /\ op = "retrieveCf" /\ g = CfOf[i]
                               \/ d = 4 /\ op = "construct" /\ g = i
                               \/ d = 3 /\ op = "link" /\ g = i
                               \/ d = 2 /\ op = "linkCf" /\ g = i
                               \/ d = 1 /\ op = "refInc" /\ g = i
                               \/ d = 0 /\ op = "refDec" /\ g = Db
      BY <2>4, <2>6
    <3>2. /\ Below("refInc", i) = 1 /\ Below("linkCf", i) = 2
          /\ Below("link", i) = 3 /\ Below("construct", i) = 4
      BY <1>3 DEF Below
    <3>. QED BY <1>3, <3>1, <3>2 DEF Creates
  <2>8. /\ \A u \in Threads, d \in Nat : ~On(u, d, "construct", i)
        /\ refs' = [refs EXCEPT ![Db] = @ + 1] /\ Db \in Names
        /\ UNCHANGED <<life, closeReq, linked, mDb>> /\ Names' \subseteq Names /\ Lateness
    BY <1>2, <2>1, <2>2
  <2>9. life[i] = "absent" /\ (closeReq[Db] >= 2 => t \in late')
    BY <1>2, <2>1, <2>2
  <2>. QED BY <2>3, <2>5, <2>7, <2>8, <2>9 DEF Creating
<1>4. CASE ~OnCf(i) /\ CreateAlone(t, i)
  <2>. DEFINE w == <<x, l>>
              e == <<x, l, r, f>>
  <2>1. w \in Seq(Entries) /\ (w \o <<r>>) \o <<f>> = e
    <3>. HIDE DEF x, l, r, f
    <3>1. <<x, l>> \in Seq(Entries)
      BY <1>1
    <3>2. <<x, l>> \o <<r>> = <<x, l, r>>
      BY <1>1, ShortJoins
    <3>3. <<x, l, r>> \o <<f>> = <<x, l, r, f>>
      BY <1>1, ShortJoins
    <3>. QED BY <3>1, <3>2, <3>3
  <2>2. Create(t, i, w)
    BY <1>4 DEF CreateAlone
  <2>4. /\ e \in Seq(Entries) /\ Len(e) = 4 /\ e[1] = x /\ e[2] = l /\ e[3] = r /\ e[4] = f
    <3>. HIDE DEF x, l, r, f
    <3>. QED BY <1>1
  <2>. HIDE DEF w, e
  <2>3. todo[t] = <<>> /\ todo' = [todo EXCEPT ![t] = e]
    BY <1>2, <2>1, <2>2
  <2>5. Begins(t)
    BY <2>3, <2>4, CallPuts
  <2>6. \A d \in Nat : \A o, g : On(t, d, o, g)' <=>
           \/ d = 3 /\ e[1] = <<o, g>>
           \/ d = 2 /\ e[2] = <<o, g>>
           \/ d = 1 /\ e[3] = <<o, g>>
           \/ d = 0 /\ e[4] = <<o, g>>
    BY <2>3, <2>4, CallPuts
  <2>7. ASSUME NEW d \in Nat, NEW op, NEW g
        PROVE  On(t, d, op, g)' <=>
           \/ d = 0 /\ op = "refDec" /\ g = Db
           \/ op \in Creates /\ g = i /\ d = Below(op, i) /\ (op = "linkCf" => OnCf(i))
           \/ OnCf(i) /\ d = 5 /\ op = "retrieveCf" /\ g = CfOf[i]
    <3>1. On(t, d, op, g)' <=> \/ d = 3 /\ op = "construct" /\ g = i
                               \/ d = 2 /\ op = "link" /\ g = i
                               \/ d = 1 /\ op = "refInc" /\ g = i
                               \/ d = 0 /\ op = "refDec" /\ g = Db
      BY <2>4, <2>6
    <3>2. Below("refInc", i) = 1 /\ Below("link", i) = 2 /\ Below("construct", i) = 3
      BY <1>4 DEF Below
    <3>. QED BY <1>4, <3>1, <3>2 DEF Creates
  <2>8. /\ \A u \in Threads, d \in Nat : ~On(u, d, "construct", i)
        /\ refs' = [refs EXCEPT ![Db] = @ + 1] /\ Db \in Names
        /\ UNCHANGED <<life, closeReq, linked, mDb>> /\ Names' \subseteq Names /\ Lateness
    BY <1>2, <2>1, <2>2
  <2>9. life[i] = "absent" /\ (closeReq[Db] >= 2 => t \in late')
    BY <1>2, <2>1, <2>2
  <2>. QED BY <1>4, <2>5, <2>7, <2>8, <2>9 DEF Creating
<1>. QED BY <1>3, <1>4

\* The garbage collector.
LEMMA CollectIs ==
  ASSUME Types, NEW t \in Threads, NEW h \in Handles, Collect(t, h)
  PROVE  Collects(t, h)
<1>. DEFINE x == <<"testSnapshot", h>>  i == <<"initiate", h>>  a == <<"await", h>>
<1>1. x \in Entries /\ i \in Entries /\ a \in Entries
  BY DEF Entries, Operations
<1>2. /\ Call(t, {}, (IF h \in Snaps THEN <<x>> ELSE << >>) \o <<i, a>>)
      /\ life[h] = "live" /\ life' = [life EXCEPT ![h] = "collecting"]
      /\ UNCHANGED <<terms, closeReq, refs, linked, mDb>>
  BY DEF Collect
<1>3. \A d \in Nat : \A o, g : On(t, d, o, g)' =>
         g = h /\ o \in {"testSnapshot", "initiate", "await"}
  <2>1. CASE h \in Snaps
    <3>. DEFINE e == <<x>> \o <<i, a>>
    <3>1. e = <<x, i, a>>
      <4>. HIDE DEF x, i, a
      <4>1. <<x>> \in Seq(Entries)
        BY <1>1
      <4>2. e = (<<x>> \o <<i>>) \o <<a>>
        BY <1>1, <4>1, JoinTwo
      <4>3. <<x>> \o <<i>> = <<x, i>> /\ <<x, i>> \o <<a>> = <<x, i, a>>
        BY <1>1, ShortJoins
      <4>. QED BY <4>2, <4>3
    <3>2. todo[t] = <<>> /\ todo' = [todo EXCEPT ![t] = e]
      BY <1>2, <2>1, CallIs
    <3>3. e \in Seq(Entries) /\ Len(e) = 3 /\ e[1] = x /\ e[2] = i /\ e[3] = a
      <4>. HIDE DEF e, x, i, a
      <4>. QED BY <1>1, <3>1
    <3>. HIDE DEF e
    <3>4. \A d \in Nat : \A o, g : On(t, d, o, g)' <=>
             \/ d = 2 /\ e[1] = <<o, g>>
             \/ d = 1 /\ e[2] = <<o, g>>
             \/ d = 0 /\ e[3] = <<o, g>>
      BY <3>2, <3>3, CallPuts
    <3>. QED BY <3>3, <3>4
  <2>2. CASE h \notin Snaps
    <3>. DEFINE e == << >> \o <<i, a>>
    <3>1. e = <<i, a>>
      <4>1. <<i, a>> \in Seq(Entries)
        BY <1>1
      <4>. QED BY <4>1, ConcatEmptySeq
    <3>2. todo[t] = <<>> /\ todo' = [todo EXCEPT ![t] = e]
      BY <1>2, <2>2, CallIs
    <3>3. e \in Seq(Entries) /\ Len(e) = 2 /\ e[1] = i /\ e[2] = a
      <4>. HIDE DEF e, x, i, a
      <4>. QED BY <1>1, <3>1
    <3>. HIDE DEF e
    <3>4. \A d \in Nat : \A o, g : On(t, d, o, g)' <=>
             \/ d = 1 /\ e[1] = <<o, g>>
             \/ d = 0 /\ e[2] = <<o, g>>
      BY <3>2, <3>3, CallPuts
    <3>. QED BY <3>3, <3>4
  <2>. QED BY <2>1, <2>2
<1>4. Begins(t)
  <2>1. (IF h \in Snaps THEN <<x>> ELSE << >>) \o <<i, a>> \in Seq(Entries)
    <3>1. <<i, a>> \in Seq(Entries) /\ (IF h \in Snaps THEN <<x>> ELSE << >>) \in Seq(Entries)
      BY <1>1
    <3>. QED BY <3>1, ConcatProperties
  <2>2. todo[t] = <<>> /\ todo' = [todo EXCEPT ![t] = (IF h \in Snaps THEN <<x>> ELSE << >>) \o <<i, a>>]
    BY <1>2, CallIs
  <2>. QED BY <2>1, <2>2, CallPuts
<1>5. Names' \subseteq Names /\ Lateness
  BY <1>2, CallIs
<1>. QED BY <1>2, <1>3, <1>4, <1>5 DEF Collects

\* A call that begins is of one kind, or has but found its handle open.
LEMMA BeginIs ==
  ASSUME Types, NEW t \in Threads, Begin(t)
  PROVE  Neutral \/ Beginning(t)
<1>0. (\A i \in Itrs : i \in Handles) /\ (\A l \in TLogs : l \in Handles) /\ Db \in Handles
  BY DEF Handles, Objects
<1>1. ASSUME NEW h, NEW hs, Retrieve(t, h, hs) PROVE Neutral
  <2>1. hs \subseteq terms /\ args' = [args EXCEPT ![t] = hs] /\ UNCHANGED terms
    BY <1>1 DEF Retrieve
  <2>2. \A u \in Threads : args'[u] = IF u = t THEN hs ELSE args[u]
    BY <2>1 DEF Types
  <2>3. Names' \subseteq Names
    BY <2>1, <2>2 DEF Names
  <2>. QED BY <1>1, <2>3 DEF Retrieve, Neutral
<1>2. ASSUME NEW h \in Handles, RequestClose(t, h) PROVE Beginning(t)
  <2>. DEFINE e == << <<"initiate", h>> >>
  <2>1. Len(e) = 1 /\ e[1] = <<"initiate", h>> /\ e \in Seq(Entries)
        /\ Call(t, {h}, e) /\ UNCHANGED <<life, terms, closeReq, refs, linked, mDb>>
    BY <1>2 DEF RequestClose, Entries, Operations
  <2>. HIDE DEF e
  <2>2. /\ todo[t] = <<>> /\ todo' = [todo EXCEPT ![t] = e]
        /\ h \in Names /\ Names' \subseteq Names /\ Lateness
    <3>1. {h} \subseteq Names
      BY <2>1, CallIs
    <3>. QED BY <2>1, <3>1, CallIs
  <2>3. Begins(t)
    BY <2>1, <2>2, CallPuts
  <2>4. \A d \in Nat : \A o, g : On(t, d, o, g)' <=> (d = 0 /\ e[1] = <<o, g>>)
    <3>1. e \in Seq(Entries) /\ Len(e) = 1 /\ todo[t] = <<>> /\ todo' = [todo EXCEPT ![t] = e]
      BY <2>1, <2>2
    <3>. QED BY <3>1, CallPutsOne
  <2>5. OnlyOne(t, 0, "initiate", h)
    BY <2>1, <2>4 DEF OnlyOne
  <2>6. Requests(t, h)
    BY <2>1, <2>2, <2>3, <2>5 DEF Requests, SameState
  <2>. QED BY <2>6 DEF Beginning
<1>3. ASSUME NEW h \in Handles, Collect(t, h) PROVE Beginning(t)
  BY <1>3, CollectIs DEF Beginning
<1>. QED BY <1>0, <1>1, <1>2, <1>3
         DEF Begin, RetrieveDbObject, RetrieveDbObjectWith, RetrieveItrObject, RetrieveObject,
             Close, IteratorClose, UpdatesIteratorClose

\* A NIF that takes its reference is of one kind.
LEMMA ReferIs ==
  ASSUME Types, NEW t \in Threads, Refer(t)
  PROVE  Beginning(t)
<1>0. /\ \A o \in Objects : o \in Handles
      /\ \A s \in Snaps : s \in Objects /\ ~OnCf(s)
      /\ \A c \in Cfs : c \in Objects /\ ~OnCf(c)
      /\ \A l \in TLogs : l \in Objects /\ ~OnCf(l)
      /\ \A i \in Itrs : i \in Objects
      /\ Db \in Handles
  BY KindsAreDistinct DEF Handles, Objects, OnCf
<1>1. ASSUME NEW h \in Handles,
             \/ Assign(t, h, <<>>)
             \/ \E op \in {"use", "drop"} : Assign(t, h, << <<op, h>> >>)
             \/ Assign(t, h, << <<"release", h>>, <<"initiate", h>> >>)
      PROVE  Beginning(t)
  BY <1>1, BorrowIs DEF Beginning
<1>2. ASSUME NEW o \in Objects, (OnCf(o) /\ Iterators(t, o)) \/ (~OnCf(o) /\ CreateAlone(t, o))
      PROVE  Beginning(t)
  BY <1>0, <1>2, CreateIs DEF Beginning
<1>3. CASE FailOnDb(t) \/ UseDb(t)
  BY <1>0, <1>1, <1>3 DEF FailOnDb, UseDb, AssignDb
<1>4. ASSUME NEW o \in Objects, Use(t, o) PROVE Beginning(t)
  BY <1>0, <1>1, <1>4 DEF Use
<1>5. ASSUME NEW i \in Itrs, Iterator(t, i) \/ Iterators(t, i) PROVE Beginning(t)
  <2>1. i \in Objects
    BY <1>0
  <2>2. (OnCf(i) /\ Iterators(t, i)) \/ (~OnCf(i) /\ CreateAlone(t, i))
    BY <1>5 DEF Iterator, Iterators
  <2>. QED BY <1>2, <2>1, <2>2
<1>6. ASSUME NEW s \in Snaps, ReadSnapshot(t, s) \/ GetSnapshot(t, s) \/ ReleaseSnapshot(t, s)
      PROVE  Beginning(t)
  <2>1. CASE ReadSnapshot(t, s)
    BY <1>0, <2>1, ReadSnapshotIs DEF Beginning
  <2>2. CASE GetSnapshot(t, s)
    BY <1>0, <1>2, <2>2 DEF GetSnapshot
  <2>3. CASE ReleaseSnapshot(t, s)
    BY <1>0, <1>1, <2>3 DEF ReleaseSnapshot
  <2>. QED BY <1>6, <2>1, <2>2, <2>3
<1>7. ASSUME NEW c \in Cfs, CreateColumnFamily(t, c) \/ DropColumnFamily(t, c) PROVE Beginning(t)
  BY <1>0, <1>1, <1>2, <1>7 DEF CreateColumnFamily, DropColumnFamily
<1>8. ASSUME NEW l \in TLogs, UpdatesIterator(t, l) PROVE Beginning(t)
  BY <1>0, <1>2, <1>8 DEF UpdatesIterator
<1>. QED BY <1>3, <1>4, <1>5, <1>6, <1>7, <1>8 DEF Refer

\* A step of the system is one of a call, or changes nothing but terms.
LEMMA NextIs ==
  ASSUME Types, [Next]_vars
  PROVE  Neutral \/ \E t \in Threads : Turn(t) \/ Beginning(t)
<1>1. ASSUME NEW t \in Threads, Begin(t) PROVE Neutral \/ Beginning(t)
  BY <1>1, BeginIs
<1>2. ASSUME NEW t \in Threads, Step(t) PROVE Neutral \/ Turn(t)
  BY <1>2, StepIs
<1>3. ASSUME NEW t \in Threads, Refer(t) PROVE Beginning(t)
  BY <1>3, ReferIs
<1>4. ASSUME NEW h \in Handles, Forget(h) PROVE Neutral
  BY <1>4 DEF Forget, Neutral, Names
<1>5. CASE Over \/ UNCHANGED vars
  BY <1>5 DEF Over, vars, Neutral, Names
<1>. QED BY <1>1, <1>2, <1>3, <1>4, <1>5 DEF Next

\* Every NIF and every step of one leaves entries to do.
LEMMA TodoTypesStep ==
  ASSUME Types, [Next]_vars
  PROVE  TodoTypes'
<1>0. /\ \A o \in Objects : o \in Handles
      /\ \A w \in Owners : w \in Handles
      /\ \A i \in Itrs : i \in Objects
      /\ \A s \in Snaps : s \in Objects
      /\ \A c \in Cfs : c \in Objects
      /\ \A l \in TLogs : l \in Objects
      /\ Db \in Handles
      /\ \A op \in Operations, h \in Handles : <<op, h>> \in Entries
  BY DEF Handles, Objects, Owners, Entries
<1>1. ASSUME NEW t \in Threads, NEW hs, NEW e, Call(t, hs, e), e \in Seq(Entries) PROVE TodoTypes'
  BY <1>1, CallTypes
<1>2. ASSUME NEW t \in Threads, NEW op, NEW h, NEW e, At(t, op, h), Then(t, e), e \in Seq(Entries)
      PROVE  TodoTypes'
  BY <1>2, ThenTypes
<1>3. UNCHANGED <<todo, args, retrieved, late>> => TodoTypes'
  BY DEF Types, TypeOK, Retrieval, TodoTypes
<1>4. ASSUME NEW t \in Threads, Begin(t) PROVE TodoTypes'
  <2>1. ASSUME NEW h \in Handles, NEW hs, h \in hs, Retrieve(t, h, hs) PROVE TodoTypes'
    BY <2>1, RetrieveTypes
  <2>2. ASSUME NEW h \in Handles, RequestClose(t, h) PROVE TodoTypes'
    <3>1. << <<"initiate", h>> >> \in Seq(Entries)
      BY DEF Entries, Operations
    <3>. QED BY <1>1, <2>2, <3>1 DEF RequestClose
  <2>3. ASSUME NEW h \in Handles, Collect(t, h) PROVE TodoTypes'
    <3>1. << <<"initiate", h>>, <<"await", h>> >> \in Seq(Entries)
          /\ (IF h \in Snaps THEN << <<"testSnapshot", h>> >> ELSE << >>) \in Seq(Entries)
      BY DEF Entries, Operations
    <3>2. (IF h \in Snaps THEN << <<"testSnapshot", h>> >> ELSE << >>)
             \o << <<"initiate", h>>, <<"await", h>> >> \in Seq(Entries)
      BY <3>1, ConcatProperties
    <3>. QED BY <1>1, <2>3, <3>2 DEF Collect
  <2>4. CASE RetrieveDbObject(t) \/ Close(t)
    BY <1>0, <2>1, <2>2, <2>4 DEF RetrieveDbObject, Close
  <2>5. ASSUME NEW i \in Itrs, RetrieveItrObject(t, i) \/ IteratorClose(t, i) PROVE TodoTypes'
    BY <1>0, <2>1, <2>2, <2>5 DEF RetrieveItrObject, IteratorClose
  <2>6. ASSUME NEW o \in Objects, RetrieveDbObjectWith(t, o) \/ RetrieveObject(t, o)
        PROVE  TodoTypes'
    BY <1>0, <2>1, <2>6 DEF RetrieveDbObjectWith, RetrieveObject
  <2>7. ASSUME NEW l \in TLogs, UpdatesIteratorClose(t, l) PROVE TodoTypes'
    BY <1>0, <2>2, <2>7 DEF UpdatesIteratorClose
  <2>. QED BY <1>4, <2>3, <2>4, <2>5, <2>6, <2>7 DEF Begin
<1>8. ASSUME NEW t \in Threads, Refer(t) PROVE TodoTypes'
  <2>1. ASSUME NEW h \in Handles, NEW e \in Seq(Entries), Assign(t, h, e) PROVE TodoTypes'
    BY <2>1, AssignTypes
  <2>2. ASSUME NEW op \in Operations, NEW g \in Handles, NEW h \in Handles,
               Assign(t, h, << <<op, g>> >>)
        PROVE  TodoTypes'
    <3>1. << <<op, g>> >> \in Seq(Entries)
      BY <1>0
    <3>. QED BY <2>1, <2>2, <3>1
  <2>3. ASSUME NEW o \in Objects, NEW e \in Seq(Entries), Create(t, o, e) PROVE TodoTypes'
    <3>1. << <<"refInc", o>> >> \in Seq(Entries)
      BY <1>0 DEF Entries, Operations
    <3>2. e \o << <<"refInc", o>> >> \in Seq(Entries)
      BY <3>1, ConcatProperties
    <3>. QED BY <1>0, <2>1, <2>3, <3>2 DEF Create, AssignDb
  <2>4. ASSUME NEW o \in Objects, CreateAlone(t, o) PROVE TodoTypes'
    <3>1. << <<"construct", o>>, <<"link", o>> >> \in Seq(Entries)
      BY <1>0 DEF Entries, Operations
    <3>. QED BY <2>3, <2>4, <3>1 DEF CreateAlone
  <2>5. ASSUME NEW i \in Itrs, Iterators(t, i) PROVE TodoTypes'
    <3>1. CfOf[i] \in Handles /\ i \in Handles
      BY <1>0, <2>5, CfOfType DEF Iterators, OnCf
    <3>2. << <<"retrieveCf", CfOf[i]>>, <<"construct", i>>, <<"link", i>>, <<"linkCf", i>> >>
            \in Seq(Entries)
      BY <3>1 DEF Entries, Operations
    <3>. QED BY <1>0, <2>3, <2>5, <3>2 DEF Iterators
  <2>6. "use" \in Operations /\ "drop" \in Operations /\ "retrieveSnapshot" \in Operations
    BY DEF Operations
  <2>7. CASE FailOnDb(t) \/ UseDb(t)
    <3>1. << >> \in Seq(Entries)
      OBVIOUS
    <3>. QED BY <1>0, <2>1, <2>2, <2>6, <2>7, <3>1 DEF FailOnDb, UseDb, AssignDb
  <2>8. ASSUME NEW o \in Objects, Use(t, o) PROVE TodoTypes'
    BY <1>0, <2>2, <2>6, <2>8 DEF Use
  <2>9. ASSUME NEW i \in Itrs, Iterator(t, i) \/ Iterators(t, i) PROVE TodoTypes'
    BY <1>0, <2>4, <2>5, <2>9 DEF Iterator
  <2>10. ASSUME NEW s \in Snaps, ReadSnapshot(t, s) \/ GetSnapshot(t, s) \/ ReleaseSnapshot(t, s)
         PROVE  TodoTypes'
    <3>1. s \in Handles /\ Db \in Handles /\ s \in Objects
      BY <1>0
    <3>2. << <<"release", s>>, <<"initiate", s>> >> \in Seq(Entries)
      BY <3>1 DEF Entries, Operations
    <3>3. CASE ReadSnapshot(t, s)
      BY <2>2, <2>6, <3>1, <3>3 DEF ReadSnapshot, AssignDb
    <3>4. CASE GetSnapshot(t, s)
      BY <2>4, <3>1, <3>4 DEF GetSnapshot
    <3>5. CASE ReleaseSnapshot(t, s)
      BY <2>1, <3>1, <3>2, <3>5 DEF ReleaseSnapshot
    <3>. QED BY <2>10, <3>3, <3>4, <3>5
  <2>11. ASSUME NEW c \in Cfs, CreateColumnFamily(t, c) \/ DropColumnFamily(t, c)
         PROVE  TodoTypes'
    BY <1>0, <2>2, <2>4, <2>6, <2>11 DEF CreateColumnFamily, DropColumnFamily
  <2>12. ASSUME NEW l \in TLogs, UpdatesIterator(t, l) PROVE TodoTypes'
    BY <1>0, <2>4, <2>12 DEF UpdatesIterator
  <2>. QED BY <1>8, <2>7, <2>8, <2>9, <2>10, <2>11, <2>12 DEF Refer
<1>5. ASSUME NEW t \in Threads, Step(t) PROVE TodoTypes'
  <2>0. << >> \in Seq(Entries)
    OBVIOUS
  <2>1. ASSUME NEW op, NEW h, At(t, op, h), Then(t, << >>) PROVE TodoTypes'
    BY <1>2, <2>0, <2>1
  <2>2. ASSUME NEW op, NEW h, NEW o1 \in Operations, NEW g1 \in Handles,
               At(t, op, h), Then(t, << <<o1, g1>> >>)
        PROVE  TodoTypes'
    <3>1. << <<o1, g1>> >> \in Seq(Entries)
      BY DEF Entries
    <3>. QED BY <1>2, <2>2, <3>1
  <2>3. ASSUME NEW h \in Handles, Initiate(t, h) PROVE TodoTypes'
    <3>1. ShutdownOf(h) \in Seq(Entries)
      BY ShutdownIs
    <3>. QED BY <1>2, <2>1, <2>3, <3>1 DEF Initiate
  <2>4. ASSUME NEW h \in Handles, RefDec(t, h) PROVE TodoTypes'
    <3>1. DestructorOf(h) \in Seq(Entries)
      BY DestructorIs
    <3>. QED BY <1>2, <2>1, <2>4, <3>1 DEF RefDec
  <2>5. ASSUME NEW h \in Handles, UseHandle(t, h) \/ Done(t, h) \/ Await(t, h) \/ TouchGone(t, h)
        PROVE  TodoTypes'
    BY <1>3, <2>1, <2>5 DEF UseHandle, Done, Await, TouchGone
  <2>6. ASSUME NEW o \in Objects, \/ Construct(t, o) \/ Link(t, o) \/ LinkCf(t, o)
                                  \/ RefInc(t, o) \/ Unlink(t, o) \/ UnlinkCf(t, o)
                                  \/ AssignBriefly(t, o)
        PROVE  TodoTypes'
    <3>1. CASE Construct(t, o)
      <4>1. At(t, "construct", o) /\ Go(t, << >>) /\ late' \subseteq late \cup Objects
        BY <3>1 DEF Construct
      <4>. QED BY <2>0, <4>1, GoTypes
    <3>2. CASE AssignBriefly(t, o)
      <4>1. "refDec" \in Operations /\ o \in Handles
        BY <1>0 DEF Operations
      <4>. QED BY <2>2, <3>2, <4>1 DEF AssignBriefly
    <3>3. CASE \/ Link(t, o) \/ LinkCf(t, o) \/ RefInc(t, o) \/ Unlink(t, o) \/ UnlinkCf(t, o)
      BY <2>1, <3>3 DEF Link, LinkCf, RefInc, Unlink, UnlinkCf
    <3>. QED BY <2>6, <3>1, <3>2, <3>3
  <2>7. ASSUME NEW w \in Owners, NEW list \in Lists, Drain(t, list, w) PROVE TodoTypes'
    <3>0. At(t, list, w)
      BY <2>7 DEF Drain
    <3>1. ASSUME NEW o \in linked[w] \cap Kind(list), Then(t, << <<"initiate", o>>, <<list, w>> >>)
          PROVE  TodoTypes'
      <4>1. o \in Handles /\ w \in Handles
        BY <1>0, <3>1 DEF Types, TypeOK
      <4>2. << <<"initiate", o>>, <<list, w>> >> \in Seq(Entries)
        BY <4>1 DEF Entries, Operations, Lists
      <4>. QED BY <1>2, <3>0, <3>1, <4>2
    <3>. QED BY <2>1, <2>7, <3>0, <3>1 DEF Drain
  <2>8. ASSUME NEW s \in Snaps, Release(t, s) PROVE TodoTypes'
    BY <1>3, <2>1, <2>8 DEF Release
  <2>9. ASSUME NEW s \in Snaps, TestSnapshot(t, s) PROVE TodoTypes'
    <3>1. s \in Handles /\ "release" \in Operations
      BY <1>0 DEF Operations
    <3>2. Then(t, << <<"release", s>> >>) \/ Then(t, <<>>)
      BY <2>9 DEF TestSnapshot
    <3>. QED BY <2>1, <2>2, <2>9, <3>1, <3>2 DEF TestSnapshot
  <2>10. ASSUME NEW c \in Cfs, Drop(t, c) \/ RetrieveCf(t, c) PROVE TodoTypes'
    <3>1. c \in Handles /\ "initiate" \in Operations /\ "assign" \in Operations
      BY <1>0 DEF Operations
    <3>. QED BY <1>3, <2>1, <2>2, <2>10, <3>1 DEF Drop, RetrieveCf
  <2>11. ASSUME DeleteDb(t) PROVE TodoTypes'
    BY <2>1, <2>11 DEF DeleteDb
  <2>12. ASSUME NEW s \in Snaps, RetrieveSnapshot(t, s) PROVE TodoTypes'
    <3>1. s \in Handles
      BY <1>0
    <3>2. << <<"assign", s>>, <<"use", s>> >> \in Seq(Entries)
      BY <3>1 DEF Entries, Operations
    <3>3. At(t, "retrieveSnapshot", s)
          /\ (Then(t, << <<"assign", s>>, <<"use", s>> >>) \/ Then(t, <<>>))
      BY <2>12 DEF RetrieveSnapshot
    <3>. QED BY <1>2, <2>1, <3>2, <3>3
  <2>. QED BY <1>5, <2>3, <2>4, <2>5, <2>6, <2>7, <2>8, <2>9, <2>10, <2>11, <2>12 DEF Step, Lists
<1>6. ASSUME NEW h \in Handles, Forget(h) PROVE TodoTypes'
  BY <1>3, <1>6 DEF Forget
<1>7. CASE Over \/ UNCHANGED vars
  BY <1>3, <1>7 DEF Over, vars
<1>. QED BY <1>4, <1>5, <1>6, <1>7, <1>8 DEF Next

\* The types are kept.
LEMMA TypesStep ==
  ASSUME Types, [Next]_vars
  PROVE  Types'
BY TypesHalves, StateTypesStep, TodoTypesStep, TypesHalvesAfter

\* The state before any call has its types.
LEMMA TypesAtStart == Init => Types
<1>. SUFFICES ASSUME Init PROVE Types
  OBVIOUS
<1>0. /\ IsFiniteSet(Existing) /\ Existing \subseteq Objects
      /\ Db \in Handles /\ \A o \in Objects : o \in Handles
      /\ \A w \in Owners : w = Db \/ w \in Cfs
      /\ \A i \in Itrs : i \in Objects
  BY ExistingType, SetsAreFinite, FS_Subset DEF Handles, Objects, Owners
<1>1. refs \in [Handles -> Int]
  <2>1. Cardinality(Existing) \in Nat
    BY <1>0, FS_CardinalityType
  <2>2. ASSUME NEW h PROVE Cardinality({i \in Itrs \cap Existing : CfOf[i] = h}) \in Nat
    <3>1. {i \in Itrs \cap Existing : CfOf[i] = h} \subseteq Existing
      OBVIOUS
    <3>. QED BY <1>0, <3>1, FS_Subset, FS_CardinalityType
  <2>3. ASSUME NEW h \in Handles
        PROVE  (IF h = Db THEN 1 + Cardinality(Existing)
                 ELSE IF h \in Cfs \cap Existing
                      THEN 1 + Cardinality({i \in Itrs \cap Existing : CfOf[i] = h})
                 ELSE IF h \in Existing THEN 1 ELSE 0) \in Int
    BY <2>1, <2>2
  <2>. QED BY <2>3 DEF Init
<1>2. linked \in [Owners -> SUBSET Objects]
  BY <1>0 DEF Init
<1>3. StateTypes
  <2>1. life \in [Handles -> {"absent", "live", "collecting", "freed"}]
    BY DEF Init
  <2>2. terms \subseteq Handles /\ closeReq \in [Handles -> 0..3] /\ dropped \subseteq Cfs
    BY <1>0 DEF Init
  <2>3. mDb \in {"open", "deleted"} /\ released \in [Snaps -> 0..2]
    BY DEF Init
  <2>4. crashed \in BOOLEAN
    BY DEF Init
  <2>. QED BY <1>1, <1>2, <2>1, <2>2, <2>3, <2>4 DEF StateTypes
<1>4. TodoTypes
  BY DEF Init, TodoTypes, Retrieval
<1>. QED BY <1>3, <1>4, TypesHalves
-----------------------------------------------------------------------------
(* What every step and every call leaves of the stacks *)

\* A step of a call changes its thread's stack from its own entry up.
LEMMA TurnStack ==
  ASSUME Types, NEW t, NEW n, NEW op, NEW h, Turns(t, n, op, h)
  PROVE  /\ t \in Threads /\ n \in Nat /\ op \in Operations /\ h \in Handles /\ On(t, n, op, h)
         /\ \A u \in Threads, d \in Nat : \A o, g : On(u, d, o, g)' =>
               (On(u, d, o, g) /\ (u # t \/ d < n)) \/ (u = t /\ d >= n)
         /\ \A u \in Threads, d \in Nat : \A o, g : On(u, d, o, g) =>
               (On(u, d, o, g)' /\ (u # t \/ d < n)) \/ (u = t /\ d = n /\ o = op /\ g = h)
<1>1. t \in Threads /\ n \in Nat /\ Top(t, n, op, h) /\ Rest(t, n)
  BY DEF Turns
<1>2. /\ On(t, n, op, h) /\ op \in Operations /\ h \in Handles
      /\ \A d \in Nat : \A o, g : On(t, d, o, g) => d < n \/ (d = n /\ o = op /\ g = h)
  BY <1>1, TopIs
<1>3. \A u \in Threads, d \in Nat : \A o, g : u # t \/ d < n => (On(u, d, o, g)' <=> On(u, d, o, g))
  BY <1>1 DEF Rest
<1>4. ASSUME NEW u \in Threads, NEW d \in Nat, NEW o, NEW g, On(u, d, o, g)'
      PROVE  (On(u, d, o, g) /\ (u # t \/ d < n)) \/ (u = t /\ d >= n)
  BY <1>1, <1>3, <1>4
<1>5. ASSUME NEW u \in Threads, NEW d \in Nat, NEW o, NEW g, On(u, d, o, g)
      PROVE  (On(u, d, o, g)' /\ (u # t \/ d < n)) \/ (u = t /\ d = n /\ o = op /\ g = h)
  <2>1. CASE u # t
    BY <1>3, <1>5, <2>1
  <2>2. CASE u = t
    <3>1. d < n \/ (d = n /\ o = op /\ g = h)
      BY <1>2, <1>5, <2>2
    <3>. QED BY <1>3, <1>5, <2>2, <3>1
  <2>. QED BY <2>1, <2>2
<1>. QED BY <1>1, <1>2, <1>4, <1>5

\* A call leaves the stacks of the others alone, and its own was empty.
LEMMA BeginStack ==
  ASSUME NEW t, Begins(t)
  PROVE  /\ t \in Threads
         /\ \A u \in Threads, d \in Nat : \A o, g : On(u, d, o, g)' =>
               (On(u, d, o, g) /\ u # t) \/ u = t
         /\ \A u \in Threads, d \in Nat : \A o, g : On(u, d, o, g) => On(u, d, o, g)' /\ u # t
BY DEF Begins, Rest

\* What is no step of a call leaves all stacks alone.
LEMMA NeutralStack ==
  ASSUME Neutral
  PROVE  \A u, d, o, g : On(u, d, o, g)' <=> On(u, d, o, g)
BY DEF Neutral, On

-----------------------------------------------------------------------------
(* Creation *)

\* Nobody starts to create, and no creation loses an entry it needs.
LEMMA CreationKept ==
  ASSUME Creation,
         \A u \in Threads, d \in Nat, o \in Handles : \A op \in Creates :
            On(u, d, op, o)' => On(u, d, op, o),
         \A u \in Threads, o \in Objects : On(u, 1, "refInc", o) /\ On(u, 1, "refInc", o)' =>
            /\ On(u, 0, "refDec", Db)'
            /\ life'[o] # "absent" <=>
                 life[o] # "absent" \/ (/\ On(u, Below("construct", o), "construct", o)
                                        /\ ~On(u, Below("construct", o), "construct", o)'),
         \A u \in Threads, o \in Objects : \A op \in Creates :
            On(u, 1, "refInc", o) /\ On(u, Below(op, o), op, o)' => On(u, 1, "refInc", o)'
  PROVE  Creation'
<1>. "refInc" \in Creates /\ "construct" \in Creates /\ \A o \in Objects : o \in Handles
  BY DEF Creates, Handles
<1>0. \A o \in Objects : Below("construct", o) \in Nat /\ Below("refInc", o) = 1
  BY DEF Below
<1>1. ASSUME NEW u \in Threads, NEW d \in Nat, NEW o \in Handles, NEW op \in Creates, On(u, d, op, o)'
      PROVE  /\ o \in Objects /\ d = Below(op, o)
             /\ On(u, 1, "refInc", o)' /\ On(u, 0, "refDec", Db)'
             /\ op = "linkCf" => OnCf(o)
  <2>1. On(u, d, op, o)
    BY <1>1
  <2>2. /\ o \in Objects /\ d = Below(op, o) /\ On(u, 1, "refInc", o)
        /\ op = "linkCf" => OnCf(o)
    BY <2>1 DEF Creation
  <2>3. On(u, 1, "refInc", o)'
    BY <1>1, <2>2
  <2>. QED BY <2>2, <2>3
<1>2. ASSUME NEW u \in Threads, NEW o \in Objects, On(u, 1, "refInc", o)'
      PROVE  life'[o] = "absent" <=> On(u, Below("construct", o), "construct", o)'
  <2>. DEFINE here == On(u, Below("construct", o), "construct", o)
              there == On(u, Below("construct", o), "construct", o)'
  <2>1. On(u, 1, "refInc", o)
    BY <1>2
  <2>2. life[o] = "absent" <=> here
    BY <2>1 DEF Creation
  <2>3. there => here
    BY <1>0
  <2>4. life'[o] # "absent" <=> life[o] # "absent" \/ (here /\ ~there)
    BY <1>2, <2>1
  <2>. QED BY <2>2, <2>3, <2>4
<1>3. ASSUME NEW t \in Threads, NEW u \in Threads, NEW o \in Objects,
             On(t, 1, "refInc", o)', On(u, 1, "refInc", o)'
      PROVE  t = u
  <2>1. On(t, 1, "refInc", o) /\ On(u, 1, "refInc", o)
    BY <1>3
  <2>. QED BY <2>1 DEF Creation
<1>. QED BY <1>1, <1>2, <1>3 DEF Creation

\* Where the entries of a creation lie.
LEMMA BelowIs ==
  ASSUME NEW o
  PROVE  /\ Below("refInc", o) = 1 /\ Below("linkCf", o) = 2
         /\ Below("link", o) \in 2..3 /\ Below("construct", o) \in 3..4
         /\ Below("link", o) < Below("construct", o)
BY DEF Below

\* A step of a call that is not one of the constructor or of the reference
\* that a creation ends with leaves the creations as they are.
LEMMA TurnKeepsCreation ==
  ASSUME Types, Creation, NEW t, NEW n, NEW op, NEW h, Turns(t, n, op, h),
         op \notin {"construct", "refInc"},
         \A d \in Nat : \A o, g : d >= n /\ On(t, d, o, g)' => o \notin Creates,
         \A o \in Objects : life'[o] = "absent" <=> life[o] = "absent"
  PROVE  Creation'
<1>0. "refInc" \in Creates /\ "construct" \in Creates /\ \A o \in Objects : o \in Handles
  BY DEF Creates, Handles
<1>1. t \in Threads /\ n \in Nat /\ On(t, n, op, h)
  BY TurnStack
<1>2. ASSUME NEW u \in Threads, NEW d \in Nat, NEW o \in Handles, NEW c \in Creates, On(u, d, c, o)'
      PROVE  On(u, d, c, o)
  BY <1>1, <1>2, TurnStack
<1>3. ASSUME NEW u \in Threads, NEW o \in Objects, On(u, 1, "refInc", o), u = t
      PROVE  n > 1
  <2>1. 1 < n \/ (1 = n /\ "refInc" = op /\ o = h)
    BY <1>1, <1>3, TurnStack
  <2>. QED BY <1>1, <2>1
<1>4. ASSUME NEW u \in Threads, NEW o \in Objects, On(u, 1, "refInc", o)
      PROVE  /\ On(u, 0, "refDec", Db)' /\ On(u, 1, "refInc", o)'
             /\ On(u, Below("construct", o), "construct", o) =>
                  On(u, Below("construct", o), "construct", o)'
  <2>1. On(u, 0, "refDec", Db)
    BY <1>0, <1>4 DEF Creation
  <2>2. On(u, 1, "refInc", o)'
    BY <1>0, <1>4, TurnStack
  <2>3. On(u, 0, "refDec", Db)'
    <3>1. ~(u = t /\ 0 = n)
      BY <1>1, <1>3, <1>4
    <3>. QED BY <2>1, <3>1, TurnStack
  <2>4. ASSUME On(u, Below("construct", o), "construct", o)
        PROVE  On(u, Below("construct", o), "construct", o)'
    <3>1. Below("construct", o) \in Nat
      BY BelowIs
    <3>. QED BY <2>4, <3>1, TurnStack
  <2>. QED BY <2>2, <2>3, <2>4
<1>5. ASSUME NEW u \in Threads, NEW o \in Objects, On(u, 1, "refInc", o), On(u, 1, "refInc", o)'
      PROVE  /\ On(u, 0, "refDec", Db)'
             /\ life'[o] # "absent" <=>
                  life[o] # "absent" \/ (/\ On(u, Below("construct", o), "construct", o)
                                         /\ ~On(u, Below("construct", o), "construct", o)')
  BY <1>4, <1>5
<1>6. \A u \in Threads, o \in Objects : \A c \in Creates :
         On(u, 1, "refInc", o) /\ On(u, Below(c, o), c, o)' => On(u, 1, "refInc", o)'
  BY <1>4
<1>. QED BY <1>2, <1>5, <1>6, CreationKept

\* The constructor leaves the creations as they are but for its own.
LEMMA ConstructKeepsCreation ==
  ASSUME Types, Creation, NEW t, NEW n, NEW o, Constructs(t, n, o)
  PROVE  Creation'
<1>0. "refInc" \in Creates /\ "construct" \in Creates /\ \A x \in Objects : x \in Handles
  BY DEF Creates, Handles
<1>1. /\ Turns(t, n, "construct", o) /\ Nothing(t, n) /\ o \in Objects
      /\ life' = [life EXCEPT ![o] = "live"] /\ life \in [Handles -> {"absent", "live", "collecting", "freed"}]
  BY DEF Constructs, Types, TypeOK
<1>2. t \in Threads /\ n \in Nat /\ On(t, n, "construct", o)
  BY <1>1, TurnStack
<1>3. n = Below("construct", o) /\ On(t, 1, "refInc", o) /\ n > 1
  BY <1>0, <1>1, <1>2, BelowIs DEF Creation
<1>4. ASSUME NEW u \in Threads, NEW d \in Nat, NEW g \in Handles, NEW c \in Creates, On(u, d, c, g)'
      PROVE  On(u, d, c, g)
  BY <1>1, <1>2, <1>4, TurnStack DEF Nothing
<1>5. ASSUME NEW u \in Threads, NEW d \in Nat, NEW c, NEW g, On(u, d, c, g), u # t \/ d # n
      PROVE  On(u, d, c, g)'
  BY <1>1, <1>5, TurnStack
<1>6. ASSUME NEW u \in Threads, NEW x \in Objects, On(u, 1, "refInc", x)
      PROVE  /\ On(u, 0, "refDec", Db)' /\ On(u, 1, "refInc", x)'
             /\ life'[x] # "absent" <=>
                  life[x] # "absent" \/ (/\ On(u, Below("construct", x), "construct", x)
                                         /\ ~On(u, Below("construct", x), "construct", x)')
  <2>1. On(u, 0, "refDec", Db)
    BY <1>0, <1>6 DEF Creation
  <2>2. On(u, 0, "refDec", Db)' /\ On(u, 1, "refInc", x)'
    BY <1>2, <1>3, <1>5, <1>6, <2>1
  <2>3. CASE x = o
    <3>1. u = t
      BY <1>2, <1>3, <1>6, <2>3 DEF Creation
    <3>2. ~On(t, n, "construct", o)' /\ life'[o] = "live"
      BY <1>0, <1>1, <1>2 DEF Nothing
    <3>. QED BY <1>2, <1>3, <2>2, <2>3, <3>1, <3>2
  <2>4. CASE x # o
    <3>1. life'[x] = life[x]
      BY <1>0, <1>1, <2>4
    <3>2. Below("construct", x) \in Nat
      BY BelowIs
    <3>3. On(u, Below("construct", x), "construct", x) => On(u, Below("construct", x), "construct", x)'
      BY <1>1, <2>4, <3>2, TurnStack
    <3>. QED BY <2>2, <3>1, <3>3
  <2>. QED BY <2>3, <2>4
<1>. QED BY <1>4, <1>6, CreationKept

\* The reference that a creation ends with leaves the others as they are.
LEMMA CountKeepsCreation ==
  ASSUME Types, Creation, NEW t, NEW n, NEW o, Counts(t, n, o)
  PROVE  Creation'
<1>0. "refInc" \in Creates /\ "construct" \in Creates /\ \A x \in Objects : x \in Handles
  BY DEF Creates, Handles
<1>1. Turns(t, n, "refInc", o) /\ Nothing(t, n) /\ o \in Objects /\ UNCHANGED life
  BY DEF Counts
<1>2. t \in Threads /\ n \in Nat /\ On(t, n, "refInc", o)
  BY <1>1, TurnStack
<1>3. n = 1
  BY <1>0, <1>1, <1>2, BelowIs DEF Creation
<1>4. ASSUME NEW u \in Threads, NEW d \in Nat, NEW g \in Handles, NEW c \in Creates, On(u, d, c, g)'
      PROVE  On(u, d, c, g)
  BY <1>1, <1>2, <1>4, TurnStack DEF Nothing
<1>5. \A d \in Nat : \A c, g : d >= 1 => ~On(t, d, c, g)'
  BY <1>1, <1>3 DEF Nothing
<1>6. ASSUME NEW u \in Threads, NEW x \in Objects, On(u, 1, "refInc", x), On(u, 1, "refInc", x)'
      PROVE  /\ On(u, 0, "refDec", Db)'
             /\ life'[x] # "absent" <=>
                  life[x] # "absent" \/ (/\ On(u, Below("construct", x), "construct", x)
                                         /\ ~On(u, Below("construct", x), "construct", x)')
  <2>1. On(u, 0, "refDec", Db) /\ u # t
    BY <1>0, <1>5, <1>6 DEF Creation
  <2>2. Below("construct", x) \in Nat
    BY BelowIs
  <2>3. On(u, 0, "refDec", Db)'
    BY <1>1, <2>1, TurnStack
  <2>4. On(u, Below("construct", x), "construct", x) => On(u, Below("construct", x), "construct", x)'
    BY <1>1, <2>1, <2>2, TurnStack
  <2>. QED BY <1>1, <2>3, <2>4
<1>7. ASSUME NEW u \in Threads, NEW x \in Objects, NEW c \in Creates,
             On(u, 1, "refInc", x), On(u, Below(c, x), c, x)'
      PROVE  On(u, 1, "refInc", x)'
  <2>1. Below(c, x) \in Nat /\ Below(c, x) >= 1
    BY BelowIs DEF Creates
  <2>2. u # t
    BY <1>5, <1>7, <2>1
  <2>. QED BY <1>1, <1>7, <2>2, TurnStack
<1>. QED BY <1>4, <1>6, <1>7, CreationKept

\* A call that creates nothing leaves the creations as they are.
LEMMA BeginKeepsCreation ==
  ASSUME Creation, NEW t, Begins(t),
         \A d \in Nat : \A o, g : On(t, d, o, g)' => o \notin Creates,
         \A o \in Objects : life'[o] = "absent" <=> life[o] = "absent"
  PROVE  Creation'
<1>0. "refInc" \in Creates /\ "construct" \in Creates /\ \A x \in Objects : x \in Handles
  BY DEF Creates, Handles
<1>1. ASSUME NEW u \in Threads, NEW d \in Nat, NEW g \in Handles, NEW c \in Creates, On(u, d, c, g)'
      PROVE  On(u, d, c, g)
  BY <1>1, BeginStack
<1>2. ASSUME NEW u \in Threads, NEW x \in Objects, On(u, 1, "refInc", x)
      PROVE  /\ On(u, 0, "refDec", Db)' /\ On(u, 1, "refInc", x)'
             /\ life'[x] # "absent" <=>
                  life[x] # "absent" \/ (/\ On(u, Below("construct", x), "construct", x)
                                         /\ ~On(u, Below("construct", x), "construct", x)')
  <2>1. On(u, 0, "refDec", Db)
    BY <1>0, <1>2 DEF Creation
  <2>2. Below("construct", x) \in Nat
    BY BelowIs
  <2>. QED BY <1>2, <2>1, <2>2, BeginStack
<1>. QED BY <1>1, <1>2, CreationKept

\* A call that creates an object is the only one, and starts in order.
LEMMA CreatingStartsCreation ==
  ASSUME Creation, NEW t, NEW o, Creating(t, o)
  PROVE  Creation'
<1>0. /\ "refInc" \in Creates /\ "construct" \in Creates /\ "refDec" \notin Creates
      /\ "retrieveCf" \notin Creates /\ \A x \in Objects : x \in Handles
  BY DEF Creates, Handles
<1>1. /\ Begins(t) /\ o \in Objects /\ life[o] = "absent" /\ life' = life
      /\ \A u \in Threads, d \in Nat : ~On(u, d, "construct", o)
      /\ \A d \in Nat : \A op, g : On(t, d, op, g)' <=>
            \/ d = 0 /\ op = "refDec" /\ g = Db
            \/ op \in Creates /\ g = o /\ d = Below(op, o) /\ (op = "linkCf" => OnCf(o))
            \/ OnCf(o) /\ d = 5 /\ op = "retrieveCf" /\ g = CfOf[o]
  BY DEF Creating
<1>2. /\ On(t, 0, "refDec", Db)' /\ On(t, 1, "refInc", o)'
      /\ On(t, Below("construct", o), "construct", o)'
  <2>1. Below("construct", o) \in Nat /\ Below("refInc", o) = 1
    BY BelowIs
  <2>. QED BY <1>0, <1>1, <2>1
<1>3. ASSUME NEW d \in Nat, NEW c \in Creates, NEW g, On(t, d, c, g)'
      PROVE  g = o /\ d = Below(c, o) /\ (c = "linkCf" => OnCf(o))
  BY <1>0, <1>1, <1>3
<1>4. ASSUME NEW u \in Threads, NEW x \in Objects, On(u, 1, "refInc", x)
      PROVE  x # o /\ u # t
  <2>1. life[x] = "absent" => On(u, Below("construct", x), "construct", x)
    BY <1>4 DEF Creation
  <2>2. Below("construct", x) \in Nat
    BY BelowIs
  <2>. QED BY <1>1, <1>4, <2>1, <2>2, BeginStack
<1>5. ASSUME NEW u \in Threads, NEW d \in Nat, NEW x \in Handles, NEW c \in Creates, On(u, d, c, x)'
      PROVE  /\ x \in Objects /\ d = Below(c, x)
             /\ On(u, 1, "refInc", x)' /\ On(u, 0, "refDec", Db)'
             /\ c = "linkCf" => OnCf(x)
  <2>1. CASE u = t
    BY <1>1, <1>2, <1>3, <1>5, <2>1
  <2>2. CASE u # t
    <3>1. On(u, d, c, x)
      BY <1>1, <1>5, <2>2, BeginStack
    <3>2. /\ x \in Objects /\ d = Below(c, x) /\ (c = "linkCf" => OnCf(x))
          /\ On(u, 1, "refInc", x) /\ On(u, 0, "refDec", Db)
      BY <3>1 DEF Creation
    <3>. QED BY <1>1, <3>2, BeginStack
  <2>. QED BY <2>1, <2>2
<1>6. ASSUME NEW u \in Threads, NEW x \in Objects, On(u, 1, "refInc", x)'
      PROVE  life'[x] = "absent" <=> On(u, Below("construct", x), "construct", x)'
  <2>1. CASE u = t
    BY <1>0, <1>1, <1>2, <1>3, <1>6, <2>1
  <2>2. CASE u # t
    <3>1. On(u, 1, "refInc", x) /\ Below("construct", x) \in Nat
      BY <1>1, <1>6, <2>2, BeginStack, BelowIs
    <3>2. life[x] = "absent" <=> On(u, Below("construct", x), "construct", x)
      BY <3>1 DEF Creation
    <3>. QED BY <1>1, <2>2, <3>1, <3>2, BeginStack
  <2>. QED BY <2>1, <2>2
<1>7. ASSUME NEW u \in Threads, NEW v \in Threads, NEW x \in Objects,
             On(u, 1, "refInc", x)', On(v, 1, "refInc", x)'
      PROVE  u = v
  <2>1. \A w \in Threads : On(w, 1, "refInc", x)' => (w = t /\ x = o) \/ On(w, 1, "refInc", x)
    BY <1>0, <1>1, <1>3, BeginStack
  <2>. QED BY <1>4, <1>7, <2>1 DEF Creation
<1>. QED BY <1>5, <1>6, <1>7 DEF Creation

\* Creations stay in order.
LEMMA CreationStep ==
  ASSUME Types, Creation, Present, [Next]_vars
  PROVE  Creation'
<1>0. /\ \A o \in Objects : o \in Handles
      /\ life \in [Handles -> {"absent", "live", "collecting", "freed"}]
      /\ \A op \in Creates : op \notin Lists \cup {"use", "release", "drop", "initiate", "testSnapshot",
            "retrieveCf", "refDec", "unlink", "unlinkCf", "deleteDb", "done", "await",
            "assign", "retrieveSnapshot", "use"}
      /\ Creates = {"construct", "link", "linkCf", "refInc"}
      /\ "refInc" \notin Lists /\ "construct" \notin Lists
  BY DEF Types, TypeOK, Handles, Creates, Lists
<1>1. ASSUME Neutral PROVE Creation'
  <2>1. life' = life /\ \A u, d, o, g : On(u, d, o, g)' <=> On(u, d, o, g)
    BY <1>1, NeutralStack DEF Neutral
  <2>2. \A u \in Threads, o \in Objects : On(u, 1, "refInc", o) => On(u, 0, "refDec", Db)
    BY <1>0 DEF Creation
  <2>. QED BY <2>1, <2>2, CreationKept
<1>2. ASSUME NEW t, NEW n, NEW op, NEW h, Turns(t, n, op, h), op \notin {"construct", "refInc"},
             \A d \in Nat : \A o, g : d >= n /\ On(t, d, o, g)' => o \notin Creates, life' = life
      PROVE  Creation'
  BY <1>2, TurnKeepsCreation
<1>3. ASSUME NEW t, NEW n, NEW op, NEW h, Turns(t, n, op, h), op \notin {"construct", "refInc"},
             Nothing(t, n), life' = life
      PROVE  Creation'
  BY <1>2, <1>3 DEF Nothing
<1>4. ASSUME NEW t \in Threads, NEW n \in Nat, NEW h \in Handles, NEW op \in Operations,
             \/ Passes(t, n, op, h)
             \/ \E new \in Operations : Goes(t, n, op, h, new)
             \/ Links(t, n, op, h) \/ Unlinks(t, n, op, h)
             \/ \E w \in Owners : Drains(t, n, op, w, h)
      PROVE  Creation'
  <2>1. CASE Passes(t, n, op, h)
    BY <1>0, <1>3, <2>1 DEF Passes, SameState
  <2>2. CASE Links(t, n, op, h) \/ Unlinks(t, n, op, h)
    BY <1>3, <2>2 DEF Links, Unlinks
  <2>3. ASSUME NEW new \in Operations, Goes(t, n, op, h, new) PROVE Creation'
    <3>1. /\ Turns(t, n, op, h) /\ op \notin {"construct", "refInc"} /\ life' = life
          /\ OnlyOne(t, n, new, h) /\ new \notin Creates
      BY <1>0, <2>3 DEF Goes, SameState
    <3>. QED BY <1>2, <3>1 DEF OnlyOne
  <2>4. ASSUME NEW w \in Owners, Drains(t, n, op, w, h) PROVE Creation'
    <3>1. /\ Turns(t, n, op, w) /\ op \in Lists /\ life' = life
          /\ OnlyTwo(t, n, "initiate", h, op, w)
      BY <2>4 DEF Drains
    <3>2. op \notin Creates /\ "initiate" \notin Creates /\ op \notin {"construct", "refInc"}
      BY <1>0, <3>1
    <3>3. \A d \in Nat : \A o, g : d >= n /\ On(t, d, o, g)' => o \notin Creates
      BY <3>1, <3>2 DEF OnlyTwo
    <3>. QED BY <1>2, <3>1, <3>2, <3>3
  <2>. QED BY <1>4, <2>1, <2>2, <2>3, <2>4
<1>5. ASSUME NEW t \in Threads, NEW n \in Nat, NEW h \in Handles,
             Reads(t, n, h) \/ Retrieves(t, n, h) \/ Closes(t, n, h) \/ Destroys(t, n, h)
      PROVE  Creation'
  <2>1. CASE Retrieves(t, n, h)
    <3>1. Turns(t, n, "assign", h) /\ OnlyOne(t, n, "refDec", h) /\ life' = life
      BY <2>1 DEF Retrieves
    <3>2. \A d \in Nat : \A o, g : d >= n /\ On(t, d, o, g)' => o \notin Creates
      BY <1>0, <3>1 DEF OnlyOne
    <3>. QED BY <1>2, <3>1, <3>2
  <2>2. CASE Closes(t, n, h)
    <3>1. Turns(t, n, "initiate", h) /\ life' = life
      BY <2>2 DEF Closes
    <3>2. \A d \in Nat : \A o, g : d >= n /\ On(t, d, o, g)' => o \notin Creates
      BY <1>0, <2>2 DEF Closes
    <3>. QED BY <1>2, <3>1, <3>2
  <2>3. CASE Destroys(t, n, h)
    <3>1. Turns(t, n, "refDec", h) /\ life' = life
      BY <2>3 DEF Destroys
    <3>2. \A d \in Nat : \A o, g : d >= n /\ On(t, d, o, g)' => Falls(n, h, d, o, g)
      BY <2>3 DEF Destroys
    <3>3. \A d \in Nat : \A o, g : Falls(n, h, d, o, g) => o \notin Creates
      BY <1>0 DEF Falls
    <3>. QED BY <1>2, <3>1, <3>2, <3>3
  <2>4. CASE Reads(t, n, h)
    <3>1. /\ Turns(t, n, "retrieveSnapshot", h) /\ life' = life
          /\ OnlyTwo(t, n, "assign", h, "use", h)
      BY <2>4 DEF Reads, SameState
    <3>2. \A d \in Nat : \A o, g : d >= n /\ On(t, d, o, g)' => o \notin Creates
      BY <1>0, <3>1 DEF OnlyTwo
    <3>. QED BY <1>2, <3>1, <3>2
  <2>. QED BY <1>5, <2>1, <2>2, <2>3, <2>4
<1>6. ASSUME NEW t \in Threads, NEW n \in Nat, NEW h \in Handles,
             GivesBack(t, n, h) \/ Deletes(t, n) \/ Finishes(t, n, h)
      PROVE  Creation'
  BY <1>3, <1>6 DEF GivesBack, Deletes, Finishes
<1>7. ASSUME NEW t \in Threads, NEW n \in Nat, NEW h \in Handles, Frees(t, n, h)
      PROVE  Creation'
  <2>1. /\ Turns(t, n, "await", h) /\ Nothing(t, n)
        /\ life' = [life EXCEPT ![h] = "freed"]
    BY <1>7 DEF Frees
  <2>2. life[h] # "absent"
    <3>1. On(t, n, "await", h) /\ "await" \in Operations \ Creates
      BY <1>0, <2>1, TurnStack
    <3>. QED BY <3>1 DEF Present, Constructed
  <2>3. \A o \in Objects : life'[o] = "absent" <=> life[o] = "absent"
    BY <1>0, <2>1, <2>2
  <2>4. \A d \in Nat : \A o, g : d >= n /\ On(t, d, o, g)' => o \notin Creates
    BY <2>1 DEF Nothing
  <2>. QED BY <2>1, <2>3, <2>4, TurnKeepsCreation
<1>8. ASSUME NEW t \in Threads, Turn(t) PROVE Creation'
  BY <1>4, <1>5, <1>6, <1>7, <1>8, ConstructKeepsCreation, CountKeepsCreation DEF Turn
<1>9. ASSUME NEW t, Begins(t), life' = life,
             \A d \in Nat : \A o, g : On(t, d, o, g)' => o \notin Creates
      PROVE  Creation'
  BY <1>9, BeginKeepsCreation
<1>10. ASSUME NEW t \in Threads, NEW h \in Handles,
              Borrows(t, h) \/ ReadsSnapshot(t, h) \/ Requests(t, h)
       PROVE  Creation'
  <2>1. CASE Borrows(t, h)
    <3>1. \A d \in Nat : \A o, g : On(t, d, o, g)' => o \notin Creates
      BY <1>0, <2>1 DEF Borrows
    <3>. QED BY <1>9, <2>1, <3>1 DEF Borrows
  <2>2. CASE ReadsSnapshot(t, h)
    <3>1. \A d \in Nat : \A o, g : On(t, d, o, g)' => o \notin Creates
      BY <1>0, <2>2 DEF ReadsSnapshot
    <3>. QED BY <1>9, <2>2, <3>1 DEF ReadsSnapshot
  <2>3. CASE Requests(t, h)
    <3>1. \A d \in Nat : \A o, g : On(t, d, o, g)' => o \notin Creates
      BY <1>0, <2>3 DEF Requests, OnlyOne
    <3>. QED BY <1>9, <2>3, <3>1 DEF Requests, SameState
  <2>. QED BY <1>10, <2>1, <2>2, <2>3
<1>11. ASSUME NEW t \in Threads, NEW h \in Handles, Collects(t, h) PROVE Creation'
  <2>1. /\ Begins(t) /\ life[h] = "live" /\ life' = [life EXCEPT ![h] = "collecting"]
        /\ \A d \in Nat : \A o, g : On(t, d, o, g)' => o \in {"testSnapshot", "initiate", "await"}
    BY <1>11 DEF Collects
  <2>2. \A o \in Objects : life'[o] = "absent" <=> life[o] = "absent"
    BY <1>0, <2>1
  <2>3. \A d \in Nat : \A o, g : On(t, d, o, g)' => o \notin Creates
    BY <1>0, <2>1
  <2>. QED BY <2>1, <2>2, <2>3, BeginKeepsCreation
<1>12. ASSUME NEW t \in Threads, Beginning(t) PROVE Creation'
  BY <1>10, <1>11, <1>12, CreatingStartsCreation DEF Beginning
<1>. QED BY <1>1, <1>8, <1>12, NextIs

-----------------------------------------------------------------------------
(* Presence *)

\* Terms are of handles.
LEMMA NamesAreHandles == Types => Names \subseteq Handles
BY DEF Types, TypeOK, Names

\* The handle of the uppermost entry is there, but for its constructor.
LEMMA TopIsThere ==
  ASSUME Types, Creation, Present, NEW t, NEW n, NEW op, NEW h, Turns(t, n, op, h),
         op # "construct"
  PROVE  life[h] # "absent"
<1>1. t \in Threads /\ n \in Nat /\ op \in Operations /\ h \in Handles /\ On(t, n, op, h)
  BY TurnStack
<1>2. CASE op \notin Creates
  BY <1>1, <1>2 DEF Present, Constructed
<1>3. CASE op \in Creates
  <2>1. h \in Objects /\ n = Below(op, h) /\ On(t, 1, "refInc", h)
    BY <1>1, <1>3 DEF Creation
  <2>2. life[h] = "absent" => On(t, Below("construct", h), "construct", h)
    BY <1>1, <2>1 DEF Creation
  <2>3. Below("construct", h) > n /\ Below("construct", h) \in Nat
    BY <1>3, <2>1, BelowIs DEF Creates
  <2>4. ~On(t, Below("construct", h), "construct", h)
    BY <1>1, <2>3, TurnStack
  <2>. QED BY <2>2, <2>4
<1>. QED BY <1>2, <1>3

\* What a step may add for everything to stay there.
LEMMA PresentKept ==
  ASSUME Present,
         \A h \in Handles : life[h] # "absent" => life'[h] # "absent",
         \A h \in Names' : h \in Names \/ life'[h] # "absent",
         \A h \in Handles : closeReq'[h] # 0 => closeReq[h] # 0 \/ life'[h] # "absent",
         \A w \in Owners : \A o \in linked'[w] : o \in linked[w] \/ life'[o] # "absent",
         \A u \in Threads, d \in Nat, h \in Handles : \A op \in Operations \ Creates :
            On(u, d, op, h)' => On(u, d, op, h) \/ life'[h] # "absent",
         \A i \in Itrs : OnCf(i) /\ (life'[i] # "absent" \/ \E u \in Threads, d \in Nat : On(u, d, "refInc", i)') =>
            \/ life[i] # "absent" \/ life[CfOf[i]] # "absent"
            \/ \E u \in Threads, d \in Nat : On(u, d, "refInc", i),
         Names \subseteq Handles, \A w \in Owners : linked[w] \subseteq Handles
  PROVE  Present'
<1>1. Db \in Handles /\ \A i \in Itrs : OnCf(i) => CfOf[i] \in Handles
  BY CfOfType DEF Handles, Objects, OnCf
<1>2. life'[Db] # "absent"
  BY <1>1 DEF Present, Constructed
<1>3. \A h \in Names' : life'[h] # "absent"
  BY DEF Present, Constructed
<1>4. \A h \in Handles : closeReq'[h] # 0 => life'[h] # "absent"
  BY DEF Present, Constructed
<1>5. \A w \in Owners : \A o \in linked'[w] : life'[o] # "absent"
  BY DEF Present, Constructed
<1>6. \A u \in Threads, d \in Nat, h \in Handles : \A op \in Operations \ Creates :
         On(u, d, op, h)' => life'[h] # "absent"
  BY DEF Present, Constructed
<1>7. ASSUME NEW i \in Itrs, OnCf(i),
             life'[i] # "absent" \/ \E u \in Threads, d \in Nat : On(u, d, "refInc", i)'
      PROVE  life'[CfOf[i]] # "absent"
  <2>1. \/ life[i] # "absent" \/ life[CfOf[i]] # "absent"
        \/ \E u \in Threads, d \in Nat : On(u, d, "refInc", i)
    BY <1>7
  <2>2. life[CfOf[i]] # "absent"
    BY <1>7, <2>1 DEF Present, Constructed, Somewhere
  <2>. QED BY <1>1, <1>7, <2>2
<1>. QED BY <1>2, <1>3, <1>4, <1>5, <1>6, <1>7 DEF Present, Constructed, Somewhere

\* A step of a call adds nothing but its own handle, and puts entries on
\* handles that are there.
LEMMA TurnKeepsPresent ==
  ASSUME Types, Creation, Present, NEW t, NEW n, NEW op, NEW h, Turns(t, n, op, h),
         life'[h] # "absent",
         \A g \in Handles : g # h => life'[g] = life[g],
         Names' \subseteq Names \cup {h},
         \A g \in Handles : g # h /\ closeReq'[g] # 0 => closeReq[g] # 0,
         \A w \in Owners : linked'[w] \subseteq linked[w] \cup {h},
         \A d \in Nat : \A o, g : d >= n /\ On(t, d, o, g)' =>
            o \notin Creates /\ (g = h \/ life[g] # "absent")
  PROVE  Present'
<1>1. /\ t \in Threads /\ n \in Nat /\ op \in Operations /\ h \in Handles /\ On(t, n, op, h)
      /\ Names \subseteq Handles /\ \A w \in Owners : linked[w] \subseteq Handles
  BY TurnStack, NamesAreHandles DEF Types, TypeOK, Handles
<1>2. \A g \in Handles : life[g] # "absent" => life'[g] # "absent"
  OBVIOUS
<1>3. ASSUME NEW u \in Threads, NEW d \in Nat, NEW g \in Handles, NEW o \in Operations \ Creates,
             On(u, d, o, g)'
      PROVE  On(u, d, o, g) \/ life'[g] # "absent"
  <2>1. On(u, d, o, g) \/ (u = t /\ d >= n)
    BY <1>3, TurnStack
  <2>. QED BY <1>2, <1>3, <2>1
<1>4. ASSUME NEW i \in Itrs, OnCf(i),
             life'[i] # "absent" \/ \E u \in Threads, d \in Nat : On(u, d, "refInc", i)'
      PROVE  \/ life[i] # "absent" \/ life[CfOf[i]] # "absent"
             \/ \E u \in Threads, d \in Nat : On(u, d, "refInc", i)
  <2>0. i \in Handles /\ i \in Objects /\ "refInc" \in Creates
    BY DEF Handles, Objects, Creates
  <2>1. ASSUME NEW u \in Threads, NEW d \in Nat, On(u, d, "refInc", i)'
        PROVE  On(u, d, "refInc", i)
    BY <2>0, <2>1, TurnStack
  <2>2. CASE life'[i] # "absent" /\ life[i] = "absent"
    <3>1. i = h
      BY <2>0, <2>2
    <3>2. op = "construct"
      BY <2>2, <3>1, TopIsThere
    <3>3. On(t, 1, "refInc", i) /\ 1 \in Nat
      BY <1>1, <2>0, <3>1, <3>2 DEF Creation, Creates
    <3>. QED BY <1>1, <3>3
  <2>. QED BY <1>4, <2>1, <2>2
<1>5. \A g \in Names' : g \in Names \/ life'[g] # "absent"
  OBVIOUS
<1>6. \A g \in Handles : closeReq'[g] # 0 => closeReq[g] # 0 \/ life'[g] # "absent"
  OBVIOUS
<1>7. \A w \in Owners : \A o \in linked'[w] : o \in linked[w] \/ life'[o] # "absent"
  OBVIOUS
<1>. QED BY <1>1, <1>2, <1>3, <1>4, <1>5, <1>6, <1>7, PresentKept

\* A call puts entries on handles that are there, or creates an object over
\* one that is.
LEMMA BeginKeepsPresent ==
  ASSUME Types, Present, NEW t, Begins(t),
         \A g \in Handles : life'[g] = "absent" <=> life[g] = "absent",
         UNCHANGED <<closeReq, linked>>, Names' \subseteq Names,
         \A d \in Nat : \A o, g : On(t, d, o, g)' =>
            /\ o \notin Creates => life[g] # "absent"
            /\ o = "refInc" /\ OnCf(g) => life[CfOf[g]] # "absent"
  PROVE  Present'
<1>1. /\ t \in Threads /\ Names \subseteq Handles /\ \A w \in Owners : linked[w] \subseteq Handles
      /\ \A i \in Itrs : i \in Handles
  BY BeginStack, NamesAreHandles DEF Types, TypeOK, Handles, Objects
<1>2. ASSUME NEW u \in Threads, NEW d \in Nat, NEW g \in Handles, NEW o \in Operations \ Creates,
             On(u, d, o, g)'
      PROVE  On(u, d, o, g) \/ life'[g] # "absent"
  BY <1>2, BeginStack
<1>3. ASSUME NEW i \in Itrs, OnCf(i),
             life'[i] # "absent" \/ \E u \in Threads, d \in Nat : On(u, d, "refInc", i)'
      PROVE  \/ life[i] # "absent" \/ life[CfOf[i]] # "absent"
             \/ \E u \in Threads, d \in Nat : On(u, d, "refInc", i)
  <2>1. life'[i] # "absent" => life[i] # "absent"
    BY <1>1
  <2>2. ASSUME NEW u \in Threads, NEW d \in Nat, On(u, d, "refInc", i)'
        PROVE  On(u, d, "refInc", i) \/ life[CfOf[i]] # "absent"
    BY <1>3, <2>2, BeginStack
  <2>. QED BY <1>3, <2>1, <2>2
<1>4. \A g \in Handles : life[g] # "absent" => life'[g] # "absent"
  OBVIOUS
<1>. QED BY <1>1, <1>2, <1>3, <1>4, PresentKept

\* What is known stays there.
LEMMA PresentStep ==
  ASSUME Types, Creation, Present, [Next]_vars
  PROVE  Present'
<1>0. /\ \A o \in Objects : o \in Handles
      /\ life \in [Handles -> {"absent", "live", "collecting", "freed"}]
      /\ closeReq \in [Handles -> 0..3] /\ linked \in [Owners -> SUBSET Objects]
      /\ \A op \in Creates : op \notin Lists \cup {"use", "release", "drop", "initiate", "testSnapshot",
            "retrieveCf", "refDec", "unlink", "unlinkCf", "deleteDb", "done", "await",
            "assign", "retrieveSnapshot"}
      /\ "construct" \notin Lists
      /\ Db \in Handles /\ \A i : OnCf(i) => CfOf[i] \in Handles /\ CfOf[i] # Db
  BY CfOfType, KindsAreDistinct DEF Types, TypeOK, Handles, Creates, Lists, OnCf, Objects
<1>1. life[Db] # "absent"
  BY DEF Present, Constructed
<1>2. ASSUME Neutral PROVE Present'
  <2>1. UNCHANGED <<life, closeReq, linked>> /\ Names' \subseteq Names
        /\ \A u, d, o, g : On(u, d, o, g)' <=> On(u, d, o, g)
    BY <1>2, NeutralStack DEF Neutral
  <2>2. Names \subseteq Handles /\ \A w \in Owners : linked[w] \subseteq Handles
    BY <1>0, NamesAreHandles DEF Types, TypeOK
  <2>. QED BY <2>1, <2>2, PresentKept
<1>3. ASSUME NEW t, NEW n, NEW op, NEW h, Turns(t, n, op, h), op # "construct",
             UNCHANGED <<life, closeReq>>, Names' \subseteq Names \cup {h},
             \A w \in Owners : linked'[w] \subseteq linked[w] \cup {h},
             \A d \in Nat : \A o, g : d >= n /\ On(t, d, o, g)' =>
                o \notin Creates /\ (g = h \/ life[g] # "absent")
      PROVE  Present'
  <2>1. life'[h] # "absent"
    BY <1>3, TopIsThere
  <2>. QED BY <1>3, <2>1, TurnKeepsPresent
<1>4. ASSUME NEW t, NEW n, NEW op, NEW h, Turns(t, n, op, h), op # "construct", Nothing(t, n),
             UNCHANGED <<life, closeReq>>, Names' \subseteq Names \cup {h},
             \A w \in Owners : linked'[w] \subseteq linked[w] \cup {h}
      PROVE  Present'
  BY <1>3, <1>4 DEF Nothing
<1>5. ASSUME NEW t, NEW n, NEW op, NEW h, Turns(t, n, op, h), op # "construct", life' = life,
             \A g \in Handles : g # h => closeReq'[g] = closeReq[g], UNCHANGED <<linked>>, Names' \subseteq Names,
             \A d \in Nat : \A o, g : d >= n /\ On(t, d, o, g)' =>
                o \notin Creates /\ (g = h \/ life[g] # "absent")
      PROVE  Present'
  <2>1. life'[h] # "absent"
    BY <1>5, TopIsThere
  <2>2. \A g \in Handles : g # h /\ closeReq'[g] # 0 => closeReq[g] # 0
    BY <1>0, <1>5
  <2>3. \A w \in Owners : linked'[w] \subseteq linked[w] \cup {h}
    BY <1>5
  <2>. QED BY <1>5, <2>1, <2>2, <2>3, TurnKeepsPresent
<1>6. ASSUME NEW t \in Threads, NEW n \in Nat, NEW h \in Handles, NEW op \in Operations,
             \/ Passes(t, n, op, h)
             \/ \E new \in Operations : Goes(t, n, op, h, new)
             \/ Links(t, n, op, h) \/ Unlinks(t, n, op, h)
             \/ \E w \in Owners : Drains(t, n, op, w, h)
      PROVE  Present'
  <2>1. CASE Passes(t, n, op, h)
    <3>1. /\ Turns(t, n, op, h) /\ op # "construct" /\ Nothing(t, n)
          /\ UNCHANGED <<life, closeReq, linked>> /\ Names' \subseteq Names
      BY <1>0, <2>1 DEF Passes, SameState
    <3>. QED BY <1>4, <3>1
  <2>2. CASE Links(t, n, op, h) \/ Unlinks(t, n, op, h)
    <3>1. /\ Turns(t, n, op, h) /\ op # "construct" /\ Nothing(t, n)
          /\ UNCHANGED <<life, closeReq>> /\ Names' \subseteq Names
      BY <2>2 DEF Links, Unlinks
    <3>2. \A w \in Owners : linked'[w] \subseteq linked[w] \cup {h}
      BY <1>0, <2>2 DEF Links, Unlinks
    <3>. QED BY <1>4, <3>1, <3>2
  <2>3. ASSUME NEW new \in Operations, Goes(t, n, op, h, new) PROVE Present'
    <3>1. /\ Turns(t, n, op, h) /\ op # "construct"
          /\ UNCHANGED <<life, closeReq, linked>> /\ Names' \subseteq Names
          /\ OnlyOne(t, n, new, h) /\ new \notin Creates
      BY <1>0, <2>3 DEF Goes, SameState
    <3>2. \A d \in Nat : \A o, g : d >= n /\ On(t, d, o, g)' => o \notin Creates /\ g = h
      BY <3>1 DEF OnlyOne
    <3>. QED BY <1>3, <3>1, <3>2
  <2>4. ASSUME NEW w \in Owners, Drains(t, n, op, w, h) PROVE Present'
    <3>1. /\ Turns(t, n, op, w) /\ op \in Lists /\ h \in linked[w]
          /\ UNCHANGED <<life, closeReq>> /\ Names' \subseteq Names
          /\ linked' = [linked EXCEPT ![w] = @ \ {h}]
          /\ OnlyTwo(t, n, "initiate", h, op, w)
      BY <2>4 DEF Drains
    <3>2. op \notin Creates /\ "initiate" \notin Creates /\ op # "construct"
      BY <1>0, <3>1
    <3>3. life[h] # "absent"
      BY <3>1 DEF Present, Constructed
    <3>4. \A d \in Nat : \A o, g : d >= n /\ On(t, d, o, g)' =>
             o \notin Creates /\ (g = w \/ life[g] # "absent")
      BY <3>1, <3>2, <3>3 DEF OnlyTwo
    <3>5. \A x \in Owners : linked'[x] \subseteq linked[x] \cup {w}
      BY <1>0, <3>1
    <3>. QED BY <1>3, <3>1, <3>2, <3>4, <3>5
  <2>. QED BY <1>6, <2>1, <2>2, <2>3, <2>4
<1>7. ASSUME NEW t \in Threads, NEW n \in Nat, NEW h \in Handles,
             Reads(t, n, h) \/ Retrieves(t, n, h) \/ Closes(t, n, h) \/ Destroys(t, n, h)
      PROVE  Present'
  <2>1. CASE Retrieves(t, n, h)
    <3>1. /\ Turns(t, n, "assign", h) /\ OnlyOne(t, n, "refDec", h)
          /\ UNCHANGED <<life, closeReq, linked>> /\ Names' \subseteq Names
      BY <2>1 DEF Retrieves
    <3>2. \A d \in Nat : \A o, g : d >= n /\ On(t, d, o, g)' => o \notin Creates /\ g = h
      BY <1>0, <3>1 DEF OnlyOne
    <3>. QED BY <1>3, <3>1, <3>2
  <2>2. CASE Closes(t, n, h)
    <3>1. /\ Turns(t, n, "initiate", h) /\ closeReq' = [closeReq EXCEPT ![h] = 1]
          /\ UNCHANGED <<life, linked>> /\ Names' \subseteq Names
      BY <2>2 DEF Closes
    <3>2. \A d \in Nat : \A o, g : d >= n /\ On(t, d, o, g)' => o \notin Creates /\ g = h
      BY <1>0, <2>2 DEF Closes
    <3>3. \A g \in Handles : g # h => closeReq'[g] = closeReq[g]
      BY <1>0, <3>1
    <3>. QED BY <1>5, <3>1, <3>2, <3>3
  <2>3. CASE Destroys(t, n, h)
    <3>1. /\ Turns(t, n, "refDec", h) /\ closeReq' = [closeReq EXCEPT ![h] = 2]
          /\ UNCHANGED <<life, linked>> /\ Names' \subseteq Names
      BY <2>3 DEF Destroys
    <3>2. \A d \in Nat : \A o, g : d >= n /\ On(t, d, o, g)' => Falls(n, h, d, o, g)
      BY <2>3 DEF Destroys
    <3>3. \A d \in Nat : \A o, g : Falls(n, h, d, o, g) =>
             o \notin Creates /\ (g = h \/ g = Db \/ (OnCf(h) /\ g = CfOf[h]))
      BY <1>0 DEF Falls
    <3>4. OnCf(h) => life[CfOf[h]] # "absent"
      <4>1. life[h] # "absent" /\ (OnCf(h) => h \in Itrs)
        BY <3>1, TopIsThere DEF OnCf
      <4>. QED BY <4>1 DEF Present, Constructed
    <3>5. \A d \in Nat : \A o, g : d >= n /\ On(t, d, o, g)' =>
             o \notin Creates /\ (g = h \/ life[g] # "absent")
      BY <1>1, <3>2, <3>3, <3>4
    <3>6. \A g \in Handles : g # h => closeReq'[g] = closeReq[g]
      BY <1>0, <3>1
    <3>. QED BY <1>5, <3>1, <3>5, <3>6
  <2>4. CASE Reads(t, n, h)
    <3>1. /\ Turns(t, n, "retrieveSnapshot", h) /\ OnlyTwo(t, n, "assign", h, "use", h)
          /\ UNCHANGED <<life, closeReq, linked>> /\ Names' \subseteq Names
      BY <2>4 DEF Reads, SameState
    <3>2. \A d \in Nat : \A o, g : d >= n /\ On(t, d, o, g)' => o \notin Creates /\ g = h
      BY <1>0, <3>1 DEF OnlyTwo
    <3>. QED BY <1>3, <3>1, <3>2
  <2>. QED BY <1>7, <2>1, <2>2, <2>3, <2>4
<1>8. ASSUME NEW t \in Threads, NEW n \in Nat, NEW h \in Handles,
             \/ GivesBack(t, n, h) \/ Deletes(t, n) \/ Counts(t, n, h) \/ Finishes(t, n, h)
      PROVE  Present'
  <2>1. CASE GivesBack(t, n, h) \/ Deletes(t, n) \/ Counts(t, n, h)
    BY <1>4, <2>1 DEF GivesBack, Deletes, Counts
  <2>2. CASE Finishes(t, n, h)
    <3>1. /\ Turns(t, n, "done", h) /\ closeReq' = [closeReq EXCEPT ![h] = 3]
          /\ UNCHANGED <<life, linked>> /\ Names' \subseteq Names /\ Nothing(t, n)
      BY <2>2 DEF Finishes
    <3>2. \A d \in Nat : \A o, g : d >= n => ~On(t, d, o, g)'
      BY <3>1 DEF Nothing
    <3>3. \A g \in Handles : g # h => closeReq'[g] = closeReq[g]
      BY <1>0, <3>1
    <3>. QED BY <1>5, <3>1, <3>2, <3>3
  <2>. QED BY <1>8, <2>1, <2>2
<1>9. ASSUME NEW t \in Threads, NEW n \in Nat, NEW h \in Handles,
             Frees(t, n, h) \/ Constructs(t, n, h)
      PROVE  Present'
  <2>1. PICK op \in {"await", "construct"}, x \in {"freed", "live"} :
           /\ Turns(t, n, op, h) /\ Nothing(t, n)
           /\ life' = [life EXCEPT ![h] = x] /\ UNCHANGED <<closeReq, linked>> /\ Names' \subseteq Names
    BY <1>9 DEF Frees, Constructs
  <2>2. life'[h] # "absent" /\ \A g \in Handles : g # h => life'[g] = life[g]
    BY <1>0, <2>1
  <2>3. \A d \in Nat : \A o, g : d >= n => ~On(t, d, o, g)'
    BY <2>1 DEF Nothing
  <2>4. /\ Names' \subseteq Names \cup {h} /\ \A g \in Handles : g # h /\ closeReq'[g] # 0 => closeReq[g] # 0
        /\ \A w \in Owners : linked'[w] \subseteq linked[w] \cup {h}
    BY <2>1
  <2>. QED BY <2>1, <2>2, <2>3, <2>4, TurnKeepsPresent
<1>10. ASSUME NEW t \in Threads, Turn(t) PROVE Present'
  BY <1>6, <1>7, <1>8, <1>9, <1>10 DEF Turn
<1>11. ASSUME NEW t \in Threads, Beginning(t) PROVE Present'
  <2>1. ASSUME NEW g \in Handles, Borrows(t, g) \/ ReadsSnapshot(t, g) \/ Requests(t, g) PROVE Present'
    <3>1. /\ Begins(t) /\ UNCHANGED <<life, closeReq, linked>> /\ Names' \subseteq Names
      BY <2>1 DEF Borrows, ReadsSnapshot, Requests, SameState
    <3>2. \A d \in Nat : \A o, x : On(t, d, o, x)' => o \notin Creates /\ x \in Names
      <4>1. CASE Borrows(t, g)
        BY <1>0, <4>1 DEF Borrows
      <4>2. CASE ReadsSnapshot(t, g)
        BY <1>0, <4>2 DEF ReadsSnapshot
      <4>3. CASE Requests(t, g)
        <5>1. OnlyOne(t, 0, "initiate", g) /\ g \in Names
          BY <4>3 DEF Requests
        <5>. QED BY <1>0, <5>1 DEF OnlyOne
      <4>. QED BY <2>1, <4>1, <4>2, <4>3
    <3>3. \A x \in Names : life[x] # "absent"
      BY DEF Present, Constructed
    <3>4. \A d \in Nat : \A o, x : On(t, d, o, x)' =>
             /\ o \notin Creates => life[x] # "absent"
             /\ o = "refInc" /\ OnCf(x) => life[CfOf[x]] # "absent"
      BY <3>2, <3>3 DEF Creates
    <3>. QED BY <3>1, <3>4, BeginKeepsPresent
  <2>2. ASSUME NEW g \in Handles, Creating(t, g) PROVE Present'
    <3>1. /\ Begins(t) /\ UNCHANGED <<life, closeReq, linked>> /\ Names' \subseteq Names
          /\ Db \in Names /\ (OnCf(g) => CfOf[g] \in Names)
          /\ \A d \in Nat : \A op, x : On(t, d, op, x)' =>
                \/ d = 0 /\ op = "refDec" /\ x = Db
                \/ op \in Creates /\ x = g /\ d = Below(op, g) /\ (op = "linkCf" => OnCf(g))
                \/ OnCf(g) /\ d = 5 /\ op = "retrieveCf" /\ x = CfOf[g]
      BY <2>2 DEF Creating
    <3>2. \A x \in Names : life[x] # "absent"
      BY DEF Present, Constructed
    <3>3. "refInc" \in Creates
      BY DEF Creates
    <3>4. \A d \in Nat : \A o, x : On(t, d, o, x)' =>
             /\ o \notin Creates => life[x] # "absent"
             /\ o = "refInc" /\ OnCf(x) => life[CfOf[x]] # "absent"
      BY <1>0, <3>1, <3>2, <3>3
    <3>. QED BY <3>1, <3>4, BeginKeepsPresent
  <2>3. ASSUME NEW g \in Handles, Collects(t, g) PROVE Present'
    <3>1. /\ Begins(t) /\ life[g] = "live" /\ life' = [life EXCEPT ![g] = "collecting"]
          /\ UNCHANGED <<closeReq, linked>> /\ Names' \subseteq Names
          /\ \A d \in Nat : \A o, x : On(t, d, o, x)' =>
                x = g /\ o \in {"testSnapshot", "initiate", "await"}
      BY <2>3 DEF Collects
    <3>2. \A x \in Handles : life'[x] = "absent" <=> life[x] = "absent"
      BY <1>0, <3>1
    <3>3. \A d \in Nat : \A o, x : On(t, d, o, x)' =>
             /\ o \notin Creates => life[x] # "absent"
             /\ o = "refInc" /\ OnCf(x) => life[CfOf[x]] # "absent"
      BY <3>1
    <3>. QED BY <3>1, <3>2, <3>3, BeginKeepsPresent
  <2>. QED BY <1>11, <2>1, <2>2, <2>3 DEF Beginning
<1>. QED BY <1>0, <1>2, <1>10, <1>11, NextIs

-----------------------------------------------------------------------------
(* Destruction *)

\* A step that puts and removes no end of a destructor.
LEMMA DestructionKept ==
  ASSUME Destruction,
         \A u \in Threads, d \in Nat, h \in Handles : On(u, d, "done", h)' <=> On(u, d, "done", h),
         \A h \in Handles : closeReq'[h] = 2 <=> closeReq[h] = 2
  PROVE  Destruction'
<1>1. ASSUME NEW h \in Handles
      PROVE  closeReq'[h] = 2 <=> \E u \in Threads, d \in Nat : On(u, d, "done", h)'
  BY DEF Destruction, Somewhere
<1>2. ASSUME NEW t \in Threads, NEW u \in Threads, NEW d \in Nat, NEW c \in Nat, NEW h \in Handles,
             On(t, d, "done", h)', On(u, c, "done", h)'
      PROVE  t = u /\ d = c
  BY <1>2 DEF Destruction
<1>. QED BY <1>1, <1>2 DEF Destruction, Somewhere

\* The same of a step of a call.
LEMMA TurnKeepsDestruction ==
  ASSUME Types, Destruction, NEW t, NEW n, NEW op, NEW h, Turns(t, n, op, h), op # "done",
         \A d \in Nat : \A o, g : d >= n /\ On(t, d, o, g)' => o # "done",
         \A g \in Handles : closeReq'[g] = 2 <=> closeReq[g] = 2
  PROVE  Destruction'
<1>1. ASSUME NEW u \in Threads, NEW d \in Nat, NEW g \in Handles
      PROVE  On(u, d, "done", g)' <=> On(u, d, "done", g)
  BY TurnStack
<1>. QED BY <1>1, DestructionKept

\* A destructor starts for a handle that has none, and ends where it is.
LEMMA DestroyOnce ==
  ASSUME Types, Destruction, NEW t, NEW n, NEW h, Destroys(t, n, h)
  PROVE  Destruction'
<1>1. /\ Turns(t, n, "refDec", h) /\ h \in Handles /\ closeReq[h] = 1
      /\ closeReq' = [closeReq EXCEPT ![h] = 2] /\ closeReq \in [Handles -> 0..3]
      /\ \A d \in Nat : \A o, g : d >= n => (On(t, d, o, g)' <=> Falls(n, h, d, o, g))
  BY DEF Destroys, Types, TypeOK
<1>2. t \in Threads /\ n \in Nat /\ On(t, n, "refDec", h)
  BY <1>1, TurnStack
<1>3. ASSUME NEW d \in Nat, NEW g
      PROVE  Falls(n, h, d, "done", g) <=> d = n /\ g = h
  BY DEF Falls
<1>4. ASSUME NEW d \in Nat, NEW g
      PROVE  On(t, d, "done", g)' <=> (d < n /\ On(t, d, "done", g)) \/ (d = n /\ g = h)
  <2>1. CASE d >= n
    BY <1>1, <1>2, <1>3, <2>1
  <2>2. CASE ~(d >= n)
    BY <1>1, <1>2, <2>2, TurnStack
  <2>. QED BY <2>1, <2>2
<1>5. ASSUME NEW u \in Threads, NEW d \in Nat, NEW g
      PROVE  On(u, d, "done", g)' <=> On(u, d, "done", g) \/ (u = t /\ d = n /\ g = h)
  <2>1. CASE u = t
    <3>1. On(t, d, "done", g) => d < n
      BY <1>1, <1>2, TurnStack
    <3>. QED BY <1>4, <2>1, <3>1
  <2>2. CASE u # t
    BY <1>1, <2>2, TurnStack
  <2>. QED BY <2>1, <2>2
<1>6. \A u \in Threads, d \in Nat : ~On(u, d, "done", h)
  BY <1>1 DEF Destruction, Somewhere
<1>7. ASSUME NEW g \in Handles
      PROVE  closeReq'[g] = 2 <=> \E u \in Threads, d \in Nat : On(u, d, "done", g)'
  <2>1. CASE g = h
    BY <1>1, <1>2, <1>5, <2>1
  <2>2. CASE g # h
    BY <1>1, <1>5, <2>2 DEF Destruction, Somewhere
  <2>. QED BY <2>1, <2>2
<1>8. ASSUME NEW v \in Threads, NEW u \in Threads, NEW d \in Nat, NEW c \in Nat, NEW g \in Handles,
             On(v, d, "done", g)', On(u, c, "done", g)'
      PROVE  v = u /\ d = c
  BY <1>5, <1>6, <1>8 DEF Destruction
<1>. QED BY <1>7, <1>8 DEF Destruction, Somewhere

\* A destructor that is over leaves the others where they are.
LEMMA FinishOnce ==
  ASSUME Types, Destruction, NEW t, NEW n, NEW h, Finishes(t, n, h)
  PROVE  Destruction'
<1>1. /\ Turns(t, n, "done", h) /\ h \in Handles /\ Nothing(t, n)
      /\ closeReq' = [closeReq EXCEPT ![h] = 3] /\ closeReq \in [Handles -> 0..3]
  BY DEF Finishes, Types, TypeOK
<1>2. t \in Threads /\ n \in Nat /\ On(t, n, "done", h)
  BY <1>1, TurnStack
<1>3. ASSUME NEW u \in Threads, NEW d \in Nat, NEW g \in Handles
      PROVE  On(u, d, "done", g)' <=> On(u, d, "done", g) /\ g # h
  <2>1. On(u, d, "done", g)' => On(u, d, "done", g) /\ (u # t \/ d < n)
    BY <1>1, <1>2, TurnStack DEF Nothing
  <2>2. On(u, d, "done", h) => u = t /\ d = n
    BY <1>1, <1>2 DEF Destruction
  <2>3. On(u, d, "done", g) /\ g # h => On(u, d, "done", g)'
    BY <1>1, TurnStack
  <2>. QED BY <1>2, <2>1, <2>2, <2>3
<1>4. ASSUME NEW g \in Handles
      PROVE  closeReq'[g] = 2 <=> \E u \in Threads, d \in Nat : On(u, d, "done", g)'
  <2>1. CASE g = h
    BY <1>1, <1>3, <2>1
  <2>2. CASE g # h
    BY <1>1, <1>3, <2>2 DEF Destruction, Somewhere
  <2>. QED BY <2>1, <2>2
<1>5. ASSUME NEW v \in Threads, NEW u \in Threads, NEW d \in Nat, NEW c \in Nat, NEW g \in Handles,
             On(v, d, "done", g)', On(u, c, "done", g)'
      PROVE  v = u /\ d = c
  BY <1>3, <1>5 DEF Destruction
<1>. QED BY <1>4, <1>5 DEF Destruction, Somewhere

\* Destructors stay as they are.
LEMMA DestructionStep ==
  ASSUME Types, Destruction, [Next]_vars
  PROVE  Destruction'
<1>0. closeReq \in [Handles -> 0..3] /\ "done" \notin Lists /\ "done" \notin Creates
  BY DEF Types, TypeOK, Lists, Creates
<1>1. ASSUME Neutral PROVE Destruction'
  <2>1. closeReq' = closeReq /\ \A u, d, o, g : On(u, d, o, g)' <=> On(u, d, o, g)
    BY <1>1, NeutralStack DEF Neutral
  <2>. QED BY <2>1, DestructionKept
<1>2. ASSUME NEW t, NEW n, NEW op, NEW h, Turns(t, n, op, h), op # "done", closeReq' = closeReq,
             \A d \in Nat : \A o, g : d >= n /\ On(t, d, o, g)' => o # "done"
      PROVE  Destruction'
  BY <1>2, TurnKeepsDestruction
<1>3. ASSUME NEW t, NEW n, NEW op, NEW h, Turns(t, n, op, h), op # "done", closeReq' = closeReq,
             Nothing(t, n)
      PROVE  Destruction'
  BY <1>2, <1>3 DEF Nothing
<1>4. ASSUME NEW t \in Threads, NEW n \in Nat, NEW h \in Handles, NEW op \in Operations,
             \/ Passes(t, n, op, h)
             \/ \E new \in Operations : Goes(t, n, op, h, new)
             \/ Links(t, n, op, h) \/ Unlinks(t, n, op, h)
             \/ \E w \in Owners : Drains(t, n, op, w, h)
      PROVE  Destruction'
  <2>1. CASE Passes(t, n, op, h)
    BY <1>0, <1>3, <2>1 DEF Passes, SameState
  <2>2. CASE Links(t, n, op, h) \/ Unlinks(t, n, op, h)
    BY <1>3, <2>2 DEF Links, Unlinks
  <2>3. ASSUME NEW new \in Operations, Goes(t, n, op, h, new) PROVE Destruction'
    <3>1. /\ Turns(t, n, op, h) /\ op # "done" /\ closeReq' = closeReq
          /\ OnlyOne(t, n, new, h) /\ new # "done"
      BY <2>3 DEF Goes, SameState
    <3>. QED BY <1>2, <3>1 DEF OnlyOne
  <2>4. ASSUME NEW w \in Owners, Drains(t, n, op, w, h) PROVE Destruction'
    <3>1. /\ Turns(t, n, op, w) /\ op \in Lists /\ closeReq' = closeReq
          /\ OnlyTwo(t, n, "initiate", h, op, w)
      BY <2>4 DEF Drains
    <3>2. op # "done"
      BY <1>0, <3>1
    <3>3. \A d \in Nat : \A o, g : d >= n /\ On(t, d, o, g)' => o # "done"
      BY <3>1, <3>2 DEF OnlyTwo
    <3>. QED BY <1>2, <3>1, <3>2, <3>3
  <2>. QED BY <1>4, <2>1, <2>2, <2>3, <2>4
<1>5. ASSUME NEW t \in Threads, NEW n \in Nat, NEW h \in Handles,
             Reads(t, n, h) \/ Retrieves(t, n, h) \/ Closes(t, n, h)
      PROVE  Destruction'
  <2>1. CASE Retrieves(t, n, h)
    <3>1. Turns(t, n, "assign", h) /\ OnlyOne(t, n, "refDec", h) /\ closeReq' = closeReq
      BY <2>1 DEF Retrieves
    <3>2. \A d \in Nat : \A o, g : d >= n /\ On(t, d, o, g)' => o # "done"
      BY <3>1 DEF OnlyOne
    <3>. QED BY <1>2, <3>1, <3>2
  <2>2. CASE Closes(t, n, h)
    <3>1. /\ Turns(t, n, "initiate", h) /\ closeReq[h] = 0
          /\ closeReq' = [closeReq EXCEPT ![h] = 1]
      BY <2>2 DEF Closes
    <3>2. \A d \in Nat : \A o, g : d >= n /\ On(t, d, o, g)' => o # "done"
      BY <1>0, <2>2 DEF Closes
    <3>3. \A g \in Handles : closeReq'[g] = 2 <=> closeReq[g] = 2
      BY <1>0, <3>1
    <3>. QED BY <3>1, <3>2, <3>3, TurnKeepsDestruction
  <2>3. CASE Reads(t, n, h)
    <3>1. /\ Turns(t, n, "retrieveSnapshot", h) /\ closeReq' = closeReq
          /\ OnlyTwo(t, n, "assign", h, "use", h)
      BY <2>3 DEF Reads, SameState
    <3>2. \A d \in Nat : \A o, g : d >= n /\ On(t, d, o, g)' => o # "done"
      BY <3>1 DEF OnlyTwo
    <3>. QED BY <1>2, <3>1, <3>2
  <2>. QED BY <1>5, <2>1, <2>2, <2>3
<1>6. ASSUME NEW t \in Threads, NEW n \in Nat, NEW h \in Handles,
             \/ GivesBack(t, n, h) \/ Deletes(t, n) \/ Frees(t, n, h)
             \/ Constructs(t, n, h) \/ Counts(t, n, h)
      PROVE  Destruction'
  BY <1>3, <1>6 DEF GivesBack, Deletes, Frees, Constructs, Counts
<1>7. ASSUME NEW t \in Threads, Turn(t) PROVE Destruction'
  BY <1>4, <1>5, <1>6, <1>7, DestroyOnce, FinishOnce DEF Turn
<1>8. ASSUME NEW t \in Threads, Beginning(t) PROVE Destruction'
  <2>1. ASSUME NEW x \in Threads, Begins(x), closeReq' = closeReq,
               \A d \in Nat : \A o, g : On(x, d, o, g)' => o # "done"
        PROVE  Destruction'
    <3>1. \A u \in Threads, d \in Nat, g \in Handles : On(u, d, "done", g)' <=> On(u, d, "done", g)
      BY <2>1, BeginStack
    <3>. QED BY <2>1, <3>1, DestructionKept
  <2>2. ASSUME NEW g \in Handles, Borrows(t, g) \/ ReadsSnapshot(t, g) \/ Requests(t, g)
        PROVE  Destruction'
    <3>1. Begins(t) /\ closeReq' = closeReq
      BY <2>2 DEF Borrows, ReadsSnapshot, Requests, SameState
    <3>2. \A d \in Nat : \A o, x : On(t, d, o, x)' => o # "done"
      BY <2>2 DEF Borrows, ReadsSnapshot, Requests, OnlyOne
    <3>. QED BY <2>1, <3>1, <3>2
  <2>3. ASSUME NEW g \in Handles, Creating(t, g) \/ Collects(t, g) PROVE Destruction'
    <3>1. Begins(t) /\ closeReq' = closeReq
      BY <2>3 DEF Creating, Collects
    <3>2. \A d \in Nat : \A o, x : On(t, d, o, x)' => o # "done"
      BY <1>0, <2>3 DEF Creating, Collects
    <3>. QED BY <2>1, <3>1, <3>2
  <2>. QED BY <1>8, <2>2, <2>3 DEF Beginning
<1>. QED BY <1>1, <1>7, <1>8, NextIs

-----------------------------------------------------------------------------
(* The reference counts *)

\* The places of the references on h that calls will give back.
Dues(h) == {x \in Threads \X Nat : On(x[1], x[2], "refDec", h)}

\* o holds a reference on h.
Holds(o, h) == Constructed(o) /\ closeReq[o] < 2 /\ (h = Db \/ (OnCf(o) /\ h = CfOf[o]))

\* The creation reference, and its being late.
Own(h) == IF Constructed(h) /\ ~Closing(h) THEN 1 ELSE 0
Owed(h) == IF Constructed(h) /\ Somewhere("refInc", h) THEN 1 ELSE 0

Balanced(h) == refs[h] = Cardinality(Dues(h)) + Cardinality(MembersOn(h)) + Own(h) - Owed(h)

Balance == \A h \in Handles : Balanced(h)

\* The places of a stack, counted from the bottom and from the top.
LEMMA DuesCount ==
  ASSUME Types, NEW h
  PROVE  /\ IsFiniteSet(Dues(h)) /\ Cardinality(Dues(h)) \in Nat
         /\ RefDecsDue(h) = Cardinality(Dues(h))
<1>. DEFINE At0(t) == {j \in DOMAIN todo[t] : todo[t][j] = <<"refDec", h>>}
            Of(t)  == {<<t, i>> : i \in At0(t)}
            S      == UNION {Of(t) : t \in Threads}
            f      == [x \in S |-> <<x[1], Len(todo[x[1]]) - x[2]>>]
<1>1. \A t \in Threads : Len(todo[t]) \in Nat /\ DOMAIN todo[t] = 1..Len(todo[t])
  BY DEF Types
<1>2. RefDecsDue(h) = Cardinality(S)
  BY DEF RefDecsDue
<1>3. \A x : x \in S <=> \E t \in Threads : \E i \in At0(t) : x = <<t, i>>
  OBVIOUS
<1>4. IsFiniteSet(S)
  <2>1. ASSUME NEW t \in Threads PROVE IsFiniteSet(Of(t))
    <3>1. IsFiniteSet(1..Len(todo[t]))
      BY <1>1, FS_Interval
    <3>2. At0(t) \subseteq 1..Len(todo[t])
      BY <1>1
    <3>3. IsFiniteSet(At0(t))
      BY <3>1, <3>2, FS_Subset
    <3>. HIDE DEF At0
    <3>4. [i \in At0(t) |-> <<t, i>>] \in Surjection(At0(t), Of(t))
      BY DEF Surjection
    <3>. QED BY <3>3, <3>4, FS_Surjection DEF ExistsSurjection
  <2>2. IsFiniteSet({Of(t) : t \in Threads})
    <3>. HIDE DEF Of
    <3>1. [t \in Threads |-> Of(t)] \in Surjection(Threads, {Of(t) : t \in Threads})
      BY DEF Surjection
    <3>. QED BY <3>1, SetsAreFinite, FS_Surjection DEF ExistsSurjection
  <2>3. \A X \in {Of(t) : t \in Threads} : IsFiniteSet(X)
    BY <2>1
  <2>. HIDE DEF Of
  <2>. QED BY <2>2, <2>3, FS_UNION
<1>5. \A t \in Threads : \A i : i \in At0(t) <=> i \in 1..Len(todo[t]) /\ todo[t][i] = <<"refDec", h>>
  BY <1>1
<1>. HIDE DEF S, At0
<1>6. f \in Bijection(S, Dues(h))
  <2>1. ASSUME NEW x \in S PROVE f[x] \in Dues(h)
    <3>1. PICK t \in Threads : \E i \in At0(t) : x = <<t, i>>
      BY <1>3
    <3>2. PICK i \in At0(t) : x = <<t, i>>
      BY <3>1
    <3>3. i \in 1..Len(todo[t]) /\ todo[t][i] = <<"refDec", h>>
      BY <1>5
    <3>. DEFINE d == Len(todo[t]) - i
    <3>4. d \in Nat /\ d < Len(todo[t]) /\ Len(todo[t]) - d = i
      BY <1>1, <3>3
    <3>5. On(t, d, "refDec", h)
      BY <3>3, <3>4 DEF On
    <3>6. f[x] = <<t, d>>
      BY <3>2
    <3>. HIDE DEF d, f
    <3>. QED BY <3>4, <3>5, <3>6 DEF Dues
  <2>2. ASSUME NEW x \in S, NEW y \in S, f[x] = f[y] PROVE x = y
    <3>1. PICK t \in Threads : \E i \in At0(t) : x = <<t, i>>
      BY <1>3
    <3>2. PICK i \in At0(t) : x = <<t, i>>
      BY <3>1
    <3>3. PICK u \in Threads : \E j \in At0(u) : y = <<u, j>>
      BY <1>3
    <3>4. PICK j \in At0(u) : y = <<u, j>>
      BY <3>3
    <3>5. i \in 1..Len(todo[t]) /\ j \in 1..Len(todo[u])
      BY <1>5
    <3>6. f[x] = <<t, Len(todo[t]) - i>> /\ f[y] = <<u, Len(todo[u]) - j>>
      BY <3>2, <3>4
    <3>. HIDE DEF f
    <3>7. <<t, Len(todo[t]) - i>> = <<u, Len(todo[u]) - j>>
      BY <2>2, <3>6
    <3>8. t = u /\ Len(todo[t]) - i = Len(todo[u]) - j
      BY <3>7
    <3>9. i = j
      BY <1>1, <3>5, <3>8
    <3>. QED BY <3>2, <3>4, <3>8, <3>9
  <2>3. ASSUME NEW y \in Dues(h) PROVE \E x \in S : f[x] = y
    <3>1. PICK t \in Threads, d \in Nat : y = <<t, d>> /\ On(t, d, "refDec", h)
      BY DEF Dues
    <3>. DEFINE i == Len(todo[t]) - d
    <3>2. i \in 1..Len(todo[t]) /\ Len(todo[t]) - i = d /\ todo[t][i] = <<"refDec", h>>
      BY <1>1, <3>1 DEF On
    <3>. HIDE DEF i
    <3>3. i \in At0(t)
      BY <1>5, <3>2
    <3>4. <<t, i>> \in S
      BY <1>3, <3>3
    <3>5. f[<<t, i>>] = <<t, d>>
      BY <3>2, <3>4
    <3>. QED BY <3>1, <3>4, <3>5
  <2>. QED BY <2>1, <2>2, <2>3 DEF Bijection, Injection, Surjection, IsInjective
<1>7. ExistsBijection(S, Dues(h))
  BY <1>6 DEF ExistsBijection
<1>8. IsFiniteSet(Dues(h)) /\ Cardinality(Dues(h)) = Cardinality(S)
  BY <1>4, <1>7, FS_Bijection
<1>. QED BY <1>2, <1>8, FS_CardinalityType

\* The objects that hold a reference are finitely many.
LEMMA MembersCount ==
  ASSUME NEW h
  PROVE  IsFiniteSet(MembersOn(h)) /\ Cardinality(MembersOn(h)) \in Nat
         /\ MembersOn(h) = {o \in Objects : Holds(o, h)}
<1>1. MembersOn(h) = {o \in Objects : Holds(o, h)}
  BY DEF MembersOn, Holds
<1>2. MembersOn(h) \subseteq Objects
  BY <1>1
<1>3. IsFiniteSet(MembersOn(h))
  BY <1>2, SetsAreFinite, FS_Subset
<1>. QED BY <1>1, <1>3, FS_CardinalityType

\* RefsBalance, by places.
LEMMA BalanceIs ==
  ASSUME Types
  PROVE  RefsBalance <=> Balance
<1>1. ASSUME NEW h \in Handles
      PROVE  (refs[h] = RefDecsDue(h) + Cardinality(MembersOn(h))
                  + (IF Constructed(h) /\ ~Closing(h) THEN 1 ELSE 0)
                  - (IF Constructed(h) /\ <<"refInc", h>> \in Pending THEN 1 ELSE 0)) <=> Balanced(h)
  <2>1. RefDecsDue(h) = Cardinality(Dues(h))
    BY DuesCount
  <2>2. <<"refInc", h>> \in Pending <=> Somewhere("refInc", h)
    BY PendingIs
  <2>. QED BY <2>1, <2>2 DEF Balanced, Own, Owed
<1>. QED BY <1>1 DEF RefsBalance, Balance

\* The same places.
LEMMA DuesSame ==
  ASSUME NEW h, \A u \in Threads, d \in Nat : On(u, d, "refDec", h)' <=> On(u, d, "refDec", h)
  PROVE  Dues(h)' = Dues(h)
BY DEF Dues

\* One place more.
LEMMA DuesMore ==
  ASSUME Types, NEW h, NEW t \in Threads, NEW n \in Nat, ~On(t, n, "refDec", h),
         \A u \in Threads, d \in Nat :
            On(u, d, "refDec", h)' <=> On(u, d, "refDec", h) \/ (u = t /\ d = n)
  PROVE  Cardinality(Dues(h)') = Cardinality(Dues(h)) + 1
<1>1. Dues(h)' = Dues(h) \cup {<<t, n>>} /\ <<t, n>> \notin Dues(h)
  BY DEF Dues
<1>. QED BY <1>1, DuesCount, FS_AddElement

\* One place less.
LEMMA DuesLess ==
  ASSUME Types, NEW h, NEW t \in Threads, NEW n \in Nat, On(t, n, "refDec", h),
         \A u \in Threads, d \in Nat :
            On(u, d, "refDec", h)' <=> On(u, d, "refDec", h) /\ ~(u = t /\ d = n)
  PROVE  Cardinality(Dues(h)') = Cardinality(Dues(h)) - 1
<1>1. Dues(h)' = Dues(h) \ {<<t, n>>} /\ <<t, n>> \in Dues(h)
  BY DEF Dues
<1>. QED BY <1>1, DuesCount, FS_RemoveElement

\* The same members.
LEMMA MembersSame ==
  ASSUME NEW h, \A o \in Objects : Holds(o, h)' <=> Holds(o, h)
  PROVE  MembersOn(h)' = MembersOn(h)
<1>1. MembersOn(h) = {o \in Objects : Holds(o, h)} /\ MembersOn(h)' = {o \in Objects : Holds(o, h)'}
  BY DEF MembersOn, Holds
<1>. QED BY <1>1

\* One member more.
LEMMA MembersMore ==
  ASSUME NEW h, NEW x \in Objects, ~Holds(x, h),
         \A o \in Objects : Holds(o, h)' <=> Holds(o, h) \/ o = x
  PROVE  Cardinality(MembersOn(h)') = Cardinality(MembersOn(h)) + 1
<1>1. MembersOn(h) = {o \in Objects : Holds(o, h)} /\ MembersOn(h)' = {o \in Objects : Holds(o, h)'}
  BY DEF MembersOn, Holds
<1>2. MembersOn(h)' = MembersOn(h) \cup {x} /\ x \notin MembersOn(h)
  BY <1>1
<1>. QED BY <1>2, MembersCount, FS_AddElement

\* One member less.
LEMMA MembersLess ==
  ASSUME NEW h, NEW x \in Objects, Holds(x, h),
         \A o \in Objects : Holds(o, h)' <=> Holds(o, h) /\ o # x
  PROVE  Cardinality(MembersOn(h)') = Cardinality(MembersOn(h)) - 1
<1>1. MembersOn(h) = {o \in Objects : Holds(o, h)} /\ MembersOn(h)' = {o \in Objects : Holds(o, h)'}
  BY DEF MembersOn, Holds
<1>2. MembersOn(h)' = MembersOn(h) \ {x} /\ x \in MembersOn(h)
  BY <1>1
<1>. QED BY <1>2, MembersCount, FS_RemoveElement

\* The sum, when each part is known to change by so much.
LEMMA BalanceKept ==
  ASSUME Types, NEW h \in Handles, Balanced(h),
         NEW a \in Int, NEW b \in Int, NEW c \in Int,
         refs'[h] = refs[h] + a + b + c,
         Cardinality(Dues(h)') = Cardinality(Dues(h)) + a,
         Cardinality(MembersOn(h)') = Cardinality(MembersOn(h)) + b,
         Own(h)' - Owed(h)' = Own(h) - Owed(h) + c
  PROVE  Balanced(h)'
<1>1. /\ Cardinality(Dues(h)) \in Nat /\ Cardinality(MembersOn(h)) \in Nat
      /\ Own(h) \in Int /\ Owed(h) \in Int /\ Own(h)' \in Int /\ Owed(h)' \in Int
      /\ refs[h] \in Int
  BY DuesCount, MembersCount DEF Own, Owed, Types, TypeOK
<1>2. refs[h] = Cardinality(Dues(h)) + Cardinality(MembersOn(h)) + Own(h) - Owed(h)
  BY DEF Balanced
<1>3. ASSUME NEW D, D = Cardinality(Dues(h)'), NEW M, M = Cardinality(MembersOn(h)'),
             NEW O, O = Own(h)', NEW W, W = Owed(h)'
      PROVE  refs'[h] = D + M + O - W
  <2>1. D = Cardinality(Dues(h)) + a /\ M = Cardinality(MembersOn(h)) + b
        /\ O - W = Own(h) - Owed(h) + c /\ O \in Int /\ W \in Int
    BY <1>1, <1>3
  <2>. QED BY <1>1, <1>2, <2>1
<1>. QED BY <1>3 DEF Balanced

\* The places of one entry, after a step of a call.
LEMMA SameEntries ==
  ASSUME Types, NEW t, NEW n, NEW op, NEW h, Turns(t, n, op, h), NEW o, NEW g, op # o \/ h # g,
         \A d \in Nat : d >= n => ~On(t, d, o, g)'
  PROVE  \A u \in Threads, d \in Nat : On(u, d, o, g)' <=> On(u, d, o, g)
BY TurnStack

\* The same when the step puts one there.
LEMMA OneMore ==
  ASSUME Types, NEW t, NEW n, NEW op, NEW h, Turns(t, n, op, h), NEW o, NEW g, op # o \/ h # g,
         NEW k \in Nat, k >= n, \A d \in Nat : d >= n => (On(t, d, o, g)' <=> d = k)
  PROVE  /\ t \in Threads /\ ~On(t, k, o, g)
         /\ \A u \in Threads, d \in Nat : On(u, d, o, g)' <=> On(u, d, o, g) \/ (u = t /\ d = k)
<1>1. t \in Threads /\ n \in Nat
  BY TurnStack
<1>2. ~On(t, k, o, g)
  BY <1>1, TurnStack
<1>3. ASSUME NEW u \in Threads, NEW d \in Nat
      PROVE  On(u, d, o, g)' <=> On(u, d, o, g) \/ (u = t /\ d = k)
  <2>1. CASE u = t /\ d >= n
    BY <1>1, <2>1, TurnStack
  <2>2. CASE u # t \/ ~(d >= n)
    BY <1>1, <2>2, TurnStack
  <2>. QED BY <2>1, <2>2
<1>. QED BY <1>1, <1>2, <1>3

\* The same when the step does one and puts none.
LEMMA OneLess ==
  ASSUME Types, NEW t, NEW n, NEW o, NEW g, Turns(t, n, o, g),
         \A d \in Nat : d >= n => ~On(t, d, o, g)'
  PROVE  /\ t \in Threads /\ n \in Nat /\ On(t, n, o, g)
         /\ \A u \in Threads, d \in Nat : On(u, d, o, g)' <=> On(u, d, o, g) /\ ~(u = t /\ d = n)
<1>1. t \in Threads /\ n \in Nat /\ On(t, n, o, g)
  BY TurnStack
<1>2. ASSUME NEW u \in Threads, NEW d \in Nat
      PROVE  On(u, d, o, g)' <=> On(u, d, o, g) /\ ~(u = t /\ d = n)
  <2>1. CASE u = t /\ d >= n
    BY <1>1, <2>1, TurnStack
  <2>2. CASE u # t \/ ~(d >= n)
    BY <1>1, <2>2, TurnStack
  <2>. QED BY <2>1, <2>2
<1>. QED BY <1>1, <1>2

\* The places of one entry, after the start of a call.
LEMMA AtBegin ==
  ASSUME NEW t, Begins(t), NEW o, NEW g
  PROVE  /\ (\A d \in Nat : ~On(t, d, o, g)') =>
               \A u \in Threads, d \in Nat : On(u, d, o, g)' <=> On(u, d, o, g)
         /\ \A k \in Nat : (\A d \in Nat : On(t, d, o, g)' <=> d = k) =>
               /\ ~On(t, k, o, g)
               /\ \A u \in Threads, d \in Nat :
                     On(u, d, o, g)' <=> On(u, d, o, g) \/ (u = t /\ d = k)
BY BeginStack

\* The creation reference of h, and whether it is late, stay as they are.
LEMMA DebtSame ==
  ASSUME NEW h,
         life'[h] = "absent" <=> life[h] = "absent", closeReq'[h] = 0 <=> closeReq[h] = 0,
         \A u \in Threads, d \in Nat : On(u, d, "refInc", h)' <=> On(u, d, "refInc", h)
  PROVE  Own(h)' - Owed(h)' = Own(h) - Owed(h) + 0
<1>1. Own(h)' = Own(h)
  BY DEF Own, Constructed, Closing
<1>2. Somewhere("refInc", h)' <=> Somewhere("refInc", h)
  BY DEF Somewhere
<1>3. Owed(h)' = Owed(h)
  BY <1>2 DEF Owed, Constructed
<1>4. Own(h) \in Int /\ Owed(h) \in Int
  BY DEF Own, Owed
<1>5. ASSUME NEW O, O = Own(h)', NEW W, W = Owed(h)'
      PROVE  O - W = Own(h) - Owed(h) + 0
  BY <1>1, <1>3, <1>4, <1>5
<1>. QED BY <1>5

\* Nobody's references change.
LEMMA BalanceSame ==
  ASSUME Types, NEW h \in Handles, Balanced(h), refs'[h] = refs[h],
         \A g \in Handles : life'[g] = "absent" <=> life[g] = "absent",
         \A g \in Handles : /\ closeReq'[g] = 0 <=> closeReq[g] = 0
                            /\ closeReq'[g] < 2 <=> closeReq[g] < 2,
         \A u \in Threads, d \in Nat : On(u, d, "refInc", h)' <=> On(u, d, "refInc", h),
         \A u \in Threads, d \in Nat : On(u, d, "refDec", h)' <=> On(u, d, "refDec", h)
  PROVE  Balanced(h)'
<1>1. Cardinality(Dues(h)') = Cardinality(Dues(h)) + 0
  BY DuesSame, DuesCount
<1>2. Cardinality(MembersOn(h)') = Cardinality(MembersOn(h)) + 0
  <2>1. \A o \in Objects : Holds(o, h)' <=> Holds(o, h)
    BY DEF Holds, Constructed, Handles
  <2>. QED BY <2>1, MembersSame, MembersCount
<1>3. Own(h)' - Owed(h)' = Own(h) - Owed(h) + 0
  BY DebtSame
<1>4. refs'[h] = refs[h] + 0 + 0 + 0
  BY DEF Types, TypeOK
<1>. QED BY <1>1, <1>2, <1>3, <1>4, BalanceKept

\* A call takes a reference that it will give back, or gives one back.
LEMMA BalanceMoves ==
  ASSUME Types, NEW h \in Handles, Balanced(h), NEW t \in Threads, NEW n \in Nat,
         \A g \in Handles : life'[g] = "absent" <=> life[g] = "absent",
         \A g \in Handles : /\ closeReq'[g] = 0 <=> closeReq[g] = 0
                            /\ closeReq'[g] < 2 <=> closeReq[g] < 2,
         \A u \in Threads, d \in Nat : On(u, d, "refInc", h)' <=> On(u, d, "refInc", h),
         \/ /\ refs'[h] = refs[h] + 1 /\ ~On(t, n, "refDec", h)
            /\ \A u \in Threads, d \in Nat :
                  On(u, d, "refDec", h)' <=> On(u, d, "refDec", h) \/ (u = t /\ d = n)
         \/ /\ refs'[h] = refs[h] - 1 /\ On(t, n, "refDec", h)
            /\ \A u \in Threads, d \in Nat :
                  On(u, d, "refDec", h)' <=> On(u, d, "refDec", h) /\ ~(u = t /\ d = n)
  PROVE  Balanced(h)'
<1>1. Cardinality(MembersOn(h)') = Cardinality(MembersOn(h)) + 0
  <2>1. \A o \in Objects : Holds(o, h)' <=> Holds(o, h)
    BY DEF Holds, Constructed, Handles
  <2>. QED BY <2>1, MembersSame, MembersCount
<1>2. Own(h)' - Owed(h)' = Own(h) - Owed(h) + 0
  BY DebtSame
<1>3. refs[h] \in Int
  BY DEF Types, TypeOK
<1>4. CASE /\ refs'[h] = refs[h] + 1 /\ ~On(t, n, "refDec", h)
           /\ \A u \in Threads, d \in Nat :
                 On(u, d, "refDec", h)' <=> On(u, d, "refDec", h) \/ (u = t /\ d = n)
  <2>1. Cardinality(Dues(h)') = Cardinality(Dues(h)) + 1
    BY <1>4, DuesMore
  <2>2. refs'[h] = refs[h] + 1 + 0 + 0
    BY <1>3, <1>4
  <2>. QED BY <1>1, <1>2, <2>1, <2>2, BalanceKept
<1>5. CASE /\ refs'[h] = refs[h] - 1 /\ On(t, n, "refDec", h)
           /\ \A u \in Threads, d \in Nat :
                 On(u, d, "refDec", h)' <=> On(u, d, "refDec", h) /\ ~(u = t /\ d = n)
  <2>1. Cardinality(Dues(h)') = Cardinality(Dues(h)) + (-1)
    <3>1. Cardinality(Dues(h)') = Cardinality(Dues(h)) - 1
      BY <1>5, DuesLess
    <3>. QED BY <3>1, DuesCount
  <2>2. refs'[h] = refs[h] + (-1) + 0 + 0
    BY <1>3, <1>5
  <2>. QED BY <1>1, <1>2, <2>1, <2>2, BalanceKept
<1>. QED BY <1>4, <1>5

\* What the balance reads of the state, but for the counts.
Steady == /\ \A g \in Handles : life'[g] = "absent" <=> life[g] = "absent"
          /\ \A g \in Handles : /\ closeReq'[g] = 0 <=> closeReq[g] = 0
                                /\ closeReq'[g] < 2 <=> closeReq[g] < 2

\* A step of a call that has nothing to do with references.
LEMMA QuietTurn ==
  ASSUME Types, Balance, NEW t, NEW n, NEW op, NEW h, Turns(t, n, op, h),
         op \notin {"refDec", "refInc"}, refs' = refs, Steady,
         \A d \in Nat : \A o, g : d >= n /\ On(t, d, o, g)' => o \notin {"refDec", "refInc"}
  PROVE  Balance'
<1>1. ASSUME NEW g \in Handles PROVE Balanced(g)'
  <2>1. \A u \in Threads, d \in Nat : On(u, d, "refInc", g)' <=> On(u, d, "refInc", g)
    BY SameEntries
  <2>2. \A u \in Threads, d \in Nat : On(u, d, "refDec", g)' <=> On(u, d, "refDec", g)
    BY SameEntries
  <2>3. Balanced(g)
    BY DEF Balance
  <2>. QED BY <2>1, <2>2, <2>3, BalanceSame DEF Steady
<1>. QED BY <1>1 DEF Balance

\* A step of a call that takes a reference on h.
LEMMA RetrieveBalance ==
  ASSUME Types, Balance, NEW t, NEW n, NEW h, Retrieves(t, n, h)
  PROVE  Balance'
<1>1. /\ Turns(t, n, "assign", h) /\ OnlyOne(t, n, "refDec", h) /\ h \in Handles
      /\ refs' = [refs EXCEPT ![h] = @ + 1] /\ UNCHANGED <<life, closeReq>>
  BY DEF Retrieves, Handles, Objects
<1>2. t \in Threads /\ n \in Nat /\ refs \in [Handles -> Int]
  BY <1>1, TurnStack DEF Types, TypeOK
<1>3. \A d \in Nat : \A o, g : d >= n => (On(t, d, o, g)' <=> d = n /\ o = "refDec" /\ g = h)
  BY <1>1 DEF OnlyOne
<1>4. ASSUME NEW g \in Handles PROVE Balanced(g)'
  <2>1. \A u \in Threads, d \in Nat : On(u, d, "refInc", g)' <=> On(u, d, "refInc", g)
    BY <1>1, <1>3, SameEntries
  <2>2. Balanced(g)
    BY DEF Balance
  <2>3. CASE g # h
    <3>1. \A u \in Threads, d \in Nat : On(u, d, "refDec", g)' <=> On(u, d, "refDec", g)
      BY <1>1, <1>3, <2>3, SameEntries
    <3>2. refs'[g] = refs[g]
      BY <1>1, <1>2, <2>3
    <3>. QED BY <1>1, <2>1, <2>2, <3>1, <3>2, BalanceSame
  <2>4. CASE g = h
    <3>1. \A d \in Nat : d >= n => (On(t, d, "refDec", g)' <=> d = n)
      BY <1>3, <2>4
    <3>2. /\ ~On(t, n, "refDec", g)
          /\ \A u \in Threads, d \in Nat :
                On(u, d, "refDec", g)' <=> On(u, d, "refDec", g) \/ (u = t /\ d = n)
      BY <1>1, <1>2, <3>1, OneMore
    <3>3. refs'[g] = refs[g] + 1
      BY <1>1, <1>2, <2>4
    <3>. QED BY <1>1, <1>2, <2>1, <2>2, <3>2, <3>3, BalanceMoves
  <2>. QED BY <2>3, <2>4
<1>. QED BY <1>4 DEF Balance

\* A step of a call that gives a reference on h back, not the last one.
LEMMA GiveBackBalance ==
  ASSUME Types, Balance, NEW t, NEW n, NEW h, GivesBack(t, n, h)
  PROVE  Balance'
<1>1. /\ Turns(t, n, "refDec", h) /\ Nothing(t, n) /\ h \in Handles
      /\ refs' = [refs EXCEPT ![h] = @ - 1] /\ UNCHANGED <<life, closeReq>>
  BY DEF GivesBack
<1>2. t \in Threads /\ n \in Nat /\ refs \in [Handles -> Int]
  BY <1>1, TurnStack DEF Types, TypeOK
<1>3. \A d \in Nat : \A o, g : d >= n => ~On(t, d, o, g)'
  BY <1>1 DEF Nothing
<1>4. ASSUME NEW g \in Handles PROVE Balanced(g)'
  <2>1. \A u \in Threads, d \in Nat : On(u, d, "refInc", g)' <=> On(u, d, "refInc", g)
    BY <1>1, <1>3, SameEntries
  <2>2. Balanced(g)
    BY DEF Balance
  <2>3. CASE g # h
    <3>1. \A u \in Threads, d \in Nat : On(u, d, "refDec", g)' <=> On(u, d, "refDec", g)
      BY <1>1, <1>3, <2>3, SameEntries
    <3>2. refs'[g] = refs[g]
      BY <1>1, <1>2, <2>3
    <3>. QED BY <1>1, <2>1, <2>2, <3>1, <3>2, BalanceSame
  <2>4. CASE g = h
    <3>1. /\ On(t, n, "refDec", g)
          /\ \A u \in Threads, d \in Nat :
                On(u, d, "refDec", g)' <=> On(u, d, "refDec", g) /\ ~(u = t /\ d = n)
      BY <1>1, <1>3, <2>4, OneLess
    <3>2. refs'[g] = refs[g] - 1
      BY <1>1, <1>2, <2>4
    <3>. QED BY <1>1, <1>2, <2>1, <2>2, <3>1, <3>2, BalanceMoves
  <2>. QED BY <2>3, <2>4
<1>. QED BY <1>4 DEF Balance

\* The members of a new object hold references, and its creation reference
\* is late.
LEMMA ConstructBalance ==
  ASSUME Types, Creation, Present, Balance, NEW t, NEW n, NEW o, Constructs(t, n, o)
  PROVE  Balance'
<1>0. /\ life \in [Handles -> {"absent", "live", "collecting", "freed"}]
      /\ refs \in [Handles -> Int] /\ \A x \in Objects : x \in Handles /\ x # Db
      /\ closeReq \in [Handles -> 0..3]
      /\ "construct" \in Creates /\ "refInc" \in Creates
  BY KindsAreDistinct DEF Types, TypeOK, Handles, Creates
<1>1. /\ Turns(t, n, "construct", o) /\ Nothing(t, n) /\ o \in Objects
      /\ life' = [life EXCEPT ![o] = "live"] /\ closeReq' = closeReq
      /\ refs' = [h \in Handles |-> IF h = Db \/ (OnCf(o) /\ h = CfOf[o])
                                    THEN refs[h] + 1 ELSE refs[h]]
  BY DEF Constructs
<1>2. t \in Threads /\ n \in Nat /\ On(t, n, "construct", o)
  BY <1>1, TurnStack
<1>3. On(t, 1, "refInc", o) /\ life[o] = "absent" /\ closeReq[o] = 0
  <2>1. On(t, 1, "refInc", o) /\ n = Below("construct", o)
    BY <1>0, <1>1, <1>2 DEF Creation
  <2>2. life[o] = "absent"
    BY <1>1, <1>2, <2>1 DEF Creation
  <2>. QED BY <1>0, <1>1, <2>1, <2>2 DEF Present, Constructed
<1>4. ASSUME NEW g \in Handles PROVE Balanced(g)'
  <2>1. \A u \in Threads, d \in Nat : On(u, d, "refInc", g)' <=> On(u, d, "refInc", g)
    BY <1>1, SameEntries DEF Nothing
  <2>2. \A u \in Threads, d \in Nat : On(u, d, "refDec", g)' <=> On(u, d, "refDec", g)
    BY <1>1, SameEntries DEF Nothing
  <2>3. Cardinality(Dues(g)') = Cardinality(Dues(g)) + 0
    BY <2>2, DuesSame, DuesCount
  <2>4. Balanced(g) /\ refs[g] \in Int
    BY <1>0 DEF Balance
  <2>5. Own(g)' - Owed(g)' = Own(g) - Owed(g) + 0
    <3>1. CASE g # o
      <4>1. life'[g] = life[g]
        BY <1>0, <1>1, <3>1
      <4>. QED BY <1>1, <2>1, <4>1, DebtSame
    <3>2. CASE g = o
      <4>1. Own(g) = 0 /\ Owed(g) = 0
        BY <1>3, <3>2 DEF Own, Owed, Constructed
      <4>2. Own(g)' = 1
        BY <1>0, <1>1, <1>3, <3>2 DEF Own, Constructed, Closing
      <4>3. Owed(g)' = 1
        BY <1>0, <1>1, <1>2, <1>3, <2>1, <3>2 DEF Owed, Constructed, Somewhere
      <4>. QED BY <4>1, <4>2, <4>3
    <3>. QED BY <3>1, <3>2
  <2>6. CASE g = Db \/ (OnCf(o) /\ g = CfOf[o])
    <3>1. ~Holds(o, g)
      BY <1>3 DEF Holds, Constructed
    <3>2. ASSUME NEW x \in Objects PROVE Holds(x, g)' <=> Holds(x, g) \/ x = o
      <4>1. CASE x # o
        <5>1. life'[x] = life[x]
          BY <1>0, <1>1, <4>1
        <5>. QED BY <1>1, <4>1, <5>1 DEF Holds, Constructed
      <4>2. CASE x = o
        <5>1. life'[x] = "live" /\ closeReq'[x] = 0
          BY <1>0, <1>1, <1>3, <4>2
        <5>. QED BY <2>6, <4>2, <5>1 DEF Holds, Constructed
      <4>. QED BY <4>1, <4>2
    <3>3. Cardinality(MembersOn(g)') = Cardinality(MembersOn(g)) + 1
      BY <1>1, <3>1, <3>2, MembersMore
    <3>4. refs'[g] = refs[g] + 0 + 1 + 0
      BY <1>1, <2>4, <2>6
    <3>. QED BY <2>3, <2>4, <2>5, <3>3, <3>4, BalanceKept
  <2>7. CASE ~(g = Db \/ (OnCf(o) /\ g = CfOf[o]))
    <3>1. ASSUME NEW x \in Objects PROVE Holds(x, g)' <=> Holds(x, g)
      <4>1. CASE x # o
        <5>1. life'[x] = life[x]
          BY <1>0, <1>1, <4>1
        <5>. QED BY <1>1, <4>1, <5>1 DEF Holds, Constructed
      <4>2. CASE x = o
        BY <2>7, <4>2 DEF Holds
      <4>. QED BY <4>1, <4>2
    <3>2. Cardinality(MembersOn(g)') = Cardinality(MembersOn(g)) + 0
      BY <3>1, MembersSame, MembersCount
    <3>3. refs'[g] = refs[g] + 0 + 0 + 0
      BY <1>1, <2>4, <2>7
    <3>. QED BY <2>3, <2>4, <2>5, <3>2, <3>3, BalanceKept
  <2>. QED BY <2>6, <2>7
<1>. QED BY <1>4 DEF Balance

\* The creation reference is late no more.
LEMMA CountBalance ==
  ASSUME Types, Creation, Present, Balance, NEW t, NEW n, NEW o, Counts(t, n, o)
  PROVE  Balance'
<1>0. refs \in [Handles -> Int] /\ "refInc" \in Creates
  BY DEF Types, TypeOK, Creates
<1>1. /\ Turns(t, n, "refInc", o) /\ Nothing(t, n) /\ o \in Objects /\ o \in Handles
      /\ refs' = [refs EXCEPT ![o] = @ + 1] /\ UNCHANGED <<life, closeReq>>
  BY DEF Counts, Handles
<1>2. t \in Threads /\ n \in Nat /\ On(t, n, "refInc", o) /\ life[o] # "absent"
  BY <1>1, TurnStack, TopIsThere
<1>3. \A d \in Nat : \A c, g : d >= n => ~On(t, d, c, g)'
  BY <1>1 DEF Nothing
<1>4. ASSUME NEW g \in Handles PROVE Balanced(g)'
  <2>1. \A u \in Threads, d \in Nat : On(u, d, "refDec", g)' <=> On(u, d, "refDec", g)
    BY <1>1, <1>3, SameEntries
  <2>2. Balanced(g) /\ refs[g] \in Int
    BY <1>0 DEF Balance
  <2>3. CASE g # o
    <3>1. \A u \in Threads, d \in Nat : On(u, d, "refInc", g)' <=> On(u, d, "refInc", g)
      BY <1>1, <1>3, <2>3, SameEntries
    <3>2. refs'[g] = refs[g]
      BY <1>0, <1>1, <2>3
    <3>. QED BY <1>1, <2>1, <2>2, <3>1, <3>2, BalanceSame
  <2>4. CASE g = o
    <3>1. Cardinality(Dues(g)') = Cardinality(Dues(g)) + 0
      BY <2>1, DuesSame, DuesCount
    <3>2. Cardinality(MembersOn(g)') = Cardinality(MembersOn(g)) + 0
      <4>1. \A x \in Objects : Holds(x, g)' <=> Holds(x, g)
        BY <1>1 DEF Holds, Constructed
      <4>. QED BY <4>1, MembersSame, MembersCount
    <3>3. Owed(g) = 1
      BY <1>2, <2>4 DEF Owed, Constructed, Somewhere
    <3>4. Owed(g)' = 0
      <4>1. \A u \in Threads, d \in Nat :
               On(u, d, "refInc", o)' => On(u, d, "refInc", o) /\ ~(u = t /\ d = n)
        BY <1>1, <1>3, OneLess
      <4>2. \A u \in Threads, d \in Nat : On(u, d, "refInc", o) => u = t /\ d = n
        <5>1. \A u \in Threads, d \in Nat : On(u, d, "refInc", o) => d = 1 /\ On(u, 1, "refInc", o)
          BY <1>0, <1>1, BelowIs DEF Creation
        <5>2. \A u \in Threads : On(u, 1, "refInc", o) => u = t
          BY <1>1, <1>2, <5>1 DEF Creation
        <5>. QED BY <1>2, <5>1, <5>2
      <4>3. ~Somewhere("refInc", o)'
        BY <4>1, <4>2 DEF Somewhere
      <4>. QED BY <2>4, <4>3 DEF Owed
    <3>5. Own(g)' = Own(g) /\ Own(g) \in Int
      BY <1>1 DEF Own, Constructed, Closing
    <3>6. Own(g)' - Owed(g)' = Own(g) - Owed(g) + 1
      <4>1. ASSUME NEW O, O = Own(g)', NEW W, W = Owed(g)' PROVE O - W = Own(g) - Owed(g) + 1
        BY <3>3, <3>4, <3>5, <4>1
      <4>. QED BY <4>1
    <3>7. refs'[g] = refs[g] + 0 + 0 + 1
      BY <1>0, <1>1, <2>2, <2>4
    <3>. QED BY <2>2, <3>1, <3>2, <3>6, <3>7, BalanceKept
  <2>. QED BY <2>3, <2>4
<1>. QED BY <1>4 DEF Balance

\* A close request leaves the creation reference to Shutdown.
LEMMA CloseBalance ==
  ASSUME Types, Creation, Present, Balance, NEW t, NEW n, NEW h, Closes(t, n, h)
  PROVE  Balance'
<1>0. refs \in [Handles -> Int] /\ closeReq \in [Handles -> 0..3] /\ "refInc" \notin Lists
      /\ "refDec" \notin Lists
  BY DEF Types, TypeOK, Lists
<1>1. /\ Turns(t, n, "initiate", h) /\ h \in Handles /\ closeReq[h] = 0
      /\ closeReq' = [closeReq EXCEPT ![h] = 1] /\ UNCHANGED <<life, refs>>
      /\ On(t, n, "refDec", h)'
      /\ \A d \in Nat : \A o, g : d >= n /\ On(t, d, o, g)' =>
            g = h /\ ((d = n /\ o = "refDec") \/ (d > n /\ o \in Lists))
  BY DEF Closes
<1>2. t \in Threads /\ n \in Nat /\ life[h] # "absent"
  BY <1>1, TurnStack, TopIsThere
<1>3. ASSUME NEW g \in Handles PROVE Balanced(g)'
  <2>1. \A u \in Threads, d \in Nat : On(u, d, "refInc", g)' <=> On(u, d, "refInc", g)
    BY <1>0, <1>1, SameEntries
  <2>2. Balanced(g) /\ refs[g] \in Int
    BY <1>0 DEF Balance
  <2>3. Cardinality(MembersOn(g)') = Cardinality(MembersOn(g)) + 0
    <3>1. \A x \in Handles : closeReq'[x] < 2 <=> closeReq[x] < 2
      BY <1>0, <1>1
    <3>2. \A x \in Objects : Holds(x, g)' <=> Holds(x, g)
      BY <1>1, <3>1 DEF Holds, Constructed, Handles
    <3>. QED BY <3>2, MembersSame, MembersCount
  <2>4. CASE g # h
    <3>1. \A u \in Threads, d \in Nat : On(u, d, "refDec", g)' <=> On(u, d, "refDec", g)
      BY <1>1, <2>4, SameEntries
    <3>2. Cardinality(Dues(g)') = Cardinality(Dues(g)) + 0
      BY <3>1, DuesSame, DuesCount
    <3>3. Own(g)' - Owed(g)' = Own(g) - Owed(g) + 0
      <4>1. closeReq'[g] = closeReq[g]
        BY <1>0, <1>1, <2>4
      <4>. QED BY <1>1, <2>1, <4>1, DebtSame
    <3>4. refs'[g] = refs[g] + 0 + 0 + 0
      BY <1>1, <2>2
    <3>. QED BY <2>2, <2>3, <3>2, <3>3, <3>4, BalanceKept
  <2>5. CASE g = h
    <3>1. \A d \in Nat : d >= n => (On(t, d, "refDec", g)' <=> d = n)
      BY <1>0, <1>1, <2>5
    <3>2. /\ ~On(t, n, "refDec", g)
          /\ \A u \in Threads, d \in Nat :
                On(u, d, "refDec", g)' <=> On(u, d, "refDec", g) \/ (u = t /\ d = n)
      BY <1>1, <1>2, <3>1, OneMore
    <3>3. Cardinality(Dues(g)') = Cardinality(Dues(g)) + 1
      BY <1>2, <3>2, DuesMore
    <3>4. Own(g)' - Owed(g)' = Own(g) - Owed(g) + (-1)
      <4>1. Own(g) = 1 /\ Own(g)' = 0
        BY <1>0, <1>1, <1>2, <2>5 DEF Own, Constructed, Closing
      <4>2. Somewhere("refInc", g)' <=> Somewhere("refInc", g)
        BY <2>1 DEF Somewhere
      <4>3. Owed(g)' = Owed(g) /\ Owed(g) \in Int
        BY <1>1, <4>2 DEF Owed, Constructed
      <4>4. ASSUME NEW O, O = Own(g)', NEW W, W = Owed(g)' PROVE O - W = Own(g) - Owed(g) + (-1)
        BY <4>1, <4>3, <4>4
      <4>. QED BY <4>4
    <3>5. refs'[g] = refs[g] + 1 + 0 + (-1)
      BY <1>1, <2>2
    <3>. QED BY <2>2, <2>3, <3>3, <3>4, <3>5, BalanceKept
  <2>. QED BY <2>4, <2>5
<1>. QED BY <1>3 DEF Balance

\* A destructor gives back the references its members hold.
LEMMA DestroyBalance ==
  ASSUME Types, Creation, Present, Balance, NEW t, NEW n, NEW h, Destroys(t, n, h)
  PROVE  Balance'
<1>0. /\ refs \in [Handles -> Int] /\ closeReq \in [Handles -> 0..3]
      /\ \A x \in Objects : x \in Handles /\ x # Db
      /\ \A i \in Itrs : OnCf(i) => CfOf[i] \in Cfs
      /\ \A i \in Itrs, c \in Cfs : i # c
      /\ \A c \in Cfs : c \in Objects
  BY KindsAreDistinct, CfOfType DEF Types, TypeOK, Handles, OnCf, Objects
<1>1. /\ Turns(t, n, "refDec", h) /\ h \in Handles /\ closeReq[h] = 1
      /\ \A d \in Nat : \A o, g : d >= n => (On(t, d, o, g)' <=> Falls(n, h, d, o, g))
      /\ refs' = [refs EXCEPT ![h] = @ - 1] /\ closeReq' = [closeReq EXCEPT ![h] = 2]
      /\ life' = life
  BY DEF Destroys
<1>2. t \in Threads /\ n \in Nat /\ On(t, n, "refDec", h) /\ life[h] # "absent"
  BY <1>1, TurnStack, TopIsThere DEF Creates
<1>. DEFINE Held(g) == h # Db /\ (g = Db \/ (OnCf(h) /\ g = CfOf[h]))
            p(g) == IF g = Db /\ OnCf(h) THEN n + 2 ELSE n + 1
<1>3. ASSUME NEW d \in Nat, NEW g \in Handles, d >= n
      PROVE  /\ ~On(t, d, "refInc", g)'
             /\ On(t, d, "refDec", g)' <=> Held(g) /\ d = p(g)
  <2>1. /\ On(t, d, "refInc", g)' <=> Falls(n, h, d, "refInc", g)
        /\ On(t, d, "refDec", g)' <=> Falls(n, h, d, "refDec", g)
    BY <1>1, <1>3
  <2>2. ~Falls(n, h, d, "refInc", g)
    BY DEF Falls
  <2>3. Falls(n, h, d, "refDec", g) <=> Held(g) /\ d = p(g)
    <3>1. OnCf(h) => CfOf[h] # Db
      BY <1>0 DEF OnCf
    <3>. QED BY <3>1 DEF Falls
  <2>. QED BY <2>1, <2>2, <2>3
<1>4. ~Held(h)
  BY <1>0 DEF OnCf
<1>5. ASSUME NEW g \in Handles, NEW x \in Objects
      PROVE  Holds(x, g)' <=> Holds(x, g) /\ ~(Held(g) /\ x = h)
  <2>1. CASE x # h
    <3>1. closeReq'[x] = closeReq[x]
      BY <1>0, <1>1, <2>1
    <3>. QED BY <1>1, <2>1, <3>1 DEF Holds, Constructed
  <2>2. CASE x = h
    <3>1. closeReq'[x] = 2
      BY <1>0, <1>1, <2>2
    <3>2. ~Holds(x, g)'
      BY <3>1 DEF Holds
    <3>3. Holds(x, g) => Held(g)
      BY <1>0, <2>2 DEF Holds
    <3>. QED BY <2>2, <3>2, <3>3
  <2>. QED BY <2>1, <2>2
<1>6. ASSUME NEW g \in Handles, Held(g) PROVE h \in Objects /\ Holds(h, g)
  BY <1>0, <1>1, <1>2, <1>6 DEF Holds, Constructed, Handles
<1>7. \A g \in Handles : p(g) \in Nat /\ p(g) >= n
  BY <1>2
<1>. HIDE DEF Held, p
<1>8. ASSUME NEW g \in Handles PROVE Balanced(g)'
  <2>1. \A u \in Threads, d \in Nat : On(u, d, "refInc", g)' <=> On(u, d, "refInc", g)
    BY <1>1, <1>3, SameEntries
  <2>2. Balanced(g) /\ refs[g] \in Int
    BY <1>0 DEF Balance
  <2>3. Own(g)' - Owed(g)' = Own(g) - Owed(g) + 0
    <3>1. closeReq'[g] = 0 <=> closeReq[g] = 0
      BY <1>0, <1>1
    <3>. QED BY <1>1, <2>1, <3>1, DebtSame
  <2>4. CASE Held(g)
    <3>1. g # h
      BY <1>4, <2>4
    <3>2. \A d \in Nat : d >= n => (On(t, d, "refDec", g)' <=> d = p(g))
      BY <1>3, <2>4
    <3>3. /\ ~On(t, p(g), "refDec", g)
          /\ \A u \in Threads, d \in Nat :
                On(u, d, "refDec", g)' <=> On(u, d, "refDec", g) \/ (u = t /\ d = p(g))
      BY <1>1, <1>2, <1>7, <3>1, <3>2, OneMore
    <3>4. Cardinality(Dues(g)') = Cardinality(Dues(g)) + 1
      BY <1>2, <1>7, <3>3, DuesMore
    <3>5. Cardinality(MembersOn(g)') = Cardinality(MembersOn(g)) + (-1)
      <4>1. h \in Objects /\ Holds(h, g)
        BY <1>6, <2>4
      <4>2. \A x \in Objects : Holds(x, g)' <=> Holds(x, g) /\ x # h
        BY <1>5, <2>4
      <4>3. Cardinality(MembersOn(g)') = Cardinality(MembersOn(g)) - 1
        BY <4>1, <4>2, MembersLess
      <4>. QED BY <4>3, MembersCount
    <3>6. refs'[g] = refs[g] + 1 + (-1) + 0
      BY <1>0, <1>1, <2>2, <3>1
    <3>. QED BY <2>2, <2>3, <3>4, <3>5, <3>6, BalanceKept
  <2>5. CASE ~Held(g)
    <3>1. Cardinality(MembersOn(g)') = Cardinality(MembersOn(g)) + 0
      <4>1. \A x \in Objects : Holds(x, g)' <=> Holds(x, g)
        BY <1>5, <2>5
      <4>. QED BY <4>1, MembersSame, MembersCount
    <3>2. \A d \in Nat : d >= n => ~On(t, d, "refDec", g)'
      BY <1>3, <2>5
    <3>3. CASE g = h
      <4>1. \A u \in Threads, d \in Nat :
                On(u, d, "refDec", g)' <=> On(u, d, "refDec", g) /\ ~(u = t /\ d = n)
        BY <1>1, <3>2, <3>3, OneLess
      <4>2. Cardinality(Dues(g)') = Cardinality(Dues(g)) + (-1)
        <5>1. Cardinality(Dues(g)') = Cardinality(Dues(g)) - 1
          BY <1>2, <3>3, <4>1, DuesLess
        <5>. QED BY <5>1, DuesCount
      <4>3. refs'[g] = refs[g] + (-1) + 0 + 0
        BY <1>0, <1>1, <2>2, <3>3
      <4>. QED BY <2>2, <2>3, <3>1, <4>2, <4>3, BalanceKept
    <3>4. CASE g # h
      <4>1. \A u \in Threads, d \in Nat : On(u, d, "refDec", g)' <=> On(u, d, "refDec", g)
        BY <1>1, <3>2, <3>4, SameEntries
      <4>2. Cardinality(Dues(g)') = Cardinality(Dues(g)) + 0
        BY <4>1, DuesSame, DuesCount
      <4>3. refs'[g] = refs[g] + 0 + 0 + 0
        BY <1>0, <1>1, <2>2, <3>4
      <4>. QED BY <2>2, <2>3, <3>1, <4>2, <4>3, BalanceKept
    <3>. QED BY <3>3, <3>4
  <2>. QED BY <2>4, <2>5
<1>. QED BY <1>8 DEF Balance

\* A call that starts takes one reference each on the handles of B.
LEMMA BeginBalance ==
  ASSUME Types, Balance, NEW t, Begins(t), Steady,
         NEW B \in SUBSET Handles, NEW p \in [Handles -> Nat],
         \A g \in Handles, d \in Nat : On(t, d, "refDec", g)' <=> g \in B /\ d = p[g],
         \A g \in Handles : refs'[g] = IF g \in B THEN refs[g] + 1 ELSE refs[g],
         \A g \in Handles, d \in Nat : On(t, d, "refInc", g)' => life[g] = "absent"
  PROVE  Balance'
<1>1. t \in Threads
  BY BeginStack
<1>2. ASSUME NEW g \in Handles PROVE Balanced(g)'
  <2>1. Balanced(g) /\ refs[g] \in Int /\ p[g] \in Nat
    BY DEF Balance, Types, TypeOK
  <2>2. Own(g)' - Owed(g)' = Own(g) - Owed(g) + 0
    <3>1. CASE life[g] = "absent"
      BY <3>1 DEF Own, Owed, Constructed, Steady
    <3>2. CASE life[g] # "absent"
      <4>1. \A u \in Threads, d \in Nat : On(u, d, "refInc", g)' <=> On(u, d, "refInc", g)
        BY <3>2, AtBegin
      <4>. QED BY <4>1, DebtSame DEF Steady
    <3>. QED BY <3>1, <3>2
  <2>3. Cardinality(MembersOn(g)') = Cardinality(MembersOn(g)) + 0
    <3>1. \A o \in Objects : Holds(o, g)' <=> Holds(o, g)
      BY DEF Holds, Constructed, Handles, Steady
    <3>. QED BY <3>1, MembersSame, MembersCount
  <2>4. CASE g \in B
    <3>1. /\ ~On(t, p[g], "refDec", g)
          /\ \A u \in Threads, d \in Nat :
                On(u, d, "refDec", g)' <=> On(u, d, "refDec", g) \/ (u = t /\ d = p[g])
      BY <2>1, <2>4, AtBegin
    <3>2. Cardinality(Dues(g)') = Cardinality(Dues(g)) + 1
      BY <1>1, <2>1, <3>1, DuesMore
    <3>3. refs'[g] = refs[g] + 1 + 0 + 0
      BY <2>1, <2>4
    <3>. QED BY <2>1, <2>2, <2>3, <3>2, <3>3, BalanceKept
  <2>5. CASE g \notin B
    <3>1. \A u \in Threads, d \in Nat : On(u, d, "refDec", g)' <=> On(u, d, "refDec", g)
      BY <2>5, AtBegin
    <3>2. Cardinality(Dues(g)') = Cardinality(Dues(g)) + 0
      BY <3>1, DuesSame, DuesCount
    <3>3. refs'[g] = refs[g] + 0 + 0 + 0
      BY <2>1, <2>5
    <3>. QED BY <2>1, <2>2, <2>3, <3>2, <3>3, BalanceKept
  <2>. QED BY <2>4, <2>5
<1>. QED BY <1>2 DEF Balance

\* Every call starts so.
LEMMA BeginningBalance ==
  ASSUME Types, Balance, NEW t, Beginning(t)
  PROVE  Balance'
<1>0. /\ refs \in [Handles -> Int] /\ life \in [Handles -> {"absent", "live", "collecting", "freed"}]
      /\ Db \in Handles /\ \A s \in Snaps : s \in Handles /\ s # Db
      /\ "refDec" \notin Creates
  BY KindsAreDistinct DEF Types, TypeOK, Handles, Objects, Creates
<1>. DEFINE p0 == [g \in Handles |-> 0]
<1>1. ASSUME NEW h \in Handles, Borrows(t, h) PROVE Balance'
  <2>1. /\ Begins(t) /\ Steady /\ refs' = [refs EXCEPT ![h] = @ + 1]
        /\ On(t, 0, "refDec", h)'
        /\ \A d \in Nat : \A o, g : On(t, d, o, g)' =>
              g = h /\ ((d = 0 /\ o = "refDec") \/ (d > 0 /\ o \in {"use", "drop", "release", "initiate"}))
    BY <1>1 DEF Borrows, Steady
  <2>2. \A g \in Handles, d \in Nat : On(t, d, "refDec", g)' <=> g \in {h} /\ d = p0[g]
    BY <2>1
  <2>3. \A g \in Handles, d \in Nat : ~On(t, d, "refInc", g)'
    BY <2>1
  <2>4. \A g \in Handles : refs'[g] = IF g \in {h} THEN refs[g] + 1 ELSE refs[g]
    BY <1>0, <2>1
  <2>5. p0 \in [Handles -> Nat] /\ {h} \in SUBSET Handles
    OBVIOUS
  <2>. HIDE DEF p0
  <2>. QED BY <2>1, <2>2, <2>3, <2>4, <2>5, BeginBalance
<1>2. ASSUME NEW s \in Handles, ReadsSnapshot(t, s) PROVE Balance'
  <2>1. /\ Begins(t) /\ Steady /\ refs' = [refs EXCEPT ![Db] = @ + 1]
        /\ \A d \in Nat : \A o, g : On(t, d, o, g)' <=> \/ d = 1 /\ o = "retrieveSnapshot" /\ g = s
                                                        \/ d = 0 /\ o = "refDec" /\ g = Db
    BY <1>2 DEF ReadsSnapshot, Steady
  <2>2. \A g \in Handles, d \in Nat : On(t, d, "refDec", g)' <=> g \in {Db} /\ d = p0[g]
    BY <1>0, <2>1
  <2>3. \A g \in Handles, d \in Nat : On(t, d, "refInc", g)' => life[g] = "absent"
    BY <2>1
  <2>4. \A g \in Handles : refs'[g] = IF g \in {Db} THEN refs[g] + 1 ELSE refs[g]
    BY <1>0, <2>1
  <2>5. p0 \in [Handles -> Nat] /\ {Db} \in SUBSET Handles
    BY <1>0
  <2>6. Begins(t) /\ Steady
    BY <2>1
  <2>. HIDE DEF p0
  <2>. QED BY <2>6, <2>2, <2>3, <2>4, <2>5, BeginBalance
<1>3. ASSUME NEW o \in Handles, Creating(t, o) PROVE Balance'
  <2>1. /\ Begins(t) /\ Steady /\ refs' = [refs EXCEPT ![Db] = @ + 1]
        /\ life[o] = "absent"
    BY <1>3 DEF Creating, Steady
  <2>2. ASSUME NEW d \in Nat, NEW op, NEW g
        PROVE  On(t, d, op, g)' <=>
                  \/ d = 0 /\ op = "refDec" /\ g = Db
                  \/ op \in Creates /\ g = o /\ d = Below(op, o) /\ (op = "linkCf" => OnCf(o))
                  \/ OnCf(o) /\ d = 5 /\ op = "retrieveCf" /\ g = CfOf[o]
    BY <1>3 DEF Creating
  <2>3. \A g \in Handles, d \in Nat : On(t, d, "refDec", g)' <=> g \in {Db} /\ d = p0[g]
    BY <1>0, <2>2
  <2>4. \A g \in Handles, d \in Nat : On(t, d, "refInc", g)' => life[g] = "absent"
    BY <2>1, <2>2
  <2>5. \A g \in Handles : refs'[g] = IF g \in {Db} THEN refs[g] + 1 ELSE refs[g]
    BY <1>0, <2>1
  <2>6. p0 \in [Handles -> Nat] /\ {Db} \in SUBSET Handles
    BY <1>0
  <2>. HIDE DEF p0
  <2>. QED BY <2>1, <2>3, <2>4, <2>5, <2>6, BeginBalance
<1>4. ASSUME NEW h \in Handles, Requests(t, h) \/ Collects(t, h) PROVE Balance'
  <2>1. Begins(t) /\ refs' = refs
    BY <1>4 DEF Requests, Collects, SameState
  <2>2. Steady
    <3>1. CASE Requests(t, h)
      BY <3>1 DEF Requests, SameState, Steady
    <3>2. CASE Collects(t, h)
      BY <1>0, <3>2 DEF Collects, Steady
    <3>. QED BY <1>4, <3>1, <3>2
  <2>3. \A d \in Nat : \A o, g : On(t, d, o, g)' => o \notin {"refDec", "refInc"}
    BY <1>4 DEF Requests, Collects, OnlyOne
  <2>4. \A g \in Handles, d \in Nat : On(t, d, "refDec", g)' <=> g \in {} /\ d = p0[g]
    BY <2>3
  <2>5. \A g \in Handles, d \in Nat : ~On(t, d, "refInc", g)'
    BY <2>3
  <2>6. \A g \in Handles : refs'[g] = IF g \in {} THEN refs[g] + 1 ELSE refs[g]
    BY <2>1
  <2>7. p0 \in [Handles -> Nat] /\ {} \in SUBSET Handles
    OBVIOUS
  <2>. HIDE DEF p0
  <2>. QED BY <2>1, <2>2, <2>4, <2>5, <2>6, <2>7, BeginBalance
<1>. QED BY <1>1, <1>2, <1>3, <1>4 DEF Beginning

\* Every step keeps the balance.
LEMMA BalanceStep ==
  ASSUME Types, Nesting, Balance, [Next]_vars
  PROVE  Balance'
<1>0. /\ life \in [Handles -> {"absent", "live", "collecting", "freed"}]
      /\ closeReq \in [Handles -> 0..3] /\ \A o \in Objects : o \in Handles
      /\ Creation /\ Present /\ Destruction /\ Lists \cap {"refDec", "refInc"} = {}
  BY DEF Types, TypeOK, Nesting, Lists, Handles
<1>1. ASSUME Neutral PROVE Balance'
  <2>1. /\ UNCHANGED <<life, closeReq, refs>>
        /\ \A u \in Threads, d \in Nat : \A o, g : On(u, d, o, g)' <=> On(u, d, o, g)
    BY <1>1, NeutralStack DEF Neutral
  <2>2. \A g \in Handles : Balanced(g)'
    BY <2>1, BalanceSame DEF Balance
  <2>. QED BY <2>2 DEF Balance
<1>2. ASSUME NEW t, NEW n, NEW op, NEW h, Turns(t, n, op, h), Nothing(t, n),
             op \notin {"refDec", "refInc"}, refs' = refs, Steady
      PROVE  Balance'
  <2>1. \A d \in Nat : \A o, g : d >= n /\ On(t, d, o, g)' => o \notin {"refDec", "refInc"}
    BY <1>2 DEF Nothing
  <2>. QED BY <1>2, <2>1, QuietTurn
<1>3. ASSUME NEW t \in Threads, NEW n \in Nat, NEW h \in Handles, NEW op \in Operations,
             \/ Passes(t, n, op, h)
             \/ \E new \in Operations : Goes(t, n, op, h, new)
             \/ Links(t, n, op, h) \/ Unlinks(t, n, op, h)
             \/ \E w \in Owners : Drains(t, n, op, w, h)
      PROVE  Balance'
  <2>0. refs' = refs /\ Steady
    BY <1>3 DEF Passes, Goes, Links, Unlinks, Drains, SameState, Steady
  <2>1. CASE Passes(t, n, op, h)
    <3>1. Turns(t, n, op, h) /\ Nothing(t, n) /\ op \notin {"refDec", "refInc"}
      BY <1>0, <2>1 DEF Passes
    <3>. QED BY <1>2, <2>0, <3>1
  <2>2. CASE Links(t, n, op, h) \/ Unlinks(t, n, op, h)
    <3>1. Turns(t, n, op, h) /\ Nothing(t, n) /\ op \notin {"refDec", "refInc"}
      BY <2>2 DEF Links, Unlinks
    <3>. QED BY <1>2, <2>0, <3>1
  <2>3. ASSUME NEW new \in Operations, Goes(t, n, op, h, new) PROVE Balance'
    <3>1. /\ Turns(t, n, op, h) /\ op \notin {"refDec", "refInc"}
          /\ OnlyOne(t, n, new, h) /\ new \notin {"refDec", "refInc"}
      BY <2>3 DEF Goes
    <3>2. \A d \in Nat : \A o, g : d >= n /\ On(t, d, o, g)' => o \notin {"refDec", "refInc"}
      BY <3>1 DEF OnlyOne
    <3>. QED BY <2>0, <3>1, <3>2, QuietTurn
  <2>4. ASSUME NEW w \in Owners, Drains(t, n, op, w, h) PROVE Balance'
    <3>1. /\ Turns(t, n, op, w) /\ op \notin {"refDec", "refInc"}
          /\ OnlyTwo(t, n, "initiate", h, op, w)
      BY <1>0, <2>4 DEF Drains
    <3>2. \A d \in Nat : \A o, g : d >= n /\ On(t, d, o, g)' => o \notin {"refDec", "refInc"}
      BY <3>1 DEF OnlyTwo
    <3>. QED BY <2>0, <3>1, <3>2, QuietTurn
  <2>. QED BY <1>3, <2>1, <2>2, <2>3, <2>4
<1>4. ASSUME NEW t \in Threads, NEW n \in Nat, NEW h \in Handles,
             Deletes(t, n) \/ Finishes(t, n, h) \/ Frees(t, n, h)
      PROVE  Balance'
  <2>1. CASE Deletes(t, n)
    BY <1>2, <2>1 DEF Deletes, Steady
  <2>2. CASE Finishes(t, n, h)
    <3>1. /\ Turns(t, n, "done", h) /\ Nothing(t, n) /\ refs' = refs /\ life' = life
          /\ closeReq' = [closeReq EXCEPT ![h] = 3]
      BY <2>2 DEF Finishes
    <3>2. closeReq[h] = 2
      BY <1>0, <3>1, TurnStack DEF Destruction, Somewhere
    <3>3. Steady
      BY <1>0, <3>1, <3>2 DEF Steady
    <3>. QED BY <1>2, <3>1, <3>3
  <2>3. CASE Frees(t, n, h)
    <3>1. /\ Turns(t, n, "await", h) /\ Nothing(t, n) /\ refs' = refs /\ closeReq' = closeReq
          /\ life' = [life EXCEPT ![h] = "freed"]
      BY <2>3 DEF Frees
    <3>2. life[h] # "absent"
      BY <1>0, <3>1, TopIsThere
    <3>3. Steady
      BY <1>0, <3>1, <3>2 DEF Steady
    <3>. QED BY <1>2, <3>1, <3>3
  <2>. QED BY <1>4, <2>1, <2>2, <2>3
<1>6. ASSUME NEW t \in Threads, NEW n \in Nat, NEW h \in Handles, Reads(t, n, h) PROVE Balance'
  <2>1. /\ Turns(t, n, "retrieveSnapshot", h) /\ OnlyTwo(t, n, "assign", h, "use", h)
        /\ refs' = refs /\ Steady
    BY <1>6 DEF Reads, SameState, Steady
  <2>2. \A d \in Nat : \A o, g : d >= n /\ On(t, d, o, g)' => o \notin {"refDec", "refInc"}
    BY <2>1 DEF OnlyTwo
  <2>. QED BY <2>1, <2>2, QuietTurn
<1>5. ASSUME NEW t \in Threads, Turn(t) PROVE Balance'
  BY <1>0, <1>3, <1>4, <1>6, <1>5, RetrieveBalance, ConstructBalance, CountBalance, CloseBalance,
     GiveBackBalance, DestroyBalance DEF Turn
<1>. QED BY <1>1, <1>5, NextIs, BeginningBalance

\* At the start nothing is in progress.
LEMMA NestingAtStart == Init => Nesting
<1>. SUFFICES ASSUME Init PROVE Nesting
  OBVIOUS
<1>1. ASSUME NEW t \in Threads, NEW d \in Nat, NEW op, NEW h PROVE ~On(t, d, op, h)
  <2>1. Len(todo[t]) = 0
    BY DEF Init
  <2>. QED BY <2>1 DEF On
<1>2. Creation
  BY <1>1 DEF Creation
<1>3. Present
  <2>1. Constructed(Db) /\ \A h \in Handles : Constructed(h) <=> h \in Existing \cup {Db}
    BY DEF Init, Constructed, Handles
  <2>2. /\ \A h \in Names : Constructed(h)
        /\ \A h \in Handles : closeReq[h] # 0 => Constructed(h)
    <3>1. Names = Existing \cup {Db}
      BY DEF Names, Init
    <3>. QED BY <2>1, <3>1, ExistingType DEF Init, Handles
  <2>3. ASSUME NEW w \in Owners, NEW o \in linked[w] PROVE Constructed(o)
    <3>1. o \in Existing
      BY <2>3 DEF Init
    <3>. QED BY <2>1, <3>1, ExistingType DEF Handles
  <2>4. ASSUME NEW i \in Itrs, OnCf(i), Constructed(i) PROVE Constructed(CfOf[i])
    <3>1. i \in Existing
      BY <2>1, <2>4, KindsAreDistinct DEF Handles, Objects
    <3>2. CfOf[i] \in Existing
      BY <2>4, <3>1, ExistingType DEF OnCf
    <3>. QED BY <2>1, <3>2, ExistingType DEF Handles
  <2>. QED BY <1>1, <2>1, <2>2, <2>3, <2>4 DEF Present, Somewhere
<1>4. Destruction
  <2>1. \A h \in Handles : closeReq[h] # 2
    BY DEF Init
  <2>. QED BY <1>1, <2>1 DEF Destruction, Somewhere
<1>. QED BY <1>2, <1>3, <1>4 DEF Nesting

\* The counts that the run starts with.
LEMMA BalanceAtStart == Init => Balance
<1>. SUFFICES ASSUME Init, NEW h \in Handles PROVE Balanced(h)
  BY DEF Balance
<1>1. ASSUME NEW t \in Threads, NEW d \in Nat, NEW op, NEW g PROVE ~On(t, d, op, g)
  <2>1. Len(todo[t]) = 0
    BY DEF Init
  <2>. QED BY <2>1 DEF On
<1>2. Dues(h) = {} /\ Owed(h) = 0
  BY <1>1 DEF Dues, Owed, Somewhere
<1>3. Cardinality(Dues(h)) = 0
  BY <1>2, FS_EmptySet
<1>4. \A g \in Handles : /\ Constructed(g) <=> g \in Existing \cup {Db}
                         /\ closeReq[g] = 0
  BY DEF Init, Constructed, Handles
<1>5. Own(h) = IF h \in Existing \cup {Db} THEN 1 ELSE 0
  BY <1>4 DEF Own, Closing
<1>6. MembersOn(h) = {o \in Existing : h = Db \/ (OnCf(o) /\ h = CfOf[o])}
  <2>1. \A o \in Objects : o \in Handles /\ o # Db
    BY KindsAreDistinct DEF Handles
  <2>. QED BY <1>4, <2>1, ExistingType DEF MembersOn
<1>7. CASE h = Db
  <2>1. MembersOn(h) = Existing
    BY <1>6, <1>7
  <2>2. refs[h] = 1 + Cardinality(Existing) /\ Cardinality(Existing) \in Nat
    <3>1. refs[h] = 1 + Cardinality(Existing)
      BY <1>7 DEF Init
    <3>. QED BY <2>1, <3>1, MembersCount
  <2>. QED BY <1>2, <1>3, <1>5, <1>7, <2>1, <2>2 DEF Balanced
<1>8. CASE h # Db /\ h \in Cfs \cap Existing
  <2>1. MembersOn(h) = {i \in Itrs \cap Existing : CfOf[i] = h}
    BY <1>6, <1>8, CfOfType DEF OnCf
  <2>2. refs[h] = 1 + Cardinality(MembersOn(h))
    BY <1>8, <2>1 DEF Init
  <2>. QED BY <1>2, <1>3, <1>5, <1>8, <2>2, MembersCount DEF Balanced
<1>9. CASE h # Db /\ h \notin Cfs \cap Existing
  <2>1. ASSUME NEW o \in Existing, OnCf(o), h = CfOf[o] PROVE FALSE
    <3>1. o \in Itrs \cap Existing /\ CfOf[o] # NoCf /\ CfOf[o] \in Cfs
      BY <2>1, CfOfType DEF OnCf
    <3>2. CfOf[o] \in Existing
      BY <3>1, ExistingType
    <3>. QED BY <1>9, <2>1, <3>1, <3>2
  <2>2. MembersOn(h) = {}
    BY <1>6, <1>9, <2>1
  <2>3. Cardinality(MembersOn(h)) = 0
    BY <2>2, FS_EmptySet
  <2>4. refs[h] = IF h \in Existing THEN 1 ELSE 0
    BY <1>9 DEF Init
  <2>5. Own(h) = IF h \in Existing THEN 1 ELSE 0
    BY <1>5, <1>9
  <2>. QED BY <1>2, <1>3, <2>3, <2>4, <2>5 DEF Balanced
<1>. QED BY <1>7, <1>8, <1>9

-----------------------------------------------------------------------------
(* What a step of a call, or its start, may do *)

\* The entries that a step of a call may put in place of its own.
Later(n, op, h, d, o, g) ==
    /\ o \in Lists \cup {"initiate", "release", "refDec", "unlink", "unlinkCf", "deleteDb", "done",
                         "assign", "use"}
    /\ o = "refDec" => \/ op = "assign" /\ g = h /\ g \in Objects
                       \/ op = "initiate" /\ g = h /\ closeReq[h] = 0
                       \/ op = "refDec" /\ h \in Objects /\ closeReq[h] = 1 /\ d > n
    /\ o = "assign" => op \in {"retrieveCf", "retrieveSnapshot"} /\ g = h
    /\ o = "use" => op = "retrieveSnapshot" /\ g = h
    /\ o \in {"unlink", "unlinkCf", "deleteDb"} =>
          op = "refDec" /\ g = h /\ d > n /\ closeReq[h] = 1 /\ closeReq'[h] = 2
    /\ o = "deleteDb" => h = Db

\* What a step of a call may do to the state.
Framed(t, n, op, h) ==
    /\ Turns(t, n, op, h)
    /\ \A d \in Nat : \A o, g : d >= n /\ On(t, d, o, g)' => Later(n, op, h, d, o, g)
    /\ \A g \in Names' : g \in Names \/ (op = "refInc" /\ g = h)
    /\ \A g \in Handles : \/ life'[g] = life[g]
                          \/ op = "construct" /\ g = h /\ life'[g] = "live"
                          \/ op = "await" /\ g = h /\ closeReq[h] = 3 /\ life'[g] = "freed"
    /\ \A g \in Handles :
          \/ closeReq'[g] = closeReq[g]
          \/ op = "initiate" /\ g = h /\ closeReq[g] = 0 /\ closeReq'[g] = 1
          \/ /\ op = "refDec" /\ g = h /\ refs[g] = 1 /\ closeReq[g] = 1 /\ closeReq'[g] = 2
             /\ On(t, n, "done", g)'
             /\ g # Db => /\ \E d \in Nat : On(t, d, "unlink", g)'
                          /\ OnCf(g) => \E d \in Nat : On(t, d, "unlinkCf", g)'
          \/ op = "done" /\ g = h /\ closeReq'[g] = 3
    /\ \A g \in Handles :
          \/ refs'[g] <= refs[g]
          \/ op \in {"assign", "refInc"} /\ g = h
          \/ op = "construct" /\ (g = Db \/ (OnCf(h) /\ g = CfOf[h]))
    /\ \A w \in Owners, o \in Objects : o \in linked'[w] =>
          \/ o \in linked[w] /\ ~(op \in {"unlink", "unlinkCf"} /\ o = h /\ w = ListOf(op, h))
          \/ op \in {"link", "linkCf"} /\ o = h /\ w = ListOf(op, h)
    /\ mDb' = mDb \/ (op = "deleteDb" /\ h = Db)
    /\ \A u \in Threads, d \in Nat : \A o, g : u \in late /\ On(u, d, o, g)' => u \in late'
    /\ \A g \in Objects : g \in late' <=> g \in late \/ (op = "construct" /\ g = h /\ closeReq[Db] >= 2)

\* The destructor's entries are such.
LEMMA FallsLater ==
  ASSUME NEW n \in Nat, NEW h \in Handles, NEW d \in Nat, NEW o, NEW g, Falls(n, h, d, o, g),
         closeReq[h] = 1, closeReq'[h] = 2
  PROVE  Later(n, "refDec", h, d, o, g)
<1>1. h # Db => h \in Objects
  BY DEF Handles
<1>. QED BY <1>1 DEF Falls, Later

\* A destructor's step.
LEMMA DestroyFrame ==
  ASSUME Types, NEW t, NEW n, NEW h, Destroys(t, n, h)
  PROVE  Framed(t, n, "refDec", h)
<1>0. /\ closeReq \in [Handles -> 0..3] /\ refs \in [Handles -> Int]
      /\ \A i \in Itrs : i \in Objects
  BY DEF Types, TypeOK, Objects
<1>1. /\ Turns(t, n, "refDec", h) /\ h \in Handles /\ refs[h] = 1 /\ closeReq[h] = 1
      /\ \A d \in Nat : \A o, g : d >= n => (On(t, d, o, g)' <=> Falls(n, h, d, o, g))
      /\ refs' = [refs EXCEPT ![h] = @ - 1] /\ closeReq' = [closeReq EXCEPT ![h] = 2]
      /\ UNCHANGED <<life, linked, mDb>> /\ Names' \subseteq Names /\ Lateness
  BY DEF Destroys
<1>2. n \in Nat
  BY <1>1, TurnStack
<1>3. closeReq'[h] = 2
  BY <1>0, <1>1
<1>4. \A d \in Nat : \A o, g : d >= n /\ On(t, d, o, g)' => Later(n, "refDec", h, d, o, g)
  BY <1>1, <1>2, <1>3, FallsLater
<1>5. On(t, n, "done", h)'
  BY <1>1, <1>2 DEF Falls
<1>6. h # Db => /\ \E d \in Nat : On(t, d, "unlink", h)'
                /\ OnCf(h) => \E d \in Nat : On(t, d, "unlinkCf", h)'
  <2>1. CASE h # Db /\ OnCf(h)
    <3>1. Falls(n, h, n + 4, "unlink", h) /\ Falls(n, h, n + 3, "unlinkCf", h)
      BY <2>1 DEF Falls
    <3>2. n + 4 \in Nat /\ n + 3 \in Nat /\ n + 4 >= n /\ n + 3 >= n
      BY <1>2
    <3>. QED BY <1>1, <3>1, <3>2
  <2>2. CASE h # Db /\ ~OnCf(h)
    <3>1. Falls(n, h, n + 2, "unlink", h)
      BY <2>2 DEF Falls
    <3>2. n + 2 \in Nat /\ n + 2 >= n
      BY <1>2
    <3>. QED BY <1>1, <2>2, <3>1, <3>2
  <2>. QED BY <2>1, <2>2
<1>7. ASSUME NEW g \in Handles
      PROVE  /\ g # h => closeReq'[g] = closeReq[g]
             /\ refs'[g] <= refs[g]
  BY <1>0, <1>1
<1>. QED BY <1>1, <1>3, <1>4, <1>5, <1>6, <1>7 DEF Framed, Lateness

\* Every step of a call is such a one.
LEMMA TurnFrame ==
  ASSUME Types, NEW t \in Threads, Turn(t)
  PROVE  \E n \in Nat, op \in Operations, h \in Handles : Framed(t, n, op, h)
<1>0. /\ life \in [Handles -> {"absent", "live", "collecting", "freed"}]
      /\ closeReq \in [Handles -> 0..3] /\ refs \in [Handles -> Int]
      /\ linked \in [Owners -> SUBSET Objects]
      /\ \A o \in Objects : o \in Handles
      /\ \A c \in Cfs : c \in Objects
      /\ Lists = {"itrs", "snaps", "cfs", "tlogs"}
      /\ \A g \in Handles : refs[g] <= refs[g]
  BY DEF Types, TypeOK, Handles, Lists, Objects
<1>1. ASSUME NEW n, NEW op, NEW h, Turns(t, n, op, h), Framed(t, n, op, h)
      PROVE  \E m \in Nat, o \in Operations, g \in Handles : Framed(t, m, o, g)
  <2>1. n \in Nat /\ op \in Operations /\ h \in Handles
    BY <1>1, TurnStack
  <2>. QED BY <1>1, <2>1
<1>. SUFFICES \E n, op, h : Turns(t, n, op, h) /\ Framed(t, n, op, h)
  BY <1>1
<1>2. ASSUME NEW n \in Nat, NEW h \in Handles, NEW op \in Operations,
             Passes(t, n, op, h) \/ \E new \in Operations : Goes(t, n, op, h, new)
      PROVE  Turns(t, n, op, h) /\ Framed(t, n, op, h)
  <2>1. Turns(t, n, op, h) /\ SameState /\ op \notin {"unlink", "unlinkCf", "construct"}
    BY <1>0, <1>2 DEF Passes, Goes
  <2>2. \A d \in Nat : \A o, g : d >= n /\ On(t, d, o, g)' => Later(n, op, h, d, o, g)
    <3>1. \A d \in Nat : \A o, g : d >= n /\ On(t, d, o, g)' =>
             o \in {"initiate", "release"} \/ (o = "assign" /\ op = "retrieveCf" /\ g = h)
      <4>1. CASE Passes(t, n, op, h)
        BY <4>1 DEF Passes, Nothing
      <4>2. ASSUME NEW new \in Operations, Goes(t, n, op, h, new)
            PROVE  \A d \in Nat : \A o, g : d >= n /\ On(t, d, o, g)' =>
                      o \in {"initiate", "release"} \/ (o = "assign" /\ op = "retrieveCf" /\ g = h)
        <5>1. /\ OnlyOne(t, n, new, h)
              /\ new \in {"initiate", "release"} \/ (new = "assign" /\ op = "retrieveCf")
          BY <4>2 DEF Goes
        <5>. QED BY <5>1 DEF OnlyOne
      <4>. QED BY <1>2, <4>1, <4>2
    <3>. QED BY <3>1 DEF Later
  <2>. QED BY <1>0, <2>1, <2>2 DEF Framed, SameState, Lateness
<1>18. ASSUME NEW n \in Nat, NEW h \in Handles, Reads(t, n, h)
       PROVE  Turns(t, n, "retrieveSnapshot", h) /\ Framed(t, n, "retrieveSnapshot", h)
  <2>1. /\ Turns(t, n, "retrieveSnapshot", h) /\ SameState
        /\ OnlyTwo(t, n, "assign", h, "use", h)
    BY <1>18 DEF Reads
  <2>2. \A d \in Nat : \A o, g : d >= n /\ On(t, d, o, g)' => Later(n, "retrieveSnapshot", h, d, o, g)
    BY <2>1 DEF OnlyTwo, Later
  <2>. QED BY <1>0, <2>1, <2>2 DEF Framed, SameState, Lateness
<1>3. ASSUME NEW n \in Nat, NEW h \in Handles, NEW op \in Operations, Links(t, n, op, h)
      PROVE  Turns(t, n, op, h) /\ Framed(t, n, op, h)
  <2>1. /\ Turns(t, n, op, h) /\ Nothing(t, n) /\ op \in {"link", "linkCf"}
        /\ linked' = [linked EXCEPT ![ListOf(op, h)] = @ \cup {h}]
        /\ UNCHANGED <<life, closeReq, refs, mDb>> /\ Names' \subseteq Names /\ Lateness
    BY <1>3 DEF Links
  <2>2. \A w \in Owners, o \in Objects : o \in linked'[w] =>
           o \in linked[w] \/ (o = h /\ w = ListOf(op, h))
    BY <1>0, <2>1
  <2>. QED BY <1>0, <2>1, <2>2 DEF Framed, Nothing, Lateness
<1>4. ASSUME NEW n \in Nat, NEW h \in Handles, NEW op \in Operations, Unlinks(t, n, op, h)
      PROVE  Turns(t, n, op, h) /\ Framed(t, n, op, h)
  <2>1. /\ Turns(t, n, op, h) /\ Nothing(t, n) /\ op \in {"unlink", "unlinkCf"}
        /\ linked' = [linked EXCEPT ![ListOf(op, h)] = @ \ {h}]
        /\ UNCHANGED <<life, closeReq, refs, mDb>> /\ Names' \subseteq Names /\ Lateness
    BY <1>4 DEF Unlinks
  <2>2. \A w \in Owners, o \in Objects : o \in linked'[w] =>
           o \in linked[w] /\ ~(o = h /\ w = ListOf(op, h))
    BY <1>0, <2>1
  <2>. QED BY <1>0, <2>1, <2>2 DEF Framed, Nothing, Lateness
<1>5. ASSUME NEW n \in Nat, NEW h \in Handles, NEW op \in Operations, NEW w \in Owners,
             Drains(t, n, op, w, h)
      PROVE  Turns(t, n, op, w) /\ Framed(t, n, op, w)
  <2>1. /\ Turns(t, n, op, w) /\ op \in Lists /\ OnlyTwo(t, n, "initiate", h, op, w)
        /\ linked' = [linked EXCEPT ![w] = @ \ {h}]
        /\ UNCHANGED <<life, closeReq, refs, mDb>> /\ Names' \subseteq Names /\ Lateness
    BY <1>5 DEF Drains
  <2>2. \A v \in Owners, o \in Objects : o \in linked'[v] => o \in linked[v]
    BY <1>0, <2>1
  <2>3. op \notin {"unlink", "unlinkCf"}
    BY <1>0, <2>1
  <2>4. \A d \in Nat : \A o, g : d >= n /\ On(t, d, o, g)' => Later(n, op, w, d, o, g)
    <3>1. \A d \in Nat : \A o, g : d >= n /\ On(t, d, o, g)' => o = "initiate" \/ o = op
      BY <2>1 DEF OnlyTwo
    <3>. QED BY <1>0, <2>1, <3>1 DEF Later
  <2>. QED BY <1>0, <2>1, <2>2, <2>3, <2>4 DEF Framed, Lateness
<1>6. ASSUME NEW n \in Nat, NEW h \in Handles, Retrieves(t, n, h)
      PROVE  Turns(t, n, "assign", h) /\ Framed(t, n, "assign", h)
  <2>1. /\ Turns(t, n, "assign", h) /\ OnlyOne(t, n, "refDec", h) /\ h \in Objects
        /\ refs' = [refs EXCEPT ![h] = @ + 1] /\ UNCHANGED <<life, closeReq, linked, mDb>>
        /\ Names' \subseteq Names /\ Lateness
    BY <1>6 DEF Retrieves
  <2>2. \A d \in Nat : \A o, g : d >= n /\ On(t, d, o, g)' => Later(n, "assign", h, d, o, g)
    BY <2>1 DEF OnlyOne, Later
  <2>3. \A g \in Handles : refs'[g] <= refs[g] \/ g = h
    BY <1>0, <2>1
  <2>. QED BY <1>0, <2>1, <2>2, <2>3 DEF Framed, Lateness
<1>7. ASSUME NEW n \in Nat, NEW h \in Handles, Constructs(t, n, h)
      PROVE  Turns(t, n, "construct", h) /\ Framed(t, n, "construct", h)
  <2>1. /\ Turns(t, n, "construct", h) /\ Nothing(t, n) /\ life' = [life EXCEPT ![h] = "live"]
        /\ refs' = [g \in Handles |-> IF g = Db \/ (OnCf(h) /\ g = CfOf[h])
                                      THEN refs[g] + 1 ELSE refs[g]]
        /\ UNCHANGED <<closeReq, linked, mDb>> /\ Names' \subseteq Names
        /\ \A u \in Threads : u \in late => u \in late'
        /\ \A g \in Objects : g \in late' <=> g \in late \/ (g = h /\ closeReq[Db] >= 2)
    BY <1>7 DEF Constructs
  <2>2. \A g \in Handles : refs'[g] <= refs[g] \/ (g = Db \/ (OnCf(h) /\ g = CfOf[h]))
    BY <1>0, <2>1
  <2>3. \A g \in Handles : life'[g] = life[g] \/ (g = h /\ life'[g] = "live")
    BY <1>0, <2>1
  <2>. QED BY <2>1, <2>2, <2>3 DEF Framed, Nothing
<1>8. ASSUME NEW n \in Nat, NEW h \in Handles, Counts(t, n, h)
      PROVE  Turns(t, n, "refInc", h) /\ Framed(t, n, "refInc", h)
  <2>1. /\ Turns(t, n, "refInc", h) /\ Nothing(t, n) /\ Names' \subseteq Names \cup {h} /\ Lateness
        /\ refs' = [refs EXCEPT ![h] = @ + 1] /\ UNCHANGED <<life, closeReq, linked, mDb>>
    BY <1>8 DEF Counts
  <2>2. \A g \in Handles : refs'[g] <= refs[g] \/ g = h
    BY <1>0, <2>1
  <2>. QED BY <2>1, <2>2 DEF Framed, Nothing, Lateness
<1>9. ASSUME NEW n \in Nat, NEW h \in Handles, Closes(t, n, h)
      PROVE  Turns(t, n, "initiate", h) /\ Framed(t, n, "initiate", h)
  <2>1. /\ Turns(t, n, "initiate", h) /\ closeReq[h] = 0 /\ closeReq' = [closeReq EXCEPT ![h] = 1]
        /\ UNCHANGED <<life, refs, linked, mDb>> /\ Names' \subseteq Names /\ Lateness
    BY <1>9 DEF Closes
  <2>2. \A d \in Nat : \A o, g : d >= n /\ On(t, d, o, g)' =>
           g = h /\ ((d = n /\ o = "refDec") \/ (d > n /\ o \in Lists))
    BY <1>9 DEF Closes
  <2>3. \A d \in Nat : \A o, g : d >= n /\ On(t, d, o, g)' => Later(n, "initiate", h, d, o, g)
    BY <1>0, <2>1, <2>2 DEF Later
  <2>4. \A g \in Handles : closeReq'[g] = closeReq[g] \/ (g = h /\ closeReq'[g] = 1)
    BY <1>0, <2>1
  <2>. QED BY <1>0, <2>1, <2>3, <2>4 DEF Framed, Lateness
<1>10. ASSUME NEW n \in Nat, NEW h \in Handles, GivesBack(t, n, h)
       PROVE  Turns(t, n, "refDec", h) /\ Framed(t, n, "refDec", h)
  <2>1. /\ Turns(t, n, "refDec", h) /\ Nothing(t, n) /\ refs' = [refs EXCEPT ![h] = @ - 1]
        /\ UNCHANGED <<life, closeReq, linked, mDb>> /\ Names' \subseteq Names /\ Lateness
    BY <1>10 DEF GivesBack
  <2>2. \A g \in Handles : refs'[g] <= refs[g]
    BY <1>0, <2>1
  <2>. QED BY <2>1, <2>2 DEF Framed, Nothing, Lateness
<1>11. ASSUME NEW n \in Nat, Deletes(t, n)
       PROVE  Turns(t, n, "deleteDb", Db) /\ Framed(t, n, "deleteDb", Db)
  BY <1>0, <1>11 DEF Deletes, Framed, Nothing, Lateness
<1>12. ASSUME NEW n \in Nat, NEW h \in Handles, Finishes(t, n, h)
       PROVE  Turns(t, n, "done", h) /\ Framed(t, n, "done", h)
  <2>1. /\ Turns(t, n, "done", h) /\ Nothing(t, n) /\ closeReq' = [closeReq EXCEPT ![h] = 3]
        /\ UNCHANGED <<life, refs, linked, mDb>> /\ Names' \subseteq Names /\ Lateness
    BY <1>12 DEF Finishes
  <2>2. \A g \in Handles : closeReq'[g] = closeReq[g] \/ (g = h /\ closeReq'[g] = 3)
    BY <1>0, <2>1
  <2>. QED BY <1>0, <2>1, <2>2 DEF Framed, Nothing, Lateness
<1>13. ASSUME NEW n \in Nat, NEW h \in Handles, Frees(t, n, h)
       PROVE  Turns(t, n, "await", h) /\ Framed(t, n, "await", h)
  <2>1. /\ Turns(t, n, "await", h) /\ Nothing(t, n) /\ closeReq[h] = 3
        /\ life' = [life EXCEPT ![h] = "freed"] /\ UNCHANGED <<closeReq, refs, linked, mDb>>
        /\ Names' \subseteq Names /\ Lateness
    BY <1>13 DEF Frees
  <2>2. \A g \in Handles : life'[g] = life[g] \/ (g = h /\ life'[g] = "freed")
    BY <1>0, <2>1
  <2>. QED BY <1>0, <2>1, <2>2 DEF Framed, Nothing, Lateness
<1>14. ASSUME NEW n \in Nat, NEW h \in Handles, Destroys(t, n, h)
       PROVE  Turns(t, n, "refDec", h) /\ Framed(t, n, "refDec", h)
  BY <1>14, DestroyFrame DEF Destroys
<1>15. PICK n \in Nat, h \in Handles :
    \/ \E op \in Operations : \/ Passes(t, n, op, h)
                              \/ \E new \in Operations : Goes(t, n, op, h, new)
                              \/ Links(t, n, op, h) \/ Unlinks(t, n, op, h)
                              \/ \E w \in Owners : Drains(t, n, op, w, h)
    \/ Reads(t, n, h) \/ Retrieves(t, n, h) \/ Constructs(t, n, h) \/ Counts(t, n, h)
    \/ Closes(t, n, h) \/ GivesBack(t, n, h) \/ Destroys(t, n, h)
    \/ Deletes(t, n) \/ Finishes(t, n, h) \/ Frees(t, n, h)
  BY DEF Turn
<1>16. CASE \E op \in Operations : \/ Passes(t, n, op, h)
                                   \/ \E new \in Operations : Goes(t, n, op, h, new)
                                   \/ Links(t, n, op, h) \/ Unlinks(t, n, op, h)
                                   \/ \E w \in Owners : Drains(t, n, op, w, h)
  BY <1>2, <1>3, <1>4, <1>5, <1>16
<1>17. CASE \/ Reads(t, n, h) \/ Retrieves(t, n, h) \/ Constructs(t, n, h) \/ Counts(t, n, h)
            \/ Closes(t, n, h) \/ GivesBack(t, n, h) \/ Destroys(t, n, h)
            \/ Deletes(t, n) \/ Finishes(t, n, h) \/ Frees(t, n, h)
  BY <1>6, <1>7, <1>8, <1>9, <1>10, <1>11, <1>12, <1>13, <1>14, <1>17, <1>18
<1>. QED BY <1>15, <1>16, <1>17

\* What the start of a call may do.
Opened(t) ==
    /\ Begins(t)
    /\ UNCHANGED <<closeReq, linked, mDb>> /\ Names' \subseteq Names /\ Lateness
    /\ \A g \in Handles : life'[g] = life[g] \/ (life[g] = "live" /\ life'[g] = "collecting")
    /\ \A g \in Handles : refs'[g] <= refs[g] \/ g \in Names
    /\ \A d \in Nat : \A o, g : On(t, d, o, g)' =>
          /\ o \notin {"unlink", "unlinkCf", "deleteDb", "done"}
          /\ o # "assign"
          /\ o \in {"use", "drop", "retrieveCf", "retrieveSnapshot"} => g \in Names
          /\ o \in {"use", "drop"} =>
                d > 0 /\ (On(t, 0, "refDec", Db)' \/ (g # Db /\ On(t, 0, "refDec", g)'))
          /\ o = "retrieveSnapshot" => d > 0 /\ On(t, 0, "refDec", Db)'
          /\ o = "refDec" /\ (closeReq[g] >= 2 \/ g \in late) => t \in late'
          /\ o = "refInc" => /\ g \in Objects /\ life[g] = "absent"
                             /\ OnCf(g) => CfOf[g] \in Names

\* Every call is such a one.
LEMMA BeginFrame ==
  ASSUME Types, NEW t, Beginning(t)
  PROVE  Opened(t)
<1>0. /\ life \in [Handles -> {"absent", "live", "collecting", "freed"}]
      /\ refs \in [Handles -> Int] /\ \A g \in Handles : refs[g] <= refs[g]
      /\ Creates = {"construct", "link", "linkCf", "refInc"}
      /\ Db \notin late
  BY KindsAreDistinct DEF Types, TypeOK, Creates, Handles
<1>1. ASSUME NEW h \in Handles, Borrows(t, h) PROVE Opened(t)
  <2>1. /\ Begins(t) /\ h \in Names /\ refs' = [refs EXCEPT ![h] = @ + 1]
        /\ closeReq[h] >= 2 \/ h \in late => t \in late'
        /\ On(t, 0, "refDec", h)' /\ UNCHANGED <<life, closeReq, linked, mDb>>
        /\ Names' \subseteq Names /\ Lateness
        /\ \A d \in Nat : \A o, g : On(t, d, o, g)' =>
              g = h /\ ((d = 0 /\ o = "refDec") \/ (d > 0 /\ o \in {"use", "drop", "release", "initiate"}))
    BY <1>1 DEF Borrows
  <2>2. \A g \in Handles : refs'[g] <= refs[g] \/ g = h
    BY <1>0, <2>1
  <2>. QED BY <2>1, <2>2 DEF Opened
<1>2. ASSUME NEW s \in Handles, ReadsSnapshot(t, s) PROVE Opened(t)
  <2>1. /\ Begins(t) /\ {Db, s} \subseteq Names /\ (closeReq[Db] >= 2 => t \in late')
        /\ refs' = [refs EXCEPT ![Db] = @ + 1]
        /\ UNCHANGED <<life, closeReq, linked, mDb>> /\ Names' \subseteq Names /\ Lateness
        /\ \A d \in Nat : \A o, g : On(t, d, o, g)' <=> \/ d = 1 /\ o = "retrieveSnapshot" /\ g = s
                                                        \/ d = 0 /\ o = "refDec" /\ g = Db
    BY <1>2 DEF ReadsSnapshot
  <2>2. \A g \in Handles : refs'[g] <= refs[g] \/ g = Db
    BY <1>0, <2>1
  <2>3. On(t, 0, "refDec", Db)'
    BY <2>1
  <2>4. ASSUME NEW d \in Nat, NEW o, NEW g, On(t, d, o, g)'
        PROVE  \/ o = "refDec" /\ (closeReq[g] >= 2 \/ g \in late => t \in late')
               \/ o = "retrieveSnapshot" /\ d > 0 /\ g \in Names
    BY <1>0, <2>1, <2>4
  <2>. QED BY <2>1, <2>2, <2>3, <2>4 DEF Opened
<1>3. ASSUME NEW h \in Handles, Creating(t, h) PROVE Opened(t)
  <2>1. /\ Begins(t) /\ h \in Objects /\ life[h] = "absent" /\ (closeReq[Db] >= 2 => t \in late')
        /\ Db \in Names /\ (OnCf(h) => CfOf[h] \in Names)
        /\ refs' = [refs EXCEPT ![Db] = @ + 1] /\ UNCHANGED <<life, closeReq, linked, mDb>>
        /\ Names' \subseteq Names /\ Lateness
    BY <1>3 DEF Creating
  <2>2. ASSUME NEW d \in Nat, NEW op, NEW g
        PROVE  On(t, d, op, g)' <=>
                  \/ d = 0 /\ op = "refDec" /\ g = Db
                  \/ op \in Creates /\ g = h /\ d = Below(op, h) /\ (op = "linkCf" => OnCf(h))
                  \/ OnCf(h) /\ d = 5 /\ op = "retrieveCf" /\ g = CfOf[h]
    BY <1>3 DEF Creating
  <2>3. \A g \in Handles : refs'[g] <= refs[g] \/ g = Db
    BY <1>0, <2>1
  <2>4. ASSUME NEW d \in Nat, NEW o, NEW g, On(t, d, o, g)'
        PROVE  /\ o \notin {"unlink", "unlinkCf", "deleteDb", "done", "use", "drop", "assign",
                            "retrieveSnapshot"}
               /\ o = "retrieveCf" => g \in Names
               /\ o = "refDec" => g = Db
               /\ o = "refInc" => g = h
    BY <1>0, <2>1, <2>2, <2>4
  <2>. QED BY <1>0, <2>1, <2>3, <2>4 DEF Opened
<1>4. ASSUME NEW h \in Handles, Requests(t, h) PROVE Opened(t)
  BY <1>0, <1>4 DEF Requests, SameState, OnlyOne, Opened
<1>5. ASSUME NEW h \in Handles, Collects(t, h) PROVE Opened(t)
  <2>1. /\ Begins(t) /\ life[h] = "live" /\ life' = [life EXCEPT ![h] = "collecting"]
        /\ UNCHANGED <<closeReq, refs, linked, mDb>> /\ Names' \subseteq Names /\ Lateness
        /\ \A d \in Nat : \A o, g : On(t, d, o, g)' =>
              g = h /\ o \in {"testSnapshot", "initiate", "await"}
    BY <1>5 DEF Collects
  <2>2. \A g \in Handles : life'[g] = life[g] \/ (life[g] = "live" /\ life'[g] = "collecting")
    BY <1>0, <2>1
  <2>. QED BY <1>0, <2>1, <2>2 DEF Opened
<1>. QED BY <1>1, <1>2, <1>3, <1>4, <1>5 DEF Beginning

\* Every kind of step.
LEMMA StepKinds ==
  ASSUME Types, [Next]_vars
  PROVE  \/ Neutral
         \/ \E t \in Threads : Opened(t)
         \/ \E t \in Threads, n \in Nat, op \in Operations, h \in Handles : Framed(t, n, op, h)
BY NextIs, TurnFrame, BeginFrame

\* What a step leaves of the close requests.
LEMMA RequestsStep ==
  ASSUME Types, Destruction, NEW t, NEW n, NEW op, NEW h, Framed(t, n, op, h), NEW g \in Handles
  PROVE  /\ closeReq[g] >= 2 => closeReq'[g] >= 2
         /\ closeReq[g] < 2 /\ ~(closeReq'[g] < 2) =>
               /\ op = "refDec" /\ g = h /\ refs[g] = 1 /\ closeReq[g] = 1 /\ closeReq'[g] = 2
<1>1. closeReq[g] \in 0..3
  BY DEF Types, TypeOK
<1>2. Turns(t, n, op, h) /\ t \in Threads /\ n \in Nat /\ On(t, n, op, h)
  BY TurnStack DEF Framed
<1>3. op = "done" => closeReq[h] = 2
  BY <1>2, TurnStack DEF Destruction, Somewhere
<1>4. \/ closeReq'[g] = closeReq[g]
      \/ op = "initiate" /\ g = h /\ closeReq[g] = 0 /\ closeReq'[g] = 1
      \/ op = "refDec" /\ g = h /\ refs[g] = 1 /\ closeReq[g] = 1 /\ closeReq'[g] = 2
      \/ op = "done" /\ g = h /\ closeReq'[g] = 3
  BY DEF Framed
<1>. QED BY <1>1, <1>3, <1>4

-----------------------------------------------------------------------------
(* Who knows of an object that is not finished *)

\* Nobody works on an object before its creator returns, or makes an
\* iterator over it.
Known ==
    /\ \A h \in Names : ~Somewhere("refInc", h)
    /\ \A t \in Threads, d \in Nat, h \in Handles : \A op \in {"use", "drop", "retrieveCf", "assign", "retrieveSnapshot"} :
          On(t, d, op, h) => ~Somewhere("refInc", h)
    /\ \A i \in Itrs : OnCf(i) /\ (Constructed(i) \/ Somewhere("refInc", i))
                         => ~Somewhere("refInc", CfOf[i])

\* A step of a call starts no creation, and ends its own.
LEMMA CreationsEnd ==
  ASSUME Types, Creation, NEW t, NEW n, NEW op, NEW h, Framed(t, n, op, h)
  PROVE  /\ \A g : Somewhere("refInc", g)' => Somewhere("refInc", g)
         /\ op = "refInc" => ~Somewhere("refInc", h)'
<1>1. Turns(t, n, op, h) /\ t \in Threads /\ n \in Nat /\ On(t, n, op, h) /\ h \in Handles
  BY TurnStack DEF Framed
<1>2. \A d \in Nat : \A g : d >= n => ~On(t, d, "refInc", g)'
  BY DEF Framed, Later, Lists
<1>3. ASSUME NEW u \in Threads, NEW d \in Nat, NEW g, On(u, d, "refInc", g)'
      PROVE  On(u, d, "refInc", g) /\ (u # t \/ d < n)
  BY <1>1, <1>2, <1>3, TurnStack
<1>4. ASSUME op = "refInc", NEW u \in Threads, NEW d \in Nat, On(u, d, "refInc", h)
      PROVE  u = t /\ d = n
  <2>. "refInc" \in Creates
    BY DEF Creates
  <2>1. h \in Objects /\ d = 1 /\ n = 1
    BY <1>1, <1>4, BelowIs DEF Creation
  <2>. QED BY <1>1, <1>4, <2>1 DEF Creation
<1>. QED BY <1>1, <1>3, <1>4 DEF Somewhere

\* Objects become known when they are finished.
LEMMA KnownStep ==
  ASSUME Types, Creation, Present, Known, [Next]_vars
  PROVE  Known'
<1>0. /\ \A i \in Itrs : i \in Handles /\ (OnCf(i) => CfOf[i] \in Handles)
      /\ Names \subseteq Handles
      /\ {"use", "drop", "retrieveCf", "assign", "retrieveSnapshot"} \subseteq Operations \ Creates
      /\ "construct" \in Creates /\ "refInc" \in Creates
  <2>1. \A i \in Itrs : i \in Handles /\ (OnCf(i) => CfOf[i] \in Handles)
    BY CfOfType DEF Handles, Objects, OnCf
  <2>2. Names \subseteq Handles
    BY NamesAreHandles
  <2>. QED BY <2>1, <2>2 DEF Operations, Creates
<1>1. CASE Neutral
  <2>1. /\ Names' \subseteq Names /\ life' = life
        /\ \A u, d, o, g : On(u, d, o, g)' <=> On(u, d, o, g)
    BY <1>1, NeutralStack DEF Neutral
  <2>. QED BY <2>1 DEF Known, Somewhere, Constructed
<1>2. ASSUME NEW t \in Threads, Opened(t) PROVE Known'
  <2>1. /\ Begins(t) /\ Names' \subseteq Names
        /\ \A g \in Handles : Constructed(g)' => Constructed(g)
        /\ \A d \in Nat : \A o, g : On(t, d, o, g)' =>
              /\ o \in {"use", "drop", "retrieveCf", "assign", "retrieveSnapshot"} => g \in Names
              /\ o = "refInc" => g \in Objects /\ life[g] = "absent" /\ (OnCf(g) => CfOf[g] \in Names)
    BY <1>2 DEF Opened, Constructed
  <2>2. ASSUME NEW g, Somewhere("refInc", g)'
        PROVE  \/ Somewhere("refInc", g)
               \/ ~Constructed(g) /\ (OnCf(g) => CfOf[g] \in Names)
    BY <2>1, <2>2, BeginStack DEF Somewhere, Constructed
  <2>3. ASSUME NEW g \in Names PROVE ~Somewhere("refInc", g)'
    BY <2>2, <2>3 DEF Known, Present
  <2>4. ASSUME NEW u \in Threads, NEW d \in Nat, NEW g \in Handles,
               NEW o \in {"use", "drop", "retrieveCf", "assign", "retrieveSnapshot"}, On(u, d, o, g)'
        PROVE  ~Somewhere("refInc", g)'
    <3>1. CASE u = t
      BY <2>1, <2>3, <2>4, <3>1
    <3>2. CASE u # t
      <4>1. On(u, d, o, g)
        BY <2>1, <2>4, <3>2, BeginStack
      <4>2. Constructed(g)
        BY <1>0, <2>4, <4>1 DEF Present
      <4>. QED BY <2>2, <2>4, <4>1, <4>2 DEF Known
    <3>. QED BY <3>1, <3>2
  <2>5. ASSUME NEW i \in Itrs, OnCf(i), Constructed(i)' \/ Somewhere("refInc", i)'
        PROVE  ~Somewhere("refInc", CfOf[i])'
    <3>1. CASE CfOf[i] \in Names
      BY <2>3, <3>1
    <3>2. CASE CfOf[i] \notin Names
      <4>1. Constructed(i) \/ Somewhere("refInc", i)
        BY <1>0, <2>1, <2>2, <2>5, <3>2
      <4>2. Constructed(CfOf[i]) /\ ~Somewhere("refInc", CfOf[i])
        BY <2>5, <4>1 DEF Known, Present
      <4>. QED BY <2>2, <4>2
    <3>. QED BY <3>1, <3>2
  <2>. QED BY <2>1, <2>3, <2>4, <2>5 DEF Known
<1>3. ASSUME NEW t \in Threads, NEW n \in Nat, NEW op \in Operations, NEW h \in Handles,
             Framed(t, n, op, h)
      PROVE  Known'
  <2>1. /\ \A g : Somewhere("refInc", g)' => Somewhere("refInc", g)
        /\ op = "refInc" => ~Somewhere("refInc", h)'
    BY <1>3, CreationsEnd
  <2>2. Turns(t, n, op, h) /\ On(t, n, op, h)
    BY <1>3, TurnStack DEF Framed
  <2>3. ASSUME NEW g \in Names' PROVE ~Somewhere("refInc", g)'
    BY <1>3, <2>1, <2>3 DEF Known, Framed
  <2>4. ASSUME NEW u \in Threads, NEW d \in Nat, NEW g \in Handles,
               NEW o \in {"use", "drop", "retrieveCf", "assign", "retrieveSnapshot"}, On(u, d, o, g)'
        PROVE  ~Somewhere("refInc", g)'
    <3>1. CASE u = t /\ d >= n
      <4>1. op \in {"retrieveCf", "retrieveSnapshot"} /\ g = h
        BY <1>3, <2>4, <3>1 DEF Framed, Later, Lists
      <4>. QED BY <2>1, <2>2, <2>4, <4>1 DEF Known
    <3>2. CASE ~(u = t /\ d >= n)
      <4>1. On(u, d, o, g)
        BY <2>2, <2>4, <3>2, TurnStack
      <4>. QED BY <2>1, <2>4, <4>1 DEF Known
    <3>. QED BY <3>1, <3>2
  <2>5. ASSUME NEW i \in Itrs, OnCf(i), Constructed(i)' \/ Somewhere("refInc", i)'
        PROVE  ~Somewhere("refInc", CfOf[i])'
    <3>1. Constructed(i)' => Constructed(i) \/ Somewhere("refInc", i)
      <4>1. life'[i] = life[i] \/ (op = "construct" /\ i = h) \/ (op = "await" /\ i = h)
        BY <1>0, <1>3 DEF Framed
      <4>2. op = "construct" => Somewhere("refInc", h)
        BY <1>0, <1>3, <2>2 DEF Creation, Somewhere
      <4>3. op = "await" => life[h] # "absent"
        BY <2>2, TopIsThere
      <4>. QED BY <4>1, <4>2, <4>3 DEF Constructed
    <3>2. Constructed(i) \/ Somewhere("refInc", i)
      BY <2>1, <2>5, <3>1
    <3>. QED BY <2>1, <2>5, <3>2 DEF Known
  <2>. QED BY <2>3, <2>4, <2>5 DEF Known
<1>. QED BY <1>1, <1>2, <1>3, StepKinds

-----------------------------------------------------------------------------
(* Who is left when the last reference goes *)

\* The last reference on a closed handle is nobody else's.
LEMMA LastReference ==
  ASSUME Types, Balance, NEW h \in Handles, closeReq[h] = 1, refs[h] = 1, ~Somewhere("refInc", h),
         NEW t \in Threads, NEW n \in Nat, On(t, n, "refDec", h)
  PROVE  /\ \A o \in Objects : ~Holds(o, h)
         /\ \A u \in Threads, d \in Nat : On(u, d, "refDec", h) => u = t /\ d = n
<1>1. Own(h) = 0 /\ Owed(h) = 0
  BY DEF Own, Owed, Closing
<1>2. Cardinality(Dues(h)) + Cardinality(MembersOn(h)) = 1
  <2>1. refs[h] = Cardinality(Dues(h)) + Cardinality(MembersOn(h)) + Own(h) - Owed(h)
    BY DEF Balance, Balanced
  <2>. QED BY <1>1, <2>1, DuesCount, MembersCount
<1>3. <<t, n>> \in Dues(h)
  BY DEF Dues
<1>4. Cardinality(Dues(h)) # 0
  BY <1>3, DuesCount, FS_EmptySet
<1>5. Cardinality(Dues(h)) = 1 /\ Cardinality(MembersOn(h)) = 0
  BY <1>2, <1>4, DuesCount, MembersCount
<1>6. MembersOn(h) = {}
  BY <1>5, MembersCount, FS_EmptySet
<1>7. PICK x : Dues(h) = {x}
  BY <1>5, DuesCount, FS_Singleton
<1>8. ASSUME NEW u \in Threads, NEW d \in Nat, On(u, d, "refDec", h) PROVE u = t /\ d = n
  <2>1. <<u, d>> \in Dues(h)
    BY <1>8 DEF Dues
  <2>2. <<u, d>> = <<t, n>>
    BY <1>3, <1>7, <2>1
  <2>. QED BY <2>2
<1>. QED BY <1>6, <1>8, MembersCount

\* t holds a reference that keeps the database, or h and so the database.
Keeps(t, h) == \/ On(t, 0, "refDec", Db)
               \/ h # Db /\ On(t, 0, "refDec", h) /\ closeReq[h] < 2 /\ h \notin late

\* A call that works on a handle holds such a reference, or is late.
Borrowed ==
    /\ \A t \in Threads, d \in Nat, h \in Handles : \A op \in {"use", "drop"} :
          On(t, d, op, h) => d > 0 /\ (t \in late \/ Keeps(t, h))
    /\ \A t \in Threads, d \in Nat, h \in Handles :
          On(t, d, "retrieveSnapshot", h) => d > 0 /\ On(t, 0, "refDec", Db)

\* The reference is there until the work is over.
LEMMA KeepsOn ==
  ASSUME Types, Nesting, Balance, Known, NEW t, NEW n, NEW op, NEW h, Framed(t, n, op, h),
         NEW u \in Threads, NEW d \in Nat, NEW g \in Handles, NEW o \in {"use", "drop"},
         On(u, d, o, g), u # t \/ d < n, d > 0, Keeps(u, g)
  PROVE  Keeps(u, g)'
<1>0. /\ Creation /\ Present /\ Destruction /\ "construct" \in Creates
      /\ o \in Operations \ Creates /\ Objects \subseteq Handles
  BY DEF Nesting, Creates, Operations, Handles
<1>1. Turns(t, n, op, h) /\ On(t, n, op, h) /\ t \in Threads /\ n \in Nat /\ h \in Handles
  BY TurnStack DEF Framed
<1>2. \A x : On(u, 0, "refDec", x) => On(u, 0, "refDec", x)'
  BY <1>1, TurnStack
<1>3. CASE On(u, 0, "refDec", Db)
  BY <1>2, <1>3 DEF Keeps
<1>4. CASE g # Db /\ On(u, 0, "refDec", g) /\ closeReq[g] < 2 /\ g \notin late
  <2>1. closeReq'[g] < 2
    <3>1. SUFFICES ASSUME ~(closeReq'[g] < 2) PROVE FALSE
      OBVIOUS
    <3>2. op = "refDec" /\ g = h /\ refs[g] = 1 /\ closeReq[g] = 1
      BY <1>0, <1>4, <3>1, RequestsStep
    <3>3. ~Somewhere("refInc", g)
      BY DEF Known
    <3>4. u = t /\ 0 = n
      BY <1>1, <1>4, <3>2, <3>3, LastReference
    <3>. QED BY <3>4
  <2>2. g \notin late'
    <3>1. SUFFICES ASSUME g \in late' PROVE FALSE
      OBVIOUS
    <3>2. g \in Objects
      BY <1>4 DEF Handles
    <3>3. op = "construct" /\ g = h
      BY <1>4, <3>1, <3>2 DEF Framed
    <3>4. life[g] = "absent"
      BY <1>0, <1>1, <3>2, <3>3 DEF Creation
    <3>5. life[g] # "absent"
      BY <1>0 DEF Present, Constructed
    <3>. QED BY <3>4, <3>5
  <2>. QED BY <1>2, <1>4, <2>1, <2>2 DEF Keeps
<1>. QED BY <1>3, <1>4 DEF Keeps

\* And it is taken before the work starts.
LEMMA BorrowedStep ==
  ASSUME Types, Nesting, Balance, Known, Borrowed, [Next]_vars
  PROVE  Borrowed'
<1>0. /\ closeReq \in [Handles -> 0..3]
      /\ {"use", "drop"} \cap Lists = {} /\ "retrieveSnapshot" \notin Lists
      /\ \A g \in Handles : g # Db => g \in Objects
  BY DEF Lists, Types, TypeOK, Handles
<1>1. CASE Neutral
  <2>1. closeReq' = closeReq /\ late' = late /\ \A u, d, o, g : On(u, d, o, g)' <=> On(u, d, o, g)
    BY <1>1, NeutralStack DEF Neutral
  <2>. QED BY <2>1 DEF Borrowed, Keeps
<1>2. ASSUME NEW t \in Threads, Opened(t) PROVE Borrowed'
  <2>1. /\ Begins(t) /\ closeReq' = closeReq /\ Lateness
        /\ \A d \in Nat : \A o, g : On(t, d, o, g)' =>
              /\ o \in {"use", "drop"} =>
                    d > 0 /\ (On(t, 0, "refDec", Db)' \/ (g # Db /\ On(t, 0, "refDec", g)'))
              /\ o = "retrieveSnapshot" => d > 0 /\ On(t, 0, "refDec", Db)'
              /\ o = "refDec" /\ (closeReq[g] >= 2 \/ g \in late) => t \in late'
    BY <1>2 DEF Opened
  <2>2. \A u \in Threads : u # t => \A d \in Nat : \A o, g : On(u, d, o, g)' <=> On(u, d, o, g)
    BY <2>1, BeginStack
  <2>3. \A g \in Objects : g \in late' <=> g \in late
    BY <2>1 DEF Lateness
  <2>4. ASSUME NEW u \in Threads, NEW d \in Nat, NEW g \in Handles, NEW o \in {"use", "drop"},
               On(u, d, o, g)'
        PROVE  d > 0 /\ (u \in late' \/ Keeps(u, g)')
    <3>1. CASE u = t
      <4>1. d > 0 /\ (On(t, 0, "refDec", Db)' \/ (g # Db /\ On(t, 0, "refDec", g)'))
        BY <2>1, <2>4, <3>1
      <4>2. CASE On(t, 0, "refDec", Db)'
        BY <3>1, <4>1, <4>2 DEF Keeps
      <4>3. CASE g # Db /\ On(t, 0, "refDec", g)'
        <5>1. closeReq[g] >= 2 \/ g \in late => t \in late'
          BY <2>1, <4>3
        <5>2. t \notin late' => closeReq'[g] < 2 /\ g \notin late'
          BY <1>0, <2>1, <2>3, <4>3, <5>1
        <5>. QED BY <3>1, <4>1, <4>3, <5>2 DEF Keeps
      <4>. QED BY <4>1, <4>2, <4>3
    <3>2. CASE u # t
      <4>1. On(u, d, o, g)
        BY <2>2, <2>4, <3>2
      <4>2. d > 0 /\ (u \in late \/ Keeps(u, g))
        BY <2>4, <4>1 DEF Borrowed
      <4>3. u \in late => u \in late'
        BY <2>1, <2>4 DEF Lateness
      <4>4. Keeps(u, g) => Keeps(u, g)'
        BY <1>0, <2>1, <2>2, <2>3, <3>2 DEF Keeps
      <4>. QED BY <4>2, <4>3, <4>4
    <3>. QED BY <3>1, <3>2
  <2>5. ASSUME NEW u \in Threads, NEW d \in Nat, NEW g \in Handles, On(u, d, "retrieveSnapshot", g)'
        PROVE  d > 0 /\ On(u, 0, "refDec", Db)'
    BY <2>1, <2>2, <2>5 DEF Borrowed
  <2>. QED BY <2>4, <2>5 DEF Borrowed
<1>3. ASSUME NEW t \in Threads, NEW n \in Nat, NEW op \in Operations, NEW h \in Handles,
             Framed(t, n, op, h)
      PROVE  Borrowed'
  <2>1. Turns(t, n, op, h) /\ On(t, n, op, h)
    BY <1>3, TurnStack DEF Framed
  <2>2. ASSUME NEW u \in Threads, NEW d \in Nat, NEW g \in Handles, NEW o \in {"use", "drop"},
               On(u, d, o, g)'
        PROVE  d > 0 /\ (u \in late' \/ Keeps(u, g)')
    <3>1. CASE u = t /\ d >= n
      <4>1. op = "retrieveSnapshot"
        BY <1>0, <1>3, <2>2, <3>1 DEF Framed, Later
      <4>2. n > 0 /\ On(t, 0, "refDec", Db)
        BY <2>1, <4>1 DEF Borrowed
      <4>3. On(t, 0, "refDec", Db)'
        BY <2>1, <4>2, TurnStack
      <4>. QED BY <3>1, <4>2, <4>3 DEF Keeps
    <3>2. CASE ~(u = t /\ d >= n)
      <4>1. On(u, d, o, g) /\ (u # t \/ d < n)
        BY <2>1, <2>2, <3>2, TurnStack
      <4>2. d > 0 /\ (u \in late \/ Keeps(u, g))
        BY <2>2, <4>1 DEF Borrowed
      <4>3. u \in late => u \in late'
        BY <1>3, <2>2 DEF Framed
      <4>4. Keeps(u, g) => Keeps(u, g)'
        BY <1>3, <2>2, <4>1, <4>2, KeepsOn
      <4>. QED BY <4>2, <4>3, <4>4
    <3>. QED BY <3>1, <3>2
  <2>3. ASSUME NEW u \in Threads, NEW d \in Nat, NEW g \in Handles, On(u, d, "retrieveSnapshot", g)'
        PROVE  d > 0 /\ On(u, 0, "refDec", Db)'
    <3>1. ~(u = t /\ d >= n)
      BY <1>0, <1>3, <2>3 DEF Framed, Later
    <3>2. On(u, d, "retrieveSnapshot", g) /\ (u # t \/ d < n)
      BY <2>1, <2>3, <3>1, TurnStack
    <3>3. d > 0 /\ On(u, 0, "refDec", Db)
      BY <3>2 DEF Borrowed
    <3>. QED BY <2>1, <3>2, <3>3, TurnStack
  <2>. QED BY <2>2, <2>3 DEF Borrowed
<1>. QED BY <1>1, <1>2, <1>3, StepKinds

\* A database that is destroyed has no objects that are not, and no call
\* holds a reference on it, but for the late.
Alone == /\ closeReq[Db] >= 2 =>
              /\ \A t \in Threads : On(t, 0, "refDec", Db) => t \in late
              /\ \A o \in Objects \ late : Constructed(o) => closeReq[o] >= 2
         /\ mDb = "deleted" \/ Somewhere("deleteDb", Db) => closeReq[Db] >= 2

\* The destructor of the database starts with its last reference.
LEMMA AloneAtLast ==
  ASSUME Types, Nesting, Balance, NEW t, NEW n, NEW op, NEW h, Framed(t, n, op, h),
         closeReq[Db] < 2, closeReq'[Db] >= 2
  PROVE  /\ ~Somewhere("refDec", Db)'
         /\ \A o \in Objects : Constructed(o)' => closeReq'[o] >= 2
<1>0. /\ closeReq \in [Handles -> 0..3] /\ Db \in Handles /\ \A o \in Objects : o \in Handles /\ o # Db
      /\ Creation /\ Destruction /\ "refInc" \in Creates
  BY KindsAreDistinct DEF Types, TypeOK, Handles, Nesting, Creates
<1>1. op = "refDec" /\ Db = h /\ refs[Db] = 1 /\ closeReq[Db] = 1
  <2>1. ~(closeReq'[Db] < 2)
    <3>1. closeReq'[Db] \in {closeReq[Db], 1, 2, 3}
      BY <1>0 DEF Framed
    <3>. QED BY <1>0, <3>1
  <2>. QED BY <1>0, <2>1, RequestsStep
<1>2. Turns(t, n, "refDec", Db) /\ t \in Threads /\ n \in Nat /\ On(t, n, "refDec", Db)
  BY <1>1, TurnStack DEF Framed
<1>3. ~Somewhere("refInc", Db)
  BY <1>0 DEF Creation, Somewhere
<1>4. /\ \A o \in Objects : ~Holds(o, Db)
      /\ \A u \in Threads, d \in Nat : On(u, d, "refDec", Db) => u = t /\ d = n
  BY <1>0, <1>1, <1>2, <1>3, LastReference
<1>5. ~Somewhere("refDec", Db)'
  <2>1. \A d \in Nat : d >= n => ~On(t, d, "refDec", Db)'
    BY <1>0, <1>1 DEF Framed, Later
  <2>2. ASSUME NEW u \in Threads, NEW d \in Nat, On(u, d, "refDec", Db)' PROVE FALSE
    <3>1. On(u, d, "refDec", Db) /\ (u # t \/ d < n)
      BY <1>2, <2>1, <2>2, TurnStack
    <3>. QED BY <1>2, <1>4, <3>1
  <2>. QED BY <2>2 DEF Somewhere
<1>6. ASSUME NEW o \in Objects, Constructed(o)' PROVE closeReq'[o] >= 2
  <2>1. life'[o] = life[o]
    BY <1>0, <1>1 DEF Framed
  <2>2. ~(closeReq[o] < 2)
    BY <1>4, <1>6, <2>1 DEF Holds, Constructed
  <2>3. closeReq[o] >= 2
    BY <1>0, <2>2
  <2>. QED BY <1>0, <2>3, RequestsStep
<1>. QED BY <1>5, <1>6

\* A destroyed database stays alone.
LEMMA AloneStep ==
  ASSUME Types, Nesting, Balance, Alone, [Next]_vars
  PROVE  Alone'
<1>0. /\ closeReq \in [Handles -> 0..3] /\ Db \in Handles /\ \A o \in Objects : o \in Handles /\ o # Db
      /\ Creation /\ Destruction /\ "construct" \in Creates
  BY KindsAreDistinct DEF Types, TypeOK, Handles, Nesting, Creates
<1>1. CASE Neutral
  <2>1. /\ UNCHANGED <<life, closeReq, mDb, late>>
        /\ \A u, d, o, g : On(u, d, o, g)' <=> On(u, d, o, g)
    BY <1>1, NeutralStack DEF Neutral
  <2>. QED BY <2>1 DEF Alone, Somewhere, Constructed
<1>2. ASSUME NEW t \in Threads, Opened(t) PROVE Alone'
  <2>1. /\ Begins(t) /\ UNCHANGED <<closeReq, mDb>> /\ Lateness
        /\ \A g \in Handles : Constructed(g)' => Constructed(g)
        /\ \A d \in Nat : \A g : On(t, d, "refDec", g)' /\ closeReq[g] >= 2 => t \in late'
        /\ \A d \in Nat : \A g : ~On(t, d, "deleteDb", g)'
    BY <1>2 DEF Opened, Constructed
  <2>2. ASSUME closeReq'[Db] >= 2, NEW u \in Threads, On(u, 0, "refDec", Db)' PROVE u \in late'
    <3>1. CASE u = t
      BY <2>1, <2>2, <3>1
    <3>2. CASE u # t
      <4>1. On(u, 0, "refDec", Db)
        BY <2>1, <2>2, <3>2, BeginStack
      <4>2. u \in late
        BY <2>1, <2>2, <4>1 DEF Alone
      <4>. QED BY <2>1, <2>2, <4>2 DEF Lateness
    <3>. QED BY <3>1, <3>2
  <2>3. ASSUME closeReq'[Db] >= 2, NEW o \in Objects, o \notin late', Constructed(o)'
        PROVE  closeReq'[o] >= 2
    BY <1>0, <2>1, <2>3 DEF Alone, Lateness
  <2>4. Somewhere("deleteDb", Db)' => Somewhere("deleteDb", Db)
    BY <2>1, BeginStack DEF Somewhere
  <2>. QED BY <2>1, <2>2, <2>3, <2>4 DEF Alone
<1>3. ASSUME NEW t \in Threads, NEW n \in Nat, NEW op \in Operations, NEW h \in Handles,
             Framed(t, n, op, h)
      PROVE  Alone'
  <2>1. Turns(t, n, op, h) /\ On(t, n, op, h)
    BY <1>3, TurnStack DEF Framed
  <2>2. mDb' = "deleted" \/ Somewhere("deleteDb", Db)' => closeReq'[Db] >= 2
    <3>1. closeReq[Db] >= 2 => closeReq'[Db] >= 2
      BY <1>0, <1>3, RequestsStep
    <3>2. mDb' = "deleted" => mDb = "deleted" \/ Somewhere("deleteDb", Db)
      BY <1>3, <2>1 DEF Framed, Somewhere
    <3>3. \A d \in Nat : d >= n /\ On(t, d, "deleteDb", Db)' => closeReq'[Db] = 2
      BY <1>3 DEF Framed, Later
    <3>4. Somewhere("deleteDb", Db)' => Somewhere("deleteDb", Db) \/ closeReq'[Db] = 2
      BY <2>1, <3>3, TurnStack DEF Somewhere
    <3>. QED BY <3>1, <3>2, <3>4 DEF Alone
  <2>3. CASE closeReq[Db] >= 2
    <3>1. /\ \A u \in Threads : On(u, 0, "refDec", Db) => u \in late
          /\ \A o \in Objects \ late : Constructed(o) => closeReq[o] >= 2
      BY <2>3 DEF Alone
    <3>2. ~On(t, 0, "refDec", Db)' \/ 0 < n
      <4>1. SUFFICES ASSUME On(t, 0, "refDec", Db)', 0 >= n PROVE FALSE
        OBVIOUS
      <4>2. \/ op = "assign" /\ Db \in Objects
            \/ op = "initiate" /\ Db = h /\ closeReq[h] = 0
            \/ op = "refDec" /\ 0 > n
        BY <1>3, <4>1 DEF Framed, Later
      <4>. QED BY <1>0, <2>3, <4>1, <4>2
    <3>3. ASSUME NEW u \in Threads, On(u, 0, "refDec", Db)' PROVE u \in late'
      <4>1. On(u, 0, "refDec", Db)
        BY <2>1, <3>2, <3>3, TurnStack
      <4>2. u \in late
        BY <3>1, <4>1
      <4>. QED BY <1>3, <3>3, <4>2 DEF Framed
    <3>4. ASSUME NEW o \in Objects, o \notin late', Constructed(o)' PROVE closeReq'[o] >= 2
      <4>1. \/ life'[o] = life[o]
            \/ op = "construct" /\ o = h
            \/ op = "await" /\ o = h
        BY <1>0, <1>3 DEF Framed
      <4>2. o \notin late /\ ~(op = "construct" /\ o = h)
        BY <1>3, <2>3, <3>4 DEF Framed
      <4>3. op = "await" => life[h] # "absent"
        BY <1>0, <2>1, TopIsThere DEF Nesting
      <4>4. Constructed(o)
        BY <3>4, <4>1, <4>2, <4>3 DEF Constructed
      <4>5. closeReq[o] >= 2
        BY <3>1, <4>2, <4>4
      <4>. QED BY <1>0, <1>3, <4>5, RequestsStep
    <3>. QED BY <2>2, <3>3, <3>4 DEF Alone
  <2>4. CASE ~(closeReq[Db] >= 2)
    <3>1. closeReq[Db] < 2
      BY <1>0, <2>4
    <3>2. closeReq'[Db] >= 2 => /\ ~Somewhere("refDec", Db)'
                                /\ \A o \in Objects : Constructed(o)' => closeReq'[o] >= 2
      BY <1>3, <3>1, AloneAtLast
    <3>. QED BY <2>2, <3>2 DEF Alone, Somewhere
  <2>. QED BY <2>3, <2>4
<1>. QED BY <1>1, <1>2, <1>3, StepKinds

-----------------------------------------------------------------------------
(* The lists *)

\* An object whose creation reference is late is not destroyed: its count is
\* not above 0.
Fresh == \A o \in Objects : Somewhere("refInc", o) => refs[o] <= 0 /\ closeReq[o] < 2

\* What is not there is not counted.
LEMMA AbsentCount ==
  ASSUME Types, Present, Balance, NEW o \in Objects, life[o] = "absent"
  PROVE  refs[o] = 0 /\ closeReq[o] = 0
<1>0. o \in Handles /\ o # Db /\ "refDec" \in Operations \ Creates
  BY KindsAreDistinct DEF Handles, Objects, Operations, Creates
<1>1. closeReq[o] = 0
  BY <1>0 DEF Present, Constructed
<1>2. Own(o) = 0 /\ Owed(o) = 0
  BY DEF Own, Owed, Constructed
<1>3. Dues(o) = {}
  <2>1. \A t \in Threads, d \in Nat : ~On(t, d, "refDec", o)
    BY <1>0 DEF Present, Constructed
  <2>. QED BY <2>1 DEF Dues
<1>4. MembersOn(o) = {}
  <2>1. ASSUME NEW x \in Objects, Holds(x, o) PROVE FALSE
    <3>1. x \in Itrs /\ OnCf(x) /\ o = CfOf[x] /\ Constructed(x)
      BY <1>0, <2>1 DEF Holds, OnCf
    <3>. QED BY <3>1 DEF Present, Constructed
  <2>. QED BY <2>1, MembersCount
<1>5. Cardinality(Dues(o)) = 0 /\ Cardinality(MembersOn(o)) = 0
  BY <1>3, <1>4, FS_EmptySet
<1>6. refs[o] = Cardinality(Dues(o)) + Cardinality(MembersOn(o)) + Own(o) - Owed(o)
  BY <1>0 DEF Balance, Balanced
<1>. QED BY <1>1, <1>2, <1>5, <1>6

\* Nobody takes a reference before the creation reference is there.
LEMMA FreshStep ==
  ASSUME Types, Nesting, Balance, Known, Fresh, [Next]_vars
  PROVE  Fresh'
<1>0. /\ closeReq \in [Handles -> 0..3] /\ refs \in [Handles -> Int]
      /\ \A o \in Objects : o \in Handles /\ o # Db
      /\ Creation /\ Present /\ Destruction /\ "construct" \in Creates
  BY KindsAreDistinct DEF Types, TypeOK, Handles, Nesting, Creates
<1>1. CASE Neutral
  <2>1. UNCHANGED <<closeReq, refs>> /\ \A u, d, o, g : On(u, d, o, g)' <=> On(u, d, o, g)
    BY <1>1, NeutralStack DEF Neutral
  <2>. QED BY <2>1 DEF Fresh, Somewhere
<1>2. ASSUME NEW t \in Threads, Opened(t) PROVE Fresh'
  <2>1. ASSUME NEW o \in Objects, Somewhere("refInc", o)' PROVE refs'[o] <= 0 /\ closeReq'[o] < 2
    <3>1. Begins(t) /\ closeReq' = closeReq /\ (refs'[o] <= refs[o] \/ o \in Names)
      BY <1>0, <1>2 DEF Opened
    <3>2. \/ Somewhere("refInc", o)
          \/ life[o] = "absent"
      BY <1>2, <2>1, <3>1, BeginStack DEF Opened, Somewhere
    <3>3. refs[o] <= 0 /\ closeReq[o] < 2
      BY <1>0, <3>2, AbsentCount DEF Fresh
    <3>4. o \notin Names
      BY <1>0, <3>2 DEF Known, Present, Constructed
    <3>5. refs'[o] <= refs[o]
      BY <3>1, <3>4
    <3>6. refs'[o] \in Int
      <4>1. TypeOK'
        BY TypesStep DEF Types
      <4>. QED BY <1>0, <4>1 DEF TypeOK
    <3>. QED BY <1>0, <3>1, <3>3, <3>5, <3>6
  <2>. QED BY <2>1 DEF Fresh
<1>3. ASSUME NEW t \in Threads, NEW n \in Nat, NEW op \in Operations, NEW h \in Handles,
             Framed(t, n, op, h)
      PROVE  Fresh'
  <2>1. Turns(t, n, op, h) /\ On(t, n, op, h)
    BY <1>3, TurnStack DEF Framed
  <2>2. ASSUME NEW o \in Objects, Somewhere("refInc", o)' PROVE refs'[o] <= 0 /\ closeReq'[o] < 2
    <3>1. Somewhere("refInc", o) /\ ~(op = "refInc" /\ h = o)
      BY <1>0, <1>3, <2>2, CreationsEnd
    <3>2. refs[o] <= 0 /\ closeReq[o] < 2
      BY <3>1 DEF Fresh
    <3>3. closeReq'[o] < 2
      <4>1. refs[o] # 1
        BY <1>0, <3>2
      <4>. QED BY <1>0, <1>3, <3>2, <4>1, RequestsStep
    <3>4. \/ refs'[o] <= refs[o]
          \/ op = "assign" /\ o = h
          \/ op = "construct" /\ OnCf(h) /\ o = CfOf[h]
      BY <1>0, <1>3, <3>1 DEF Framed
    <3>5. ~(op = "assign" /\ o = h)
      BY <2>1, <3>1 DEF Known
    <3>6. ~(op = "construct" /\ OnCf(h) /\ o = CfOf[h])
      <4>1. op = "construct" => Somewhere("refInc", h)
        BY <1>0, <2>1 DEF Creation, Somewhere
      <4>. QED BY <3>1, <4>1 DEF Known, OnCf
    <3>7. refs'[o] <= refs[o]
      BY <3>4, <3>5, <3>6
    <3>8. refs'[o] \in Int
      <4>1. TypeOK'
        BY TypesStep DEF Types
      <4>. QED BY <1>0, <4>1 DEF TypeOK
    <3>. QED BY <1>0, <3>2, <3>3, <3>7, <3>8
  <2>. QED BY <2>2 DEF Fresh
<1>. QED BY <1>1, <1>2, <1>3, StepKinds

\* A destructor that left o in a list is still to take it out.
Unlinking(w, o) == Somewhere(IF w = Db THEN "unlink" ELSE "unlinkCf", o)

\* What the lists hold is not destroyed, or on its way out of them.
Listed ==
    /\ \A w \in Owners : \A o \in linked[w] :
          /\ w # Db => OnCf(o) /\ CfOf[o] = w
          /\ closeReq[o] # 3
          /\ closeReq[o] = 2 => Unlinking(w, o)
    /\ \A t \in Threads, d \in Nat, o \in Handles : \A op \in {"unlink", "unlinkCf"} :
          On(t, d, op, o) => \E c \in Nat : c < d /\ On(t, c, "done", o)
    /\ \A h \in Handles : life[h] = "freed" => closeReq[h] = 3

\* The lists, after a step of a call.
LEMMA ListsTurn ==
  ASSUME Types, Nesting, Balance, Fresh, Listed, NEW t, NEW n, NEW op, NEW h, Framed(t, n, op, h),
         NEW w \in Owners, NEW o \in linked'[w], o \in Objects
  PROVE  /\ w # Db => OnCf(o) /\ CfOf[o] = w
         /\ closeReq'[o] # 3
         /\ closeReq'[o] = 2 => Unlinking(w, o)'
<1>0. /\ closeReq \in [Handles -> 0..3] /\ o \in Handles /\ o # Db
      /\ Creation /\ Present /\ Destruction /\ {"link", "linkCf"} \subseteq Creates
  BY KindsAreDistinct DEF Types, TypeOK, Handles, Nesting, Creates
<1>1. Turns(t, n, op, h) /\ t \in Threads /\ n \in Nat /\ h \in Handles /\ On(t, n, op, h)
  BY TurnStack DEF Framed
<1>2. \/ o \in linked[w] /\ ~(op \in {"unlink", "unlinkCf"} /\ o = h /\ w = ListOf(op, h))
      \/ op \in {"link", "linkCf"} /\ o = h /\ w = ListOf(op, h)
  BY DEF Framed
<1>3. \/ closeReq'[o] = closeReq[o]
      \/ op = "initiate" /\ closeReq'[o] = 1
      \/ /\ op = "refDec" /\ o = h
         /\ \E d \in Nat : On(t, d, "unlink", o)'
         /\ OnCf(o) => \E d \in Nat : On(t, d, "unlinkCf", o)'
      \/ op = "done" /\ o = h
  BY <1>0 DEF Framed
<1>4. CASE op \in {"link", "linkCf"} /\ o = h /\ w = ListOf(op, h)
  <2>1. On(t, 1, "refInc", h) /\ (op = "linkCf" => OnCf(h))
    BY <1>0, <1>1, <1>4 DEF Creation
  <2>2. closeReq[o] < 2
    BY <1>1, <1>4, <2>1 DEF Fresh, Somewhere
  <2>3. closeReq'[o] = closeReq[o]
    BY <1>3, <1>4
  <2>. QED BY <1>0, <1>4, <2>1, <2>2, <2>3 DEF ListOf
<1>5. CASE o \in linked[w] /\ ~(op \in {"unlink", "unlinkCf"} /\ o = h /\ w = ListOf(op, h))
  <2>1. /\ w # Db => OnCf(o) /\ CfOf[o] = w
        /\ closeReq[o] # 3
        /\ closeReq[o] = 2 => Unlinking(w, o)
    BY <1>5 DEF Listed
  <2>2. ~(op = "done" /\ o = h)
    <3>1. SUFFICES ASSUME op = "done", o = h PROVE FALSE
      OBVIOUS
    <3>2. closeReq[o] = 2
      BY <1>0, <1>1, <3>1 DEF Destruction, Somewhere
    <3>3. PICK u \in Threads, d \in Nat : On(u, d, IF w = Db THEN "unlink" ELSE "unlinkCf", o)
      BY <2>1, <3>2 DEF Unlinking, Somewhere
    <3>4. PICK c \in Nat : c < d /\ On(u, c, "done", o)
      BY <1>0, <3>3 DEF Listed
    <3>5. u = t /\ c = n
      BY <1>0, <1>1, <3>1, <3>4 DEF Destruction
    <3>6. d < n \/ d = n
      BY <1>1, <3>3, <3>5, TurnStack
    <3>. QED BY <1>1, <3>4, <3>5, <3>6
  <2>3. closeReq'[o] # 3
    BY <1>0, <2>1, <2>2 DEF Framed
  <2>4. ASSUME closeReq'[o] = 2 PROVE Unlinking(w, o)'
    <3>1. CASE closeReq'[o] = closeReq[o]
      <4>. DEFINE x == IF w = Db THEN "unlink" ELSE "unlinkCf"
      <4>1. PICK u \in Threads, d \in Nat : On(u, d, x, o)
        BY <2>1, <2>4, <3>1 DEF Unlinking, Somewhere
      <4>2. ~(u = t /\ d = n /\ x = op /\ o = h)
        <5>1. x = op => w = ListOf(op, o)
          BY <2>1 DEF ListOf
        <5>. QED BY <1>5, <5>1
      <4>. HIDE DEF x
      <4>3. On(u, d, x, o)'
        BY <1>1, <4>1, <4>2, TurnStack
      <4>. QED BY <4>3 DEF Unlinking, Somewhere, x
    <3>2. CASE /\ op = "refDec" /\ o = h
               /\ \E d \in Nat : On(t, d, "unlink", o)'
               /\ OnCf(o) => \E d \in Nat : On(t, d, "unlinkCf", o)'
      BY <1>1, <2>1, <3>2 DEF Unlinking, Somewhere
    <3>. QED BY <1>3, <2>2, <2>4, <3>1, <3>2
  <2>. QED BY <2>1, <2>3, <2>4
<1>. QED BY <1>2, <1>4, <1>5

\* No step leaves an object that is destroyed in a list.
LEMMA ListedStep ==
  ASSUME Types, Nesting, Balance, Fresh, Listed, [Next]_vars
  PROVE  Listed'
<1>0. /\ closeReq \in [Handles -> 0..3] /\ linked \in [Owners -> SUBSET Objects]
      /\ Creation /\ Present /\ Destruction
  BY DEF Types, TypeOK, Nesting
<1>1. CASE Neutral
  <2>1. /\ UNCHANGED <<closeReq, linked, life>>
        /\ \A u, d, o, g : On(u, d, o, g)' <=> On(u, d, o, g)
    BY <1>1, NeutralStack DEF Neutral
  <2>2. \A w, o : Unlinking(w, o)' <=> Unlinking(w, o)
    BY <2>1 DEF Unlinking, Somewhere
  <2>. QED BY <2>1, <2>2 DEF Listed
<1>2. ASSUME NEW t \in Threads, Opened(t) PROVE Listed'
  <2>1. /\ Begins(t) /\ UNCHANGED <<closeReq, linked>>
        /\ \A g \in Handles : life'[g] = "freed" => life[g] = "freed"
        /\ \A d \in Nat : \A o, g : On(t, d, o, g)' => o \notin {"unlink", "unlinkCf"}
    BY <1>2 DEF Opened
  <2>2. \A w, o : Unlinking(w, o) => Unlinking(w, o)'
    BY <2>1, BeginStack DEF Unlinking, Somewhere
  <2>3. ASSUME NEW u \in Threads, NEW d \in Nat, NEW o \in Handles, NEW op \in {"unlink", "unlinkCf"},
               On(u, d, op, o)'
        PROVE  \E c \in Nat : c < d /\ On(u, c, "done", o)'
    <3>1. On(u, d, op, o)
      BY <2>1, <2>3, BeginStack
    <3>2. PICK c \in Nat : c < d /\ On(u, c, "done", o)
      BY <2>3, <3>1 DEF Listed
    <3>. QED BY <2>1, <3>2, BeginStack
  <2>. QED BY <2>1, <2>2, <2>3 DEF Listed
<1>3. ASSUME NEW t \in Threads, NEW n \in Nat, NEW op \in Operations, NEW h \in Handles,
             Framed(t, n, op, h)
      PROVE  Listed'
  <2>1. Turns(t, n, op, h) /\ On(t, n, op, h)
    BY <1>3, TurnStack DEF Framed
  <2>2. linked' \in [Owners -> SUBSET Objects]
    <3>1. TypeOK'
      BY TypesStep DEF Types
    <3>. QED BY <3>1 DEF TypeOK
  <2>3. ASSUME NEW w \in Owners, NEW o \in linked'[w]
        PROVE  /\ w # Db => OnCf(o) /\ CfOf[o] = w
               /\ closeReq'[o] # 3
               /\ closeReq'[o] = 2 => Unlinking(w, o)'
    <3>1. o \in Objects
      BY <2>2
    <3>. QED BY <1>3, <3>1, ListsTurn
  <2>4. ASSUME NEW u \in Threads, NEW d \in Nat, NEW o \in Handles, NEW x \in {"unlink", "unlinkCf"},
               On(u, d, x, o)'
        PROVE  \E c \in Nat : c < d /\ On(u, c, "done", o)'
    <3>1. CASE u = t /\ d >= n
      <4>1. o = h /\ d > n /\ closeReq[h] = 1 /\ closeReq'[h] = 2
        BY <1>3, <2>4, <3>1 DEF Framed, Later
      <4>2. On(t, n, "done", h)'
        BY <1>3, <4>1 DEF Framed
      <4>. QED BY <3>1, <4>1, <4>2
    <3>2. CASE ~(u = t /\ d >= n)
      <4>1. On(u, d, x, o) /\ (u # t \/ d < n)
        BY <2>1, <2>4, <3>2, TurnStack
      <4>2. PICK c \in Nat : c < d /\ On(u, c, "done", o)
        BY <2>4, <4>1 DEF Listed
      <4>3. On(u, c, "done", o)'
        BY <2>1, <4>1, <4>2, TurnStack
      <4>. QED BY <4>2, <4>3
    <3>. QED BY <3>1, <3>2
  <2>5. ASSUME NEW g \in Handles, life'[g] = "freed" PROVE closeReq'[g] = 3
    <3>1. \/ life[g] = "freed"
          \/ op = "await" /\ g = h /\ closeReq[g] = 3
      BY <1>3, <2>5 DEF Framed
    <3>2. closeReq[g] = 3
      BY <3>1 DEF Listed
    <3>. QED BY <1>3, <3>2 DEF Framed
  <2>. QED BY <2>3, <2>4, <2>5 DEF Listed
<1>. QED BY <1>1, <1>2, <1>3, StepKinds

-----------------------------------------------------------------------------
(* The column families and their iterators *)

\* The order of the destructors of a family and of what reads it.
InOrder == \A i \in Itrs : OnCf(i) /\ Constructed(i) /\ closeReq[CfOf[i]] >= 2 => closeReq[i] >= 2

\* The destructor of a family starts after those of the iterators over it.
FamilyWaits ==
    \A i \in Itrs : OnCf(i) /\ Constructed(i) /\ closeReq[CfOf[i]] < 2 /\ closeReq'[CfOf[i]] >= 2
                      => closeReq[i] >= 2

\* An iterator that is there holds a reference on its family.
LEMMA FamilyWaitsStep ==
  ASSUME Types, Nesting, Balance, Known, [Next]_vars
  PROVE  FamilyWaits
<1>0. /\ closeReq \in [Handles -> 0..3] /\ Destruction
      /\ \A i \in Itrs : i \in Handles /\ i \in Objects /\ (OnCf(i) => CfOf[i] \in Handles)
  BY CfOfType DEF Types, TypeOK, Handles, Objects, OnCf, Nesting
<1>1. CASE Neutral \/ \E t \in Threads : Opened(t)
  <2>1. closeReq' = closeReq
    BY <1>1 DEF Neutral, Opened
  <2>. QED BY <1>0, <2>1 DEF FamilyWaits
<1>2. ASSUME NEW t \in Threads, NEW n \in Nat, NEW op \in Operations, NEW h \in Handles,
             Framed(t, n, op, h),
             NEW i \in Itrs, OnCf(i), Constructed(i),
             closeReq[CfOf[i]] < 2, closeReq'[CfOf[i]] >= 2
      PROVE  closeReq[i] >= 2
  <2>1. ~(closeReq'[CfOf[i]] < 2)
    <3>1. closeReq'[CfOf[i]] \in {closeReq[CfOf[i]], 1, 2, 3}
      BY <1>0, <1>2 DEF Framed
    <3>. QED BY <1>0, <1>2, <3>1
  <2>2. op = "refDec" /\ CfOf[i] = h /\ refs[h] = 1 /\ closeReq[h] = 1
    BY <1>0, <1>2, <2>1, RequestsStep
  <2>3. On(t, n, "refDec", h)
    BY <1>2, <2>2, TurnStack DEF Framed
  <2>4. ~Somewhere("refInc", h)
    BY <1>2, <2>2 DEF Known
  <2>5. ~Holds(i, h)
    BY <1>0, <2>2, <2>3, <2>4, LastReference
  <2>6. ~(closeReq[i] < 2)
    BY <1>2, <2>2, <2>5 DEF Holds
  <2>. QED BY <1>0, <2>6
<1>. QED BY <1>1, <1>2, StepKinds DEF FamilyWaits

\* The order stays, where no iterator is made over a family in the meantime.
LEMMA InOrderStep ==
  ASSUME \A i \in Itrs : OnCf(i) => Constructed(i),
         Types, Nesting, Balance, Known, InOrder, [Next]_vars
  PROVE  InOrder'
<1>0. /\ closeReq \in [Handles -> 0..3] /\ Destruction
      /\ \A i \in Itrs : i \in Handles /\ (OnCf(i) => CfOf[i] \in Handles)
  BY CfOfType DEF Types, TypeOK, Handles, Objects, OnCf, Nesting
<1>1. FamilyWaits
  BY FamilyWaitsStep
<1>2. CASE Neutral \/ \E t \in Threads : Opened(t)
  <2>1. closeReq' = closeReq
    BY <1>2 DEF Neutral, Opened
  <2>. QED BY <2>1 DEF InOrder
<1>3. ASSUME NEW t \in Threads, NEW n \in Nat, NEW op \in Operations, NEW h \in Handles,
             Framed(t, n, op, h)
      PROVE  InOrder'
  <2>1. ASSUME NEW i \in Itrs, OnCf(i), closeReq'[CfOf[i]] >= 2 PROVE closeReq'[i] >= 2
    <3>1. closeReq[CfOf[i]] >= 2 \/ closeReq[CfOf[i]] < 2
      BY <1>0, <2>1
    <3>2. closeReq[i] >= 2
      BY <1>1, <2>1, <3>1 DEF InOrder, FamilyWaits
    <3>. QED BY <1>0, <1>3, <3>2, RequestsStep
  <2>. QED BY <2>1 DEF InOrder
<1>. QED BY <1>2, <1>3, StepKinds

-----------------------------------------------------------------------------
(* The theorems *)

\* What the stacks, the state and the counts say of each other, together.
Ties == Types /\ Nesting /\ Balance

\* Who may still come, and who is left.
Holders == Known /\ Borrowed /\ Alone /\ Fresh /\ Listed

IInv == Ties /\ Holders

\* Nobody holds anything but what there is at the start.
LEMMA HoldersAtStart == Init => Holders
<1>. SUFFICES ASSUME Init PROVE Holders
  OBVIOUS
<1>1. ASSUME NEW t \in Threads, NEW d \in Nat, NEW op, NEW h PROVE ~On(t, d, op, h)
  <2>1. Len(todo[t]) = 0
    BY DEF Init
  <2>. QED BY <2>1 DEF On
<1>2. \A op, h : ~Somewhere(op, h)
  BY <1>1 DEF Somewhere
<1>3. Known /\ Borrowed /\ Fresh
  BY <1>1, <1>2 DEF Known, Borrowed, Fresh
<1>4. Alone
  <2>1. closeReq[Db] = 0 /\ mDb = "open"
    BY DEF Init, Handles
  <2>. QED BY <1>2, <2>1 DEF Alone
<1>5. Listed
  <2>1. ASSUME NEW w \in Owners, NEW o \in linked[w]
        PROVE  (w # Db => OnCf(o) /\ CfOf[o] = w) /\ closeReq[o] = 0
    <3>1. o \in Existing /\ (w # Db => o \in Itrs /\ CfOf[o] = w)
      BY <2>1 DEF Init
    <3>2. o \in Handles
      BY <3>1, ExistingType DEF Handles
    <3>3. w # Db => w \in Cfs
      BY DEF Owners
    <3>. QED BY <3>1, <3>2, <3>3, CfOfType DEF Init, OnCf
  <2>2. \A h \in Handles : life[h] # "freed"
    BY DEF Init
  <2>. QED BY <1>1, <2>1, <2>2 DEF Listed
<1>. QED BY <1>3, <1>4, <1>5 DEF Holders

\* The inductive invariant: it holds at the start and no step breaks it, for
\* any finite sets of threads and objects and any depth of the calls.
THEOREM IInvInductive == (Init => IInv) /\ (IInv /\ [Next]_vars => IInv')
<1>1. Init => IInv
  BY TypesAtStart, NestingAtStart, BalanceAtStart, HoldersAtStart DEF IInv, Ties
<1>2. IInv /\ [Next]_vars => IInv'
  <2>. SUFFICES ASSUME IInv, [Next]_vars PROVE IInv'
    OBVIOUS
  <2>1. /\ Types /\ Creation /\ Present /\ Destruction /\ Nesting /\ Balance
        /\ Known /\ Borrowed /\ Alone /\ Fresh /\ Listed
    BY DEF IInv, Ties, Nesting, Holders
  <2>2. Types' /\ Creation' /\ Present' /\ Destruction' /\ Balance'
    BY <2>1, TypesStep, CreationStep, PresentStep, DestructionStep, BalanceStep
  <2>3. Known' /\ Borrowed' /\ Alone' /\ Fresh' /\ Listed'
    BY <2>1, KnownStep, BorrowedStep, AloneStep, FreshStep, ListedStep
  <2>. QED BY <2>2, <2>3 DEF IInv, Ties, Nesting, Holders
<1>. QED BY <1>1, <1>2

\* The inductive invariant holds in every reachable state.
LEMMA IInvHolds == Spec => []IInv
BY IInvInductive, PTL DEF Spec

\* Every variable has the values the code can give it, and every stack is
\* made of the code's calls.
THEOREM TypesHold == Spec => []TypeOK
<1>1. IInv => TypeOK
  BY DEF IInv, Ties, Types
<1>. QED BY <1>1, IInvHolds, PTL

\* Every count is what calls in progress and members of other objects will
\* give back, plus the creation reference: RefInc and RefDec, through all the
\* nesting of Shutdown, destructors and NIFs, lose and repeat nothing.
THEOREM CountsBalance == Spec => []RefsBalance
<1>1. IInv => RefsBalance
  BY BalanceIs DEF IInv, Ties
<1>. QED BY <1>1, IInvHolds, PTL

\* RocksDB's database is closed after every object is destroyed, and when no
\* call works on it: Shutdown, the m_DbPtr members and the references of the
\* NIFs keep it open that long.  Only a call that took its reference after the
\* destructor had begun, and what it constructs, can find it closed.
THEOREM DbIsClosedLast == Spec => []DbClosedLast
<1>1. IInv => DbClosedLast
  <2>. SUFFICES ASSUME IInv, mDb = "deleted" PROVE
          /\ \A o \in Objects \ late : Constructed(o) => closeReq[o] >= 2
          /\ \A t \in Threads \ late, h \in Handles, op \in {"use", "drop", "construct"} : ~At(t, op, h)
    BY DEF DbClosedLast
  <2>0. /\ Types /\ Present /\ Creation /\ Borrowed /\ Alone
        /\ {"use", "drop"} \subseteq Operations \ Creates /\ "construct" \in Creates
    BY DEF IInv, Ties, Holders, Nesting, Operations, Creates
  <2>. closeReq \in [Handles -> 0..3]
    BY <2>0 DEF Types, TypeOK
  <2>1. /\ \A t \in Threads : On(t, 0, "refDec", Db) => t \in late
        /\ \A o \in Objects \ late : Constructed(o) => closeReq[o] >= 2
    BY <2>0 DEF Alone
  <2>2. ASSUME NEW t \in Threads \ late, NEW h \in Handles, NEW op \in {"use", "drop", "construct"},
               At(t, op, h)
        PROVE  FALSE
    <3>. DEFINE n == Len(todo[t]) - 1
    <3>1. todo[t] \in Seq(Entries) /\ todo[t] # << >> /\ todo[t][1] = <<op, h>>
      BY <2>0, <2>2 DEF At, Types
    <3>2. n \in Nat /\ n < Len(todo[t]) /\ Len(todo[t]) - n = 1
      BY <3>1
    <3>3. On(t, n, op, h)
      BY <3>1, <3>2 DEF On
    <3>. HIDE DEF n
    <3>4. ~On(t, 0, "refDec", Db)
      BY <2>1
    <3>5. CASE op = "construct"
      BY <2>0, <3>2, <3>3, <3>4, <3>5 DEF Creation
    <3>6. CASE op \in {"use", "drop"}
      <4>1. h # Db /\ closeReq[h] < 2 /\ h \notin late
        BY <2>0, <3>2, <3>3, <3>4, <3>6 DEF Borrowed, Keeps
      <4>2. h \in Objects /\ Constructed(h)
        BY <2>0, <3>2, <3>3, <3>6, <4>1 DEF Present, Handles
      <4>. QED BY <2>1, <4>1, <4>2
    <3>. QED BY <3>5, <3>6
  <2>. QED BY <2>1, <2>2
<1>. QED BY <1>1, IInvHolds, PTL

\* An object in a list of the database or of a column family has not been
\* destroyed, or its destructor is still to take it out: RemoveReference
\* comes before ~ErlRefObject on every path.
THEOREM ListsHoldTheLiving == Spec => []ListedIsAlive
<1>1. IInv => ListedIsAlive
  <2>. SUFFICES ASSUME IInv, NEW w \in Owners, NEW o \in linked[w]
       PROVE  /\ Constructed(o) /\ life[o] # "freed"
              /\ closeReq[o] = 2 =>
                   <<"unlink", o>> \in Pending \/ (w # Db /\ <<"unlinkCf", o>> \in Pending)
              /\ closeReq[o] # 3
    BY DEF ListedIsAlive
  <2>1. Types /\ Present /\ Listed /\ o \in Handles
    BY DEF IInv, Ties, Holders, Nesting, Types, TypeOK, Handles
  <2>2. Constructed(o)
    BY <2>1 DEF Present
  <2>3. closeReq[o] # 3 /\ (closeReq[o] = 2 => Unlinking(w, o))
    BY <2>1 DEF Listed
  <2>4. life[o] # "freed"
    BY <2>1, <2>3 DEF Listed
  <2>5. Unlinking(w, o) => <<"unlink", o>> \in Pending \/ (w # Db /\ <<"unlinkCf", o>> \in Pending)
    BY <2>1, PendingIs DEF Unlinking
  <2>. QED BY <2>2, <2>3, <2>4, <2>5
<1>. QED BY <1>1, IInvHolds, PTL

\* A destructor runs once, and a column family is destroyed after the
\* iterators that read it, where Iterators does not run next to a drop of the
\* family it reads: the iterators over a family are there from the start.
THEOREM DestructorsInOrder ==
  ASSUME \A i \in Itrs : OnCf(i) => i \in Existing
  PROVE  Spec => []DestroyedOnceInOrder
<1>. DEFINE Kept == InOrder /\ \A i \in Itrs : OnCf(i) => Constructed(i)
<1>0. \A i \in Itrs : i \in Handles
  BY DEF Handles, Objects
<1>1. Init => Kept
  <2>. SUFFICES ASSUME Init PROVE Kept
    OBVIOUS
  <2>1. \A h \in Handles : closeReq[h] = 0
    BY DEF Init
  <2>2. \A i \in Itrs : OnCf(i) => CfOf[i] \in Handles
    BY CfOfType DEF OnCf, Handles, Objects
  <2>3. \A i \in Itrs : OnCf(i) => Constructed(i)
    BY <1>0 DEF Init, Constructed
  <2>. QED BY <2>1, <2>2, <2>3 DEF InOrder
<1>2. IInv /\ Kept /\ [Next]_vars => Kept'
  <2>. SUFFICES ASSUME IInv, Kept, [Next]_vars PROVE Kept'
    OBVIOUS
  <2>1. Types /\ Nesting /\ Balance /\ Known /\ Creation /\ Present
    BY DEF IInv, Ties, Holders, Nesting
  <2>2. InOrder'
    BY <2>1, InOrderStep
  <2>3. ASSUME NEW i \in Itrs, Constructed(i) PROVE Constructed(i)'
    <3>1. CASE Neutral
      BY <2>3, <3>1 DEF Neutral, Constructed
    <3>2. ASSUME NEW t \in Threads, Opened(t) PROVE Constructed(i)'
      BY <1>0, <2>3, <3>2 DEF Opened, Constructed
    <3>3. ASSUME NEW t \in Threads, NEW n \in Nat, NEW op \in Operations, NEW h \in Handles,
                 Framed(t, n, op, h)
          PROVE  Constructed(i)'
      BY <1>0, <2>3, <3>3 DEF Framed, Constructed
    <3>. QED BY <2>1, <3>1, <3>2, <3>3, StepKinds
  <2>. QED BY <2>2, <2>3
<1>3. IInv /\ Kept => DestroyedOnceInOrder
  <2>. SUFFICES ASSUME IInv, Kept PROVE DestroyedOnceInOrder
    OBVIOUS
  <2>1. Types /\ Destruction
    BY DEF IInv, Ties, Nesting
  <2>2. \A t \in Threads : \A h : <<"done", h>> \in ToSet(todo[t]) <=> \E d \in Nat : On(t, d, "done", h)
    BY <2>1, PendingIs
  <2>3. \A h \in Handles :
           closeReq[h] = 2 <=> \E t \in Threads : <<"done", h>> \in ToSet(todo[t])
    BY <2>1, <2>2 DEF Destruction, Somewhere
  <2>4. \A h \in Handles, t, u \in Threads :
           <<"done", h>> \in ToSet(todo[t]) /\ <<"done", h>> \in ToSet(todo[u]) => t = u
    BY <2>1, <2>2 DEF Destruction
  <2>. QED BY <2>3, <2>4 DEF DestroyedOnceInOrder, InOrder
<1>. HIDE DEF Kept
<1>4. Spec => []Kept
  BY <1>1, <1>2, IInvHolds, PTL DEF Spec
<1>. QED BY <1>3, <1>4, IInvHolds, PTL

\* Whoever drops or closes next to it, a column family is not destroyed under
\* an iterator that has its reference (m_ColumnFamilyPtr): its destructor
\* starts when those of its iterators did.
THEOREM FamilyOutlivesItsIterators == Spec => [][FamilyWaits]_vars
<1>1. IInv /\ [Next]_vars => [FamilyWaits]_vars
  BY FamilyWaitsStep DEF IInv, Ties, Holders
<1>. QED BY <1>1, IInvHolds, PTL DEF Spec
=============================================================================
