----------------------- MODULE TransactionLog_proofs -----------------------
(***************************************************************************)
(* What a replica that follows a log holds, for logs, batches, families,   *)
(* failures and kills of any number.                                       *)
(***************************************************************************)
EXTENDS TransactionLog, WellFoundedInduction, TLAPS

Op    == [id : 1..MaxSeq, cf : 0..MaxFamilies]
Batch == [seq : Nat, ops : Seq(Op), wal : {"kept", "purged", "none"}]

\* No batch is empty, and each starts where the one before it ends.
Consecutive(batches) ==
    /\ 1 \in DOMAIN batches => batches[1].seq = 1
    /\ \A i \in DOMAIN batches : Len(batches[i].ops) >= 1
    /\ \A i, j \in DOMAIN batches :
          i < j => /\ batches[i].seq + Len(batches[i].ops) <= batches[j].seq
                   /\ j = i + 1 => batches[i].seq + Len(batches[i].ops) = batches[j].seq

Reading == {"have", "writing"}

Types == /\ TypeOK
         /\ replica \in Seq(Batch)
         /\ \A i \in DOMAIN replica : Len(replica[i].ops) >= 1
         /\ pc \in Reading => inHand # 0
         /\ pc = "dead" => ~itr["replicator"].open
         /\ \A c \in Consumers : itr[c].open \/ itr[c].at = 0

\* What a replicator has in hand, or left to a NIF when it was killed, is the
\* batch that the replica needs next.
HandsOn ==
    ~overtaken => /\ pc \in Reading => inHand = Len(replica) + 1
                  /\ orphans # {} => pc = "dead" /\ orphans = {Len(replica) + 1}

\* Its iterator stands on that batch or, when the log has lost it, later.
Behind(at) == /\ at >= Len(replica) + 1
              /\ \A j \in DOMAIN log : j > Len(replica) /\ j < at => log[j].wal # "kept"

Positioned ==
    ~overtaken /\ itr["replicator"].at # 0 =>
        /\ pc = "idle" => Behind(itr["replicator"].at)
        /\ pc \in Reading => itr["replicator"].at = inHand + 1

IInv == /\ Types
        /\ Consecutive(log)
        /\ ReplicaIsPrefix
        /\ HandsOn
        /\ Positioned
        /\ GapIsReal

-----------------------------------------------------------------------------
(* Batches *)

\* Logs are sequences of batches.
LEMMA BatchesAreBatch ==
  ASSUME NEW b \in Batches
  PROVE  b \in Batch /\ b.seq \in 1..MaxSeq /\ b.ops \in Seq(Op)
<1>1. PICK m \in 0..MaxBatch : b.ops \in [1..m -> Op]
  BY DEF Batches, BoundedSeq, SeqOf, Op
<1>2. m \in Nat
  BY <1>1, BoundsAreNaturals
<1>3. b.ops \in Seq(Op)
  BY <1>1, <1>2
<1>. QED BY <1>3, BoundsAreNaturals DEF Batches, Batch

\* What the fields of a batch are.
LEMMA BatchFields ==
  ASSUME NEW bs \in Seq(Batch), NEW i \in DOMAIN bs
  PROVE  /\ bs[i] \in Batch
         /\ bs[i].seq \in Nat
         /\ bs[i].ops \in Seq(Op)
         /\ Len(bs[i].ops) \in Nat
<1>1. bs[i] \in Batch
  OBVIOUS
<1>2. bs[i].seq \in Nat /\ bs[i].ops \in Seq(Op)
  BY <1>1 DEF Batch
<1>3. Len(bs[i].ops) \in Nat
  BY <1>2
<1>. QED BY <1>1, <1>2, <1>3

\* GetLatestSequenceNumber is the number of the last update.
LEMMA LatestIsLast ==
  ASSUME NEW bs \in Seq(Batch), \A i \in DOMAIN bs : Len(bs[i].ops) >= 1
  PROVE  /\ Latest(bs) \in Nat
         /\ bs = <<>> => Latest(bs) = 0
         /\ bs # <<>> => /\ Len(bs) \in DOMAIN bs
                         /\ Latest(bs) = bs[Len(bs)].seq + Len(bs[Len(bs)].ops) - 1
<1>1. CASE bs = <<>>
  BY <1>1 DEF Latest
<1>2. CASE bs # <<>>
  <2>1. Len(bs) \in DOMAIN bs
    BY <1>2
  <2>2. /\ bs[Len(bs)].seq \in Nat /\ Len(bs[Len(bs)].ops) \in Nat
        /\ Len(bs[Len(bs)].ops) >= 1
    BY <2>1, BatchFields
  <2>3. Latest(bs) = bs[Len(bs)].seq + Len(bs[Len(bs)].ops) - 1
    BY <1>2 DEF Latest, Last
  <2>. QED BY <1>2, <2>1, <2>2, <2>3
<1>. QED BY <1>1, <1>2

\* A write keeps the batches consecutive.
LEMMA DbWriteIsConsecutive ==
  ASSUME NEW bs \in Seq(Batch), Consecutive(bs), NEW ops \in Seq(Op), Len(ops) >= 1,
         NEW wal \in {"kept", "purged", "none"}
  PROVE  /\ Consecutive(DbWrite(bs, ops, wal))
         /\ DbWrite(bs, ops, wal) \in Seq(Batch)
<1>. DEFINE b == [seq |-> Latest(bs) + 1, ops |-> ops, wal |-> wal]
            new == Append(bs, b)
<1>1. /\ Latest(bs) \in Nat
      /\ bs = <<>> => Latest(bs) = 0
      /\ bs # <<>> => /\ Len(bs) \in DOMAIN bs
                      /\ Latest(bs) = bs[Len(bs)].seq + Len(bs[Len(bs)].ops) - 1
  BY LatestIsLast DEF Consecutive
<1>2. b \in Batch
  BY <1>1 DEF Batch
<1>3. new \in Seq(Batch)
  BY <1>2
<1>4. /\ DOMAIN new = 1..(Len(bs) + 1)
      /\ \A i \in 1..Len(bs) : new[i] = bs[i]
      /\ new[Len(bs) + 1] = b
  OBVIOUS
<1>5. \A i \in DOMAIN bs : bs[i].seq \in Nat /\ Len(bs[i].ops) \in Nat
  BY BatchFields
<1>6. \A i \in DOMAIN new : Len(new[i].ops) >= 1
  BY <1>4 DEF Consecutive
<1>7. 1 \in DOMAIN new => new[1].seq = 1
  BY <1>1, <1>4 DEF Consecutive
<1>8. ASSUME NEW i \in DOMAIN new, NEW j \in DOMAIN new, i < j
      PROVE  /\ new[i].seq + Len(new[i].ops) <= new[j].seq
             /\ j = i + 1 => new[i].seq + Len(new[i].ops) = new[j].seq
  <2>1. CASE j \in DOMAIN bs
    BY <1>4, <1>8, <2>1 DEF Consecutive
  <2>2. CASE j = Len(bs) + 1
    <3>1. i \in DOMAIN bs /\ bs # <<>>
      BY <1>4, <1>8, <2>2
    <3>2. bs[i].seq + Len(bs[i].ops) <= bs[Len(bs)].seq + Len(bs[Len(bs)].ops)
      <4>1. CASE i = Len(bs)
        BY <4>1, <3>1, <1>5
      <4>2. CASE i < Len(bs)
        <5>1. bs[i].seq + Len(bs[i].ops) <= bs[Len(bs)].seq
          BY <4>2, <3>1, <1>1 DEF Consecutive
        <5>2. /\ bs[Len(bs)].seq \in Nat /\ Len(bs[Len(bs)].ops) \in Nat
              /\ bs[i].seq \in Nat /\ Len(bs[i].ops) \in Nat
          BY <3>1, <1>1, <1>5
        <5>3. \A k, l, m, o \in Nat : k + l <= m => k + l <= m + o
          OBVIOUS
        <5>. QED BY <5>1, <5>2, <5>3, Zenon
      <4>. QED BY <3>1, <4>1, <4>2
    <3>3. new[j].seq = bs[Len(bs)].seq + Len(bs[Len(bs)].ops)
      BY <1>1, <1>4, <1>5, <2>2, <3>1
    <3>. QED BY <1>4, <1>8, <2>2, <3>1, <3>2, <3>3
  <2>. QED BY <1>4, <2>1, <2>2
<1>9. Consecutive(new)
  BY <1>6, <1>7, <1>8 DEF Consecutive
<1>. QED BY <1>3, <1>9 DEF DbWrite

\* The batch that follows the replica's is the one with the next number.
LEMMA NextBatch ==
  ASSUME NEW i \in DOMAIN log, log \in Seq(Batch), replica \in Seq(Batch),
         \A k \in DOMAIN replica : Len(replica[k].ops) >= 1,
         Consecutive(log), ReplicaIsPrefix, ~overtaken
  PROVE  /\ Latest(replica) \in Nat
         /\ i <= Len(replica) => log[i].seq + Len(log[i].ops) <= Latest(replica) + 1
         /\ i = Len(replica) + 1 => log[i].seq = Latest(replica) + 1
         /\ i > Len(replica) => log[i].seq >= Latest(replica) + 1
         /\ log[i].seq = Latest(replica) + 1 => i = Len(replica) + 1
<1>. DEFINE n == Len(replica)
<1>1. /\ Latest(replica) \in Nat
      /\ replica = <<>> => Latest(replica) = 0
      /\ replica # <<>> => /\ n \in DOMAIN replica
                           /\ Latest(replica) = replica[n].seq + Len(replica[n].ops) - 1
  BY LatestIsLast
<1>2. n \in Nat /\ n <= Len(log) /\ Len(log) \in Nat /\ DOMAIN log = 1..Len(log)
      /\ DOMAIN replica = 1..n
  BY DEF ReplicaIsPrefix
<1>3. \A j \in DOMAIN log : /\ log[j].seq \in Nat /\ Len(log[j].ops) \in Nat
                            /\ Len(log[j].ops) >= 1
  BY BatchFields DEF Consecutive
<1>4. n # 0 => n \in DOMAIN log /\ Latest(replica) + 1 = log[n].seq + Len(log[n].ops)
  <2>. HAVE n # 0
  <2>1. n \in DOMAIN replica /\ n \in DOMAIN log
    BY <1>2
  <2>2. replica[n].seq = log[n].seq /\ replica[n].ops = log[n].ops
    BY <2>1 DEF ReplicaIsPrefix
  <2>3. Latest(replica) = log[n].seq + Len(log[n].ops) - 1
    BY <1>1, <2>1, <2>2
  <2>. QED BY <1>3, <2>1, <2>3
<1>5. \A j, k \in DOMAIN log : j < k => log[j].seq + Len(log[j].ops) <= log[k].seq
  BY DEF Consecutive
<1>6. n = 0 => Latest(replica) = 0
  BY <1>1
<1>7. ASSUME i <= n PROVE log[i].seq + Len(log[i].ops) <= Latest(replica) + 1
  <2>1. n # 0
    BY <1>2, <1>7
  <2>2. CASE i = n
    BY <2>1, <2>2, <1>1, <1>3, <1>4
  <2>3. CASE i < n
    <3>1. log[i].seq + Len(log[i].ops) <= log[n].seq
      BY <2>1, <2>3, <1>4, <1>5
    <3>2. /\ log[i].seq \in Nat /\ Len(log[i].ops) \in Nat
          /\ log[n].seq \in Nat /\ Len(log[n].ops) \in Nat
          /\ Latest(replica) + 1 = log[n].seq + Len(log[n].ops)
      BY <2>1, <1>3, <1>4
    <3>3. \A k, l, m, o \in Nat : k + l <= m => k + l <= m + o
      OBVIOUS
    <3>4. log[i].seq + Len(log[i].ops) <= log[n].seq + Len(log[n].ops)
      BY <3>1, <3>2, <3>3, Zenon
    <3>. QED BY <3>2, <3>4, Zenon
  <2>. QED BY <2>2, <2>3, <1>2, <1>7
<1>8. ASSUME n + 1 \in DOMAIN log PROVE log[n + 1].seq = Latest(replica) + 1
  <2>1. CASE n = 0
    BY <2>1, <1>6, <1>8 DEF Consecutive
  <2>2. CASE n # 0
    <3>1. n \in DOMAIN log /\ Latest(replica) + 1 = log[n].seq + Len(log[n].ops)
      BY <2>2, <1>4
    <3>2. log[n].seq + Len(log[n].ops) = log[n + 1].seq
      <4>1. n < n + 1
        BY <1>2
      <4>. QED BY <1>8, <3>1, <4>1, Zenon DEF Consecutive
    <3>. QED BY <3>1, <3>2, Zenon
  <2>. QED BY <2>1, <2>2
<1>9. ASSUME i > n PROVE /\ log[i].seq >= Latest(replica) + 1
                         /\ i # n + 1 => log[i].seq > Latest(replica) + 1
  <2>1. n + 1 \in DOMAIN log
    BY <1>2, <1>9
  <2>2. log[n + 1].seq = Latest(replica) + 1
    BY <2>1, <1>8
  <2>3. CASE i = n + 1
    BY <2>2, <2>3, <1>1
  <2>4. CASE i > n + 1
    <3>1. log[n + 1].seq + Len(log[n + 1].ops) <= log[i].seq
      BY <2>1, <2>4, <1>2, <1>5
    <3>2. /\ log[i].seq \in Nat /\ Len(log[n + 1].ops) \in Nat
          /\ Len(log[n + 1].ops) >= 1
      BY <2>1, <1>3
    <3>. QED BY <3>1, <3>2, <2>2, <1>1
  <2>. QED BY <2>3, <2>4, <1>2, <1>9
<1>10. log[i].seq = Latest(replica) + 1 => i = n + 1
  BY <1>1, <1>2, <1>3, <1>7, <1>9
<1>. QED BY <1>1, <1>7, <1>8, <1>9, <1>10

\* GetUpdatesSince answers a batch of the log that reaches up to s, and the log
\* has none before it that does.
LEMMA UpdatesSince ==
  ASSUME log \in Seq(Batch), NEW s, GetUpdatesSince(s) # 0
  PROVE  LET g == GetUpdatesSince(s) IN
         /\ g \in DOMAIN log /\ log[g].wal = "kept"
         /\ log[g].seq + Len(log[g].ops) - 1 >= s
         /\ \A j \in DOMAIN log : j < g /\ log[j].seq + Len(log[j].ops) - 1 >= s
                                  => log[j].wal # "kept"
<1>. DEFINE found == {i \in DOMAIN log : /\ log[i].wal = "kept"
                                         /\ log[i].seq + Len(log[i].ops) - 1 >= s}
<1>1. found # {} /\ GetUpdatesSince(s) = Min(found)
  BY DEF GetUpdatesSince
<1>2. found \subseteq Nat
  OBVIOUS
<1>3. PICK m \in found : \A j \in found : <<j, m>> \notin OpToRel(<, Nat)
  BY <1>1, <1>2, WFMin, NatLessThanWellFounded
<1>4. \A j \in found : m <= j
  <2>. TAKE j \in found
  <2>1. j \in Nat /\ m \in Nat
    BY <1>2
  <2>2. <<j, m>> \notin OpToRel(<, Nat)
    BY <1>3
  <2>3. ~(j < m)
    BY <2>1, <2>2 DEF OpToRel
  <2>. HIDE DEF found
  <2>. QED BY <2>1, <2>3
<1>5. Min(found) \in found /\ \A j \in found : Min(found) <= j
  BY <1>3, <1>4 DEF Min
<1>6. ASSUME NEW j \in DOMAIN log, j < Min(found) PROVE j \notin found
  <2>. HIDE DEF found
  <2>1. j \in Nat
    OBVIOUS
  <2>2. Min(found) \in Nat
    BY <1>2, <1>5
  <2>3. SUFFICES ASSUME j \in found PROVE FALSE
    OBVIOUS
  <2>4. Min(found) <= j
    BY <1>5, <2>3
  <2>. QED BY <1>6, <2>1, <2>2, <2>4
<1>. QED BY <1>1, <1>5, <1>6

-----------------------------------------------------------------------------
(* Each step *)

\* Types hold at the start and after every step.
LEMMA TypesInit == Init => Types
<1>. HAVE Init
<1>1. /\ log \in Seq(Batches) /\ replica \in Seq(Batch)
      /\ DOMAIN replica = {} /\ Len(log) = 0
      /\ seen \in Seq([id : 1..MaxSeq, cf : 0..MaxFamilies])
  BY DEF Init
<1>2. /\ \A n \in {MaxFamilies, MaxFailures, MaxErrors, MaxKills} : 0 \in 0..n
      /\ 0 \in 0..Len(log)
  BY <1>1, BoundsAreNaturals
<1>3. itr \in [Consumers -> [open : BOOLEAN, at : 0..Len(log)]]
  BY <1>2 DEF Init
<1>4. TypeOK
  BY <1>1, <1>2, <1>3 DEF Init, TypeOK
<1>. QED BY <1>1, <1>4 DEF Init, Types, Reading, Consumers

\* Reading on keeps an iterator open, on the next batch or not valid.
LEMMA AdvanceTypes ==
  ASSUME Types, NEW c \in Consumers, Advance(c)
  PROVE  /\ itr[c].open /\ itr[c].at \in DOMAIN log
         /\ itr' \in [Consumers -> [open : BOOLEAN, at : 0..Len(log)]]
         /\ \A d \in Consumers : /\ itr'[d].open = itr[d].open
                                 /\ itr'[d].open \/ itr'[d].at = 0
                                 /\ d # c => itr'[d] = itr[d]
         /\ itr'[c].at \in NextAt(itr[c].at) \cup {0}
         /\ errors' \in 0..MaxErrors
<1>1. itr \in [Consumers -> [open : BOOLEAN, at : 0..Len(log)]] /\ Len(log) \in Nat
      /\ log \in Seq(Batches)
  BY DEF Types, TypeOK
<1>2. itr[c].open /\ itr[c].at \in 1..Len(log)
  BY <1>1 DEF Advance
<1>3. NextAt(itr[c].at) \subseteq 0..Len(log)
  BY <1>1, <1>2 DEF NextAt
<1>4. PICK n \in NextAt(itr[c].at) \cup {0} : itr' = [itr EXCEPT ![c].at = n]
  BY DEF Advance
<1>5. errors' \in 0..MaxErrors
  <2>1. errors' = errors \/ (errors < MaxErrors /\ errors' = errors + 1)
    BY DEF Advance
  <2>2. errors \in 0..MaxErrors /\ MaxErrors \in Nat
    BY BoundsAreNaturals DEF Types, TypeOK
  <2>. QED BY <2>1, <2>2
<1>6. n \in 0..Len(log)
  BY <1>1, <1>3, <1>4
<1>7. \A d \in Consumers : /\ itr'[d].open = itr[d].open
                           /\ d # c => itr'[d] = itr[d]
                           /\ d = c => itr'[d].at = n
  BY <1>1, <1>4
<1>8. itr' \in [Consumers -> [open : BOOLEAN, at : 0..Len(log)]]
  BY <1>1, <1>4, <1>6
<1>9. \A d \in Consumers : itr'[d].open \/ itr'[d].at = 0
  BY <1>2, <1>7 DEF Types
<1>. QED BY <1>1, <1>2, <1>4, <1>5, <1>7, <1>8, <1>9

\* A new iterator stands on the batch that GetUpdatesSince finds.
LEMMA UpdatesIteratorTypes ==
  ASSUME Types, NEW c \in Consumers, NEW s, UpdatesIterator(c, s)
  PROVE  /\ itr' \in [Consumers -> [open : BOOLEAN, at : 0..Len(log)]]
         /\ \A d \in Consumers : /\ d # c => itr'[d] = itr[d]
                                 /\ itr'[d].open \/ itr'[d].at = 0
         /\ itr'[c] = [open |-> TRUE, at |-> GetUpdatesSince(s)]
<1>1. GetUpdatesSince(s) \in DOMAIN log
  BY UpdatesSince, BatchesAreBatch DEF UpdatesIterator, Types, TypeOK
<1>. QED BY <1>1 DEF UpdatesIterator, Types, TypeOK

\* A write appends a batch of the log, numbered after all others, with
\* consecutive updates.
LEMMA WriteAppends ==
  ASSUME Types, Consecutive(log), NEW cfs \in FamilyLists, NEW wal \in {"kept", "none"},
         Write(cfs, wal)
  PROVE  /\ \E b \in Batches : /\ log' = Append(log, b)
                            /\ \A j \in DOMAIN b.ops : b.ops[j].id = b.seq + j - 1
         /\ Consecutive(log')
<1>. DEFINE ops == [i \in DOMAIN cfs |-> [id |-> Latest(log) + i, cf |-> cfs[i]]]
<1>1. PICK n \in 1..MaxBatch : cfs \in [1..n -> 0..MaxFamilies]
  BY DEF FamilyLists
<1>2. n \in Nat /\ n >= 1 /\ n <= MaxBatch
  BY <1>1, BoundsAreNaturals
<1>3. log \in Seq(Batch)
  BY BatchesAreBatch DEF Types, TypeOK
<1>4. Latest(log) \in Nat
  BY <1>3, LatestIsLast DEF Consecutive
<1>5. Len(cfs) = n /\ DOMAIN cfs = 1..n
  BY <1>1, <1>2
<1>6. Latest(log) + n <= MaxSeq
  BY <1>5 DEF Write
<1>7. ops \in [1..n -> Op]
  <2>1. \A i \in 1..n : Latest(log) + i \in 1..MaxSeq
    BY <1>2, <1>4, <1>6, BoundsAreNaturals
  <2>. QED BY <1>1, <1>5, <2>1 DEF Op
<1>8. ops \in Seq(Op) /\ Len(ops) = n
  BY <1>2, <1>7
<1>9. ops \in BoundedSeq([id : 1..MaxSeq, cf : 0..MaxFamilies], MaxBatch)
  BY <1>2, <1>7 DEF BoundedSeq, SeqOf, Op
<1>10. log' = DbWrite(log, ops, wal)
  BY DEF Write
<1>11. Latest(log) + 1 \in 1..MaxSeq
  BY <1>2, <1>4, <1>6, BoundsAreNaturals
<1>12. [seq |-> Latest(log) + 1, ops |-> ops, wal |-> wal] \in Batches
  BY <1>9, <1>11 DEF Batches
<1>13. Consecutive(log')
  <2>. HIDE DEF ops
  <2>. QED BY <1>2, <1>3, <1>8, <1>10, DbWriteIsConsecutive
<1>14. \A j \in DOMAIN ops : ops[j].id = Latest(log) + 1 + j - 1
  BY <1>1, <1>4, <1>5
<1>. HIDE DEF ops
<1>. QED BY <1>10, <1>12, <1>13, <1>14 DEF DbWrite

\* A purge changes nothing but where a batch is.
LEMMA PurgeMarks ==
  ASSUME Types, NEW i \in DOMAIN log, Purge(i)
  PROVE  /\ log' \in Seq(Batches) /\ Len(log') = Len(log) /\ DOMAIN log' = DOMAIN log
         /\ \A j \in DOMAIN log : /\ log'[j].seq = log[j].seq
                                  /\ log'[j].ops = log[j].ops
                                  /\ log[j].wal # "kept" => log'[j].wal # "kept"
<1>1. log \in Seq(Batches)
  BY DEF Types, TypeOK
<1>2. log' = [log EXCEPT ![i] = [log[i] EXCEPT !.wal = "purged"]]
  BY DEF Purge
<1>3. /\ [log[i] EXCEPT !.wal = "purged"] \in Batches
      /\ [log[i] EXCEPT !.wal = "purged"].seq = log[i].seq
      /\ [log[i] EXCEPT !.wal = "purged"].ops = log[i].ops
      /\ [log[i] EXCEPT !.wal = "purged"].wal = "purged"
  <2>1. log[i] \in Batches
    BY <1>1
  <2>. QED BY <2>1 DEF Batches
<1>. QED BY <1>1, <1>2, <1>3

\* What the replica takes over is the batch i of the log.
LEMMA ApplyAppends ==
  ASSUME Types, Consecutive(log), NEW i \in DOMAIN log, Apply(i)
  PROVE  /\ replica' \in Seq(Batch)
         /\ Len(replica') = Len(replica) + 1
         /\ \A k \in DOMAIN replica : replica'[k] = replica[k]
         /\ replica'[Len(replica) + 1].seq = Latest(replica) + 1
         /\ replica'[Len(replica) + 1].ops = log[i].ops
         /\ \A k \in DOMAIN replica' : Len(replica'[k].ops) >= 1
<1>. DEFINE b == [seq |-> Latest(replica) + 1, ops |-> log[i].ops, wal |-> "kept"]
<1>1. replica \in Seq(Batch) /\ log \in Seq(Batch)
  BY BatchesAreBatch DEF Types, TypeOK
<1>2. Latest(replica) \in Nat
  BY <1>1, LatestIsLast DEF Types
<1>3. log[i].ops \in Seq(Op) /\ Len(log[i].ops) >= 1
  BY <1>1, BatchFields DEF Consecutive
<1>4. b \in Batch
  BY <1>2, <1>3 DEF Batch
<1>5. replica' = Append(replica, b)
  BY DEF Apply, DbWrite
<1>6. /\ DOMAIN replica' = 1..(Len(replica) + 1) /\ DOMAIN replica = 1..Len(replica)
      /\ \A k \in DOMAIN replica : replica'[k] = replica[k]
      /\ replica'[Len(replica) + 1] = b
      /\ Len(replica') = Len(replica) + 1
  <2>. HIDE DEF b
  <2>. QED BY <1>1, <1>4, <1>5
<1>7. replica' \in Seq(Batch)
  BY <1>1, <1>4, <1>5
<1>8. \A k \in DOMAIN replica' : Len(replica'[k].ops) >= 1
  <2>. TAKE k \in DOMAIN replica'
  <2>1. CASE k \in DOMAIN replica
    BY <2>1, <1>6 DEF Types
  <2>2. CASE k = Len(replica) + 1
    BY <2>2, <1>3, <1>6
  <2>. QED BY <1>1, <1>6, <2>1, <2>2
<1>. QED BY <1>6, <1>7, <1>8

\* A step that leaves the logs, the families and the watcher alone.
LEMMA TypesOfOthers ==
  ASSUME Types, UNCHANGED <<log, replica, families, watching>>,
         itr' \in [Consumers -> [open : BOOLEAN, at : 0..Len(log)]],
         \A c \in Consumers : itr'[c].open \/ itr'[c].at = 0,
         pc' \in {"idle", "have", "writing", "gap", "dead"},
         inHand' \in 0..Len(log), orphans' \subseteq 1..Len(log),
         failures' \in 0..MaxFailures, errors' \in 0..MaxErrors, kills' \in 0..MaxKills,
         overtaken' \in BOOLEAN,
         pc' \in Reading => inHand' # 0,
         pc' = "dead" => ~itr'["replicator"].open
  PROVE  Types'
<1>1. TypeOK'
  BY DEF Types, TypeOK, watching
<1>. QED BY <1>1 DEF Types, Reading, Consumers

\* A step that changes the logs or the families only, and leaves the log as
\* long or makes it longer.
LEMMA TypesOfLogs ==
  ASSUME Types, UNCHANGED <<itr, failures, errors, pc, inHand, kills, overtaken, watching>>,
         orphans' \subseteq orphans,
         log' \in Seq(Batches), Len(log') >= Len(log),
         replica' \in Seq(Batch), \A i \in DOMAIN replica' : Len(replica'[i].ops) >= 1,
         families' \in [{"primary", "replica"} -> 0..MaxFamilies]
  PROVE  Types'
<1>1. Len(log) \in Nat /\ Len(log') \in Nat
  BY DEF Types, TypeOK
<1>2. 0..Len(log) \subseteq 0..Len(log') /\ 1..Len(log) \subseteq 1..Len(log')
  BY <1>1
<1>3. \A i \in DOMAIN replica' : DOMAIN replica'[i] = {"seq", "ops", "wal"}
  <2>. TAKE i \in DOMAIN replica'
  <2>1. replica'[i] \in Batch
    OBVIOUS
  <2>. QED BY <2>1 DEF Batch
<1>4. itr' \in [Consumers -> [open : BOOLEAN, at : 0..Len(log')]]
  BY <1>2 DEF Types, TypeOK
<1>5. TypeOK'
  BY <1>2, <1>3, <1>4 DEF Types, TypeOK, watching
<1>. QED BY <1>5 DEF Types, Reading, Consumers

\* No step leaves the types, one step of the proof per action.
LEMMA TypesStep ==
  ASSUME Types, Consecutive(log), [Next]_vars
  PROVE  Types'
<1>. USE DEF copying, watching
<1>0. /\ TypeOK /\ log \in Seq(Batches) /\ Len(log) \in Nat /\ DOMAIN log = 1..Len(log)
      /\ replica \in Seq(Batch) /\ \A i \in DOMAIN replica : Len(replica[i].ops) >= 1
      /\ families \in [{"primary", "replica"} -> 0..MaxFamilies]
      /\ itr \in [Consumers -> [open : BOOLEAN, at : 0..Len(log)]]
      /\ "replicator" \in Consumers /\ "watcher" \in Consumers
  BY DEF Types, TypeOK, Consumers
<1>1. ASSUME NEW cfs \in FamilyLists, NEW wal \in {"kept", "none"}, Write(cfs, wal)
      PROVE  Types'
  <2>1. PICK b \in Batches : log' = Append(log, b)
    BY <1>1, WriteAppends
  <2>2. log' \in Seq(Batches) /\ Len(log') >= Len(log)
    BY <1>0, <2>1
  <2>. QED BY <1>0, <1>1, <2>2, TypesOfLogs DEF Write
<1>2. ASSUME NEW db \in {"primary", "replica"}, CreateColumnFamily(db) PROVE Types'
  <2>1. families' \in [{"primary", "replica"} -> 0..MaxFamilies]
    <3>1. /\ families' = [families EXCEPT ![db] = @ + 1]
          /\ families[db] < MaxFamilies \/ families[db] < families["primary"]
      BY <1>2 DEF CreateColumnFamily
    <3>2. MaxFamilies \in Nat
      BY BoundsAreNaturals
    <3>. QED BY <1>0, <3>1, <3>2
  <2>. QED BY <1>0, <1>2, <2>1, TypesOfLogs DEF CreateColumnFamily
<1>3. ASSUME NEW i \in DOMAIN log, Purge(i) PROVE Types'
  <2>1. log' \in Seq(Batches) /\ Len(log') = Len(log)
    BY <1>3, PurgeMarks
  <2>. QED BY <1>0, <1>3, <2>1, TypesOfLogs DEF Purge
<1>4. ASSUME NEW s \in Since, WatcherOpens(s) PROVE Types'
  <2>1. /\ itr' \in [Consumers -> [open : BOOLEAN, at : 0..Len(log)]]
        /\ itr'["replicator"] = itr["replicator"]
        /\ \A d \in Consumers : itr'[d].open \/ itr'[d].at = 0
    <3>1. UpdatesIterator("watcher", s)
      BY <1>4 DEF WatcherOpens
    <3>. QED BY <1>0, <3>1, UpdatesIteratorTypes
  <2>2. TypeOK'
    BY <1>4, <2>1 DEF WatcherOpens, Types, TypeOK
  <2>. QED BY <1>0, <1>4, <2>1, <2>2 DEF WatcherOpens, Types, Reading
<1>5. ASSUME NextUpdate PROVE Types'
  <2>1. /\ itr["watcher"].at \in DOMAIN log
        /\ itr' \in [Consumers -> [open : BOOLEAN, at : 0..Len(log)]]
        /\ itr'["replicator"] = itr["replicator"]
        /\ \A d \in Consumers : itr'[d].open \/ itr'[d].at = 0
        /\ errors' \in 0..MaxErrors
    <3>1. Advance("watcher")
      BY <1>5 DEF NextUpdate
    <3>. QED BY <1>0, <3>1, AdvanceTypes
  <2>2. log[itr["watcher"].at].ops \in Seq(Op)
    BY <1>0, <2>1, BatchesAreBatch
  <2>3. seen' \in Seq([id : 1..MaxSeq, cf : 0..MaxFamilies])
    <3>1. seen' = seen \o log[itr["watcher"].at].ops
      BY <1>5 DEF NextUpdate
    <3>2. seen \in Seq(Op)
      BY <1>0 DEF TypeOK, Op
    <3>3. seen' \in Seq(Op)
      BY <2>2, <3>1, <3>2
    <3>. QED BY <3>3 DEF Op
  <2>4. TypeOK'
    BY <1>5, <2>1, <2>3 DEF NextUpdate, Types, TypeOK
  <2>. QED BY <1>0, <1>5, <2>1, <2>4 DEF NextUpdate, Types, Reading
<1>6. ASSUME WatcherCloses PROVE Types'
  <2>1. /\ itr' \in [Consumers -> [open : BOOLEAN, at : 0..Len(log)]]
        /\ itr'["replicator"] = itr["replicator"]
        /\ \A d \in Consumers : itr'[d].open \/ itr'[d].at = 0
    BY <1>0, <1>6 DEF WatcherCloses, UpdatesIteratorClose, Types
  <2>2. TypeOK'
    BY <1>6, <2>1 DEF WatcherCloses, Types, TypeOK
  <2>. QED BY <1>0, <1>6, <2>1, <2>2 DEF WatcherCloses, Types, Reading
<1>7. ASSUME ReplicatorOpens PROVE Types'
  <2>1. /\ itr' \in [Consumers -> [open : BOOLEAN, at : 0..Len(log)]]
        /\ \A d \in Consumers : itr'[d].open \/ itr'[d].at = 0
    BY <1>0, <1>7, UpdatesIteratorTypes DEF ReplicatorOpens
  <2>. QED BY <1>7, <2>1, TypesOfOthers DEF ReplicatorOpens, Types, TypeOK, Reading
<1>8. ASSUME ReplicatorCloses PROVE Types'
  <2>1. /\ itr' \in [Consumers -> [open : BOOLEAN, at : 0..Len(log)]]
        /\ \A d \in Consumers : itr'[d].open \/ itr'[d].at = 0
    BY <1>0, <1>8 DEF ReplicatorCloses, UpdatesIteratorClose, Types
  <2>. QED BY <1>8, <2>1, TypesOfOthers DEF ReplicatorCloses, Types, TypeOK, Reading
<1>9. ASSUME NextBinaryUpdate PROVE Types'
  <2>1. /\ itr["replicator"].at \in DOMAIN log
        /\ itr' \in [Consumers -> [open : BOOLEAN, at : 0..Len(log)]]
        /\ \A d \in Consumers : itr'[d].open \/ itr'[d].at = 0
        /\ errors' \in 0..MaxErrors
    <3>1. Advance("replicator")
      BY <1>9 DEF NextBinaryUpdate
    <3>. QED BY <1>0, <3>1, AdvanceTypes
  <2>2. inHand' \in 1..Len(log)
    BY <1>0, <1>9, <2>1 DEF NextBinaryUpdate
  <2>3. pc' \in {"have", "gap"}
    BY <1>9 DEF NextBinaryUpdate
  <2>4. UNCHANGED <<log, replica, families, failures, orphans, kills, overtaken, watching>>
    BY <1>9 DEF NextBinaryUpdate
  <2>5. /\ inHand' \in 0..Len(log) /\ inHand' # 0 /\ orphans' \subseteq 1..Len(log)
        /\ failures' \in 0..MaxFailures /\ kills' \in 0..MaxKills /\ overtaken' \in BOOLEAN
    BY <1>0, <2>2, <2>4 DEF TypeOK
  <2>. QED BY <2>1, <2>3, <2>4, <2>5, TypesOfOthers
<1>10. ASSUME WriteBinaryUpdate PROVE Types'
  BY <1>0, <1>10, TypesOfOthers DEF WriteBinaryUpdate, Types, TypeOK, Reading
<1>11. ASSUME WriteBinaryUpdateFails PROVE Types'
  <2>1. failures' \in 0..MaxFailures
    <3>1. failures' = failures \/ (failures < MaxFailures /\ failures' = failures + 1)
      BY <1>11 DEF WriteBinaryUpdateFails
    <3>2. failures \in 0..MaxFailures /\ MaxFailures \in Nat
      BY <1>0, BoundsAreNaturals DEF TypeOK
    <3>. QED BY <3>1, <3>2
  <2>. QED BY <1>0, <1>11, <2>1, TypesOfOthers DEF WriteBinaryUpdateFails, Types, TypeOK, Reading
<1>12. ASSUME WriteBinaryUpdateOk PROVE Types'
  <2>1. inHand \in DOMAIN log
    BY <1>0, <1>12 DEF WriteBinaryUpdateOk, Types, TypeOK, Reading
  <2>2. replica' \in Seq(Batch) /\ \A k \in DOMAIN replica' : Len(replica'[k].ops) >= 1
    BY <1>12, <2>1, ApplyAppends DEF WriteBinaryUpdateOk
  <2>3. \A i \in DOMAIN replica' : DOMAIN replica'[i] = {"seq", "ops", "wal"}
    <3>. TAKE i \in DOMAIN replica'
    <3>1. replica'[i] \in Batch
      BY <2>2
    <3>. QED BY <3>1 DEF Batch
  <2>4. TypeOK'
    BY <1>0, <1>12, <2>3 DEF WriteBinaryUpdateOk, TypeOK
  <2>. QED BY <1>0, <1>12, <2>2, <2>4 DEF WriteBinaryUpdateOk, Types, Reading
<1>13. ASSUME Kill PROVE Types'
  <2>1. kills' \in 0..MaxKills
    <3>1. kills < MaxKills /\ kills' = kills + 1
      BY <1>13 DEF Kill
    <3>2. kills \in 0..MaxKills /\ MaxKills \in Nat
      BY <1>0, BoundsAreNaturals DEF TypeOK
    <3>. QED BY <3>1, <3>2
  <2>2. orphans' \subseteq 1..Len(log)
    BY <1>0, <1>13 DEF Kill, Types, TypeOK, Reading
  <2>3. /\ itr' \in [Consumers -> [open : BOOLEAN, at : 0..Len(log)]]
        /\ \A d \in Consumers : itr'[d].open \/ itr'[d].at = 0
        /\ ~itr'["replicator"].open
    BY <1>0, <1>13 DEF Kill, Types
  <2>. QED BY <1>0, <1>13, <2>1, <2>2, <2>3, TypesOfOthers DEF Kill, TypeOK, Reading
<1>14. ASSUME Restart PROVE Types'
  BY <1>0, <1>14, TypesOfOthers DEF Restart, Types, TypeOK, Reading
<1>15. ASSUME NEW i \in DOMAIN log, OrphanWrites(i) PROVE Types'
  <2>1. replica' \in Seq(Batch) /\ \A k \in DOMAIN replica' : Len(replica'[k].ops) >= 1
    BY <1>0, <1>15, ApplyAppends DEF OrphanWrites
  <2>2. failures' \in 0..MaxFailures
    <3>1. failures' = failures \/ (failures < MaxFailures /\ failures' = failures + 1)
      BY <1>15 DEF OrphanWrites
    <3>2. failures \in 0..MaxFailures /\ MaxFailures \in Nat
      BY <1>0, BoundsAreNaturals DEF TypeOK
    <3>. QED BY <3>1, <3>2
  <2>3. orphans' \subseteq 1..Len(log)
    BY <1>0, <1>15 DEF OrphanWrites, TypeOK
  <2>4. UNCHANGED <<log, families, itr, pc, inHand, errors, kills, overtaken, watching>>
    BY <1>15 DEF OrphanWrites
  <2>5. \A j \in DOMAIN replica' : DOMAIN replica'[j] = {"seq", "ops", "wal"}
    <3>. TAKE j \in DOMAIN replica'
    <3>1. replica'[j] \in Batch
      BY <2>1
    <3>. QED BY <3>1 DEF Batch
  <2>6. TypeOK'
    BY <1>0, <2>2, <2>3, <2>4, <2>5 DEF TypeOK, watching
  <2>. QED BY <1>0, <2>1, <2>4, <2>6 DEF Types, Reading
<1>16. CASE UNCHANGED vars
  BY <1>0, <1>16, TypesOfLogs DEF vars
<1>. QED BY <1>1, <1>2, <1>3, <1>4, <1>5, <1>6, <1>7, <1>8, <1>9, <1>10, <1>11, <1>12, <1>13,
            <1>14, <1>15, <1>16 DEF Next, Replicate

\* The primary's batches stay consecutive.
LEMMA ConsecutiveStep ==
  ASSUME Types, Consecutive(log), [Next]_vars
  PROVE  Consecutive(log')
<1>1. ASSUME NEW cfs \in FamilyLists, NEW wal \in {"kept", "none"}, Write(cfs, wal)
      PROVE  Consecutive(log')
  BY <1>1, WriteAppends
<1>2. ASSUME NEW i \in DOMAIN log, Purge(i) PROVE Consecutive(log')
  <2>1. /\ DOMAIN log' = DOMAIN log
        /\ \A j \in DOMAIN log : log'[j].seq = log[j].seq /\ log'[j].ops = log[j].ops
    BY <1>2, PurgeMarks
  <2>2. \A j, k \in DOMAIN log' : j < k =>
           /\ log'[j].seq + Len(log'[j].ops) <= log'[k].seq
           /\ k = j + 1 => log'[j].seq + Len(log'[j].ops) = log'[k].seq
    <3>. TAKE j, k \in DOMAIN log'
    <3>1. j < k => /\ log[j].seq + Len(log[j].ops) <= log[k].seq
                   /\ k = j + 1 => log[j].seq + Len(log[j].ops) = log[k].seq
      BY <2>1 DEF Consecutive
    <3>2. /\ log'[j].seq = log[j].seq /\ log'[j].ops = log[j].ops
          /\ log'[k].seq = log[k].seq
      BY <2>1
    <3>. QED BY <3>1, <3>2
  <2>3. /\ 1 \in DOMAIN log' => log'[1].seq = 1
        /\ \A j \in DOMAIN log' : Len(log'[j].ops) >= 1
    BY <2>1 DEF Consecutive
  <2>. QED BY <2>2, <2>3 DEF Consecutive
<1>3. CASE log' = log
  BY <1>3
<1>. QED
  BY <1>1, <1>2, <1>3
  DEF Next, Replicate, CreateColumnFamily, WatcherOpens, NextUpdate, WatcherCloses,
      ReplicatorOpens, ReplicatorCloses, NextBinaryUpdate, WriteBinaryUpdate,
      WriteBinaryUpdateOk, WriteBinaryUpdateFails, Restart, Kill, OrphanWrites, vars

\* The replica, the replicator and its iterator.
Following == ReplicaIsPrefix /\ HandsOn /\ Positioned /\ GapIsReal

\* A step of the primary, of RocksDB or of the watcher, a tried write or one
\* that fails: the replicator keeps its batch and the log all of its own.
LEMMA StepOfOthers ==
  ASSUME IInv, ~overtaken, ~overtaken',
         replica' = replica, itr'["replicator"] = itr["replicator"],
         pc' = pc \/ (pc \in Reading /\ pc' \in Reading), inHand' = inHand, orphans' = orphans,
         log' \in Seq(Batches), Len(log') >= Len(log),
         \A j \in DOMAIN log : /\ log'[j].seq = log[j].seq
                               /\ log'[j].ops = log[j].ops
                               /\ log[j].wal # "kept" => log'[j].wal # "kept"
  PROVE  Following'
<1>1. /\ Len(log) \in Nat /\ DOMAIN log = 1..Len(log)
      /\ Len(log') \in Nat /\ DOMAIN log' = 1..Len(log')
      /\ Len(replica) \in Nat /\ DOMAIN replica = 1..Len(replica)
      /\ Len(replica) <= Len(log)
  BY DEF IInv, Types, TypeOK, ReplicaIsPrefix
<1>2. ReplicaIsPrefix'
  <2>1. Len(replica') <= Len(log')
    BY <1>1
  <2>2. ASSUME NEW i \in DOMAIN replica'
        PROVE  replica'[i].seq = log'[i].seq /\ replica'[i].ops = log'[i].ops
    <3>1. i \in DOMAIN replica /\ i \in DOMAIN log
      BY <1>1, <2>2
    <3>. QED BY <3>1 DEF IInv, ReplicaIsPrefix
  <2>. QED BY <2>1, <2>2 DEF ReplicaIsPrefix
<1>3. HandsOn'
  BY DEF IInv, HandsOn, Reading
<1>4. Positioned'
  <2>. DEFINE at == itr["replicator"].at
  <2>1. at \in 0..Len(log)
    BY DEF IInv, Types, TypeOK, Consumers
  <2>2. SUFFICES ASSUME at # 0 PROVE /\ pc' = "idle" => Behind(at)'
                                     /\ pc' \in Reading => at = inHand + 1
    BY DEF Positioned
  <2>3. ASSUME pc' = "idle" PROVE Behind(at)'
    <3>1. Behind(at)
      BY <2>2, <2>3 DEF IInv, Positioned, Reading
    <3>2. ASSUME NEW j \in DOMAIN log', j > Len(replica), j < at PROVE log'[j].wal # "kept"
      <4>1. j \in DOMAIN log
        BY <1>1, <2>1, <3>2
      <4>. QED BY <3>1, <3>2, <4>1 DEF Behind
    <3>. QED BY <3>1, <3>2 DEF Behind
  <2>4. pc' \in Reading => at = inHand + 1
    BY <2>2 DEF IInv, Positioned, Reading
  <2>. QED BY <2>3, <2>4
<1>5. GapIsReal'
  <2>1. SUFFICES ASSUME pc = "gap"
                 PROVE  Len(replica) < Len(log') /\ log'[Len(replica) + 1].wal # "kept"
    BY DEF GapIsReal, Reading
  <2>2. Len(replica) < Len(log) /\ log[Len(replica) + 1].wal # "kept"
    BY <2>1 DEF IInv, GapIsReal
  <2>3. Len(replica) + 1 \in DOMAIN log
    BY <1>1, <2>2
  <2>. QED BY <1>1, <2>2, <2>3
<1>. QED BY <1>2, <1>3, <1>4, <1>5 DEF Following

\* A new iterator does not pass over a batch that the log still has.
LEMMA OpeningFollows ==
  ASSUME IInv, ~overtaken, ReplicatorOpens
  PROVE  Following'
<1>. DEFINE s == Latest(replica) + 1
            g == GetUpdatesSince(s)
<1>1. /\ log \in Seq(Batch) /\ replica \in Seq(Batch) /\ Consecutive(log)
      /\ \A k \in DOMAIN replica : Len(replica[k].ops) >= 1
      /\ DOMAIN log = 1..Len(log) /\ Len(log) \in Nat /\ Len(replica) \in Nat
  BY BatchesAreBatch DEF IInv, Types, TypeOK
<1>2. /\ pc = "idle" /\ UpdatesIterator("replicator", s) /\ "replicator" \in Consumers
      /\ UNCHANGED <<log, replica, copying>>
  BY DEF ReplicatorOpens, Consumers
<1>3. itr'["replicator"].at = g /\ g # 0
  <2>1. itr'["replicator"] = [open |-> TRUE, at |-> g]
    BY <1>2, UpdatesIteratorTypes DEF IInv
  <2>. QED BY <1>2, <2>1 DEF UpdatesIterator
<1>4. /\ g \in DOMAIN log /\ log[g].seq + Len(log[g].ops) - 1 >= s
      /\ \A j \in DOMAIN log : j < g /\ log[j].seq + Len(log[j].ops) - 1 >= s
                               => log[j].wal # "kept"
  BY <1>1, <1>3, UpdatesSince
<1>5. Latest(replica) \in Nat
  BY <1>1, <1>4, NextBatch DEF IInv
<1>6. \A i \in DOMAIN log : log[i].seq \in Nat /\ Len(log[i].ops) \in Nat /\ Len(log[i].ops) >= 1
  BY <1>1, BatchFields DEF Consecutive
<1>. HIDE DEF g
<1>7. g >= Len(replica) + 1
  <2>1. SUFFICES ASSUME g <= Len(replica) PROVE FALSE
    BY <1>1, <1>4
  <2>2. log[g].seq + Len(log[g].ops) <= Latest(replica) + 1
    BY <1>1, <1>4, <2>1, NextBatch DEF IInv
  <2>. QED BY <1>4, <1>5, <1>6, <2>2
<1>8. ASSUME NEW j \in DOMAIN log, j > Len(replica), j < g PROVE log[j].wal # "kept"
  <2>1. log[j].seq >= Latest(replica) + 1
    BY <1>1, <1>8, NextBatch DEF IInv
  <2>2. log[j].seq + Len(log[j].ops) - 1 >= s
    BY <1>5, <1>6, <2>1
  <2>. QED BY <1>4, <1>8, <2>2
<1>9. Behind(itr["replicator"].at)'
  BY <1>2, <1>3, <1>7, <1>8 DEF Behind
<1>10. Positioned'
  BY <1>2, <1>9 DEF Positioned, copying, Reading
<1>. QED BY <1>2, <1>10 DEF IInv, Following, ReplicaIsPrefix, HandsOn, GapIsReal, copying, Reading

\* The batch that an iterator answers is the one the replica needs, or the
\* log has lost that one.
LEMMA ReadingFollows ==
  ASSUME IInv, ~overtaken, NextBinaryUpdate
  PROVE  Following'
<1>. DEFINE i == itr["replicator"].at
<1>1. /\ log \in Seq(Batch) /\ replica \in Seq(Batch) /\ Consecutive(log)
      /\ \A k \in DOMAIN replica : Len(replica[k].ops) >= 1
      /\ DOMAIN log = 1..Len(log) /\ Len(log) \in Nat /\ Len(replica) \in Nat
  BY BatchesAreBatch DEF IInv, Types, TypeOK
<1>2. /\ pc = "idle" /\ Advance("replicator") /\ "replicator" \in Consumers
      /\ inHand' = i
      /\ pc' = IF log[i].seq = Latest(replica) + 1 THEN "have" ELSE "gap"
      /\ UNCHANGED <<log, replica, orphans, overtaken>>
  BY DEF NextBinaryUpdate, SequenceAnswered, Consumers
<1>3. i \in DOMAIN log /\ itr'["replicator"].at \in NextAt(i) \cup {0}
  BY <1>2, AdvanceTypes DEF IInv
<1>4. Behind(i) /\ i # 0
  BY <1>2, <1>3, <1>1 DEF IInv, Positioned
<1>5. log[i].seq = Latest(replica) + 1 <=> i = Len(replica) + 1
  BY <1>1, <1>3, NextBatch DEF IInv
<1>. HIDE DEF i
<1>6. ReplicaIsPrefix'
  BY <1>2 DEF IInv, ReplicaIsPrefix
<1>7. HandsOn'
  BY <1>2, <1>5 DEF IInv, HandsOn, Reading
<1>8. Positioned'
  <2>1. itr'["replicator"].at \in {0, i + 1}
    BY <1>1, <1>3 DEF NextAt
  <2>2. pc' # "idle" /\ (pc' \in Reading => pc' = "have")
    BY <1>2 DEF Reading
  <2>. QED BY <1>2, <2>1, <2>2 DEF Positioned
<1>9. GapIsReal'
  <2>1. SUFFICES ASSUME i # Len(replica) + 1
                 PROVE  Len(replica) < Len(log) /\ log[Len(replica) + 1].wal # "kept"
    BY <1>2, <1>5 DEF GapIsReal
  <2>2. i > Len(replica) + 1 /\ Len(replica) + 1 \in DOMAIN log
    BY <1>1, <1>3, <1>4, <2>1 DEF Behind
  <2>. QED BY <1>1, <1>4, <2>2 DEF Behind
<1>. QED BY <1>6, <1>7, <1>8, <1>9 DEF Following

\* The replica takes over the batch that it needs next.
LEMMA ApplyKeepsPrefix ==
  ASSUME IInv, ~overtaken, NEW i \in DOMAIN log, i = Len(replica) + 1, Apply(i),
         log' = log
  PROVE  ReplicaIsPrefix' /\ Len(replica') = i
<1>1. /\ log \in Seq(Batch) /\ replica \in Seq(Batch) /\ Consecutive(log)
      /\ \A k \in DOMAIN replica : Len(replica[k].ops) >= 1
      /\ DOMAIN log = 1..Len(log) /\ Len(log) \in Nat
      /\ DOMAIN replica = 1..Len(replica) /\ Len(replica) \in Nat
  BY BatchesAreBatch DEF IInv, Types, TypeOK
<1>2. log[i].seq = Latest(replica) + 1
  BY <1>1, NextBatch DEF IInv
<1>3. /\ replica' \in Seq(Batch) /\ Len(replica') = i
      /\ \A k \in DOMAIN replica : replica'[k] = replica[k]
      /\ replica'[i].seq = log[i].seq /\ replica'[i].ops = log[i].ops
  BY <1>1, <1>2, ApplyAppends DEF IInv
<1>4. DOMAIN replica' = 1..i
  BY <1>3
<1>5. ASSUME NEW k \in DOMAIN replica'
      PROVE  replica'[k].seq = log[k].seq /\ replica'[k].ops = log[k].ops
  <2>1. CASE k = i
    BY <1>3, <2>1
  <2>2. CASE k \in DOMAIN replica
    BY <1>3, <2>2 DEF IInv, ReplicaIsPrefix
  <2>. QED BY <1>1, <1>4, <2>1, <2>2
<1>6. Len(replica') <= Len(log')
  BY <1>1, <1>3
<1>. QED BY <1>3, <1>5, <1>6 DEF ReplicaIsPrefix

\* The write of what was in hand brings the replica up to the iterator.
LEMMA WritingFollows ==
  ASSUME IInv, ~overtaken, WriteBinaryUpdateOk
  PROVE  Following'
<1>1. /\ pc = "writing" /\ Apply(inHand) /\ pc' = "idle"
      /\ UNCHANGED <<log, itr, orphans, overtaken>>
  BY DEF WriteBinaryUpdateOk
<1>2. inHand = Len(replica) + 1 /\ orphans = {} /\ inHand \in DOMAIN log
  BY <1>1 DEF IInv, HandsOn, Reading, Types, TypeOK
<1>3. ReplicaIsPrefix' /\ Len(replica') = inHand
  BY <1>1, <1>2, ApplyKeepsPrefix
<1>4. HandsOn'
  BY <1>1, <1>2 DEF HandsOn, Reading
<1>5. Positioned'
  <2>1. SUFFICES ASSUME itr["replicator"].at # 0 PROVE Behind(itr["replicator"].at)'
    BY <1>1 DEF Positioned, Reading
  <2>2. itr["replicator"].at = Len(replica') + 1
    BY <1>1, <1>3, <2>1 DEF IInv, Positioned, Reading
  <2>3. Len(replica') \in Nat /\ DOMAIN log \subseteq Nat
    BY <1>2, <1>3 DEF IInv, Types, TypeOK
  <2>. QED BY <1>1, <2>2, <2>3 DEF Behind
<1>6. GapIsReal'
  BY <1>1 DEF GapIsReal
<1>. QED BY <1>3, <1>4, <1>5, <1>6 DEF Following

\* A NIF that outlives its replicator writes what the replica needs next.
LEMMA OrphanFollows ==
  ASSUME IInv, ~overtaken, NEW i \in DOMAIN log, OrphanWrites(i)
  PROVE  Following'
<1>1. /\ i \in orphans /\ orphans' = orphans \ {i}
      /\ UNCHANGED <<log, itr, pc, inHand, overtaken>>
      /\ Apply(i) \/ replica' = replica
  BY DEF OrphanWrites
<1>2. pc = "dead" /\ i = Len(replica) + 1 /\ orphans' = {}
  BY <1>1 DEF IInv, HandsOn
<1>3. itr["replicator"].at = 0
  BY <1>2 DEF IInv, Types, Consumers
<1>4. ReplicaIsPrefix'
  BY <1>1, <1>2, ApplyKeepsPrefix DEF IInv, ReplicaIsPrefix
<1>. QED BY <1>1, <1>2, <1>3, <1>4 DEF Following, HandsOn, Positioned, GapIsReal, Reading

\* No step takes the replicator off its place, one step of the proof per action.
LEMMA FollowingStep ==
  ASSUME IInv, [Next]_vars
  PROVE  Following'
<1>1. CASE overtaken'
  BY <1>1 DEF Following, ReplicaIsPrefix, HandsOn, Positioned, GapIsReal
<1>2. ASSUME ~overtaken, ~overtaken' PROVE Following'
  <2>. USE <1>2
  <2>0. log \in Seq(Batches) /\ Len(log) \in Nat
    BY DEF IInv, Types, TypeOK
  <2>1. ASSUME NEW cfs \in FamilyLists, NEW wal \in {"kept", "none"}, Write(cfs, wal)
        PROVE  Following'
    <3>1. PICK b \in Batches : log' = Append(log, b)
      BY <2>1, WriteAppends DEF IInv
    <3>2. /\ log' \in Seq(Batches) /\ Len(log') >= Len(log)
          /\ \A j \in DOMAIN log : log'[j] = log[j]
      BY <2>0, <3>1
    <3>. QED BY <2>1, <3>2, StepOfOthers DEF Write, copying
  <2>2. ASSUME NEW i \in DOMAIN log, Purge(i) PROVE Following'
    <3>1. /\ log' \in Seq(Batches) /\ Len(log') >= Len(log)
          /\ \A j \in DOMAIN log : /\ log'[j].seq = log[j].seq
                                   /\ log'[j].ops = log[j].ops
                                   /\ log[j].wal # "kept" => log'[j].wal # "kept"
      BY <2>0, <2>2, PurgeMarks DEF IInv
    <3>. QED BY <2>2, <3>1, StepOfOthers DEF Purge, copying
  <2>3. ASSUME UNCHANGED <<log, replica, inHand, orphans>>,
               itr'["replicator"] = itr["replicator"],
               pc' = pc \/ (pc \in Reading /\ pc' \in Reading)
        PROVE  Following'
    <3>1. Len(log') >= Len(log)
      BY <2>0, <2>3
    <3>. QED BY <2>0, <2>3, <3>1, StepOfOthers
  <2>4. CASE \/ \E db \in {"primary", "replica"} : CreateColumnFamily(db)
             \/ WriteBinaryUpdate \/ WriteBinaryUpdateFails \/ UNCHANGED vars
    BY <2>3, <2>4 DEF CreateColumnFamily, WriteBinaryUpdate, WriteBinaryUpdateFails, vars,
                      copying, Reading
  <2>5. CASE \/ \E s \in Since : WatcherOpens(s)
             \/ NextUpdate \/ WatcherCloses
    <3>1. itr'["replicator"] = itr["replicator"]
      BY <2>5 DEF WatcherOpens, NextUpdate, WatcherCloses, UpdatesIterator, Advance,
                  UpdatesIteratorClose, IInv, Types, TypeOK, Consumers
    <3>2. UNCHANGED <<log, replica, copying>>
      BY <2>5 DEF WatcherOpens, NextUpdate, WatcherCloses
    <3>. QED BY <2>3, <3>1, <3>2 DEF copying
  <2>6. CASE ReplicatorOpens
    BY <2>6, OpeningFollows
  <2>7. CASE NextBinaryUpdate
    BY <2>7, ReadingFollows
  <2>8. CASE WriteBinaryUpdateOk
    BY <2>8, WritingFollows
  <2>9. ASSUME NEW i \in DOMAIN log, OrphanWrites(i) PROVE Following'
    BY <2>9, OrphanFollows
  <2>10. CASE ReplicatorCloses
    <3>1. itr'["replicator"].at = 0 /\ UNCHANGED <<log, replica, copying>>
      BY <2>10 DEF ReplicatorCloses, UpdatesIteratorClose, IInv, Types, TypeOK, Consumers
    <3>. QED BY <3>1 DEF Following, IInv, ReplicaIsPrefix, HandsOn, Positioned, GapIsReal,
                         copying, Reading
  <2>11. CASE Kill
    <3>1. /\ pc # "dead" /\ pc' = "dead" /\ UNCHANGED <<log, replica, overtaken>>
          /\ orphans' = IF pc = "writing" THEN orphans \cup {inHand} ELSE orphans
          /\ itr'["replicator"].at = 0
      BY <2>11 DEF Kill, IInv, Types, TypeOK, Consumers
    <3>2. HandsOn'
      BY <3>1 DEF IInv, HandsOn, Reading
    <3>. QED BY <3>1, <3>2 DEF Following, IInv, ReplicaIsPrefix, Positioned, GapIsReal
  <2>12. CASE Restart
    <3>1. /\ pc = "dead" /\ pc' = "idle" /\ orphans = {}
          /\ UNCHANGED <<log, replica, itr, orphans>>
      BY <2>12 DEF Restart
    <3>2. itr["replicator"].at = 0
      BY <3>1 DEF IInv, Types, Consumers
    <3>. QED BY <3>1, <3>2 DEF Following, IInv, ReplicaIsPrefix, HandsOn, Positioned,
                               GapIsReal, Reading
  <2>. QED BY <2>1, <2>2, <2>4, <2>5, <2>6, <2>7, <2>8, <2>9, <2>10, <2>11, <2>12
           DEF Next, Replicate
<1>3. overtaken => overtaken'
  BY DEF Next, Replicate, Write, Purge, CreateColumnFamily, WatcherOpens, NextUpdate,
         WatcherCloses, ReplicatorOpens, ReplicatorCloses, NextBinaryUpdate, WriteBinaryUpdate,
         WriteBinaryUpdateOk, WriteBinaryUpdateFails, Restart, Kill, OrphanWrites, copying, vars
<1>. QED BY <1>1, <1>2, <1>3

-----------------------------------------------------------------------------
(* The theorems *)

\* The inductive invariant: the types, consecutive batches, and a replicator
\* that has in hand, or reads next, what its replica needs next.
THEOREM IInvInductive == Spec => []IInv
<1>1. Init => IInv
  <2>. HAVE Init
  <2>1. /\ DOMAIN log = {} /\ DOMAIN replica = {} /\ Len(log) = 0 /\ Len(replica) = 0
    BY DEF Init
  <2>2. pc = "idle" /\ orphans = {} /\ itr["replicator"].at = 0
    BY DEF Init, Consumers
  <2>. QED BY <2>1, <2>2, TypesInit DEF IInv, Consecutive, ReplicaIsPrefix, HandsOn,
                                        Positioned, GapIsReal, Reading
<1>2. IInv /\ [Next]_vars => IInv'
  <2>1. SUFFICES ASSUME IInv, [Next]_vars PROVE IInv'
    OBVIOUS
  <2>2. Types'
    BY <2>1, TypesStep DEF IInv
  <2>3. Consecutive(log')
    BY <2>1, ConsecutiveStep DEF IInv
  <2>4. Following'
    BY <2>1, FollowingStep
  <2>. QED BY <2>2, <2>3, <2>4 DEF IInv, Following
<1>. QED BY <1>1, <1>2, PTL DEF Spec

\* Every variable of the two databases, the log iterators, the replicator and
\* the watcher keeps its values, for logs of any length.
THEOREM TypeCorrect == Spec => []TypeOK
<1>1. IInv => TypeOK
  BY DEF IInv, Types
<1>. QED BY <1>1, IInvInductive, PTL

\* A replica that write_binary_update fills from updates_iterator at its own
\* latest sequence number plus one is always a prefix of the primary's log.
THEOREM ReplicaIsAPrefix == Spec => []ReplicaIsPrefix
<1>1. IInv => ReplicaIsPrefix
  BY DEF IInv
<1>. QED BY <1>1, IInvInductive, PTL

\* A replicator that compares the sequence number of next_binary_update with
\* its own reports a gap only when the log has lost a batch.
THEOREM GapsAreReal == Spec => []GapIsReal
<1>1. IInv => GapIsReal
  BY DEF IInv
<1>. QED BY <1>1, IInvInductive, PTL

-----------------------------------------------------------------------------
(* The watcher *)

\* Updates are numbered through the log.
Numbered == \A i \in DOMAIN log : \A j \in DOMAIN log[i].ops :
                log[i].ops[j].id = log[i].seq + j - 1

\* The batch that next_update answers next is the one to start with, or goes on
\* where the last answer ended.
Onwards(at) == /\ seen = <<>> => StartsWhereAsked(log[at].seq)
               /\ seen # <<>> => log[at].seq = seen[1].id + Len(seen)

\* What the watcher's iterator and its answers have to do with the log.
WatcherReads == /\ WatcherMissesNothing
                /\ itr["watcher"].at # 0 => Onwards(itr["watcher"].at)

WInv == IInv /\ Numbered /\ WatcherReads

\* The batches of the log stay where they are, and what it has lost stays lost.
Grows == /\ DOMAIN log \subseteq DOMAIN log'
         /\ \A j \in DOMAIN log : /\ log'[j].seq = log[j].seq
                                  /\ log'[j].ops = log[j].ops
                                  /\ log[j].wal # "kept" => log'[j].wal # "kept"

\* Every step lets the log grow and numbers what it adds.
LEMMA LogGrows ==
  ASSUME IInv, Numbered, [Next]_vars
  PROVE  Grows /\ Numbered'
<1>0. log \in Seq(Batches) /\ Len(log) \in Nat /\ DOMAIN log = 1..Len(log)
  BY DEF IInv, Types, TypeOK
<1>1. ASSUME log' = log PROVE Grows /\ Numbered'
  BY <1>1 DEF Grows, Numbered
<1>2. ASSUME NEW cfs \in FamilyLists, NEW wal \in {"kept", "none"}, Write(cfs, wal)
      PROVE  Grows /\ Numbered'
  <2>1. PICK b \in Batches : /\ log' = Append(log, b)
                             /\ \A j \in DOMAIN b.ops : b.ops[j].id = b.seq + j - 1
    BY <1>2, WriteAppends DEF IInv
  <2>2. /\ DOMAIN log' = 1..(Len(log) + 1)
        /\ \A j \in DOMAIN log : log'[j] = log[j]
        /\ log'[Len(log) + 1] = b
    BY <1>0, <2>1
  <2>3. Grows
    BY <1>0, <2>2 DEF Grows
  <2>4. ASSUME NEW i \in DOMAIN log', NEW j \in DOMAIN log'[i].ops
        PROVE  log'[i].ops[j].id = log'[i].seq + j - 1
    <3>1. CASE i \in DOMAIN log
      BY <2>2, <2>4, <3>1 DEF Numbered
    <3>2. CASE i = Len(log) + 1
      BY <2>1, <2>2, <2>4, <3>2
    <3>. QED BY <1>0, <2>2, <3>1, <3>2
  <2>. QED BY <2>3, <2>4 DEF Numbered
<1>3. ASSUME NEW i \in DOMAIN log, Purge(i) PROVE Grows /\ Numbered'
  <2>1. /\ DOMAIN log' = DOMAIN log
        /\ \A j \in DOMAIN log : /\ log'[j].seq = log[j].seq
                                 /\ log'[j].ops = log[j].ops
                                 /\ log[j].wal # "kept" => log'[j].wal # "kept"
    BY <1>3, PurgeMarks DEF IInv
  <2>. QED BY <2>1 DEF Grows, Numbered
<1>4. ASSUME NEW i \in DOMAIN log, OrphanWrites(i) PROVE log' = log
  BY <1>4 DEF OrphanWrites
<1>5. CASE \/ \E db \in {"primary", "replica"} : CreateColumnFamily(db)
           \/ \E s \in Since : WatcherOpens(s)
           \/ NextUpdate \/ WatcherCloses \/ Replicate \/ Kill \/ UNCHANGED vars
  <2>1. log' = log
    BY <1>5 DEF CreateColumnFamily, WatcherOpens, NextUpdate, WatcherCloses, Replicate, Kill,
                ReplicatorOpens, ReplicatorCloses, NextBinaryUpdate, WriteBinaryUpdate,
                WriteBinaryUpdateOk, WriteBinaryUpdateFails, Restart, vars
  <2>. QED BY <1>1, <2>1
<1>. QED BY <1>1, <1>2, <1>3, <1>4, <1>5 DEF Next

\* What the watcher was answered stays true of the log.
LEMMA WatcherStays ==
  ASSUME WInv, Grows, UNCHANGED <<since, seen>>, itr'["watcher"] = itr["watcher"]
  PROVE  WatcherReads'
<1>1. ASSUME NEW n, StartsWhereAsked(n) PROVE StartsWhereAsked(n)'
  <2>1. CASE n <= since \/ n = 1
    BY <2>1 DEF StartsWhereAsked
  <2>2. CASE \E i \in DOMAIN log : /\ log[i].wal # "kept" /\ log[i].seq < n
                                   /\ log[i].seq + Len(log[i].ops) > since
    <3>1. PICK i \in DOMAIN log : /\ log[i].wal # "kept" /\ log[i].seq < n
                                  /\ log[i].seq + Len(log[i].ops) > since
      BY <2>2
    <3>2. /\ i \in DOMAIN log' /\ log'[i].wal # "kept" /\ log'[i].seq < n
          /\ log'[i].seq + Len(log'[i].ops) > since'
      BY <3>1 DEF Grows
    <3>. QED BY <3>2 DEF StartsWhereAsked
  <2>. QED BY <1>1, <2>1, <2>2 DEF StartsWhereAsked
<1>2. WatcherMissesNothing'
  <2>1. SUFFICES ASSUME seen # <<>>
                 PROVE  /\ \A k \in DOMAIN seen : \E i \in DOMAIN log' : \E j \in DOMAIN log'[i].ops :
                              log'[i].seq + j = seen[1].id + k /\ seen[k] = log'[i].ops[j]
                        /\ \E i \in DOMAIN log' : log'[i].seq = seen[1].id
                        /\ StartsWhereAsked(seen[1].id)'
    BY DEF WatcherMissesNothing
  <2>2. /\ \A k \in DOMAIN seen : \E i \in DOMAIN log : \E j \in DOMAIN log[i].ops :
              log[i].seq + j = seen[1].id + k /\ seen[k] = log[i].ops[j]
        /\ \E i \in DOMAIN log : log[i].seq = seen[1].id
        /\ StartsWhereAsked(seen[1].id)
    BY <2>1 DEF WInv, WatcherReads, WatcherMissesNothing
  <2>3. ASSUME NEW k \in DOMAIN seen
        PROVE  \E i \in DOMAIN log' : \E j \in DOMAIN log'[i].ops :
                  log'[i].seq + j = seen[1].id + k /\ seen[k] = log'[i].ops[j]
    <3>1. PICK i \in DOMAIN log : \E j \in DOMAIN log[i].ops :
             log[i].seq + j = seen[1].id + k /\ seen[k] = log[i].ops[j]
      BY <2>2
    <3>2. i \in DOMAIN log' /\ log'[i].ops = log[i].ops /\ log'[i].seq = log[i].seq
      BY DEF Grows
    <3>. QED BY <3>1, <3>2
  <2>4. \E i \in DOMAIN log' : log'[i].seq = seen[1].id
    BY <2>2 DEF Grows
  <2>5. StartsWhereAsked(seen[1].id)'
    BY <2>2, <1>1 DEF StartsWhereAsked
  <2>. QED BY <2>3, <2>4, <2>5
<1>3. itr'["watcher"].at # 0 => Onwards(itr["watcher"].at)'
  <2>. DEFINE at == itr["watcher"].at
  <2>1. SUFFICES ASSUME at # 0 PROVE Onwards(at)'
    OBVIOUS
  <2>2. at \in DOMAIN log /\ log'[at].seq = log[at].seq
    BY <2>1 DEF WInv, IInv, Types, TypeOK, Consumers, Grows
  <2>3. Onwards(at)
    BY <2>1 DEF WInv, WatcherReads
  <2>4. seen = <<>> => StartsWhereAsked(log[at].seq)'
    BY <2>2, <2>3, <1>1 DEF Onwards, StartsWhereAsked
  <2>5. seen # <<>> => log'[at].seq = seen[1].id + Len(seen)
    BY <2>2, <2>3 DEF Onwards
  <2>. QED BY <2>2, <2>4, <2>5 DEF Onwards, StartsWhereAsked
<1>. QED BY <1>2, <1>3 DEF WatcherReads

\* A new iterator stands on the batch with the number asked for, or the batch
\* before it, which holds that number, is missing.
LEMMA OpensWhereAsked ==
  ASSUME WInv, NEW s \in Since, WatcherOpens(s)
  PROVE  WatcherReads'
<1>. DEFINE g == GetUpdatesSince(s)
<1>1. /\ log \in Seq(Batch) /\ Consecutive(log) /\ DOMAIN log = 1..Len(log) /\ Len(log) \in Nat
      /\ s \in Nat
  BY SinceIsNatural, BatchesAreBatch DEF WInv, IInv, Types, TypeOK
<1>2. /\ UpdatesIterator("watcher", s) /\ "watcher" \in Consumers
      /\ since' = s /\ seen' = <<>> /\ log' = log
  BY DEF WatcherOpens, Consumers
<1>3. itr'["watcher"].at = g /\ g # 0
  <2>1. itr'["watcher"] = [open |-> TRUE, at |-> g]
    BY <1>2, UpdatesIteratorTypes DEF WInv, IInv
  <2>. QED BY <1>2, <2>1 DEF UpdatesIterator
<1>4. /\ g \in DOMAIN log
      /\ \A j \in DOMAIN log : j < g /\ log[j].seq + Len(log[j].ops) - 1 >= s
                               => log[j].wal # "kept"
  BY <1>1, <1>3, UpdatesSince
<1>. HIDE DEF g
<1>5. ASSUME NEW n, n = log[g].seq PROVE StartsWhereAsked(n)'
  <2>1. CASE log[g].seq <= s
    BY <1>2, <1>5, <2>1 DEF StartsWhereAsked
  <2>2. CASE g = 1
    <3>1. log[g].seq = 1
      BY <1>1, <1>4, <2>2 DEF Consecutive
    <3>. QED BY <1>2, <1>5, <3>1 DEF StartsWhereAsked
  <2>3. CASE log[g].seq > s /\ g # 1
    <3>. DEFINE b == g - 1
    <3>1. b \in DOMAIN log /\ b < g /\ g = b + 1
      BY <1>1, <1>4, <2>3
    <3>. HIDE DEF b
    <3>2. log[b].seq + Len(log[b].ops) = log[g].seq
      BY <1>1, <1>4, <3>1 DEF Consecutive
    <3>3. /\ log[b].seq \in Nat /\ Len(log[b].ops) \in Nat /\ Len(log[b].ops) >= 1
      BY <1>1, <3>1, BatchFields DEF Consecutive
    <3>4. log[b].seq + Len(log[b].ops) - 1 >= s /\ log[b].seq < log[g].seq
      <4>1. \A k, l \in Nat : k + l > s /\ l >= 1 => k + l - 1 >= s /\ k < k + l
        BY <1>1
      <4>2. log[b].seq + Len(log[b].ops) > s
        BY <2>3, <3>2
      <4>. QED BY <3>2, <3>3, <4>1, <4>2
    <3>5. log[b].wal # "kept"
      BY <1>4, <3>1, <3>4
    <3>6. /\ b \in DOMAIN log' /\ log'[b].wal # "kept" /\ log'[b].seq < log'[g].seq
          /\ log'[b].seq + Len(log'[b].ops) > since'
      BY <1>2, <2>3, <3>1, <3>2, <3>4, <3>5, Zenon
    <3>. QED BY <1>2, <1>5, <3>6 DEF StartsWhereAsked
  <2>4. log[g].seq \in Nat
    BY <1>1, <1>4, BatchFields
  <2>. QED BY <1>1, <2>1, <2>2, <2>3, <2>4
<1>6. Onwards(itr["watcher"].at)'
  BY <1>2, <1>3, <1>5 DEF Onwards, StartsWhereAsked
<1>7. WatcherMissesNothing'
  BY <1>2 DEF WatcherMissesNothing
<1>. QED BY <1>6, <1>7 DEF WatcherReads

\* The answer goes on, and the iterator with it.
LEMMA ReadsOnwards ==
  ASSUME WInv, NextUpdate
  PROVE  WatcherReads'
<1>. DEFINE i == itr["watcher"].at
            ops == log[i].ops
            first == seen[1].id
<1>1. /\ log \in Seq(Batch) /\ Consecutive(log) /\ DOMAIN log = 1..Len(log) /\ Len(log) \in Nat
      /\ seen \in Seq(Op)
  BY BatchesAreBatch DEF WInv, IInv, Types, TypeOK, Op
<1>2. /\ Advance("watcher") /\ "watcher" \in Consumers
      /\ UNCHANGED <<log, since>>
      /\ seen' = seen \o ops
  BY DEF NextUpdate, Consumers
<1>3. /\ i \in DOMAIN log /\ i # 0 /\ itr'["watcher"].at \in NextAt(i) \cup {0}
  BY <1>1, <1>2, AdvanceTypes DEF WInv, IInv
<1>4. Onwards(i) /\ WatcherMissesNothing
  BY <1>3 DEF WInv, WatcherReads
<1>5. /\ log[i].seq \in Nat /\ ops \in Seq(Op) /\ Len(ops) \in Nat /\ Len(ops) >= 1
      /\ DOMAIN ops = 1..Len(ops)
  BY <1>1, <1>3, BatchFields DEF Consecutive
<1>6. \A j \in DOMAIN ops : ops[j].id = log[i].seq + j - 1
  BY <1>3 DEF WInv, Numbered
<1>. HIDE DEF i
<1>7. itr'["watcher"].at \in {0, i + 1} \cap (0..Len(log))
  BY <1>1, <1>3 DEF NextAt
<1>8. /\ seen # <<>> => log[i].seq = first + Len(seen)
      /\ seen = <<>> => StartsWhereAsked(log[i].seq)
  BY <1>4 DEF Onwards
<1>. DEFINE start == IF seen = <<>> THEN log[i].seq ELSE first
<1>9. /\ seen' \in Seq(Op) /\ Len(seen') = Len(seen) + Len(ops)
      /\ DOMAIN seen' = 1..(Len(seen) + Len(ops)) /\ Len(seen) \in Nat
      /\ \A k \in 1..Len(seen) : seen'[k] = seen[k]
      /\ \A k \in 1..Len(ops) : seen'[Len(seen) + k] = ops[k]
  <2>. HIDE DEF ops
  <2>. QED BY <1>1, <1>2, <1>5
<1>10. seen'[1].id = start /\ start \in Nat
  <2>1. CASE seen = <<>>
    <3>1. seen'[1] = ops[1] /\ 1 \in DOMAIN ops
      BY <1>5, <1>9, <2>1
    <3>2. ops[1].id = log[i].seq
      BY <1>5, <1>6, <3>1
    <3>. QED BY <2>1, <3>1, <3>2, <1>5
  <2>2. CASE seen # <<>>
    <3>1. 1 \in 1..Len(seen)
      BY <1>1, <2>2
    <3>2. seen[1] \in Op
      BY <1>1, <3>1
    <3>. QED BY <1>9, <2>2, <3>1, <3>2 DEF Op
  <2>. QED BY <2>1, <2>2
<1>11. log[i].seq = start + Len(seen)
  BY <1>1, <1>5, <1>8, <1>10
<1>12. StartsWhereAsked(start)
  BY <1>4, <1>8 DEF WatcherMissesNothing
<1>13. \E m \in DOMAIN log : log[m].seq = start
  BY <1>3, <1>4 DEF WatcherMissesNothing
<1>14. ASSUME NEW k \in DOMAIN seen'
       PROVE  \E m \in DOMAIN log : \E j \in DOMAIN log[m].ops :
                 log[m].seq + j = start + k /\ seen'[k] = log[m].ops[j]
  <2>1. CASE k \in 1..Len(seen)
    <3>1. seen # <<>> /\ k \in DOMAIN seen
      BY <1>1, <2>1
    <3>. QED BY <1>4, <1>9, <2>1, <3>1 DEF WatcherMissesNothing
  <2>2. CASE k \notin 1..Len(seen)
    <3>. DEFINE j == k - Len(seen)
    <3>1. j \in DOMAIN ops /\ k = Len(seen) + j /\ k \in Nat
      BY <1>5, <1>9, <2>2
    <3>2. seen'[k] = ops[j]
      BY <1>5, <1>9, <3>1
    <3>3. log[i].seq + j = start + k
      BY <1>5, <1>9, <1>10, <1>11, <3>1
    <3>. HIDE DEF j, start
    <3>. QED BY <1>3, <3>1, <3>2, <3>3
  <2>. QED BY <2>1, <2>2
<1>. HIDE DEF start, first
<1>15. WatcherMissesNothing'
  <2>1. ASSUME NEW n, n = start PROVE StartsWhereAsked(n)'
    BY <1>2, <1>12, <2>1 DEF StartsWhereAsked
  <2>. QED BY <1>2, <1>10, <1>13, <1>14, <2>1 DEF WatcherMissesNothing, StartsWhereAsked
<1>16. ASSUME itr'["watcher"].at # 0 PROVE Onwards(itr["watcher"].at)'
  <2>1. itr'["watcher"].at = i + 1 /\ i + 1 \in DOMAIN log
    BY <1>1, <1>3, <1>7, <1>16
  <2>2. log[i + 1].seq = log[i].seq + Len(ops)
    BY <1>1, <1>3, <2>1 DEF Consecutive
  <2>3. log[i + 1].seq = seen'[1].id + Len(seen')
    <3>. HIDE DEF ops
    <3>1. \A k, l, m \in Nat : (k + l) + m = k + (l + m)
      OBVIOUS
    <3>2. Len(seen') = Len(seen) + Len(ops) /\ seen'[1].id = start
      BY <1>9, <1>10
    <3>3. (start + Len(seen)) + Len(ops) = start + (Len(seen) + Len(ops))
      BY <1>5, <1>9, <1>10, <3>1
    <3>4. log[i + 1].seq = (start + Len(seen)) + Len(ops)
      BY <2>2, <1>11, Zenon
    <3>. QED BY <3>2, <3>3, <3>4, Zenon
  <2>4. seen' # <<>>
    BY <1>5, <1>9
  <2>. QED BY <1>2, <2>1, <2>3, <2>4 DEF Onwards
<1>. QED BY <1>15, <1>16 DEF WatcherReads

\* No step makes the watcher's answers wrong.
LEMMA WatcherStep ==
  ASSUME WInv, [Next]_vars
  PROVE  WatcherReads'
<1>1. Grows
  BY LogGrows DEF WInv
<1>2. ASSUME UNCHANGED <<since, seen>>, itr'["watcher"] = itr["watcher"] PROVE WatcherReads'
  BY <1>1, <1>2, WatcherStays
<1>3. ASSUME NEW cfs \in FamilyLists, NEW wal \in {"kept", "none"}, Write(cfs, wal)
      PROVE  WatcherReads'
  BY <1>2, <1>3 DEF Write, watching
<1>4. ASSUME NEW i \in DOMAIN log, Purge(i) \/ OrphanWrites(i) PROVE WatcherReads'
  BY <1>2, <1>4 DEF Purge, OrphanWrites, watching
<1>5. CASE \/ \E db \in {"primary", "replica"} : CreateColumnFamily(db)
           \/ WriteBinaryUpdate \/ WriteBinaryUpdateOk \/ WriteBinaryUpdateFails \/ Restart
           \/ UNCHANGED vars
  BY <1>2, <1>5 DEF CreateColumnFamily, WriteBinaryUpdate, WriteBinaryUpdateOk,
                    WriteBinaryUpdateFails, Restart, vars, watching
<1>6. CASE ReplicatorOpens \/ ReplicatorCloses \/ NextBinaryUpdate \/ Kill
  <2>1. itr'["watcher"] = itr["watcher"]
    BY <1>6 DEF ReplicatorOpens, ReplicatorCloses, NextBinaryUpdate, Kill, UpdatesIterator,
                UpdatesIteratorClose, Advance, WInv, IInv, Types, TypeOK, Consumers
  <2>2. UNCHANGED <<since, seen>>
    BY <1>6 DEF ReplicatorOpens, ReplicatorCloses, NextBinaryUpdate, Kill, watching
  <2>. QED BY <1>2, <2>1, <2>2
<1>7. ASSUME NEW s \in Since, WatcherOpens(s) PROVE WatcherReads'
  BY <1>7, OpensWhereAsked
<1>8. CASE NextUpdate
  BY <1>8, ReadsOnwards
<1>9. CASE WatcherCloses
  <2>1. seen' = <<>> /\ itr'["watcher"].at = 0
    BY <1>9 DEF WatcherCloses, UpdatesIteratorClose, WInv, IInv, Types, TypeOK, Consumers
  <2>. QED BY <2>1 DEF WatcherReads, WatcherMissesNothing
<1>. QED BY <1>3, <1>4, <1>5, <1>6, <1>7, <1>8, <1>9 DEF Next, Replicate

\* A watcher that calls next_update until it is not valid any more gets the
\* updates of the log in order, each once, from the one it asked for on; it
\* starts later only when the log has lost a batch.
THEOREM WatcherSeesTheLog == Spec => []WatcherMissesNothing
<1>1. Init => Numbered /\ WatcherReads
  <2>. HAVE Init
  <2>1. DOMAIN log = {} /\ seen = <<>> /\ itr["watcher"].at = 0
    BY DEF Init, Consumers
  <2>. QED BY <2>1 DEF Numbered, WatcherReads, WatcherMissesNothing
<1>2. IInv /\ Numbered /\ WatcherReads /\ [Next]_vars => Numbered' /\ WatcherReads'
  BY LogGrows, WatcherStep DEF WInv
<1>3. Numbered /\ WatcherReads => WatcherMissesNothing
  BY DEF WatcherReads
<1>4. Spec => []IInv
  BY IInvInductive
<1>. QED BY <1>1, <1>2, <1>3, <1>4, PTL DEF Spec
=============================================================================
