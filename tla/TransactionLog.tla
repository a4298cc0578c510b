---------------------------- MODULE TransactionLog ----------------------------
(***************************************************************************)
(* Following the log of a database: updates_iterator, next_update,         *)
(* next_binary_update, write_binary_update and get_latest_sequence_number  *)
(* (c_src/erocksdb_transactions.cc, c_src/erocksdb.cc).                    *)
(*                                                                         *)
(* A replicator process copies the log of a primary to a replica, batch by *)
(* batch, as the first cases of test/transaction_log.erl do.  Those start  *)
(* at 0, on an empty replica; this one may be refused a write, lose its    *)
(* iterator or be killed at any point, and goes on where the replica is:   *)
(* at its latest sequence number plus one.  A NIF that runs on a dirty     *)
(* scheduler when its process is killed runs on without it.  A watcher     *)
(* reads the updates of the log with next_update.                          *)
(*                                                                         *)
(* An update is told apart by its sequence number on the primary, its id;  *)
(* a batch is one record of the write ahead log.  The values and the       *)
(* suffix that DBWithTTL appends to them are left out.                     *)
(***************************************************************************)
EXTENDS Integers, Sequences, FiniteSets, SequencesExt, FiniteSetsExt

CONSTANTS MaxSeq,        \* bound on the updates written to the primary
          MaxBatch,      \* bound on the updates of one batch
          MaxFamilies,   \* bound on the column families besides the default
          MaxFailures,   \* bound on the writes the replica refuses
          MaxErrors,     \* bound on read errors of the log
          MaxKills,
          Since          \* where the watcher may start

ASSUME BoundsAreNaturals ==
    {MaxSeq, MaxBatch, MaxFamilies, MaxFailures, MaxErrors, MaxKills} \subseteq Nat
ASSUME SinceIsNatural == Since \subseteq Nat

Consumers == {"replicator", "watcher"}

VARIABLES log,           \* the primary's batches, in order
          replica,       \* the replica's batches, in order
          families,      \* number of families, of the primary and the replica
          itr,           \* each consumer's iterator: [open, at], at = 0: not valid
          pc,            \* what the replicator does
          inHand,        \* the batch it has read, 0 for none
          orphans,       \* batches that NIFs of dead replicators are writing
          failures, errors, kills,
          since, seen,   \* the watcher: where it started, what it was answered
          overtaken      \* history: a replicator was started next to an orphan

vars == <<log, replica, families, itr, pc, inHand, orphans, failures, errors, kills,
          since, seen, overtaken>>
copying  == <<pc, inHand, orphans, kills, overtaken>>
watching == <<since, seen>>

-----------------------------------------------------------------------------
(* RocksDB *)

\* wal: "kept"; "purged" with an old log file; "none", written with
\* disable_wal.
Batches == [seq : 1..MaxSeq, ops : BoundedSeq([id : 1..MaxSeq, cf : 0..MaxFamilies], MaxBatch),
            wal : {"kept", "purged", "none"}]

\* GetLatestSequenceNumber
Latest(batches) == IF batches = <<>> THEN 0
                   ELSE Last(batches).seq + Len(Last(batches).ops) - 1

\* DB::Write gives a batch the sequence numbers after the latest.
DbWrite(batches, ops, wal) ==
    Append(batches, [seq |-> Latest(batches) + 1, ops |-> ops, wal |-> wal])

Knows(db, ops) == \A i \in DOMAIN ops : ops[i].cf <= families[db]

\* GetUpdatesSince: the first batch in the log that reaches up to s, 0 when
\* there is none.  Nothing tells that an earlier one is missing.
GetUpdatesSince(s) ==
    LET found == {i \in DOMAIN log : /\ log[i].wal = "kept"
                                     /\ log[i].seq + Len(log[i].ops) - 1 >= s}
    IN  IF found = {} THEN 0 ELSE Min(found)

\* TransactionLogIterator::Next: the next batch when the log still has it, or
\* when its deleted file is still open; not valid at the end and at a gap.
NextAt(i) == CASE i = Len(log)               -> {0}
               [] i < Len(log) /\ log[i + 1].wal = "kept"   -> {i + 1}
               [] i < Len(log) /\ log[i + 1].wal = "purged" -> {0, i + 1}
               [] OTHER                      -> {0}

Init == /\ log = <<>> /\ replica = <<>>
        /\ families = [db \in {"primary", "replica"} |-> 0]
        /\ itr = [c \in Consumers |-> [open |-> FALSE, at |-> 0]]
        /\ pc = "idle" /\ inHand = 0 /\ orphans = {}
        /\ failures = 0 /\ errors = 0 /\ kills = 0
        /\ since = 0 /\ seen = <<>>
        /\ overtaken = FALSE

-----------------------------------------------------------------------------
(* The primary *)

Write(cfs, wal) ==
    /\ Latest(log) + Len(cfs) <= MaxSeq
    /\ LET ops == [i \in DOMAIN cfs |-> [id |-> Latest(log) + i, cf |-> cfs[i]]]
       IN  Knows("primary", ops) /\ log' = DbWrite(log, ops, wal)
    /\ UNCHANGED <<replica, families, itr, failures, errors, copying, watching>>

\* Families are numbered in the order of their creation, on each database.
\* The log does not record it: the caller creates them on the replica, in
\* the same order.
CreateColumnFamily(db) ==
    /\ families[db] < IF db = "primary" THEN MaxFamilies ELSE families["primary"]
    /\ families' = [families EXCEPT ![db] = @ + 1]
    /\ UNCHANGED <<log, replica, itr, failures, errors, copying, watching>>

\* RocksDB deletes its oldest log file after a flush.
Purge(i) ==
    /\ log[i].wal = "kept"
    /\ \A j \in 1..(i - 1) : log[j].wal # "kept"
    /\ log' = [log EXCEPT ![i].wal = "purged"]
    /\ UNCHANGED <<replica, families, itr, failures, errors, copying, watching>>

-----------------------------------------------------------------------------
(* The NIFs of the log iterator *)

\* Deviation: the iterator starts after the batch that holds s.
UpdatesIteratorAfter(c, s) ==
    /\ ~itr[c].open
    /\ GetUpdatesSince(s + 1) # 0
    /\ itr' = [itr EXCEPT ![c] = [open |-> TRUE, at |-> GetUpdatesSince(s + 1)]]

\* Deviation: the latest sequence number itself is refused.
UpdatesIteratorBeforeLatest(c, s) ==
    /\ ~itr[c].open
    /\ s < Latest(log)
    /\ GetUpdatesSince(s) # 0
    /\ itr' = [itr EXCEPT ![c] = [open |-> TRUE, at |-> GetUpdatesSince(s)]]

\* UpdatesIterator.  Past the latest sequence number, or when no batch is
\* found, it answers an error and makes no iterator.
UpdatesIterator(c, s) ==
    /\ ~itr[c].open
    /\ s <= Latest(log)
    /\ GetUpdatesSince(s) # 0
    /\ itr' = [itr EXCEPT ![c] = [open |-> TRUE, at |-> GetUpdatesSince(s)]]

UpdatesIteratorClose(c) ==
    /\ itr[c].open
    /\ itr' = [itr EXCEPT ![c] = [open |-> FALSE, at |-> 0]]

\* Deviation: past the last batch the iterator stays on a position.
AdvancePastEnd(c) ==
    /\ itr[c].open /\ itr[c].at # 0
    /\ itr' = [itr EXCEPT ![c].at = @ + 1]
    /\ UNCHANGED errors

\* What NextUpdate and NextBinaryUpdate do to an iterator that is Valid: they
\* copy the batch, then call Next, which may also fail to read on.  When it
\* is not Valid they answer {error, invalid_iterator} and never call Next
\* again, so it stays so for ever.
Advance(c) ==
    /\ itr[c].open /\ itr[c].at # 0
    /\ \/ /\ \E n \in NextAt(itr[c].at) : itr' = [itr EXCEPT ![c].at = n]
          /\ UNCHANGED errors
       \/ /\ errors < MaxErrors
          /\ errors' = errors + 1
          /\ itr' = [itr EXCEPT ![c].at = 0]

-----------------------------------------------------------------------------
(* The watcher *)

WatcherOpens(s) ==
    /\ UpdatesIterator("watcher", s)
    /\ since' = s /\ seen' = <<>>
    /\ UNCHANGED <<log, replica, families, failures, errors, copying>>

\* Deviation: the list of a batch is returned as it was consed.
NextUpdateReversed ==
    /\ Advance("watcher")
    /\ seen' = seen \o Reverse(log[itr["watcher"].at].ops)
    /\ UNCHANGED <<log, replica, families, failures, copying, since>>

\* NextUpdate: the updates of the batch, in the order TransactionLogHandler
\* met them.
NextUpdate ==
    /\ Advance("watcher")
    /\ seen' = seen \o log[itr["watcher"].at].ops
    /\ UNCHANGED <<log, replica, families, failures, copying, since>>

WatcherCloses ==
    /\ UpdatesIteratorClose("watcher")
    /\ since' = 0 /\ seen' = <<>>
    /\ UNCHANGED <<log, replica, families, failures, errors, copying>>

-----------------------------------------------------------------------------
(* The replicator *)

\* It goes on where the replica is.
ReplicatorOpens ==
    /\ pc = "idle"
    /\ UpdatesIterator("replicator", Latest(replica) + 1)
    /\ UNCHANGED <<log, replica, families, failures, errors, copying, watching>>

\* {error, invalid_iterator}: the end, for this iterator.
ReplicatorCloses ==
    /\ pc = "idle" /\ itr["replicator"].at = 0
    /\ UpdatesIteratorClose("replicator")
    /\ UNCHANGED <<log, replica, families, failures, errors, copying, watching>>

\* BatchResult::sequence, the first of the batch.
SequenceAnswered(batch) == batch.seq

\* NextBinaryUpdate.  The caller compares the sequence number it is answered
\* with the one it expects next, as the tests do, and stops at a gap.
NextBinaryUpdate ==
    LET batch == log[itr["replicator"].at]
    IN  /\ pc = "idle"
        /\ Advance("replicator")
        /\ inHand' = itr["replicator"].at
        /\ pc' = IF SequenceAnswered(batch) = Latest(replica) + 1 THEN "have" ELSE "gap"
        /\ UNCHANGED <<log, replica, families, failures, orphans, kills, overtaken, watching>>

\* WriteBinaryUpdate, up to the call of DB::Write.
WriteBinaryUpdate ==
    /\ pc = "have"
    /\ pc' = "writing"
    /\ UNCHANGED <<log, replica, families, itr, inHand, orphans, failures, errors, kills,
                   overtaken, watching>>

\* Deviation: the updates of unknown families are left out of the batch.
ApplyKnown(i) ==
    replica' = DbWrite(replica, SelectSeq(log[i].ops, LAMBDA o : o.cf <= families["replica"]), "kept")

\* DB::Write of DBWithTTL: the whole batch, under the families' numbers.
Apply(i) ==
    /\ Knows("replica", log[i].ops)
    /\ replica' = DbWrite(replica, log[i].ops, "kept")

WriteBinaryUpdateOk ==
    /\ pc = "writing"
    /\ Apply(inHand)
    /\ pc' = "idle" /\ inHand' = 0
    /\ UNCHANGED <<log, families, itr, orphans, failures, errors, kills, overtaken, watching>>

\* An error, after which the caller tries the same batch again: RocksDB
\* refused it, or it names a family that the replica does not have.
WriteBinaryUpdateFails ==
    /\ pc = "writing"
    /\ \/ /\ ~Knows("replica", log[inHand].ops)
          /\ UNCHANGED failures
       \/ /\ failures < MaxFailures
          /\ failures' = failures + 1
    /\ pc' = "have"
    /\ UNCHANGED <<log, replica, families, itr, inHand, orphans, errors, kills, overtaken, watching>>

\* The process is killed; its log iterator dies with it, a NIF does not.
Kill ==
    /\ pc # "dead" /\ kills < MaxKills
    /\ kills' = kills + 1
    /\ orphans' = IF pc = "writing" THEN orphans \cup {inHand} ELSE orphans
    /\ pc' = "dead" /\ inHand' = 0
    /\ itr' = [itr EXCEPT !["replicator"] = [open |-> FALSE, at |-> 0]]
    /\ UNCHANGED <<log, replica, families, failures, errors, overtaken, watching>>

\* A write_binary_update whose process is dead: it writes, or is refused like
\* any other, and nobody learns which.
OrphanWrites(i) ==
    /\ i \in orphans
    /\ orphans' = orphans \ {i}
    /\ \/ Apply(i) /\ UNCHANGED failures
       \/ ~Knows("replica", log[i].ops) /\ UNCHANGED <<replica, failures>>
       \/ failures < MaxFailures /\ failures' = failures + 1 /\ UNCHANGED replica
    /\ UNCHANGED <<log, families, itr, pc, inHand, errors, kills, overtaken, watching>>

Restart ==
    /\ pc = "dead"
    /\ pc' = "idle"
    /\ overtaken' = (overtaken \/ orphans # {})
    /\ UNCHANGED <<log, replica, families, itr, inHand, orphans, failures, errors, kills, watching>>

-----------------------------------------------------------------------------

Replicate == ReplicatorOpens \/ ReplicatorCloses \/ NextBinaryUpdate
             \/ WriteBinaryUpdate \/ WriteBinaryUpdateOk \/ WriteBinaryUpdateFails \/ Restart

FamilyLists == UNION {[1..n -> 0..MaxFamilies] : n \in 1..MaxBatch}

Next == \/ \E cfs \in FamilyLists : Write(cfs, "kept") \/ Write(cfs, "none")
        \/ \E db \in {"primary", "replica"} : CreateColumnFamily(db)
        \/ \E i \in DOMAIN log : Purge(i)
        \/ \E s \in Since : WatcherOpens(s)
        \/ NextUpdate \/ WatcherCloses
        \/ Replicate \/ Kill
        \/ \E i \in DOMAIN log : OrphanWrites(i)

Spec == Init /\ [][Next]_vars

\* The replicator's loop goes on, is restarted by its supervisor, and creates
\* the families it is missing.
FairSpec == Spec /\ WF_vars(Replicate) /\ WF_vars(CreateColumnFamily("replica"))

-----------------------------------------------------------------------------
(* Properties *)

\* Every variable has its values; an iterator stands on a batch of the log or
\* is not valid.
TypeOK == /\ log \in Seq(Batches) /\ \A i \in DOMAIN replica : DOMAIN replica[i] = {"seq", "ops", "wal"}
          /\ families \in [{"primary", "replica"} -> 0..MaxFamilies]
          /\ itr \in [Consumers -> [open : BOOLEAN, at : 0..Len(log)]]
          /\ pc \in {"idle", "have", "writing", "gap", "dead"}
          /\ inHand \in 0..Len(log) /\ orphans \subseteq 1..Len(log)
          /\ failures \in 0..MaxFailures /\ errors \in 0..MaxErrors /\ kills \in 0..MaxKills
          /\ since \in Since \cup {0} /\ overtaken \in BOOLEAN
          /\ seen \in Seq([id : 1..MaxSeq, cf : 0..MaxFamilies])

\* The replica holds the first batches of the primary's log, each once, whole
\* and in order, in the same families and under the same sequence numbers,
\* through failed writes, missing families, new iterators, gaps in the log
\* and killed replicators: its own sequence number is a safe place to go on.
\* (Not when a new replicator reads it before a NIF of the old one is over.)
ReplicaIsPrefix ==
    ~overtaken => /\ Len(replica) <= Len(log)
                  /\ \A i \in DOMAIN replica : /\ replica[i].seq = log[i].seq
                                               /\ replica[i].ops = log[i].ops

\* The replicator reports a gap only when a batch it needs is really missing
\* from the log, and never takes a late iterator or a batch it has read
\* before for one.
GapIsReal ==
    pc = "gap" /\ ~overtaken => /\ Len(replica) < Len(log)
                                /\ log[Len(replica) + 1].wal # "kept"

\* An answer starts with the batch that holds the sequence number asked for
\* or, when the log has lost an update from there on, later.
StartsWhereAsked(first) ==
    \/ first <= since \/ first = 1
    \/ \E i \in DOMAIN log : /\ log[i].wal # "kept" /\ log[i].seq < first
                             /\ log[i].seq + Len(log[i].ops) > since

\* What the watcher was answered by one iterator are consecutive updates of
\* the primary, each once, in order and with its family.  They start with the
\* batch that holds the sequence number it asked for, unless the log does not
\* have that batch any more.
WatcherMissesNothing ==
    LET first == seen[1].id
    IN  seen # <<>> =>
          /\ \A k \in DOMAIN seen : \E i \in DOMAIN log : \E j \in DOMAIN log[i].ops :
                log[i].seq + j = first + k /\ seen[k] = log[i].ops[j]
          /\ \E i \in DOMAIN log : log[i].seq = first
          /\ StartsWhereAsked(first)

\* The log has nothing any more of what the replica misses.
NothingLeftToRead == Latest(replica) < Latest(log) /\ GetUpdatesSince(Latest(replica) + 1) = 0

\* The replica gets every update of the primary in the end, or the replicator
\* learns of a gap; only a gap at the very end of the log stays unnoticed.
CatchesUp ==
    \A n \in 1..MaxSeq :
        Latest(log) >= n ~> Latest(replica) >= n \/ pc = "gap" \/ overtaken \/ NothingLeftToRead
=============================================================================
