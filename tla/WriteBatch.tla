------------------------------ MODULE WriteBatch ------------------------------
(***************************************************************************)
(* Writing several updates at once: the batch resource of                  *)
(* c_src/erocksdb_batch.cc, filled call by call, with savepoints, and      *)
(* written in the end, and write/3, put and delete of                      *)
(* c_src/erocksdb_kv.cc.                                                   *)
(*                                                                         *)
(* An update is told apart from all others by a number, its id; its key    *)
(* and value do not matter here, its column family does: another process   *)
(* may drop the family, or close the database, between the call that put   *)
(* the update in the batch and the one that writes the batch.  Each        *)
(* process fills a batch of its own: nothing in the code keeps two         *)
(* processes from sharing one, and rocksdb::WriteBatch is not made for it. *)
(***************************************************************************)
EXTENDS Integers, Sequences, FiniteSets, SequencesExt

CONSTANTS Owners,       \* processes, each with a batch
          Cfs, Default, \* column families, and the one nobody can drop
          MaxUpdates,   \* bounds on the updates and on the savepoints of a batch
          MaxSavepoints,
          MaxList,      \* bound on the length of the lists given to write/3
          MaxFailures   \* bound on the writes RocksDB refuses for its own reasons

ASSUME DefaultIsNotACf == Default \notin Cfs
ASSUME WriteIsNoOwner == "write" \notin Owners     \* it marks the updates of write/3
ASSUME BoundsAreNaturals == {MaxUpdates, MaxSavepoints, MaxList, MaxFailures} \subseteq Nat

VARIABLES ops,          \* the updates in each batch, in order
          savepoints,   \* for each batch, how many updates it had
          writing,      \* the batch is written and not yet cleared
          word,         \* column families: "open", "dropped" in RocksDB, "closed"
          dbClosed,
          applied,      \* the updates RocksDB has taken, in order
          next,         \* the id of the next update
          failures,
          discarded,    \* history: cleared or rolled back by their owner
          ignored,      \* history: left out by ignore_missing_column_families
          refused       \* history: in a list that write/3 refused

vars == <<ops, savepoints, writing, word, dbClosed, applied, next, failures,
          discarded, ignored, refused>>

-----------------------------------------------------------------------------

Families == Cfs \cup {Default}
Updates == [id : 1..MaxUpdates, cf : Families, by : Owners \cup {"write"}]
Ids(s) == {s[i].id : i \in DOMAIN s}

\* RetrieveColumnFamilyObject; the default family needs no handle.
RetrieveColumnFamily(cf) == cf # Default => word[cf] # "closed"

\* RocksDB knows the family.
Exists(cf) == cf # Default => word[cf] = "open"

Idle(o) == ~writing[o]

Init == /\ ops = [o \in Owners |-> <<>>]
        /\ savepoints = [o \in Owners |-> <<>>]
        /\ writing = [o \in Owners |-> FALSE]
        /\ word = [c \in Cfs |-> "open"]
        /\ dbClosed = FALSE
        /\ applied = <<>>
        /\ next = 1
        /\ failures = 0
        /\ discarded = {} /\ ignored = {} /\ refused = {}

-----------------------------------------------------------------------------
(* The batch: no database is needed to fill it *)

\* PutBatch and DeleteBatch
PutBatch(o, cf) ==
    /\ Idle(o) /\ next <= MaxUpdates
    /\ RetrieveColumnFamily(cf)
    /\ ops' = [ops EXCEPT ![o] = Append(@, [id |-> next, cf |-> cf, by |-> o])]
    /\ next' = next + 1
    /\ UNCHANGED <<savepoints, writing, word, dbClosed, applied, failures,
                   discarded, ignored, refused>>

\* Deviation: the savepoint is taken one update too early.
BatchSetSavePointEarly(o) ==
    /\ Idle(o)
    /\ Len(savepoints[o]) < MaxSavepoints
    /\ savepoints' = [savepoints EXCEPT ![o] = Append(@, Len(ops[o]) - 1)]
    /\ UNCHANGED <<ops, writing, word, dbClosed, applied, next, failures,
                   discarded, ignored, refused>>

BatchSetSavePoint(o) ==
    /\ Idle(o)
    /\ Len(savepoints[o]) < MaxSavepoints
    /\ savepoints' = [savepoints EXCEPT ![o] = Append(@, Len(ops[o]))]
    /\ UNCHANGED <<ops, writing, word, dbClosed, applied, next, failures,
                   discarded, ignored, refused>>

\* Back to the last savepoint; without one it is an error, and no change.
BatchRollbackToSavePoint(o) ==
    /\ Idle(o)
    /\ savepoints[o] # <<>>
    /\ LET n == Last(savepoints[o])
       IN  /\ ops' = [ops EXCEPT ![o] = SubSeq(@, 1, n)]
           /\ discarded' = discarded \cup Ids(SubSeq(ops[o], n + 1, Len(ops[o])))
    /\ savepoints' = [savepoints EXCEPT ![o] = Front(@)]
    /\ UNCHANGED <<writing, word, dbClosed, applied, next, failures, ignored, refused>>

\* Deviation: Clear forgets the updates and not the savepoints.
ClearKeepsSavepoints(o) ==
    /\ ops' = [ops EXCEPT ![o] = <<>>]
    /\ UNCHANGED savepoints

\* rocksdb::WriteBatch::Clear
Clear(o) ==
    /\ ops' = [ops EXCEPT ![o] = <<>>]
    /\ savepoints' = [savepoints EXCEPT ![o] = <<>>]

\* ClearBatch, and CloseBatch, which does the same: the batch stays usable.
ClearBatch(o) ==
    /\ Idle(o)
    /\ Clear(o)
    /\ discarded' = discarded \cup Ids(ops[o])
    /\ UNCHANGED <<writing, word, dbClosed, applied, next, failures, ignored, refused>>

-----------------------------------------------------------------------------
(* Writing *)

\* What RocksDB leaves of a batch when it ignores missing families.
Existing(s) ==
    LET upTo[n \in 0..Len(s)] ==
            IF n = 0 THEN <<>>
            ELSE IF Exists(s[n].cf) THEN Append(upTo[n - 1], s[n]) ELSE upTo[n - 1]
    IN  upTo[Len(s)]

\* DB::Write: all or nothing.  A family that does not exist any more is an
\* error, unless the writer asked to have its updates left out.
DbWrite(s, ignoreMissing) ==
    /\ ~dbClosed
    /\ ignoreMissing \/ \A i \in DOMAIN s : Exists(s[i].cf)
    /\ applied' = applied \o Existing(s)
    /\ ignored' = ignored \cup {u.id : u \in {v \in ToSet(s) : ~Exists(v.cf)}}

DbRefuses(s, ignoreMissing) ==
    \/ /\ ~ignoreMissing
       /\ \E i \in DOMAIN s : ~Exists(s[i].cf)
       /\ UNCHANGED failures
    \/ /\ failures < MaxFailures
       /\ failures' = failures + 1

\* Deviation: a batch that could not be written is cleared as well.
WriteFailsAndClears(o, ignoreMissing) ==
    /\ Idle(o) /\ ~dbClosed
    /\ DbRefuses(ops[o], ignoreMissing)
    /\ Clear(o)
    /\ UNCHANGED <<writing, word, dbClosed, applied, next, discarded, ignored, refused>>

\* WriteBatch, when Write is an error: the batch keeps its updates.
WriteBatchFails(o, ignoreMissing) ==
    /\ Idle(o) /\ ~dbClosed
    /\ DbRefuses(ops[o], ignoreMissing)
    /\ UNCHANGED <<ops, savepoints, writing, word, dbClosed, applied, next,
                   discarded, ignored, refused>>

\* WriteBatch, up to the status of Write.
WriteBatch(o, ignoreMissing) ==
    /\ Idle(o)
    /\ DbWrite(ops[o], ignoreMissing)
    /\ writing' = [writing EXCEPT ![o] = TRUE]
    /\ UNCHANGED <<ops, savepoints, word, dbClosed, next, failures, discarded, refused>>

\* Deviation: a written batch is not cleared.
WriteBatchReturns(o) ==
    /\ writing[o]
    /\ writing' = [writing EXCEPT ![o] = FALSE]
    /\ UNCHANGED <<ops, savepoints, word, dbClosed, applied, next, failures,
                   discarded, ignored, refused>>

\* WriteBatch, the rest.
WriteBatchClears(o) ==
    /\ writing[o]
    /\ writing' = [writing EXCEPT ![o] = FALSE]
    /\ Clear(o)
    /\ UNCHANGED <<word, dbClosed, applied, next, failures, discarded, ignored, refused>>

\* The items of a list that write/3 is called with: an update of a family,
\* the atom clear, or something else.
Actions == {[act |-> "put", cf |-> c] : c \in Families}
           \cup {[act |-> a, cf |-> Default] : a \in {"clear", "bad"}}

\* Deviation: an item that does not match is skipped.
WriteBatchItemSkips(state, i, action) ==
    CASE action.act = "clear" -> [state EXCEPT !.batch = <<>>]
      [] action.act = "put" /\ RetrieveColumnFamily(action.cf) ->
            [state EXCEPT !.batch = Append(@, [id |-> next + i - 1, cf |-> action.cf, by |-> "write"])]
      [] OTHER -> state

\* write_batch_item: one more item on the temporary batch, or the end of the
\* fold over the list.
WriteBatchItem(state, i, action) ==
    CASE ~state.ok -> state
      [] state.ok /\ action.act = "clear" -> [state EXCEPT !.batch = <<>>]
      [] state.ok /\ action.act = "put" /\ RetrieveColumnFamily(action.cf) ->
            [state EXCEPT !.batch = Append(@, [id |-> next + i - 1, cf |-> action.cf, by |-> "write"])]
      [] OTHER -> [state EXCEPT !.ok = FALSE]

\* The fold of atoms.h over the list.
BatchOf(list) ==
    LET after[n \in 0..Len(list)] ==
            IF n = 0 THEN [ok |-> TRUE, batch |-> <<>>]
            ELSE WriteBatchItem(after[n - 1], n, list[n])
    IN  after[Len(list)]

\* history: write/3 may not accept the list.
Spoilt(list) == \E i \in DOMAIN list : \/ list[i].act = "bad"
                                       \/ ~RetrieveColumnFamily(list[i].cf)

\* Write; Put and Delete are the lists of one item.
Write(o, list, ignoreMissing) ==
    LET result == BatchOf(list)
        sent   == next..(next + Len(list) - 1)
    IN  /\ Idle(o) /\ ~dbClosed
        /\ next + Len(list) - 1 <= MaxUpdates
        /\ next' = next + Len(list)
        /\ \/ /\ result.ok
              /\ DbWrite(result.batch, ignoreMissing)
              /\ discarded' = discarded \cup (sent \ Ids(result.batch))
              /\ refused' = IF Spoilt(list) THEN refused \cup sent ELSE refused
              /\ UNCHANGED failures
           \/ /\ ~result.ok           \* {error, {bad_write_action, Item}}
              /\ refused' = refused \cup sent
              /\ UNCHANGED <<applied, discarded, ignored, failures>>
           \/ /\ result.ok            \* the error of DB::Write
              /\ DbRefuses(result.batch, ignoreMissing)
              /\ refused' = refused \cup sent
              /\ UNCHANGED <<applied, discarded, ignored>>
        /\ UNCHANGED <<ops, savepoints, writing, word, dbClosed>>

-----------------------------------------------------------------------------
(* Other processes *)

\* DropColumnFamily: RocksDB first, the handle's close word afterwards.
DropColumnFamily(c) ==
    /\ word[c] # "closed"
    /\ word' = [word EXCEPT ![c] = IF @ = "open" THEN "dropped" ELSE "closed"]
    /\ UNCHANGED <<ops, savepoints, writing, dbClosed, applied, next, failures,
                   discarded, ignored, refused>>

\* Close, and the column families that Shutdown closes with it.
Close ==
    /\ ~dbClosed
    /\ dbClosed' = TRUE
    /\ word' = [c \in Cfs |-> "closed"]
    /\ UNCHANGED <<ops, savepoints, writing, applied, next, failures,
                   discarded, ignored, refused>>

Next == \/ \E o \in Owners :
              \/ \E cf \in Families : PutBatch(o, cf)
              \/ BatchSetSavePoint(o) \/ BatchRollbackToSavePoint(o) \/ ClearBatch(o)
              \/ WriteBatchClears(o)
              \/ \E b \in BOOLEAN : \/ WriteBatch(o, b) \/ WriteBatchFails(o, b)
                                    \/ \E n \in 1..MaxList : \E l \in [1..n -> Actions] : Write(o, l, b)
        \/ \E c \in Cfs : DropColumnFamily(c)
        \/ Close

Spec == Init /\ [][Next]_vars

-----------------------------------------------------------------------------
(* Properties *)

\* Every variable has the values the code can give it.
TypeOK == /\ \A o \in Owners : /\ ops[o] \in Seq(Updates)
                              /\ savepoints[o] \in Seq(0..MaxUpdates)
          /\ writing \in [Owners -> BOOLEAN]
          /\ word \in [Cfs -> {"open", "dropped", "closed"}]
          /\ dbClosed \in BOOLEAN
          /\ applied \in Seq(Updates)
          /\ next \in 1..(MaxUpdates + 1)
          /\ failures \in 0..MaxFailures
          /\ discarded \cup ignored \cup refused \subseteq 1..MaxUpdates

Held == UNION {Ids(ops[o]) : o \in {p \in Owners : ~writing[p]}}

\* An update that was answered ok is at every moment in one place and in one
\* only: in its batch, in the database, or given up for a reason its owner
\* was told or asked for.  A failed write_batch gives nothing up, a successful
\* one keeps nothing back, and of a list that write/3 refuses nothing is
\* written, although the items before the bad one went into a batch.
EveryUpdateIsAccountedFor ==
    LET places == <<Held, Ids(applied), discarded, ignored, refused>>
    IN  /\ UNION ToSet(places) = 1..(next - 1)
        /\ \A i, j \in DOMAIN places : i # j => places[i] \cap places[j] = {}

\* The updates of a batch reach the database once each and in the order they
\* were put, whatever was rolled back, tried again or written next to it.
AppliedOnceInOrder ==
    \A i, j \in DOMAIN applied :
        i < j /\ applied[i].by = applied[j].by => applied[i].id < applied[j].id

\* A savepoint never points past the updates of its batch, and a later one
\* never before an earlier one: a rollback takes back what came after it and
\* brings back nothing that was written or cleared.
SavepointsFit ==
    \A o \in Owners : \A i \in DOMAIN savepoints[o] :
        /\ savepoints[o][i] <= Len(ops[o])
        /\ \A j \in DOMAIN savepoints[o] : i < j => savepoints[o][i] <= savepoints[o][j]
=============================================================================
