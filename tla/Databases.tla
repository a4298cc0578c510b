------------------------------ MODULE Databases ------------------------------
(***************************************************************************)
(* Directories of databases and the handles that open them, one after the  *)
(* other: open, open_with_cf, close, destroy, checkpoint, column families, *)
(* and a crash of the emulator in between (c_src/erocksdb.cc,              *)
(* c_src/erocksdb_column_family.cc, used as test/db.erl, test/cleanup.erl, *)
(* test/column_family.erl and test/checkpoint.erl do).                     *)
(*                                                                         *)
(* close/1 answers before the database is closed when a NIF, or an object  *)
(* made meanwhile, still holds a reference; RocksDB keeps the LOCK file of *)
(* the directory until the destructor has run.  So whether an open or a    *)
(* destroy succeeds depends on what became of the handle before.           *)
(*                                                                         *)
(* ErlRefObject and DbLifecycle show in finer steps that a handle keeps    *)
(* the promise of Handle to those who borrow it in time.  Here the test of *)
(* a close word, the reference and the call of RocksDB with the return are *)
(* steps of their own, and so are the constructor of an object and the     *)
(* reference its creator takes; what matters is who holds a reference, not *)
(* the count.  So a thread may come late, when the last reference was      *)
(* given back already, and Shutdown may close an object before its         *)
(* creation is over, which is then never destroyed.  What a call does      *)
(* whose database or object is freed is undefined: it returns without      *)
(* effect, or the emulator dies, as it may at any time (Crash).            *)
(*                                                                         *)
(* The wait of a collection for the destructor is left to DbLifecycle.     *)
(* Databases in memory, which have no directory, are left out.             *)
(***************************************************************************)
EXTENDS Integers, Sequences, FiniteSets, SequencesExt, FiniteSetsExt

CONSTANTS Threads,
          NumHandles,     \* bound on successful opens
          Opens,          \* the calls of open: [path, options, families]
          Families,       \* names of column families, without "default"
          Copy,           \* where checkpoints go
          None,
          MaxPuts

Handles == 1..NumHandles
Paths   == {call.path : call \in Opens} \cup {Copy}
Flags   == {"create_if_missing", "create_missing_column_families", "error_if_exists"}

ASSUME BoundsAreNaturals == {NumHandles, MaxPuts} \subseteq Nat
ASSUME NoneIsNothing == None \notin Handles /\ None \notin Paths
ASSUME ItrIsNoFamily == "itr" \notin Families
ASSUME OpensNameFamilies == \A call \in Opens : call.families \in Seq(Families \cup {"default"})
ASSUME OptionsAreLists   == \A call \in Opens : call.options \in Seq(Range(call.options))

VARIABLES files,      \* each directory: [exists, families, data]
          lock,       \* the handle that has the LOCK file of a directory
          word,       \* each handle: "none", "open", "closing", "deleted"
          path,       \* what it opened
          objs,       \* the objects not yet destroyed: [db, name]
          closed,     \* those of them whose close was requested
          afterClose, \* history: those whose creation ended, or will end,
                      \* after the close of their database was requested
          late,       \* history: threads and objects with a reference on a
                      \* database that had lost its last one before
          pc,         \* what each thread does
          acked,      \* history: the writes answered ok, per directory
          puts

vars == <<files, lock, word, path, objs, closed, afterClose, late, pc, acked, puts>>
storage == <<files, lock, acked, puts>>
objects == <<objs, closed, afterClose>>

-----------------------------------------------------------------------------

Missing == [exists |-> FALSE, families |-> {}, data |-> {}]
Idle == [at |-> "idle"]

Obj(h, name) == [db |-> h, name |-> name]
IsItr(o) == o.name = "itr"
ObjectsOf(h) == {o \in objs : o.db = h}

\* The places with a reference on the database: of enif_get_db, of the object
\* that is used or dropped, of the creator, or that of the database's own
\* creation, which Close has while it runs Shutdown.
Borrowing == {"using", "retrieving", "creating", "dropping", "shutdown"}
Borrows(t, h) == pc[t].at \in Borrowing /\ pc[t].db = h

\* The threads that can keep an object from being destroyed: they have a
\* reference on it, or they are about to take that of its creation.
Uses(t, o)    == pc[t].at \in {"using", "dropping"} /\ pc[t].obj = o
Creates(t, o) == pc[t].at = "creating" /\ pc[t].obj = o
BorrowsObject(t, o) == Uses(t, o) \/ Creates(t, o)

Holders(h) == {t \in Threads : Borrows(t, h)} \cup ObjectsOf(h)

Deletes(t, h) == pc[t] = [at |-> "deleting", db |-> h]

\* A reference that is taken now is in time: the database is open, or has not
\* lost its last one.
Admits(h) == word[h] = "open" \/ Holders(h) \ late # {}

Init == /\ files = [p \in Paths |-> Missing]
        /\ lock = [p \in Paths |-> None]
        /\ word = [h \in Handles |-> "none"]
        /\ path = [h \in Handles |-> None]
        /\ objs = {} /\ closed = {} /\ afterClose = {} /\ late = {}
        /\ pc = [t \in Threads |-> Idle]
        /\ acked = [p \in Paths |-> {}]
        /\ puts = 0

-----------------------------------------------------------------------------
(* Opening *)

\* Deviation: a flag that is set stays set.
ParseDbOptionSetsOnly(opts, item) ==
    IF item.key \in Flags /\ item.value = "true" THEN [opts EXCEPT ![item.key] = TRUE] ELSE opts

\* parse_db_option.  A flag is set by the atom true and cleared by any other
\* term; an item that is no pair, or of another name, says nothing of the
\* flags.
ParseDbOption(opts, item) ==
    IF item.key \in Flags THEN [opts EXCEPT ![item.key] = (item.value = "true")] ELSE opts

\* fold(env, argv[1], parse_db_option, *opts)
Parse(options) ==
    LET upTo[n \in 0..Len(options)] ==
            IF n = 0 THEN [f \in Flags |-> FALSE] ELSE ParseDbOption(upTo[n - 1], options[n])
    IN  upTo[Len(options)]

\* open/3 knows the default family only, open_with_cf/4 those of its list.
WithCf(call) == call.families # <<>>
Named(call)  == IF WithCf(call) THEN Range(call.families) ELSE {"default"}

\* DBWithTTL::Open, on files.
RocksOpens(call, opts) ==
    LET dir == files[call.path] IN
    /\ lock[call.path] = None
    /\ "default" \in Named(call)
    /\ IF dir.exists THEN ~opts["error_if_exists"] /\ dir.families \subseteq Named(call)
                     ELSE opts["create_if_missing"]
    /\ Named(call) \ (dir.families \cup {"default"}) # {} => opts["create_missing_column_families"]

FirstUnused == Min({h \in Handles : word[h] = "none"})

\* Open and OpenWithCf.  Their parsing touches nothing that is shared.  When
\* RocksDB refuses, the answer is {error, {db_open, _}} and nothing changes;
\* else CreateDbObject, and CreateColumnFamilyObject for each family of the
\* list.
Open(t, call) ==
    LET h    == FirstUnused
        made == {Obj(h, name) : name \in Range(call.families)}
    IN  /\ pc[t] = Idle
        /\ \E opts \in {Parse(call.options)} : RocksOpens(call, opts)
        /\ \E g \in Handles : word[g] = "none"
        /\ word' = [word EXCEPT ![h] = "open"]
        /\ path' = [path EXCEPT ![h] = call.path]
        /\ files' = [files EXCEPT ![call.path].exists = TRUE,
                                  ![call.path].families = @ \cup Named(call)]
        /\ lock' = [lock EXCEPT ![call.path] = h]
        /\ objs' = objs \cup made
        /\ UNCHANGED <<closed, afterClose, late, pc, acked, puts>>

-----------------------------------------------------------------------------
(* Giving references back *)

\* Deviation: only Close deletes the database.
ReturnWithoutDeleting(t, h, left) ==
    pc' = [pc EXCEPT ![t] =
              IF pc[t].at = "shutdown" /\ Holders(h) = {t} /\ \A o \in left : o.db # h
              THEN [at |-> "deleting", db |-> h] ELSE Idle]

\* RefDec: who gives the last reference on h back, its own or that of the
\* last object, runs ~DbObject, unless somebody was elected for that before.
Return(t, h, left) ==
    pc' = [pc EXCEPT ![t] =
              IF /\ word[h] = "closing"
                 /\ \A u \in Threads \ {t} : ~Borrows(u, h) /\ ~Deletes(u, h)
                 /\ \A o \in left : o.db # h
              THEN [at |-> "deleting", db |-> h] ELSE Idle]

\* Deviation: an object is destroyed when its close is requested.
DestroyedAtOnce(t, more) == objs \cap (closed \cup more)

\* What t destroys when it closes the objects of more and gives its own
\* references back: those of them that were closed and that nobody else has.
Destroyed(t, more) ==
    {o \in objs : /\ o \in more \/ (o \in closed /\ Uses(t, o))
                  /\ \A u \in Threads \ {t} : ~BorrowsObject(u, o)}

CloseAll(t, more) ==
    LET left == objs \ Destroyed(t, more)
    IN  /\ objs' = left
        /\ closed' = (closed \cup more) \cap left
        /\ afterClose' = afterClose \cap left

\* t returns, having closed the objects of more.
Finish(t, h, more) ==
    /\ CloseAll(t, more)
    /\ late' = late \ ({t} \cup Destroyed(t, more))
    /\ Return(t, h, objs \ Destroyed(t, more))

-----------------------------------------------------------------------------
(* NIFs on an open database *)

At(t, place, h, o) == pc' = [pc EXCEPT ![t] = [at |-> place, db |-> h, obj |-> o]]

\* A process has a term of o, and its close word is 0.
Usable(o) == o \in objs \ closed /\ \A u \in Threads : ~Creates(u, o)

\* A running call has o as an argument.
HasArgument(t, o) == pc[t].at \in {"retrieved", "retrieving", "using", "toDrop", "dropping"} /\ pc[t].obj = o

\* RetrieveDbObject
Borrow(t, h) ==
    /\ pc[t] = Idle
    /\ word[h] = "open"
    /\ At(t, "retrieved", h, None)
    /\ UNCHANGED <<storage, word, path, objects, late>>

\* RetrieveItrObject looks at two close words.
BorrowObject(t, o) ==
    /\ pc[t] = Idle
    /\ IsItr(o) /\ Usable(o) /\ word[o.db] = "open"
    /\ At(t, "retrieved", o.db, o)
    /\ UNCHANGED <<storage, word, path, objects, late>>

\* A put to a family has borrowed the database already.
BorrowFamily(t, o) ==
    /\ pc[t].at = "using" /\ pc[t].obj = None
    /\ ~IsItr(o) /\ Usable(o) /\ o.db = pc[t].db
    /\ At(t, "retrieving", o.db, o)
    /\ UNCHANGED <<storage, word, path, objects, late>>

\* DropColumnFamily looks at the close word of the family alone.
BeginDrop(t, o) ==
    /\ pc[t] = Idle
    /\ ~IsItr(o) /\ Usable(o)
    /\ At(t, "toDrop", o.db, o)
    /\ UNCHANGED <<storage, word, path, objects, late>>

\* The reference on what was retrieved, ReferencePtr::assign.
Assign(t) ==
    LET h == pc[t].db
        o == pc[t].obj
    IN  /\ pc[t].at \in {"retrieved", "retrieving", "toDrop"}
        /\ IF o = None THEN word[h] # "deleted" ELSE o \in objs
        /\ At(t, IF pc[t].at = "toDrop" THEN "dropping" ELSE "using", h, o)
        /\ late' = late \cup {u \in {t} : IF o = None THEN ~Admits(h) ELSE o \in late}
        /\ UNCHANGED <<storage, word, path, objects>>

\* Too late: enif_get_db finds m_Db NULL, or the object is freed.
AssignFails(t) ==
    LET h == pc[t].db
        o == pc[t].obj
    IN  /\ pc[t].at \in {"retrieved", "retrieving", "toDrop"}
        /\ IF o = None THEN word[h] = "deleted" ELSE o \notin objs
        /\ IF pc[t].at = "retrieving"
           THEN Finish(t, h, {})
           ELSE pc' = [pc EXCEPT ![t] = Idle] /\ UNCHANGED <<objects, late>>
        /\ UNCHANGED <<storage, word, path>>

\* RocksDB's database is still there.
Works(t) == word[pc[t].db] # "deleted"

\* RocksDB refuses to drop the default family, or one dropped already.
Droppable(o) == o.name \in files[path[o.db]].families \ {"default"}

\* A call that changes nothing: a read, a flush, an iterator_move, or one that
\* RocksDB refuses.
Read(t) ==
    /\ pc[t].at = "using" \/ (pc[t].at = "dropping" /\ (Works(t) => ~Droppable(pc[t].obj)))
    /\ Finish(t, pc[t].db, {})
    /\ UNCHANGED <<storage, word, path>>

\* Put.  Work on a database deleted meanwhile is lost.
Put(t) ==
    LET h     == pc[t].db
        p     == path[h]
        write == [id |-> puts + 1, cf |-> IF pc[t].obj = None THEN "default" ELSE pc[t].obj.name]
    IN  /\ pc[t].at = "using" /\ puts < MaxPuts
        /\ t \in late => Works(t)
        /\ write.cf \in files[p].families
        /\ puts' = puts + 1
        /\ files' = [files EXCEPT ![p].data = IF Works(t) THEN @ \cup {write} ELSE @]
        /\ acked' = [acked EXCEPT ![p] = @ \cup {write}]
        /\ Finish(t, h, {})
        /\ UNCHANGED <<lock, word, path>>

\* The constructor of o lists it and takes o's reference on the database.
Construct(t, o) ==
    /\ pc[t].at = "using" /\ pc[t].obj = None /\ Works(t)
    /\ o \notin objs /\ \A u \in Threads : ~HasArgument(u, o)
    /\ objs' = objs \cup {o}
    /\ afterClose' = afterClose \cup IF word[o.db] = "open" THEN {} ELSE {o}
    /\ late' = late \cup IF t \in late THEN {o} ELSE {}
    /\ At(t, "creating", o.db, o)
    /\ UNCHANGED <<closed, word, path>>

\* Iterator, as far as the constructor of the ItrObject.
Iterator(t) == Construct(t, Obj(pc[t].db, "itr")) /\ UNCHANGED storage

CreateColumnFamily(t, name) ==
    LET h == pc[t].db IN
    /\ Construct(t, Obj(h, name))
    /\ name \notin files[path[h]].families
    /\ files' = [files EXCEPT ![path[h]].families = @ \cup {name}]
    /\ UNCHANGED <<lock, acked, puts>>

\* RefInc, the reference of creation, and the end of the call.  An object
\* that Shutdown closed meanwhile has its count back at 0, and stays.
Created(t) ==
    /\ pc[t].at = "creating"
    /\ Finish(t, pc[t].db, {})
    /\ UNCHANGED <<storage, word, path>>

DropColumnFamily(t) ==
    LET o == pc[t].obj
        p == path[o.db]
        Others(writes) == {w \in writes : w.cf # o.name}
    IN  /\ pc[t].at = "dropping" /\ Works(t)
        /\ Droppable(o)
        /\ files' = [files EXCEPT ![p].families = @ \ {o.name}, ![p].data = Others(@)]
        /\ acked' = [acked EXCEPT ![p] = Others(@)]
        /\ Finish(t, o.db, {o})
        /\ UNCHANGED <<lock, puts, word, path>>

\* A copy of the directory as it is, without the LOCK file.
Checkpoint(t) ==
    LET p == path[pc[t].db] IN
    /\ pc[t].at = "using" /\ pc[t].obj = None /\ Works(t)
    /\ p # Copy /\ ~files[Copy].exists
    /\ files' = [files EXCEPT ![Copy] = files[p]]
    /\ acked' = [acked EXCEPT ![Copy] = acked[p]]
    /\ Finish(t, pc[t].db, {})
    /\ UNCHANGED <<lock, puts, word, path>>

-----------------------------------------------------------------------------
(* Closing *)

\* InitiateCloseRequest on an object: IteratorClose, or the collection of its
\* term, which no running call has as an argument.
CloseObject(t, o) ==
    /\ pc[t] = Idle
    /\ Usable(o)
    /\ IsItr(o) \/ \A u \in Threads : ~HasArgument(u, o)
    /\ Finish(t, o.db, {o})
    /\ UNCHANGED <<storage, word, path>>

\* InitiateCloseRequest on h: Close, or the collection of its term.
Close(t, h) ==
    /\ pc[t] = Idle /\ word[h] = "open"
    /\ word' = [word EXCEPT ![h] = "closing"]
    /\ pc' = [pc EXCEPT ![t] = [at |-> "shutdown", db |-> h, list |-> "iterators"]]
    /\ afterClose' = afterClose \cup {o \in ObjectsOf(h) : \E u \in Threads : Creates(u, o)}
    /\ UNCHANGED <<storage, path, objs, closed, late>>

\* What is in the list that Shutdown is at: an object closed before may be in
\* it still, but closing it again does nothing.
Listed(t) == {o \in ObjectsOf(pc[t].db) \ closed : IsItr(o) <=> pc[t].list = "iterators"}

\* DbObject::Shutdown pops an object and closes it.
ShutdownCloses(t, o) ==
    /\ pc[t].at = "shutdown" /\ o \in Listed(t)
    /\ CloseAll(t, {o})
    /\ late' = late \ Destroyed(t, {o})
    /\ UNCHANGED <<storage, word, path, pc>>

\* Deviation: Shutdown leaves out the families.
ShutdownEndsEarly(t) ==
    /\ pc[t].at = "shutdown" /\ Listed(t) = {}
    /\ Finish(t, pc[t].db, {})
    /\ UNCHANGED <<storage, word, path>>

ShutdownGoesOn(t) ==
    /\ pc[t].at = "shutdown" /\ pc[t].list = "iterators" /\ Listed(t) = {}
    /\ pc' = [pc EXCEPT ![t].list = "families"]
    /\ UNCHANGED <<storage, word, path, objects, late>>

\* Deviation: the reference of creation is taken for the last one.
ShutdownDeletes(t) ==
    /\ pc[t].at = "shutdown" /\ pc[t].list = "families" /\ Listed(t) = {}
    /\ pc' = [pc EXCEPT ![t] = [at |-> "deleting", db |-> pc[t].db]]
    /\ UNCHANGED <<storage, word, path, objects, late>>

\* The RefDec at its end.
ShutdownEnds(t) ==
    /\ pc[t].at = "shutdown" /\ pc[t].list = "families" /\ Listed(t) = {}
    /\ Finish(t, pc[t].db, {})
    /\ UNCHANGED <<storage, word, path>>

\* ~DbObject: RocksDB gives the LOCK file up.
DeleteDb(t) ==
    LET h == pc[t].db IN
    /\ pc[t].at = "deleting"
    /\ word' = [word EXCEPT ![h] = "deleted"]
    /\ lock' = [lock EXCEPT ![path[h]] = None]
    /\ pc' = [pc EXCEPT ![t] = Idle]
    /\ UNCHANGED <<files, acked, puts, path, objects, late>>

-----------------------------------------------------------------------------

\* Destroy, when nobody has the LOCK file.
Destroy(t, p) ==
    /\ pc[t] = Idle
    /\ files[p].exists /\ lock[p] = None
    /\ files' = [files EXCEPT ![p] = Missing]
    /\ acked' = [acked EXCEPT ![p] = {}]
    /\ UNCHANGED <<lock, puts, word, path, objects, late, pc>>

\* The emulator dies; the operating system drops its locks.  The processes
\* and handles after it are new ones.
Crash ==
    /\ word' = [h \in Handles |-> IF word[h] = "none" THEN "none" ELSE "deleted"]
    /\ lock' = [p \in Paths |-> None]
    /\ objs' = {} /\ closed' = {} /\ afterClose' = {} /\ late' = {}
    /\ pc' = [t \in Threads |-> Idle]
    /\ UNCHANGED <<files, acked, puts, path>>

-----------------------------------------------------------------------------

Use(t) == Read(t) \/ Put(t) \/ Iterator(t) \/ DropColumnFamily(t) \/ Checkpoint(t)
          \/ \E name \in Families : CreateColumnFamily(t, name)

\* What a thread does once it is in a NIF.
InCall(t) == Assign(t) \/ AssignFails(t) \/ Use(t) \/ Created(t) \/ ShutdownGoesOn(t)
             \/ ShutdownEnds(t) \/ DeleteDb(t) \/ \E o \in objs : ShutdownCloses(t, o)

Next == \/ \E t \in Threads :
              \/ InCall(t)
              \/ \E call \in Opens : Open(t, call)
              \/ \E h \in Handles : Borrow(t, h) \/ Close(t, h)
              \/ \E o \in objs : \/ BorrowObject(t, o) \/ BorrowFamily(t, o)
                                 \/ BeginDrop(t, o) \/ CloseObject(t, o)
              \/ \E p \in Paths : Destroy(t, p)
        \/ Crash

Spec == Init /\ [][Next]_vars

AllObjects == [db : Handles, name : {"itr", "default"} \cup Families]

ASSUME ObjectsAreThemselves == AllObjects \cap (Threads \cup {None}) = {}

\* Threads inside a NIF run.
Fairness == \A t \in Threads : WF_vars(InCall(t))

FairSpec == Spec /\ Fairness

-----------------------------------------------------------------------------
(* Properties *)

\* Every variable has the values the code can give it, and an object exists
\* while a NIF works on it.
TypeOK == /\ \A p \in Paths : /\ files[p].exists \in BOOLEAN
                              /\ files[p].families \subseteq Families \cup {"default"}
                              /\ lock[p] \in Handles \cup {None}
          /\ word \in [Handles -> {"none", "open", "closing", "deleted"}]
          /\ path \in [Handles -> Paths \cup {None}]
          /\ objs \subseteq AllObjects /\ closed \cup afterClose \subseteq objs
          /\ late \subseteq Threads \cup objs
          /\ \A t \in Threads : /\ pc[t].at \in {"idle", "retrieved", "toDrop", "deleting"} \cup Borrowing
                                /\ pc[t].at \in {"using", "creating", "dropping"} => pc[t].obj \in objs \cup {None}
          /\ puts \in 0..MaxPuts

\* A directory stays locked after a close only for the sake of a NIF that is
\* still inside, of an object that was made, or was being made, when the
\* close came, or of the thread that closes it: who alone uses a database can
\* destroy or reopen it as soon as close/1 has answered, whatever objects it
\* left open.  And a locked directory is that of the one handle which is open
\* on it.
LockIsHeldForAReason ==
    /\ \A h \in Handles :
         /\ word[h] = "closing" => \/ \E t \in Threads : Borrows(t, h)
                                   \/ ObjectsOf(h) \cap afterClose # {}
                                   \/ \E t \in Threads : Deletes(t, h)
         /\ word[h] \in {"open", "closing"} => lock[path[h]] = h
    /\ \A p \in Paths : lock[p] # None => path[lock[p]] = p /\ word[lock[p]] \in {"open", "closing"}

\* A write that was answered ok is in the files of its directory, whatever
\* closes, reopens, checkpoints and crashes came later, until the directory
\* is destroyed or its family dropped.  (Not so the write of a caller who came
\* late to a database that is deleted: whether it is answered is undefined,
\* and Put leaves it out.)
AcknowledgedWritesSurvive == \A p \in Paths : acked[p] \subseteq files[p].data

\* An open that succeeds obeyed the last setting of each flag in the caller's
\* list: it did not take over a database with error_if_exists, and made
\* none, nor a family, without the permission for that.
LastSetting(options, flag) ==
    LET given == {i \in DOMAIN options : options[i].key = flag}
    IN  given # {} /\ options[Max(given)].value = "true"

Obeyed(call) ==
    LET dir == files[call.path] IN
    /\ dir.exists => ~LastSetting(call.options, "error_if_exists")
    /\ ~dir.exists => LastSetting(call.options, "create_if_missing")
    /\ files'[call.path].families # dir.families \cup {"default"} =>
           LastSetting(call.options, "create_missing_column_families")

OpensObeyTheirOptions ==
    [][\A t \in Threads, call \in Opens :
          Open(t, call) => Obeyed(call)]_vars

\* Every handle, opened on the same directory or on another, keeps the promise
\* of Handle until the emulator dies, to threads and objects alike that came
\* in time.
HandleState(h) == CASE word[h] \in {"none", "open"} -> "open"
                    [] word[h] = "deleted"          -> "closed"
                    [] OTHER                        -> "closing"

Promise(h) == INSTANCE Handle WITH Users <- Threads \cup {o \in AllObjects : o.db = h},
                                   state <- HandleState(h),
                                   users <- Holders(h) \ late

EveryHandleKeepsItsPromise ==
    [][\A h \in Handles :
          word[h] # "none" /\ ~Crash => [Promise(h)!Next]_<<HandleState(h), Holders(h) \ late>>]_vars

\* A closed database lets go of its directory in the end, but for the time
\* that objects keep it whose creation the close came upon: those Shutdown
\* did not find, until a process closes them, and those it found too early,
\* for ever.
ReopenBecomesPossible ==
    \A h \in Handles :
        []<>((\A p \in Paths : lock[p] = h => word[h] = "open") \/ ObjectsOf(h) \cap afterClose # {})
=============================================================================
