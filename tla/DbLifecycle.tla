----------------------------- MODULE DbLifecycle -----------------------------
(***************************************************************************)
(* A database handle and the objects that live off it: iterators,          *)
(* snapshots, column families and transaction log iterators, with the      *)
(* reference counts and the lists that tie them together                   *)
(* (c_src/refobjects.cc) and the NIFs that create, use, close and release  *)
(* them.                                                                   *)
(*                                                                         *)
(* Closing is nested: Close runs Shutdown of the database, which closes    *)
(* each object of its lists, whose last RefDec runs its destructor, whose  *)
(* members give back references on other handles, and so on.  A thread is  *)
(* therefore the list of what it has still to do, todo[t]: each step does  *)
(* the first entry and may put others in front of the rest, which is what  *)
(* the call stack of the code does.                                        *)
(*                                                                         *)
(* A NIF first reads the close word (RetrieveXxxObject) and takes its      *)
(* reference in a step of its own (ReferencePtr::assign), so that a close  *)
(* and a destructor may come between: the call is late then.               *)
(*                                                                         *)
(* ErlRefObject models one handle in finer steps.  Here the test with the  *)
(* swap of InitiateCloseRequest, RefDec with its swap, and each operation  *)
(* on a list under its mutex, are one step each.                           *)
(***************************************************************************)
EXTENDS Integers, FiniteSets, Sequences, SequencesExt, FiniteSetsExt

CONSTANTS Threads,
          Db,                          \* the database handle
          Itrs, Snaps, Cfs, TLogs,     \* the objects of each kind
          Existing,                    \* objects created before the run starts
          NoCf,
          CfOf                         \* the column family of each iterator

Objects == Itrs \cup Snaps \cup Cfs \cup TLogs
Handles == {Db} \cup Objects

ASSUME SetsAreFinite == IsFiniteSet(Threads) /\ IsFiniteSet(Objects)
ASSUME CfOfType == CfOf \in [Itrs -> Cfs \cup {NoCf}] /\ NoCf \notin Cfs
ASSUME ExistingType ==
    /\ Existing \subseteq Objects
    /\ \A i \in Itrs \cap Existing : CfOf[i] \in Existing \cup {NoCf}
ASSUME KindsAreDistinct ==
    /\ Db \notin Objects
    /\ Threads \cap Handles = {}
    /\ Itrs \cap Snaps = {} /\ Itrs \cap Cfs = {} /\ Itrs \cap TLogs = {}
    /\ Snaps \cap Cfs = {} /\ Snaps \cap TLogs = {} /\ Cfs \cap TLogs = {}

VARIABLES life,        \* "absent", "live", "collecting" or "freed", per handle
          terms,       \* the handles Erlang processes have a term of
          closeReq,    \* m_CloseRequested
          refs,        \* m_RefCount
          linked,      \* the objects in the lists of Db and of the column families
          mDb,         \* "open" or "deleted"
          released,    \* how often RocksDB was told to release the snapshot
          dropped,     \* the column families dropped in RocksDB
          crashed,     \* the emulator died on a bad pointer
          todo,        \* what each thread has still to do
          args,        \* the terms that the running call keeps alive
          retrieved,   \* the handle that a call has found open, before its reference
          late         \* the calls whose reference, and the objects whose
                       \* construction, came after the destructor had begun

vars == <<life, terms, closeReq, refs, linked, mDb, released, dropped,
          crashed, todo, args, retrieved, late>>

-----------------------------------------------------------------------------

Owners == {Db} \cup Cfs

Kind(list) == CASE list = "itrs" -> Itrs [] list = "snaps" -> Snaps
                [] list = "cfs" -> Cfs [] list = "tlogs" -> TLogs

OnCf(o) == o \in Itrs /\ CfOf[o] # NoCf

Operations == {"use", "retrieveCf", "construct", "link", "linkCf", "refInc", "refDec",
               "initiate", "itrs", "snaps", "cfs", "tlogs", "unlink", "unlinkCf",
               "deleteDb", "done", "release", "drop", "testSnapshot", "await",
               "retrieveSnapshot", "assign"}

Pending == UNION {ToSet(todo[t]) : t \in Threads}
Idle(t) == retrieved[t] = {} /\ todo[t] = <<>>
At(t, op, h) == todo[t] # <<>> /\ Head(todo[t]) = <<op, h>>

\* The first entry is done, and entries comes before the rest.
Go(t, entries) ==
    /\ todo' = [todo EXCEPT ![t] = entries \o Tail(@)]
    /\ args' = [args EXCEPT ![t] = IF todo'[t] = <<>> THEN {} ELSE @]
    /\ UNCHANGED retrieved

Then(t, entries) == /\ Go(t, entries)
                    /\ late' = IF todo'[t] = <<>> THEN late \ {t} ELSE late

\* A call starts that takes no reference: the caller has the terms of the
\* handles hs.
Call(t, hs, entries) ==
    /\ Idle(t)
    /\ hs \subseteq terms
    /\ todo' = [todo EXCEPT ![t] = entries]
    /\ args' = [args EXCEPT ![t] = hs]
    /\ UNCHANGED <<retrieved, late>>

\* Deviation: Shutdown forgets the column families.
ShutdownWithoutCfs(h) ==
    (IF h = Db THEN << <<"itrs", h>>, <<"snaps", h>>, <<"tlogs", h>> >>
     ELSE IF h \in Cfs THEN << <<"itrs", h>> >>
     ELSE << >>) \o << <<"refDec", h>> >>

\* Deviation: the objects' Shutdown keeps the creation reference.
ShutdownWithoutRefDec(h) ==
    IF h = Db THEN << <<"itrs", h>>, <<"snaps", h>>, <<"cfs", h>>, <<"tlogs", h>>,
                      <<"refDec", h>> >>
    ELSE IF h \in Cfs THEN << <<"itrs", h>> >>
    ELSE << >>

\* What Shutdown does, list by list, before it gives the creation reference
\* back.
ShutdownOf(h) ==
    (IF h = Db THEN << <<"itrs", h>>, <<"snaps", h>>, <<"cfs", h>>, <<"tlogs", h>> >>
     ELSE IF h \in Cfs THEN << <<"itrs", h>> >>
     ELSE << >>) \o << <<"refDec", h>> >>

\* Deviation: m_ColumnFamilyPtr is a pointer that never gives its reference back.
DestructorKeepsCf(h) ==
    (IF h = Db THEN << <<"deleteDb", Db>> >>
     ELSE << <<"unlink", h>> >>
          \o (IF OnCf(h) THEN << <<"unlinkCf", h>> >> ELSE << >>)
          \o << <<"refDec", Db>> >>)
    \o << <<"done", h>> >>

\* What a destructor does: its body, its members, ~ErlRefObject.
DestructorOf(h) ==
    (IF h = Db THEN << <<"deleteDb", Db>> >>
     ELSE << <<"unlink", h>> >>
          \o (IF OnCf(h) THEN << <<"unlinkCf", h>> >> ELSE << >>)
          \o << <<"refDec", Db>> >>
          \o (IF OnCf(h) THEN << <<"refDec", CfOf[h]>> >> ELSE << >>))
    \o << <<"done", h>> >>

Init ==
    /\ life = [h \in Handles |-> IF h \in Existing \cup {Db} THEN "live" ELSE "absent"]
    /\ terms = Existing \cup {Db}
    /\ closeReq = [h \in Handles |-> 0]
    /\ refs = [h \in Handles |->
                 IF h = Db THEN 1 + Cardinality(Existing)
                 ELSE IF h \in Cfs \cap Existing
                      THEN 1 + Cardinality({i \in Itrs \cap Existing : CfOf[i] = h})
                 ELSE IF h \in Existing THEN 1 ELSE 0]
    /\ linked = [w \in Owners |->
                   IF w = Db THEN Existing
                   ELSE {i \in Itrs \cap Existing : CfOf[i] = w}]
    /\ mDb = "open"
    /\ released = [s \in Snaps |-> 0]
    /\ dropped = {}
    /\ crashed = FALSE
    /\ todo = [t \in Threads |-> <<>>]
    /\ args = [t \in Threads |-> {}]
    /\ retrieved = [t \in Threads |-> {}]
    /\ late = {}

-----------------------------------------------------------------------------
(* The NIFs.  A call on a handle whose close was requested returns badarg   *)
(* (ReleaseSnapshot: ok) and changes nothing.                               *)

\* RetrieveXxxObject: a NIF that has the terms hs finds h open.
Retrieve(t, h, hs) ==
    /\ Idle(t)
    /\ hs \subseteq terms
    /\ closeReq[h] = 0
    /\ retrieved' = [retrieved EXCEPT ![t] = {h}]
    /\ args' = [args EXCEPT ![t] = hs]
    /\ UNCHANGED <<life, terms, closeReq, refs, linked, mDb, released, dropped,
                   crashed, todo, late>>

\* The NIFs on a database; some have a snapshot or a column family with it.
RetrieveDbObject(t)          == Retrieve(t, Db, {Db})
RetrieveDbObjectWith(t, x)   == /\ x \in Snaps \cup {CfOf[i] : i \in Itrs}
                                /\ Retrieve(t, Db, {Db, x})

\* RetrieveItrObject wants the database not to be closing, either.
RetrieveItrObject(t, i)      == closeReq[Db] = 0 /\ Retrieve(t, i, {i})

RetrieveObject(t, o)         == o \notin Itrs /\ Retrieve(t, o, {o})

\* ReferencePtr::assign on the pointer retrieved; the work of the NIF follows,
\* and the reference is given back.
Assign(t, h, work) ==
    /\ retrieved[t] = {h}
    /\ retrieved' = [retrieved EXCEPT ![t] = {}]
    /\ refs' = [refs EXCEPT ![h] = @ + 1]
    /\ late' = IF closeReq[h] >= 2 \/ h \in late THEN late \cup {t} ELSE late
    /\ todo' = [todo EXCEPT ![t] = work \o << <<"refDec", h>> >>]
    /\ UNCHANGED <<life, terms, closeReq, linked, mDb, released, dropped, crashed, args>>

\* enif_get_db, with the reference: m_Db is NULL after the destructor.
AssignDb(t, work) == closeReq[Db] # 3 /\ Assign(t, Db, work)

\* m_Db is NULL, an option is bad, or RocksDB refuses.
FailOnDb(t) == Assign(t, Db, <<>>)

\* Get, Put, Delete, Write, Flush, Status...
UseDb(t) == args[t] = {Db} /\ AssignDb(t, << <<"use", Db>> >>)

\* IteratorMove, NextBinaryUpdate and its like, SetColumnFamilyTTL,
\* GetColumnFamilyTTL, CompactColumnFamily (enif_get_cf).
Use(t, o) == o \in Objects \ Snaps /\ Assign(t, o, << <<"use", o>> >>)

\* Get and Iterator with a snapshot.
ReadSnapshot(t, s) == s \in args[t] /\ AssignDb(t, << <<"retrieveSnapshot", s>> >>)

\* A NIF that creates o: it holds a reference on the database meanwhile.
Create(t, o, entries) ==
    /\ life[o] = "absent"
    /\ \A u \in Threads : <<"construct", o>> \notin ToSet(todo[u])
    /\ AssignDb(t, entries \o << <<"refInc", o>> >>)

CreateAlone(t, o) ==
    args[t] = {Db} /\ Create(t, o, << <<"construct", o>>, <<"link", o>> >>)

Iterator(t, i)           == ~OnCf(i) /\ CreateAlone(t, i)
GetSnapshot(t, s)        == CreateAlone(t, s)
CreateColumnFamily(t, c) == CreateAlone(t, c)
UpdatesIterator(t, l)    == CreateAlone(t, l)

\* One iterator of those that Iterators makes: the NIF borrows each column
\* family for one turn of its first loop only.
Iterators(t, i) ==
    /\ OnCf(i) /\ CfOf[i] \in args[t]
    /\ Create(t, i, << <<"retrieveCf", CfOf[i]>>, <<"construct", i>>,
                       <<"link", i>>, <<"linkCf", i>> >>)

\* ReleaseSnapshot: RocksDB first, the object afterwards.
ReleaseSnapshot(t, s) == Assign(t, s, << <<"release", s>>, <<"initiate", s>> >>)

\* DropColumnFamily: the object is closed only if RocksDB agrees.
DropColumnFamily(t, c) == Assign(t, c, << <<"drop", c>> >>)

\* A close takes no reference.
RequestClose(t, h) ==
    /\ closeReq[h] = 0
    /\ Call(t, {h}, << <<"initiate", h>> >>)
    /\ UNCHANGED <<life, terms, closeReq, refs, linked, mDb, released, dropped, crashed>>

Close(t)                   == RequestClose(t, Db)
IteratorClose(t, i)        == RequestClose(t, i)
UpdatesIteratorClose(t, l) == RequestClose(t, l)

-----------------------------------------------------------------------------
(* The steps of a call *)

\* The call works on the handle, through RocksDB.
UseHandle(t, h) ==
    /\ At(t, "use", h)
    /\ Then(t, <<>>)
    /\ UNCHANGED <<life, terms, closeReq, refs, linked, mDb, released, dropped, crashed>>

\* parse_read_option has a reference on the snapshot only while it copies the
\* pointer that RocksDB uses afterwards; a released snapshot is badarg.
RetrieveSnapshot(t, s) ==
    /\ At(t, "retrieveSnapshot", s)
    /\ Then(t, IF closeReq[s] = 0 THEN << <<"assign", s>>, <<"use", s>> >> ELSE <<>>)
    /\ UNCHANGED <<life, terms, closeReq, refs, linked, mDb, released, dropped, crashed>>

\* Iterators: the reference on the column family ends with the loop turn, the
\* plain pointer is kept; a closed column family is a NULL that is used.
RetrieveCf(t, c) ==
    /\ At(t, "retrieveCf", c)
    /\ \/ /\ closeReq[c] = 0
          /\ Then(t, << <<"assign", c>> >>)
          /\ UNCHANGED crashed
       \/ /\ closeReq[c] # 0
          /\ crashed' = TRUE
          /\ UNCHANGED <<todo, args, retrieved, late>>
    /\ UNCHANGED <<life, terms, closeReq, refs, linked, mDb, released, dropped>>

\* A reference for the moment, on a handle that is not the one the NIF is on.
AssignBriefly(t, o) ==
    /\ At(t, "assign", o)
    /\ Then(t, << <<"refDec", o>> >>)
    /\ refs' = [refs EXCEPT ![o] = @ + 1]
    /\ UNCHANGED <<life, terms, closeReq, linked, mDb, released, dropped, crashed>>

\* Deviation: m_DbPtr is a plain pointer.
ConstructWithoutRef(t, o) ==
    /\ At(t, "construct", o)
    /\ Go(t, <<>>)
    /\ life' = [life EXCEPT ![o] = "live"]
    /\ late' = IF closeReq[Db] >= 2 THEN late \cup {o} ELSE late
    /\ UNCHANGED <<terms, closeReq, refs, linked, mDb, released, dropped, crashed>>

\* CreateXxxObject: the members of the new object take their references.
Construct(t, o) ==
    /\ At(t, "construct", o)
    /\ Go(t, <<>>)
    /\ life' = [life EXCEPT ![o] = "live"]
    /\ refs' = [h \in Handles |-> IF h = Db \/ (OnCf(o) /\ h = CfOf[o])
                                  THEN refs[h] + 1 ELSE refs[h]]
    /\ late' = IF closeReq[Db] >= 2 THEN late \cup {o} ELSE late
    /\ UNCHANGED <<terms, closeReq, linked, mDb, released, dropped, crashed>>

\* The constructor's body: AddReference and its like.
Link(t, o) ==
    /\ At(t, "link", o)
    /\ Then(t, <<>>)
    /\ linked' = [linked EXCEPT ![Db] = @ \cup {o}]
    /\ UNCHANGED <<life, terms, closeReq, refs, mDb, released, dropped, crashed>>

LinkCf(t, o) ==
    /\ At(t, "linkCf", o)
    /\ Then(t, <<>>)
    /\ linked' = [linked EXCEPT ![CfOf[o]] = @ \cup {o}]
    /\ UNCHANGED <<life, terms, closeReq, refs, mDb, released, dropped, crashed>>

\* CreateXxxObject, after the constructor: the creation reference, and the
\* term that goes back to Erlang.
RefInc(t, o) ==
    /\ At(t, "refInc", o)
    /\ Then(t, <<>>)
    /\ refs' = [refs EXCEPT ![o] = @ + 1]
    /\ terms' = terms \cup {o}
    /\ UNCHANGED <<life, closeReq, linked, mDb, released, dropped, crashed>>

\* Deviation: every close request counts.
InitiateEveryTime(t, h) ==
    /\ At(t, "initiate", h)
    /\ closeReq' = [closeReq EXCEPT ![h] = @ + 1]
    /\ Then(t, ShutdownOf(h))
    /\ UNCHANGED <<life, terms, refs, linked, mDb, released, dropped, crashed>>

\* InitiateCloseRequest
Initiate(t, h) ==
    /\ At(t, "initiate", h)
    /\ \/ /\ closeReq[h] = 0
          /\ closeReq' = [closeReq EXCEPT ![h] = 1]
          /\ Then(t, ShutdownOf(h))
       \/ /\ closeReq[h] # 0
          /\ Then(t, <<>>)
          /\ UNCHANGED closeReq
    /\ UNCHANGED <<life, terms, refs, linked, mDb, released, dropped, crashed>>

\* What the step op works with is gone: its handle was freed or destroyed, its
\* list was freed with the owner, or RocksDB's database was deleted.
Gone(op, h) ==
    \/ life[h] = "freed"
    \/ op \in {"use", "drop", "release"} /\ closeReq[h] >= 2
    \/ op \in {"use", "drop", "construct", "unlink"} /\ mDb = "deleted"
    \/ op = "unlinkCf" /\ life[CfOf[h]] = "freed"

\* Nothing keeps an object that Shutdown popped from its list, a column family
\* that an iterator was made over too late, or what a late call works with.
\* The emulator may die of it, or find the memory as it was left.
TouchGone(t, h) ==
    /\ \E op \in Operations : At(t, op, h) /\ Gone(op, h)
    /\ crashed' = TRUE
    /\ UNCHANGED <<life, terms, closeReq, refs, linked, mDb, released, dropped,
                   todo, args, retrieved, late>>

\* One turn of a loop of Shutdown: an object leaves the list under the mutex,
\* and is closed once the mutex is free again.
Drain(t, list, w) ==
    /\ At(t, list, w)
    /\ \/ /\ linked[w] \cap Kind(list) = {}
          /\ Then(t, <<>>)
          /\ UNCHANGED linked
       \/ \E o \in linked[w] \cap Kind(list) :
             /\ linked' = [linked EXCEPT ![w] = @ \ {o}]
             /\ Then(t, << <<"initiate", o>>, <<list, w>> >>)
    /\ UNCHANGED <<life, terms, closeReq, refs, mDb, released, dropped, crashed>>

\* Deviation: the last but one reference destroys.
RefDecOffByOne(t, h) ==
    /\ At(t, "refDec", h)
    /\ refs' = [refs EXCEPT ![h] = @ - 1]
    /\ \/ /\ refs'[h] <= 1 /\ closeReq[h] = 1
          /\ closeReq' = [closeReq EXCEPT ![h] = 2]
          /\ Then(t, DestructorOf(h))
       \/ /\ ~(refs'[h] <= 1 /\ closeReq[h] = 1)
          /\ Then(t, <<>>)
          /\ UNCHANGED closeReq
    /\ UNCHANGED <<life, terms, linked, mDb, released, dropped, crashed>>

\* RefDec, and the destructor when it was the last after a close.
RefDec(t, h) ==
    /\ At(t, "refDec", h)
    /\ refs' = [refs EXCEPT ![h] = @ - 1]
    /\ \/ /\ refs'[h] = 0 /\ closeReq[h] = 1
          /\ closeReq' = [closeReq EXCEPT ![h] = 2]
          /\ Then(t, DestructorOf(h))
       \/ /\ ~(refs'[h] = 0 /\ closeReq[h] = 1)
          /\ Then(t, <<>>)
          /\ UNCHANGED closeReq
    /\ UNCHANGED <<life, terms, linked, mDb, released, dropped, crashed>>

\* Deviation: the destructor leaves the object in the list.
UnlinkForgotten(t, o) ==
    /\ At(t, "unlink", o)
    /\ Then(t, <<>>)
    /\ UNCHANGED <<life, terms, closeReq, refs, linked, mDb, released, dropped, crashed>>

Unlink(t, o) ==
    /\ At(t, "unlink", o)
    /\ Then(t, <<>>)
    /\ linked' = [linked EXCEPT ![Db] = @ \ {o}]
    /\ UNCHANGED <<life, terms, closeReq, refs, mDb, released, dropped, crashed>>

UnlinkCf(t, o) ==
    /\ At(t, "unlinkCf", o)
    /\ Then(t, <<>>)
    /\ linked' = [linked EXCEPT ![CfOf[o]] = @ \ {o}]
    /\ UNCHANGED <<life, terms, closeReq, refs, mDb, released, dropped, crashed>>

DeleteDb(t) ==
    /\ At(t, "deleteDb", Db)
    /\ Then(t, <<>>)
    /\ mDb' = "deleted"
    /\ UNCHANGED <<life, terms, closeReq, refs, linked, released, dropped, crashed>>

\* ~ErlRefObject
Done(t, h) ==
    /\ At(t, "done", h)
    /\ Then(t, <<>>)
    /\ closeReq' = [closeReq EXCEPT ![h] = 3]
    /\ UNCHANGED <<life, terms, refs, linked, mDb, released, dropped, crashed>>

\* rocksdb ReleaseSnapshot; twice stands for twice or more.  A collection
\* makes the call without a reference on the database.
Release(t, s) ==
    /\ At(t, "release", s)
    /\ \/ /\ mDb = "open"
          /\ released' = [released EXCEPT ![s] = IF @ = 2 THEN 2 ELSE @ + 1]
          /\ Then(t, <<>>)
          /\ UNCHANGED crashed
       \/ /\ mDb = "deleted"
          /\ crashed' = TRUE
          /\ UNCHANGED <<released, todo, args, retrieved, late>>
    /\ UNCHANGED <<life, terms, closeReq, refs, linked, mDb, dropped>>

\* rocksdb DropColumnFamily: a second drop is an error.
Drop(t, c) ==
    /\ At(t, "drop", c)
    /\ \/ /\ c \notin dropped
          /\ dropped' = dropped \cup {c}
          /\ Then(t, << <<"initiate", c>> >>)
       \/ /\ c \in dropped
          /\ Then(t, <<>>)
          /\ UNCHANGED dropped
    /\ UNCHANGED <<life, terms, closeReq, refs, linked, mDb, released, crashed>>

-----------------------------------------------------------------------------
(* The garbage collector *)

Forget(h) ==
    /\ h \in terms
    /\ terms' = terms \ {h}
    /\ UNCHANGED <<life, closeReq, refs, linked, mDb, released, dropped, crashed, todo, args,
                   retrieved, late>>

\* XxxResourceCleanup, once no term of the handle is left, in a process or in
\* a running call; a snapshot is first released if its destructor did not run.
Collect(t, h) ==
    /\ life[h] = "live"
    /\ h \notin terms \cup UNION {args[u] : u \in Threads}
    /\ \A u \in Threads : \A op \in {"link", "linkCf", "refInc"} :
          <<op, h>> \notin ToSet(todo[u])
    /\ Call(t, {}, (IF h \in Snaps THEN << <<"testSnapshot", h>> >> ELSE << >>)
                   \o << <<"initiate", h>>, <<"await", h>> >>)
    /\ life' = [life EXCEPT ![h] = "collecting"]
    /\ UNCHANGED <<terms, closeReq, refs, linked, mDb, released, dropped, crashed>>

\* SnapshotObjectResourceCleanup reads m_Snapshot, NULL after the destructor.
TestSnapshot(t, s) ==
    /\ At(t, "testSnapshot", s)
    /\ Then(t, IF closeReq[s] < 2 \/ <<"unlink", s>> \in Pending
               THEN << <<"release", s>> >> ELSE <<>>)
    /\ UNCHANGED <<life, terms, closeReq, refs, linked, mDb, released, dropped, crashed>>

\* AwaitCloseAndDestructor; then Erlang frees the memory.
Await(t, h) ==
    /\ At(t, "await", h)
    /\ closeReq[h] = 3
    /\ Then(t, <<>>)
    /\ life' = [life EXCEPT ![h] = "freed"]
    /\ UNCHANGED <<terms, closeReq, refs, linked, mDb, released, dropped, crashed>>

-----------------------------------------------------------------------------

Begin(t) == \/ RetrieveDbObject(t) \/ Close(t)
            \/ \E i \in Itrs : RetrieveItrObject(t, i) \/ IteratorClose(t, i)
            \/ \E o \in Objects : RetrieveDbObjectWith(t, o) \/ RetrieveObject(t, o)
            \/ \E l \in TLogs : UpdatesIteratorClose(t, l)
            \/ \E h \in Handles : Collect(t, h)

\* A NIF takes its reference.
Refer(t) == \/ FailOnDb(t) \/ UseDb(t)
            \/ \E o \in Objects : Use(t, o)
            \/ \E i \in Itrs : Iterator(t, i) \/ Iterators(t, i)
            \/ \E s \in Snaps : ReadSnapshot(t, s) \/ GetSnapshot(t, s) \/ ReleaseSnapshot(t, s)
            \/ \E c \in Cfs : CreateColumnFamily(t, c) \/ DropColumnFamily(t, c)
            \/ \E l \in TLogs : UpdatesIterator(t, l)

Step(t) == \/ \E h \in Handles : \/ UseHandle(t, h) \/ Initiate(t, h) \/ RefDec(t, h)
                                 \/ Done(t, h) \/ Await(t, h)
                                 \/ TouchGone(t, h)
           \/ \E o \in Objects : \/ Construct(t, o) \/ Link(t, o) \/ LinkCf(t, o)
                                 \/ RefInc(t, o) \/ Unlink(t, o) \/ UnlinkCf(t, o)
                                 \/ AssignBriefly(t, o)
           \/ \E w \in Owners, list \in {"itrs", "snaps", "cfs", "tlogs"} : Drain(t, list, w)
           \/ \E s \in Snaps : RetrieveSnapshot(t, s) \/ Release(t, s) \/ TestSnapshot(t, s)
           \/ \E c \in Cfs : Drop(t, c) \/ RetrieveCf(t, c)
           \/ DeleteDb(t)

\* The emulator died, or everything is freed and nobody has a call to make.
Over == /\ \/ crashed
           \/ \A h \in Handles : life[h] = "freed" \/ (h # Db /\ life[h] = "absent")
        /\ \A t \in Threads : crashed \/ Idle(t)
        /\ UNCHANGED vars

Next == \/ ~crashed /\ \E t \in Threads : Begin(t) \/ Refer(t) \/ Step(t)
        \/ ~crashed /\ \E h \in Handles : Forget(h)
        \/ Over

Spec == Init /\ [][Next]_vars

\* The scheduler runs every thread that is inside a call, and the handles
\* that no process knows any more are collected; nothing else is promised.
Fairness == /\ \A t \in Threads : WF_vars(~crashed /\ (Refer(t) \/ Step(t)))
            /\ \A h \in Handles : WF_vars(~crashed /\ \E t \in Threads : Collect(t, h))

FairSpec == Spec /\ Fairness

-----------------------------------------------------------------------------
(* Properties *)

Constructed(h) == life[h] # "absent"

\* The members m_DbPtr and m_ColumnFamilyPtr hold a reference until the
\* object's destructor gives it back.
MembersOn(h) == {o \in Objects : /\ Constructed(o) /\ closeReq[o] < 2
                                 /\ h = Db \/ (OnCf(o) /\ h = CfOf[o])}

RefDecsDue(h) ==
    Cardinality(UNION {{<<t, i>> : i \in {j \in DOMAIN todo[t] : todo[t][j] = <<"refDec", h>>}}
                       : t \in Threads})

Closing(h) == closeReq[h] # 0

\* Every variable has the values the code can give it.
TypeOK ==
    /\ life \in [Handles -> {"absent", "live", "collecting", "freed"}]
    /\ terms \subseteq Handles
    /\ closeReq \in [Handles -> 0..3]
    /\ refs \in [Handles -> Int]
    /\ linked \in [Owners -> SUBSET Objects]
    /\ mDb \in {"open", "deleted"}
    /\ released \in [Snaps -> 0..2]
    /\ dropped \subseteq Cfs
    /\ crashed \in BOOLEAN
    /\ \A t \in Threads : args[t] \subseteq Handles /\ todo[t] \in Seq(Operations \X Handles)
    /\ retrieved \in [Threads -> SUBSET Handles]
    /\ late \subseteq Threads \cup Objects

\* Every count is what calls in progress and members of other objects will
\* give back, plus the creation reference: nothing is given back twice or
\* lost in the nesting of Shutdown, destructors and NIFs.
RefsBalance ==
    \A h \in Handles :
        refs[h] = RefDecsDue(h) + Cardinality(MembersOn(h))
                  + (IF Constructed(h) /\ ~Closing(h) THEN 1 ELSE 0)
                  - (IF Constructed(h) /\ <<"refInc", h>> \in Pending THEN 1 ELSE 0)

\* RocksDB's database is closed after everything that works on it: no object
\* is left undestroyed, and no call is inside RocksDB under a reference.  The
\* late are excepted: a call whose reference came after the destructor began,
\* past a test that had found the handle open, and what it constructs.
DbClosedLast ==
    mDb = "deleted" =>
        /\ \A o \in Objects \ late : Constructed(o) => closeReq[o] >= 2
        /\ \A t \in Threads \ late, h \in Handles, op \in {"use", "drop", "construct"} :
              ~At(t, op, h)

\* An object in a list has not been destroyed: the pointer is good as long as
\* it is in the list.
ListedIsAlive ==
    \A w \in Owners : \A o \in linked[w] :
        /\ Constructed(o) /\ life[o] # "freed"
        /\ closeReq[o] = 2 =>
             <<"unlink", o>> \in Pending \/ (w # Db /\ <<"unlinkCf", o>> \in Pending)
        /\ closeReq[o] # 3

\* A destructor runs once, and a column family is destroyed after the
\* iterators that read it.
DestroyedOnceInOrder ==
    /\ \A h \in Handles :
          closeReq[h] = 2 <=> \E t \in Threads : <<"done", h>> \in ToSet(todo[t])
    /\ \A h \in Handles, t, u \in Threads :
          <<"done", h>> \in ToSet(todo[t]) /\ <<"done", h>> \in ToSet(todo[u]) => t = u
    /\ \A i \in Itrs : OnCf(i) /\ Constructed(i) /\ closeReq[CfOf[i]] >= 2
                         => closeReq[i] >= 2

\* A close of the database, whatever the objects, the calls in progress and
\* the closes of objects next to it, ends with the database closed, if not
\* with the death of the emulator.
CloseEndsInDestruction == Closing(Db) ~> closeReq[Db] = 3 \/ crashed

\* A scheduler thread that collects a handle gets away again.
CollectionEnds == \A h \in Handles : life[h] = "collecting" ~> life[h] = "freed" \/ crashed

\* "auto delete at zero" (m_RefCount): a closed object that nobody holds any
\* more does not stay undeleted with its count at 0.
DeletedAtZero ==
    \A h \in Handles : Constructed(h) /\ closeReq[h] = 1 /\ refs[h] = 0
                        => <<"refInc", h>> \in Pending \/ <<"refDec", h>> \in Pending

\* "snapshot has been released, it can't be reused".
ReleasedSnapshotIsNotUsed ==
    \A t \in Threads, s \in Snaps :
        At(t, "use", s) \/ At(t, "release", s) => released[s] = 0
=============================================================================
