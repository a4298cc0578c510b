---------------------------- MODULE ErlRefObject ----------------------------
(***************************************************************************)
(* The life of one handle shared by Erlang and C++: the close protocol of  *)
(* ErlRefObject (c_src/refobjects.cc), as a database handle goes through   *)
(* it.  A handle carries a reference count and a close word:               *)
(*                                                                         *)
(*   closeRequested = 0  open                                              *)
(*                    1  close was requested                               *)
(*                    2  a thread has been elected to run the destructor   *)
(*                    3  the destructor is done                            *)
(*                                                                         *)
(* Every NIF that touches the database runs on a dirty scheduler, so calls *)
(* of several Erlang processes interleave step by step.  A thread runs one *)
(* job at a time:                                                          *)
(*   "use"    a NIF that borrows the handle through enif_get_db            *)
(*   "close"  the close/1 NIF                                              *)
(*   "child"  the end of an object that holds a reference of its own       *)
(*            (iterator, snapshot, column family, log iterator)            *)
(*   "gc"     the resource destructor that Erlang calls when the last term *)
(*            of the handle is gone                                        *)
(* One action is one atomic step of the code: an atomic instruction, one   *)
(* read of a shared word, or one mutex operation.                          *)
(***************************************************************************)
EXTENDS Integers, FiniteSets

CONSTANTS Threads,      \* scheduler threads that may run a job
          Children      \* objects that may hold a reference on the handle

ASSUME ThreadsFinite  == IsFiniteSet(Threads)
ASSUME ChildrenFinite == IsFiniteSet(Children)
ASSUME ThreadsAreNotChildren == Threads \cap Children = {}

VARIABLES closeRequested,   \* ErlRefObject::m_CloseRequested
          refCount,         \* RefObject::m_RefCount
          mDb,              \* DbObject::m_Db: "open", "deleting" or "null"
          memory,           \* "live", "destroyed" (mutex and condition), "freed"
          terms,            \* TRUE while Erlang terms of the handle exist
          pc, job,          \* what each thread is doing, and for which job
          children,         \* the objects that hold a reference
          late              \* history: holders that took their reference
                            \* when no one was entitled to give one

vars == <<closeRequested, refCount, mDb, memory, terms, pc, job, children, late>>

-----------------------------------------------------------------------------

Jobs == {"none", "use", "close", "child", "gc"}

\* Where a thread owns a reference: after RefInc, up to the RefDec that gives
\* it back.  Shutdown's RefDec gives back the reference of creation.
Holding == {"checkDb", "use", "refDec"}

\* Where a thread runs the destructor, and where it is inside the mutex.
Destroying == {"deleteDb", "nullDb", "dtorLock", "markDone", "broadcast", "dtorUnlock"}
InDtorMutex == {"markDone", "broadcast", "dtorUnlock"}
InAwaitMutex == {"awaitRetest", "awaitUnlock"}

Locations == {"idle", "assign", "swapDtor", "closeTest", "closeSwap",
              "await", "awaitLock", "waiting", "destroyMutex", "free"}
             \cup Holding \cup Destroying \cup InAwaitMutex

MutexFree == \A t \in Threads : pc[t] \notin InDtorMutex \cup InAwaitMutex

HoldingThreads == {t \in Threads : pc[t] \in Holding}
Holders == HoldingThreads \cup children

\* The reference that CreateDbObject takes belongs to no thread until the
\* close word leaves 0: then it belongs to the thread that runs Shutdown.
CreationRef == IF closeRequested = 0 THEN 1 ELSE 0

\* Somebody entitled still holds a reference: the handle cannot go away.
Guarded == closeRequested = 0 \/ Holders \ late # {}

\* A thread that ends its close protocol returns to Erlang, except in the
\* resource destructor, which goes on to wait for the C++ destructor.
AfterClose(t) == IF job[t] = "gc" THEN "await" ELSE "idle"

Return(t) == /\ pc' = [pc EXCEPT ![t] = AfterClose(t)]
             /\ job' = [job EXCEPT ![t] = IF @ = "gc" THEN "gc" ELSE "none"]

Goto(t, from, to) == /\ pc[t] = from
                     /\ pc' = [pc EXCEPT ![t] = to]
                     /\ UNCHANGED job

-----------------------------------------------------------------------------

\* An open database: RefInc'ed once by CreateDbObject, its term in Erlang.
Init == /\ closeRequested = 0
        /\ refCount = 1
        /\ mDb = "open"
        /\ memory = "live"
        /\ terms = TRUE
        /\ pc = [t \in Threads |-> "idle"]
        /\ job = [t \in Threads |-> "none"]
        /\ children = {}
        /\ late = {}

-----------------------------------------------------------------------------
(* Using the handle *)

\* RetrieveDbObject: a plain read of the close word.  When it is not 0 the
\* NIF returns badarg and nothing changes.
RetrieveDbObject(t) ==
    /\ terms
    /\ pc[t] = "idle"
    /\ closeRequested = 0
    /\ pc' = [pc EXCEPT ![t] = "assign"]
    /\ job' = [job EXCEPT ![t] = "use"]
    /\ UNCHANGED <<closeRequested, refCount, mDb, memory, terms, children, late>>

\* ReferencePtr::assign, a separate step: RefInc on whatever is there by now.
AssignRef(t) ==
    /\ Goto(t, "assign", "checkDb")
    /\ refCount' = refCount + 1
    /\ late' = IF Guarded THEN late ELSE late \cup {t}
    /\ UNCHANGED <<closeRequested, mDb, memory, terms, children>>

\* enif_get_db: a database that is NULL by now is a badarg.
CheckDb(t) ==
    /\ Goto(t, "checkDb", IF mDb = "null" THEN "refDec" ELSE "use")
    /\ UNCHANGED <<closeRequested, refCount, mDb, memory, terms, children, late>>

\* Deviation: the object keeps a plain pointer instead of a reference.
CreateChildWithoutRefInc(t, c) ==
    /\ pc[t] = "use" /\ job[t] = "use"
    /\ c \notin children
    /\ children' = children \cup {c}
    /\ UNCHANGED <<closeRequested, refCount, mDb, memory, terms, pc, job, late>>

\* The NIF creates an object whose m_DbPtr takes a reference on the handle.
CreateChild(t, c) ==
    /\ pc[t] = "use" /\ job[t] = "use"
    /\ c \notin children
    /\ children' = children \cup {c}
    /\ refCount' = refCount + 1
    /\ late' = IF Guarded THEN late ELSE late \cup {c}
    /\ UNCHANGED <<closeRequested, mDb, memory, terms, pc, job>>

FinishUse(t) ==
    /\ Goto(t, "use", "refDec")
    /\ UNCHANGED <<closeRequested, refCount, mDb, memory, terms, children, late>>

\* The object's own destructor runs, and ~ReferencePtr gives its reference
\* back.  No term of this handle is needed for that.
DropChild(t, c) ==
    /\ pc[t] = "idle"
    /\ c \in children
    /\ children' = children \ {c}
    /\ pc' = [pc EXCEPT ![t] = "refDec"]
    /\ job' = [job EXCEPT ![t] = "child"]
    /\ late' = IF c \in late THEN (late \ {c}) \cup {t} ELSE late
    /\ UNCHANGED <<closeRequested, refCount, mDb, memory, terms>>

\* Deviation: the last reference but one elects the thread.
RefDecOffByOne(t) ==
    /\ pc[t] = "refDec"
    /\ refCount' = refCount - 1
    /\ late' = late \ {t}
    /\ \/ /\ refCount' <= 1
          /\ Goto(t, "refDec", "swapDtor")
       \/ /\ refCount' > 1
          /\ Return(t)
    /\ UNCHANGED <<closeRequested, mDb, memory, terms, children>>

\* RefDec: the thread that brings the count to 0 tries to become the one
\* that runs the destructor.
RefDec(t) ==
    /\ pc[t] = "refDec"
    /\ refCount' = refCount - 1
    /\ late' = late \ {t}
    /\ \/ /\ refCount' = 0
          /\ Goto(t, "refDec", "swapDtor")
       \/ /\ refCount' # 0
          /\ Return(t)
    /\ UNCHANGED <<closeRequested, mDb, memory, terms, children>>

\* Deviation: the comment of RefDec is believed, and the swap left out.
SwapToDestructorUnconditional(t) ==
    /\ Goto(t, "swapDtor", "deleteDb")
    /\ closeRequested' = 2
    /\ UNCHANGED <<refCount, mDb, memory, terms, children, late>>

\* Deviation: an atomic increment instead of the compare and swap.
SwapToDestructorIncrement(t) ==
    /\ Goto(t, "swapDtor", "deleteDb")
    /\ closeRequested' = closeRequested + 1
    /\ UNCHANGED <<refCount, mDb, memory, terms, children, late>>

SwapToDestructor(t) ==
    /\ pc[t] = "swapDtor"
    /\ \/ /\ closeRequested = 1
          /\ closeRequested' = 2
          /\ Goto(t, "swapDtor", "deleteDb")
       \/ /\ closeRequested # 1
          /\ Return(t)
          /\ UNCHANGED closeRequested
    /\ UNCHANGED <<refCount, mDb, memory, terms, children, late>>

-----------------------------------------------------------------------------
(* Closing the handle *)

\* The close/1 NIF: RetrieveDbObject, and no reference is taken.
Close(t) ==
    /\ terms
    /\ pc[t] = "idle"
    /\ closeRequested = 0
    /\ pc' = [pc EXCEPT ![t] = "closeTest"]
    /\ job' = [job EXCEPT ![t] = "close"]
    /\ UNCHANGED <<closeRequested, refCount, mDb, memory, terms, children, late>>

\* InitiateCloseRequest: the test before the swap.
TestCloseRequested(t) ==
    /\ pc[t] = "closeTest"
    /\ \/ /\ closeRequested = 0
          /\ Goto(t, "closeTest", "closeSwap")
       \/ /\ closeRequested # 0
          /\ Return(t)
    /\ UNCHANGED <<closeRequested, refCount, mDb, memory, terms, children, late>>

\* Deviation: a plain store after the test instead of the swap.
StoreCloseRequested(t) ==
    /\ Goto(t, "closeSwap", "refDec")
    /\ closeRequested' = 1
    /\ UNCHANGED <<refCount, mDb, memory, terms, children, late>>

\* InitiateCloseRequest: the swap.  The winner runs Shutdown, whose last
\* statement is the RefDec of the creation reference; the objects Shutdown
\* closes on the way give their references back as DropChild.
SwapCloseRequested(t) ==
    /\ pc[t] = "closeSwap"
    /\ \/ /\ closeRequested = 0
          /\ closeRequested' = 1
          /\ Goto(t, "closeSwap", "refDec")
       \/ /\ closeRequested # 0
          /\ Return(t)
          /\ UNCHANGED closeRequested
    /\ UNCHANGED <<refCount, mDb, memory, terms, children, late>>

-----------------------------------------------------------------------------
(* The destructor: ~DbObject, then ~ErlRefObject *)

DeleteDb(t) ==
    /\ Goto(t, "deleteDb", "nullDb")
    /\ mDb' = "deleting"
    /\ UNCHANGED <<closeRequested, refCount, memory, terms, children, late>>

NullDb(t) ==
    /\ Goto(t, "nullDb", "dtorLock")
    /\ mDb' = "null"
    /\ UNCHANGED <<closeRequested, refCount, memory, terms, children, late>>

DtorLock(t) ==
    /\ MutexFree
    /\ Goto(t, "dtorLock", "markDone")
    /\ UNCHANGED <<closeRequested, refCount, mDb, memory, terms, children, late>>

MarkDone(t) ==
    /\ Goto(t, "markDone", "broadcast")
    /\ closeRequested' = 3
    /\ UNCHANGED <<refCount, mDb, memory, terms, children, late>>

\* pthread_cond_broadcast: every waiter goes back to the mutex.
Broadcast(t) ==
    /\ pc[t] = "broadcast"
    /\ pc' = [u \in Threads |-> IF u = t THEN "dtorUnlock"
                                ELSE IF pc[u] = "waiting" THEN "awaitLock"
                                ELSE pc[u]]
    /\ UNCHANGED <<closeRequested, refCount, mDb, memory, terms, job, children, late>>

DtorUnlock(t) ==
    /\ pc[t] = "dtorUnlock"
    /\ Return(t)
    /\ UNCHANGED <<closeRequested, refCount, mDb, memory, terms, children, late>>

-----------------------------------------------------------------------------
(* The Erlang garbage collector *)

\* The last process that knew the handle forgets it.
ForgetTerm ==
    /\ terms
    /\ terms' = FALSE
    /\ UNCHANGED <<closeRequested, refCount, mDb, memory, pc, job, children, late>>

\* DbObjectResourceCleanup: Erlang runs it once, when no term is left; a call
\* in progress keeps the terms of its arguments.
Collect(t) ==
    /\ ~terms /\ memory = "live"
    /\ \A u \in Threads : job[u] \notin {"use", "close", "gc"}
    /\ pc[t] = "idle"
    /\ pc' = [pc EXCEPT ![t] = "closeTest"]
    /\ job' = [job EXCEPT ![t] = "gc"]
    /\ UNCHANGED <<closeRequested, refCount, mDb, memory, terms, children, late>>

\* Deviation: the wait takes "destructor started" for "destructor done".
AwaitQuickTestStarted(t) ==
    /\ Goto(t, "await", IF closeRequested >= 2 THEN "destroyMutex" ELSE "awaitLock")
    /\ UNCHANGED <<closeRequested, refCount, mDb, memory, terms, children, late>>

\* AwaitCloseAndDestructor: the quick test, made without the mutex.
AwaitQuickTest(t) ==
    /\ Goto(t, "await", IF closeRequested = 3 THEN "destroyMutex" ELSE "awaitLock")
    /\ UNCHANGED <<closeRequested, refCount, mDb, memory, terms, children, late>>

AwaitLock(t) ==
    /\ MutexFree
    /\ Goto(t, "awaitLock", "awaitRetest")
    /\ UNCHANGED <<closeRequested, refCount, mDb, memory, terms, children, late>>

\* Deviation: the retest under the mutex is left out.
AwaitWithoutRetest(t) ==
    /\ Goto(t, "awaitRetest", "waiting")
    /\ UNCHANGED <<closeRequested, refCount, mDb, memory, terms, children, late>>

\* The while loop: pthread_cond_wait gives the mutex up and waits.
AwaitRetest(t) ==
    /\ Goto(t, "awaitRetest", IF closeRequested = 3 THEN "awaitUnlock" ELSE "waiting")
    /\ UNCHANGED <<closeRequested, refCount, mDb, memory, terms, children, late>>

SpuriousWakeup(t) ==
    /\ Goto(t, "waiting", "awaitLock")
    /\ UNCHANGED <<closeRequested, refCount, mDb, memory, terms, children, late>>

AwaitUnlock(t) ==
    /\ Goto(t, "awaitUnlock", "destroyMutex")
    /\ UNCHANGED <<closeRequested, refCount, mDb, memory, terms, children, late>>

DestroyMutex(t) ==
    /\ Goto(t, "destroyMutex", "free")
    /\ memory' = "destroyed"
    /\ UNCHANGED <<closeRequested, refCount, mDb, terms, children, late>>

\* The cleanup callback has returned: Erlang frees the resource.
FreeMemory(t) ==
    /\ pc[t] = "free"
    /\ memory' = "freed"
    /\ pc' = [pc EXCEPT ![t] = "idle"]
    /\ job' = [job EXCEPT ![t] = "none"]
    /\ UNCHANGED <<closeRequested, refCount, mDb, terms, children, late>>

-----------------------------------------------------------------------------

Use(t)        == RetrieveDbObject(t) \/ AssignRef(t) \/ CheckDb(t) \/ FinishUse(t)
                 \/ \E c \in Children : CreateChild(t, c)
Initiate(t)   == Close(t) \/ TestCloseRequested(t) \/ SwapCloseRequested(t)
Release(t)    == RefDec(t) \/ SwapToDestructor(t) \/ \E c \in Children : DropChild(t, c)
Destructor(t) == DeleteDb(t) \/ NullDb(t) \/ DtorLock(t) \/ MarkDone(t)
                 \/ Broadcast(t) \/ DtorUnlock(t)
Await(t)      == AwaitQuickTest(t) \/ AwaitLock(t) \/ AwaitRetest(t)
                 \/ SpuriousWakeup(t) \/ AwaitUnlock(t) \/ DestroyMutex(t) \/ FreeMemory(t)

\* The handle is gone and nobody is left to do anything with it.
Gone == /\ memory = "freed" /\ children = {}
        /\ \A t \in Threads : pc[t] = "idle"
        /\ UNCHANGED vars

Next == \/ \E t \in Threads : \/ Use(t) \/ Initiate(t) \/ Release(t)
                              \/ Destructor(t) \/ Await(t) \/ Collect(t)
        \/ ForgetTerm
        \/ Gone

Spec == Init /\ [][Next]_vars

-----------------------------------------------------------------------------
(* Fairness: the operating system runs every thread that is inside a NIF,   *)
(* and no thread is kept from a free mutex for ever.  Erlang eventually     *)
(* collects a handle no term refers to.  Nothing obliges a process to call  *)
(* a NIF or to forget a term, a waiter to wake up without a broadcast, or   *)
(* an object to give its reference back: one that Shutdown drained before   *)
(* its constructor had counted it never does (DeletedAtZero, DbLifecycle).  *)

InCall(t) == \/ AssignRef(t) \/ CheckDb(t) \/ FinishUse(t)
             \/ TestCloseRequested(t) \/ SwapCloseRequested(t)
             \/ RefDec(t) \/ SwapToDestructor(t)
             \/ DeleteDb(t) \/ NullDb(t) \/ MarkDone(t) \/ Broadcast(t) \/ DtorUnlock(t)
             \/ AwaitQuickTest(t) \/ AwaitRetest(t) \/ AwaitUnlock(t)
             \/ DestroyMutex(t) \/ FreeMemory(t)

Fairness == /\ \A t \in Threads : /\ WF_vars(InCall(t))
                                  /\ SF_vars(DtorLock(t))
                                  /\ SF_vars(AwaitLock(t))
            /\ WF_vars(\E t \in Threads : Collect(t))

FairSpec == Spec /\ Fairness

-----------------------------------------------------------------------------
(* Properties *)

\* Every variable has the values the code can give it.
TypeOK == /\ closeRequested \in 0..3
          /\ refCount \in Int
          /\ mDb \in {"open", "deleting", "null"}
          /\ memory \in {"live", "destroyed", "freed"}
          /\ terms \in BOOLEAN
          /\ pc \in [Threads -> Locations]
          /\ job \in [Threads -> Jobs]
          /\ children \subseteq Children
          /\ late \subseteq Threads \cup Children

\* The count is exactly the number of references that somebody will still
\* give back, whatever the order of the closes, the uses and the swaps: no
\* path of refobjects.cc gives one back twice or forgets one, and the
\* creation reference is given back by the one thread that wins the swap.
CountIsHolders ==
    refCount = Cardinality(HoldingThreads) + Cardinality(children) + CreationRef

\* ~DbObject runs at most once, on one thread, although several threads may
\* bring the count to 0: the word is 2 exactly while that thread is inside,
\* and nobody enters it again afterwards.
DestructorRunsOnce ==
    /\ \A t, u \in Threads : pc[t] \in Destroying /\ pc[u] \in Destroying => t = u
    /\ closeRequested = 2 <=>
         \E t \in Threads : pc[t] \in {"deleteDb", "nullDb", "dtorLock", "markDone"}

\* A thread or an object that took its reference while someone entitled was
\* holding one works on an open database until it gives the reference back,
\* although close was called, and succeeded, in the meantime.
EntitledHoldersAreSafe ==
    Holders \ late # {} => mDb = "open" /\ closeRequested < 2 /\ memory = "live"

\* AwaitCloseAndDestructor returns, and Erlang frees the memory, only once
\* the destructor has closed the database and announced that it is done.
FreedOnlyWhenDone == memory # "live" => closeRequested = 3 /\ mDb = "null"

\* The close word goes 0, 1, 2, 3, one value at a time and never back: a
\* close never hides that the destructor was started.
CloseWordAdvances == [][closeRequested' = closeRequested + 1]_closeRequested

\* The resource destructor waits for the objects on the handle and for
\* nothing else: once none of them holds a reference the wait ends, whether
\* the destructor ran before the quick test, between it and the retest, or
\* while the thread was waiting.  An object that never gives its reference
\* back keeps the collector, and its scheduler, waiting for ever.
AwaitReturns == \A t \in Threads :
    job[t] = "gc" /\ children = {} ~> job[t] # "gc"
=============================================================================
