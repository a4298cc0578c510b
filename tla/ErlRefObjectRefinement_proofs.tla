------------------- MODULE ErlRefObjectRefinement_proofs -------------------
(***************************************************************************)
(* Each step of the close protocol is a step of Handle, or is invisible to *)
(* it, for any finite sets of threads and objects.                         *)
(***************************************************************************)
EXTENDS ErlRefObjectRefinement, ErlRefObject_proofs

Awaiting == {"await", "awaitLock", "waiting", "awaitRetest", "awaitUnlock", "destroyMutex", "free"}

\* Erlang collects the handle once: one thread at most runs the resource
\* destructor, and the memory stays until that thread has left it.
CollectedOnce ==
    /\ \A t, u \in Threads : job[t] = "gc" /\ job[u] = "gc" => t = u
    /\ \A t \in Threads : pc[t] \in Awaiting => job[t] = "gc"
    /\ \A t \in Threads : pc[t] = "idle" => job[t] # "gc"
    /\ \A t \in Threads : job[t] = "gc" => memory = IF pc[t] = "free" THEN "destroyed" ELSE "live"

\* Who took its reference too late still holds it.
LateHolds == late \subseteq Holders

RInv == IInv /\ CollectedOnce /\ LateHolds

\* A collection is over before another one could begin.
LEMMA CollectedStep ==
  ASSUME IInv, CollectedOnce, [Next]_vars
  PROVE  CollectedOnce'
<1>. USE DEF IInv, TypeOK, CollectedOnce, Awaiting
<1>1. ASSUME NEW t \in Threads, Use(t) PROVE CollectedOnce'
  <2>1. CASE RetrieveDbObject(t)
    BY <2>1 DEF RetrieveDbObject
  <2>2. CASE ~RetrieveDbObject(t)
    BY <1>1, <2>2 DEF Use, AssignRef, CheckDb, FinishUse, CreateChild, Goto
  <2>. QED BY <2>1, <2>2
<1>2. ASSUME NEW t \in Threads, Initiate(t) PROVE CollectedOnce'
  <2>1. CASE Close(t)
    BY <2>1 DEF Close
  <2>2. CASE TestCloseRequested(t)
    BY <2>2 DEF TestCloseRequested, Goto, Return, AfterClose
  <2>3. CASE SwapCloseRequested(t)
    BY <2>3 DEF SwapCloseRequested, Goto, Return, AfterClose
  <2>. QED BY <1>2, <2>1, <2>2, <2>3 DEF Initiate
<1>3. ASSUME NEW t \in Threads, Release(t) PROVE CollectedOnce'
  <2>1. CASE RefDec(t)
    BY <2>1 DEF RefDec, Goto, Return, AfterClose
  <2>2. CASE SwapToDestructor(t)
    BY <2>2 DEF SwapToDestructor, Goto, Return, AfterClose
  <2>3. CASE \E c \in Children : DropChild(t, c)
    BY <2>3 DEF DropChild
  <2>. QED BY <1>3, <2>1, <2>2, <2>3 DEF Release
<1>4. ASSUME NEW t \in Threads, Destructor(t) PROVE CollectedOnce'
  <2>1. CASE DtorUnlock(t)
    BY <2>1 DEF DtorUnlock, Return, AfterClose
  <2>2. CASE Broadcast(t)
    BY <2>2 DEF Broadcast
  <2>3. CASE DeleteDb(t) \/ NullDb(t) \/ DtorLock(t) \/ MarkDone(t)
    BY <2>3 DEF DeleteDb, NullDb, DtorLock, MarkDone, Goto
  <2>. QED BY <1>4, <2>1, <2>2, <2>3 DEF Destructor
<1>5. ASSUME NEW t \in Threads, Await(t) PROVE CollectedOnce'
  <2>1. CASE DestroyMutex(t)
    BY <2>1 DEF DestroyMutex, Goto
  <2>2. CASE FreeMemory(t)
    BY <2>2 DEF FreeMemory
  <2>3. CASE AwaitQuickTest(t) \/ AwaitLock(t) \/ AwaitRetest(t) \/ SpuriousWakeup(t)
             \/ AwaitUnlock(t)
    BY <2>3 DEF AwaitQuickTest, AwaitLock, AwaitRetest, SpuriousWakeup, AwaitUnlock, Goto
  <2>. QED BY <1>5, <2>1, <2>2, <2>3 DEF Await
<1>6. ASSUME NEW t \in Threads, Collect(t) PROVE CollectedOnce'
  BY <1>6 DEF Collect
<1>7. CASE ForgetTerm \/ Gone \/ UNCHANGED vars
  BY <1>7 DEF ForgetTerm, Gone, vars
<1>. QED BY <1>1, <1>2, <1>3, <1>4, <1>5, <1>6, <1>7 DEF Next

-----------------------------------------------------------------------------
(* What a step does to the holders *)

NewHolder(x) == x \notin Holders /\ Holders' = Holders \cup {x}

\* AssignRef adds the thread to the holders, and to the late ones if nobody
\* entitled was there to borrow from.
LEMMA AssignRefHolders ==
  ASSUME TypeOK, NEW t \in Threads, AssignRef(t)
  PROVE  NewHolder(t) /\ late' = (IF Guarded THEN late ELSE late \cup {t})
<1>1. HoldingThreads' = HoldingThreads \cup {t} /\ t \notin HoldingThreads
  BY DEF TypeOK, AssignRef, Goto, HoldingThreads, Holding
<1>2. children' = children /\ t \notin children
  BY ThreadsAreNotChildren DEF AssignRef, TypeOK
<1>. QED BY <1>1, <1>2 DEF NewHolder, Holders, AssignRef

\* CreateChild adds the object in the same way.
LEMMA CreateChildHolders ==
  ASSUME TypeOK, NEW t \in Threads, NEW c \in Children, CreateChild(t, c)
  PROVE  NewHolder(c) /\ late' = (IF Guarded THEN late ELSE late \cup {c})
<1>1. HoldingThreads' = HoldingThreads /\ c \notin HoldingThreads
  BY ThreadsAreNotChildren DEF CreateChild, HoldingThreads
<1>2. children' = children \cup {c} /\ c \notin children
  BY DEF CreateChild
<1>. QED BY <1>1, <1>2 DEF NewHolder, Holders, CreateChild

\* The swap of a close makes its thread a holder of the creation reference.
LEMMA SwapHolders ==
  ASSUME TypeOK, NEW t \in Threads, SwapCloseRequested(t), closeRequested = 0
  PROVE  NewHolder(t) /\ late' = late
<1>1. HoldingThreads' = HoldingThreads \cup {t} /\ t \notin HoldingThreads
  BY DEF TypeOK, SwapCloseRequested, Goto, HoldingThreads, Holding
<1>2. children' = children /\ t \notin children
  BY ThreadsAreNotChildren DEF SwapCloseRequested, TypeOK
<1>. QED BY <1>1, <1>2 DEF NewHolder, Holders, SwapCloseRequested

\* RefDec takes the thread out of the holders and of the late ones.
LEMMA RefDecHolders ==
  ASSUME TypeOK, NEW t \in Threads, RefDec(t)
  PROVE  Holders' = Holders \ {t} /\ late' = late \ {t}
<1>1. HoldingThreads' = HoldingThreads \ {t}
  BY DEF TypeOK, RefDec, Goto, Return, AfterClose, HoldingThreads, Holding
<1>2. children' = children /\ t \notin children
  BY ThreadsAreNotChildren DEF RefDec, TypeOK
<1>. QED BY <1>1, <1>2 DEF Holders, RefDec

\* DropChild hands the place of the object to the thread.
LEMMA DropChildHolders ==
  ASSUME TypeOK, NEW t \in Threads, NEW c \in Children, DropChild(t, c)
  PROVE  /\ c \in Holders /\ t \notin Holders
         /\ Holders' = (Holders \ {c}) \cup {t}
         /\ late' = IF c \in late THEN (late \ {c}) \cup {t} ELSE late
<1>1. HoldingThreads' = HoldingThreads \cup {t} /\ t \notin HoldingThreads
  BY DEF TypeOK, DropChild, HoldingThreads, Holding
<1>2. c \in children /\ children' = children \ {c}
  BY DEF DropChild
<1>3. t \notin children /\ c \notin HoldingThreads /\ c # t
  BY ThreadsAreNotChildren DEF HoldingThreads, TypeOK
<1>. QED BY <1>1, <1>2, <1>3 DEF Holders, DropChild

\* Every other step leaves the holders as they are.
OtherStep == \/ UNCHANGED vars \/ ForgetTerm \/ Gone
             \/ \E t \in Threads : \/ RetrieveDbObject(t) \/ CheckDb(t) \/ FinishUse(t)
                                   \/ Close(t) \/ TestCloseRequested(t)
                                   \/ SwapCloseRequested(t) /\ closeRequested # 0
                                   \/ SwapToDestructor(t) \/ Destructor(t) \/ Await(t)
                                   \/ Collect(t)

\* A step is one of the five that move a reference or leaves the holders.
LEMMA OtherHolders ==
  ASSUME TypeOK, OtherStep
  PROVE  Holders' = Holders /\ late' = late
<1>. USE DEF TypeOK, Holders, HoldingThreads, Holding
<1>1. CASE UNCHANGED vars \/ ForgetTerm \/ Gone
  BY <1>1 DEF vars, ForgetTerm, Gone
<1>2. ASSUME NEW t \in Threads, RetrieveDbObject(t) \/ CheckDb(t) \/ FinishUse(t)
      PROVE  Holders' = Holders /\ late' = late
  BY <1>2 DEF RetrieveDbObject, CheckDb, FinishUse, Goto
<1>3. ASSUME NEW t \in Threads, \/ Close(t) \/ TestCloseRequested(t)
                                \/ SwapCloseRequested(t) /\ closeRequested # 0
      PROVE  Holders' = Holders /\ late' = late
  BY <1>3 DEF Close, TestCloseRequested, SwapCloseRequested, Goto, Return, AfterClose
<1>4. ASSUME NEW t \in Threads, SwapToDestructor(t) \/ Destructor(t)
      PROVE  Holders' = Holders /\ late' = late
  BY <1>4 DEF SwapToDestructor, Destructor, DeleteDb, NullDb, DtorLock, MarkDone, Broadcast,
              DtorUnlock, Goto, Return, AfterClose
<1>5. ASSUME NEW t \in Threads, Await(t) \/ Collect(t)
      PROVE  Holders' = Holders /\ late' = late
  BY <1>5 DEF Await, AwaitQuickTest, AwaitLock, AwaitRetest, SpuriousWakeup, AwaitUnlock,
              DestroyMutex, FreeMemory, Collect, Goto
<1>. QED BY <1>1, <1>2, <1>3, <1>4, <1>5 DEF OtherStep

\* The steps of the protocol, sorted by what they do to the holders.
LEMMA NextCases ==
  ASSUME [Next]_vars
  PROVE  \/ OtherStep
         \/ \E t \in Threads : \/ AssignRef(t) \/ RefDec(t)
                               \/ SwapCloseRequested(t) /\ closeRequested = 0
         \/ \E t \in Threads, c \in Children : CreateChild(t, c) \/ DropChild(t, c)
BY DEF Next, Use, Initiate, Release, OtherStep

\* Who is late is a holder.
LEMMA LateStep ==
  ASSUME TypeOK, LateHolds, [Next]_vars
  PROVE  LateHolds'
<1>1. CASE OtherStep
  BY <1>1, OtherHolders DEF LateHolds
<1>2. ASSUME NEW t \in Threads, AssignRef(t) PROVE LateHolds'
  BY <1>2, AssignRefHolders DEF NewHolder, LateHolds
<1>3. ASSUME NEW t \in Threads, RefDec(t) PROVE LateHolds'
  BY <1>3, RefDecHolders DEF LateHolds
<1>4. ASSUME NEW t \in Threads, SwapCloseRequested(t), closeRequested = 0 PROVE LateHolds'
  BY <1>4, SwapHolders DEF NewHolder, LateHolds
<1>5. ASSUME NEW t \in Threads, NEW c \in Children, CreateChild(t, c) PROVE LateHolds'
  BY <1>5, CreateChildHolders DEF NewHolder, LateHolds
<1>6. ASSUME NEW t \in Threads, NEW c \in Children, DropChild(t, c) PROVE LateHolds'
  BY <1>6, DropChildHolders DEF LateHolds
<1>. QED BY <1>1, <1>2, <1>3, <1>4, <1>5, <1>6, NextCases

-----------------------------------------------------------------------------
(* The state that Handle sees *)

\* While somebody entitled holds a reference, Handle sees an open handle or
\* one whose close was requested; a handle nobody closed is open.
LEMMA GuardedState ==
  ASSUME IInv
  PROVE  /\ Guarded => HandleState = IF closeRequested = 0 THEN "open" ELSE "closing"
         /\ closeRequested >= 2 => Holders \ late = {}
BY DEF IInv, TypeOK, NoReturn, DestructorState, Guarded, HandleState

\* The steps that change what Handle sees: the swap of a close, the deletion
\* of the database and the return of the memory.
LEMMA StateSteps ==
  ASSUME IInv, CollectedOnce, OtherStep
  PROVE  \/ HandleState' = HandleState
         \/ HandleState = "closing" /\ HandleState' = "closed" /\ Holders \ late = {}
         \/ HandleState = "closed" /\ HandleState' = "gone"
<1>. USE DEF IInv, TypeOK, DestructorRunsOnce, DestructorState, HandleState
<1>1. CASE UNCHANGED vars \/ ForgetTerm \/ Gone
  BY <1>1 DEF vars, ForgetTerm, Gone
<1>2. ASSUME NEW t \in Threads, \/ RetrieveDbObject(t) \/ CheckDb(t) \/ FinishUse(t)
                                \/ Close(t) \/ TestCloseRequested(t) \/ Collect(t)
                                \/ SwapCloseRequested(t) /\ closeRequested # 0
      PROVE  HandleState' = HandleState
  BY <1>2 DEF RetrieveDbObject, CheckDb, FinishUse, Close, TestCloseRequested, Collect,
              SwapCloseRequested
<1>3. ASSUME NEW t \in Threads, SwapToDestructor(t) PROVE HandleState' = HandleState
  BY <1>3 DEF SwapToDestructor
<1>4. ASSUME NEW t \in Threads, DeleteDb(t) \/ NullDb(t)
      PROVE  \/ HandleState' = HandleState
             \/ HandleState = "closing" /\ HandleState' = "closed" /\ Holders \ late = {}
  <2>1. closeRequested = 2
    BY <1>4 DEF DeleteDb, NullDb, Goto
  <2>2. Holders \ late = {}
    BY <2>1, GuardedState
  <2>3. memory' = memory /\ closeRequested' = closeRequested /\ mDb' # "open"
    BY <1>4 DEF DeleteDb, NullDb
  <2>. QED BY <2>1, <2>2, <2>3
<1>5. ASSUME NEW t \in Threads, MarkDone(t) PROVE HandleState' = HandleState
  <2>1. mDb = "null" /\ closeRequested = 2
    BY <1>5 DEF MarkDone, Goto
  <2>. QED BY <1>5, <2>1 DEF MarkDone
<1>6. ASSUME NEW t \in Threads, DtorLock(t) \/ Broadcast(t) \/ DtorUnlock(t)
      PROVE  HandleState' = HandleState
  BY <1>6 DEF DtorLock, Broadcast, DtorUnlock
<1>7. ASSUME NEW t \in Threads, Await(t)
      PROVE  \/ HandleState' = HandleState
             \/ HandleState = "closed" /\ HandleState' = "gone"
  <2>1. CASE DestroyMutex(t)
    BY <2>1 DEF DestroyMutex, Goto, CollectedOnce, Awaiting
  <2>2. CASE FreeMemory(t)
    BY <2>2 DEF FreeMemory
  <2>3. CASE AwaitQuickTest(t) \/ AwaitLock(t) \/ AwaitRetest(t) \/ SpuriousWakeup(t)
             \/ AwaitUnlock(t)
    BY <2>3 DEF AwaitQuickTest, AwaitLock, AwaitRetest, SpuriousWakeup, AwaitUnlock
  <2>. QED BY <1>7, <2>1, <2>2, <2>3 DEF Await
<1>. QED BY <1>1, <1>2, <1>3, <1>4, <1>5, <1>6, <1>7 DEF OtherStep, Destructor

-----------------------------------------------------------------------------
(* The refinement *)

\* A step of the protocol is a step of Handle, or Handle does not see it.
LEMMA StepIsPromised ==
  ASSUME RInv, [Next]_vars
  PROVE  [Promise!Next]_<<HandleState, Holders \ late>>
<1>. DEFINE Seen == <<HandleState, Holders \ late>>
<1>. USE DEF RInv
<1>0. TypeOK
  BY DEF IInv
<1>1. CASE OtherStep
  <2>1. Holders' = Holders /\ late' = late
    BY <1>0, <1>1, OtherHolders
  <2>2. CASE HandleState = "closing" /\ HandleState' = "closed" /\ Holders \ late = {}
    BY <2>1, <2>2 DEF Promise!Next, Promise!Destroy
  <2>3. CASE HandleState = "closed" /\ HandleState' = "gone"
    BY <2>1, <2>3 DEF Promise!Next, Promise!Reclaim
  <2>4. CASE HandleState' = HandleState
    BY <2>1, <2>4
  <2>. QED BY <1>1, <2>2, <2>3, <2>4, StateSteps
<1>2. ASSUME NEW x \in Threads \cup Children, NewHolder(x),
             HandleState' = HandleState,
             late' = IF Guarded THEN late ELSE late \cup {x}
      PROVE  [Promise!Next]_Seen
  <2>1. CASE Guarded
    <3>1. x \notin Holders \ late /\ (Holders \ late)' = (Holders \ late) \cup {x}
      BY <1>2, <2>1 DEF NewHolder, LateHolds
    <3>2. HandleState = "open" \/ (HandleState = "closing" /\ Holders \ late # {})
      BY <2>1, GuardedState DEF Guarded
    <3>. QED BY <1>2, <3>1, <3>2 DEF Promise!Next, Promise!Enter
  <2>2. CASE ~Guarded
    BY <1>2, <2>2 DEF NewHolder
  <2>. QED BY <2>1, <2>2
<1>3. ASSUME NEW t \in Threads, AssignRef(t) PROVE [Promise!Next]_Seen
  <2>1. HandleState' = HandleState
    BY <1>3 DEF AssignRef, HandleState
  <2>. QED BY <1>0, <1>2, <1>3, <2>1, AssignRefHolders
<1>4. ASSUME NEW t \in Threads, NEW c \in Children, CreateChild(t, c)
      PROVE  [Promise!Next]_Seen
  <2>1. HandleState' = HandleState
    BY <1>4 DEF CreateChild, HandleState
  <2>. QED BY <1>0, <1>2, <1>4, <2>1, CreateChildHolders
<1>5. ASSUME NEW t \in Threads, RefDec(t) PROVE [Promise!Next]_Seen
  <2>1. HandleState' = HandleState
    BY <1>5 DEF RefDec, HandleState
  <2>2. Holders' = Holders \ {t} /\ late' = late \ {t}
    BY <1>0, <1>5, RefDecHolders
  <2>3. (Holders \ late)' = (Holders \ late) \ ((Holders \ late) \cap {t})
    BY <2>2
  <2>4. Promise!Leave((Holders \ late) \cap {t})
    BY <2>1, <2>3 DEF Promise!Leave
  <2>. QED BY <2>4 DEF Promise!Next
<1>6. ASSUME NEW t \in Threads, NEW c \in Children, DropChild(t, c)
      PROVE  [Promise!Next]_Seen
  <2>1. HandleState' = HandleState
    BY <1>6 DEF DropChild, HandleState
  <2>2. /\ c \in Holders /\ t \notin Holders
        /\ Holders' = (Holders \ {c}) \cup {t}
        /\ late' = IF c \in late THEN (late \ {c}) \cup {t} ELSE late
    BY <1>0, <1>6, DropChildHolders
  <2>3. CASE c \in late
    <3>1. (Holders \ late)' = Holders \ late
      BY <2>2, <2>3
    <3>. QED BY <2>1, <3>1
  <2>4. CASE c \notin late
    <3>1. /\ c \in Holders \ late /\ t \notin Holders \ late
          /\ (Holders \ late)' = ((Holders \ late) \ {c}) \cup {t}
      BY <2>2, <2>4 DEF LateHolds
    <3>2. Promise!Transfer(c, t)
      BY <2>1, <3>1 DEF Promise!Transfer
    <3>. QED BY <3>2 DEF Promise!Next
  <2>. QED BY <2>3, <2>4
<1>7. ASSUME NEW t \in Threads, SwapCloseRequested(t), closeRequested = 0
      PROVE  [Promise!Next]_Seen
  <2>1. NewHolder(t) /\ late' = late
    BY <1>0, <1>7, SwapHolders
  <2>2. HandleState = "open"
    BY <1>7, GuardedState DEF Guarded
  <2>3. HandleState' = "closing"
    BY <1>7, <2>2 DEF SwapCloseRequested, HandleState
  <2>4. t \notin Holders \ late /\ (Holders \ late)' = (Holders \ late) \cup {t}
    BY <2>1 DEF NewHolder, LateHolds
  <2>. QED BY <2>2, <2>3, <2>4 DEF Promise!Next, Promise!RequestClose
<1>. QED BY <1>1, <1>3, <1>4, <1>5, <1>6, <1>7, NextCases

\* The invariant of the refinement: one collection, and late holders only.
THEOREM RInvInductive == Spec => []RInv
<1>1. Init => CollectedOnce /\ LateHolds
  BY DEF Init, CollectedOnce, Awaiting, LateHolds
<1>2. RInv /\ [Next]_vars => (CollectedOnce /\ LateHolds)'
  BY CollectedStep, LateStep DEF RInv, IInv
<1>3. Init => RInv
  BY <1>1, IInvInit DEF RInv
<1>4. IInv /\ IInv' /\ CollectedOnce /\ LateHolds /\ [Next]_vars => (CollectedOnce /\ LateHolds)'
  BY <1>2 DEF RInv
<1>. QED BY <1>1, <1>4, IInvInductive, PTL DEF Spec, RInv

\* The close protocol keeps the promise of Handle: whoever entered entitled
\* keeps a usable handle until it leaves, and the handle is destroyed after
\* the last of them and reclaimed after that, once.
THEOREM ProtocolKeepsItsPromise == Spec => Promise!Spec
<1>1. Init => Promise!Init
  BY DEF Init, Promise!Init, HandleState, Holders, HoldingThreads, Holding
<1>2. RInv /\ [Next]_vars => [Promise!Next]_<<HandleState, Holders \ late>>
  BY StepIsPromised
<1>. QED BY <1>1, <1>2, RInvInductive, PTL DEF Spec, Promise!Spec
=============================================================================
