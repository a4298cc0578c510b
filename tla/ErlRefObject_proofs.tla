------------------------ MODULE ErlRefObject_proofs ------------------------
(***************************************************************************)
(* The safety of the close protocol, for any finite sets of threads and of *)
(* objects holding a reference.                                            *)
(***************************************************************************)
EXTENDS ErlRefObject, FiniteSetTheorems, TLAPS

\* Who is beyond the point of no return, and what that implies: once a thread
\* has brought the count to 0 after the close, nobody entitled is left.
NoReturn == (closeRequested >= 2 \/ \E t \in Threads : pc[t] = "swapDtor")
              => ~Guarded

\* The database and the memory follow the close word and the one thread that
\* runs the destructor.
DestructorState ==
    /\ closeRequested < 2 => mDb = "open"
    /\ closeRequested = 3 => mDb = "null"
    /\ \A t \in Threads : pc[t] \in {"dtorLock", "markDone"} => mDb = "null"
    /\ \A t \in Threads : pc[t] \in {"broadcast", "dtorUnlock"} => closeRequested = 3
    /\ \A t \in Threads : pc[t] \in {"awaitUnlock", "destroyMutex", "free"}
                            => closeRequested = 3
    /\ memory # "live" => closeRequested = 3

IInv == /\ TypeOK
        /\ CountIsHolders
        /\ DestructorRunsOnce
        /\ NoReturn
        /\ DestructorState

\* An invariant that is inductive, and the three properties it is for.
LEMMA IInvGivesSafety ==
    IInv => EntitledHoldersAreSafe /\ FreedOnlyWhenDone
BY DEF IInv, TypeOK, NoReturn, DestructorState, Guarded,
       EntitledHoldersAreSafe, FreedOnlyWhenDone

-----------------------------------------------------------------------------
(* The type invariant *)

\* No step leaves the types.
LEMMA TypeStep ==
  ASSUME TypeOK, [Next]_vars
  PROVE  TypeOK'
<1>. USE DEF TypeOK, Locations, Jobs, Holding, Destroying, InAwaitMutex
<1>1. ASSUME NEW t \in Threads, Use(t) PROVE TypeOK'
  BY <1>1 DEF Use, RetrieveDbObject, AssignRef, CheckDb, FinishUse, CreateChild, Goto
<1>2. ASSUME NEW t \in Threads, Initiate(t) PROVE TypeOK'
  BY <1>2 DEF Initiate, Close, TestCloseRequested, SwapCloseRequested, Goto, Return, AfterClose
<1>3. ASSUME NEW t \in Threads, Release(t) PROVE TypeOK'
  <2>1. CASE RefDec(t)
    BY <2>1 DEF RefDec, Goto, Return, AfterClose
  <2>2. CASE SwapToDestructor(t)
    BY <2>2 DEF SwapToDestructor, Goto, Return, AfterClose
  <2>3. CASE \E c \in Children : DropChild(t, c)
    BY <2>3 DEF DropChild
  <2>. QED BY <1>3, <2>1, <2>2, <2>3 DEF Release
<1>4. ASSUME NEW t \in Threads, Destructor(t) PROVE TypeOK'
  BY <1>4 DEF Destructor, DeleteDb, NullDb, DtorLock, MarkDone, Broadcast,
              DtorUnlock, Goto, Return, AfterClose
<1>5. ASSUME NEW t \in Threads, Await(t) PROVE TypeOK'
  BY <1>5 DEF Await, AwaitQuickTest, AwaitLock, AwaitRetest, SpuriousWakeup,
              AwaitUnlock, DestroyMutex, FreeMemory, Goto
<1>6. ASSUME NEW t \in Threads, Collect(t) PROVE TypeOK'
  BY <1>6 DEF Collect
<1>7. CASE ForgetTerm
  BY <1>7 DEF ForgetTerm
<1>8. CASE Gone \/ UNCHANGED vars
  BY <1>8 DEF Gone, vars
<1>. QED BY <1>1, <1>2, <1>3, <1>4, <1>5, <1>6, <1>7, <1>8 DEF Next

\* Every variable keeps the values the code gives it.
THEOREM TypeCorrect == Spec => []TypeOK
<1>1. Init => TypeOK
  BY DEF Init, TypeOK, Locations, Jobs
<1>2. TypeOK /\ [Next]_vars => TypeOK'
  BY TypeStep
<1>. QED BY <1>1, <1>2, PTL DEF Spec

-----------------------------------------------------------------------------
(* The reference count *)

\* Only t moves in this step.
Moves(t) == \A u \in Threads \ {t} : pc'[u] = pc[u]

\* A thread that moves changes the number of holding threads by one when it
\* crosses the border of Holding, and not at all otherwise.
LEMMA HoldingCount ==
  ASSUME TypeOK, TypeOK', NEW t \in Threads, Moves(t)
  PROVE  /\ Cardinality(HoldingThreads) \in Nat /\ Cardinality(HoldingThreads') \in Nat
         /\ pc[t] \notin Holding /\ pc'[t] \in Holding
              => Cardinality(HoldingThreads') = Cardinality(HoldingThreads) + 1
         /\ pc[t] \in Holding /\ pc'[t] \notin Holding
              => Cardinality(HoldingThreads') = Cardinality(HoldingThreads) - 1
         /\ (pc[t] \in Holding <=> pc'[t] \in Holding)
              => HoldingThreads' = HoldingThreads
<1>1. IsFiniteSet(HoldingThreads) /\ IsFiniteSet(HoldingThreads')
  BY ThreadsFinite, FS_Subset DEF HoldingThreads
<1>2. Cardinality(HoldingThreads) \in Nat /\ Cardinality(HoldingThreads') \in Nat
  BY <1>1, FS_CardinalityType
<1>3. CASE pc[t] \notin Holding /\ pc'[t] \in Holding
  <2>1. HoldingThreads' = HoldingThreads \cup {t} /\ t \notin HoldingThreads
    BY <1>3 DEF HoldingThreads, Moves
  <2>. QED BY <1>1, <1>2, <1>3, <2>1, FS_AddElement
<1>4. CASE pc[t] \in Holding /\ pc'[t] \notin Holding
  <2>1. HoldingThreads' = HoldingThreads \ {t} /\ t \in HoldingThreads
    BY <1>4 DEF HoldingThreads, Moves
  <2>. QED BY <1>1, <1>2, <1>4, <2>1, FS_RemoveElement
<1>5. CASE pc[t] \in Holding <=> pc'[t] \in Holding
  <2>1. HoldingThreads' = HoldingThreads
    BY <1>5 DEF HoldingThreads, Moves
  <2>. QED BY <1>2, <1>5, <2>1
<1>. QED BY <1>3, <1>4, <1>5

\* An object that takes or gives back its reference changes the number of
\* objects that hold one by one.
LEMMA ChildrenCount ==
  ASSUME TypeOK, NEW c \in Children
  PROVE  /\ Cardinality(children) \in Nat
         /\ c \notin children =>
              Cardinality(children \cup {c}) = Cardinality(children) + 1
         /\ c \in children =>
              Cardinality(children \ {c}) = Cardinality(children) - 1
<1>1. IsFiniteSet(children)
  BY ChildrenFinite, FS_Subset DEF TypeOK
<1>. QED BY <1>1, FS_CardinalityType, FS_AddElement, FS_RemoveElement

\* The objects that hold a reference can be counted.
LEMMA ChildrenFew == ASSUME TypeOK PROVE Cardinality(children) \in Nat
BY ChildrenFinite, FS_Subset, FS_CardinalityType DEF TypeOK

\* A step that moves no reference: nobody crosses the border of Holding, the
\* close word does not leave 0, and the objects stay.
StillCount(t) == /\ Moves(t)
                 /\ pc[t] \in Holding <=> pc'[t] \in Holding
                 /\ closeRequested = 0 <=> closeRequested' = 0
                 /\ UNCHANGED <<refCount, children>>

\* A step that touches neither references nor the zero of the close word
\* leaves the balance of references alone.
LEMMA StillStep ==
  ASSUME TypeOK, TypeOK', CountIsHolders, NEW t \in Threads, StillCount(t)
  PROVE  CountIsHolders'
BY HoldingCount DEF StillCount, CountIsHolders, CreationRef

\* The count stays the number of holders: AssignRef, CreateChild, DropChild,
\* RefDec and the swap of a close are the steps that move a reference.
LEMMA CountStep ==
  ASSUME IInv, TypeOK', [Next]_vars
  PROVE  CountIsHolders'
<1>. USE DEF IInv
<1>1. ASSUME NEW t \in Threads, Use(t) PROVE CountIsHolders'
  <2>1. CASE RetrieveDbObject(t) \/ CheckDb(t) \/ FinishUse(t)
    <3>. StillCount(t)
      BY <2>1 DEF RetrieveDbObject, CheckDb, FinishUse, Goto, StillCount, Moves, Holding, TypeOK
    <3>. QED BY StillStep
  <2>2. CASE AssignRef(t)
    <3>1. Moves(t) /\ pc[t] \notin Holding /\ pc'[t] \in Holding
      BY <2>2 DEF AssignRef, Goto, Moves, Holding, TypeOK
    <3>2. /\ refCount' = refCount + 1 /\ children' = children
          /\ closeRequested' = closeRequested
      BY <2>2 DEF AssignRef
    <3>. QED BY <3>1, <3>2, HoldingCount, ChildrenFew DEF CountIsHolders, CreationRef
  <2>3. ASSUME NEW c \in Children, CreateChild(t, c) PROVE CountIsHolders'
    <3>1. HoldingThreads' = HoldingThreads /\ closeRequested' = closeRequested
      BY <2>3 DEF CreateChild, HoldingThreads
    <3>2. /\ c \notin children /\ children' = children \cup {c}
          /\ refCount' = refCount + 1
      BY <2>3 DEF CreateChild
    <3>3. Cardinality(HoldingThreads) \in Nat
      BY ThreadsFinite, FS_Subset, FS_CardinalityType DEF HoldingThreads
    <3>. QED BY <3>1, <3>2, <3>3, ChildrenCount DEF CountIsHolders, CreationRef
  <2>. QED BY <1>1, <2>1, <2>2, <2>3 DEF Use
<1>2. ASSUME NEW t \in Threads, Initiate(t) PROVE CountIsHolders'
  <2>1. CASE Close(t) \/ TestCloseRequested(t) \/ (SwapCloseRequested(t) /\ closeRequested # 0)
    <3>. StillCount(t)
      BY <2>1 DEF Close, TestCloseRequested, SwapCloseRequested, Goto, Return, AfterClose,
                  StillCount, Moves, Holding, TypeOK
    <3>. QED BY StillStep
  <2>2. CASE SwapCloseRequested(t) /\ closeRequested = 0
    <3>1. Moves(t) /\ pc[t] \notin Holding /\ pc'[t] \in Holding
      BY <2>2 DEF SwapCloseRequested, Goto, Moves, Holding, TypeOK
    <3>2. closeRequested' = 1 /\ refCount' = refCount /\ children' = children
      BY <2>2 DEF SwapCloseRequested
    <3>. QED BY <2>2, <3>1, <3>2, HoldingCount, ChildrenFew DEF CountIsHolders, CreationRef
  <2>. QED BY <1>2, <2>1, <2>2 DEF Initiate
<1>3. ASSUME NEW t \in Threads, Release(t) PROVE CountIsHolders'
  <2>1. CASE RefDec(t)
    <3>1. Moves(t) /\ pc[t] \in Holding /\ pc'[t] \notin Holding
      BY <2>1 DEF RefDec, Goto, Return, AfterClose, Moves, Holding, TypeOK
    <3>2. /\ refCount' = refCount - 1 /\ children' = children
          /\ closeRequested' = closeRequested
      BY <2>1 DEF RefDec
    <3>. QED BY <3>1, <3>2, HoldingCount, ChildrenFew DEF CountIsHolders, CreationRef
  <2>2. CASE SwapToDestructor(t)
    <3>. StillCount(t)
      BY <2>2 DEF SwapToDestructor, Goto, Return, AfterClose, StillCount, Moves, Holding, TypeOK
    <3>. QED BY StillStep
  <2>3. ASSUME NEW c \in Children, DropChild(t, c) PROVE CountIsHolders'
    <3>1. Moves(t) /\ pc[t] \notin Holding /\ pc'[t] \in Holding
      BY <2>3 DEF DropChild, Moves, Holding, TypeOK
    <3>2. /\ c \in children /\ children' = children \ {c} /\ refCount' = refCount
          /\ closeRequested' = closeRequested
      BY <2>3 DEF DropChild
    <3>. QED BY <3>1, <3>2, HoldingCount, ChildrenCount DEF CountIsHolders, CreationRef
  <2>. QED BY <1>3, <2>1, <2>2, <2>3 DEF Release
<1>4. ASSUME NEW t \in Threads, Destructor(t) PROVE CountIsHolders'
  <2>1. CASE Broadcast(t)
    <3>1. HoldingThreads' = HoldingThreads
      BY <2>1 DEF Broadcast, HoldingThreads, Holding, TypeOK
    <3>. QED BY <2>1, <3>1 DEF Broadcast, CountIsHolders, CreationRef
  <2>2. CASE ~Broadcast(t)
    <3>1. MarkDone(t) => closeRequested = 2
      BY DEF MarkDone, Goto, DestructorRunsOnce
    <3>2. StillCount(t)
      BY <1>4, <2>2, <3>1
         DEF Destructor, DeleteDb, NullDb, DtorLock, MarkDone, DtorUnlock, Goto, Return,
             AfterClose, StillCount, Moves, Holding, TypeOK
    <3>. QED BY <3>2, StillStep
  <2>. QED BY <2>1, <2>2
<1>5. ASSUME NEW t \in Threads, Await(t) \/ Collect(t) PROVE CountIsHolders'
  <2>. StillCount(t)
    BY <1>5 DEF Await, AwaitQuickTest, AwaitLock, AwaitRetest, SpuriousWakeup, AwaitUnlock,
                DestroyMutex, FreeMemory, Collect, Goto, StillCount, Moves, Holding, TypeOK
  <2>. QED BY StillStep
<1>6. CASE ForgetTerm \/ Gone \/ UNCHANGED vars
  BY <1>6 DEF ForgetTerm, Gone, vars, CountIsHolders, CreationRef, HoldingThreads
<1>. QED BY <1>1, <1>2, <1>3, <1>4, <1>5, <1>6 DEF Next

-----------------------------------------------------------------------------
(* The destructor *)

\* A count of 0 means that nobody holds a reference and that the creation
\* reference is gone: only then can a thread be elected.
LEMMA ZeroCount ==
  TypeOK /\ CountIsHolders /\ refCount = 0 => Holders = {} /\ closeRequested # 0
<1>. SUFFICES ASSUME TypeOK, CountIsHolders, refCount = 0
              PROVE  Holders = {} /\ closeRequested # 0
  OBVIOUS
<1>1. IsFiniteSet(HoldingThreads) /\ IsFiniteSet(children)
  BY ThreadsFinite, ChildrenFinite, FS_Subset DEF HoldingThreads, TypeOK
<1>2. Cardinality(HoldingThreads) = 0 /\ Cardinality(children) = 0 /\ CreationRef = 0
  BY <1>1, FS_CardinalityType DEF CountIsHolders, CreationRef
<1>. QED BY <1>1, <1>2, FS_EmptySet DEF Holders, CreationRef

\* The same of the state after a step.
LEMMA ZeroCountAfter ==
  (TypeOK /\ CountIsHolders /\ refCount = 0 => Holders = {} /\ closeRequested # 0)'
BY ZeroCount, PTL

\* Once nobody entitled is left, nobody entitled comes back: whoever takes a
\* reference then is late.
LEMMA UnguardedForEver ==
  ASSUME TypeOK, TypeOK', ~Guarded, [Next]_vars
  PROVE  ~Guarded'
<1>. USE DEF TypeOK, Guarded, Holders, HoldingThreads, Holding
<1>1. ASSUME NEW t \in Threads, Use(t) PROVE ~Guarded'
  BY <1>1 DEF Use, RetrieveDbObject, AssignRef, CheckDb, FinishUse, CreateChild, Goto
<1>2. ASSUME NEW t \in Threads, Initiate(t) PROVE ~Guarded'
  BY <1>2 DEF Initiate, Close, TestCloseRequested, SwapCloseRequested, Goto, Return, AfterClose
<1>3. ASSUME NEW t \in Threads, RefDec(t) PROVE ~Guarded'
  <2>1. closeRequested' # 0 /\ children' = children /\ late' = late \ {t}
    BY <1>3 DEF RefDec
  <2>2. HoldingThreads' = HoldingThreads \ {t}
    BY <1>3 DEF RefDec, Goto, Return, AfterClose
  <2>3. t \notin children
    BY ThreadsAreNotChildren
  <2>. QED BY <2>1, <2>2, <2>3
<1>4. ASSUME NEW t \in Threads, SwapToDestructor(t) PROVE ~Guarded'
  BY <1>4 DEF SwapToDestructor, Goto, Return, AfterClose
<1>5. ASSUME NEW t \in Threads, NEW c \in Children, DropChild(t, c) PROVE ~Guarded'
  BY <1>5, ThreadsAreNotChildren DEF DropChild
<1>6. ASSUME NEW t \in Threads, Destructor(t) PROVE ~Guarded'
  BY <1>6 DEF Destructor, DeleteDb, NullDb, DtorLock, MarkDone, Broadcast, DtorUnlock,
              Goto, Return, AfterClose
<1>7. ASSUME NEW t \in Threads, Await(t) \/ Collect(t) PROVE ~Guarded'
  BY <1>7 DEF Await, AwaitQuickTest, AwaitLock, AwaitRetest, SpuriousWakeup, AwaitUnlock,
              DestroyMutex, FreeMemory, Collect, Goto
<1>8. CASE ForgetTerm \/ Gone \/ UNCHANGED vars
  BY <1>8 DEF ForgetTerm, Gone, vars
<1>. QED BY <1>1, <1>2, <1>3, <1>4, <1>5, <1>6, <1>7, <1>8 DEF Next, Release

\* The point of no return is reached by bringing the count to 0.
LEMMA NoReturnStep ==
  ASSUME IInv, TypeOK', CountIsHolders', [Next]_vars
  PROVE  NoReturn'
<1>. USE DEF IInv
<1>1. CASE ~Guarded
  BY <1>1, UnguardedForEver DEF NoReturn
<1>2. CASE Guarded
  <2>. USE DEF TypeOK
  <2>1. closeRequested < 2 /\ \A t \in Threads : pc[t] # "swapDtor"
    BY <1>2 DEF NoReturn
  <2>2. \A t \in Threads : ~Destructor(t) /\ ~SwapToDestructor(t)
    BY <2>1 DEF SwapToDestructor, Destructor, DeleteDb, NullDb, DtorLock, MarkDone, Broadcast,
                DtorUnlock, Goto, DestructorRunsOnce, DestructorState
  <2>3. ASSUME NEW t \in Threads, RefDec(t) PROVE NoReturn'
    <3>1. CASE refCount' = 0
      BY <3>1, ZeroCountAfter DEF NoReturn, Guarded
    <3>2. CASE refCount' # 0
      BY <2>1, <2>3, <3>2 DEF RefDec, Return, AfterClose, NoReturn
    <3>. QED BY <3>1, <3>2
  <2>4. ASSUME NEW t \in Threads, Use(t) \/ Initiate(t) PROVE NoReturn'
    BY <2>1, <2>4
       DEF Use, RetrieveDbObject, AssignRef, CheckDb, FinishUse, CreateChild, Initiate, Close,
           TestCloseRequested, SwapCloseRequested, Goto, Return, AfterClose, NoReturn
  <2>5. ASSUME NEW t \in Threads, NEW c \in Children, DropChild(t, c) PROVE NoReturn'
    BY <2>1, <2>5 DEF DropChild, NoReturn
  <2>6. ASSUME NEW t \in Threads, Await(t) \/ Collect(t) PROVE NoReturn'
    BY <2>1, <2>6
       DEF Await, AwaitQuickTest, AwaitLock, AwaitRetest, SpuriousWakeup, AwaitUnlock,
           DestroyMutex, FreeMemory, Collect, Goto, NoReturn
  <2>7. CASE ForgetTerm \/ Gone \/ UNCHANGED vars
    BY <2>1, <2>7 DEF ForgetTerm, Gone, vars, NoReturn
  <2>. QED BY <2>2, <2>3, <2>4, <2>5, <2>6, <2>7 DEF Next, Release
<1>. QED BY <1>1, <1>2

\* One destructor, and the state it leaves behind.
LEMMA DestructorStep ==
  ASSUME IInv, TypeOK', [Next]_vars
  PROVE  DestructorRunsOnce' /\ DestructorState'
<1>. USE DEF IInv, TypeOK, DestructorRunsOnce, DestructorState, Destroying
<1>1. ASSUME NEW t \in Threads, Use(t) PROVE DestructorRunsOnce' /\ DestructorState'
  BY <1>1 DEF Use, RetrieveDbObject, AssignRef, CheckDb, FinishUse, CreateChild, Goto
<1>2. ASSUME NEW t \in Threads, Initiate(t) PROVE DestructorRunsOnce' /\ DestructorState'
  <2>1. CASE Close(t)
    BY <2>1 DEF Close
  <2>2. CASE TestCloseRequested(t)
    BY <2>2 DEF TestCloseRequested, Goto, Return, AfterClose
  <2>3. CASE SwapCloseRequested(t)
    BY <2>3 DEF SwapCloseRequested, Goto, Return, AfterClose
  <2>. QED BY <1>2, <2>1, <2>2, <2>3 DEF Initiate
<1>3. ASSUME NEW t \in Threads, RefDec(t) PROVE DestructorRunsOnce' /\ DestructorState'
  BY <1>3 DEF RefDec, Goto, Return, AfterClose
<1>4. ASSUME NEW t \in Threads, SwapToDestructor(t)
      PROVE  DestructorRunsOnce' /\ DestructorState'
  <2>1. CASE closeRequested = 1
    <3>1. closeRequested' = 2 /\ pc' = [pc EXCEPT ![t] = "deleteDb"]
      BY <1>4, <2>1 DEF SwapToDestructor, Goto
    <3>2. \A u \in Threads : pc[u] \notin Destroying
      BY <2>1
    <3>. QED BY <1>4, <2>1, <3>1, <3>2 DEF SwapToDestructor
  <2>2. CASE closeRequested # 1
    BY <1>4, <2>2 DEF SwapToDestructor, Return, AfterClose
  <2>. QED BY <2>1, <2>2
<1>5. ASSUME NEW t \in Threads, NEW c \in Children, DropChild(t, c)
      PROVE  DestructorRunsOnce' /\ DestructorState'
  BY <1>5 DEF DropChild
<1>6. ASSUME NEW t \in Threads, Destructor(t) PROVE DestructorRunsOnce' /\ DestructorState'
  <2>1. CASE DeleteDb(t) \/ NullDb(t) \/ DtorLock(t)
    BY <2>1 DEF DeleteDb, NullDb, DtorLock, Goto
  <2>2. CASE MarkDone(t)
    BY <2>2 DEF MarkDone, Goto
  <2>3. CASE Broadcast(t)
    BY <2>3 DEF Broadcast
  <2>4. CASE DtorUnlock(t)
    BY <2>4 DEF DtorUnlock, Return, AfterClose
  <2>. QED BY <1>6, <2>1, <2>2, <2>3, <2>4 DEF Destructor
<1>7. ASSUME NEW t \in Threads, Await(t) \/ Collect(t)
      PROVE  DestructorRunsOnce' /\ DestructorState'
  BY <1>7 DEF Await, AwaitQuickTest, AwaitLock, AwaitRetest, SpuriousWakeup, AwaitUnlock,
              DestroyMutex, FreeMemory, Collect, Goto
<1>8. CASE ForgetTerm \/ Gone \/ UNCHANGED vars
  BY <1>8 DEF ForgetTerm, Gone, vars
<1>. QED BY <1>1, <1>2, <1>3, <1>4, <1>5, <1>6, <1>7, <1>8 DEF Next, Release

-----------------------------------------------------------------------------
(* The theorems *)

\* A database just opened satisfies the inductive invariant.
LEMMA IInvInit == Init => IInv
<1>. SUFFICES ASSUME Init PROVE IInv
  OBVIOUS
<1>1. TypeOK
  BY DEF Init, TypeOK, Locations, Jobs
<1>2. HoldingThreads = {} /\ children = {}
  BY DEF Init, HoldingThreads, Holding
<1>3. CountIsHolders
  BY <1>2, FS_EmptySet DEF Init, CountIsHolders, CreationRef
<1>. QED BY <1>1, <1>3 DEF Init, IInv, DestructorRunsOnce, NoReturn, DestructorState, Destroying

\* The inductive invariant: the balance of references, the uniqueness of the
\* destructor, the point of no return, and the state the destructor leaves
\* behind hold together, although none of them does alone.
THEOREM IInvInductive == Spec => []IInv
<1>1. TypeOK /\ [Next]_vars => TypeOK'
  BY TypeStep
<1>2. IInv /\ [Next]_vars => IInv'
  BY <1>1, CountStep, NoReturnStep, DestructorStep DEF IInv
<1>. QED BY <1>2, IInvInit, PTL DEF Spec

\* Every reference is given back exactly once, on every interleaving of any
\* number of uses and closes.
THEOREM ReferencesBalance == Spec => []CountIsHolders
<1>1. IInv => CountIsHolders
  BY DEF IInv
<1>. QED BY <1>1, IInvInductive, PTL

\* The destructor of the database runs at most once, although several threads
\* may see the count reach 0.
THEOREM DestroyedOnce == Spec => []DestructorRunsOnce
<1>1. IInv => DestructorRunsOnce
  BY DEF IInv
<1>. QED BY <1>1, IInvInductive, PTL

\* Who was entitled to its reference keeps an open database until it has
\* given the reference back.
THEOREM HoldersAreSafe == Spec => []EntitledHoldersAreSafe
BY IInvGivesSafety, IInvInductive, PTL

\* Erlang frees the memory of a handle after its destructor, never before.
THEOREM NoEarlyFree == Spec => []FreedOnlyWhenDone
BY IInvGivesSafety, IInvInductive, PTL

\* The close word counts 0, 1, 2, 3 and never goes back.
THEOREM WordAdvances == Spec => CloseWordAdvances
<1>1. IInv /\ [Next]_vars => closeRequested' = closeRequested + 1 \/ UNCHANGED closeRequested
  <2>. SUFFICES ASSUME IInv, [Next]_vars
                PROVE  closeRequested' = closeRequested + 1 \/ UNCHANGED closeRequested
    OBVIOUS
  <2>1. ASSUME NEW t \in Threads, MarkDone(t)
        PROVE  closeRequested' = closeRequested + 1
    <3>1. closeRequested = 2
      BY <2>1 DEF IInv, MarkDone, Goto, DestructorRunsOnce
    <3>. QED BY <2>1, <3>1 DEF MarkDone
  <2>2. CASE \E t \in Threads : MarkDone(t)
    BY <2>1, <2>2
  <2>3. CASE \A t \in Threads : ~MarkDone(t)
    BY <2>3
       DEF Next, Use, RetrieveDbObject, AssignRef, CheckDb, FinishUse, CreateChild, Initiate,
           Close, TestCloseRequested, SwapCloseRequested, Release, RefDec, SwapToDestructor,
           DropChild, Destructor, DeleteDb, NullDb, DtorLock, Broadcast, DtorUnlock, Await,
           AwaitQuickTest, AwaitLock, AwaitRetest, SpuriousWakeup, AwaitUnlock, DestroyMutex,
           FreeMemory, Collect, ForgetTerm, Gone, vars
  <2>. QED BY <2>2, <2>3
<1>. QED BY <1>1, IInvInductive, PTL DEF Spec, CloseWordAdvances
=============================================================================
