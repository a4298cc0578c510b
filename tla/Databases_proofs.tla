-------------------------- MODULE Databases_proofs --------------------------
(***************************************************************************)
(* A directory stays locked for a reason only, acknowledged writes stay in *)
(* the files, and every handle keeps the promise of Handle, for any number *)
(* of opens, threads and families.                                         *)
(***************************************************************************)
EXTENDS Databases, FiniteSetTheorems, RecursionFacts

Names  == Families \cup {"default"}
Writes == [id : Nat, cf : Names]
Dirs   == [exists : BOOLEAN, families : SUBSET Names, data : SUBSET Writes]

\* The values of pc.
Places == {"retrieved", "retrieving", "toDrop", "using", "creating", "dropping"}
Jobs == {Idle}
        \cup [at : Places, db : Handles, obj : AllObjects \cup {None}]
        \cup [at : {"shutdown"}, db : Handles, list : {"iterators", "families"}]
        \cup [at : {"deleting"}, db : Handles]

Types == /\ files \in [Paths -> Dirs]
         /\ lock \in [Paths -> Handles \cup {None}]
         /\ word \in [Handles -> {"none", "open", "closing", "deleted"}]
         /\ path \in [Handles -> Paths \cup {None}]
         /\ \A h \in Handles : word[h] # "none" => path[h] \in Paths
         /\ objs \subseteq AllObjects /\ closed \subseteq objs /\ afterClose \subseteq objs
         /\ late \subseteq Threads \cup objs
         /\ pc \in [Threads -> Jobs]
         /\ acked \in [Paths -> SUBSET Writes]
         /\ puts \in 0..MaxPuts

Opened(h) == word[h] \in {"open", "closing"}

\* A handle whose last reference was given back: somebody runs ~DbObject, or
\* has run it.
Lost(h) == word[h] = "deleted" \/ \E u \in Threads : Deletes(u, h)

\* What a thread has in hand exists, and who creates an object is alone with
\* it.
EngagedAt(t) ==
    /\ pc[t] # Idle => word[pc[t].db] # "none"
    /\ pc[t].at \in Places /\ pc[t].obj # None => pc[t].obj.db = pc[t].db
    /\ pc[t].at \in {"retrieving", "toDrop", "creating", "dropping"} => pc[t].obj # None
    /\ pc[t].at \in {"using", "creating", "dropping"} /\ pc[t].obj # None => pc[t].obj \in objs
    /\ pc[t].at = "shutdown" => word[pc[t].db] = "closing"
    /\ \A o \in objs : Creates(t, o) => \A u \in Threads : ~HasArgument(u, o)

Engaged == \A t \in Threads : EngagedAt(t)

\* Who came in time has a handle that is not deleted, one thread at most
\* deletes it, when nobody else has it, and who came late came after that.
InTime ==
    /\ \A o \in objs : IF o \in late THEN Lost(o.db) ELSE Opened(o.db)
    /\ \A t \in Threads :
         /\ pc[t].at \in Borrowing => IF t \in late THEN Lost(pc[t].db) ELSE Opened(pc[t].db)
         /\ t \in late => pc[t].at \in Borrowing \ {"shutdown"}
    /\ \A h \in Handles, t \in Threads : Deletes(t, h) =>
         /\ word[h] = "closing" /\ Holders(h) \ late = {}
         /\ \A u \in Threads : Deletes(u, h) => u = t

ShutsDown(t, h) == pc[t].at = "shutdown" /\ pc[t].db = h

\* An object that was closed waits for its borrowers, and Shutdown closes all
\* that were there before it, but for those whose creation it came upon.
Closed ==
    /\ \A o \in closed : o \in afterClose \/ \E t \in Threads : BorrowsObject(t, o)
    /\ \A t \in Threads, o \in objs :
         Creates(t, o) => o \in afterClose \/ (word[o.db] = "open" /\ o \notin closed)
    /\ \A t \in Threads : pc[t].at = "shutdown" /\ pc[t].list = "families" =>
         \A o \in ObjectsOf(pc[t].db) : IsItr(o) => o \in closed \cup afterClose
    /\ \A h \in Handles : word[h] = "closing" /\ (\A t \in Threads : ~ShutsDown(t, h)) =>
         ObjectsOf(h) \subseteq closed \cup afterClose

\* The two halves of LockIsHeldForAReason.
Awaited ==
    \A h \in Handles :
        word[h] = "closing" => \/ \E t \in Threads \ late : Borrows(t, h)
                              \/ (ObjectsOf(h) \ late) \cap afterClose # {}
                              \/ \E t \in Threads : Deletes(t, h)

Locks ==
    /\ \A h \in Handles : word[h] \in {"open", "closing"} => lock[path[h]] = h
    /\ \A p \in Paths :
          lock[p] # None => path[lock[p]] = p /\ word[lock[p]] \in {"open", "closing"}

IInv == Types /\ Engaged /\ InTime /\ Closed /\ Awaited /\ Locks /\ AcknowledgedWritesSurvive
-----------------------------------------------------------------------------
(* Types *)

\* Open takes a handle that was never used.
LEMMA FirstUnusedIsUnused ==
  ASSUME \E g \in Handles : word[g] = "none"
  PROVE  FirstUnused \in Handles /\ word[FirstUnused] = "none"
<1>. DEFINE unused == {h \in Handles : word[h] = "none"}
<1>1. unused \subseteq Nat /\ unused # {}
  BY BoundsAreNaturals DEF Handles
<1>2. PICK m \in unused : \A j \in unused : <<j, m>> \notin OpToRel(<, Nat)
  BY <1>1, WFMin, NatLessThanWellFounded
<1>3. \A j \in unused : m <= j
  <2>. TAKE j \in unused
  <2>1. j \in Nat /\ m \in Nat
    BY <1>1
  <2>2. <<j, m>> \notin OpToRel(<, Nat)
    BY <1>2
  <2>3. ~(j < m)
    BY <2>1, <2>2 DEF OpToRel
  <2>. HIDE DEF unused
  <2>. QED BY <2>1, <2>3
<1>4. Min(unused) \in unused
  BY <1>3 DEF Min
<1>. QED BY <1>4 DEF FirstUnused

\* A call of open names a directory and families.
LEMMA OpensAreCalls ==
  ASSUME NEW call \in Opens
  PROVE  /\ call.path \in Paths
         /\ Named(call) \subseteq Names
         /\ \A h \in Handles : {Obj(h, name) : name \in Range(call.families)} \subseteq AllObjects
         /\ Range(call.families) \subseteq Names
<1>1. Range(call.families) \subseteq Names
  BY OpensNameFamilies DEF Range, Names
<1>. QED BY <1>1 DEF Paths, Named, Names, Obj, AllObjects

\* What a NIF leaves behind when it returns.
LEMMA FinishTypes ==
  ASSUME Types, NEW t \in Threads, NEW h \in Handles, NEW more, Finish(t, h, more)
  PROVE  /\ objs' \subseteq AllObjects /\ closed' \subseteq objs' /\ afterClose' \subseteq objs'
         /\ late' \subseteq Threads \cup objs'
         /\ pc' \in [Threads -> Jobs]
<1>. USE DEF Types
<1>1. /\ objs' \subseteq AllObjects /\ closed' \subseteq objs' /\ afterClose' \subseteq objs'
      /\ late' \subseteq Threads \cup objs'
  BY DEF Finish, CloseAll
<1>2. Idle \in Jobs /\ [at |-> "deleting", db |-> h] \in Jobs
  BY DEF Jobs
<1>3. pc' \in [Threads -> Jobs]
  BY <1>2 DEF Finish, Return
<1>. QED BY <1>1, <1>3

\* The fields of pc, by where the thread is.
LEMMA JobsAre ==
  ASSUME NEW j \in Jobs
  PROVE  /\ j.at \in {"idle", "shutdown", "deleting"} \cup Places
         /\ j.at = "idle" <=> j = Idle
         /\ j # Idle => j.db \in Handles
         /\ j.at \in Places => j.obj \in AllObjects \cup {None}
         /\ j.at = "shutdown" => j.list \in {"iterators", "families"}
         /\ j.at = "deleting" => j = [at |-> "deleting", db |-> j.db]
BY DEF Jobs, Idle, Places

\* A directory with one of its fields changed.
LEMMA DirsAre ==
  ASSUME NEW d \in Dirs
  PROVE  /\ d.families \in SUBSET Names /\ d.data \in SUBSET Writes
         /\ [d EXCEPT !.exists = TRUE] \in Dirs
         /\ \A names \in SUBSET Names : /\ [d EXCEPT !.families = names] \in Dirs
                                       /\ [d EXCEPT !.families = names].data = d.data
         /\ \A writes \in SUBSET Writes : [d EXCEPT !.data = writes] \in Dirs
         /\ [d EXCEPT !.exists = TRUE].families = d.families
BY DEF Dirs

\* Every step keeps the types.
LEMMA TypesStep ==
  ASSUME Types, [Next]_vars, Engaged
  PROVE  Types'
<1>. USE DEF Types, storage
<1>0. \A t \in Threads : /\ pc[t] # Idle => pc[t].db \in Handles /\ path[pc[t].db] \in Paths
                         /\ pc[t].at \in Places => pc[t] # Idle /\ pc[t].obj \in AllObjects \cup {None}
                         /\ pc[t].at \in {"shutdown", "deleting"} => pc[t] # Idle
  BY JobsAre DEF Engaged, EngagedAt, Idle, Places
<1>1. ASSUME NEW t \in Threads, Read(t) \/ Created(t) PROVE Types'
  <2>1. pc[t].at \in Places
    BY <1>1 DEF Read, Created, Places
  <2>. QED BY <1>0, <1>1, <2>1, FinishTypes DEF Read, Created
<1>2. ASSUME NEW t \in Threads, Put(t) PROVE Types'
  <2>. DEFINE h == pc[t].db
              p == path[h]
              write == [id |-> puts + 1, cf |-> IF pc[t].obj = None THEN "default" ELSE pc[t].obj.name]
  <2>1. /\ pc[t].at = "using" /\ puts < MaxPuts /\ puts' = puts + 1 /\ write.cf \in files[p].families
        /\ files' = [files EXCEPT ![p].data = IF Works(t) THEN @ \cup {write} ELSE @]
        /\ acked' = [acked EXCEPT ![p] = @ \cup {write}]
        /\ Finish(t, h, {})
        /\ UNCHANGED <<lock, word, path>>
    BY <1>2 DEF Put
  <2>2. h \in Handles
    BY <1>0, <2>1 DEF Places
  <2>3. p \in Paths
    BY <1>0, <2>1 DEF Places
  <2>4. puts' \in 0..MaxPuts /\ puts + 1 \in Nat
    BY <2>1, BoundsAreNaturals
  <2>5. files' \in [Paths -> Dirs]
        /\ acked' \in [Paths -> SUBSET Writes]
    <3>1. write \in Writes
      BY <2>1, <2>3, <2>4, DirsAre DEF Writes
    <3>. DEFINE new == IF Works(t) THEN files[p].data \cup {write} ELSE files[p].data
    <3>2. files' = [files EXCEPT ![p] = [files[p] EXCEPT !.data = new]]
      BY <2>1, <2>3
    <3>3. new \in SUBSET Writes
      BY <2>3, <3>1, DirsAre
    <3>. HIDE DEF write, new, h, p
    <3>4. files' \in [Paths -> Dirs]
      BY <2>3, <3>2, <3>3, DirsAre
    <3>5. acked' \in [Paths -> SUBSET Writes]
      BY <2>1, <2>3, <3>1
    <3>. QED BY <3>4, <3>5
  <2>7. /\ objs' \subseteq AllObjects /\ closed' \subseteq objs' /\ afterClose' \subseteq objs'
        /\ late' \subseteq Threads \cup objs'
        /\ pc' \in [Threads -> Jobs]
    BY <2>1, <2>2, FinishTypes
  <2>. QED BY <2>1, <2>4, <2>5, <2>7
<1>a. ASSUME NEW t \in Threads, NEW o \in AllObjects, o.db = pc[t].db, Construct(t, o)
      PROVE  /\ objs' \subseteq AllObjects /\ closed' \subseteq objs' /\ afterClose' \subseteq objs'
             /\ late' \subseteq Threads \cup objs'
             /\ pc' \in [Threads -> Jobs] /\ UNCHANGED <<word, path>>
             /\ pc[t].db \in Handles /\ path[pc[t].db] \in Paths
  <2>1. pc[t].db \in Handles /\ path[pc[t].db] \in Paths
    BY <1>0, <1>a DEF Construct, Places
  <2>2. [at |-> "creating", db |-> o.db, obj |-> o] \in Jobs
    BY <1>a, <2>1 DEF Jobs, Places
  <2>. QED BY <1>a, <2>1, <2>2 DEF Construct, At
<1>3. ASSUME NEW t \in Threads, Iterator(t) PROVE Types'
  <2>1. Obj(pc[t].db, "itr") \in AllObjects /\ Obj(pc[t].db, "itr").db = pc[t].db
    BY <1>0, <1>3 DEF Iterator, Construct, Places, AllObjects, Obj
  <2>. QED BY <1>3, <1>a, <2>1 DEF Iterator
<1>4. ASSUME NEW t \in Threads, NEW name \in Families, CreateColumnFamily(t, name) PROVE Types'
  <2>1. Obj(pc[t].db, name) \in AllObjects /\ Obj(pc[t].db, name).db = pc[t].db
    BY <1>0, <1>4 DEF CreateColumnFamily, Construct, Places, AllObjects, Obj
  <2>2. files' \in [Paths -> Dirs]
    <3>1. path[pc[t].db] \in Paths
      BY <1>4, <1>a, <2>1 DEF CreateColumnFamily
    <3>2. files' = [files EXCEPT ![path[pc[t].db]].families = @ \cup {name}] /\ name \in Names
      BY <1>4 DEF CreateColumnFamily, Names
    <3>. DEFINE p == path[pc[t].db]
                new == files[p].families \cup {name}
    <3>3. files' = [files EXCEPT ![p] = [files[p] EXCEPT !.families = new]]
      BY <3>1, <3>2
    <3>4. new \in SUBSET Names
      BY <3>1, <3>2, DirsAre
    <3>. HIDE DEF p, new
    <3>. QED BY <3>1, <3>3, <3>4, DirsAre
  <2>. QED BY <1>4, <1>a, <2>1, <2>2 DEF CreateColumnFamily
<1>5. ASSUME NEW t \in Threads, DropColumnFamily(t) PROVE Types'
  <2>1. /\ pc[t].at = "dropping" /\ pc[t].obj # None
    BY <1>5 DEF DropColumnFamily, Engaged, EngagedAt
  <2>2. /\ pc[t].obj \in AllObjects /\ pc[t].obj.db \in Handles
        /\ pc[t].obj.db = pc[t].db /\ path[pc[t].db] \in Paths
    BY <1>0, <2>1 DEF AllObjects, Places, Engaged, EngagedAt
  <2>3. /\ files' \in [Paths -> Dirs]
        /\ acked' \in [Paths -> SUBSET Writes]
    <3>. DEFINE p == path[pc[t].obj.db]
                Others(writes) == {w \in writes : w.cf # pc[t].obj.name}
    <3>1. p \in Paths
      BY <2>2
    <3>2. /\ files' = [files EXCEPT ![p].families = @ \ {pc[t].obj.name}, ![p].data = Others(@)]
          /\ acked' = [acked EXCEPT ![p] = Others(@)]
      BY <1>5 DEF DropColumnFamily
    <3>. DEFINE names == files[p].families \ {pc[t].obj.name}
                writes == Others(files[p].data)
                renamed == [files[p] EXCEPT !.families = names]
    <3>3. names \in SUBSET Names /\ writes \in SUBSET Writes /\ Others(acked[p]) \in SUBSET Writes
      BY <3>1, DirsAre
    <3>4. files' = [files EXCEPT ![p] = [renamed EXCEPT !.data = Others(@)]]
      BY <3>1, <3>2
    <3>. HIDE DEF p, names, Others
    <3>5. renamed \in Dirs /\ renamed.data = files[p].data
      BY <3>1, <3>3, DirsAre
    <3>6. files' = [files EXCEPT ![p] = [renamed EXCEPT !.data = writes]]
      BY <3>4, <3>5
    <3>. HIDE DEF renamed, writes
    <3>7. files' \in [Paths -> Dirs]
      BY <3>1, <3>3, <3>5, <3>6, DirsAre
    <3>8. acked' \in [Paths -> SUBSET Writes]
      BY <3>1, <3>2, <3>3
    <3>. QED BY <3>7, <3>8
  <2>4. /\ objs' \subseteq AllObjects /\ closed' \subseteq objs' /\ afterClose' \subseteq objs'
        /\ late' \subseteq Threads \cup objs'
        /\ pc' \in [Threads -> Jobs]
    BY <1>5, <2>2, FinishTypes DEF DropColumnFamily
  <2>. QED BY <1>5, <2>3, <2>4 DEF DropColumnFamily
<1>6. ASSUME NEW t \in Threads, Checkpoint(t) PROVE Types'
  <2>1. pc[t].db \in Handles
    BY <1>0, <1>6 DEF Checkpoint, Places
  <2>2. path[pc[t].db] \in Paths
    BY <1>0, <1>6 DEF Checkpoint, Places
  <2>3. Copy \in Paths
    BY DEF Paths
  <2>4. /\ objs' \subseteq AllObjects /\ closed' \subseteq objs' /\ afterClose' \subseteq objs'
        /\ late' \subseteq Threads \cup objs'
        /\ pc' \in [Threads -> Jobs]
    BY <1>6, <2>1, FinishTypes DEF Checkpoint
  <2>. QED BY <1>6, <2>1, <2>2, <2>3, <2>4 DEF Checkpoint
<1>b. ASSUME NEW t \in Threads, NEW place \in Places, NEW h \in Handles,
             NEW o \in AllObjects \cup {None}, At(t, place, h, o)
      PROVE  pc' \in [Threads -> Jobs]
  <2>1. [at |-> place, db |-> h, obj |-> o] \in Jobs
    BY DEF Jobs
  <2>. QED BY <1>b, <2>1 DEF At
<1>7. ASSUME NEW t \in Threads, NEW h \in Handles, Borrow(t, h) \/ Close(t, h) PROVE Types'
  <2>1. CASE Borrow(t, h)
    BY <1>b, <2>1 DEF Borrow, Places, objects
  <2>2. CASE Close(t, h)
    <3>1. [at |-> "shutdown", db |-> h, list |-> "iterators"] \in Jobs
      BY DEF Jobs
    <3>2. afterClose' \subseteq objs
      BY <2>2 DEF Close, ObjectsOf
    <3>. QED BY <2>2, <3>1, <3>2 DEF Close
  <2>. QED BY <1>7, <2>1, <2>2
<1>8. ASSUME NEW t \in Threads, NEW o \in objs, BorrowObject(t, o) \/ BorrowFamily(t, o) \/ BeginDrop(t, o)
      PROVE Types'
  <2>1. o \in AllObjects /\ o.db \in Handles
    BY <1>8 DEF AllObjects
  <2>2. pc' \in [Threads -> Jobs]
    BY <1>8, <1>b, <2>1 DEF BorrowObject, BorrowFamily, BeginDrop, Places
  <2>. QED BY <1>8, <2>2 DEF BorrowObject, BorrowFamily, BeginDrop, objects
<1>c. ASSUME NEW t \in Threads, Assign(t) PROVE Types'
  <2>1. pc[t].at \in Places /\ pc[t].db \in Handles /\ pc[t].obj \in AllObjects \cup {None}
    BY <1>0, <1>c DEF Assign, Places
  <2>2. pc' \in [Threads -> Jobs]
    BY <1>c, <1>b, <2>1 DEF Assign, Places
  <2>3. late' \subseteq Threads \cup objs
    BY <1>c DEF Assign
  <2>. QED BY <1>c, <2>2, <2>3 DEF Assign, objects
<1>d. ASSUME NEW t \in Threads, AssignFails(t) PROVE Types'
  <2>1. pc[t].db \in Handles
    BY <1>0, <1>d DEF AssignFails, Places
  <2>2. CASE Finish(t, pc[t].db, {})
    BY <1>d, <2>1, <2>2, FinishTypes DEF AssignFails
  <2>3. CASE pc' = [pc EXCEPT ![t] = Idle] /\ UNCHANGED <<objects, late>>
    BY <1>d, <2>3 DEF AssignFails, objects, Jobs
  <2>. QED BY <1>d, <2>2, <2>3 DEF AssignFails
<1>9. ASSUME NEW t \in Threads, NEW o \in objs, CloseObject(t, o) PROVE Types'
  <2>1. o \in AllObjects /\ o.db \in Handles
    BY <1>9 DEF AllObjects
  <2>. QED BY <1>9, <2>1, FinishTypes DEF CloseObject
<1>10. ASSUME NEW t \in Threads, NEW o \in objs, ShutdownCloses(t, o) PROVE Types'
  BY <1>10 DEF ShutdownCloses, CloseAll
<1>11. ASSUME NEW t \in Threads, ShutdownGoesOn(t) PROVE Types'
  <2>1. pc[t] \in Jobs /\ pc[t].at = "shutdown"
    BY <1>11 DEF ShutdownGoesOn
  <2>2. [pc[t] EXCEPT !.list = "families"] \in Jobs
    BY <2>1 DEF Jobs, Idle, Places
  <2>. QED BY <1>11, <2>2 DEF ShutdownGoesOn, objects
<1>12. ASSUME NEW t \in Threads, ShutdownEnds(t) PROVE Types'
  BY <1>0, <1>12, FinishTypes DEF ShutdownEnds
<1>13. ASSUME NEW t \in Threads, DeleteDb(t) PROVE Types'
  <2>1. /\ pc[t].db \in Handles
        /\ word' = [word EXCEPT ![pc[t].db] = "deleted"]
        /\ lock' = [lock EXCEPT ![path[pc[t].db]] = None]
        /\ pc' = [pc EXCEPT ![t] = Idle]
        /\ UNCHANGED <<files, acked, puts, path, objects, late>>
    BY <1>0, <1>13 DEF DeleteDb
  <2>2. word[pc[t].db] # "none"
    BY <1>0, <1>13 DEF DeleteDb, Engaged, EngagedAt
  <2>. QED BY <2>1, <2>2 DEF Jobs, objects
<1>14. ASSUME NEW t \in Threads, NEW p \in Paths, Destroy(t, p) PROVE Types'
  BY <1>14 DEF Destroy, Missing, Dirs, objects
<1>15. ASSUME NEW t \in Threads, NEW call \in Opens, Open(t, call) PROVE Types'
  <2>1. FirstUnused \in Handles /\ call.path \in Paths /\ Named(call) \subseteq Names
        /\ {Obj(FirstUnused, name) : name \in Range(call.families)} \subseteq AllObjects
    BY <1>15, FirstUnusedIsUnused, OpensAreCalls DEF Open
  <2>2. files' \in [Paths -> Dirs]
    <3>1. files' = [files EXCEPT ![call.path].exists = TRUE,
                                 ![call.path].families = @ \cup Named(call)]
      BY <1>15 DEF Open
    <3>. DEFINE p == call.path
                made == [files[p] EXCEPT !.exists = TRUE]
                names == files[p].families \cup Named(call)
    <3>2. files' = [files EXCEPT ![p] = [made EXCEPT !.families = @ \cup Named(call)]]
      BY <2>1, <3>1
    <3>3. made \in Dirs /\ made.families = files[p].families /\ names \in SUBSET Names
      BY <2>1, DirsAre
    <3>. HIDE DEF p, made
    <3>4. files' = [files EXCEPT ![p] = [made EXCEPT !.families = names]]
      BY <3>2, <3>3
    <3>. HIDE DEF names
    <3>5. p \in Paths
      BY <2>1 DEF p
    <3>. QED BY <3>3, <3>4, <3>5, DirsAre
  <2>3. /\ lock' \in [Paths -> Handles \cup {None}]
        /\ word' \in [Handles -> {"none", "open", "closing", "deleted"}]
        /\ path' \in [Handles -> Paths \cup {None}]
        /\ \A h \in Handles : word'[h] # "none" => path'[h] \in Paths
    BY <1>15, <2>1 DEF Open
  <2>4. /\ objs' \subseteq AllObjects /\ closed' \subseteq objs' /\ afterClose' \subseteq objs'
        /\ late' \subseteq Threads \cup objs'
        /\ UNCHANGED <<pc, acked, puts>>
    BY <1>15, <2>1 DEF Open
  <2>. QED BY <2>2, <2>3, <2>4
<1>16. CASE Crash
  BY <1>16 DEF Crash, Jobs
<1>17. CASE UNCHANGED vars
  BY <1>17 DEF vars
<1>. QED BY <1>c, <1>d, <1>1, <1>2, <1>3, <1>4, <1>5, <1>6, <1>7, <1>8, <1>9, <1>10, <1>11, <1>12, <1>13,
            <1>14, <1>15, <1>16, <1>17 DEF Next, InCall, Use
-----------------------------------------------------------------------------
(* Who has what *)

\* What a NIF that returns does to threads and objects.
LEMMA FinishIs ==
  ASSUME Types, NEW t \in Threads, NEW h \in Handles, NEW more \in SUBSET objs, Finish(t, h, more)
  PROVE  /\ \A o : o \in objs' <=>
               /\ o \in objs
               /\ \/ o \notin more /\ ~(o \in closed /\ Uses(t, o))
                  \/ \E u \in Threads : u # t /\ BorrowsObject(u, o)
         /\ \A o : o \in closed' <=> o \in closed \cup more /\ o \in objs'
         /\ \A o : o \in afterClose' <=> o \in afterClose /\ o \in objs'
         /\ \A o \in objs' : o \in late' <=> o \in late
         /\ \A u \in Threads : u \in late' <=> u \in late /\ u # t
         /\ \A u \in Threads : u # t => pc'[u] = pc[u]
         /\ \/ pc'[t] = Idle /\ \/ word[h] # "closing"
                                \/ \E u \in Threads : u # t /\ (Borrows(u, h) \/ Deletes(u, h))
                                \/ \E o \in objs' : o.db = h
            \/ /\ pc'[t] = [at |-> "deleting", db |-> h]
               /\ word[h] = "closing"
               /\ \A u \in Threads : u # t => ~Borrows(u, h) /\ ~Deletes(u, h)
               /\ \A o \in objs' : o.db # h
<1>. DEFINE gone == Destroyed(t, more)
            left == objs \ gone
<1>1. /\ objs' = left
      /\ closed' = (closed \cup more) \cap left
      /\ afterClose' = afterClose \cap left
      /\ late' = late \ ({t} \cup gone)
      /\ Return(t, h, left)
  BY DEF Finish, CloseAll
<1>2. \A o : o \in gone <=> /\ o \in objs /\ (o \in more \/ (o \in closed /\ Uses(t, o)))
                            /\ \A u \in Threads : u # t => ~BorrowsObject(u, o)
  BY DEF Destroyed
<1>. HIDE DEF gone
<1>3. \A u \in Threads : u \notin objs /\ u \notin gone
  BY <1>2, ObjectsAreThemselves DEF Types
<1>4. \A u \in Threads : u # t => pc'[u] = pc[u]
  BY <1>1 DEF Return, Types
<1>5. pc'[t] = IF /\ word[h] = "closing"
                  /\ \A u \in Threads \ {t} : ~Borrows(u, h) /\ ~Deletes(u, h)
                  /\ \A o \in left : o.db # h
               THEN [at |-> "deleting", db |-> h] ELSE Idle
  BY <1>1 DEF Return, Types
<1>6. \A o : o \in objs' <=>
           /\ o \in objs
           /\ \/ o \notin more /\ ~(o \in closed /\ Uses(t, o))
              \/ \E u \in Threads : u # t /\ BorrowsObject(u, o)
  BY <1>1, <1>2
<1>7. /\ \A o : o \in closed' <=> o \in closed \cup more /\ o \in objs'
      /\ \A o : o \in afterClose' <=> o \in afterClose /\ o \in objs'
      /\ \A o \in objs' : o \in late' <=> o \in late
      /\ \A u \in Threads : u \in late' <=> u \in late /\ u # t
  BY <1>1, <1>3
<1>8. \/ pc'[t] = Idle /\ \/ word[h] # "closing"
                          \/ \E u \in Threads : u # t /\ (Borrows(u, h) \/ Deletes(u, h))
                          \/ \E o \in objs' : o.db = h
      \/ /\ pc'[t] = [at |-> "deleting", db |-> h]
         /\ word[h] = "closing"
         /\ \A u \in Threads : u # t => ~Borrows(u, h) /\ ~Deletes(u, h)
         /\ \A o \in objs' : o.db # h
  BY <1>1, <1>5
<1>. QED BY <1>4, <1>6, <1>7, <1>8

\* Who borrows an object has a reference on its database.
LEMMA BorrowersHaveTheDb ==
  ASSUME Types, Engaged, NEW t \in Threads, NEW o \in objs, BorrowsObject(t, o)
  PROVE  Borrows(t, o.db) /\ pc[t].at \in {"using", "creating", "dropping"}
BY ObjectsAreThemselves DEF BorrowsObject, Uses, Creates, Types, Engaged, EngagedAt, Borrows,
                            Borrowing, Places

\* An elected thread keeps a handle lost, and an open handle is not lost.
LEMMA LostIs ==
  ASSUME Types, InTime, NEW h \in Handles
  PROVE  /\ Lost(h) <=> word[h] = "deleted" \/ \E u \in Threads : Deletes(u, h)
         /\ word[h] = "open" => ~Lost(h)
         /\ word[h] = "closing" /\ Lost(h) => \E u \in Threads : Deletes(u, h)
         /\ word[h] = "closing" /\ Lost(h) => Holders(h) \ late = {}
         /\ Lost(h) => word[h] \in {"closing", "deleted"}
BY DEF Lost, InTime

\* A thread that is idle or in a NIF does not delete.
LEMMA DeletersAre ==
  ASSUME NEW t \in Threads, NEW h, Deletes(t, h)
  PROVE  pc[t].at = "deleting" /\ pc[t].db = h /\ pc[t] # Idle /\ pc[t].at \notin Borrowing
BY DEF Deletes, Idle, Borrowing

\* A NIF that returns, or closes an object, keeps the promises of the others.
LEMMA FinishKeeps ==
  ASSUME Types, Engaged, InTime, Closed, Awaited, NEW t \in Threads, NEW h \in Handles,
         NEW more \in SUBSET objs,
         Finish(t, h, more), UNCHANGED <<word, path>>,
         \A o \in more : o.db = h /\ \A u \in Threads : ~Creates(u, o),
         pc[t] = Idle \/ Borrows(t, h), word[h] # "none",
         ShutsDown(t, h) => ObjectsOf(h) \subseteq closed \cup afterClose
  PROVE  Engaged' /\ InTime' /\ Closed' /\ Awaited'
<1>1. /\ \A o : o \in objs' <=>
               /\ o \in objs
               /\ \/ o \notin more /\ ~(o \in closed /\ Uses(t, o))
                  \/ \E u \in Threads : u # t /\ BorrowsObject(u, o)
      /\ \A o : o \in closed' <=> o \in closed \cup more /\ o \in objs'
      /\ \A o : o \in afterClose' <=> o \in afterClose /\ o \in objs'
      /\ \A o \in objs' : o \in late' <=> o \in late
      /\ \A u \in Threads : u \in late' <=> u \in late /\ u # t
      /\ \A u \in Threads : u # t => pc'[u] = pc[u]
  BY FinishIs
<1>2. \/ pc'[t] = Idle /\ \/ word[h] # "closing"
                          \/ \E u \in Threads : u # t /\ (Borrows(u, h) \/ Deletes(u, h))
                          \/ \E o \in objs' : o.db = h
      \/ /\ pc'[t] = [at |-> "deleting", db |-> h]
         /\ word[h] = "closing"
         /\ \A u \in Threads : u # t => ~Borrows(u, h) /\ ~Deletes(u, h)
         /\ \A o \in objs' : o.db # h
  BY FinishIs
<1>3. /\ pc'[t].at \in {"idle", "deleting"} /\ pc'[t].at \notin Borrowing /\ pc'[t].at \notin Places
      /\ pc'[t] # Idle => pc'[t].db = h
  BY <1>2 DEF Idle, Borrowing, Places
<1>4. \A g \in Handles : ~Deletes(t, g)
  BY DeletersAre DEF Borrows
<1>5. \A u \in Threads, g \in Handles : Deletes(u, g) => Deletes(u, g)' /\ u # t
  BY <1>1, <1>4 DEF Deletes
<1>6. \A u \in Threads, g \in Handles : Deletes(u, g)' => Deletes(u, g) \/ (u = t /\ g = h)
  BY <1>1, <1>2 DEF Deletes, Idle
<1>7. \A u \in Threads, g \in Handles : Borrows(u, g)' <=> u # t /\ Borrows(u, g)
  BY <1>1, <1>3 DEF Borrows
<1>8. \A u \in Threads : \A o : /\ BorrowsObject(u, o)' <=> u # t /\ BorrowsObject(u, o)
                                /\ Creates(u, o)' <=> u # t /\ Creates(u, o)
                                /\ HasArgument(u, o)' <=> u # t /\ HasArgument(u, o)
  BY <1>1, <1>3 DEF BorrowsObject, Uses, Creates, HasArgument, Places
<1>9. Engaged'
  <2>1. ASSUME NEW u \in Threads, u # t PROVE EngagedAt(u)'
    <3>1. pc'[u] = pc[u] /\ word' = word
      BY <1>1, <2>1
    <3>2. EngagedAt(u)
      BY DEF Engaged
    <3>3. pc[u].at \in {"using", "creating", "dropping"} /\ pc[u].obj # None => pc[u].obj \in objs'
      BY <1>1, <2>1, <3>2 DEF EngagedAt, BorrowsObject, Uses, Creates
    <3>4. \A o \in objs' : Creates(u, o)' => \A v \in Threads : ~HasArgument(v, o)'
      BY <1>1, <1>8, <3>2 DEF EngagedAt
    <3>. QED BY <3>1, <3>2, <3>3, <3>4 DEF EngagedAt
  <2>2. EngagedAt(t)'
    <3>1. \A o : ~Creates(t, o)'
      BY <1>8
    <3>. QED BY <1>3, <3>1 DEF EngagedAt, Places
  <2>. QED BY <2>1, <2>2 DEF Engaged
<1>a. \A g \in Handles : (Lost(g) => Lost(g)') /\ (Opened(g) => Opened(g)')
  BY <1>5 DEF Lost, Opened
<1>b. \A u \in Threads : pc[u] # Idle => pc[u].db \in Handles
  BY JobsAre DEF Types
<1>10. InTime'
  <2>1. ASSUME NEW o \in objs' PROVE IF o \in late' THEN Lost(o.db)' ELSE Opened(o.db)'
    <3>1. o \in objs /\ o.db \in Handles /\ (o \in late' <=> o \in late)
      BY <1>1 DEF Types, AllObjects
    <3>. QED BY <1>a, <3>1 DEF InTime
  <2>2. ASSUME NEW u \in Threads
        PROVE  /\ (pc[u].at \in Borrowing => IF u \in late THEN Lost(pc[u].db) ELSE Opened(pc[u].db))'
               /\ u \in late' => pc'[u].at \in Borrowing \ {"shutdown"}
    <3>1. CASE u = t
      BY <1>1, <1>3, <3>1
    <3>2. CASE u # t
      <4>1. pc'[u] = pc[u] /\ (u \in late' <=> u \in late)
        BY <1>1, <3>2
      <4>2. pc[u].at \in Borrowing => pc[u].db \in Handles
        BY <1>b DEF Idle, Borrowing
      <4>3. /\ pc[u].at \in Borrowing => IF u \in late THEN Lost(pc[u].db) ELSE Opened(pc[u].db)
            /\ u \in late => pc[u].at \in Borrowing \ {"shutdown"}
        BY DEF InTime
      <4>. QED BY <1>1, <1>a, <4>1, <4>2, <4>3 DEF Lost, Opened, Deletes
    <3>. QED BY <3>1, <3>2
  <2>3. ASSUME NEW g \in Handles, NEW u \in Threads, Deletes(u, g)'
        PROVE  /\ word'[g] = "closing" /\ (Holders(g) \ late)' = {}
               /\ \A v \in Threads : Deletes(v, g)' => v = u
    <3>1. CASE Deletes(u, g)
      <4>1. word[g] = "closing" /\ Holders(g) \ late = {} /\ \A v \in Threads : Deletes(v, g) => v = u
        BY <3>1 DEF InTime
      <4>2. ~(Deletes(t, g)')
        <5>1. u # t
          BY <1>5, <3>1
        <5>. QED BY <1>2, <3>1, <5>1 DEF Deletes, Idle
      <4>3. \A v \in Threads : Borrows(v, g)' => v \in late'
        BY <1>1, <1>7, <4>1 DEF Holders
      <4>4. \A o \in objs' : o.db = g => o \in late'
        BY <1>1, <4>1 DEF Holders, ObjectsOf
      <4>. QED BY <1>6, <4>1, <4>2, <4>3, <4>4 DEF Holders, ObjectsOf
    <3>2. CASE ~Deletes(u, g)
      <4>1. /\ u = t /\ g = h /\ word[h] = "closing"
            /\ \A v \in Threads : v # t => ~Borrows(v, h) /\ ~Deletes(v, h)
            /\ \A o \in objs' : o.db # h
        BY <1>2, <1>6, <2>3, <3>2 DEF Deletes, Idle
      <4>2. \A v \in Threads : Deletes(v, h)' => v = t
        BY <1>5, <1>6, <4>1
      <4>. QED BY <1>7, <4>1, <4>2 DEF Holders, ObjectsOf
    <3>. QED BY <3>1, <3>2
  <2>. QED BY <2>1, <2>2, <2>3 DEF InTime
<1>11. Closed'
  <2>1. ASSUME NEW o \in closed' PROVE o \in afterClose' \/ \E u \in Threads : BorrowsObject(u, o)'
    <3>1. CASE o \in afterClose
      BY <1>1, <3>1
    <3>2. CASE o \in more \/ (o \in closed /\ Uses(t, o))
      BY <1>1, <1>8, <3>2
    <3>3. CASE o \notin afterClose /\ o \in closed /\ ~Uses(t, o)
      <4>1. PICK u \in Threads : BorrowsObject(u, o)
        BY <3>3 DEF Closed
      <4>2. ~Creates(t, o)
        BY <3>3 DEF Closed, Types
      <4>. QED BY <1>8, <3>3, <4>1, <4>2 DEF BorrowsObject
    <3>. QED BY <1>1, <3>1, <3>2, <3>3
  <2>2. ASSUME NEW u \in Threads, NEW o \in objs', Creates(u, o)'
        PROVE  o \in afterClose' \/ (word'[o.db] = "open" /\ o \notin closed')
    <3>1. Creates(u, o) /\ o \in objs /\ o \notin more
      BY <1>1, <1>8, <2>2
    <3>. QED BY <1>1, <2>2, <3>1 DEF Closed
  <2>3. ASSUME NEW u \in Threads, pc'[u].at = "shutdown", pc'[u].list = "families",
               NEW o \in objs', o.db = pc'[u].db, IsItr(o)
        PROVE  o \in closed' \cup afterClose'
    <3>1. u # t /\ pc'[u] = pc[u] /\ o \in objs
      BY <1>1, <1>3, <2>3
    <3>. QED BY <1>1, <2>3, <3>1 DEF Closed, ObjectsOf
  <2>4. ASSUME NEW g \in Handles, word'[g] = "closing", \A u \in Threads : ~ShutsDown(u, g)'
        PROVE  ObjectsOf(g)' \subseteq closed' \cup afterClose'
    <3>1. \A u \in Threads : u # t => ~ShutsDown(u, g)
      BY <1>1, <2>4 DEF ShutsDown
    <3>2. ObjectsOf(g) \subseteq closed \cup afterClose
      <4>1. CASE ShutsDown(t, g)
        <5>1. g = h
          BY <4>1 DEF ShutsDown, Borrows, Idle
        <5>. QED BY <4>1, <5>1
      <4>2. CASE ~ShutsDown(t, g)
        BY <2>4, <3>1, <4>2 DEF Closed
      <4>. QED BY <4>1, <4>2
    <3>. QED BY <1>1, <3>2 DEF ObjectsOf
  <2>. QED BY <2>1, <2>2, <2>3, <2>4 DEF Closed, ObjectsOf
<1>12. ASSUME NEW g \in Handles, word'[g] = "closing"
       PROVE  \/ \E u \in Threads : u \notin late' /\ Borrows(u, g)'
              \/ \E o \in objs' : o.db = g /\ o \notin late' /\ o \in afterClose'
              \/ \E u \in Threads : Deletes(u, g)'
  <2>1. CASE \E u \in Threads : Deletes(u, g)
    BY <1>5, <2>1
  <2>2. CASE ~Lost(g)
    <3>1. \A u \in Threads : Borrows(u, g) => u \notin late
      BY <2>2 DEF InTime, Borrows
    <3>2. \A o \in objs' : o.db = g => o \notin late'
      BY <1>1, <2>2 DEF InTime
    <3>3. \A u \in Threads : u # t /\ Borrows(u, g) => u \notin late' /\ Borrows(u, g)'
      BY <1>1, <1>7, <3>1
    <3>4. ASSUME NEW o \in objs', o.db = g, o \notin afterClose'
          PROVE  \E u \in Threads : u # t /\ Borrows(u, g)
      <4>1. CASE o \in closed'
        <5>1. PICK u \in Threads : BorrowsObject(u, o)'
          BY <1>11, <3>4, <4>1 DEF Closed
        <5>2. u # t /\ BorrowsObject(u, o) /\ o \in objs
          BY <1>1, <1>8, <5>1
        <5>. QED BY <3>4, <5>2, BorrowersHaveTheDb
      <4>2. CASE o \notin closed'
        <5>1. PICK u \in Threads : ShutsDown(u, g)'
          BY <1>11, <1>12, <3>4, <4>2 DEF Closed, ObjectsOf
        <5>2. u # t /\ ShutsDown(u, g)
          BY <1>1, <1>3, <5>1 DEF ShutsDown
        <5>. QED BY <5>2 DEF ShutsDown, Borrows, Borrowing
      <4>. QED BY <4>1, <4>2
    <3>5. CASE g = h
      BY <1>2, <1>12, <2>2, <3>2, <3>3, <3>4, <3>5 DEF Lost, Deletes
    <3>6. CASE g # h
      <4>1. \A u \in Threads : Borrows(u, g) => u # t
        BY <3>6 DEF Borrows, Idle, Borrowing
      <4>2. CASE \E u \in Threads : Borrows(u, g)
        BY <3>3, <4>1, <4>2
      <4>3. CASE \E o \in ObjectsOf(g) : o \in afterClose
        <5>1. PICK o \in objs : o.db = g /\ o \in afterClose
          BY <4>3 DEF ObjectsOf
        <5>2. CASE o \in objs'
          BY <1>1, <3>2, <5>1, <5>2
        <5>3. CASE o \notin objs'
          <6>1. o \notin more
            BY <3>6, <5>1
          <6>2. Uses(t, o)
            BY <1>1, <5>3, <6>1
          <6>. QED BY <4>1, <5>1, <6>2, BorrowersHaveTheDb DEF BorrowsObject
        <5>. QED BY <5>2, <5>3
      <4>. QED BY <1>12, <2>2, <4>2, <4>3 DEF Awaited, Lost
    <3>. QED BY <3>5, <3>6
  <2>. QED BY <1>12, <2>1, <2>2, LostIs
<1>13. Awaited'
  BY <1>12 DEF Awaited, ObjectsOf
<1>. QED BY <1>9, <1>10, <1>11, <1>13

\* The NIFs that return, and the close of an object.
LEMMA ReturnsKeep ==
  ASSUME IInv, NEW t \in Threads,
         \/ Read(t) \/ Put(t) \/ Checkpoint(t) \/ DropColumnFamily(t) \/ Created(t)
         \/ AssignFails(t) /\ pc[t].at = "retrieving"
         \/ ShutdownEnds(t) \/ \E o \in objs : CloseObject(t, o)
  PROVE  Engaged' /\ InTime' /\ Closed' /\ Awaited'
<1>. USE DEF IInv
<1>1. pc[t] \in Jobs /\ EngagedAt(t)
  BY DEF Types, Engaged
<1>2. ASSUME pc[t].at \in Borrowing
      PROVE  /\ pc[t].db \in Handles /\ word[pc[t].db] # "none" /\ Borrows(t, pc[t].db)
             /\ pc[t].at # "shutdown" => ~ShutsDown(t, pc[t].db)
  BY <1>1, <1>2, JobsAre DEF Idle, EngagedAt, Borrows, Borrowing, ShutsDown
<1>3. ASSUME pc[t].at \in Borrowing \ {"shutdown"}, Finish(t, pc[t].db, {}), UNCHANGED <<word, path>>
      PROVE  Engaged' /\ InTime' /\ Closed' /\ Awaited'
  BY <1>2, <1>3, FinishKeeps
<1>4. CASE Read(t) \/ Put(t) \/ Checkpoint(t) \/ Created(t)
  <2>1. /\ pc[t].at \in Borrowing \ {"shutdown"} /\ Finish(t, pc[t].db, {})
        /\ UNCHANGED <<word, path>>
    BY <1>4 DEF Read, Put, Checkpoint, Created, Borrowing
  <2>. QED BY <1>3, <2>1
<1>5. CASE AssignFails(t) /\ pc[t].at = "retrieving"
  <2>1. /\ pc[t].at \in Borrowing \ {"shutdown"} /\ Finish(t, pc[t].db, {})
        /\ UNCHANGED <<word, path>>
    BY <1>5 DEF AssignFails, Borrowing
  <2>. QED BY <1>3, <2>1
<1>6. CASE DropColumnFamily(t)
  <2>1. /\ pc[t].at = "dropping" /\ Finish(t, pc[t].obj.db, {pc[t].obj}) /\ UNCHANGED <<word, path>>
    BY <1>6 DEF DropColumnFamily
  <2>2. pc[t].obj \in objs /\ pc[t].obj.db = pc[t].db /\ pc[t].at \in Borrowing
    BY <1>1, <2>1 DEF EngagedAt, Places, Borrowing
  <2>3. \A u \in Threads : ~Creates(u, pc[t].obj)
    BY <2>1, <2>2 DEF Engaged, EngagedAt, HasArgument
  <2>4. Finish(t, pc[t].db, {pc[t].obj}) /\ {pc[t].obj} \in SUBSET objs
        /\ \A o \in {pc[t].obj} : o.db = pc[t].db /\ \A u \in Threads : ~Creates(u, o)
    BY <2>1, <2>2, <2>3
  <2>. QED BY <1>2, <2>1, <2>2, <2>4, FinishKeeps
<1>7. ASSUME NEW o \in objs, CloseObject(t, o)
      PROVE  Engaged' /\ InTime' /\ Closed' /\ Awaited'
  <2>1. /\ pc[t] = Idle /\ Finish(t, o.db, {o}) /\ UNCHANGED <<word, path>>
        /\ \A u \in Threads : ~Creates(u, o)
    BY <1>7 DEF CloseObject, Usable
  <2>2. o.db \in Handles /\ word[o.db] # "none" /\ ~ShutsDown(t, o.db)
    <3>1. o.db \in Handles
      BY DEF Types, AllObjects
    <3>. QED BY <2>1, <3>1, LostIs DEF InTime, Opened, ShutsDown, Idle
  <2>3. {o} \in SUBSET objs /\ \A q \in {o} : q.db = o.db /\ \A u \in Threads : ~Creates(u, q)
    BY <2>1
  <2>. QED BY <2>1, <2>2, <2>3, FinishKeeps
<1>8. CASE ShutdownEnds(t)
  <2>1. /\ pc[t].at = "shutdown" /\ pc[t].list = "families" /\ Listed(t) = {}
        /\ Finish(t, pc[t].db, {}) /\ UNCHANGED <<word, path>>
    BY <1>8 DEF ShutdownEnds
  <2>2. pc[t].at \in Borrowing
    BY <2>1 DEF Borrowing
  <2>3. ObjectsOf(pc[t].db) \subseteq closed \cup afterClose
    BY <2>1 DEF Listed, Closed
  <2>. QED BY <1>2, <2>1, <2>2, <2>3, FinishKeeps
<1>. QED BY <1>4, <1>5, <1>6, <1>7, <1>8

\* A thread that goes from one place to another, and may take a reference,
\* in time or late.
LEMMA TakesKeep ==
  ASSUME IInv, NEW t \in Threads, NEW j \in Jobs,
         pc'[t] = j, \A u \in Threads : u # t => pc'[u] = pc[u],
         UNCHANGED <<word, path, objs, closed, afterClose>>,
         \A x : x # t => (x \in late' <=> x \in late),
         pc[t].at \notin {"shutdown", "deleting", "creating"},
         j.at \notin {"shutdown", "deleting", "creating"},
         j # Idle => word[j.db] # "none",
         j.at \in Places /\ j.obj # None => j.obj.db = j.db,
         j.at \in {"retrieving", "toDrop", "dropping"} => j.obj # None,
         j.at \in {"using", "dropping"} /\ j.obj # None => j.obj \in objs,
         j.at \in Places => \A u \in Threads : ~Creates(u, j.obj),
         j.at \in Borrowing => IF t \in late' THEN Lost(j.db) ELSE Opened(j.db) /\ ~Lost(j.db),
         t \in late' => j.at \in Borrowing,
         pc[t].at \in Borrowing => j.at \in Borrowing /\ j.db = pc[t].db,
         \A o \in objs : Uses(t, o) => j.at \in {"using", "dropping"} /\ j.obj = o
  PROVE  Engaged' /\ InTime' /\ Closed' /\ Awaited'
<1>. USE DEF IInv
<1>1. \A g \in Handles, u \in Threads : /\ Deletes(u, g)' <=> Deletes(u, g)
                                        /\ ShutsDown(u, g)' <=> ShutsDown(u, g)
  BY DEF Deletes, ShutsDown
<1>2. \A u \in Threads : \A o : Creates(u, o)' <=> Creates(u, o)
  BY DEF Creates
<1>3. \A u \in Threads, o \in objs : BorrowsObject(u, o) => BorrowsObject(u, o)'
  BY DEF BorrowsObject, Uses, Creates
<1>4. \A u \in Threads : \A o : HasArgument(u, o)' => HasArgument(u, o) \/ (u = t /\ o = j.obj /\ j.at \in Places)
  BY DEF HasArgument, Places
<1>5. \A g \in Handles : (Lost(g)' <=> Lost(g)) /\ (Opened(g)' <=> Opened(g))
  BY <1>1 DEF Lost, Opened
<1>6. Engaged'
  <2>1. ASSUME NEW u \in Threads PROVE EngagedAt(u)'
    <3>1. EngagedAt(u)
      BY DEF Engaged
    <3>2. \A o \in objs' : Creates(u, o)' => \A v \in Threads : ~HasArgument(v, o)'
      BY <1>2, <1>4, <3>1 DEF EngagedAt
    <3>3. CASE u = t
      BY <3>2, <3>3 DEF EngagedAt
    <3>4. CASE u # t
      BY <3>1, <3>2, <3>4 DEF EngagedAt
    <3>. QED BY <3>3, <3>4
  <2>. QED BY <2>1 DEF Engaged
<1>7. \A o \in objs : o \in late' <=> o \in late
  BY ObjectsAreThemselves DEF Types
<1>8. InTime'
  <2>1. ASSUME NEW o \in objs' PROVE IF o \in late' THEN Lost(o.db)' ELSE Opened(o.db)'
    <3>1. o \in objs /\ o.db \in Handles
      BY DEF Types, AllObjects
    <3>. QED BY <1>5, <1>7, <3>1 DEF InTime
  <2>2. ASSUME NEW u \in Threads
        PROVE  /\ (pc[u].at \in Borrowing => IF u \in late THEN Lost(pc[u].db) ELSE Opened(pc[u].db))'
               /\ u \in late' => pc'[u].at \in Borrowing \ {"shutdown"}
    <3>1. CASE u = t
      <4>1. j.at \in Borrowing => j.db \in Handles
        BY JobsAre DEF Idle, Borrowing
      <4>2. j.at \in Borrowing => IF t \in late' THEN Lost(j.db)' ELSE Opened(j.db)'
        BY <1>5, <4>1
      <4>. QED BY <3>1, <4>2 DEF Lost, Opened, Deletes
    <3>2. CASE u # t
      <4>1. pc'[u] = pc[u] /\ (u \in late' <=> u \in late)
        BY <3>2
      <4>2. pc[u].at \in Borrowing => pc[u].db \in Handles
        BY JobsAre DEF Types, Idle, Borrowing
      <4>3. /\ pc[u].at \in Borrowing => IF u \in late THEN Lost(pc[u].db) ELSE Opened(pc[u].db)
            /\ u \in late => pc[u].at \in Borrowing \ {"shutdown"}
        BY DEF InTime
      <4>4. pc[u].at \in Borrowing => IF u \in late THEN Lost(pc[u].db)' ELSE Opened(pc[u].db)'
        BY <1>5, <4>2, <4>3
      <4>. QED BY <4>1, <4>3, <4>4 DEF Lost, Opened, Deletes
    <3>. QED BY <3>1, <3>2
  <2>3. ASSUME NEW g \in Handles, NEW u \in Threads, Deletes(u, g)'
        PROVE  /\ word'[g] = "closing" /\ (Holders(g) \ late)' = {}
               /\ \A v \in Threads : Deletes(v, g)' => v = u
    <3>1. word[g] = "closing" /\ Holders(g) \ late = {} /\ \A v \in Threads : Deletes(v, g) => v = u
      BY <1>1, <2>3 DEF InTime
    <3>2. Lost(g)
      BY <1>1, <2>3 DEF Lost
    <3>3. ASSUME NEW v \in Threads, Borrows(v, g)' PROVE v \in late'
      <4>1. CASE v = t
        BY <3>2, <3>3, <4>1 DEF Borrows
      <4>2. CASE v # t
        BY <3>1, <3>3, <4>2 DEF Borrows, Holders
      <4>. QED BY <4>1, <4>2
    <3>4. \A o \in objs' : o.db = g => o \in late'
      BY <1>7, <3>1 DEF Holders, ObjectsOf
    <3>. QED BY <1>1, <3>1, <3>3, <3>4 DEF Holders, ObjectsOf
  <2>. QED BY <2>1, <2>2, <2>3 DEF InTime
<1>9. Closed'
  <2>1. \A o \in closed' : o \in afterClose' \/ \E u \in Threads : BorrowsObject(u, o)'
    BY <1>3 DEF Closed, Types
  <2>2. \A u \in Threads, o \in objs' :
          Creates(u, o)' => o \in afterClose' \/ (word'[o.db] = "open" /\ o \notin closed')
    BY <1>2 DEF Closed
  <2>3. \A u \in Threads : pc'[u].at = "shutdown" => pc'[u] = pc[u]
    OBVIOUS
  <2>. QED BY <1>1, <2>1, <2>2, <2>3 DEF Closed, ObjectsOf
<1>10. Awaited'
  <2>1. ASSUME NEW g \in Handles, word'[g] = "closing"
        PROVE  \/ \E u \in Threads : u \notin late' /\ Borrows(u, g)'
               \/ \E o \in objs' : o.db = g /\ o \notin late' /\ o \in afterClose'
               \/ \E u \in Threads : Deletes(u, g)'
    <3>1. CASE Lost(g)
      BY <1>1, <2>1, <3>1, LostIs
    <3>2. CASE ~Lost(g)
      <4>1. \A u \in Threads : u # t /\ u \notin late /\ Borrows(u, g) => u \notin late' /\ Borrows(u, g)'
        BY DEF Borrows
      <4>2. Borrows(t, g) => t \notin late' /\ Borrows(t, g)'
        BY <3>2 DEF Borrows
      <4>. QED BY <1>1, <1>7, <2>1, <4>1, <4>2 DEF Awaited, ObjectsOf
    <3>. QED BY <3>1, <3>2
  <2>. QED BY <2>1 DEF Awaited, ObjectsOf
<1>. QED BY <1>6, <1>8, <1>9, <1>10

\* Who asks for a reference, and gets it or comes too late.
LEMMA CallsKeep ==
  ASSUME IInv, NEW t \in Threads,
         \/ \E h \in Handles : Borrow(t, h)
         \/ \E o \in objs : BorrowObject(t, o) \/ BorrowFamily(t, o) \/ BeginDrop(t, o)
         \/ Assign(t)
         \/ AssignFails(t) /\ pc[t].at # "retrieving"
  PROVE  Engaged' /\ InTime' /\ Closed' /\ Awaited'
<1>. USE DEF IInv
<1>1. pc[t] \in Jobs /\ EngagedAt(t)
  BY DEF Types, Engaged
<1>2. \A j, o \in objs : pc[t] = Idle => ~Uses(t, o)
  BY DEF Uses, Idle
<1>3. \A o \in objs : o \in AllObjects /\ o.db \in Handles /\ word[o.db] # "none" /\ o # None
  BY ObjectsAreThemselves, LostIs DEF Types, AllObjects, InTime, Opened
<1>4. \A u \in Threads : ~Creates(u, None)
  BY DEF Creates, Engaged, EngagedAt
<1>5. ASSUME NEW h \in Handles, Borrow(t, h) PROVE Engaged' /\ InTime' /\ Closed' /\ Awaited'
  <2>. DEFINE j == [at |-> "retrieved", db |-> h, obj |-> None]
  <2>1. j \in Jobs /\ pc'[t] = j /\ \A u \in Threads : u # t => pc'[u] = pc[u]
    BY <1>5 DEF Borrow, At, Jobs, Places, Types
  <2>2. /\ pc[t] = Idle /\ word[h] = "open" /\ UNCHANGED <<word, path, objs, closed, afterClose, late>>
        /\ t \notin late
    BY <1>5 DEF Borrow, objects, InTime, Idle, Borrowing
  <2>3. /\ j.at = "retrieved" /\ j.db = h /\ j.obj = None /\ j # Idle
        /\ pc[t].at = "idle" /\ "idle" \notin Borrowing /\ "retrieved" \notin Borrowing
    BY <2>2 DEF Idle, Borrowing
  <2>. HIDE DEF j
  <2>. QED BY <1>2, <1>4, <2>1, <2>2, <2>3, TakesKeep
<1>6. ASSUME NEW o \in objs, NEW place \in {"retrieved", "toDrop"}, At(t, place, o.db, o),
             pc[t] = Idle, \A u \in Threads : ~Creates(u, o),
             UNCHANGED <<word, path, objs, closed, afterClose, late>>
      PROVE  Engaged' /\ InTime' /\ Closed' /\ Awaited'
  <2>. DEFINE j == [at |-> place, db |-> o.db, obj |-> o]
  <2>1. j \in Jobs /\ pc'[t] = j /\ \A u \in Threads : u # t => pc'[u] = pc[u]
    BY <1>3, <1>6 DEF At, Jobs, Places, Types
  <2>2. t \notin late
    BY <1>6 DEF InTime, Idle, Borrowing
  <2>3. /\ j.at = place /\ j.db = o.db /\ j.obj = o /\ pc[t].at = "idle"
        /\ "idle" \notin Borrowing /\ place \notin Borrowing
        /\ place \notin {"shutdown", "deleting", "creating", "using", "dropping"}
    BY <1>6 DEF Idle, Borrowing
  <2>. HIDE DEF j
  <2>. QED BY <1>2, <1>3, <1>6, <2>1, <2>2, <2>3, TakesKeep
<1>7. ASSUME NEW o \in objs, BorrowObject(t, o) \/ BeginDrop(t, o)
      PROVE  Engaged' /\ InTime' /\ Closed' /\ Awaited'
  BY <1>6, <1>7 DEF BorrowObject, BeginDrop, Usable, objects
<1>8. ASSUME NEW o \in objs, BorrowFamily(t, o) PROVE Engaged' /\ InTime' /\ Closed' /\ Awaited'
  <2>. DEFINE j == [at |-> "retrieving", db |-> o.db, obj |-> o]
  <2>1. j \in Jobs /\ pc'[t] = j /\ \A u \in Threads : u # t => pc'[u] = pc[u]
    BY <1>3, <1>8 DEF BorrowFamily, At, Jobs, Places, Types
  <2>2. /\ pc[t].at = "using" /\ pc[t].obj = None /\ o.db = pc[t].db
        /\ \A u \in Threads : ~Creates(u, o)
        /\ UNCHANGED <<word, path, objs, closed, afterClose, late>>
    BY <1>8 DEF BorrowFamily, Usable, objects
  <2>3. /\ j.at = "retrieving" /\ j.db = o.db /\ j.obj = o
        /\ "using" \in Borrowing /\ "retrieving" \in Borrowing
    BY DEF Borrowing
  <2>4. IF t \in late THEN Lost(o.db) ELSE Opened(o.db) /\ ~Lost(o.db)
    <3>1. IF t \in late THEN Lost(o.db) ELSE Opened(o.db)
      BY <2>2, <2>3 DEF InTime
    <3>2. t \notin late => t \in Holders(o.db) \ late
      BY <2>2, <2>3 DEF Holders, Borrows
    <3>. QED BY <1>3, <3>1, <3>2, LostIs DEF Opened
  <2>5. \A q \in objs : ~Uses(t, q)
    BY <1>3, <2>2 DEF Uses
  <2>. HIDE DEF j
  <2>. QED BY <1>3, <2>1, <2>2, <2>3, <2>4, <2>5, TakesKeep
<1>9. CASE Assign(t)
  <2>. DEFINE h == pc[t].db
              o == pc[t].obj
              place == IF pc[t].at = "toDrop" THEN "dropping" ELSE "using"
              j == [at |-> place, db |-> h, obj |-> o]
  <2>1. /\ pc[t].at \in {"retrieved", "retrieving", "toDrop"}
        /\ o = None => word[h] # "deleted"
        /\ o # None => o \in objs
        /\ pc' = [pc EXCEPT ![t] = j]
        /\ late' = late \cup {u \in {t} : IF o = None THEN ~Admits(h) ELSE o \in late}
        /\ UNCHANGED <<word, path, objs, closed, afterClose>>
    BY <1>9 DEF Assign, At, objects
  <2>2. /\ h \in Handles /\ o \in AllObjects \cup {None} /\ word[h] # "none"
        /\ o # None => o.db = h
        /\ pc[t].at \in {"retrieving", "toDrop"} => o # None
    BY <1>1, <2>1, JobsAre DEF EngagedAt, Idle, Places
  <2>3. j \in Jobs /\ pc'[t] = j /\ \A u \in Threads : u # t => pc'[u] = pc[u]
    BY <2>1, <2>2 DEF Jobs, Places, Types
  <2>4. \A u \in Threads : ~Creates(u, o)
    <3>1. HasArgument(t, o)
      BY <2>1 DEF HasArgument
    <3>. QED BY <1>4, <2>1, <3>1 DEF Engaged, EngagedAt
  <2>5. IF t \in late' THEN Lost(h) ELSE Opened(h) /\ ~Lost(h)
    <3>1. CASE t \in late
      <4>1. Lost(h)
        BY <2>1, <3>1 DEF InTime, Borrowing
      <4>. QED BY <2>1, <3>1, <4>1
    <3>2. CASE t \notin late /\ o = None
      <4>1. CASE Admits(h)
        <5>1. t \notin late'
          BY <2>1, <3>2, <4>1
        <5>2. CASE word[h] = "open"
          BY <2>2, <5>1, <5>2, LostIs DEF Opened
        <5>3. CASE Holders(h) \ late # {}
          <6>1. PICK x \in Holders(h) : x \notin late
            BY <5>3
          <6>2. Opened(h)
            BY <6>1 DEF Holders, ObjectsOf, Borrows, InTime
          <6>. QED BY <2>2, <5>1, <5>3, <6>2, LostIs DEF Opened
        <5>. QED BY <4>1, <5>2, <5>3 DEF Admits
      <4>2. CASE ~Admits(h)
        <5>1. t \in late' /\ word[h] = "closing" /\ Holders(h) \ late = {}
          BY <2>1, <2>2, <3>2, <4>2 DEF Admits, Types
        <5>2. \A u \in Threads \ late : ~Borrows(u, h)
          BY <5>1 DEF Holders
        <5>3. ObjectsOf(h) \ late = {}
          BY <5>1 DEF Holders
        <5>4. \E u \in Threads : Deletes(u, h)
          BY <2>2, <5>1, <5>2, <5>3 DEF Awaited
        <5>. QED BY <5>1, <5>4 DEF Lost
      <4>. QED BY <4>1, <4>2
    <3>3. CASE o \in late /\ o # None
      BY <2>1, <2>2, <3>3 DEF InTime
    <3>4. CASE t \notin late /\ o \notin late /\ o # None
      <4>1. Opened(h) /\ o \in Holders(h) \ late /\ t \notin late'
        BY <2>1, <2>2, <3>4 DEF InTime, Holders, ObjectsOf
      <4>. QED BY <2>2, <4>1, LostIs DEF Opened
    <3>. QED BY <3>1, <3>2, <3>3, <3>4
  <2>6. /\ j.at = place /\ j.db = h /\ j.obj = o /\ place \in {"using", "dropping"}
        /\ place \in Borrowing
        /\ place = "dropping" => o # None
    BY <2>2 DEF Borrowing
  <2>7. \A q \in objs : ~Uses(t, q)
    BY <2>1 DEF Uses
  <2>8. \A x : x # t => (x \in late' <=> x \in late)
    BY <2>1
  <2>9. pc[t].db = h
    OBVIOUS
  <2>. HIDE DEF j, h, o, place
  <2>a. /\ pc[t].at \notin {"shutdown", "deleting", "creating"}
        /\ j.at \notin {"shutdown", "deleting", "creating"}
    BY <2>1, <2>6
  <2>b. /\ word[j.db] # "none" /\ j.at \in Borrowing
        /\ j.obj # None => j.obj.db = j.db /\ j.obj \in objs
    BY <2>1, <2>2, <2>6
  <2>c. /\ j.at \in {"retrieving", "toDrop", "dropping"} => j.obj # None
        /\ \A u \in Threads : ~Creates(u, j.obj)
    BY <2>4, <2>6
  <2>d. /\ IF t \in late' THEN Lost(j.db) ELSE Opened(j.db) /\ ~Lost(j.db)
        /\ j.db = pc[t].db
    BY <2>5, <2>6, <2>9
  <2>10. /\ pc[t].at \notin {"shutdown", "deleting", "creating"}
         /\ j.at \notin {"shutdown", "deleting", "creating"}
         /\ word[j.db] # "none" /\ j.at \in Borrowing
         /\ j.obj # None => j.obj.db = j.db /\ j.obj \in objs
         /\ j.at \in {"retrieving", "toDrop", "dropping"} => j.obj # None
         /\ \A u \in Threads : ~Creates(u, j.obj)
         /\ IF t \in late' THEN Lost(j.db) ELSE Opened(j.db) /\ ~Lost(j.db)
         /\ j.db = pc[t].db
    BY <2>a, <2>b, <2>c, <2>d
  <2>11. UNCHANGED <<word, path, objs, closed, afterClose>>
    BY <2>1
  <2>. QED BY <2>3, <2>7, <2>8, <2>10, <2>11, TakesKeep
<1>10. CASE AssignFails(t) /\ pc[t].at # "retrieving"
  <2>1. /\ pc[t].at \in {"retrieved", "toDrop"}
        /\ pc' = [pc EXCEPT ![t] = Idle] /\ UNCHANGED <<word, path, objs, closed, afterClose, late>>
    BY <1>10 DEF AssignFails, objects
  <2>2. Idle \in Jobs /\ pc'[t] = Idle /\ \A u \in Threads : u # t => pc'[u] = pc[u]
    BY <2>1 DEF Jobs, Types
  <2>3. t \notin late /\ pc[t].at \notin Borrowing
    BY <2>1 DEF InTime, Borrowing
  <2>4. Idle.at = "idle" /\ "idle" \notin Places /\ "idle" \notin Borrowing
    BY DEF Idle, Places, Borrowing
  <2>5. \A q \in objs : ~Uses(t, q)
    BY <2>1 DEF Uses
  <2>. QED BY <2>1, <2>2, <2>3, <2>4, <2>5, TakesKeep
<1>. QED BY <1>5, <1>7, <1>8, <1>9, <1>10

\* An object that is being made joins those of its database, late if its
\* creator is.
LEMMA ConstructKeeps ==
  ASSUME IInv, NEW t \in Threads, NEW o \in AllObjects, o.db = pc[t].db, Construct(t, o)
  PROVE  Engaged' /\ InTime' /\ Closed' /\ Awaited'
<1>. USE DEF IInv
<1>1. /\ pc[t].at = "using" /\ pc[t].obj = None /\ o \notin objs
      /\ \A u \in Threads : ~HasArgument(u, o)
      /\ objs' = objs \cup {o}
      /\ afterClose' = afterClose \cup IF word[o.db] = "open" THEN {} ELSE {o}
      /\ late' = late \cup IF t \in late THEN {o} ELSE {}
      /\ UNCHANGED <<closed, word, path>>
  BY DEF Construct
<1>2. /\ pc'[t] = [at |-> "creating", db |-> o.db, obj |-> o]
      /\ \A u \in Threads : u # t => pc'[u] = pc[u]
  BY DEF Construct, At, Types
<1>3. /\ pc[t].db \in Handles /\ o # None /\ o.db \in Handles
      /\ \A u \in Threads : u # o
      /\ o \notin closed /\ o \notin late /\ o \notin afterClose
      /\ IF t \in late THEN Lost(o.db) ELSE Opened(o.db)
  <2>1. pc[t].at \in Borrowing
    BY <1>1 DEF Borrowing
  <2>. QED BY <1>1, <2>1, ObjectsAreThemselves DEF Types, AllObjects, InTime
<1>4. \A g \in Handles, u \in Threads : /\ Deletes(u, g)' <=> Deletes(u, g)
                                        /\ ShutsDown(u, g)' <=> ShutsDown(u, g)
                                        /\ Borrows(u, g)' <=> Borrows(u, g)
  BY <1>1, <1>2 DEF Deletes, ShutsDown, Borrows, Borrowing
<1>5. \A u \in Threads : \A q : /\ Creates(u, q)' <=> Creates(u, q) \/ (u = t /\ q = o)
                                /\ HasArgument(u, q)' => HasArgument(u, q)
  BY <1>1, <1>2 DEF Creates, HasArgument
<1>6. \A u \in Threads, q \in objs : BorrowsObject(u, q) => BorrowsObject(u, q)'
  BY <1>1, <1>2, ObjectsAreThemselves DEF BorrowsObject, Uses, Creates, Types
<1>7. \A g \in Handles : (Lost(g)' <=> Lost(g)) /\ (Opened(g)' <=> Opened(g))
  BY <1>1, <1>4 DEF Lost, Opened
<1>8. \A u \in Threads : \A q : ~(Creates(u, q) /\ q \notin objs)
  BY DEF Engaged, EngagedAt, Creates, Types
<1>9. /\ \A u \in Threads : u \in late' <=> u \in late
      /\ \A q \in objs : q \in late' <=> q \in late
      /\ o \in late' <=> t \in late
      /\ \A q \in objs : q \in afterClose' <=> q \in afterClose
      /\ o \in afterClose' <=> word[o.db] # "open"
  BY <1>1, <1>3
<1>10. Engaged'
  <2>1. ASSUME NEW u \in Threads PROVE EngagedAt(u)'
    <3>1. EngagedAt(u)
      BY DEF Engaged
    <3>2. ASSUME NEW q \in objs', Creates(u, q)', NEW v \in Threads PROVE ~(HasArgument(v, q)')
      <4>1. CASE q = o
        BY <1>1, <1>5, <4>1
      <4>2. CASE q # o
        BY <1>1, <1>5, <3>1, <3>2, <4>2 DEF EngagedAt
      <4>. QED BY <4>1, <4>2
    <3>3. CASE u = t
      <4>1. word[o.db] # "none"
        BY <1>1, <1>3, <3>1, <3>3 DEF EngagedAt, Idle
      <4>2. pc'[u].at = "creating" /\ pc'[u].db = o.db /\ pc'[u].obj = o /\ pc'[u] # Idle
        BY <1>2, <3>3 DEF Idle
      <4>. QED BY <1>1, <3>2, <4>1, <4>2, <1>3 DEF EngagedAt
    <3>4. CASE u # t
      BY <1>1, <1>2, <3>1, <3>2, <3>4 DEF EngagedAt
    <3>. QED BY <3>3, <3>4
  <2>. QED BY <2>1 DEF Engaged
<1>11. InTime'
  <2>1. ASSUME NEW q \in objs' PROVE IF q \in late' THEN Lost(q.db)' ELSE Opened(q.db)'
    <3>1. CASE q = o
      BY <1>3, <1>7, <1>9, <3>1
    <3>2. CASE q # o
      <4>1. q \in objs /\ q.db \in Handles
        BY <1>1, <3>2 DEF Types, AllObjects
      <4>. QED BY <1>7, <1>9, <4>1 DEF InTime
    <3>. QED BY <3>1, <3>2
  <2>2. ASSUME NEW u \in Threads
        PROVE  /\ (pc[u].at \in Borrowing => IF u \in late THEN Lost(pc[u].db) ELSE Opened(pc[u].db))'
               /\ u \in late' => pc'[u].at \in Borrowing \ {"shutdown"}
    <3>0. /\ pc[u].at \in Borrowing => IF u \in late THEN Lost(pc[u].db) ELSE Opened(pc[u].db)
          /\ u \in late => pc[u].at \in Borrowing \ {"shutdown"}
      BY DEF InTime
    <3>1. CASE u = t
      <4>1. IF t \in late' THEN Lost(o.db)' ELSE Opened(o.db)'
        BY <1>3, <1>7, <1>9
      <4>. QED BY <1>2, <3>1, <4>1 DEF Lost, Opened, Deletes, Borrowing
    <3>2. CASE u # t
      <4>1. pc'[u] = pc[u] /\ (u \in late' <=> u \in late)
        BY <1>2, <1>9, <3>2
      <4>2. pc[u].at \in Borrowing => pc[u].db \in Handles
        BY JobsAre DEF Types, Idle, Borrowing
      <4>3. pc[u].at \in Borrowing => IF u \in late THEN Lost(pc[u].db)' ELSE Opened(pc[u].db)'
        BY <1>7, <4>1, <4>2, <3>0
      <4>. QED BY <4>1, <3>0, <4>3 DEF Lost, Opened, Deletes
    <3>. QED BY <3>1, <3>2
  <2>3. ASSUME NEW g \in Handles, NEW u \in Threads, Deletes(u, g)'
        PROVE  /\ word'[g] = "closing" /\ (Holders(g) \ late)' = {}
               /\ \A v \in Threads : Deletes(v, g)' => v = u
    <3>1. word[g] = "closing" /\ Holders(g) \ late = {} /\ \A v \in Threads : Deletes(v, g) => v = u
      BY <1>4, <2>3 DEF InTime
    <3>2. \A v \in Threads : Borrows(v, g)' => v \in late'
      BY <1>4, <1>9, <3>1 DEF Holders
    <3>3. ASSUME NEW q \in objs', q.db = g PROVE q \in late'
      <4>1. CASE q = o
        <5>1. Borrows(t, g)
          BY <1>1, <3>3, <4>1 DEF Borrows, Borrowing
        <5>. QED BY <1>9, <3>1, <4>1, <5>1 DEF Holders
      <4>2. CASE q # o
        BY <1>1, <1>9, <3>1, <3>3, <4>2 DEF Holders, ObjectsOf
      <4>. QED BY <4>1, <4>2
    <3>. QED BY <1>1, <1>4, <3>1, <3>2, <3>3 DEF Holders, ObjectsOf
  <2>. QED BY <2>1, <2>2, <2>3 DEF InTime
<1>12. Closed'
  <2>1. \A q \in closed' : q \in afterClose' \/ \E u \in Threads : BorrowsObject(u, q)'
    BY <1>1, <1>6, <1>9 DEF Closed, Types
  <2>2. ASSUME NEW u \in Threads, NEW q \in objs', Creates(u, q)'
        PROVE  q \in afterClose' \/ (word'[q.db] = "open" /\ q \notin closed')
    <3>1. CASE q = o
      BY <1>1, <1>3, <1>9, <3>1
    <3>2. CASE q # o
      BY <1>1, <1>5, <1>9, <2>2, <3>2 DEF Closed
    <3>. QED BY <3>1, <3>2
  <2>3. ASSUME NEW u \in Threads, pc'[u].at = "shutdown", pc'[u].list = "families",
               NEW q \in objs', q.db = pc'[u].db, IsItr(q)
        PROVE  q \in closed' \cup afterClose'
    <3>1. u # t /\ pc'[u] = pc[u]
      BY <1>2, <2>3
    <3>2. word[q.db] = "closing"
      BY <2>3, <3>1 DEF Engaged, EngagedAt
    <3>3. CASE q = o
      BY <1>9, <3>2, <3>3
    <3>4. CASE q # o
      BY <1>1, <1>9, <2>3, <3>1, <3>4 DEF Closed, ObjectsOf
    <3>. QED BY <3>3, <3>4
  <2>4. ASSUME NEW g \in Handles, word'[g] = "closing", \A u \in Threads : ~ShutsDown(u, g)',
               NEW q \in objs', q.db = g
        PROVE  q \in closed' \cup afterClose'
    <3>1. CASE q = o
      BY <1>1, <1>9, <2>4, <3>1
    <3>2. CASE q # o
      BY <1>1, <1>4, <1>9, <2>4, <3>2 DEF Closed, ObjectsOf
    <3>. QED BY <3>1, <3>2
  <2>. QED BY <2>1, <2>2, <2>3, <2>4 DEF Closed, ObjectsOf
<1>13. Awaited'
  BY <1>1, <1>4, <1>9 DEF Awaited, ObjectsOf
<1>. QED BY <1>10, <1>11, <1>12, <1>13

\* A close begins, and comes upon the objects whose creation is not over.
LEMMA CloseKeeps ==
  ASSUME IInv, NEW t \in Threads, NEW h \in Handles, Close(t, h)
  PROVE  Engaged' /\ InTime' /\ Closed' /\ Awaited'
<1>. USE DEF IInv
<1>1. /\ pc[t] = Idle /\ word[h] = "open" /\ word' = [word EXCEPT ![h] = "closing"]
      /\ pc'[t] = [at |-> "shutdown", db |-> h, list |-> "iterators"]
      /\ \A u \in Threads : u # t => pc'[u] = pc[u]
      /\ afterClose' = afterClose \cup {o \in ObjectsOf(h) : \E u \in Threads : Creates(u, o)}
      /\ UNCHANGED <<objs, closed, late>>
  BY DEF Close, Types
<1>2. word'[h] = "closing" /\ \A g \in Handles : g # h => word'[g] = word[g]
  BY <1>1 DEF Types
<1>3. \A g \in Handles, u \in Threads :
         /\ Borrows(u, g)' <=> Borrows(u, g) \/ (u = t /\ g = h)
         /\ Deletes(u, g)' <=> Deletes(u, g)
         /\ ShutsDown(u, g)' <=> ShutsDown(u, g) \/ (u = t /\ g = h)
  BY <1>1 DEF Borrows, Borrowing, Deletes, ShutsDown, Idle
<1>4. ~Lost(h) /\ t \notin late
  BY <1>1, LostIs DEF InTime, Idle, Borrowing
<1>5. \A g \in Handles : (Opened(g)' <=> Opened(g)) /\ (Lost(g)' <=> Lost(g))
  BY <1>1, <1>2, <1>3 DEF Lost, Opened
<1>6. \A u \in Threads : \A o : /\ Creates(u, o)' <=> Creates(u, o)
                                /\ HasArgument(u, o)' <=> HasArgument(u, o)
                                /\ BorrowsObject(u, o)' <=> BorrowsObject(u, o)
  BY <1>1 DEF Creates, HasArgument, BorrowsObject, Uses, Idle
<1>7. \A u \in Threads : pc[u] # Idle => pc[u].db \in Handles
  BY JobsAre DEF Types
<1>8. Engaged'
  <2>1. ASSUME NEW u \in Threads PROVE EngagedAt(u)'
    <3>1. EngagedAt(u)
      BY DEF Engaged
    <3>2. \A o \in objs' : Creates(u, o)' => \A v \in Threads : ~HasArgument(v, o)'
      BY <1>1, <1>6, <3>1 DEF EngagedAt
    <3>3. CASE u = t
      BY <1>1, <1>2, <3>2, <3>3 DEF EngagedAt, Places
    <3>4. CASE u # t
      <4>1. pc'[u] = pc[u] /\ (pc[u] # Idle => word'[pc[u].db] # "none")
        BY <1>1, <1>2, <1>7, <3>1, <3>4 DEF EngagedAt
      <4>2. pc[u].at = "shutdown" => word'[pc[u].db] = "closing"
        BY <1>1, <1>2, <1>7, <3>1 DEF EngagedAt, Idle
      <4>. QED BY <1>1, <3>1, <3>2, <4>1, <4>2 DEF EngagedAt
    <3>. QED BY <3>3, <3>4
  <2>. QED BY <2>1 DEF Engaged
<1>9. InTime'
  <2>1. ASSUME NEW q \in objs' PROVE IF q \in late' THEN Lost(q.db)' ELSE Opened(q.db)'
    <3>1. q \in objs /\ q.db \in Handles
      BY <1>1 DEF Types, AllObjects
    <3>. QED BY <1>1, <1>5, <3>1 DEF InTime
  <2>2. ASSUME NEW u \in Threads
        PROVE  /\ (pc[u].at \in Borrowing => IF u \in late THEN Lost(pc[u].db) ELSE Opened(pc[u].db))'
               /\ u \in late' => pc'[u].at \in Borrowing \ {"shutdown"}
    <3>1. CASE u = t
      <4>1. Opened(h)'
        BY <1>2 DEF Opened
      <4>. QED BY <1>1, <1>4, <3>1, <4>1 DEF Opened
    <3>2. CASE u # t
      <4>0. /\ pc[u].at \in Borrowing => IF u \in late THEN Lost(pc[u].db) ELSE Opened(pc[u].db)
            /\ u \in late => pc[u].at \in Borrowing \ {"shutdown"}
        BY DEF InTime
      <4>1. pc'[u] = pc[u] /\ (u \in late' <=> u \in late)
        BY <1>1, <3>2
      <4>2. pc[u].at \in Borrowing => pc[u].db \in Handles
        BY <1>7 DEF Idle, Borrowing
      <4>3. pc[u].at \in Borrowing => IF u \in late THEN Lost(pc[u].db)' ELSE Opened(pc[u].db)'
        BY <1>5, <4>0, <4>1, <4>2
      <4>. QED BY <4>0, <4>1, <4>3 DEF Lost, Opened, Deletes
    <3>. QED BY <3>1, <3>2
  <2>3. ASSUME NEW g \in Handles, NEW u \in Threads, Deletes(u, g)'
        PROVE  /\ word'[g] = "closing" /\ (Holders(g) \ late)' = {}
               /\ \A v \in Threads : Deletes(v, g)' => v = u
    <3>1. word[g] = "closing" /\ Holders(g) \ late = {} /\ \A v \in Threads : Deletes(v, g) => v = u
      BY <1>3, <2>3 DEF InTime
    <3>2. g # h
      BY <1>1, <3>1
    <3>. QED BY <1>1, <1>2, <1>3, <3>1, <3>2 DEF Holders, ObjectsOf
  <2>. QED BY <2>1, <2>2, <2>3 DEF InTime
<1>10. Closed'
  <2>1. \A o \in closed' : o \in afterClose' \/ \E u \in Threads : BorrowsObject(u, o)'
    BY <1>1, <1>6 DEF Closed
  <2>2. ASSUME NEW u \in Threads, NEW o \in objs', Creates(u, o)'
        PROVE  o \in afterClose' \/ (word'[o.db] = "open" /\ o \notin closed')
    <3>1. CASE o.db = h
      BY <1>1, <1>6, <2>2, <3>1 DEF ObjectsOf
    <3>2. CASE o.db # h
      BY <1>1, <1>2, <1>6, <2>2, <3>2 DEF Closed, Types, AllObjects
    <3>. QED BY <3>1, <3>2
  <2>3. \A u \in Threads : pc'[u].at = "shutdown" /\ pc'[u].list = "families" => u # t
    BY <1>1
  <2>. QED BY <1>1, <1>2, <1>3, <2>1, <2>2, <2>3 DEF Closed, ObjectsOf
<1>11. Awaited'
  <2>1. ASSUME NEW g \in Handles, word'[g] = "closing"
        PROVE  \/ \E u \in Threads : u \notin late' /\ Borrows(u, g)'
               \/ \E o \in objs' : o.db = g /\ o \notin late' /\ o \in afterClose'
               \/ \E u \in Threads : Deletes(u, g)'
    <3>1. CASE g = h
      BY <1>1, <1>3, <1>4, <3>1
    <3>2. CASE g # h
      BY <1>1, <1>2, <1>3, <2>1, <3>2 DEF Awaited, ObjectsOf
    <3>. QED BY <3>1, <3>2
  <2>. QED BY <2>1 DEF Awaited, ObjectsOf
<1>. QED BY <1>8, <1>9, <1>10, <1>11

\* Shutdown closes an object that is listed.
LEMMA ShutdownClosesKeeps ==
  ASSUME IInv, NEW t \in Threads, NEW o \in objs, ShutdownCloses(t, o)
  PROVE  Engaged' /\ InTime' /\ Closed' /\ Awaited'
<1>. USE DEF IInv
<1>1. /\ pc[t].at = "shutdown" /\ o.db = pc[t].db /\ o \notin closed /\ UNCHANGED <<word, pc>>
      /\ objs' = objs \ Destroyed(t, {o})
      /\ closed' = (closed \cup {o}) \cap objs' /\ afterClose' = afterClose \cap objs'
      /\ late' = late \ Destroyed(t, {o})
  BY DEF ShutdownCloses, CloseAll, Listed, ObjectsOf
<1>2. \A q : ~BorrowsObject(t, q)
  BY <1>1 DEF BorrowsObject, Uses, Creates
<1>3. \A q : q \in Destroyed(t, {o}) <=> q = o /\ \A u \in Threads : ~BorrowsObject(u, q)
  BY <1>2 DEF Destroyed, BorrowsObject
<1>4. /\ \A q : q \in objs' <=> q \in objs /\ (q # o \/ \E u \in Threads : BorrowsObject(u, q))
      /\ \A q : q \in closed' <=> (q \in closed \/ q = o) /\ q \in objs'
      /\ \A q : q \in afterClose' <=> q \in afterClose /\ q \in objs'
      /\ \A q \in objs' : q \in late' <=> q \in late
      /\ \A u \in Threads : u \in late' <=> u \in late
  <2>1. \A u \in Threads : u \notin Destroyed(t, {o})
    BY <1>3, ObjectsAreThemselves DEF Types
  <2>. QED BY <1>1, <1>3, <2>1
<1>5. \A u \in Threads : \A q : /\ BorrowsObject(u, q)' <=> BorrowsObject(u, q)
                                /\ Creates(u, q)' <=> Creates(u, q)
                                /\ HasArgument(u, q)' <=> HasArgument(u, q)
  BY <1>1 DEF BorrowsObject, Uses, Creates, HasArgument
<1>6. \A u \in Threads, g \in Handles : /\ Borrows(u, g)' <=> Borrows(u, g)
                                        /\ Deletes(u, g)' <=> Deletes(u, g)
                                        /\ ShutsDown(u, g)' <=> ShutsDown(u, g)
  BY <1>1 DEF Borrows, Deletes, ShutsDown
<1>7. \A g \in Handles : (Opened(g)' <=> Opened(g)) /\ (Lost(g)' <=> Lost(g))
  BY <1>1, <1>6 DEF Lost, Opened
<1>8. Engaged'
  <2>1. ASSUME NEW u \in Threads PROVE EngagedAt(u)'
    <3>1. EngagedAt(u)
      BY DEF Engaged
    <3>2. \A q \in objs' : Creates(u, q)' => \A v \in Threads : ~HasArgument(v, q)'
      BY <1>4, <1>5, <3>1 DEF EngagedAt
    <3>3. pc[u].at \in {"using", "creating", "dropping"} /\ pc[u].obj # None => pc[u].obj \in objs'
      BY <1>4, <3>1 DEF EngagedAt, BorrowsObject, Uses, Creates
    <3>. QED BY <1>1, <3>1, <3>2, <3>3 DEF EngagedAt
  <2>. QED BY <2>1 DEF Engaged
<1>9. InTime'
  <2>1. ASSUME NEW q \in objs' PROVE IF q \in late' THEN Lost(q.db)' ELSE Opened(q.db)'
    <3>1. q \in objs /\ q.db \in Handles
      BY <1>4 DEF Types, AllObjects
    <3>. QED BY <1>4, <1>7, <3>1 DEF InTime
  <2>2. ASSUME NEW u \in Threads
        PROVE  /\ (pc[u].at \in Borrowing => IF u \in late THEN Lost(pc[u].db) ELSE Opened(pc[u].db))'
               /\ u \in late' => pc'[u].at \in Borrowing \ {"shutdown"}
    <3>1. /\ pc[u].at \in Borrowing => IF u \in late THEN Lost(pc[u].db) ELSE Opened(pc[u].db)
          /\ u \in late => pc[u].at \in Borrowing \ {"shutdown"}
      BY DEF InTime
    <3>2. pc[u].at \in Borrowing => pc[u].db \in Handles
      BY JobsAre DEF Types, Idle, Borrowing
    <3>3. pc[u].at \in Borrowing => IF u \in late THEN Lost(pc[u].db)' ELSE Opened(pc[u].db)'
      BY <1>1, <1>7, <3>1, <3>2
    <3>. QED BY <1>1, <1>4, <3>1, <3>3 DEF Lost, Opened, Deletes
  <2>3. ASSUME NEW g \in Handles, NEW u \in Threads, Deletes(u, g)'
        PROVE  /\ word'[g] = "closing" /\ (Holders(g) \ late)' = {}
               /\ \A v \in Threads : Deletes(v, g)' => v = u
    <3>1. word[g] = "closing" /\ Holders(g) \ late = {} /\ \A v \in Threads : Deletes(v, g) => v = u
      BY <1>6, <2>3 DEF InTime
    <3>2. \A v \in Threads : Borrows(v, g)' => v \in late'
      BY <1>4, <1>6, <3>1 DEF Holders
    <3>3. \A q \in objs' : q.db = g => q \in late'
      BY <1>4, <3>1 DEF Holders, ObjectsOf
    <3>. QED BY <1>1, <1>6, <3>1, <3>2, <3>3 DEF Holders, ObjectsOf
  <2>. QED BY <2>1, <2>2, <2>3 DEF InTime
<1>10. Closed'
  <2>1. \A q \in closed' : q \in afterClose' \/ \E u \in Threads : BorrowsObject(u, q)'
    BY <1>4, <1>5 DEF Closed
  <2>2. ASSUME NEW u \in Threads, NEW q \in objs', Creates(u, q)'
        PROVE  q \in afterClose' \/ (word'[q.db] = "open" /\ q \notin closed')
    <3>1. Creates(u, q) /\ q \in objs
      BY <1>4, <1>5, <2>2
    <3>2. CASE q = o
      <4>1. word[o.db] = "closing"
        BY <1>1 DEF Engaged, EngagedAt
      <4>. QED BY <1>4, <2>2, <3>1, <3>2, <4>1 DEF Closed
    <3>3. CASE q # o
      BY <1>1, <1>4, <2>2, <3>1, <3>3 DEF Closed
    <3>. QED BY <3>2, <3>3
  <2>3. \A u \in Threads : pc'[u].at = "shutdown" /\ pc'[u].list = "families" =>
          \A q \in objs' : q.db = pc'[u].db /\ IsItr(q) => q \in closed' \cup afterClose'
    BY <1>1, <1>4 DEF Closed, ObjectsOf
  <2>4. \A g \in Handles : word'[g] = "closing" /\ (\A u \in Threads : ~ShutsDown(u, g)') =>
          \A q \in objs' : q.db = g => q \in closed' \cup afterClose'
    BY <1>1, <1>4, <1>6 DEF Closed, ObjectsOf
  <2>. QED BY <2>1, <2>2, <2>3, <2>4 DEF Closed, ObjectsOf
<1>11. Awaited'
  <2>1. ASSUME NEW g \in Handles, word'[g] = "closing"
        PROVE  \/ \E u \in Threads : u \notin late' /\ Borrows(u, g)'
               \/ \E q \in objs' : q.db = g /\ q \notin late' /\ q \in afterClose'
               \/ \E u \in Threads : Deletes(u, g)'
    <3>1. CASE g = o.db
      <4>1. Borrows(t, g) /\ t \notin late
        BY <1>1, <3>1 DEF Borrows, Borrowing, InTime
      <4>. QED BY <1>4, <1>6, <4>1
    <3>2. CASE g # o.db
      BY <1>1, <1>4, <1>6, <2>1, <3>2 DEF Awaited, ObjectsOf
    <3>. QED BY <3>1, <3>2
  <2>. QED BY <2>1 DEF Awaited, ObjectsOf
<1>. QED BY <1>8, <1>9, <1>10, <1>11

\* Shutdown comes to the list of the families when that of the iterators is
\* empty.
LEMMA ShutdownGoesOnKeeps ==
  ASSUME IInv, NEW t \in Threads, ShutdownGoesOn(t)
  PROVE  Engaged' /\ InTime' /\ Closed' /\ Awaited'
<1>. USE DEF IInv
<1>1. /\ pc[t].at = "shutdown" /\ pc[t].list = "iterators" /\ Listed(t) = {}
      /\ pc' = [pc EXCEPT ![t].list = "families"]
      /\ UNCHANGED <<word, path, objs, closed, afterClose, late>>
  BY DEF ShutdownGoesOn, objects
<1>2. pc[t].db \in Handles /\ pc[t] = [at |-> "shutdown", db |-> pc[t].db, list |-> "iterators"]
  BY <1>1 DEF Types, Jobs, Idle, Places
<1>3. /\ pc'[t] = [at |-> "shutdown", db |-> pc[t].db, list |-> "families"]
      /\ \A u \in Threads : u # t => pc'[u] = pc[u]
  BY <1>1, <1>2 DEF Types
<1>4. \A g \in Handles, u \in Threads : /\ Borrows(u, g)' <=> Borrows(u, g)
                                        /\ Deletes(u, g)' <=> Deletes(u, g)
                                        /\ ShutsDown(u, g)' <=> ShutsDown(u, g)
  BY <1>2, <1>3 DEF Borrows, Borrowing, Deletes, ShutsDown
<1>5. \A u \in Threads : \A q : /\ BorrowsObject(u, q)' <=> BorrowsObject(u, q)
                                /\ Creates(u, q)' <=> Creates(u, q)
                                /\ HasArgument(u, q)' <=> HasArgument(u, q)
  BY <1>2, <1>3 DEF BorrowsObject, Uses, Creates, HasArgument
<1>6. \A g \in Handles : (Lost(g)' <=> Lost(g)) /\ (Opened(g)' <=> Opened(g))
  BY <1>1, <1>4 DEF Lost, Opened
<1>7. Engaged'
  <2>1. ASSUME NEW u \in Threads PROVE EngagedAt(u)'
    <3>1. EngagedAt(u)
      BY DEF Engaged
    <3>2. \A q \in objs' : Creates(u, q)' => \A v \in Threads : ~HasArgument(v, q)'
      BY <1>1, <1>5, <3>1 DEF EngagedAt
    <3>3. CASE u = t
      BY <1>1, <1>2, <1>3, <3>1, <3>2, <3>3 DEF EngagedAt, Places, Idle
    <3>4. CASE u # t
      BY <1>1, <1>3, <3>1, <3>2, <3>4 DEF EngagedAt
    <3>. QED BY <3>3, <3>4
  <2>. QED BY <2>1 DEF Engaged
<1>8. InTime'
  <2>1. ASSUME NEW q \in objs' PROVE IF q \in late' THEN Lost(q.db)' ELSE Opened(q.db)'
    <3>1. q \in objs /\ q.db \in Handles
      BY <1>1 DEF Types, AllObjects
    <3>. QED BY <1>1, <1>6, <3>1 DEF InTime
  <2>2. ASSUME NEW u \in Threads
        PROVE  /\ (pc[u].at \in Borrowing => IF u \in late THEN Lost(pc[u].db) ELSE Opened(pc[u].db))'
               /\ u \in late' => pc'[u].at \in Borrowing \ {"shutdown"}
    <3>1. /\ pc[u].at \in Borrowing => IF u \in late THEN Lost(pc[u].db) ELSE Opened(pc[u].db)
          /\ u \in late => pc[u].at \in Borrowing \ {"shutdown"}
      BY DEF InTime
    <3>2. pc'[u].at = pc[u].at /\ (pc[u] # Idle => pc'[u].db = pc[u].db)
      BY <1>2, <1>3
    <3>3. pc[u].at \in Borrowing => pc[u].db \in Handles /\ pc'[u].db = pc[u].db
      BY <3>2, JobsAre DEF Types, Idle, Borrowing
    <3>4. pc[u].at \in Borrowing => IF u \in late THEN Lost(pc[u].db)' ELSE Opened(pc[u].db)'
      BY <1>6, <3>1, <3>3
    <3>. QED BY <1>1, <3>1, <3>2, <3>4
  <2>3. \A g \in Handles, u \in Threads : Deletes(u, g)' =>
           /\ word'[g] = "closing" /\ (Holders(g) \ late)' = {}
           /\ \A v \in Threads : Deletes(v, g)' => v = u
    BY <1>1, <1>4 DEF InTime, Holders, ObjectsOf
  <2>. QED BY <2>1, <2>2, <2>3 DEF InTime
<1>9. Closed'
  <2>1. \A q \in ObjectsOf(pc[t].db) : IsItr(q) => q \in closed
    BY <1>1 DEF Listed
  <2>2. \A q \in closed' : q \in afterClose' \/ \E u \in Threads : BorrowsObject(u, q)'
    BY <1>1, <1>5 DEF Closed
  <2>3. \A u \in Threads, q \in objs' :
           Creates(u, q)' => q \in afterClose' \/ (word'[q.db] = "open" /\ q \notin closed')
    BY <1>1, <1>5 DEF Closed
  <2>. QED BY <1>1, <1>2, <1>3, <1>4, <2>1, <2>2, <2>3 DEF Closed, ObjectsOf
<1>10. Awaited'
  BY <1>1, <1>4 DEF Awaited, ObjectsOf
<1>. QED BY <1>7, <1>8, <1>9, <1>10

\* ~DbObject runs when only those who came late are left.
LEMMA DeleteDbKeeps ==
  ASSUME IInv, NEW t \in Threads, DeleteDb(t)
  PROVE  Engaged' /\ InTime' /\ Closed' /\ Awaited'
<1>. USE DEF IInv
<1>0. PICK h \in Handles : h = pc[t].db
  BY JobsAre DEF DeleteDb, Types, Idle
<1>1. /\ h \in Handles /\ Deletes(t, h) /\ word[h] = "closing" /\ Holders(h) \ late = {}
      /\ word' = [word EXCEPT ![h] = "deleted"] /\ pc' = [pc EXCEPT ![t] = Idle]
      /\ UNCHANGED <<path, objs, closed, afterClose, late>>
  <2>1. /\ pc[t].at = "deleting" /\ word' = [word EXCEPT ![h] = "deleted"]
        /\ pc' = [pc EXCEPT ![t] = Idle] /\ UNCHANGED <<path, objs, closed, afterClose, late>>
    BY <1>0 DEF DeleteDb, objects
  <2>2. h \in Handles /\ Deletes(t, h)
    BY <1>0, <2>1, JobsAre DEF Types, Deletes, Idle
  <2>. QED BY <2>1, <2>2 DEF InTime
<1>2. /\ pc'[t] = Idle /\ \A u \in Threads : u # t => pc'[u] = pc[u]
      /\ word'[h] = "deleted" /\ \A g \in Handles : g # h => word'[g] = word[g]
  BY <1>1 DEF Types
<1>3. /\ \A u \in Threads : (u \notin late => ~Borrows(u, h)) /\ (u # t => ~Deletes(u, h))
      /\ \A u \in Threads : ~ShutsDown(u, h)
      /\ \A o \in objs : o.db = h => o \in late
  <2>1. \A u \in Threads : u \notin late => ~Borrows(u, h)
    BY <1>1 DEF Holders
  <2>2. \A u \in Threads : u # t => ~Deletes(u, h)
    BY <1>1 DEF InTime
  <2>3. \A u \in Threads : ShutsDown(u, h) => Borrows(u, h) /\ u \notin late
    BY DEF ShutsDown, Borrows, Borrowing, InTime
  <2>. QED BY <1>1, <2>1, <2>2, <2>3 DEF Holders, ObjectsOf
<1>4. \A g \in Handles, u \in Threads : /\ Borrows(u, g)' <=> Borrows(u, g)
                                        /\ ShutsDown(u, g)' <=> ShutsDown(u, g)
                                        /\ Deletes(u, g)' <=> Deletes(u, g) /\ u # t
  BY <1>1, <1>2 DEF Borrows, Borrowing, Deletes, ShutsDown, Idle
<1>5. \A g \in Handles : Deletes(t, g) => g = h
  BY <1>1 DEF Deletes
<1>6. \A u \in Threads : \A q : /\ BorrowsObject(u, q)' <=> BorrowsObject(u, q)
                                /\ Creates(u, q)' <=> Creates(u, q)
                                /\ HasArgument(u, q)' <=> HasArgument(u, q)
  BY <1>1, <1>2 DEF BorrowsObject, Uses, Creates, HasArgument, Deletes, Idle
<1>7. /\ Lost(h)' /\ \A g \in Handles : Lost(g) => Lost(g)'
      /\ \A g \in Handles : g # h => (Opened(g)' <=> Opened(g))
  <2>1. Lost(h)'
    BY <1>2 DEF Lost
  <2>2. ASSUME NEW g \in Handles, g # h PROVE (Lost(g) => Lost(g)') /\ (Opened(g)' <=> Opened(g))
    BY <1>2, <1>4, <1>5, <2>2 DEF Lost, Opened
  <2>. QED BY <2>1, <2>2
<1>8. Engaged'
  <2>1. ASSUME NEW u \in Threads PROVE EngagedAt(u)'
    <3>1. EngagedAt(u)
      BY DEF Engaged
    <3>2. \A q \in objs' : Creates(u, q)' => \A v \in Threads : ~HasArgument(v, q)'
      BY <1>1, <1>6, <3>1 DEF EngagedAt
    <3>3. CASE u = t
      BY <1>2, <3>2, <3>3 DEF EngagedAt, Idle, Places
    <3>4. CASE u # t
      <4>1. pc'[u] = pc[u] /\ (pc[u] # Idle => pc[u].db \in Handles)
        BY <1>2, <3>4, JobsAre DEF Types
      <4>2. pc[u] # Idle => word'[pc[u].db] # "none"
        BY <1>2, <3>1, <4>1 DEF EngagedAt
      <4>3. pc[u].at = "shutdown" => word'[pc[u].db] = "closing"
        BY <1>2, <1>3, <3>1, <4>1 DEF EngagedAt, Idle, ShutsDown
      <4>. QED BY <1>1, <3>1, <3>2, <4>1, <4>2, <4>3 DEF EngagedAt
    <3>. QED BY <3>3, <3>4
  <2>. QED BY <2>1 DEF Engaged
<1>9. InTime'
  <2>1. ASSUME NEW q \in objs' PROVE IF q \in late' THEN Lost(q.db)' ELSE Opened(q.db)'
    <3>1. q \in objs /\ q.db \in Handles
      BY <1>1 DEF Types, AllObjects
    <3>. QED BY <1>1, <1>3, <1>7, <3>1 DEF InTime
  <2>2. ASSUME NEW u \in Threads
        PROVE  /\ (pc[u].at \in Borrowing => IF u \in late THEN Lost(pc[u].db) ELSE Opened(pc[u].db))'
               /\ u \in late' => pc'[u].at \in Borrowing \ {"shutdown"}
    <3>0. /\ pc[u].at \in Borrowing => IF u \in late THEN Lost(pc[u].db) ELSE Opened(pc[u].db)
          /\ u \in late => pc[u].at \in Borrowing \ {"shutdown"}
      BY DEF InTime
    <3>1. CASE u = t
      <4>1. pc[t].at \notin Borrowing
        BY <1>1, DeletersAre
      <4>. QED BY <1>1, <1>2, <3>0, <3>1, <4>1 DEF Idle, Borrowing
    <3>2. CASE u # t
      <4>1. pc'[u] = pc[u] /\ (u \in late' <=> u \in late)
        BY <1>1, <1>2, <3>2
      <4>2. pc[u].at \in Borrowing => pc[u].db \in Handles /\ (u \notin late => pc[u].db # h)
        BY <1>3, JobsAre DEF Types, Idle, Borrowing, Borrows
      <4>3. pc[u].at \in Borrowing => IF u \in late THEN Lost(pc[u].db)' ELSE Opened(pc[u].db)'
        BY <1>7, <3>0, <4>1, <4>2
      <4>. QED BY <3>0, <4>1, <4>3 DEF Lost, Opened, Deletes
    <3>. QED BY <3>1, <3>2
  <2>3. ASSUME NEW g \in Handles, NEW u \in Threads, Deletes(u, g)'
        PROVE  /\ word'[g] = "closing" /\ (Holders(g) \ late)' = {}
               /\ \A v \in Threads : Deletes(v, g)' => v = u
    <3>1. Deletes(u, g) /\ g # h
      BY <1>3, <1>4, <2>3
    <3>2. word[g] = "closing" /\ Holders(g) \ late = {} /\ \A v \in Threads : Deletes(v, g) => v = u
      BY <3>1 DEF InTime
    <3>. QED BY <1>1, <1>2, <1>4, <3>1, <3>2 DEF Holders, ObjectsOf
  <2>. QED BY <2>1, <2>2, <2>3 DEF InTime
<1>10. Closed'
  <2>1. \A q \in closed' : q \in afterClose' \/ \E u \in Threads : BorrowsObject(u, q)'
    BY <1>1, <1>6 DEF Closed
  <2>2. ASSUME NEW u \in Threads, NEW q \in objs', Creates(u, q)'
        PROVE  q \in afterClose' \/ (word'[q.db] = "open" /\ q \notin closed')
    <3>1. Creates(u, q) /\ q \in objs /\ q.db \in Handles
      BY <1>1, <1>6, <2>2 DEF Types, AllObjects
    <3>2. CASE q.db = h
      BY <1>1, <3>1, <3>2 DEF Closed
    <3>3. CASE q.db # h
      BY <1>1, <1>2, <3>1, <3>3 DEF Closed
    <3>. QED BY <3>2, <3>3
  <2>3. \A u \in Threads : pc'[u].at = "shutdown" => u # t
    BY <1>2 DEF Idle
  <2>4. \A g \in Handles : word'[g] = "closing" => word[g] = "closing"
    BY <1>2
  <2>. QED BY <1>1, <1>2, <1>4, <2>1, <2>2, <2>3, <2>4 DEF Closed, ObjectsOf
<1>11. Awaited'
  BY <1>1, <1>2, <1>4, <1>5 DEF Awaited, ObjectsOf
<1>. QED BY <1>8, <1>9, <1>10, <1>11

\* Destroy touches files only.
LEMMA DestroyKeeps ==
  ASSUME IInv, NEW t \in Threads, NEW p \in Paths, Destroy(t, p)
  PROVE  Engaged' /\ InTime' /\ Closed' /\ Awaited'
<1>1. UNCHANGED <<word, path, objs, closed, afterClose, late, pc>>
  BY DEF Destroy, objects
<1>2. \A u \in Threads : \A g :
         /\ Borrows(u, g)' <=> Borrows(u, g)
         /\ Deletes(u, g)' <=> Deletes(u, g)
         /\ ShutsDown(u, g)' <=> ShutsDown(u, g)
  BY <1>1 DEF Borrows, Deletes, ShutsDown
<1>7. \A u \in Threads : \A q :
         /\ BorrowsObject(u, q)' <=> BorrowsObject(u, q)
         /\ Creates(u, q)' <=> Creates(u, q)
         /\ HasArgument(u, q)' <=> HasArgument(u, q)
  BY <1>1 DEF BorrowsObject, Uses, Creates, HasArgument
<1>3. Engaged'
  BY <1>1 DEF IInv, Engaged, EngagedAt, Creates, HasArgument
<1>4. InTime'
  <2>1. \A q \in objs' : IF q \in late' THEN Lost(q.db)' ELSE Opened(q.db)'
    BY <1>1, <1>2 DEF IInv, InTime, Lost, Opened
  <2>2. \A u \in Threads :
          /\ (pc[u].at \in Borrowing => IF u \in late THEN Lost(pc[u].db) ELSE Opened(pc[u].db))'
          /\ u \in late' => pc'[u].at \in Borrowing \ {"shutdown"}
    BY <1>1 DEF IInv, InTime, Lost, Opened, Deletes
  <2>3. \A g \in Handles, u \in Threads : Deletes(u, g)' =>
           /\ word'[g] = "closing" /\ (Holders(g) \ late)' = {}
           /\ \A v \in Threads : Deletes(v, g)' => v = u
    BY <1>1, <1>2 DEF IInv, InTime, Holders, ObjectsOf
  <2>. QED BY <2>1, <2>2, <2>3 DEF InTime
<1>5. Closed'
  BY <1>1, <1>2, <1>7 DEF IInv, Closed, ObjectsOf
<1>6. Awaited'
  BY <1>1, <1>2 DEF IInv, Awaited, ObjectsOf
<1>. QED BY <1>3, <1>4, <1>5, <1>6

\* A handle that is opened was nobody's.
LEMMA OpenKeeps ==
  ASSUME IInv, NEW t \in Threads, NEW call \in Opens, Open(t, call)
  PROVE  Engaged' /\ InTime' /\ Closed' /\ Awaited'
<1>. USE DEF IInv
<1>a. PICK h \in Handles : h = FirstUnused /\ word[h] = "none"
  BY FirstUnusedIsUnused DEF Open
<1>b. PICK made : made = {Obj(h, name) : name \in Range(call.families)}
  OBVIOUS
<1>1. h \in Handles /\ word[h] = "none"
  BY <1>a
<1>2. /\ word' = [word EXCEPT ![h] = "open"] /\ objs' = objs \cup made
      /\ UNCHANGED <<closed, afterClose, late, pc>>
  BY <1>a, <1>b DEF Open
<1>3. \A o \in made : o.db = h
  BY <1>b DEF Obj
<1>4. word'[h] = "open" /\ \A g \in Handles : g # h => word'[g] = word[g]
  BY <1>1, <1>2 DEF Types
<1>5. \A u \in Threads : pc[u] # Idle => pc[u].db \in Handles /\ pc[u].db # h
  BY <1>1, JobsAre DEF Types, Engaged, EngagedAt
<1>6. /\ ~Lost(h) /\ ~Opened(h)
      /\ \A q \in objs : q.db # h
  <2>1. ~Lost(h) /\ ~Opened(h)
    BY <1>1, LostIs DEF Opened
  <2>. QED BY <2>1 DEF InTime
<1>7. \A q \in made : /\ q \notin objs /\ q \notin closed /\ q \notin afterClose
                      /\ \A u \in Threads : ~Creates(u, q) /\ ~HasArgument(u, q)
  <2>1. \A q \in made : q \notin objs
    BY <1>3, <1>6
  <2>2. ASSUME NEW q \in made, NEW u \in Threads PROVE ~Creates(u, q) /\ ~HasArgument(u, q)
    <3>1. q \in AllObjects /\ q # None
      <4>1. objs' \subseteq AllObjects
        BY TypesStep DEF Types, Next, InCall
      <4>. QED BY <1>2, <4>1, ObjectsAreThemselves
    <3>. QED BY <1>3, <1>5, <3>1 DEF Creates, HasArgument, Engaged, EngagedAt, Idle, Places
  <2>. QED BY <2>1, <2>2 DEF Types
<1>8. \A q \in made : q \notin late
  <2>1. objs' \subseteq AllObjects
    BY TypesStep DEF Types, Next, InCall
  <2>. QED BY <1>2, <1>7, <2>1, ObjectsAreThemselves DEF Types
<1>9. /\ \A u \in Threads : \A g : /\ Borrows(u, g)' <=> Borrows(u, g)
                                   /\ Deletes(u, g)' <=> Deletes(u, g)
                                   /\ ShutsDown(u, g)' <=> ShutsDown(u, g)
      /\ \A u \in Threads : \A q : /\ BorrowsObject(u, q)' <=> BorrowsObject(u, q)
                                   /\ Creates(u, q)' <=> Creates(u, q)
                                   /\ HasArgument(u, q)' <=> HasArgument(u, q)
  BY <1>2 DEF Borrows, Deletes, ShutsDown, BorrowsObject, Uses, Creates, HasArgument
<1>10. Opened(h)' /\ \A g \in Handles : g # h => (Lost(g)' <=> Lost(g)) /\ (Opened(g)' <=> Opened(g))
  BY <1>4, <1>9 DEF Lost, Opened
<1>11. Engaged'
  <2>1. ASSUME NEW u \in Threads PROVE EngagedAt(u)'
    <3>1. EngagedAt(u)
      BY DEF Engaged
    <3>2. pc[u] # Idle => word'[pc[u].db] = word[pc[u].db]
      BY <1>4, <1>5
    <3>3. \A q \in objs' : Creates(u, q) => \A v \in Threads : ~HasArgument(v, q)
      BY <1>2, <1>7, <3>1 DEF EngagedAt
    <3>4. pc[u].at = "shutdown" => pc[u] # Idle
      BY DEF Idle
    <3>. QED BY <1>2, <1>9, <3>1, <3>2, <3>3, <3>4 DEF EngagedAt
  <2>. QED BY <2>1 DEF Engaged
<1>12. InTime'
  <2>1. ASSUME NEW q \in objs' PROVE IF q \in late' THEN Lost(q.db)' ELSE Opened(q.db)'
    <3>1. CASE q \in made
      BY <1>2, <1>3, <1>8, <1>10, <3>1
    <3>2. CASE q \in objs
      <4>1. q.db \in Handles /\ q.db # h
        BY <1>6, <3>2 DEF Types, AllObjects
      <4>. QED BY <1>2, <1>10, <3>2, <4>1 DEF InTime
    <3>. QED BY <1>2, <3>1, <3>2
  <2>2. ASSUME NEW u \in Threads
        PROVE  /\ (pc[u].at \in Borrowing => IF u \in late THEN Lost(pc[u].db) ELSE Opened(pc[u].db))'
               /\ u \in late' => pc'[u].at \in Borrowing \ {"shutdown"}
    <3>1. /\ pc[u].at \in Borrowing => IF u \in late THEN Lost(pc[u].db) ELSE Opened(pc[u].db)
          /\ u \in late => pc[u].at \in Borrowing \ {"shutdown"}
      BY DEF InTime
    <3>2. pc[u].at \in Borrowing => pc[u].db \in Handles /\ pc[u].db # h
      BY <1>5 DEF Idle, Borrowing
    <3>3. pc'[u] = pc[u] /\ late' = late
      BY <1>2
    <3>4. pc[u].at \in Borrowing => IF u \in late THEN Lost(pc[u].db)' ELSE Opened(pc[u].db)'
      BY <1>10, <3>1, <3>2, <3>3
    <3>. QED BY <3>1, <3>3, <3>4
  <2>3. ASSUME NEW g \in Handles, NEW u \in Threads, Deletes(u, g)'
        PROVE  /\ word'[g] = "closing" /\ (Holders(g) \ late)' = {}
               /\ \A v \in Threads : Deletes(v, g)' => v = u
    <3>1. Deletes(u, g) /\ word[g] = "closing" /\ Holders(g) \ late = {}
          /\ \A v \in Threads : Deletes(v, g) => v = u
      BY <1>9, <2>3 DEF InTime
    <3>2. g # h /\ \A q \in made : q.db # g
      BY <1>1, <1>3, <3>1
    <3>. QED BY <1>2, <1>4, <1>9, <3>1, <3>2 DEF Holders, ObjectsOf
  <2>. QED BY <2>1, <2>2, <2>3 DEF InTime
<1>13. Closed'
  <2>1. \A q \in closed' : q \in afterClose' \/ \E u \in Threads : BorrowsObject(u, q)'
    BY <1>2, <1>9 DEF Closed
  <2>2. ASSUME NEW u \in Threads, NEW q \in objs', Creates(u, q)'
        PROVE  q \in afterClose' \/ (word'[q.db] = "open" /\ q \notin closed')
    <3>1. q \in objs /\ Creates(u, q) /\ q.db \in Handles /\ q.db # h
      BY <1>2, <1>6, <1>7, <1>9, <2>2 DEF Types, AllObjects
    <3>. QED BY <1>2, <1>4, <3>1 DEF Closed
  <2>3. \A u \in Threads : pc[u].at = "shutdown" => pc[u].db # h
    BY <1>5 DEF Idle
  <2>4. \A g \in Handles : word'[g] = "closing" => word[g] = "closing" /\ g # h
    BY <1>4
  <2>5. \A g \in Handles : g # h => ObjectsOf(g)' = ObjectsOf(g)
    BY <1>2, <1>3 DEF ObjectsOf
  <2>6. \A u \in Threads : pc'[u].at = "shutdown" /\ pc'[u].list = "families" =>
          \A o \in objs' : o.db = pc'[u].db /\ IsItr(o) => o \in closed' \cup afterClose'
    BY <1>2, <1>3, <2>3 DEF Closed, ObjectsOf
  <2>7. \A g \in Handles : word'[g] = "closing" /\ (\A u \in Threads : ~ShutsDown(u, g)') =>
          ObjectsOf(g)' \subseteq closed' \cup afterClose'
    BY <1>2, <1>9, <2>4, <2>5 DEF Closed
  <2>. QED BY <2>1, <2>2, <2>6, <2>7 DEF Closed, ObjectsOf
<1>14. Awaited'
  <2>1. \A g \in Handles : word'[g] = "closing" => word[g] = "closing" /\ g # h
    BY <1>4
  <2>2. \A g \in Handles : g # h => ObjectsOf(g)' = ObjectsOf(g)
    BY <1>2, <1>3 DEF ObjectsOf
  <2>. QED BY <1>2, <1>9, <2>1, <2>2 DEF Awaited
<1>. QED BY <1>11, <1>12, <1>13, <1>14


-----------------------------------------------------------------------------
(* Locks and files *)

\* RocksDB gives the LOCK file of a directory to one handle at a time.
LEMMA LocksStep ==
  ASSUME IInv, [Next]_vars
  PROVE  Locks'
<1>. USE DEF IInv, storage
<1>1. ASSUME NEW t \in Threads, NEW call \in Opens, Open(t, call) PROVE Locks'
  <2>. DEFINE h == FirstUnused
              p == call.path
  <2>1. h \in Handles /\ word[h] = "none" /\ p \in Paths /\ lock[p] = None
    BY <1>1, FirstUnusedIsUnused, OpensAreCalls DEF Open, RocksOpens
  <2>2. /\ word' = [word EXCEPT ![h] = "open"] /\ path' = [path EXCEPT ![h] = p]
        /\ lock' = [lock EXCEPT ![p] = h]
    BY <1>1 DEF Open
  <2>. HIDE DEF h, p
  <2>3. /\ word'[h] = "open" /\ path'[h] = p /\ lock'[p] = h
        /\ \A g \in Handles : g # h => word'[g] = word[g] /\ path'[g] = path[g]
        /\ \A q \in Paths : q # p => lock'[q] = lock[q]
    BY <2>1, <2>2 DEF Types
  <2>4. ASSUME NEW g \in Handles, word'[g] \in {"open", "closing"} PROVE lock'[path'[g]] = g
    <3>1. CASE g = h
      BY <2>3, <3>1
    <3>2. CASE g # h
      <4>1. lock[path[g]] = g /\ path[g] \in Paths
        BY <2>3, <2>4, <3>2 DEF Locks, Types
      <4>2. path[g] # p
        BY <2>1, <4>1, NoneIsNothing
      <4>. QED BY <2>3, <3>2, <4>1, <4>2
    <3>. QED BY <3>1, <3>2
  <2>5. ASSUME NEW q \in Paths, lock'[q] # None
        PROVE  path'[lock'[q]] = q /\ word'[lock'[q]] \in {"open", "closing"}
    <3>1. CASE q = p
      BY <2>3, <3>1
    <3>2. CASE q # p
      <4>1. lock'[q] \in Handles /\ path[lock'[q]] = q /\ word[lock'[q]] \in {"open", "closing"}
        BY <2>3, <2>5, <3>2 DEF Locks, Types
      <4>2. lock'[q] # h
        BY <2>1, <4>1
      <4>. QED BY <2>3, <4>1, <4>2
    <3>. QED BY <3>1, <3>2
  <2>. QED BY <2>4, <2>5 DEF Locks
<1>2. ASSUME NEW t \in Threads, DeleteDb(t) PROVE Locks'
  <2>. DEFINE h == pc[t].db
              p == path[h]
  <2>1. /\ h \in Handles /\ word[h] = "closing" /\ p \in Paths
        /\ word' = [word EXCEPT ![h] = "deleted"] /\ lock' = [lock EXCEPT ![p] = None]
        /\ UNCHANGED path
    <3>1. h \in Handles /\ Deletes(t, h)
      BY <1>2, JobsAre DEF DeleteDb, Types, Deletes, Idle
    <3>. QED BY <1>2, <3>1 DEF DeleteDb, InTime, Types
  <2>. HIDE DEF h, p
  <2>2. /\ word'[h] = "deleted" /\ lock'[p] = None /\ p = path[h]
        /\ \A g \in Handles : g # h => word'[g] = word[g]
        /\ \A q \in Paths : q # p => lock'[q] = lock[q]
    BY <2>1 DEF Types, p
  <2>3. lock[p] = h
    BY <2>1, <2>2 DEF Locks
  <2>4. ASSUME NEW g \in Handles, word'[g] \in {"open", "closing"} PROVE lock'[path'[g]] = g
    <3>1. g # h
      BY <2>2, <2>4
    <3>2. lock[path[g]] = g /\ path[g] \in Paths
      BY <2>2, <2>4, <3>1 DEF Locks, Types
    <3>. QED BY <2>1, <2>2, <2>3, <3>1, <3>2
  <2>5. ASSUME NEW q \in Paths, lock'[q] # None
        PROVE  path'[lock'[q]] = q /\ word'[lock'[q]] \in {"open", "closing"}
    <3>1. q # p /\ lock'[q] = lock[q]
      BY <2>2, <2>5
    <3>2. lock[q] \in Handles /\ path[lock[q]] = q /\ word[lock[q]] \in {"open", "closing"}
      BY <2>5, <3>1 DEF Locks, Types
    <3>. QED BY <2>1, <2>2, <3>1, <3>2
  <2>. QED BY <2>4, <2>5 DEF Locks
<1>3. ASSUME NEW t \in Threads, NEW h \in Handles, Close(t, h) PROVE Locks'
  <2>1. word[h] = "open" /\ word' = [word EXCEPT ![h] = "closing"] /\ UNCHANGED <<lock, path>>
    BY <1>3 DEF Close
  <2>. QED BY <2>1 DEF Locks, Types
<1>4. CASE Crash
  BY <1>4 DEF Crash, Locks
<1>5. ASSUME UNCHANGED <<word, lock, path>> PROVE Locks'
  BY <1>5 DEF Locks
<1>6. ASSUME NEW t \in Threads,
             Use(t) \/ Created(t) \/ Assign(t) \/ AssignFails(t) \/ ShutdownGoesOn(t) \/ ShutdownEnds(t)
      PROVE  UNCHANGED <<word, lock, path>>
  BY <1>6 DEF Use, Read, Put, Iterator, CreateColumnFamily, Construct, Created, Assign, AssignFails,
              DropColumnFamily, Checkpoint, ShutdownGoesOn, ShutdownEnds
<1>7. ASSUME NEW t \in Threads, NEW o \in objs,
             \/ ShutdownCloses(t, o) \/ BorrowObject(t, o) \/ BorrowFamily(t, o)
             \/ BeginDrop(t, o) \/ CloseObject(t, o)
      PROVE  UNCHANGED <<word, lock, path>>
  BY <1>7 DEF ShutdownCloses, BorrowObject, BorrowFamily, BeginDrop, CloseObject
<1>8. ASSUME NEW t \in Threads, NEW h \in Handles, Borrow(t, h) PROVE UNCHANGED <<word, lock, path>>
  BY <1>8 DEF Borrow
<1>9. ASSUME NEW t \in Threads, NEW p \in Paths, Destroy(t, p) PROVE UNCHANGED <<word, lock, path>>
  BY <1>9 DEF Destroy
<1>10. CASE UNCHANGED vars
  BY <1>5, <1>10 DEF vars
<1>. QED BY <1>1, <1>2, <1>3, <1>4, <1>5, <1>6, <1>7, <1>8, <1>9, <1>10 DEF Next, InCall

\* What becomes of the files becomes of the writes they were answered for.
LEMMA WritesStep ==
  ASSUME IInv, [Next]_vars
  PROVE  AcknowledgedWritesSurvive'
<1>. USE DEF IInv, storage, AcknowledgedWritesSurvive
<1>1. ASSUME NEW t \in Threads, Put(t) PROVE AcknowledgedWritesSurvive'
  <2>. DEFINE h == pc[t].db
              p == path[h]
              write == [id |-> puts + 1, cf |-> IF pc[t].obj = None THEN "default" ELSE pc[t].obj.name]
  <2>1. /\ pc[t].at = "using"
        /\ files' = [files EXCEPT ![p].data = IF Works(t) THEN @ \cup {write} ELSE @]
        /\ acked' = [acked EXCEPT ![p] = @ \cup {write}]
        /\ t \in late => Works(t)
    BY <1>1 DEF Put
  <2>2. h \in Handles /\ p \in Paths
    BY <2>1, JobsAre DEF Types, Idle, Engaged, EngagedAt
  <2>a. Works(t)
    BY <2>1, <2>2 DEF InTime, Borrowing, Opened, Works
  <2>3. files'[p].data = files[p].data \cup {write} /\ acked'[p] = acked[p] \cup {write}
    BY <2>1, <2>2, <2>a DEF Types
  <2>4. \A q \in Paths : q # p => files'[q] = files[q] /\ acked'[q] = acked[q]
    BY <2>1, <2>2 DEF Types
  <2>. HIDE DEF h, p, write
  <2>. QED BY <2>3, <2>4
<1>2. ASSUME NEW t \in Threads, NEW name \in Families, CreateColumnFamily(t, name)
      PROVE AcknowledgedWritesSurvive'
  <2>1. files' = [files EXCEPT ![path[pc[t].db]].families = @ \cup {name}] /\ UNCHANGED acked
    BY <1>2 DEF CreateColumnFamily
  <2>2. \A q \in Paths : files'[q].data = files[q].data
    BY <2>1 DEF Types
  <2>. QED BY <2>1, <2>2
<1>3. ASSUME NEW t \in Threads, DropColumnFamily(t) PROVE AcknowledgedWritesSurvive'
  <2>. DEFINE o == pc[t].obj
              p == path[o.db]
              Others(writes) == {w \in writes : w.cf # o.name}
  <2>1. /\ pc[t].at = "dropping"
        /\ files' = [files EXCEPT ![p].families = @ \ {o.name}, ![p].data = Others(@)]
        /\ acked' = [acked EXCEPT ![p] = Others(@)]
    BY <1>3 DEF DropColumnFamily
  <2>2. p \in Paths
    <3>1. o \in objs /\ word[o.db] # "none"
      <4>0. pc[t].at = "dropping"
        BY <2>1
      <4>1. EngagedAt(t) /\ pc[t] # Idle /\ pc[t].at \in Places
        BY <4>0 DEF Engaged, Places, Idle
      <4>2. o # None /\ o.db = pc[t].db
        BY <4>0, <4>1 DEF EngagedAt
      <4>. QED BY <4>0, <4>1, <4>2 DEF EngagedAt
    <3>2. o.db \in Handles
      BY <3>1 DEF Types, AllObjects
    <3>. QED BY <3>1, <3>2 DEF Types
  <2>. DEFINE renamed == [files[p] EXCEPT !.families = @ \ {o.name}]
  <2>3. files'[p].data = Others(files[p].data) /\ acked'[p] = Others(acked[p])
    <3>1. files[p] \in Dirs
      BY <2>2 DEF Types
    <3>2. files'[p] = [renamed EXCEPT !.data = Others(@)] /\ acked'[p] = Others(acked[p])
      BY <2>1, <2>2 DEF Types
    <3>. HIDE DEF o, p, Others
    <3>3. renamed \in Dirs /\ renamed.data = files[p].data
      BY <3>1, DirsAre DEF Dirs
    <3>. HIDE DEF renamed
    <3>. QED BY <3>2, <3>3 DEF Dirs
  <2>4. \A q \in Paths : q # p => files'[q] = files[q] /\ acked'[q] = acked[q]
    BY <2>1, <2>2 DEF Types
  <2>5. Others(acked[p]) \subseteq Others(files[p].data)
    BY <2>2
  <2>. HIDE DEF o, p, Others
  <2>. QED BY <2>3, <2>4, <2>5
<1>4. ASSUME NEW t \in Threads, Checkpoint(t) PROVE AcknowledgedWritesSurvive'
  <2>. DEFINE p == path[pc[t].db]
  <2>1. /\ pc[t].at = "using"
        /\ files' = [files EXCEPT ![Copy] = files[p]] /\ acked' = [acked EXCEPT ![Copy] = acked[p]]
    BY <1>4 DEF Checkpoint
  <2>2. p \in Paths
    BY <2>1, JobsAre DEF Types, Idle, Engaged, EngagedAt
  <2>. HIDE DEF p
  <2>. QED BY <2>1, <2>2 DEF Types
<1>5. ASSUME NEW t \in Threads, NEW p \in Paths, Destroy(t, p) PROVE AcknowledgedWritesSurvive'
  BY <1>5 DEF Destroy, Types
<1>6. ASSUME NEW t \in Threads, NEW call \in Opens, Open(t, call) PROVE AcknowledgedWritesSurvive'
  <2>1. /\ files' = [files EXCEPT ![call.path].exists = TRUE,
                                  ![call.path].families = @ \cup Named(call)]
        /\ UNCHANGED acked
    BY <1>6 DEF Open
  <2>2. \A q \in Paths : files'[q].data = files[q].data
    BY <2>1 DEF Types
  <2>. QED BY <2>1, <2>2
<1>7. ASSUME UNCHANGED <<files, acked>> PROVE AcknowledgedWritesSurvive'
  BY <1>7
<1>8. ASSUME NEW t \in Threads,
             \/ Read(t) \/ Iterator(t) \/ Created(t) \/ Assign(t) \/ AssignFails(t)
             \/ ShutdownGoesOn(t) \/ ShutdownEnds(t) \/ DeleteDb(t)
      PROVE  UNCHANGED <<files, acked>>
  BY <1>8 DEF Read, Iterator, Created, Assign, AssignFails, ShutdownGoesOn, ShutdownEnds, DeleteDb
<1>9. ASSUME NEW t \in Threads, NEW o \in objs,
             \/ ShutdownCloses(t, o) \/ BorrowObject(t, o) \/ BorrowFamily(t, o)
             \/ BeginDrop(t, o) \/ CloseObject(t, o)
      PROVE  UNCHANGED <<files, acked>>
  BY <1>9 DEF ShutdownCloses, BorrowObject, BorrowFamily, BeginDrop, CloseObject
<1>10. ASSUME NEW t \in Threads, NEW h \in Handles, Borrow(t, h) \/ Close(t, h)
       PROVE  UNCHANGED <<files, acked>>
  BY <1>10 DEF Borrow, Close
<1>11. CASE Crash \/ UNCHANGED vars
  BY <1>7, <1>11 DEF Crash, vars
<1>. QED BY <1>1, <1>2, <1>3, <1>4, <1>5, <1>6, <1>7, <1>8, <1>9, <1>10, <1>11 DEF Next, InCall, Use

-----------------------------------------------------------------------------

\* The invariant that the two properties of the runs need: it holds in every
\* state of every run of calls, closes, collections and crashes.
THEOREM IInvInductive == Spec => []IInv
<1>1. Init => IInv
  <2>. SUFFICES ASSUME Init PROVE IInv
    OBVIOUS
  <2>1. Types
    BY BoundsAreNaturals DEF Init, Types, Missing, Dirs, Jobs
  <2>2. Engaged /\ InTime /\ Closed /\ Awaited
    BY DEF Init, Engaged, EngagedAt, InTime, Closed, Awaited, Idle, Places, Borrowing, Deletes, Creates
  <2>3. Locks /\ AcknowledgedWritesSurvive
    BY DEF Init, Locks, AcknowledgedWritesSurvive
  <2>. QED BY <2>1, <2>2, <2>3 DEF IInv
<1>2. IInv /\ [Next]_vars => IInv'
  <2>. SUFFICES ASSUME IInv, [Next]_vars PROVE IInv'
    OBVIOUS
  <2>1. Types' /\ Locks' /\ AcknowledgedWritesSurvive'
    BY TypesStep, LocksStep, WritesStep DEF IInv
  <2>2. Engaged' /\ InTime' /\ Closed' /\ Awaited'
    <3>1. CASE Crash
      <4>1. /\ \A t \in Threads : pc'[t] = Idle
            /\ objs' = {} /\ closed' = {} /\ late' = {}
            /\ \A h \in Handles : word'[h] # "closing"
        BY <3>1 DEF Crash
      <4>2. Engaged'
        BY <4>1 DEF Engaged, EngagedAt, Idle, Places
      <4>3. InTime'
        BY <4>1 DEF InTime, Idle, Borrowing, Deletes
      <4>4. Closed'
        BY <4>1 DEF Closed, ObjectsOf, Idle
      <4>. QED BY <4>1, <4>2, <4>3, <4>4 DEF Awaited
    <3>2. CASE UNCHANGED vars
      <4>1. Engaged'
        BY <3>2 DEF vars, IInv, Engaged, EngagedAt, Creates, HasArgument
      <4>2. InTime'
        BY <3>2 DEF vars, IInv, InTime, Lost, Opened, Deletes, Holders, Borrows, ObjectsOf
      <4>3. Closed'
        BY <3>2 DEF vars, IInv, Closed, ObjectsOf, BorrowsObject, Uses, Creates, ShutsDown
      <4>4. Awaited'
        BY <3>2 DEF vars, IInv, Awaited, ObjectsOf, Borrows, Deletes
      <4>. QED BY <4>1, <4>2, <4>3, <4>4
    <3>3. ASSUME NEW t \in Threads, Use(t) PROVE Engaged' /\ InTime' /\ Closed' /\ Awaited'
      <4>1. ASSUME NEW o, Construct(t, o), o.db = pc[t].db, o.name \in {"itr"} \cup Families,
                   o = Obj(pc[t].db, o.name)
            PROVE  Engaged' /\ InTime' /\ Closed' /\ Awaited'
        <5>1. pc[t].db \in Handles
          BY <4>1, JobsAre DEF Construct, IInv, Types, Idle
        <5>2. o \in AllObjects
          BY <4>1, <5>1 DEF Obj, AllObjects
        <5>. QED BY <4>1, <5>2, ConstructKeeps
      <4>2. CASE Iterator(t)
        BY <4>1, <4>2 DEF Iterator, Obj
      <4>3. ASSUME NEW name \in Families, CreateColumnFamily(t, name)
            PROVE  Engaged' /\ InTime' /\ Closed' /\ Awaited'
        BY <4>1, <4>3 DEF CreateColumnFamily, Obj
      <4>. QED BY <3>3, <4>2, <4>3, ReturnsKeep DEF Use
    <3>4. ASSUME NEW t \in Threads, InCall(t) PROVE Engaged' /\ InTime' /\ Closed' /\ Awaited'
      <4>1. CASE Assign(t) \/ AssignFails(t)
        <5>1. CASE AssignFails(t) /\ pc[t].at = "retrieving"
          BY <5>1, ReturnsKeep
        <5>2. CASE Assign(t)
          BY <5>2, CallsKeep
        <5>3. CASE AssignFails(t) /\ pc[t].at # "retrieving"
          BY <5>3, CallsKeep
        <5>. QED BY <4>1, <5>1, <5>2, <5>3
      <4>2. CASE Created(t) \/ ShutdownEnds(t)
        BY <4>2, ReturnsKeep
      <4>3. CASE ShutdownGoesOn(t) \/ DeleteDb(t)
        BY <4>3, ShutdownGoesOnKeeps, DeleteDbKeeps
      <4>4. CASE \E o \in objs : ShutdownCloses(t, o)
        BY <4>4, ShutdownClosesKeeps
      <4>. QED BY <3>3, <3>4, <4>1, <4>2, <4>3, <4>4 DEF InCall
    <3>. QED BY <3>1, <3>2, <3>4, ReturnsKeep, CallsKeep, CloseKeeps, DestroyKeeps, OpenKeeps DEF Next
  <2>. QED BY <2>1, <2>2 DEF IInv
<1>. QED BY <1>1, <1>2, PTL DEF Spec

\* A directory stays locked after a close only for a NIF that is still inside,
\* an object that was made or being made when the close came, or the thread that closes it,
\* and is locked for one handle, whatever the calls, threads and crashes.
THEOREM LocksHaveAReason == Spec => []LockIsHeldForAReason
<1>1. IInv => LockIsHeldForAReason
  BY DEF IInv, Awaited, Locks, LockIsHeldForAReason
<1>. QED BY <1>1, IInvInductive, PTL

\* A write answered ok stays in the files through closes, reopens, checkpoints
\* and crashes, until its family is dropped or its directory destroyed.
THEOREM WritesSurvive == Spec => []AcknowledgedWritesSurvive
<1>1. IInv => AcknowledgedWritesSurvive
  BY DEF IInv
<1>. QED BY <1>1, IInvInductive, PTL

\* Every variable keeps to its values, and an object that a NIF works on has
\* not been destroyed.
THEOREM TypesHold == Spec => []TypeOK
<1>1. IInv => TypeOK
  <2>. SUFFICES ASSUME IInv PROVE TypeOK
    OBVIOUS
  <2>. USE DEF IInv
  <2>1. \A p \in Paths : /\ files[p].exists \in BOOLEAN
                         /\ files[p].families \subseteq Families \cup {"default"}
                         /\ lock[p] \in Handles \cup {None}
    BY DEF Types, Names, Dirs
  <2>2. \A t \in Threads : pc[t].at \in {"idle", "retrieved", "toDrop", "deleting"} \cup Borrowing
    BY JobsAre DEF Types, Places, Borrowing
  <2>3. \A t \in Threads : pc[t].at \in {"using", "creating", "dropping"} => pc[t].obj \in objs \cup {None}
    BY DEF Engaged, EngagedAt
  <2>. QED BY <2>1, <2>2, <2>3 DEF TypeOK, Types
<1>. QED BY <1>1, IInvInductive, PTL


-----------------------------------------------------------------------------
(* The promise *)

\* Those who hold h since a time when it had its last reference yet.
Entitled(h) == Holders(h) \ late

\* The steps of Handle, of the threads and objects that hold h.
LEMMA PromiseIs ==
  ASSUME NEW h \in Handles
  PROVE  /\ \A u \in Threads \cup {o \in AllObjects : o.db = h} :
              /\ HandleState(h) = "open" \/ (HandleState(h) = "closing" /\ Entitled(h) # {})
              /\ u \notin Entitled(h) /\ Entitled(h)' = Entitled(h) \cup {u}
              /\ HandleState(h)' = HandleState(h)
              => Promise(h)!Next
         /\ Entitled(h)' \subseteq Entitled(h) /\ HandleState(h)' = HandleState(h) => Promise(h)!Next
         /\ \A u \in Threads \cup {o \in AllObjects : o.db = h} :
              /\ HandleState(h) = "open" /\ HandleState(h)' = "closing"
              /\ u \notin Entitled(h) /\ Entitled(h)' = Entitled(h) \cup {u}
              => Promise(h)!Next
         /\ /\ HandleState(h) = "closing" /\ Entitled(h) = {}
            /\ HandleState(h)' = "closed" /\ Entitled(h)' = Entitled(h)
            => Promise(h)!Next
<1>1. ASSUME Entitled(h)' \subseteq Entitled(h), HandleState(h)' = HandleState(h) PROVE Promise(h)!Next
  <2>1. Entitled(h)' = Entitled(h) \ (Entitled(h) \ Entitled(h)')
    BY <1>1
  <2>2. Entitled(h) \ Entitled(h)' \in SUBSET Entitled(h)
    OBVIOUS
  <2>3. Promise(h)!Leave(Entitled(h) \ Entitled(h)')
    BY <1>1, <2>1, <2>2 DEF Promise!Leave, Entitled
  <2>. QED BY <2>2, <2>3 DEF Promise!Next, Entitled
<1>. QED BY <1>1 DEF Promise!Next, Promise!Enter, Promise!RequestClose, Promise!Destroy, Entitled

\* Who is entitled, one by one.
LEMMA EntitledAre ==
  ASSUME Types, NEW h \in Handles
  PROVE  /\ \A u \in Threads : u \in Entitled(h) <=> Borrows(u, h) /\ u \notin late
         /\ \A o \in objs : o \in Entitled(h) <=> o.db = h /\ o \notin late
         /\ \A x \in Entitled(h) : x \in Threads \/ x \in objs
BY ObjectsAreThemselves DEF Entitled, Holders, ObjectsOf, Types

\* A step that changes neither the threads nor the objects of h.
LEMMA EntitledStay ==
  ASSUME NEW h \in Handles, objs' \subseteq objs,
         \A u \in Threads : Borrows(u, h)' /\ u \notin late' => Borrows(u, h) /\ u \notin late,
         \A o \in objs' : o.db = h /\ o \notin late' => o \notin late
  PROVE  Entitled(h)' \subseteq Entitled(h)
BY DEF Entitled, Holders, ObjectsOf

\* Who returns or closes an object leaves; nobody else does.
LEMMA FinishLeaves ==
  ASSUME Types, NEW t \in Threads, NEW h \in Handles, NEW more \in SUBSET objs,
         Finish(t, h, more), NEW g \in Handles
  PROVE  Entitled(g)' \subseteq Entitled(g)
<1>1. /\ \A o : o \in objs' => o \in objs
      /\ \A o \in objs' : o \in late' <=> o \in late
      /\ \A u \in Threads : u # t => pc'[u] = pc[u] /\ (u \in late' <=> u \in late)
      /\ pc'[t] = Idle \/ pc'[t] = [at |-> "deleting", db |-> h]
  BY FinishIs
<1>2. pc'[t].at \notin Borrowing
  BY <1>1 DEF Idle, Borrowing
<1>3. \A u \in Threads : Borrows(u, g)' => u # t /\ Borrows(u, g)
  BY <1>1, <1>2 DEF Borrows
<1>4. objs' \subseteq objs
  BY <1>1
<1>. QED BY <1>1, <1>3, <1>4, EntitledStay

\* Whatever a step does to a handle that was opened is a step of Handle or
\* does not show there.
LEMMA StepKeepsPromise ==
  ASSUME IInv, [Next]_vars, ~Crash, NEW h \in Handles, word[h] # "none"
  PROVE  [Promise(h)!Next]_<<HandleState(h), Holders(h) \ late>>
<1>. USE DEF IInv, storage
<1>. DEFINE Kept == Promise(h)!Next \/ (HandleState(h)' = HandleState(h) /\ Entitled(h)' = Entitled(h))
<1>0. /\ word'[h] = word[h] => HandleState(h)' = HandleState(h)
      /\ word[h] = "open" => HandleState(h) = "open"
      /\ word[h] = "closing" => HandleState(h) = "closing"
  BY DEF HandleState
<1>1. ASSUME Entitled(h)' \subseteq Entitled(h), word' = word PROVE Kept
  BY <1>0, <1>1, PromiseIs
<1>2. ASSUME NEW x, x \in Threads \/ (x \in AllObjects /\ x.db = h), word' = word,
             word[h] = "open" \/ (word[h] = "closing" /\ Entitled(h) # {}),
             Entitled(h)' = Entitled(h) \cup {x}
      PROVE  Kept
  <2>1. CASE x \in Entitled(h)
    BY <1>1, <1>2, <2>1
  <2>2. CASE x \notin Entitled(h)
    <3>1. x \in Threads \cup {o \in AllObjects : o.db = h}
      BY <1>2
    <3>2. HandleState(h) = "open" \/ (HandleState(h) = "closing" /\ Entitled(h) # {})
      BY <1>0, <1>2
    <3>3. HandleState(h)' = HandleState(h)
      BY <1>0, <1>2
    <3>. QED BY <1>2, <2>2, <3>1, <3>2, <3>3, PromiseIs
  <2>. QED BY <2>1, <2>2
<1>3. ASSUME NEW t \in Threads, NEW g \in Handles, NEW more \in SUBSET objs,
             Finish(t, g, more), word' = word
      PROVE  Kept
  BY <1>1, <1>3, FinishLeaves
<1>4. \A t \in Threads : pc[t] # Idle => pc[t].db \in Handles
  BY JobsAre DEF Types
<1>5. ASSUME NEW t \in Threads,
             \/ Read(t) \/ Put(t) \/ Checkpoint(t) \/ Created(t) \/ ShutdownEnds(t)
             \/ AssignFails(t) /\ pc[t].at = "retrieving"
      PROVE  Kept
  <2>1. Finish(t, pc[t].db, {}) /\ word' = word /\ {} \in SUBSET objs
    BY <1>5 DEF Read, Put, Checkpoint, Created, ShutdownEnds, AssignFails
  <2>2. pc[t] # Idle
    BY <1>5 DEF Read, Put, Checkpoint, Created, ShutdownEnds, Idle
  <2>. QED BY <1>3, <1>4, <2>1, <2>2
<1>6. ASSUME NEW t \in Threads, DropColumnFamily(t) PROVE Kept
  <2>1. pc[t].at = "dropping" /\ Finish(t, pc[t].obj.db, {pc[t].obj}) /\ word' = word
    BY <1>6 DEF DropColumnFamily
  <2>2. pc[t].obj \in objs
    BY <2>1 DEF Engaged, EngagedAt
  <2>3. pc[t].obj.db \in Handles /\ {pc[t].obj} \in SUBSET objs
    BY <2>2 DEF Types, AllObjects
  <2>. QED BY <1>3, <2>1, <2>3
<1>7. ASSUME NEW t \in Threads, NEW o \in objs, CloseObject(t, o) PROVE Kept
  <2>1. o.db \in Handles /\ Finish(t, o.db, {o}) /\ word' = word /\ {o} \in SUBSET objs
    BY <1>7 DEF CloseObject, Types, AllObjects
  <2>. QED BY <1>3, <2>1
<1>8. ASSUME NEW t \in Threads, NEW o \in objs, ShutdownCloses(t, o) PROVE Kept
  <2>1. /\ objs' \subseteq objs /\ UNCHANGED <<pc, word>>
        /\ \A x \in objs' : x \in late' <=> x \in late
        /\ \A x : x \in late' => x \in late
        /\ \A u \in Threads : u \in late => u \in late'
    BY <1>8, ObjectsAreThemselves DEF ShutdownCloses, CloseAll, Destroyed, Types
  <2>. QED BY <1>1, <2>1, EntitledStay DEF Borrows
<1>9. ASSUME NEW t \in Threads, UNCHANGED <<word, objs, late>>,
             \A u \in Threads : u # t => pc'[u] = pc[u],
             Borrows(t, h)' => Borrows(t, h)
      PROVE  Kept
  <2>1. \A u \in Threads : Borrows(u, h)' => Borrows(u, h)
    BY <1>9 DEF Borrows
  <2>. QED BY <1>1, <1>9, <2>1, EntitledStay
<1>10. ASSUME NEW t \in Threads, ShutdownGoesOn(t) PROVE Kept
  <2>1. /\ pc[t].at = "shutdown" /\ pc' = [pc EXCEPT ![t].list = "families"]
        /\ UNCHANGED <<word, objs, late>>
    BY <1>10 DEF ShutdownGoesOn, objects
  <2>2. pc[t] = [at |-> "shutdown", db |-> pc[t].db, list |-> pc[t].list]
    BY <2>1 DEF Types, Jobs, Idle, Places
  <2>3. pc'[t].at = pc[t].at /\ pc'[t].db = pc[t].db /\ \A u \in Threads : u # t => pc'[u] = pc[u]
    BY <2>1, <2>2 DEF Types
  <2>. QED BY <1>9, <2>1, <2>3 DEF Borrows
<1>11. ASSUME NEW t \in Threads,
              \/ \E g \in Handles : Borrow(t, g)
              \/ \E o \in objs : BorrowObject(t, o) \/ BeginDrop(t, o) \/ BorrowFamily(t, o)
              \/ AssignFails(t) /\ pc[t].at # "retrieving"
       PROVE  Kept
  <2>1. /\ UNCHANGED <<word, objs, late>>
        /\ \A u \in Threads : u # t => pc'[u] = pc[u]
    BY <1>11 DEF Borrow, BorrowObject, BeginDrop, BorrowFamily, AssignFails, At, objects, Types
  <2>2. ASSUME NEW g \in Handles, Borrow(t, g) PROVE pc'[t].at \notin Borrowing
    BY <2>2 DEF Borrow, At, Borrowing, Types
  <2>3. ASSUME NEW o \in objs, BorrowObject(t, o) \/ BeginDrop(t, o) PROVE pc'[t].at \notin Borrowing
    BY <2>3 DEF BorrowObject, BeginDrop, At, Borrowing, Types
  <2>4. ASSUME NEW o \in objs, BorrowFamily(t, o)
        PROVE  pc[t].at \in Borrowing /\ pc'[t].db = pc[t].db
    BY <2>4 DEF BorrowFamily, At, Borrowing, Types
  <2>5. ASSUME AssignFails(t), pc[t].at # "retrieving" PROVE pc'[t].at \notin Borrowing
    BY <2>5 DEF AssignFails, Borrowing, Types, Idle
  <2>6. Borrows(t, h)' => Borrows(t, h)
    BY <1>11, <2>2, <2>3, <2>4, <2>5 DEF Borrows
  <2>. QED BY <1>9, <2>1, <2>6
<1>12. ASSUME NEW t \in Threads, Assign(t) PROVE Kept
  <2>. DEFINE o == pc[t].obj
  <2>1. /\ pc[t].at \in {"retrieved", "retrieving", "toDrop"} /\ pc[t].db \in Handles
        /\ o = None => word[pc[t].db] # "deleted"
        /\ o # None => o \in objs /\ o.db = pc[t].db
        /\ word[pc[t].db] # "none"
        /\ late' = late \cup {u \in {t} : IF o = None THEN ~Admits(pc[t].db) ELSE o \in late}
        /\ UNCHANGED <<word, objs>>
    <3>1. /\ pc[t].at \in {"retrieved", "retrieving", "toDrop"}
          /\ IF o = None THEN word[pc[t].db] # "deleted" ELSE o \in objs
          /\ late' = late \cup {u \in {t} : IF o = None THEN ~Admits(pc[t].db) ELSE o \in late}
          /\ UNCHANGED <<word, objs>>
      BY <1>12 DEF Assign, objects
    <3>2. EngagedAt(t) /\ pc[t] # Idle /\ pc[t].at \in Places
      BY <3>1 DEF Engaged, Idle, Places
    <3>. QED BY <1>4, <3>1, <3>2 DEF EngagedAt
  <2>2. /\ pc'[t].at \in Borrowing /\ pc'[t].db = pc[t].db
        /\ \A u \in Threads : u # t => pc'[u] = pc[u]
    BY <1>12 DEF Assign, At, Types, Borrowing
  <2>. HIDE DEF o
  <2>3. t \notin objs /\ \A x : x # t => (x \in late' <=> x \in late)
    BY <2>1, ObjectsAreThemselves DEF Types
  <2>4. t \in late => t \in late'
    BY <2>1
  <2>5. CASE pc[t].db # h \/ t \in late'
    <3>1. \A u \in Threads : Borrows(u, h)' /\ u \notin late' => Borrows(u, h) /\ u \notin late
      BY <2>2, <2>3, <2>5 DEF Borrows
    <3>. QED BY <1>1, <2>1, <2>3, <3>1, EntitledStay
  <2>6. CASE pc[t].db = h /\ t \notin late'
    <3>1. Entitled(h)' = Entitled(h) \cup {t}
      <4>1. \A u \in Threads : Borrows(u, h)' <=> Borrows(u, h) \/ u = t
        BY <2>2, <2>6 DEF Borrows
      <4>. QED BY <2>1, <2>3, <2>4, <2>6, <4>1 DEF Entitled, Holders, ObjectsOf
    <3>2. word[h] = "open" \/ (word[h] = "closing" /\ Entitled(h) # {})
      <4>1. CASE o = None
        <5>1. Admits(h) /\ word[h] \notin {"none", "deleted"}
          BY <2>1, <2>6, <4>1
        <5>. QED BY <5>1 DEF Admits, Entitled, Types
      <4>2. CASE o # None
        <5>1. o \in objs /\ o.db = h /\ o \notin late
          BY <2>1, <2>6, <4>2
        <5>2. Opened(h) /\ o \in Entitled(h)
          BY <5>1, EntitledAre DEF InTime
        <5>. QED BY <5>2 DEF Opened
      <4>. QED BY <4>1, <4>2
    <3>. QED BY <1>2, <2>1, <3>1, <3>2
  <2>. QED BY <2>5, <2>6
<1>13. ASSUME NEW t \in Threads, NEW o \in AllObjects, o.db = pc[t].db, Construct(t, o) PROVE Kept
  <2>1. /\ pc[t].at = "using" /\ o \notin objs /\ objs' = objs \cup {o}
        /\ late' = late \cup IF t \in late THEN {o} ELSE {}
        /\ pc'[t].at = "creating" /\ pc'[t].db = pc[t].db
        /\ \A u \in Threads : u # t => pc'[u] = pc[u]
        /\ word' = word
    BY <1>13 DEF Construct, At, Types
  <2>2. /\ o \notin late /\ \A u \in Threads : u # o
    BY <2>1, ObjectsAreThemselves DEF Types
  <2>3. \A g \in Handles, u \in Threads : Borrows(u, g)' <=> Borrows(u, g)
    BY <2>1 DEF Borrows, Borrowing
  <2>4. /\ \A u \in Threads : u \in late' <=> u \in late
        /\ \A q \in objs : q \in late' <=> q \in late
        /\ o \in late' <=> t \in late
    BY <2>1, <2>2
  <2>5. CASE o.db # h \/ t \in late
    <3>1. Entitled(h)' = Entitled(h)
      BY <2>1, <2>2, <2>3, <2>4, <2>5 DEF Entitled, Holders, ObjectsOf
    <3>. QED BY <1>0, <2>1, <3>1
  <2>6. CASE o.db = h /\ t \notin late
    <3>1. Entitled(h)' = Entitled(h) \cup {o}
      BY <2>1, <2>2, <2>3, <2>4, <2>6 DEF Entitled, Holders, ObjectsOf
    <3>2. t \in Entitled(h) /\ Opened(h)
      BY <1>13, <2>1, <2>6, EntitledAre DEF Borrows, Borrowing, InTime
    <3>. QED BY <1>2, <2>1, <2>6, <3>1, <3>2 DEF Opened
  <2>. QED BY <2>5, <2>6
<1>14. ASSUME NEW t \in Threads, Use(t) PROVE Kept
  <2>1. CASE Iterator(t)
    <3>1. Construct(t, Obj(pc[t].db, "itr")) /\ pc[t].db \in Handles
      BY <1>4, <2>1 DEF Iterator, Construct, Idle
    <3>2. Obj(pc[t].db, "itr") \in AllObjects /\ Obj(pc[t].db, "itr").db = pc[t].db
      BY <3>1 DEF Obj, AllObjects
    <3>. QED BY <1>13, <3>1, <3>2
  <2>2. ASSUME NEW name \in Families, CreateColumnFamily(t, name) PROVE Kept
    <3>1. Construct(t, Obj(pc[t].db, name)) /\ pc[t].db \in Handles
      BY <1>4, <2>2 DEF CreateColumnFamily, Construct, Idle
    <3>2. Obj(pc[t].db, name) \in AllObjects /\ Obj(pc[t].db, name).db = pc[t].db
      BY <3>1 DEF Obj, AllObjects
    <3>. QED BY <1>13, <3>1, <3>2
  <2>. QED BY <1>5, <1>6, <1>14, <2>1, <2>2 DEF Use
<1>15. ASSUME NEW t \in Threads, NEW g \in Handles, Close(t, g) PROVE Kept
  <2>1. /\ pc[t] = Idle /\ pc'[t] = [at |-> "shutdown", db |-> g, list |-> "iterators"]
        /\ \A u \in Threads : u # t => pc'[u] = pc[u]
        /\ word[g] = "open" /\ word'[g] = "closing" /\ \A f \in Handles : f # g => word'[f] = word[f]
        /\ UNCHANGED <<objs, late>>
    BY <1>15 DEF Close, Types
  <2>2. t \notin late /\ t \notin objs
    BY <2>1, ObjectsAreThemselves DEF InTime, Idle, Borrowing, Types
  <2>3. \A f \in Handles, u \in Threads : Borrows(u, f)' <=> Borrows(u, f) \/ (u = t /\ f = g)
    BY <2>1 DEF Borrows, Idle, Borrowing
  <2>4. ~Borrows(t, g)
    BY <2>1 DEF Borrows, Idle, Borrowing
  <2>5. CASE g # h
    <3>1. Entitled(h)' = Entitled(h)
      BY <2>1, <2>3, <2>5 DEF Entitled, Holders, ObjectsOf
    <3>. QED BY <1>0, <2>1, <2>5, <3>1
  <2>6. CASE g = h
    <3>1. HandleState(h) = "open" /\ HandleState(h)' = "closing"
      BY <1>0, <2>1, <2>6 DEF HandleState
    <3>2. t \notin Entitled(h) /\ Entitled(h)' = Entitled(h) \cup {t}
      BY <2>1, <2>2, <2>3, <2>4, <2>6 DEF Entitled, Holders, ObjectsOf
    <3>3. t \in Threads \cup {o \in AllObjects : o.db = h}
      OBVIOUS
    <3>. QED BY <3>1, <3>2, <3>3, PromiseIs
  <2>. QED BY <2>5, <2>6
<1>16. ASSUME NEW t \in Threads, DeleteDb(t) PROVE Kept
  <2>0. PICK g \in Handles : g = pc[t].db
    BY <1>4, <1>16 DEF DeleteDb, Idle
  <2>1. /\ Deletes(t, g) /\ pc[t].at = "deleting"
        /\ word' = [word EXCEPT ![g] = "deleted"] /\ pc' = [pc EXCEPT ![t] = Idle]
        /\ UNCHANGED <<objs, late>>
    BY <1>16, <2>0, JobsAre DEF DeleteDb, Types, Deletes, objects
  <2>2. word[g] = "closing" /\ Entitled(g) = {}
    BY <2>1 DEF InTime, Entitled
  <2>3. \A u \in Threads, f \in Handles : Borrows(u, f)' <=> Borrows(u, f)
    BY <2>1 DEF Borrows, Types, Idle, Borrowing
  <2>4. Entitled(h)' = Entitled(h)
    BY <2>1, <2>3 DEF Entitled, Holders, ObjectsOf
  <2>5. CASE g # h
    <3>1. word'[h] = word[h]
      BY <2>1, <2>5 DEF Types
    <3>. QED BY <1>0, <2>4, <3>1
  <2>6. CASE g = h
    <3>1. HandleState(h) = "closing" /\ HandleState(h)' = "closed"
      BY <1>0, <2>1, <2>2, <2>6 DEF HandleState, Types
    <3>. QED BY <2>2, <2>4, <2>6, <3>1, PromiseIs
  <2>. QED BY <2>5, <2>6
<1>17. ASSUME NEW t \in Threads, NEW p \in Paths, Destroy(t, p) PROVE Kept
  <2>1. UNCHANGED <<word, objs, late, pc>>
    BY <1>17 DEF Destroy, objects
  <2>. QED BY <1>9, <2>1 DEF Borrows
<1>18. ASSUME NEW t \in Threads, NEW call \in Opens, Open(t, call) PROVE Kept
  <2>0. PICK g \in Handles : g = FirstUnused /\ word[g] = "none"
    BY <1>18, FirstUnusedIsUnused DEF Open
  <2>1. PICK made : made = {Obj(g, name) : name \in Range(call.families)}
    OBVIOUS
  <2>2. word' = [word EXCEPT ![g] = "open"] /\ objs' = objs \cup made /\ UNCHANGED <<pc, late>>
    BY <1>18, <2>0, <2>1 DEF Open
  <2>3. \A o \in made : o.db = g
    BY <2>1 DEF Obj
  <2>4. g # h /\ word'[h] = word[h]
    BY <2>0, <2>2 DEF Types
  <2>5. Entitled(h)' = Entitled(h)
    BY <2>2, <2>3, <2>4 DEF Entitled, Holders, ObjectsOf, Borrows
  <2>. QED BY <1>0, <2>4, <2>5
<1>19. ASSUME UNCHANGED vars PROVE Kept
  <2>1. HandleState(h)' = HandleState(h) /\ Entitled(h)' = Entitled(h)
    BY <1>19 DEF vars, HandleState, Entitled, Holders, ObjectsOf, Borrows
  <2>. QED BY <2>1
<1>20. ASSUME NEW t \in Threads, InCall(t) PROVE Kept
  <2>1. CASE AssignFails(t)
    BY <1>5, <1>11, <2>1
  <2>. QED BY <1>5, <1>8, <1>10, <1>12, <1>14, <1>16, <1>20, <2>1 DEF InCall
<1>21. Kept
  BY <1>7, <1>11, <1>15, <1>17, <1>18, <1>19, <1>20 DEF Next
<1>. QED BY <1>21 DEF Entitled

\* Every handle keeps the promise of Handle to threads and objects alike that
\* came in time, until the emulator dies.
THEOREM PromiseKept == Spec => EveryHandleKeepsItsPromise
<1>1. IInv /\ [Next]_vars =>
        [\A h \in Handles :
            word[h] # "none" /\ ~Crash => [Promise(h)!Next]_<<HandleState(h), Holders(h) \ late>>]_vars
  BY StepKeepsPromise
<1>. QED BY <1>1, IInvInductive, PTL DEF Spec, EveryHandleKeepsItsPromise

-----------------------------------------------------------------------------
(* Options *)

\* A flag is what the last item that names it says, and false without one.
Follows(flags, options, n) ==
    /\ flags \in [Flags -> BOOLEAN]
    /\ \A f \in Flags :
         \/ ~flags[f] /\ \A i \in 1..n : options[i].key # f
         \/ \E i \in 1..n : /\ options[i].key = f
                            /\ \A j \in 1..n : j > i => options[j].key # f
                            /\ flags[f] <=> options[i].value = "true"

\* One more item overrides the flag that it names, and no other.
LEMMA FollowsOneMore ==
  ASSUME NEW flags, NEW options, NEW n \in Nat, Follows(flags, options, n)
  PROVE  Follows(ParseDbOption(flags, options[n + 1]), options, n + 1)
<1>. DEFINE item == options[n + 1]
            new == ParseDbOption(flags, item)
<1>1. flags \in [Flags -> BOOLEAN]
  BY DEF Follows
<1>2. /\ new \in [Flags -> BOOLEAN]
      /\ \A f \in Flags : item.key # f => new[f] = flags[f]
      /\ \A f \in Flags : item.key = f => (new[f] <=> item.value = "true")
  <2>1. CASE item.key \in Flags
    <3>1. new = [flags EXCEPT ![item.key] = (item.value = "true")]
      BY <2>1 DEF ParseDbOption
    <3>2. (item.value = "true") \in BOOLEAN
      OBVIOUS
    <3>. HIDE DEF new
    <3>. QED BY <1>1, <2>1, <3>1, <3>2
  <2>2. CASE item.key \notin Flags
    BY <1>1, <2>2 DEF ParseDbOption
  <2>. QED BY <2>1, <2>2
<1>. HIDE DEF new
<1>3. \A i \in 1..(n + 1) : i \in 1..n \/ i = n + 1
  OBVIOUS
<1>4. n + 1 \in 1..(n + 1) /\ \A i \in 1..n : i \in 1..(n + 1) /\ i < n + 1
  OBVIOUS
<1>5. ASSUME NEW f \in Flags
      PROVE  \/ ~new[f] /\ \A i \in 1..(n + 1) : options[i].key # f
             \/ \E i \in 1..(n + 1) : /\ options[i].key = f
                                      /\ \A j \in 1..(n + 1) : j > i => options[j].key # f
                                      /\ new[f] <=> options[i].value = "true"
  <2>1. CASE item.key = f
    <3>1. \A j \in 1..(n + 1) : ~(j > n + 1)
      OBVIOUS
    <3>. QED BY <1>2, <1>4, <2>1, <3>1
  <2>2. CASE item.key # f
    <3>1. new[f] = flags[f]
      BY <1>2, <2>2
    <3>2. CASE ~flags[f] /\ \A i \in 1..n : options[i].key # f
      BY <1>3, <2>2, <3>1, <3>2
    <3>3. ASSUME NEW i \in 1..n, options[i].key = f,
                 \A j \in 1..n : j > i => options[j].key # f,
                 flags[f] <=> options[i].value = "true"
          PROVE  /\ i \in 1..(n + 1) /\ options[i].key = f
                 /\ \A j \in 1..(n + 1) : j > i => options[j].key # f
                 /\ new[f] <=> options[i].value = "true"
      BY <1>3, <1>4, <2>2, <3>1, <3>3
    <3>. QED BY <3>2, <3>3 DEF Follows
  <2>. QED BY <2>1, <2>2
<1>6. Follows(new, options, n + 1)
  BY <1>2, <1>5, Zenon DEF Follows
<1>. QED BY <1>6 DEF new

\* What parse_db_option leaves of a list is the last setting of each flag.
LEMMA ParseIs ==
  ASSUME NEW options, options \in Seq(Range(options))
  PROVE  Follows(Parse(options), options, Len(options))
<1>. DEFINE L == Len(options)
            none == [f \in Flags |-> FALSE]
            Value(g, n) == IF n = 0 THEN none ELSE ParseDbOption(g[n - 1], options[n])
            upTo == CHOOSE g : g = [n \in 0..L |-> Value(g, n)]
            step == [n \in 1..L |-> [q \in [Flags -> BOOLEAN] |-> ParseDbOption(q, options[n])]]
<1>1. L \in Nat /\ none \in [Flags -> BOOLEAN]
  OBVIOUS
<1>2. step \in [1..L -> [[Flags -> BOOLEAN] -> [Flags -> BOOLEAN]]]
  <2>1. ASSUME NEW q \in [Flags -> BOOLEAN], NEW n \in 1..L
        PROVE  ParseDbOption(q, options[n]) \in [Flags -> BOOLEAN]
    <3>1. (options[n].value = "true") \in BOOLEAN
      OBVIOUS
    <3>. QED BY <3>1 DEF ParseDbOption
  <2>. QED BY <2>1
<1>3. PICK g \in [0..L -> [Flags -> BOOLEAN]] : g[0] = none /\ \A n \in 1..L : g[n] = step[n][g[n - 1]]
  <2>. DEFINE S == [Flags -> BOOLEAN]
  <2>. HIDE DEF step, L, S, none
  <2>1. L \in Nat /\ none \in S /\ step \in [1..L -> [S -> S]]
    BY <1>1, <1>2 DEF S
  <2>2. \E g \in [0..L -> S] : g[0] = none /\ \A n \in 1..L : g[n] = step[n][g[n - 1]]
    BY <2>1, Recursion
  <2>. QED BY <2>2 DEF S
<1>4. g = [n \in 0..L |-> Value(g, n)]
  <2>1. \A n \in 0..L : n # 0 => g[n - 1] \in [Flags -> BOOLEAN] /\ n \in 1..L
    BY <1>1
  <2>2. \A n \in 0..L : g[n] = Value(g, n)
    <3>. HIDE DEF none
    <3>. QED BY <1>3, <2>1
  <2>. HIDE DEF Value, L
  <2>. QED BY <1>3, <2>2
<1>5. upTo = [n \in 0..L |-> Value(upTo, n)]
  <2>. HIDE DEF Value, L
  <2>. QED BY <1>4
<1>6. Parse(options) = upTo[L]
  BY DEF Parse
<1>. DEFINE T == {n \in Nat : n <= L => Follows(upTo[n], options, n)}
<1>7. 0 \in T
  <2>1. upTo[0] = none
    <3>. HIDE DEF upTo, none
    <3>. QED BY <1>1, <1>5
  <2>2. Follows(none, options, 0)
    BY <1>1 DEF Follows
  <2>. HIDE DEF upTo, none
  <2>. QED BY <2>1, <2>2
<1>8. ASSUME NEW n \in Nat, n \in T PROVE n + 1 \in T
  <2>. SUFFICES ASSUME n + 1 <= L PROVE Follows(upTo[n + 1], options, n + 1)
    OBVIOUS
  <2>1. Follows(upTo[n], options, n)
    <3>. HIDE DEF upTo
    <3>. QED BY <1>8, <1>1
  <2>2. upTo[n + 1] = ParseDbOption(upTo[n], options[n + 1])
    <3>. HIDE DEF upTo, none
    <3>1. n + 1 \in 0..L /\ n + 1 # 0 /\ (n + 1) - 1 = n
      BY <1>1
    <3>. QED BY <1>5, <3>1
  <2>. HIDE DEF upTo
  <2>. QED BY <2>1, <2>2, FollowsOneMore
<1>9. L \in T
  <2>. HIDE DEF T
  <2>. QED BY <1>1, <1>7, <1>8, Induction
<1>. QED BY <1>1, <1>6, <1>9

\* The flags with which a database is opened are the last settings.
LEMMA FlagsAreLastSettings ==
  ASSUME NEW call \in Opens, NEW f \in Flags
  PROVE  Parse(call.options)[f] <=> LastSetting(call.options, f)
<1>. DEFINE options == call.options
            n == Len(options)
            given == {i \in DOMAIN options : options[i].key = f}
<1>1. options \in Seq(Range(options)) /\ n \in Nat /\ DOMAIN options = 1..n
  BY OptionsAreLists
<1>2. Follows(Parse(options), options, n)
  BY <1>1, ParseIs
<1>. HIDE DEF options, n
<1>3. CASE ~Parse(options)[f] /\ \A i \in 1..n : options[i].key # f
  BY <1>1, <1>3 DEF LastSetting, options
<1>4. ASSUME NEW i \in 1..n, options[i].key = f,
             \A j \in 1..n : j > i => options[j].key # f,
             Parse(options)[f] <=> options[i].value = "true"
      PROVE  Parse(options)[f] <=> LastSetting(options, f)
  <2>1. i \in given /\ given \subseteq Nat
    BY <1>1, <1>4
  <2>2. \A j \in given : i >= j
    <3>. TAKE j \in given
    <3>1. j \in 1..n /\ options[j].key = f
      BY <1>1
    <3>. QED BY <1>4, <3>1
  <2>3. Max(given) = i
    <3>. HIDE DEF given
    <3>1. \A j \in given : (\A k \in given : j >= k) => j = i
      BY <2>1, <2>2
    <3>. QED BY <2>1, <2>2, <3>1 DEF Max
  <2>4. LastSetting(options, f) <=> options[i].value = "true"
    BY <2>1, <2>3 DEF LastSetting
  <2>. QED BY <1>4, <2>4
<1>. QED BY <1>2, <1>3, <1>4 DEF Follows, options

\* A database is opened, made and given families only as the last setting of
\* each flag in the caller's list allows.
THEOREM OpensObey == Spec => OpensObeyTheirOptions
<1>1. ASSUME Types, NEW t \in Threads, NEW call \in Opens, Open(t, call)
      PROVE  Obeyed(call)
  <2>. DEFINE dir == files[call.path]
  <2>1. RocksOpens(call, Parse(call.options))
    BY <1>1 DEF Open
  <2>2. /\ dir.exists => ~Parse(call.options)["error_if_exists"]
        /\ ~dir.exists => Parse(call.options)["create_if_missing"]
        /\ Named(call) \ (dir.families \cup {"default"}) # {} =>
              Parse(call.options)["create_missing_column_families"]
        /\ "default" \in Named(call)
    BY <2>1 DEF RocksOpens
  <2>3. files'[call.path].families = dir.families \cup Named(call)
    BY <1>1, OpensAreCalls DEF Open, Types
  <2>4. ASSUME files'[call.path].families # dir.families \cup {"default"}
        PROVE  Named(call) \ (dir.families \cup {"default"}) # {}
    BY <2>2, <2>3, <2>4
  <2>5. \A f \in Flags : Parse(call.options)[f] <=> LastSetting(call.options, f)
    BY FlagsAreLastSettings
  <2>. HIDE DEF dir
  <2>. QED BY <2>2, <2>4, <2>5 DEF Flags, Obeyed, dir
<1>2. IInv /\ [Next]_vars =>
        [\A t \in Threads, call \in Opens : Open(t, call) => Obeyed(call)]_vars
  BY <1>1 DEF IInv
<1>. QED BY <1>2, IInvInductive, PTL DEF Spec, OpensObeyTheirOptions
=============================================================================
