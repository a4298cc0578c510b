-------------------------------- MODULE Reads --------------------------------
(***************************************************************************)
(* Reading while others write and close: get/3 (c_src/erocksdb_kv.cc),     *)
(* is_empty/1, snapshots (c_src/erocksdb_snapshots.cc), iterators          *)
(* (c_src/erocksdb_iter.cc) and the fold of src/erocksdb.erl that is built *)
(* on them.                                                                *)
(*                                                                         *)
(* A fold is a loop in an Erlang process that calls one NIF per element,   *)
(* so writes, a close of the database or the death of the process come     *)
(* between any two elements.  iterator_move takes two steps: it tests the  *)
(* close words, and later it moves and reads, with a close in between or   *)
(* not.  So does close: it sets the word of the database and, later, that  *)
(* of each iterator, because iterator_move and iterator_close look at      *)
(* different words.  The other NIFs are one step: whatever one that passed *)
(* the test before a close does after it, it could as well have done       *)
(* before, for every call that could tell passed the test before as well.  *)
(* That the iterator or the database is destroyed between a test and the   *)
(* use is left to DbLifecycle, and so is a put that is late in that way.   *)
(* Iterators see one moment: the read option tailing is left out.          *)
(*                                                                         *)
(* A value tells the write that stored it (1: before the start), 0 is no    *)
(* value.                                                                  *)
(***************************************************************************)
EXTENDS Integers, Sequences, FiniteSets, SequencesExt, FiniteSetsExt

CONSTANTS Folders,      \* processes that read with one iterator each
          Snaps, NoSnap,
          NumKeys,
          MaxWrites,    \* bound on puts and deletes
          MaxErrors,    \* bound on read errors of RocksDB
          MaxGets,      \* 1 to record a get or is_empty, 0 for none
          MaxBrowsers   \* bound on processes that move an iterator themselves

Keys == 1..NumKeys
Values == 1..(MaxWrites + 1)
Views == [Keys -> {0} \cup Values]

ASSUME BoundsAreNaturals == {NumKeys, MaxWrites, MaxErrors, MaxGets, MaxBrowsers} \subseteq Nat
ASSUME NoSnapIsNone == NoSnap \notin Snaps

VARIABLES stored, writes,      \* the contents, and how many writes made it
          errors,              \* read errors so far
          dbClosed,            \* the database's close word is set
          snap, snapView,      \* "none", "taken" or "released"; its contents
          itr,                 \* "none", "open" or "closed", per folder
          view, with,          \* what the iterator sees; snapshot asked for
          pos,                 \* its key, 0 when it is not valid
          pc, acc, outcome,    \* the fold: position, elements seen, end
          underWay,            \* history: calls past their test at the close
          walk,                \* history: where next and prev led since a jump
          failed,              \* history: the iterator hit a read error
          got                  \* history: the one recorded get or is_empty

db    == <<stored, writes>>
snaps == <<snap, snapView>>
cur   == <<view, with, pos, walk>>
vars  == <<stored, writes, errors, dbClosed, snap, snapView, itr, view, with, pos,
           pc, acc, outcome, underWay, walk, failed, got>>

-----------------------------------------------------------------------------

Present(v) == {k \in Keys : v[k] # 0}
Empty == [k \in Keys |-> 0]

\* The elements of a view in key order, up to each key.
ElementsUpTo(v) ==
    LET upTo[k \in 0..NumKeys] ==
            IF k = 0 THEN <<>>
            ELSE IF v[k] # 0 THEN Append(upTo[k - 1], <<k, v[k]>>) ELSE upTo[k - 1]
    IN  upTo
Elements(v) == ElementsUpTo(v)[NumKeys]

\* The first key after p, the last before it, or 0.
KeyAfter(v, p)  == LET later == {k \in Present(v) : k > p}
                   IN  IF later = {} THEN 0 ELSE Min(later)
KeyBefore(v, p) == Max({k \in Present(v) : k < p} \cup {0})

NoGet == [op |-> "none", key |-> 0, with |-> NoSnap, answer |-> 0, there |-> 0]

Init == /\ stored \in {[k \in Keys |-> IF k \in p THEN 1 ELSE 0] : p \in SUBSET Keys}
        /\ writes = 0 /\ errors = 0
        /\ dbClosed = FALSE
        /\ snap = [s \in Snaps |-> "none"]
        /\ snapView = [s \in Snaps |-> Empty]
        /\ itr = [f \in Folders |-> "none"]
        /\ view = [f \in Folders |-> Empty]
        /\ with = [f \in Folders |-> NoSnap]
        /\ pos = [f \in Folders |-> 0]
        /\ pc = [f \in Folders |-> "idle"]
        /\ acc = [f \in Folders |-> <<>>]
        /\ outcome = [f \in Folders |-> "none"]
        /\ underWay = {}
        /\ walk = [f \in Folders |-> {}]
        /\ failed = [f \in Folders |-> FALSE]
        /\ got = NoGet

-----------------------------------------------------------------------------
(* Writers, snapshots, and the close of the database *)

Put(k) == /\ ~dbClosed /\ writes < MaxWrites
          /\ writes' = writes + 1
          /\ stored' = [stored EXCEPT ![k] = writes' + 1]
          /\ UNCHANGED <<errors, dbClosed, snaps, itr, cur, pc, acc, outcome, underWay, failed, got>>

Delete(k) == /\ ~dbClosed /\ writes < MaxWrites
             /\ writes' = writes + 1
             /\ stored' = [stored EXCEPT ![k] = 0]
             /\ UNCHANGED <<errors, dbClosed, snaps, itr, cur, pc, acc, outcome, underWay, failed, got>>

GetSnapshot(s) == /\ ~dbClosed /\ snap[s] = "none"
                  /\ snap' = [snap EXCEPT ![s] = "taken"]
                  /\ snapView' = [snapView EXCEPT ![s] = stored]
                  /\ UNCHANGED <<db, errors, dbClosed, itr, cur, pc, acc, outcome, underWay, failed, got>>

\* A snapshot released before is answered ok as well.
ReleaseSnapshot(s) == /\ snap[s] # "none"
                      /\ snap' = [snap EXCEPT ![s] = "released"]
                      /\ UNCHANGED <<db, errors, dbClosed, snapView, itr, cur, pc, acc,
                                     outcome, underWay, failed, got>>

Close == /\ ~dbClosed
         /\ dbClosed' = TRUE
         /\ underWay' = {f \in Folders : pc[f] \in {"reading", "moving"}}
         /\ UNCHANGED <<db, errors, snaps, itr, cur, pc, acc, outcome, failed, got>>

\* Shutdown reaches the iterator.
CloseIterator(f) == /\ dbClosed /\ itr[f] = "open"
                    /\ itr' = [itr EXCEPT ![f] = "closed"]
                    /\ UNCHANGED <<db, errors, dbClosed, snaps, cur, pc, acc, outcome, underWay, failed, got>>

-----------------------------------------------------------------------------
(* Point reads.  Only one is recorded. *)

\* Get folds parse_read_option over its options and drops the badarg of a
\* released snapshot; every status that is not ok is not_found.
Get(k, s) ==
    LET there == IF s # NoSnap /\ snap[s] = "taken" THEN snapView[s][k] ELSE stored[k]
    IN  /\ ~dbClosed /\ got = NoGet /\ MaxGets = 1
        /\ s # NoSnap => snap[s] # "none"
        /\ \/ /\ got' = [op |-> "get", key |-> k, with |-> s, answer |-> there, there |-> there]
              /\ UNCHANGED errors
           \/ /\ errors < MaxErrors
              /\ errors' = errors + 1
              /\ got' = [op |-> "get", key |-> k, with |-> s, answer |-> 0, there |-> there]
        /\ UNCHANGED <<db, dbClosed, snaps, itr, cur, pc, acc, outcome, underWay, failed>>

\* is_empty/1: an iterator of its own, first, Valid.
IsEmpty ==
    LET first == KeyAfter(stored, 0)
    IN  /\ ~dbClosed /\ got = NoGet /\ MaxGets = 1
        /\ \/ /\ got' = [op |-> "isEmpty", key |-> 0, with |-> NoSnap,
                         answer |-> first, there |-> first]
              /\ UNCHANGED errors
           \/ /\ errors < MaxErrors
              /\ errors' = errors + 1
              /\ got' = [op |-> "isEmpty", key |-> 0, with |-> NoSnap,
                         answer |-> 0, there |-> first]
        /\ UNCHANGED <<db, dbClosed, snaps, itr, cur, pc, acc, outcome, underWay, failed>>

-----------------------------------------------------------------------------
(* fold/4: the process and the NIFs it calls *)

\* Deviation: the iterator ignores a snapshot, as Get does with a released one.
IteratorIgnoresSnapshot(f, s) ==
    /\ ~dbClosed
    /\ s # NoSnap => snap[s] = "taken"
    /\ view' = [view EXCEPT ![f] = stored]
    /\ itr' = [itr EXCEPT ![f] = "open"]

\* The iterator NIF: it checks the database and the snapshot, and sees the
\* contents of that moment or of the snapshot from then on.
Iterator(f, s) ==
    /\ ~dbClosed
    /\ s # NoSnap => snap[s] = "taken"
    /\ view' = [view EXCEPT ![f] = IF s = NoSnap THEN stored ELSE snapView[s]]
    /\ itr' = [itr EXCEPT ![f] = "open"]

\* badarg, before there is an iterator to close.
IteratorRefused(f, s) ==
    /\ dbClosed \/ (s # NoSnap /\ snap[s] = "released")
    /\ pc' = [pc EXCEPT ![f] = "over"]
    /\ outcome' = [outcome EXCEPT ![f] = "badarg"]
    /\ UNCHANGED <<view, itr>>

\* fold/4 and fold_keys/4
Fold(f, s) ==
    /\ pc[f] = "idle"
    /\ s # NoSnap => snap[s] # "none"
    /\ \/ Iterator(f, s) /\ pc' = [pc EXCEPT ![f] = "first"] /\ UNCHANGED outcome
       \/ IteratorRefused(f, s)
    /\ with' = [with EXCEPT ![f] = s]
    /\ UNCHANGED <<db, errors, dbClosed, snaps, pos, walk, acc, underWay, failed, got>>

\* fold/5 and fold_keys/5, on a column family
FoldColumnFamily(f) ==
    /\ pc[f] = "idle"
    /\ pc' = [pc EXCEPT ![f] = "over"]
    /\ outcome' = [outcome EXCEPT ![f] = "returnedAcc0"]
    /\ UNCHANGED <<db, errors, dbClosed, snaps, itr, cur, acc, underWay, failed, got>>

\* Deviation: iterator_move looks at the iterator's own close word only.
RetrieveItrObjectOnly(f) == itr[f] = "open"

\* RetrieveItrObject(..., false)
RetrieveItrObject(f) == itr[f] = "open" /\ ~dbClosed

\* Deviation: fold_loop takes an error of iterator_move for the end.
MoveRefusedAsEnd(f) ==
    /\ ~RetrieveItrObject(f)
    /\ pc' = [pc EXCEPT ![f] = "after"]
    /\ outcome' = [outcome EXCEPT ![f] = "returned"]

\* badarg, which goes through the after clause of do_fold.
MoveRefused(f) ==
    /\ ~RetrieveItrObject(f)
    /\ pc' = [pc EXCEPT ![f] = "after"]
    /\ outcome' = [outcome EXCEPT ![f] = "badarg"]

\* do_fold and fold_loop call iterator_move, with first, then with next: its
\* test of the close words.
FoldLoop(f) ==
    /\ pc[f] \in {"first", "next"}
    /\ \/ RetrieveItrObject(f) /\ pc' = [pc EXCEPT ![f] = "reading"] /\ UNCHANGED outcome
       \/ MoveRefused(f)
    /\ UNCHANGED <<db, errors, dbClosed, snaps, itr, cur, acc, underWay, failed, got>>

\* Deviation: the iterator is asked for its key without a test of Valid.
MoveWithoutValid(f, k) ==
    /\ pos' = [pos EXCEPT ![f] = k]
    /\ pc' = [pc EXCEPT ![f] = "fun"]
    /\ UNCHANGED outcome

\* The rest of IteratorMove: the key it lands on, or 0 when it is not valid.
Move(f, k) ==
    /\ pos' = [pos EXCEPT ![f] = k]
    /\ \/ /\ k # 0
          /\ pc' = [pc EXCEPT ![f] = "fun"]
          /\ UNCHANGED outcome
       \/ /\ k = 0                        \* {error, invalid_iterator}
          /\ pc' = [pc EXCEPT ![f] = "after"]
          /\ outcome' = [outcome EXCEPT ![f] = "returned"]

\* SeekToFirst, or Next on an iterator that is valid, and the answer.
FoldMove(f) ==
    /\ pc[f] = "reading"
    /\ Move(f, KeyAfter(view[f], pos[f]))
    /\ underWay' = underWay \ {f}
    /\ UNCHANGED <<db, errors, dbClosed, snaps, itr, view, with, walk, acc, failed, got>>

\* RocksDB fails to read on: the iterator is not valid any more, and Valid is
\* tested before the status is.
FoldMoveError(f) ==
    /\ pc[f] = "reading"
    /\ errors < MaxErrors
    /\ errors' = errors + 1
    /\ Move(f, 0)
    /\ underWay' = underWay \ {f}
    /\ failed' = [failed EXCEPT ![f] = TRUE]
    /\ UNCHANGED <<db, dbClosed, snaps, itr, view, with, walk, acc, got>>

\* The caller's fun: an ok answer is one more element, or an exception.
Fun(f) ==
    /\ pc[f] = "fun"
    /\ \/ /\ acc' = [acc EXCEPT ![f] = Append(@, <<pos[f], view[f][pos[f]]>>)]
          /\ pc' = [pc EXCEPT ![f] = "next"]
          /\ UNCHANGED outcome
       \/ /\ pc' = [pc EXCEPT ![f] = "after"]
          /\ outcome' = [outcome EXCEPT ![f] = "funRaised"]
          /\ UNCHANGED acc
    /\ UNCHANGED <<db, errors, dbClosed, snaps, itr, cur, underWay, failed, got>>

\* Deviation: no after clause.
AfterForgotten(f) ==
    /\ pc[f] = "after"
    /\ pc' = [pc EXCEPT ![f] = "over"]
    /\ UNCHANGED <<db, errors, dbClosed, snaps, itr, cur, acc, outcome, underWay, failed, got>>

\* The after clause: iterator_close is a badarg on an iterator that Shutdown
\* has closed, and the exception replaces the result of the fold.
After(f) ==
    /\ pc[f] = "after"
    /\ pc' = [pc EXCEPT ![f] = "over"]
    /\ \/ /\ itr[f] = "open"
          /\ itr' = [itr EXCEPT ![f] = "closed"]
          /\ UNCHANGED outcome
       \/ /\ itr[f] # "open"
          /\ outcome' = [outcome EXCEPT ![f] = "badarg"]
          /\ UNCHANGED itr
    /\ UNCHANGED <<db, errors, dbClosed, snaps, cur, acc, underWay, failed, got>>

\* The process is killed between two calls, or once the call it is in has
\* returned: no after clause runs.
Kill(f) ==
    /\ pc[f] \notin {"idle", "over", "dead", "reading", "moving"}
    /\ pc' = [pc EXCEPT ![f] = "dead"]
    /\ UNCHANGED <<db, errors, dbClosed, snaps, itr, cur, acc, outcome, underWay, failed, got>>

\* Deviation: the cleanup does not ask the object to close.
CollectWithoutClose(f) ==
    /\ pc[f] \in {"over", "dead"} /\ itr[f] = "open"
    /\ UNCHANGED vars

\* ItrObjectResourceCleanup: the term died with the fold or the process.
CollectIterator(f) ==
    /\ pc[f] \in {"over", "dead"} /\ itr[f] = "open"
    /\ itr' = [itr EXCEPT ![f] = "closed"]
    /\ UNCHANGED <<db, errors, dbClosed, snaps, cur, pc, acc, outcome, underWay, failed, got>>

-----------------------------------------------------------------------------
(* A process that moves its iterator itself: iterator_move with any action *)

Browsers == {f \in Folders : pc[f] \in {"browse", "moving"}}

Browse(f, s) ==
    /\ pc[f] = "idle" /\ Cardinality(Browsers) < MaxBrowsers
    /\ Iterator(f, s)
    /\ pc' = [pc EXCEPT ![f] = "browse"]
    /\ with' = [with EXCEPT ![f] = s]
    /\ UNCHANGED <<db, errors, dbClosed, snaps, pos, walk, acc, outcome, underWay, failed, got>>

\* iterator_move: the test of the close words.  A badarg changes nothing.
BrowserCalls(f) ==
    /\ pc[f] = "browse" /\ RetrieveItrObject(f)
    /\ pc' = [pc EXCEPT ![f] = "moving"]
    /\ UNCHANGED <<db, errors, dbClosed, snaps, itr, cur, acc, outcome, underWay, failed, got>>

BrowserReturns(f) ==
    /\ pc[f] = "moving"
    /\ pc' = [pc EXCEPT ![f] = "browse"]
    /\ underWay' = underWay \ {f}
    /\ UNCHANGED <<db, dbClosed, snaps, itr, view, with, acc, outcome, failed, got>>

\* SeekToFirst, SeekToLast or Seek, from wherever the iterator is.
Jump(f) ==
    /\ BrowserReturns(f)
    /\ \E k \in {KeyAfter(view[f], k) : k \in 0..NumKeys} \cup {KeyBefore(view[f], NumKeys + 1)} :
          /\ pos' = [pos EXCEPT ![f] = k]
          /\ walk' = [walk EXCEPT ![f] = {k} \ {0}]
    /\ UNCHANGED errors

\* Deviation: a call that was rescheduled moves once more.
WalkOnTwice(f) ==
    /\ BrowserReturns(f) /\ pos[f] # 0
    /\ \E k \in {KeyAfter(view[f], KeyAfter(view[f], pos[f]))} :
          /\ pos' = [pos EXCEPT ![f] = k]
          /\ walk' = [walk EXCEPT ![f] = @ \cup {IF k = 0 THEN NumKeys + 1 ELSE k}]
    /\ UNCHANGED errors

\* Next and Prev.  RocksDB asks for an iterator that is valid; iterator_move
\* does not test that, so what a call on another one does is left open.  The
\* walk records an end that it fell off as 0 or NumKeys + 1.
WalkOn(f) ==
    /\ BrowserReturns(f) /\ pos[f] # 0
    /\ \/ LET k == KeyAfter(view[f], pos[f])
          IN  /\ pos' = [pos EXCEPT ![f] = k]
              /\ walk' = [walk EXCEPT ![f] = @ \cup {IF k = 0 THEN NumKeys + 1 ELSE k}]
       \/ LET k == KeyBefore(view[f], pos[f])
          IN  /\ pos' = [pos EXCEPT ![f] = k]
              /\ walk' = [walk EXCEPT ![f] = @ \cup {k}]
    /\ UNCHANGED errors

\* A move that RocksDB fails to read for.
MoveFails(f) ==
    /\ BrowserReturns(f)
    /\ errors < MaxErrors
    /\ errors' = errors + 1
    /\ pos' = [pos EXCEPT ![f] = 0]
    /\ UNCHANGED walk

\* iterator_close, or badarg, as in the after clause.
StopBrowsing(f) ==
    /\ pc[f] = "browse"
    /\ pc' = [pc EXCEPT ![f] = "after"]
    /\ UNCHANGED <<db, errors, dbClosed, snaps, itr, cur, acc, outcome, underWay, failed, got>>

-----------------------------------------------------------------------------

Step(f) == FoldLoop(f) \/ FoldMove(f) \/ Fun(f) \/ After(f)

Next == \/ \E k \in Keys : Put(k) \/ Delete(k)
        \/ \E s \in Snaps : GetSnapshot(s) \/ ReleaseSnapshot(s)
        \/ Close \/ IsEmpty
        \/ \E k \in Keys, s \in Snaps \cup {NoSnap} : Get(k, s)
        \/ \E f \in Folders : \/ \E s \in Snaps \cup {NoSnap} : Fold(f, s)
                              \/ \E s \in Snaps \cup {NoSnap} : Browse(f, s)
                              \/ BrowserCalls(f) \/ Jump(f) \/ WalkOn(f) \/ MoveFails(f)
                              \/ StopBrowsing(f) \/ FoldColumnFamily(f)
                              \/ Step(f) \/ FoldMoveError(f)
                              \/ Kill(f) \/ CollectIterator(f) \/ CloseIterator(f)

Spec == Init /\ [][Next]_vars

\* A process runs on, and garbage is collected.  That Shutdown reaches each
\* iterator is not assumed.
FairSpec == /\ Spec
            /\ \A f \in Folders : WF_vars(Step(f)) /\ WF_vars(CollectIterator(f))

-----------------------------------------------------------------------------
(* Properties *)

\* Every variable has its values, and the fun is called with a key.
TypeOK == /\ stored \in Views /\ writes \in 0..MaxWrites /\ errors \in 0..MaxErrors
          /\ dbClosed \in BOOLEAN
          /\ snap \in [Snaps -> {"none", "taken", "released"}]
          /\ snapView \in [Snaps -> Views]
          /\ itr \in [Folders -> {"none", "open", "closed"}]
          /\ view \in [Folders -> Views]
          /\ with \in [Folders -> Snaps \cup {NoSnap}]
          /\ pos \in [Folders -> 0..NumKeys]
          /\ pc \in [Folders -> {"idle", "first", "reading", "fun", "next",
                                  "browse", "moving", "after", "over", "dead"}]
          /\ outcome \in [Folders -> {"none", "returned", "returnedAcc0", "badarg", "funRaised"}]
          /\ underWay \subseteq Folders
          /\ failed \in [Folders -> BOOLEAN]
          /\ walk \in [Folders -> SUBSET (0..(NumKeys + 1))]
          /\ \A f \in Folders : /\ acc[f] \in Seq(Keys \X Values)
                               /\ pc[f] = "fun" => pos[f] \in Keys

\* A fold that returns has seen each element of the moment it started once
\* and in key order, although others wrote, released its snapshot or closed
\* the database in the meantime: a fold that was cut short raises instead.
\* (A read error is the exception, see FoldVisitsEveryElement.)
FoldReturnsItsView ==
    \A f \in Folders :
        /\ outcome[f] = "returned" /\ ~failed[f] => acc[f] = Elements(view[f])
        /\ IsPrefix(acc[f], Elements(view[f]))

\* What is read through one snapshot is one state of the database: two folds
\* through it return the same, and a get before its release agrees with them.
SnapshotReadsAgree ==
    \A f \in Folders : outcome[f] = "returned" /\ ~failed[f] /\ with[f] # NoSnap =>
        /\ \A g \in Folders : outcome[g] = "returned" /\ ~failed[g] /\ with[g] = with[f]
                                => acc[g] = acc[f]
        /\ got.op = "get" /\ got.with = with[f] /\ got.answer = got.there
             /\ snap[with[f]] = "taken"
             => got.answer = IF \E e \in ToSet(acc[f]) : e[1] = got.key
                             THEN (CHOOSE e \in ToSet(acc[f]) : e[1] = got.key)[2]
                             ELSE 0

\* iterator_move in both directions tells all that is there: between the
\* places that next and prev led to since the last jump lies no element of
\* the view that the process was not shown, whatever others wrote, released
\* or closed meanwhile, and a walk ends only behind the last element or
\* before the first.  This includes read errors, which need a new jump.
WalksHaveNoGaps ==
    \A f \in Folders : walk[f] # {} =>
        walk[f] \cap Keys = {k \in Present(view[f]) : Min(walk[f]) <= k /\ k <= Max(walk[f])}

\* Once the database's close word is set a process gets at most the element of
\* the call that it was in, past its test, at that moment: no call that begins
\* after the close reads one, although the iterator is still open until
\* Shutdown reaches it.
OnlyCallsUnderWayReadOn ==
    [][dbClosed => \A f \in Folders :
          (pc[f] = "reading" /\ pc'[f] = "fun") \/ (pc[f] = "moving" /\ pos'[f] # pos[f])
          => f \in underWay]_vars

\* However a fold ends, by return, by an exception of the fun or by a close
\* that overtakes it, the iterator it opened is closed by then.
FoldLeavesNoIterator ==
    \A f \in Folders : pc[f] = "over" => itr[f] # "open"

\* An iterator that was opened is closed in the end, also when the process
\* that folds is killed in the middle, unless a process keeps one itself.
IteratorsAreClosed ==
    \A f \in Folders : itr[f] = "open" ~> (itr[f] = "closed" \/ f \in Browsers)

\* "Calls Fun(Elem, AccIn) on successive elements in the default column
\* family": a fold that returns has called it for every element.
FoldVisitsEveryElement ==
    \A f \in Folders : outcome[f] = "returned" => acc[f] = Elements(view[f])
=============================================================================
