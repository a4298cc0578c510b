----------------------- MODULE ErlRefObjectRefinement -----------------------
(***************************************************************************)
(* The close protocol of ErlRefObject implements the promise of Handle for *)
(* everyone who was entitled to enter.  The holders in late are those the  *)
(* protocol lets in without being entitled: Handle does not know them.     *)
(***************************************************************************)
EXTENDS ErlRefObject

HandleState == IF memory = "freed" THEN "gone"
               ELSE IF mDb # "open" THEN "closed"
               ELSE IF closeRequested = 0 THEN "open"
               ELSE "closing"

Promise == INSTANCE Handle WITH Users <- Threads \cup Children,
                                state <- HandleState,
                                users <- Holders \ late

\* Each step of the protocol is a step of Handle or is invisible to it: a
\* handle is destroyed once its close was requested and its last entitled
\* user has left, not before, and then certainly.
ImplementsHandle == Promise!FairSpec
=============================================================================
