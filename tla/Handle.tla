------------------------------- MODULE Handle -------------------------------
(***************************************************************************)
(* What a handle promises to the code that borrows it, without saying how: *)
(* whoever is among the users of a handle finds it usable until it leaves, *)
(* a handle whose close was requested admits nobody once its last user has *)
(* left, and is then destroyed, once.                                      *)
(***************************************************************************)
CONSTANT Users
VARIABLES state, users

Init == state = "open" /\ users = {}

Enter(u) == /\ state = "open" \/ (state = "closing" /\ users # {})
            /\ u \notin users
            /\ users' = users \cup {u}
            /\ UNCHANGED state

\* Some users leave, together.
Leave(us) == us \subseteq users /\ users' = users \ us /\ UNCHANGED state

\* A user leaves its place to another one.
Transfer(u, v) == /\ u \in users /\ v \notin users
                  /\ users' = (users \ {u}) \cup {v}
                  /\ UNCHANGED state

\* Whoever asks for the close stays a user until it has left.
RequestClose(u) == /\ state = "open" /\ state' = "closing"
                   /\ u \notin users /\ users' = users \cup {u}

Destroy == state = "closing" /\ users = {} /\ state' = "closed" /\ UNCHANGED users

Reclaim == state = "closed" /\ state' = "gone" /\ UNCHANGED users

Next == \/ \E u \in Users : Enter(u) \/ RequestClose(u)
        \/ \E us \in SUBSET users : Leave(us)
        \/ \E u, v \in Users : Transfer(u, v)
        \/ Destroy
        \/ Reclaim

Spec == Init /\ [][Next]_<<state, users>>

\* A handle without users whose close was requested is destroyed.
FairSpec == Spec /\ WF_<<state, users>>(Destroy)
=============================================================================
