---------------------------- MODULE DatabaseLife ----------------------------
(***************************************************************************)
(* What init-db and the database lock promise the commands that open a     *)
(* database for writing (docs/design/concurrency.md, "Lock taxonomy"): a   *)
(* database is good or it is not, only a good one is entered, and it stays *)
(* good for as long as somebody is inside.                                 *)
(***************************************************************************)
CONSTANTS Procs

VARIABLES good,   \* the folder holds a complete database of this version
          users   \* the commands that have opened it under the shared lock

Init == good \in BOOLEAN /\ users = {}

Make      == ~good /\ users = {} /\ good' = TRUE /\ UNCHANGED users
Unmake    == good /\ users = {} /\ good' = FALSE /\ UNCHANGED users
Enter(p)  == good /\ users' = users \cup {p} /\ UNCHANGED good
Leave(p)  == users' = users \ {p} /\ UNCHANGED good

Next == Make \/ Unmake \/ \E p \in Procs : Enter(p) \/ Leave(p)

Spec == Init /\ [][Next]_<<good, users>>
=============================================================================
