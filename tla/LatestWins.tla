----------------------------- MODULE LatestWins -----------------------------
(***************************************************************************)
(* What one chunk slot promises its occupant, whatever the order in which  *)
(* meshes are queued, built and finished: it shows nothing, or a mesh of   *)
(* the occupant; a mesh is shown only at the moment it is the one wanted,  *)
(* and only if it is newer than everything shown before it.                *)
(***************************************************************************)
EXTENDS Integers

CONSTANT Nothing

VARIABLES own,      \* the occupant; 0 is nobody
          wanted,   \* the newest version asked for, or -1
          last,     \* the newest version shown or given up, or -1
          shown     \* Nothing, or who is shown at which version

slot == <<own, wanted, last, shown>>

Init == own = 0 /\ wanted = -1 /\ last = -1 /\ shown = Nothing

\* A newer mesh is asked for; the old one stays until it arrives.
Want == wanted' > wanted /\ UNCHANGED <<own, last, shown>>

Show == /\ wanted' >= wanted
        /\ wanted' > last
        /\ last' = wanted'
        /\ shown' = [owner |-> own, version |-> wanted']
        /\ UNCHANGED own

Hide == /\ wanted' >= wanted
        /\ last' >= last
        /\ shown' = Nothing
        /\ UNCHANGED own

\* The occupant changes and takes nothing over.
Pass == /\ own' # own
        /\ shown' = Nothing
        /\ wanted' \in Int /\ last' \in Int

Next == Want \/ Show \/ Hide \/ Pass

Spec == Init /\ [][Next]_slot
=============================================================================
