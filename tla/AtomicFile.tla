----------------------------- MODULE AtomicFile -----------------------------
(***************************************************************************)
(* What a receiver promises of the destination: nobody ever sees part of   *)
(* the file.  It appears whole, becomes durable some time later, and a     *)
(* power loss in between brings back what was there before.                *)
(***************************************************************************)
CONSTANTS Contents, Absent, Whole

VARIABLES visible, durable

file == <<visible, durable>>

Kept == Contents \ {Whole}

FileInit == visible \in Kept /\ durable = visible

Publish == visible' = Whole /\ UNCHANGED durable

\* Somebody else creates the destination.
Appear ==
    /\ visible = Absent
    /\ visible' \in Kept /\ durable' = visible'

Harden == durable' = visible /\ UNCHANGED visible

Revert == visible' = durable /\ UNCHANGED durable

FileNext == Publish \/ Appear \/ Harden \/ Revert

FileSpec == FileInit /\ [][FileNext]_file
=============================================================================
