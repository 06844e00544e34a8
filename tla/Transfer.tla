------------------------------ MODULE Transfer ------------------------------
(***************************************************************************)
(* The receiving half of a resumable transfer (internal/transfer): the     *)
(* part file, the bitmap of finished chunks, and Finalize.  No program     *)
(* calls it yet, so the caller is the one of TestChunkResume: write some   *)
(* chunks, sync the part file, mark them, resume after an interruption,    *)
(* finalize when nothing remains.                                          *)
(*                                                                         *)
(* Every file has the content a running system sees and the content its    *)
(* disk holds.  A crash of the process keeps the first, a power loss falls *)
(* back on the second, and anything not synced reaches the disk whenever   *)
(* the system likes, in any order.  Renames are durable in the order they  *)
(* were made, and syncing a file makes its own name durable.               *)
(***************************************************************************)
EXTENDS Naturals, FiniteSets

CONSTANTS
    Chunks,     \* chunks of the manifest
    Absent,     \* there is no such file
    Other,      \* what the destination held before, or somebody put there
    MaxCrashes, \* bound on crashes and power losses
    Neighbours  \* whether somebody else may create the destination

ASSUME TransferAssumption ==
    /\ IsFiniteSet(Chunks) /\ Absent # Other
    /\ {Absent, Other} \cap [Chunks -> {"hole", "old", "torn", "good"}] = {}
    /\ MaxCrashes \in Nat /\ Neighbours \in BOOLEAN

VARIABLES
    part, partDisk,     \* <dst>.meshbridge.part
    bitmap, bitmapDisk, \* the state file: chunks marked done
    dst, dstDisk,       \* the destination
    renamed,            \* a rename that is not durable yet
    pc,                 \* what the receiver is doing
    done,               \* Bitmap.Done in memory
    batch,              \* chunks written and not yet marked
    overwrite,          \* Finalize's argument
    crashes             \* crashes and power losses so far

disk == <<partDisk, bitmapDisk, dstDisk, renamed>>
memory == <<done, batch>>
history == <<overwrite, crashes>>
vars == <<part, bitmap, dst, disk, pc, memory, history>>

\* "hole" after Truncate, "old" if another version of the source was received
\* here, "torn" when a write was cut short, "good" when the hash was verified.
Content == [Chunks -> {"hole", "old", "torn", "good"}]
Whole == [i \in Chunks |-> "good"]

Init ==
    /\ part \in {Absent} \cup [Chunks -> {"hole", "old"}] /\ partDisk = part
    /\ bitmap = {} /\ bitmapDisk = {}
    /\ dst \in {Absent, Other} /\ dstDisk = dst
    /\ renamed = FALSE
    /\ pc = "down"
    /\ done = {} /\ batch = {}
    /\ overwrite \in BOOLEAN /\ crashes = 0

-----------------------------------------------------------------------------
(* The receiver                                                            *)

\* Seeded fault: the part file of a finished or lost transfer is not recreated.
StartWithoutPart ==
    /\ pc = "down"
    /\ pc' = "receiving"
    /\ done' = bitmap
    /\ batch' = {}
    /\ UNCHANGED <<part, bitmap, dst, disk, history>>

\* OpenBitmap and PreparePartial.
Start ==
    /\ pc = "down"
    /\ pc' = "receiving"
    /\ done' = bitmap
    /\ batch' = {}
    /\ part' = IF part = Absent THEN [i \in Chunks |-> "hole"] ELSE part
    /\ UNCHANGED <<bitmap, dst, disk, history>>

Remaining == Chunks \ (done \cup batch)

\* WriteChunk; data with another hash is refused before it is written.
WriteChunk(i) ==
    /\ pc = "receiving"
    /\ i \in Remaining
    /\ part' = [part EXCEPT ![i] = "good"]
    /\ batch' = batch \cup {i}
    /\ UNCHANGED <<bitmap, dst, disk, pc, done, history>>

\* Seeded fault: chunks are marked before they are on disk.
MarkUnsynced ==
    /\ pc = "receiving"
    /\ batch # {}
    /\ pc' = "marking"
    /\ UNCHANGED <<part, bitmap, dst, disk, memory, history>>

\* f.Sync, after which a batch may be marked.
SyncPart ==
    /\ pc = "receiving"
    /\ batch # {}
    /\ partDisk' = part
    /\ dstDisk' = IF renamed THEN partDisk ELSE dstDisk
    /\ renamed' = FALSE
    /\ pc' = "marking"
    /\ UNCHANGED <<part, bitmap, bitmapDisk, dst, memory, history>>

\* MarkDone and its save: a temporary file renamed over the state file.
MarkDone(i) ==
    /\ pc = "marking"
    /\ i \in batch
    /\ done' = done \cup {i}
    /\ bitmap' = done'
    /\ batch' = batch \ {i}
    /\ pc' = IF batch' = {} THEN "receiving" ELSE "marking"
    /\ UNCHANGED <<part, dst, disk, history>>

\* Finalize looks at the destination first...
Finalize ==
    /\ pc \in {"receiving", "marking"}
    /\ Remaining = {}
    /\ pc' = IF dst # Absent /\ ~overwrite THEN "failed" ELSE "hashing"
    /\ UNCHANGED <<part, bitmap, dst, disk, memory, history>>

\* ... reads the part file through and compares the final hash...
VerifyFinal ==
    /\ pc = "hashing"
    /\ pc' = IF part = Whole THEN "verified" ELSE "failed"
    /\ UNCHANGED <<part, bitmap, dst, disk, memory, history>>

\* Seeded fault: visibility before durability.
SyncFinalSkipped ==
    /\ pc = "verified"
    /\ pc' = "synced"
    /\ UNCHANGED <<part, bitmap, dst, disk, memory, history>>

\* ... syncs it...
SyncFinal ==
    /\ pc = "verified"
    /\ partDisk' = part
    /\ dstDisk' = IF renamed THEN partDisk ELSE dstDisk
    /\ renamed' = FALSE
    /\ pc' = "synced"
    /\ UNCHANGED <<part, bitmap, bitmapDisk, dst, memory, history>>

\* ... renames it...
RenameFinal ==
    /\ pc = "synced"
    /\ dst' = part
    /\ part' = Absent
    /\ renamed' = TRUE
    /\ pc' = "renamed"
    /\ UNCHANGED <<bitmap, partDisk, bitmapDisk, dstDisk, memory, history>>

\* ... and syncs the directory, so that the new name survives too.  If the
\* directory cannot be opened or synced the rename is still reported a success.
SyncDirectory ==
    /\ pc = "renamed"
    /\ \/ renamed /\ dstDisk' = partDisk /\ partDisk' = Absent /\ renamed' = FALSE
       \/ UNCHANGED <<dstDisk, partDisk, renamed>>
    /\ pc' = "done"
    /\ UNCHANGED <<part, bitmap, bitmapDisk, dst, memory, history>>

\* A failed Finalize is tried again.
Retry ==
    /\ pc = "failed"
    /\ pc' = "down"
    /\ UNCHANGED <<part, bitmap, dst, disk, memory, history>>

-----------------------------------------------------------------------------
(* The system                                                              *)

WritebackChunk(i) ==
    /\ ~renamed /\ part # Absent
    /\ partDisk' = IF partDisk = Absent THEN [[j \in Chunks |-> "hole"] EXCEPT ![i] = part[i]]
                   ELSE [partDisk EXCEPT ![i] = part[i]]
    /\ partDisk' # partDisk
    /\ UNCHANGED <<part, bitmap, bitmapDisk, dst, dstDisk, renamed, pc, memory, history>>

WritebackBitmap ==
    /\ bitmapDisk # bitmap
    /\ bitmapDisk' = bitmap
    /\ UNCHANGED <<part, bitmap, dst, partDisk, dstDisk, renamed, pc, memory, history>>

WritebackRename ==
    /\ renamed
    /\ dstDisk' = partDisk /\ partDisk' = Absent /\ renamed' = FALSE
    /\ UNCHANGED <<part, bitmap, bitmapDisk, dst, pc, memory, history>>

Crash == crashes < MaxCrashes /\ crashes' = crashes + 1

\* Everything ends but the files; a chunk being written may be half there.
ProcessCrash ==
    /\ Crash
    /\ pc' = "down"
    /\ \/ UNCHANGED part
       \/ pc = "receiving" /\ \E i \in Remaining : part' = [part EXCEPT ![i] = "torn"]
    /\ done' = {} /\ batch' = {}
    /\ UNCHANGED <<bitmap, dst, disk, overwrite>>

\* What was not on disk is lost or half there.  The state file is never
\* synced: its rename may survive without its data, which OpenBitmap takes for
\* an empty one.
PowerLoss ==
    /\ Crash
    /\ pc' = "down"
    /\ dst' = dstDisk
    /\ IF partDisk = Absent THEN part' = Absent
       ELSE \E torn \in SUBSET {i \in Chunks : part # Absent /\ ~renamed /\ part[i] # partDisk[i]} :
               part' = [i \in Chunks |-> IF i \in torn THEN "torn" ELSE partDisk[i]]
    /\ partDisk' = part'
    /\ bitmap' \in {bitmapDisk, {}}
    /\ bitmapDisk' = bitmap'
    /\ renamed' = FALSE
    /\ done' = {} /\ batch' = {}
    /\ UNCHANGED <<dstDisk, overwrite>>

NeighbourCreates ==
    /\ Neighbours
    /\ dst = Absent
    /\ dst' = Other /\ dstDisk' = Other
    /\ UNCHANGED <<part, bitmap, partDisk, bitmapDisk, renamed, pc, memory, history>>

-----------------------------------------------------------------------------
Receiver ==
    \/ Start \/ SyncPart \/ Finalize \/ VerifyFinal \/ SyncFinal \/ RenameFinal \/ SyncDirectory
    \/ Retry
    \/ \E i \in Chunks : WriteChunk(i) \/ MarkDone(i)

Next ==
    \/ Receiver
    \/ \E i \in Chunks : WritebackChunk(i)
    \/ WritebackBitmap \/ WritebackRename
    \/ ProcessCrash \/ PowerLoss \/ NeighbourCreates

Spec == Init /\ [][Next]_vars

(* The receiver is restarted after a crash and keeps working; the sender   *)
(* has the file until it is all there.                                     *)
FairSpec == Spec /\ WF_vars(Receiver)

-----------------------------------------------------------------------------
(* What a receiver promises                                                *)

\* The variables keep their types, and the chunks in work belong together.
TypeOK ==
    /\ {part, partDisk} \subseteq Content \cup {Absent}
    /\ {dst, dstDisk} \subseteq Content \cup {Absent, Other}
    /\ bitmap \subseteq Chunks /\ bitmapDisk \subseteq Chunks
    /\ renamed \in BOOLEAN
    /\ pc \in {"down", "receiving", "marking", "hashing", "verified", "synced", "renamed",
               "done", "failed"}
    /\ done \subseteq Chunks /\ batch \subseteq Chunks \ done
    /\ pc \in {"receiving", "marking", "hashing", "verified", "synced"} => part # Absent
    /\ overwrite \in BOOLEAN /\ crashes \in 0..MaxCrashes

Holds(f, i) == f # Absent /\ f[i] = "good"

\* A chunk the state file marks is in the part file, verified, whatever crash
\* or power loss came between the two (TRANSFER.md: interrupted transfers
\* resume); or the file is already in place.
BitmapHonest ==
    /\ \A i \in bitmap : Holds(part, i) \/ dst = Whole
    /\ \A i \in bitmapDisk : Holds(partDisk, i) \/ dstDisk = Whole

\* When Finalize returns success a power loss no longer takes the data away.
\* It can still undo the rename, whose sync may have failed unnoticed, but then
\* it brings the part file back whole (transfer.go:225-236).
SuccessKeepsData == pc = "done" => dst = Whole /\ Whole \in {dstDisk, partDisk}

\* The destination never shows part of the file (AtomicFile).
Destination == INSTANCE AtomicFile WITH
    Contents <- {Absent, Other, Whole}, visible <- dst, durable <- dstDisk
PublishedWhole == Destination!FileSpec

\* However it is interrupted, the transfer ends with the file in place, or
\* with the destination that was not to be overwritten.
Arrives == <>[](dst = Whole \/ (dst = Other /\ ~overwrite))
=============================================================================
