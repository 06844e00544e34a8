---------------------------- MODULE TransferProofs ----------------------------
(***************************************************************************)
(* Transfer implements AtomicFile, for every set of chunks and any number  *)
(* of crashes.  Publishing the whole file is safe because of what is true  *)
(* of the part file between the checks of Finalize and the rename: its     *)
(* content is verified, then durable, and no write reaches it any more.    *)
(***************************************************************************)
EXTENDS Transfer, TLAPS

\* The progress of Finalize in terms of the three files.
FileInv ==
    /\ dst \in {Absent, Other, Whole}
    /\ dstDisk \in {Absent, Other, Whole}
    /\ pc = "verified" => part = Whole
    /\ pc = "synced" => part = Whole /\ partDisk = Whole /\ ~renamed
    /\ renamed => dst = Whole /\ partDisk = Whole
    /\ pc \in {"renamed", "done"} => dst = Whole /\ (renamed \/ dstDisk = Whole)

\* A verified file is neither missing nor what was there before.
LEMMA WholeIsNew == Whole # Absent /\ Whole # Other
  <1>1. Whole \in [Chunks -> {"hole", "old", "torn", "good"}]
    BY DEF Whole
  <1> QED BY <1>1, TransferAssumption DEF TransferAssumption

\* Writing back a chunk of a verified file changes nothing.
LEMMA WholeWriteback ==
    ASSUME NEW i \in Chunks PROVE [Whole EXCEPT ![i] = Whole[i]] = Whole
  BY DEF Whole

\* Nothing has been published or renamed when the first transfer begins.
LEMMA FileInit == Init => FileInv
  BY DEF Init, FileInv

\* Every step of the receiver and of the system keeps FileInv.
LEMMA FileStep == FileInv /\ [Next]_vars => FileInv'
<1> SUFFICES ASSUME FileInv, [Next]_vars PROVE FileInv'
  OBVIOUS
<1> USE DEF FileInv
<1>1. CASE Start
  BY <1>1 DEF Start, disk
<1>2. CASE SyncPart
  BY <1>2 DEF SyncPart
<1>3. CASE Finalize
  BY <1>3 DEF Finalize, disk
<1>4. CASE VerifyFinal
  BY <1>4 DEF VerifyFinal, disk
<1>5. CASE SyncFinal
  BY <1>5 DEF SyncFinal
<1>6. CASE RenameFinal
  BY <1>6 DEF RenameFinal
<1>7. CASE SyncDirectory
  BY <1>7 DEF SyncDirectory
<1>8. CASE Retry
  BY <1>8 DEF Retry, disk
<1>9. ASSUME NEW i \in Chunks, WriteChunk(i) PROVE FileInv'
  BY <1>9 DEF WriteChunk, disk
<1>10. ASSUME NEW i \in Chunks, MarkDone(i) PROVE FileInv'
  BY <1>10 DEF MarkDone, disk
<1>11. ASSUME NEW i \in Chunks, WritebackChunk(i) PROVE FileInv'
  <2>1. CASE pc = "synced"
    BY <1>11, <2>1, WholeWriteback, WholeIsNew DEF WritebackChunk
  <2>2. CASE pc # "synced"
    BY <1>11, <2>2 DEF WritebackChunk
  <2> QED BY <2>1, <2>2
<1>12. CASE WritebackBitmap
  BY <1>12 DEF WritebackBitmap
<1>13. CASE WritebackRename
  BY <1>13 DEF WritebackRename
<1>14. CASE ProcessCrash
  BY <1>14 DEF ProcessCrash, disk
<1>15. CASE PowerLoss
  BY <1>15 DEF PowerLoss
<1>16. CASE NeighbourCreates
  BY <1>16, WholeIsNew DEF NeighbourCreates
<1>17. CASE UNCHANGED vars
  BY <1>17 DEF vars, disk
<1> QED
  BY <1>1, <1>2, <1>3, <1>4, <1>5, <1>6, <1>7, <1>8, <1>9, <1>10, <1>11, <1>12, <1>13, <1>14,
     <1>15, <1>16, <1>17 DEF Next, Receiver

\* The invariant of Finalize holds throughout.
THEOREM FileInvariant == Spec => []FileInv
<1>1. Init => FileInv
  BY FileInit
<1>2. FileInv /\ [Next]_vars => FileInv'
  BY FileStep
<1> QED BY <1>1, <1>2, PTL DEF Spec

\* Once Finalize has returned success the verified file is on disk, under its
\* new name or, when the directory could not be synced, under the old one: a
\* power loss costs at most the rename (transfer.go:225-236).
THEOREM SuccessLosesNothing == Spec => []SuccessKeepsData
<1>1. FileInv => SuccessKeepsData
  BY DEF FileInv, SuccessKeepsData
<1> QED BY <1>1, FileInvariant, PTL

\* A transfer starts with a destination it has not published.
LEMMA DestinationInit == Init => Destination!FileInit
  BY WholeIsNew DEF Init, Destination!FileInit, Destination!Kept

\* Each step of the transfer leaves the destination alone or is a step of
\* AtomicFile: RenameFinal publishes, a durable rename hardens, a power loss
\* reverts.
LEMMA DestinationStep ==
    FileInv /\ [Next]_vars => [Destination!FileNext]_Destination!file
<1> SUFFICES ASSUME FileInv, [Next]_vars
             PROVE  [Destination!FileNext]_Destination!file
  OBVIOUS
<1> USE DEF FileInv, Destination!FileNext, Destination!file
<1>1. CASE UNCHANGED <<dst, dstDisk>>
  BY <1>1
<1>2. CASE RenameFinal
  BY <1>2 DEF RenameFinal, Destination!Publish
<1>3. CASE SyncPart \/ SyncFinal \/ SyncDirectory \/ WritebackRename
  <2>1. /\ dst' = dst
        /\ \/ dstDisk' = dstDisk
           \/ renamed /\ dstDisk' = partDisk
    BY <1>3 DEF SyncPart, SyncFinal, SyncDirectory, WritebackRename
  <2> QED BY <2>1 DEF Destination!Harden
<1>4. CASE PowerLoss
  BY <1>4 DEF PowerLoss, Destination!Revert
<1>5. CASE NeighbourCreates
  BY <1>5, WholeIsNew DEF NeighbourCreates, Destination!Appear, Destination!Kept
<1>6. ASSUME NEW i \in Chunks, WriteChunk(i) \/ MarkDone(i) \/ WritebackChunk(i)
      PROVE  UNCHANGED <<dst, dstDisk>>
  BY <1>6 DEF WriteChunk, MarkDone, WritebackChunk, disk
<1>7. CASE Start \/ Finalize \/ VerifyFinal \/ Retry \/ WritebackBitmap \/ ProcessCrash
           \/ UNCHANGED vars
  <2>1. UNCHANGED <<dst, dstDisk>>
    BY <1>7 DEF Start, Finalize, VerifyFinal, Retry, WritebackBitmap, ProcessCrash, vars, disk
  <2> QED BY <2>1, <1>1
<1> QED BY <1>1, <1>2, <1>3, <1>4, <1>5, <1>6, <1>7 DEF Next, Receiver

\* The destination never shows part of a file, whatever is interrupted: an
\* observer of the destination cannot tell the receiver from AtomicFile.
THEOREM TransferIsAtomic == Spec => PublishedWhole
<1>1. Init => Destination!FileInit
  BY DestinationInit
<1>2. FileInv /\ [Next]_vars => [Destination!FileNext]_Destination!file
  BY DestinationStep
<1> QED BY <1>1, <1>2, FileInvariant, PTL DEF Spec, PublishedWhole, Destination!FileSpec
-----------------------------------------------------------------------------
(* The state file                                                          *)

LEMMA ContentIs == Absent \notin Content /\ Whole \in Content
<1>1. Absent \notin Content
  BY TransferAssumption DEF TransferAssumption, Content
<1> QED BY <1>1 DEF Content, Whole

\* One chunk is written, or torn.
LEMMA ChunkWritten ==
  ASSUME NEW f \in Content, NEW i \in Chunks, NEW c \in {"good", "torn"},
         NEW g, g = [f EXCEPT ![i] = c]
  PROVE  g \in Content /\ g # Absent /\ g[i] = c /\ \A j \in Chunks \ {i} : g[j] = f[j]
<1>1. g \in Content /\ g[i] = c /\ \A j \in Chunks \ {i} : g[j] = f[j]
  BY DEF Content
<1> QED BY <1>1, ContentIs

LEMMA TypeInit == Init => TypeOK
<1> SUFFICES ASSUME Init PROVE TypeOK
  OBVIOUS
<1>1. part \in Content \cup {Absent}
  BY DEF Init, Content
<1>2. pc = "down" /\ overwrite \in BOOLEAN /\ crashes \in 0 .. MaxCrashes
  BY TransferAssumption DEF TransferAssumption, Init
<1> QED BY <1>1, <1>2 DEF Init, TypeOK

\* The files, of which most steps touch one.
FilesOK ==
    /\ part \in Content \cup {Absent} /\ partDisk \in Content \cup {Absent}
    /\ dst \in Content \cup {Absent, Other} /\ dstDisk \in Content \cup {Absent, Other}
    /\ bitmap \subseteq Chunks /\ bitmapDisk \subseteq Chunks
    /\ renamed \in BOOLEAN

LEMMA FilesStep == TypeOK /\ [Next]_vars => FilesOK'
<1> SUFFICES ASSUME TypeOK, [Next]_vars PROVE FilesOK'
  OBVIOUS
<1> USE DEF TypeOK, FilesOK, disk
<1>1. CASE Start
  BY <1>1 DEF Start, Content
<1>2. CASE SyncPart \/ SyncFinal
  BY <1>2 DEF SyncPart, SyncFinal
<1>3. CASE Finalize \/ VerifyFinal \/ Retry
  BY <1>3 DEF Finalize, VerifyFinal, Retry
<1>4. CASE RenameFinal \/ SyncDirectory
  BY <1>4 DEF RenameFinal, SyncDirectory
<1>5. ASSUME NEW i \in Chunks, WriteChunk(i) PROVE FilesOK'
  <2>1. part \in Content /\ part' = [part EXCEPT ![i] = "good"]
    BY <1>5 DEF WriteChunk
  <2>2. part' \in Content
    BY <2>1, ChunkWritten
  <2> QED BY <1>5, <2>2 DEF WriteChunk
<1>6. ASSUME NEW i \in Chunks, MarkDone(i) PROVE FilesOK'
  BY <1>6 DEF MarkDone
<1>7. ASSUME NEW i \in Chunks, WritebackChunk(i) PROVE FilesOK'
  BY <1>7 DEF WritebackChunk, Content
<1>8. CASE WritebackBitmap \/ WritebackRename
  BY <1>8 DEF WritebackBitmap, WritebackRename
<1>9. CASE ProcessCrash
  <2>1. UNCHANGED part \/ (part # Absent /\ \E i \in Chunks : part' = [part EXCEPT ![i] = "torn"])
    BY <1>9 DEF ProcessCrash, Remaining
  <2>2. part' \in Content \cup {Absent}
    BY <2>1, ChunkWritten
  <2> QED BY <1>9, <2>2 DEF ProcessCrash
<1>10. CASE PowerLoss
  <2>1. part' \in Content \cup {Absent}
    <3>1. CASE partDisk = Absent
      BY <1>10, <3>1 DEF PowerLoss
    <3>2. CASE partDisk # Absent
      <4>1. PICK torn : part' = [i \in Chunks |-> IF i \in torn THEN "torn" ELSE partDisk[i]]
        BY <1>10, <3>2 DEF PowerLoss
      <4> QED BY <3>2, <4>1 DEF Content
    <3> QED BY <3>1, <3>2
  <2>2. partDisk' = part' /\ bitmap' \subseteq bitmapDisk /\ bitmapDisk' = bitmap'
        /\ dst' = dstDisk /\ dstDisk' = dstDisk /\ renamed' = FALSE
    BY <1>10 DEF PowerLoss
  <2> QED BY <2>1, <2>2
<1>11. CASE NeighbourCreates
  BY <1>11 DEF NeighbourCreates
<1>12. CASE UNCHANGED vars
  BY <1>12 DEF vars
<1> QED BY <1>1, <1>2, <1>3, <1>4, <1>5, <1>6, <1>7, <1>8, <1>9, <1>10, <1>11, <1>12
        DEF Next, Receiver

LEMMA TypeStep == TypeOK /\ [Next]_vars => TypeOK'
<1> SUFFICES ASSUME TypeOK, [Next]_vars PROVE TypeOK'
  OBVIOUS
<1>1. FilesOK'
  BY FilesStep
<1> USE <1>1, ContentIs, TransferAssumption DEF TypeOK, FilesOK, disk, memory, history
<1>2. CASE Start
  <2>1. part' # Absent
    BY <1>2 DEF Start, Content
  <2> QED BY <1>2, <2>1 DEF Start
<1>3. CASE SyncPart \/ SyncFinal
  BY <1>3 DEF SyncPart, SyncFinal
<1>4. CASE Finalize \/ VerifyFinal \/ Retry
  BY <1>4 DEF Finalize, VerifyFinal, Retry
<1>5. CASE RenameFinal \/ SyncDirectory
  BY <1>5 DEF RenameFinal, SyncDirectory
<1>6. ASSUME NEW i \in Chunks, WriteChunk(i) PROVE TypeOK'
  <2>1. part' # Absent
    BY <1>6, ChunkWritten DEF WriteChunk
  <2> QED BY <1>6, <2>1 DEF WriteChunk, Remaining
<1>7. ASSUME NEW i \in Chunks, MarkDone(i) PROVE TypeOK'
  BY <1>7 DEF MarkDone
<1>8. ASSUME NEW i \in Chunks, WritebackChunk(i) PROVE TypeOK'
  BY <1>8 DEF WritebackChunk
<1>9. CASE WritebackBitmap \/ WritebackRename \/ NeighbourCreates
  BY <1>9 DEF WritebackBitmap, WritebackRename, NeighbourCreates
<1>10. CASE ProcessCrash \/ PowerLoss
  <2>1. pc' = "down" /\ done' = {} /\ batch' = {} /\ overwrite' = overwrite
        /\ crashes < MaxCrashes /\ crashes' = crashes + 1
    BY <1>10 DEF ProcessCrash, PowerLoss, Crash
  <2>2. crashes' \in 0 .. MaxCrashes
    BY <2>1 DEF TransferAssumption
  <2> QED BY <2>1, <2>2
<1>11. CASE UNCHANGED vars
  BY <1>11 DEF vars
<1> QED BY <1>2, <1>3, <1>4, <1>5, <1>6, <1>7, <1>8, <1>9, <1>10, <1>11 DEF Next, Receiver

\* The files and the variables of the receiver keep their types.
THEOREM TransferTypes == Spec => []TypeOK
  BY TypeInit, TypeStep, PTL DEF Spec

\* A marked chunk is on disk before the mark is, and stays: no later write
\* touches it, and what a crash tears is neither marked nor about to be.
BitmapInv ==
    /\ bitmapDisk \subseteq bitmap
    /\ \A i \in bitmap : /\ Holds(part, i) \/ dst = Whole
                         /\ Holds(partDisk, i) \/ dstDisk = Whole
    /\ pc \in {"receiving", "marking"} =>
          done = bitmap /\ \A i \in batch : Holds(part, i)
    /\ pc = "marking" => ~renamed /\ \A i \in batch : Holds(partDisk, i)
    /\ ~renamed => dst = dstDisk

LEMMA BitmapStep == TypeOK /\ FileInv /\ BitmapInv /\ [Next]_vars => BitmapInv'
<1> SUFFICES ASSUME TypeOK, FileInv, BitmapInv, [Next]_vars PROVE BitmapInv'
  OBVIOUS
<1>a. TypeOK' /\ FileInv'
  BY TypeStep, FileStep
<1>b. \A i \in Chunks : Holds(Whole, i)
  BY ContentIs DEF Holds, Whole
<1> USE DEF BitmapInv, disk, memory, history
<1>1. CASE Start
  <2>1. \A i \in Chunks : Holds(part, i) => Holds(part, i)'
    BY <1>1 DEF Start, Holds
  <2>2. pc' = "receiving" /\ done' = bitmap /\ batch' = {}
        /\ UNCHANGED <<bitmap, bitmapDisk, partDisk, dst, dstDisk, renamed>>
    BY <1>1 DEF Start
  <2> QED BY <2>1, <2>2 DEF TypeOK, Holds
<1>2. CASE SyncPart \/ SyncFinal
  <2>1. /\ partDisk' = part /\ part' = part /\ renamed' = FALSE /\ dst' = dst
        /\ UNCHANGED <<bitmap, bitmapDisk, done, batch>>
        /\ dstDisk' = (IF renamed THEN partDisk ELSE dstDisk)
        /\ (pc = "receiving" /\ pc' = "marking") \/ pc' = "synced"
    BY <1>2 DEF SyncPart, SyncFinal
  <2>2. dst' = dstDisk'
    BY <2>1 DEF FileInv
  <2> QED BY <2>1, <2>2 DEF Holds
<1>3. CASE Finalize \/ VerifyFinal \/ Retry
  BY <1>3 DEF Finalize, VerifyFinal, Retry, Holds
<1>4. CASE RenameFinal
  <2>1. /\ dst' = Whole /\ partDisk' = Whole /\ renamed' /\ pc' = "renamed"
        /\ UNCHANGED <<bitmap, bitmapDisk>>
    BY <1>4 DEF RenameFinal, FileInv
  <2> QED BY <1>b, <2>1 DEF TypeOK, Holds
<1>5. CASE SyncDirectory \/ WritebackRename
  <2>1. /\ UNCHANGED <<part, bitmap, bitmapDisk, dst, done, batch>>
        /\ \/ UNCHANGED <<partDisk, dstDisk, renamed>>
           \/ renamed /\ dstDisk' = partDisk /\ partDisk' = Absent /\ renamed' = FALSE
        /\ pc' = "done" \/ pc' = pc
    BY <1>5 DEF SyncDirectory, WritebackRename
  <2>2. renamed => dst = Whole /\ partDisk = Whole
    BY DEF FileInv
  <2> QED BY <2>1, <2>2 DEF Holds
<1>6. ASSUME NEW i \in Chunks, WriteChunk(i) PROVE BitmapInv'
  <2>1. /\ part \in Content /\ part' = [part EXCEPT ![i] = "good"] /\ batch' = batch \cup {i}
        /\ pc = "receiving"
        /\ UNCHANGED <<bitmap, bitmapDisk, partDisk, dst, dstDisk, renamed, pc, done>>
    BY <1>6 DEF WriteChunk, TypeOK
  <2>2. \A j \in Chunks : j = i \/ Holds(part, j) => Holds(part, j)'
    BY <2>1, ChunkWritten DEF Holds
  <2> QED BY <2>1, <2>2 DEF TypeOK, Holds
<1>7. ASSUME NEW i \in Chunks, MarkDone(i) PROVE BitmapInv'
  BY <1>7 DEF MarkDone, Holds
<1>8. ASSUME NEW i \in Chunks, WritebackChunk(i) PROVE BitmapInv'
  <2>1. /\ ~renamed /\ UNCHANGED <<part, bitmap, bitmapDisk, dst, dstDisk, renamed, pc, done, batch>>
        /\ dst = dstDisk
    BY <1>8 DEF WritebackChunk
  <2>2. \A j \in Chunks : Holds(part, j) /\ Holds(partDisk, j) => Holds(partDisk, j)'
    <3> SUFFICES ASSUME NEW j \in Chunks, Holds(part, j), Holds(partDisk, j)
                 PROVE  Holds(partDisk, j)'
      OBVIOUS
    <3>1. partDisk \in Content /\ partDisk' = [partDisk EXCEPT ![i] = part[i]]
      BY <1>8 DEF WritebackChunk, Holds, TypeOK
    <3>2. partDisk'[j] = "good"
      BY <3>1 DEF Holds, Content
    <3>3. partDisk' # Absent
      BY <3>1, <1>8, ContentIs DEF WritebackChunk, TypeOK, Content, Holds
    <3> QED BY <3>2, <3>3 DEF Holds
  <2> QED BY <2>1, <2>2 DEF TypeOK, Holds
<1>9. CASE WritebackBitmap
  BY <1>9 DEF WritebackBitmap, Holds
<1>10. CASE ProcessCrash
  <2>1. \A i \in bitmap : Holds(part, i) => Holds(part, i)'
    <3>1. CASE UNCHANGED part
      BY <3>1 DEF Holds
    <3>2. CASE pc = "receiving" /\ \E i \in Remaining : part' = [part EXCEPT ![i] = "torn"]
      <4>1. PICK i \in Chunks : i \notin bitmap /\ part' = [part EXCEPT ![i] = "torn"]
        BY <3>2 DEF Remaining
      <4>2. part \in Content
        BY <3>2 DEF TypeOK
      <4>3. part' \in Content /\ \A j \in Chunks \ {i} : part'[j] = part[j]
        BY <4>1, <4>2 DEF Content
      <4> QED BY <4>1, <4>3, ContentIs DEF Holds, TypeOK
    <3> QED BY <1>10, <3>1, <3>2 DEF ProcessCrash
  <2>2. pc' = "down" /\ UNCHANGED <<bitmap, bitmapDisk, partDisk, dst, dstDisk, renamed>>
    BY <1>10 DEF ProcessCrash
  <2> QED BY <2>1, <2>2 DEF Holds
<1>11. CASE PowerLoss
  <2>1. /\ pc' = "down" /\ dst' = dstDisk /\ dstDisk' = dstDisk /\ partDisk' = part'
        /\ bitmap' \subseteq bitmapDisk /\ bitmapDisk' = bitmap'
    BY <1>11 DEF PowerLoss
  <2>2. ASSUME NEW i \in bitmapDisk PROVE Holds(part, i)' \/ dstDisk = Whole
    <3>1. CASE dstDisk # Whole
      <4>1. i \in Chunks /\ Holds(partDisk, i) /\ (~renamed => Holds(part, i))
        BY <3>1 DEF TypeOK
      <4>2. PICK torn \in SUBSET {j \in Chunks : part # Absent /\ ~renamed /\ part[j] # partDisk[j]} :
               part' = [j \in Chunks |-> IF j \in torn THEN "torn" ELSE partDisk[j]]
        BY <1>11, <4>1 DEF PowerLoss, Holds
      <4>3. i \notin torn
        BY <4>1, <4>2 DEF Holds
      <4>4. part'[i] = "good"
        BY <4>1, <4>2, <4>3 DEF Holds
      <4>5. part' # Absent
        BY <4>1, <4>2, ContentIs DEF Holds, TypeOK, Content
      <4> QED BY <4>4, <4>5 DEF Holds
    <3> QED BY <3>1
  <2> QED BY <2>1, <2>2 DEF Holds
<1>12. CASE NeighbourCreates
  <2>1. dst # Whole /\ dst = Absent /\ dst' = Other /\ dstDisk' = Other
        /\ UNCHANGED <<part, bitmap, partDisk, bitmapDisk, renamed, pc, done, batch>>
    BY <1>12, WholeIsNew DEF NeighbourCreates
  <2>2. ~renamed
    BY <2>1 DEF FileInv
  <2> QED BY <2>1, <2>2 DEF Holds
<1>13. CASE UNCHANGED vars
  BY <1>13 DEF vars, Holds
<1> QED BY <1>1, <1>2, <1>3, <1>4, <1>5, <1>6, <1>7, <1>8, <1>9, <1>10, <1>11, <1>12, <1>13
        DEF Next, Receiver

\* A chunk the state file marks is in the part file or in place, on disk too,
\* whatever interrupts the receiver.
THEOREM BitmapStaysHonest == Spec => []BitmapHonest
<1>1. Init => BitmapInv
  BY DEF Init, BitmapInv
<1>2. TypeOK /\ FileInv /\ BitmapInv /\ [Next]_vars => BitmapInv'
  BY BitmapStep
<1>3. BitmapInv => BitmapHonest
  BY DEF BitmapInv, BitmapHonest
<1> QED BY <1>1, <1>2, <1>3, TransferTypes, FileInvariant, PTL DEF Spec
=============================================================================
