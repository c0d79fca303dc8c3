---------------------------- MODULE FileBackend ----------------------------
(***************************************************************************)
(* mmr::MMR over mmr::FileBackend (include/mw/core/mmr/backends): three    *)
(* AppendOnlyFiles, of the hashes of all nodes, the leaves' data, and a    *)
(* position entry per leaf that says where its data is.  The files are     *)
(* committed one after the other, each in the steps of AppendOnlyFile, and *)
(* the process may crash between any two of them.                          *)
(*                                                                         *)
(* The backend is the one opened without a fixed leaf length.  A byte of a *)
(* hash or of a position entry is modelled as that value and an index.     *)
(***************************************************************************)
EXTENDS MMRHash, SequencesExt

CONSTANTS Data,         \* the contents of a leaf: sequences of bytes
          HashLength,   \* HASH::LENGTH
          PosLength,    \* PosEntry::LENGTH
          MaxLeaves,    \* bound: leaves added
          MaxCrashes    \* bound: crashes

ASSUME FileBackendAssumption ==
  /\ HashLength \in Nat \ {0} /\ PosLength \in Nat \ {0}
  /\ MaxLeaves \in Nat /\ MaxCrashes \in Nat

VARIABLES
  hDisk, hSize, hIndex, hBuffer, hMapped, hPhase,   \* m_pHashFile
  dDisk, dSize, dIndex, dBuffer, dMapped, dPhase,   \* m_pDataFile
  pDisk, pSize, pIndex, pBuffer, pMapped, pPhase,   \* m_pPositionFile
  faulty,       \* a call to the file system has failed: never, here
  committing,   \* the file that Commit is at, or "none"
  crashes,      \* crashes so far
  saved,        \* history: the leaves of the last commit before any was interrupted
  leaves,       \* history: the leaves of the batch after it
  state         \* history: "clean"; "torn" by a crash in a commit; then "extended"

hash == <<hDisk, hSize, hIndex, hBuffer, hMapped, hPhase>>
data == <<dDisk, dSize, dIndex, dBuffer, dMapped, dPhase>>
pos == <<pDisk, pSize, pIndex, pBuffer, pMapped, pPhase>>
history == <<saved, leaves, state>>
vars == <<hash, data, pos, faulty, committing, crashes, history>>

\* The files never grow past what MaxLeaves leaves need, however often a crash
\* leaves bytes behind.
NoBound == 1000

H == INSTANCE AppendOnlyFile WITH
       disk <- hDisk, fileSize <- hSize, bufferIndex <- hIndex, buffer <- hBuffer,
       mapped <- hMapped, phase <- hPhase, Bytes <- {<<>>}, Zero <- <<>>,
       MaxLen <- NoBound, MaxDisk <- NoBound, MayCrash <- TRUE, FailAt <- {}
D == INSTANCE AppendOnlyFile WITH
       disk <- dDisk, fileSize <- dSize, bufferIndex <- dIndex, buffer <- dBuffer,
       mapped <- dMapped, phase <- dPhase, Bytes <- {<<>>}, Zero <- <<>>,
       MaxLen <- NoBound, MaxDisk <- NoBound, MayCrash <- TRUE, FailAt <- {}
P == INSTANCE AppendOnlyFile WITH
       disk <- pDisk, fileSize <- pSize, bufferIndex <- pIndex, buffer <- pBuffer,
       mapped <- pMapped, phase <- pPhase, Bytes <- {<<>>}, Zero <- <<>>,
       MaxLen <- NoBound, MaxDisk <- NoBound, MayCrash <- TRUE, FailAt <- {}

Init ==
  /\ H!Init /\ D!Init /\ P!Init
  /\ committing = "none" /\ crashes = 0
  /\ saved = <<>> /\ leaves = <<>> /\ state = "clean"

Open == hPhase # "closed"
Ready == Open /\ committing = "none"

-----------------------------------------------------------------------------
(* Encoding and reading.                                                   *)

HashBytes(h) == [i \in 1..HashLength |-> <<"hash", h, i>>]

PosBytes(position, size) == [i \in 1..PosLength |-> <<"pos", position, size, i>>]

\* Concatenation of the encoded hashes.
AllHashBytes(hashes) ==
  [i \in 1..Len(hashes) * HashLength |->
     <<"hash", hashes[((i - 1) \div HashLength) + 1], ((i - 1) % HashLength) + 1>>]

\* What a read returns when the bytes are not those of one value.
GarbageHash == <<"garbage">>
GarbageData == <<<<"garbage">>>>

\* FileBackend::GetHash; AppendOnlyFile::Read throws when the range is past the
\* end.
GetHash(position) ==
  LET start == position * HashLength
      bytes == H!Read(start, HashLength)
  IN  IF /\ start + HashLength <= H!GetSize
         /\ H!ReadDefined(start, HashLength)
         /\ bytes = HashBytes(bytes[1][2])
        THEN bytes[1][2] ELSE GarbageHash

\* FileBackend::GetPosEntry: the position and the size of a leaf's data.  An
\* entry torn by a crash reads as garbage.
GetPosEntry(leafIndex) ==
  LET start == leafIndex * PosLength
      bytes == P!Read(start, PosLength)
  IN  IF /\ start + PosLength <= P!GetSize
         /\ P!ReadDefined(start, PosLength)
         /\ bytes = PosBytes(bytes[1][2], bytes[1][3])
        THEN <<bytes[1][2], bytes[1][3]>> ELSE GarbageData

GetNumLeaves == P!GetSize \div PosLength
GetNumNodes == NumNodes(GetNumLeaves)

\* The hashes by position.
Hashes == [position \in 0..GetNumNodes - 1 |-> GetHash(position)]

\* FileBackend::GetLeaf: Read throws when the range is past the end.
GetLeaf(leafIndex) ==
  LET entry == GetPosEntry(leafIndex)
  IN  IF entry = GarbageData \/ entry[1] + entry[2] > D!GetSize
             \/ ~D!ReadDefined(entry[1], entry[2])
        THEN GarbageData ELSE D!Read(entry[1], entry[2])

-----------------------------------------------------------------------------
\* MMR::Add and FileBackend::AddLeaf: the position entry, the data, the leaf's
\* hash and the hashes of the parents it completes.
Add(bytes) ==
  /\ Ready
  /\ GetNumLeaves < MaxLeaves
  /\ P!AppendBytes(PosBytes(D!GetSize, Len(bytes)))
  /\ D!AppendBytes(bytes)
  /\ H!AppendBytes(AllHashBytes(AddedHashes(Hashes, LeafIndexAt(GetNumLeaves), bytes)))
  /\ IF state = "clean" THEN leaves' = Append(leaves, bytes) /\ UNCHANGED state
                        ELSE leaves' = <<>> /\ state' = "extended"
  /\ UNCHANGED <<committing, crashes, saved>>

\* Mutant of Rollback: the position file is left out.
RollbackKeepsPositions ==
  /\ Ready
  /\ H!Rollback /\ D!Rollback
  /\ leaves' = IF state = "clean" THEN <<>> ELSE leaves
  /\ UNCHANGED <<pos, committing, crashes, saved, state>>

Rollback ==
  /\ Ready
  /\ H!Rollback /\ D!Rollback /\ P!Rollback
  /\ leaves' = IF state = "clean" THEN <<>> ELSE leaves
  /\ UNCHANGED <<committing, crashes, saved, state>>

\* Mutant of Commit: the hash file is left out.
CommitWithoutHashes ==
  /\ Ready
  /\ committing' = "data"
  /\ UNCHANGED <<hash, data, pos, faulty, crashes, history>>

\* Commit: the hash file, then the data file, then the position file.
Commit ==
  /\ Ready
  /\ committing' = "hash"
  /\ UNCHANGED <<hash, data, pos, faulty, crashes, history>>

CommitHash ==
  /\ committing = "hash"
  /\ \/ (H!CommitBegin \/ H!CommitWrite \/ H!CommitTruncate) /\ UNCHANGED committing
     \/ H!CommitRefresh /\ committing' = "data"
     \/ hIndex = hSize /\ hBuffer = <<>> /\ committing' = "data" /\ UNCHANGED <<hash, faulty>>
  /\ UNCHANGED <<data, pos, crashes, history>>

CommitData ==
  /\ committing = "data"
  /\ \/ (D!CommitBegin \/ D!CommitWrite \/ D!CommitTruncate) /\ UNCHANGED committing
     \/ D!CommitRefresh /\ committing' = "pos"
     \/ dIndex = dSize /\ dBuffer = <<>> /\ committing' = "pos" /\ UNCHANGED <<data, faulty>>
  /\ UNCHANGED <<hash, pos, crashes, history>>

CommitPos ==
  /\ committing = "pos"
  /\ \/ /\ P!CommitBegin \/ P!CommitWrite \/ P!CommitTruncate
        /\ UNCHANGED <<committing, leaves, saved>>
     \/ /\ P!CommitRefresh \/ (pIndex = pSize /\ pBuffer = <<>> /\ UNCHANGED <<pos, faulty>>)
        /\ committing' = "none"
        /\ IF state = "clean" THEN saved' = saved \o leaves /\ leaves' = <<>>
                              ELSE UNCHANGED <<saved, leaves>>
  /\ UNCHANGED <<hash, data, crashes, state>>

Crash ==
  /\ Open /\ crashes < MaxCrashes
  /\ H!Crash /\ D!Crash /\ P!Crash
  /\ crashes' = crashes + 1
  /\ state' = IF state = "clean" /\ committing # "none" THEN "torn" ELSE state
  /\ leaves' = IF state' = "clean" THEN <<>> ELSE leaves
  /\ committing' = "none"
  /\ UNCHANGED saved

\* FileBackend::Open
Reopen ==
  /\ ~Open
  /\ H!Load /\ D!Load /\ P!Load
  /\ UNCHANGED <<committing, crashes, history>>

Next ==
  \/ \E bytes \in Data : Add(bytes)
  \/ Rollback
  \/ Commit \/ CommitHash \/ CommitData \/ CommitPos
  \/ Crash \/ Reopen

Spec == Init /\ [][Next]_vars

(***************************************************************************)
(* MMR::Rewind and FileBackend::Rewind.  The files are rewound to          *)
(* positions in bytes, but the leaf index and the node position are passed *)
(* for the position file and the hash file.  Kept apart from Next: after   *)
(* it the reads of these files are not aligned with what was written.      *)
(***************************************************************************)
Rewind(numNodes) ==
  LET leafIndex == CalculateLeafIndex(numNodes)
      entry == GetPosEntry(leafIndex - 1)
  IN  /\ Ready
      /\ numNodes \in 1..GetNumNodes /\ IsLeaf(IndexAt(numNodes))
      /\ P!Rewind(leafIndex)
      /\ D!Rewind(entry[1] + entry[2])
      /\ H!Rewind(numNodes)
      /\ UNCHANGED <<committing, crashes, history>>

RewindSpec == Init /\ [][Next \/ \E numNodes \in 1..GetNumNodes : Rewind(numNodes)]_vars

-----------------------------------------------------------------------------
(* Properties *)

\* The leaves as the backend returns them.
StoredLeaves == [i \in 1..GetNumLeaves |-> GetLeaf(i - 1)]

\* As long as no commit was interrupted, the backend holds the committed leaves
\* and those of the batch, in order, whichever side of the map and the buffer
\* their bytes are on, and its root is theirs.
ViewIsLeaves ==
  Ready /\ state = "clean" =>
    /\ StoredLeaves = saved \o leaves
    /\ Root(Hashes, GetNumNodes) = RefRoot(saved \o leaves)

\* The commits that completed before any was interrupted are never undone: whatever
\* crashes interrupt later ones, and whatever is added and committed afterwards, the
\* leaves they saved and the hashes over them are still read back.  Nothing is claimed
\* of commits to a store that a crash has torn, whose hashes are out of step.
CommittedSurvive ==
  Ready =>
    /\ GetNumLeaves >= Len(saved)
    /\ SubSeq(StoredLeaves, 1, Len(saved)) = saved
    /\ Root(Hashes, NumNodes(Len(saved))) = RefRoot(saved)

\* The order in which the files are committed leaves no position entry without
\* its data, nor a leaf without its hashes: after a crash in the middle of a
\* commit the backend opens with a prefix of the batch, complete with its root.
TornCommitIsPrefix ==
  Ready /\ state = "torn" =>
    /\ IsPrefix(saved, StoredLeaves) /\ IsPrefix(StoredLeaves, saved \o leaves)
    /\ Root(Hashes, GetNumNodes) = RefRoot(StoredLeaves)

\* Rewinding to numNodes leaves a range of numNodes nodes.
RewindKeepsNodes ==
  [][\A numNodes \in 1..GetNumNodes : Rewind(numNodes) => GetNumNodes' = numNodes]_vars

=============================================================================
