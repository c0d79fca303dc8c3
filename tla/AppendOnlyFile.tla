--------------------------- MODULE AppendOnlyFile ---------------------------
(***************************************************************************)
(* AppendOnlyFile (include/mw/core/file/AppendOnlyFile.h): a file, a read- *)
(* only memory map of it and a buffer of the changes of the current batch. *)
(* The first m_bufferIndex bytes of the file followed by m_buffer are what *)
(* its user sees.  Commit runs as the code does: unmap, File::Write,       *)
(* Truncate, then refresh the fields and map again; the process may crash  *)
(* between any two of these, and the calls to the system that FailAt names *)
(* may fail.                                                               *)
(* Positions count from 0 in the code, sequences from 1 here.              *)
(***************************************************************************)
EXTENDS Naturals, Sequences

CONSTANTS Bytes,       \* the bytes written
          Zero,        \* what a file is filled with when it is extended
          MaxLen,      \* bound: the size seen by the user
          MaxDisk,     \* bound: the size on disk
          MayCrash,    \* whether the process may crash
          FailAt       \* the calls to the file system that may fail

ASSUME AppendOnlyFileAssumption ==
  /\ Zero \in Bytes
  /\ MaxLen \in Nat /\ MaxDisk \in Nat
  /\ MayCrash \in BOOLEAN /\ FailAt \subseteq {"write", "disk full", "truncate", "refresh", "map"}

VARIABLES
  disk,         \* the file's contents
  fileSize,     \* m_fileSize
  bufferIndex,  \* m_bufferIndex
  buffer,       \* m_buffer
  mapped,       \* m_mmap.m_mapped
  phase,        \* how far Commit is; "closed" when no process has it open
  faulty        \* history: a call to the file system has failed

vars == <<disk, fileSize, bufferIndex, buffer, mapped, phase, faulty>>
batch == <<bufferIndex, buffer>>

Init ==
  /\ disk = <<>> /\ fileSize = 0
  /\ bufferIndex = 0 /\ buffer = <<>>
  /\ mapped = FALSE
  /\ phase = "idle" /\ faulty = FALSE

GetSize == bufferIndex + Len(buffer)

\* What the user sees while no Commit is running.
View == SubSeq(disk, 1, bufferIndex) \o buffer

\* MemMap::Map, which only maps a file that is not empty, and Unmap.
Map == mapped' = (disk # <<>>)
Unmap == mapped' = FALSE

Chunks == {<<b>> : b \in Bytes} \cup {<<b, c>> : b, c \in Bytes}

-----------------------------------------------------------------------------
\* AppendOnlyFile::Append
AppendBytes(bytes) ==
  /\ phase = "idle"
  /\ GetSize + Len(bytes) <= MaxLen
  /\ buffer' = buffer \o bytes
  /\ UNCHANGED <<disk, fileSize, bufferIndex, mapped, phase, faulty>>

\* Throws, changing nothing, when position is past the end.
Rewind(position) ==
  /\ phase = "idle"
  /\ position <= GetSize
  /\ IF position <= bufferIndex
       THEN buffer' = <<>> /\ bufferIndex' = position
       ELSE buffer' = SubSeq(buffer, 1, position - bufferIndex) /\ UNCHANGED bufferIndex
  /\ UNCHANGED <<disk, fileSize, mapped, phase, faulty>>

\* Mutant of Rollback: the buffer is not cleared.
RollbackKeepsBuffer ==
  /\ phase = "idle"
  /\ bufferIndex' = fileSize
  /\ UNCHANGED <<disk, fileSize, buffer, mapped, phase, faulty>>

Rollback ==
  /\ phase = "idle"
  /\ bufferIndex' = fileSize /\ buffer' = <<>>
  /\ UNCHANGED <<disk, fileSize, mapped, phase, faulty>>

-----------------------------------------------------------------------------
(* Commit *)

\* Up to m_mmap.Unmap().  It returns when there is nothing to do and throws
\* when the buffer starts past the end.
CommitBegin ==
  /\ phase = "idle"
  /\ ~(fileSize = bufferIndex /\ buffer = <<>>)
  /\ fileSize >= bufferIndex
  /\ Unmap
  /\ phase' = "write"
  /\ UNCHANGED <<disk, fileSize, batch, faulty>>

\* The bytes n of the buffer that reach the file: all of them, or fewer when
\* the disk is full, which the stream notices and nobody asks.
Written(n) == disk \o SubSeq(buffer, 1, n)

\* File::Write opens the stream with ios::app, so that the bytes go to the
\* end of the file whatever seekp() asked for.
CommitWrite ==
  /\ phase = "write"
  /\ Len(disk) + Len(buffer) <= MaxDisk
  /\ \E n \in 0..Len(buffer) :
       /\ n # Len(buffer) => "disk full" \in FailAt
       /\ disk' = Written(n)
       /\ faulty' = (faulty \/ n # Len(buffer))
  /\ phase' = "truncate"
  /\ UNCHANGED <<fileSize, batch, mapped>>

\* truncate() and SetEndOfFile() cut the file, or extend it with zeros.
Resize(s, n) == [i \in 1..n |-> IF i <= Len(s) THEN s[i] ELSE Zero]

\* Mutant of CommitTruncate: the size of the buffer, not of buffer and prefix.
CommitTruncateToBuffer ==
  /\ phase = "truncate"
  /\ disk' = Resize(disk, Len(buffer))
  /\ phase' = "refresh"
  /\ UNCHANGED <<fileSize, batch, mapped, faulty>>

CommitTruncate ==
  /\ phase = "truncate"
  /\ disk' = Resize(disk, bufferIndex + Len(buffer))
  /\ phase' = "refresh"
  /\ UNCHANGED <<fileSize, batch, mapped, faulty>>

\* Mutant of CommitFails: m_fileSize is advanced before the calls that may fail.
CommitFailsAdvanced ==
  /\ phase \in FailAt
  /\ phase' = "idle" /\ faulty' = TRUE
  /\ fileSize' = GetSize
  /\ UNCHANGED <<disk, batch, mapped>>

\* An exception from File::Write, Truncate or GetSize ("refresh"), if FailAt has it,
\* leaves Commit with the file unmapped.
CommitFails ==
  /\ phase \in FailAt
  /\ phase' = "idle" /\ faulty' = TRUE
  /\ UNCHANGED <<disk, fileSize, batch, mapped>>

\* Mutant of CommitRefresh: m_fileSize is not read again.
CommitRefreshStale ==
  /\ phase = "refresh"
  /\ bufferIndex' = Len(disk) /\ buffer' = <<>>
  /\ Map
  /\ phase' = "idle"
  /\ UNCHANGED <<disk, fileSize, faulty>>

\* Map throws when it cannot map the file.
CommitRefresh ==
  /\ phase = "refresh"
  /\ fileSize' = Len(disk) /\ bufferIndex' = Len(disk) /\ buffer' = <<>>
  /\ \/ Map /\ UNCHANGED faulty
     \/ "map" \in FailAt /\ disk # <<>> /\ mapped' = FALSE /\ faulty' = TRUE
  /\ phase' = "idle"
  /\ UNCHANGED disk

-----------------------------------------------------------------------------
\* The process dies; part of a write that was under way may be on disk.
Crash ==
  /\ MayCrash
  /\ phase # "closed"
  /\ \/ UNCHANGED disk
     \/ /\ phase = "write" /\ Len(disk) + Len(buffer) <= MaxDisk
        /\ \E n \in 0..Len(buffer) : disk' = Written(n)
  /\ fileSize' = 0 /\ bufferIndex' = 0 /\ buffer' = <<>> /\ mapped' = FALSE
  /\ phase' = "closed"
  /\ UNCHANGED faulty

\* Mutant of Load: m_bufferIndex stays 0.
LoadAtStart ==
  /\ phase = "closed"
  /\ fileSize' = Len(disk) /\ bufferIndex' = 0 /\ buffer' = <<>>
  /\ Map
  /\ phase' = "idle"
  /\ UNCHANGED <<disk, faulty>>

Load ==
  /\ phase = "closed"
  /\ fileSize' = Len(disk) /\ bufferIndex' = Len(disk) /\ buffer' = <<>>
  /\ Map
  /\ phase' = "idle"
  /\ UNCHANGED <<disk, faulty>>

Next ==
  \/ \E bytes \in Chunks : AppendBytes(bytes)
  \/ \E position \in 0..MaxLen : Rewind(position)
  \/ Rollback
  \/ CommitBegin \/ CommitWrite \/ CommitTruncate \/ CommitFails \/ CommitRefresh
  \/ Crash \/ Load

Spec == Init /\ [][Next]_vars

-----------------------------------------------------------------------------
(***************************************************************************)
(* Read: from the map when the position is before the buffer, else from    *)
(* the buffer.  What it returns is undefined when the file is not mapped   *)
(* or the range leaves the map, and nothing is claimed of that case.       *)
(***************************************************************************)
ReadDefined(position, numBytes) ==
  position < bufferIndex => mapped /\ position + numBytes <= fileSize

\* Mutant of Read: the buffer is taken to follow the whole file.
ReadBehindFile(position, numBytes) == SubSeq(disk \o buffer, position + 1, position + numBytes)

Read(position, numBytes) ==
  IF position < bufferIndex
    THEN SubSeq(disk, position + 1, position + numBytes)
    ELSE SubSeq(buffer, position - bufferIndex + 1, position - bufferIndex + numBytes)

-----------------------------------------------------------------------------
(* Properties *)

\* The file and the buffer hold bytes, and Commit is at one of its steps.
TypeOK ==
  /\ disk \in Seq(Bytes) /\ buffer \in Seq(Bytes)
  /\ fileSize \in Nat /\ bufferIndex \in Nat
  /\ mapped \in BOOLEAN /\ faulty \in BOOLEAN
  /\ phase \in {"idle", "write", "truncate", "refresh", "closed"}

\* The exception "Buffer index is past the end" is never thrown, and m_fileSize
\* never promises bytes the file does not have: whatever the sequence of appends,
\* rewinds, rollbacks, commits, crashes and failures of any call but Commit's GetSize.
IndexInFile ==
  /\ bufferIndex <= fileSize
  /\ IF phase = "refresh" THEN bufferIndex <= Len(disk) ELSE fileSize <= Len(disk)

\* How far Commit is.  As long as no call has failed, m_fileSize is the size of
\* the file until File::Write appends the buffer to it, and the file is mapped
\* again before anybody reads it.  Truncate leaves a file of the size the user sees.
CommitProgress ==
  /\ phase = "refresh" => Len(disk) = GetSize
  /\ ~faulty =>
       /\ phase \in {"idle", "write"} => fileSize = Len(disk)
       /\ phase = "idle" => (mapped <=> disk # <<>>)
       /\ phase = "truncate" => disk = SubSeq(disk, 1, fileSize) \o buffer

\* The file's types, with its indices in order after any appends, rewinds, rollbacks,
\* commits, crashes and failures (of any call but the GetSize in Commit, after which
\* m_fileSize is stale), and the file in step with Commit.
FileInv == TypeOK /\ IndexInFile /\ CommitProgress

\* Bytes the user has not rewound are never lost or altered: not by a commit
\* that writes over the rest, nor by one that fails half way (in any call but GetSize) or
\* is cut short by a crash.
KeptBytesSurvive ==
  [][phase # "closed" =>
       /\ Len(disk') >= bufferIndex
       /\ \A i \in 1..bufferIndex : disk'[i] = disk[i]]_vars

\* A range that lies on one side of m_bufferIndex is read as the user wrote it,
\* from the map or from the buffer, as long as no call has failed.
ReadsView ==
  phase = "idle" /\ ~faulty =>
    \A position \in 0..GetSize : \A numBytes \in 0..(GetSize - position) :
      position >= bufferIndex \/ position + numBytes <= bufferIndex =>
        /\ ReadDefined(position, numBytes)
        /\ Read(position, numBytes) = SubSeq(View, position + 1, position + numBytes)

(***************************************************************************)
(* The refinement of BatchedLog.  The durable bytes change when Truncate   *)
(* has cut the file: until then the old ones are its first m_fileSize.     *)
(***************************************************************************)
Log == INSTANCE BatchedLog WITH
  durable <- IF phase \in {"refresh", "closed"} THEN disk ELSE SubSeq(disk, 1, fileSize),
  kept <- IF phase = "refresh" THEN Len(disk) ELSE bufferIndex,
  tail <- IF phase = "refresh" THEN <<>> ELSE buffer,
  up <- phase # "closed"

\* AppendOnlyFile is a batched log: commits are atomic but for crashes, a crash
\* loses at most the batch, and a reopened file holds what was committed.  Once
\* a call to the file system has failed, only the length of what is committed
\* and the bytes that were kept are promised.
ImplementsLog == Log!LogSpec

=============================================================================
