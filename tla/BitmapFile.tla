----------------------------- MODULE BitmapFile -----------------------------
(***************************************************************************)
(* BitmapFile (include/mw/core/file/BitmapFile.h): a file of bits, a read- *)
(* only memory map of it, and the bytes modified since the last Commit.    *)
(* Commit writes those bytes one by one, in place; the process may crash   *)
(* between any two of them.  A byte is the set of its bits that are 1,     *)
(* numbered from the left.                                                 *)
(***************************************************************************)
EXTENDS Integers, Sequences, FiniteSets, FiniteSetsExt

CONSTANTS Width,    \* the bits of a byte: 8 in the code
          NumBytes, \* bound: the bytes of the bitmap
          MayCrash

ASSUME BitmapFileAssumption ==
  Width \in Nat \ {0} /\ NumBytes \in Nat /\ MayCrash \in BOOLEAN

VARIABLES
  disk,      \* the bytes of the file
  modified,  \* m_modifiedBytes: a function on the indices it has
  mapped,    \* m_memmap.m_mapped
  phase,     \* how far Commit is; "closed" when no process has the file open
  written    \* the indices Commit has written so far

vars == <<disk, modified, mapped, phase, written>>

Byte == SUBSET (0..Width - 1)
Positions == 0..Width * NumBytes - 1
NoChanges == [i \in {} |-> {}]

Init ==
  /\ disk = <<>> /\ modified = NoChanges
  /\ mapped = FALSE /\ phase = "idle" /\ written = {}

-----------------------------------------------------------------------------
\* The byte with the given bit set, counted from the left.
BitToByte(bit) == {bit}

HasBit(byte, bit) == bit \in byte

\* Mutant of GetByte: the modified bytes are not looked at.
GetByteOfMap(index) == IF mapped /\ index < Len(disk) THEN disk[index + 1] ELSE {}

\* The map has the size of the file, 0 when it is not mapped.
GetByte(index) ==
  CASE index \in DOMAIN modified -> modified[index]
    [] index \notin DOMAIN modified /\ mapped /\ index < Len(disk) -> disk[index + 1]
    [] OTHER -> {}

IsSet(position) == GetByte(position \div Width) \cap BitToByte(position % Width) # {}

\* MemMap::Map, which only maps a file that is not empty, and Unmap.
Map == mapped' = (disk # <<>>)
Unmap == mapped' = FALSE

\* m_modifiedBytes[index] = byte
Modify(index, byte) ==
  modified' = [i \in DOMAIN modified \cup {index} |-> IF i = index THEN byte ELSE modified[i]]

\* Mutant of Set: the byte is assigned and not or-ed.
SetAssigns(position) ==
  /\ phase = "idle"
  /\ Modify(position \div Width, BitToByte(position % Width))
  /\ UNCHANGED <<disk, mapped, phase, written>>

Set(position) ==
  /\ phase = "idle"
  /\ LET byte == GetByte(position \div Width)
     IN  Modify(position \div Width, byte \cup BitToByte(position % Width))
  /\ UNCHANGED <<disk, mapped, phase, written>>

Unset(position) ==
  /\ phase = "idle"
  /\ LET byte == GetByte(position \div Width)
     IN  Modify(position \div Width, byte \ BitToByte(position % Width))
  /\ UNCHANGED <<disk, mapped, phase, written>>

Rollback ==
  /\ phase = "idle"
  /\ modified' = NoChanges
  /\ UNCHANGED <<disk, mapped, phase, written>>

-----------------------------------------------------------------------------
(* Commit *)

CommitBegin ==
  /\ phase = "idle"
  /\ DOMAIN modified # {}
  /\ Unmap
  /\ phase' = "write" /\ written' = {}
  /\ UNCHANGED <<disk, modified>>

\* File::WriteBytes: the next byte, in the order of the indices; a byte past the
\* end of the file extends it with zeros up to there.
WriteByte ==
  /\ phase = "write"
  /\ DOMAIN modified \ written # {}
  /\ LET index == Min(DOMAIN modified \ written)
     IN  /\ disk' = [i \in 1..Max({Len(disk), index + 1}) |->
                       CASE i = index + 1 -> modified[index]
                         [] i # index + 1 /\ i <= Len(disk) -> disk[i]
                         [] OTHER -> {}]
         /\ written' = written \cup {index}
  /\ UNCHANGED <<modified, mapped, phase>>

\* Mutant of CommitEnd: without waiting for all bytes.
CommitEndEarly ==
  /\ phase = "write"
  /\ modified' = NoChanges
  /\ Map
  /\ phase' = "idle" /\ written' = {}
  /\ UNCHANGED disk

CommitEnd ==
  /\ phase = "write"
  /\ written = DOMAIN modified
  /\ modified' = NoChanges
  /\ Map
  /\ phase' = "idle" /\ written' = {}
  /\ UNCHANGED disk

-----------------------------------------------------------------------------
Crash ==
  /\ MayCrash
  /\ phase # "closed"
  /\ phase' = "closed"
  /\ modified' = NoChanges /\ mapped' = FALSE /\ written' = {}
  /\ UNCHANGED disk

Load ==
  /\ phase = "closed"
  /\ phase' = "idle"
  /\ Map
  /\ UNCHANGED <<disk, modified, written>>

Next ==
  \/ \E position \in Positions : Set(position) \/ Unset(position)
  \/ Rollback
  \/ CommitBegin \/ WriteByte \/ CommitEnd
  \/ Crash \/ Load

Spec == Init /\ [][Next]_vars

-----------------------------------------------------------------------------
(* Properties *)

\* Every part of the state has its type; only bytes of the bitmap are modified.
TypeOK ==
  /\ disk \in Seq(Byte) /\ Len(disk) <= NumBytes
  /\ DOMAIN modified \subseteq 0..NumBytes - 1
  /\ \A i \in DOMAIN modified : modified[i] \in Byte
  /\ mapped \in BOOLEAN
  /\ phase \in {"idle", "write", "closed"}
  /\ written \subseteq DOMAIN modified

\* The bits of the file.
Saved ==
  {p \in Positions : /\ p \div Width < Len(disk)
                     /\ HasBit(disk[p \div Width + 1], p % Width)}

\* The bits the user sees; while the file is unmapped for a Commit, the ones the
\* Commit leaves.
Bits ==
  {p \in Positions :
    IF p \div Width \in DOMAIN modified
      THEN HasBit(modified[p \div Width], p % Width)
      ELSE p \in Saved}

\* While a user can ask, IsSet tells the bits the user has set and not unset.
IsSetTellsBits == phase = "idle" => \A p \in Positions : IsSet(p) <=> p \in Bits

\* Outside a Commit an open file is mapped unless it is empty.
MapFollowsFile == phase = "idle" => (mapped <=> disk # <<>>)

\* Commit is at a place where it has batched bytes to write, and those it has written
\* are in the file; nothing is batched in a file that is not open.
CommitProgress ==
  /\ phase = "write" =>
       /\ DOMAIN modified # {}
       /\ \A i \in written : i < Len(disk) /\ disk[i + 1] = modified[i]
  /\ phase # "write" => written = {}
  /\ phase = "closed" => modified = NoChanges

\* The bitmap's types, the map and the batch in step with Commit, and IsSet telling
\* the bits.
BitmapInv == TypeOK /\ MapFollowsFile /\ CommitProgress /\ IsSetTellsBits

BitSet == INSTANCE BatchedBits WITH
  All <- Positions, bits <- Bits, saved <- Saved, up <- phase # "closed"

\* A bitmap file is a batched set of bits: Set and Unset change one bit and none
\* of its neighbours in the byte, Commit moves bits from the batch to the file
\* and never beyond what the batch holds, Rollback and a crash return to the file.
ImplementsBits == BitSet!BitsSpec

\* A Commit that returns has saved every bit of the batch and only those.
CommitSavesBits == [][CommitEnd => Saved = Bits /\ Bits' = Bits]_vars

=============================================================================
