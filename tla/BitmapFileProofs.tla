-------------------------- MODULE BitmapFileProofs --------------------------
(***************************************************************************)
(* Theorems about BitmapFile, for bytes of any width and bitmaps of any    *)
(* size: its invariant, what a Commit saves, and that it implements        *)
(* BatchedBits.                                                            *)
(***************************************************************************)
EXTENDS BitmapFile, WellFoundedInduction, TLAPS

-----------------------------------------------------------------------------
(* Positions and indices *)

\* The constants are natural numbers, and a byte has bits.
LEMMA Sizes == Width \in Nat /\ Width > 0 /\ NumBytes \in Nat
  BY BitmapFileAssumption

\* A number is determined by its quotient and its remainder.
LEMMA DivMod ==
  ASSUME NEW p \in Nat
  PROVE  /\ p \div Width \in Nat
         /\ p % Width \in 0..Width - 1
         /\ p = Width * (p \div Width) + (p % Width)
  BY Sizes

\* A position lies in a byte of the bitmap, at a bit of the byte.
LEMMA PositionParts ==
  ASSUME NEW p \in Positions
  PROVE  p \div Width \in 0..NumBytes - 1 /\ p % Width \in 0..Width - 1
<1>1. p \in Nat /\ p < Width * NumBytes
  BY Sizes DEF Positions
<1>2. Width * (p \div Width) <= p
  BY <1>1, DivMod, Sizes
<1>. DEFINE q == p \div Width
<1>3. q \in Nat
  BY <1>1, DivMod
<1>4. Width * q < Width * NumBytes
  BY <1>1, <1>2, <1>3, Sizes
<1>5. q < NumBytes
  <2>. HIDE DEF q
  <2>. QED  BY <1>3, <1>4, Sizes, Z3
<1>. QED  BY <1>1, <1>3, <1>5, DivMod, Sizes

\* Two positions in the same byte and at the same bit are one.
LEMMA SamePosition ==
  ASSUME NEW p \in Positions, NEW q \in Positions,
         p \div Width = q \div Width, p % Width = q % Width
  PROVE  p = q
<1>1. p \in Nat /\ q \in Nat
  BY Sizes DEF Positions
<1>. QED  BY <1>1, DivMod, Zenon

\* Every set of indices that is not empty has a least element, and Min is it.
LEMMA MinIsLeast ==
  ASSUME NEW S, S \subseteq Nat, S # {}
  PROVE  Min(S) \in S /\ \A y \in S : Min(S) <= y
<1>. DEFINE R == {ss \in Nat \X Nat : ss[1] < ss[2]}
<1>1. OpToRel(<, Nat) = R
  BY Zenon DEF OpToRel
<1>2. PICK x \in S : \A y \in S : ~ (<<y, x>> \in R)
  <2>1. IsWellFoundedOn(R, Nat)
    BY <1>1, NatLessThanWellFounded, Zenon
  <2>. HIDE DEF R
  <2>. QED  BY <2>1, WFMin, Zenon
<1>3. \A y \in S : x <= y
  <2>1. \A y \in S : y < x => <<y, x>> \in R
    BY SMT
  <2>2. \A y \in S : ~ (y < x)
    BY <1>2, <2>1, Zenon
  <2>. QED  BY <2>2
<1>. QED  BY <1>3, Zenon DEF Min

-----------------------------------------------------------------------------
(* What the steps do to the bytes *)

\* What is modified after m_modifiedBytes[index] = byte.
LEMMA ModifyEffect ==
  ASSUME NEW index, NEW byte, Modify(index, byte)
  PROVE  /\ DOMAIN modified' = DOMAIN modified \cup {index}
         /\ modified'[index] = byte
         /\ \A i \in DOMAIN modified : i # index => modified'[i] = modified[i]
  BY DEF Modify

\* A byte that is read is a byte.
LEMMA GetByteType ==
  ASSUME TypeOK, NEW index \in Nat
  PROVE  GetByte(index) \in Byte
<1>1. CASE index \in DOMAIN modified
  BY <1>1, Zenon DEF GetByte, TypeOK
<1>2. CASE index \notin DOMAIN modified /\ mapped /\ index < Len(disk)
  <2>1. GetByte(index) = disk[index + 1]
    BY <1>2, Zenon DEF GetByte
  <2>2. disk \in Seq(Byte) /\ index < Len(disk)
    BY <1>2, Zenon DEF TypeOK
  <2>. QED  BY <2>1, <2>2
<1>3. CASE index \notin DOMAIN modified /\ ~ (mapped /\ index < Len(disk))
  <2>1. GetByte(index) = {}
    BY <1>3, Zenon DEF GetByte
  <2>. QED  BY <2>1, Zenon DEF Byte
<1>. QED  BY <1>1, <1>2, <1>3, Zenon

\* WriteByte puts one batched byte into the file, and zeros between the old end of the
\* file and a byte beyond it; the other bytes stay.
LEMMA WriteByteEffect ==
  ASSUME TypeOK, WriteByte
  PROVE  \E index \in DOMAIN modified \ written :
           /\ index \in 0..NumBytes - 1
           /\ written' = written \cup {index}
           /\ disk' \in Seq(Byte)
           /\ Len(disk) <= Len(disk') /\ Len(disk') <= NumBytes /\ index < Len(disk')
           /\ disk'[index + 1] = modified[index]
           /\ \A i \in 1..Len(disk) : i # index + 1 => disk'[i] = disk[i]
           /\ \A i \in 1..Len(disk') : i # index + 1 /\ i > Len(disk) => disk'[i] = {}
<1>. DEFINE index == Min(DOMAIN modified \ written)
            length == Max({Len(disk), index + 1})
<1>1. /\ DOMAIN modified \subseteq 0..NumBytes - 1
      /\ DOMAIN modified \ written # {}
      /\ disk \in Seq(Byte) /\ Len(disk) <= NumBytes
      /\ \A i \in DOMAIN modified : modified[i] \in Byte
      /\ written' = written \cup {index}
      /\ disk' = [i \in 1..length |->
                    CASE i = index + 1 -> modified[index]
                      [] i # index + 1 /\ i <= Len(disk) -> disk[i]
                      [] OTHER -> {}]
  BY Zenon DEF TypeOK, WriteByte
<1>2. DOMAIN modified \ written \subseteq Nat
  BY <1>1, Sizes
<1>3. index \in DOMAIN modified \ written
  BY <1>1, <1>2, MinIsLeast, Zenon
<1>4. index \in 0..NumBytes - 1
  BY <1>1, <1>3, Zenon
<1>. HIDE DEF index
<1>5. length \in Nat /\ length >= Len(disk) /\ length > index /\ length <= NumBytes
  <2>1. Len(disk) \in Nat /\ index + 1 \in Nat /\ Len(disk) <= NumBytes /\ index + 1 <= NumBytes
    BY <1>1, <1>4, Sizes
  <2>2. \E x \in {Len(disk), index + 1} : \A y \in {Len(disk), index + 1} : x >= y
    BY <2>1
  <2>3. length \in {Len(disk), index + 1} /\ \A y \in {Len(disk), index + 1} : length >= y
    BY <2>2, Zenon DEF Max
  <2>4. length >= Len(disk) /\ length >= index + 1 /\ (length = Len(disk) \/ length = index + 1)
    BY <2>3, Zenon
  <2>. HIDE DEF length
  <2>. QED  BY <2>1, <2>4, <1>4, Sizes
<1>. HIDE DEF length
<1>6. \A i \in 1..length : disk'[i] \in Byte
  <2>1. modified[index] \in Byte /\ {} \in Byte
    BY <1>1, <1>3, Zenon DEF Byte
  <2>2. \A i \in 1..length : i <= Len(disk) => disk[i] \in Byte
    BY <1>1, <1>5
  <2>. QED  BY <1>1, <2>1, <2>2
<1>7. disk' \in Seq(Byte) /\ Len(disk') = length
  <2>1. disk' \in [1..length -> Byte]
    BY <1>1, <1>6, Zenon
  <2>. QED  BY <2>1, <1>5
<1>8. disk'[index + 1] = modified[index]
  BY <1>1, <1>4, <1>5, Sizes
<1>9. \A i \in 1..Len(disk) : i # index + 1 => disk'[i] = disk[i]
  BY <1>1, <1>4, <1>5, Sizes
<1>10. \A i \in 1..length : i # index + 1 /\ i > Len(disk) => disk'[i] = {}
  BY <1>1, <1>4, <1>5, Sizes
<1>. QED
  BY <1>1, <1>3, <1>4, <1>5, <1>7, <1>8, <1>9, <1>10, Zenon

-----------------------------------------------------------------------------
(* The invariant *)

\* What the steps preserve; IsSetTellsBits follows from it.
Steady == TypeOK /\ MapFollowsFile /\ CommitProgress

\* A byte that is read has the bits the user sees.
LEMMA GetByteTells ==
  ASSUME TypeOK, MapFollowsFile, phase = "idle", NEW p \in Positions
  PROVE  p % Width \in GetByte(p \div Width) <=> p \in Bits
<1>. DEFINE i == p \div Width
<1>1. i \in Nat /\ disk \in Seq(Byte)
  BY PositionParts, Sizes DEF TypeOK
<1>. HIDE DEF i
<1>2. CASE i \in DOMAIN modified
  BY <1>2, Zenon DEF GetByte, Bits, HasBit, i
<1>3. CASE i \notin DOMAIN modified /\ i < Len(disk)
  <2>1. disk # <<>>
    BY <1>1, <1>3
  <2>2. mapped
    BY <2>1, Zenon DEF MapFollowsFile
  <2>. QED  BY <1>3, <2>2, Zenon DEF GetByte, Bits, Saved, HasBit, i
<1>4. CASE i \notin DOMAIN modified /\ ~ (i < Len(disk))
  BY <1>4, Zenon DEF GetByte, Bits, Saved, HasBit, i
<1>. QED  BY <1>2, <1>3, <1>4, Zenon

\* A file just created is empty, not mapped, and has no batch.
LEMMA InitSteady == Init => Steady
<1>. SUFFICES ASSUME Init PROVE Steady
  OBVIOUS
<1>1. disk \in Seq(Byte) /\ Len(disk) <= NumBytes
  BY Sizes DEF Init
<1>2. DOMAIN modified = {}
  BY DEF Init, NoChanges
<1>. QED
  BY <1>1, <1>2, Zenon DEF Init, Steady, TypeOK, MapFollowsFile, CommitProgress

\* Set and Unset put a byte into the batch, and change nothing else.
LEMMA BatchedSteady ==
  ASSUME Steady, phase = "idle", NEW p \in Positions, NEW byte \in Byte,
         Modify(p \div Width, byte), UNCHANGED <<disk, mapped, phase, written>>
  PROVE  Steady'
<1>1. DOMAIN modified' = DOMAIN modified \cup {p \div Width}
      /\ \A i \in DOMAIN modified' : modified'[i] = byte \/ (i \in DOMAIN modified /\ modified'[i] = modified[i])
  BY ModifyEffect, Zenon
<1>2. p \div Width \in 0..NumBytes - 1
  BY PositionParts
<1>3. written = {}
  BY Zenon DEF Steady, CommitProgress
<1>4. TypeOK'
  BY <1>1, <1>2, <1>3, Zenon DEF Steady, TypeOK, Byte
<1>. QED
  BY <1>3, <1>4, Zenon DEF Steady, MapFollowsFile, CommitProgress

\* Every step preserves it.
LEMMA StepSteady ==
  ASSUME Steady, [Next]_vars
  PROVE  Steady'
<1>1. ASSUME NEW p \in Positions, Set(p) \/ Unset(p)
      PROVE  Steady'
  <2>1. p \div Width \in Nat /\ p % Width \in 0..Width - 1
    BY PositionParts
  <2>2. GetByte(p \div Width) \in Byte
    BY <2>1, GetByteType, Zenon DEF Steady
  <2>3. /\ GetByte(p \div Width) \cup BitToByte(p % Width) \in Byte
        /\ GetByte(p \div Width) \ BitToByte(p % Width) \in Byte
    BY <2>1, <2>2, Zenon DEF Byte, BitToByte
  <2>. QED  BY <1>1, <2>3, BatchedSteady, Zenon DEF Set, Unset
<1>2. modified' = NoChanges => DOMAIN modified' = {}
  BY DEF NoChanges
<1>3. CASE Rollback
  <2>1. written = {}
    BY <1>3, Zenon DEF Rollback, Steady, CommitProgress
  <2>. QED
    BY <1>2, <1>3, <2>1, Zenon
    DEF Rollback, Steady, TypeOK, MapFollowsFile, CommitProgress
<1>4. CASE CommitBegin
  BY <1>4, Zenon DEF CommitBegin, Unmap, Steady, TypeOK, MapFollowsFile, CommitProgress
<1>5. CASE WriteByte
  <2>1. PICK index \in DOMAIN modified \ written :
           /\ written' = written \cup {index}
           /\ disk' \in Seq(Byte)
           /\ Len(disk) <= Len(disk') /\ Len(disk') <= NumBytes /\ index < Len(disk')
           /\ disk'[index + 1] = modified[index]
           /\ \A i \in 1..Len(disk) : i # index + 1 => disk'[i] = disk[i]
    BY <1>5, WriteByteEffect, Zenon DEF Steady
  <2>2. DOMAIN modified \subseteq 0..NumBytes - 1 /\ written \subseteq DOMAIN modified
        /\ disk \in Seq(Byte)
    BY Zenon DEF Steady, TypeOK
  <2>3. \A i \in written : i < Len(disk) /\ disk[i + 1] = modified[i]
    BY <1>5, Zenon DEF WriteByte, Steady, CommitProgress
  <2>4. \A i \in written' : i < Len(disk') /\ disk'[i + 1] = modified[i]
    <3>. SUFFICES ASSUME NEW i \in written, i # index
                  PROVE  i < Len(disk') /\ disk'[i + 1] = modified[i]
      BY <2>1
    <3>1. i \in Nat /\ index \in Nat /\ i < Len(disk) /\ disk[i + 1] = modified[i]
      BY <2>2, <2>3, Sizes
    <3>2. i + 1 \in 1..Len(disk) /\ i + 1 # index + 1
      BY <2>2, <3>1
    <3>. QED  BY <2>1, <2>2, <3>1, <3>2
  <2>5. UNCHANGED <<modified, mapped, phase>> /\ phase = "write" /\ DOMAIN modified # {}
    BY <1>5, Zenon DEF WriteByte
  <2>. QED
    BY <2>1, <2>4, <2>5, Zenon DEF Steady, TypeOK, MapFollowsFile, CommitProgress
<1>6. CASE CommitEnd
  BY <1>2, <1>6, Zenon DEF CommitEnd, Map, Steady, TypeOK, MapFollowsFile, CommitProgress
<1>7. CASE Crash
  BY <1>2, <1>7, Zenon DEF Crash, Steady, TypeOK, MapFollowsFile, CommitProgress
<1>8. CASE Load
  BY <1>8, Zenon DEF Load, Map, Steady, TypeOK, MapFollowsFile, CommitProgress
<1>9. CASE UNCHANGED vars
  BY <1>9, Zenon DEF vars, Steady, TypeOK, MapFollowsFile, CommitProgress
<1>. QED
  BY <1>1, <1>3, <1>4, <1>5, <1>6, <1>7, <1>8, <1>9, Zenon DEF Next

\* IsSet tells the bits the user sees: the map, the batch and a file that ends before the
\* byte are told apart as they should.
LEMMA SteadyTells == Steady => BitmapInv
<1>. SUFFICES ASSUME Steady, phase = "idle", NEW p \in Positions
              PROVE  IsSet(p) <=> p \in Bits
  BY Zenon DEF BitmapInv, Steady, IsSetTellsBits
<1>1. IsSet(p) <=> p % Width \in GetByte(p \div Width)
  BY Zenon DEF IsSet, BitToByte
<1>. QED  BY <1>1, GetByteTells, Zenon DEF Steady

\* BitmapFile keeps its types, its map and its batch in step with Commit, and IsSet tells
\* the bits set and not unset, whatever crashes: GetByte looks into the batch, then
\* into the map, and takes what lies beyond the file for 0.
THEOREM BitmapInvariant == Spec => []BitmapInv
<1>1. Init => Steady
  BY InitSteady
<1>2. Steady /\ [Next]_vars => Steady'
  BY StepSteady
<1>3. Steady => BitmapInv
  BY SteadyTells
<1>. QED  BY <1>1, <1>2, <1>3, PTL DEF Spec

\* The same invariant, in the form the theorems below need it.
LEMMA AlwaysSteady == Spec => []Steady
<1>1. Steady /\ [Next]_vars => Steady'
  BY StepSteady
<1>. QED  BY <1>1, InitSteady, PTL DEF Spec

-----------------------------------------------------------------------------
(* Bits *)

\* With no batch the user sees the bits of the file.
LEMMA NoBatch == modified = NoChanges => Bits = Saved
<1>1. modified = NoChanges => DOMAIN modified = {}
  BY DEF NoChanges
<1>. QED  BY <1>1, Zenon DEF Bits, Saved

\* Once all bytes of the batch are written, the file has the bits the user sees.
LEMMA AllWritten ==
  ASSUME Steady, phase = "write", written = DOMAIN modified
  PROVE  Saved = Bits
<1>1. \A i \in DOMAIN modified : i < Len(disk) /\ disk[i + 1] = modified[i]
  BY Zenon DEF Steady, CommitProgress
<1>. QED  BY <1>1, Zenon DEF Saved, Bits

\* The bits of the file and of the batch are functions of their variables.
LEMMA SameBits ==
  ASSUME disk' = disk
  PROVE  Saved' = Saved /\ (modified' = modified => Bits' = Bits)
  BY Zenon DEF Saved, Bits

\* A Commit that returns has saved every bit of the batch and only those: WriteBytes has
\* written every modified byte where it belongs, and clearing the batch loses none.
THEOREM CommitSaves == Spec => CommitSavesBits
<1>1. Steady /\ [Next]_vars => [CommitEnd => Saved = Bits /\ Bits' = Bits]_vars
  <2>. SUFFICES ASSUME Steady, CommitEnd
                PROVE  Saved = Bits /\ Bits' = Bits
    BY Zenon
  <2>1. Saved = Bits
    BY AllWritten, Zenon DEF CommitEnd
  <2>2. (modified = NoChanges => Bits = Saved)'
    BY NoBatch, PTL
  <2>3. Bits' = Saved' /\ Saved' = Saved
    BY <2>2, SameBits, Zenon DEF CommitEnd
  <2>. QED  BY <2>1, <2>3, Zenon
<1>. QED  BY <1>1, AlwaysSteady, PTL DEF Spec, CommitSavesBits

-----------------------------------------------------------------------------
(* The refinement of BatchedBits *)

\* Set and Unset change the one bit they name, and none of its neighbours in the byte.
LEMMA OneBit ==
  ASSUME Steady, phase = "idle", NEW p \in Positions, NEW byte,
         Modify(p \div Width, byte), disk' = disk
  PROVE  /\ byte = GetByte(p \div Width) \cup BitToByte(p % Width) => Bits' = Bits \cup {p}
         /\ byte = GetByte(p \div Width) \ BitToByte(p % Width) => Bits' = Bits \ {p}
<1>1. /\ DOMAIN modified' = DOMAIN modified \cup {p \div Width}
      /\ modified'[p \div Width] = byte
      /\ \A i \in DOMAIN modified : i # p \div Width => modified'[i] = modified[i]
  BY ModifyEffect, Zenon
<1>2. ASSUME NEW q \in Positions, q \div Width # p \div Width
      PROVE  q \in Bits' <=> q \in Bits
  BY <1>1, <1>2, SameBits, Zenon DEF Bits
<1>3. ASSUME NEW q \in Positions, q \div Width = p \div Width
      PROVE  /\ q \in Bits' <=> q % Width \in byte
             /\ q \in Bits <=> q % Width \in GetByte(p \div Width)
             /\ q % Width = p % Width <=> q = p
  <2>1. q \in Bits' <=> q % Width \in byte
    BY <1>1, <1>3, Zenon DEF Bits, HasBit
  <2>2. q \in Bits <=> q % Width \in GetByte(p \div Width)
    BY <1>3, GetByteTells, Zenon DEF Steady
  <2>. QED  BY <1>3, <2>1, <2>2, SamePosition, Zenon
<1>4. Bits \subseteq Positions /\ Bits' \subseteq Positions
  BY Zenon DEF Bits
<1>5. ASSUME byte = GetByte(p \div Width) \cup BitToByte(p % Width)
      PROVE  Bits' = Bits \cup {p}
  <2>1. \A q \in Positions : q \in Bits' <=> q \in Bits \/ q = p
    BY <1>2, <1>3, <1>5, Zenon DEF BitToByte
  <2>. QED  BY <1>4, <2>1, Zenon
<1>6. ASSUME byte = GetByte(p \div Width) \ BitToByte(p % Width)
      PROVE  Bits' = Bits \ {p}
  <2>1. \A q \in Positions : q \in Bits' <=> q \in Bits /\ q # p
    BY <1>2, <1>3, <1>6, Zenon DEF BitToByte
  <2>. QED  BY <1>4, <2>1, Zenon
<1>. QED  BY <1>5, <1>6, Zenon

\* Writing a byte saves the bits of that byte, and leaves what the user sees.
LEMMA OneByte ==
  ASSUME Steady, WriteByte
  PROVE  /\ \E P \in SUBSET Positions : Saved' = (Saved \ P) \cup (Bits \cap P)
         /\ Bits' = Bits
<1>1. PICK index \in DOMAIN modified \ written :
         /\ index \in 0..NumBytes - 1
         /\ disk' \in Seq(Byte)
         /\ Len(disk) <= Len(disk') /\ index < Len(disk')
         /\ disk'[index + 1] = modified[index]
         /\ \A i \in 1..Len(disk) : i # index + 1 => disk'[i] = disk[i]
         /\ \A i \in 1..Len(disk') : i # index + 1 /\ i > Len(disk) => disk'[i] = {}
  BY WriteByteEffect, Zenon DEF Steady
<1>2. modified' = modified /\ disk \in Seq(Byte)
  BY Zenon DEF WriteByte, Steady, TypeOK
<1>. DEFINE P == {p \in Positions : p \div Width = index}
<1>3. ASSUME NEW p \in P
      PROVE  /\ p \in Saved' <=> p \in Bits
             /\ p \in Bits' <=> p \in Bits
  BY <1>1, <1>2, Zenon DEF Saved, Bits
<1>4. ASSUME NEW p \in Positions, p \notin P
      PROVE  p \in Saved' <=> p \in Saved
  <2>. DEFINE i == p \div Width
  <2>1. i \in Nat /\ i # index
    BY <1>4, PositionParts, Sizes
  <2>. HIDE DEF i
  <2>2. p \in Saved <=> i < Len(disk) /\ p % Width \in disk[i + 1]
    BY Zenon DEF Saved, HasBit, i
  <2>3. p \in Saved' <=> i < Len(disk') /\ p % Width \in disk'[i + 1]
    BY Zenon DEF Saved, HasBit, i
  <2>4. i < Len(disk) => i < Len(disk') /\ disk'[i + 1] = disk[i + 1]
    BY <1>1, <1>2, <2>1
  <2>5. i < Len(disk') /\ ~ (i < Len(disk)) => disk'[i + 1] = {}
    BY <1>1, <1>2, <2>1
  <2>. QED  BY <2>2, <2>3, <2>4, <2>5, Zenon
<1>5. ASSUME NEW p \in Positions, p \notin P
      PROVE  p \in Bits' <=> p \in Bits
  BY <1>2, <1>4, <1>5, Zenon DEF Bits
<1>6. /\ Saved \subseteq Positions /\ Saved' \subseteq Positions
      /\ Bits \subseteq Positions /\ Bits' \subseteq Positions
  BY Zenon DEF Saved, Bits
<1>7. Saved' = (Saved \ P) \cup (Bits \cap P)
  BY <1>3, <1>4, <1>6, Zenon
<1>8. Bits' = Bits
  BY <1>3, <1>5, <1>6, Zenon
<1>9. P \in SUBSET Positions
  BY Zenon
<1>. HIDE DEF P
<1>. QED  BY <1>7, <1>8, <1>9, Zenon

\* Every step of the bitmap file is a step of the abstract bitmap, or changes nothing there.
LEMMA BitsStep ==
  ASSUME Steady, Steady', [Next]_vars
  PROVE  [BitSet!BitsNext]_(BitSet!bitsVars)
<1>. USE DEF BitSet!BitsNext, BitSet!bitsVars
<1>1. ASSUME NEW p \in Positions, Set(p)
      PROVE  BitSet!BitsSet
  <2>1. Bits' = Bits \cup {p}
    BY <1>1, OneBit, Zenon DEF Set
  <2>2. Saved' = Saved
    BY <1>1, SameBits, Zenon DEF Set
  <2>. QED  BY <1>1, <2>1, <2>2, Zenon DEF Set, BitSet!BitsSet
<1>2. ASSUME NEW p \in Positions, Unset(p)
      PROVE  BitSet!BitsUnset
  <2>1. Bits' = Bits \ {p}
    BY <1>2, OneBit, Zenon DEF Unset
  <2>2. Saved' = Saved
    BY <1>2, SameBits, Zenon DEF Unset
  <2>. QED  BY <1>2, <2>1, <2>2, Zenon DEF Unset, BitSet!BitsUnset
<1>3. (modified = NoChanges => Bits = Saved)'
  BY NoBatch, PTL
<1>4. CASE Rollback
  <2>1. Bits' = Saved /\ Saved' = Saved
    BY <1>3, <1>4, SameBits, Zenon DEF Rollback
  <2>. QED  BY <1>4, <2>1, Zenon DEF Rollback, BitSet!BitsRollback
<1>5. CASE CommitBegin
  <2>1. Bits' = Bits /\ Saved' = Saved
    BY <1>5, SameBits, Zenon DEF CommitBegin
  <2>. QED  BY <1>5, <2>1, Zenon DEF CommitBegin
<1>6. CASE WriteByte
  BY <1>6, OneByte, Zenon DEF WriteByte, BitSet!BitsSave
<1>7. CASE CommitEnd
  <2>1. Saved = Bits /\ Bits' = Saved' /\ Saved' = Saved
    BY <1>3, <1>7, AllWritten, SameBits, Zenon DEF CommitEnd
  <2>. QED  BY <1>7, <2>1, Zenon DEF CommitEnd
<1>8. CASE Crash
  <2>1. Bits' = Saved /\ Saved' = Saved
    BY <1>3, <1>8, SameBits, Zenon DEF Crash
  <2>. QED  BY <1>8, <2>1, Zenon DEF Crash, BitSet!BitsCrash
<1>9. CASE Load
  <2>1. Bits' = Bits /\ Saved' = Saved
    BY <1>9, SameBits, Zenon DEF Load
  <2>. QED  BY <1>9, <2>1, Zenon DEF Load, BitSet!BitsLoad
<1>10. CASE UNCHANGED vars
  <2>1. Bits' = Bits /\ Saved' = Saved
    BY <1>10, SameBits, Zenon DEF vars
  <2>. QED  BY <1>10, <2>1, Zenon DEF vars
<1>. QED
  BY <1>1, <1>2, <1>4, <1>5, <1>6, <1>7, <1>8, <1>9, <1>10, Zenon DEF Next

\* A bitmap file is a batched set of bits: Set and Unset change one bit, Commit moves
\* the batch to the file byte by byte, and a crash in its midst leaves every bit either as
\* it was or as the batch has it.
THEOREM RefinesBits == Spec => ImplementsBits
<1>1. Init => BitSet!BitsInit
  <2>. SUFFICES ASSUME Init PROVE BitSet!BitsInit
    OBVIOUS
  <2>1. Bits = Saved
    BY NoBatch, Zenon DEF Init
  <2>2. \A p \in Positions : ~ (p \div Width < Len(disk))
    <3>1. Len(disk) = 0
      BY DEF Init
    <3>. QED  BY <3>1, PositionParts, Sizes
  <2>3. Saved = {}
    BY <2>2, Zenon DEF Saved
  <2>. QED  BY <2>1, <2>3, Zenon DEF Init, BitSet!BitsInit
<1>2. Steady /\ Steady' /\ [Next]_vars => [BitSet!BitsNext]_(BitSet!bitsVars)
  BY BitsStep
<1>. QED  BY <1>1, <1>2, AlwaysSteady, PTL DEF Spec, ImplementsBits, BitSet!BitsSpec

=============================================================================
