------------------------ MODULE AppendOnlyFileProofs ------------------------
(***************************************************************************)
(* Proofs about AppendOnlyFile, for files and batches of any size.         *)
(***************************************************************************)
EXTENDS AppendOnlyFile, SequenceTheorems, TLAPS

\* GetSize(), called after the file was cut, does not throw.
SizeIsKnown == "refresh" \notin FailAt

\* Two windows with the same bytes are the same sequence.
LEMMA SameWindow ==
  ASSUME NEW S, NEW s \in Seq(S), NEW t \in Seq(S), NEW a \in Nat, NEW b \in Nat, NEW n \in Nat,
         a + n <= Len(s), b + n <= Len(t), \A i \in 1..n : s[a + i] = t[b + i]
  PROVE  SubSeq(s, a + 1, a + n) = SubSeq(t, b + 1, b + n)
<1> DEFINE x == SubSeq(s, a + 1, a + n)
           y == SubSeq(t, b + 1, b + n)
<1>1. x \in Seq(S) /\ Len(x) = n /\ \A i \in 1..n : x[i] = s[a + i]
  OBVIOUS
<1>2. y \in Seq(S) /\ Len(y) = n /\ \A i \in 1..n : y[i] = t[b + i]
  OBVIOUS
<1>3. \A i \in 1..Len(x) : x[i] = y[i]
  BY <1>1, <1>2
<1> HIDE DEF x, y
<1>4. x = y
  BY <1>1, <1>2, <1>3, SeqEqual
<1> QED
  BY <1>4 DEF x, y

\* A chunk is a sequence of one or two bytes.
LEMMA ChunksType ==
  ASSUME NEW bytes \in Chunks
  PROVE  bytes \in Seq(Bytes) /\ Len(bytes) > 0
<1>1. CASE \E b \in Bytes : bytes = <<b>>
  BY <1>1
<1>2. CASE \E b, c \in Bytes : bytes = <<b, c>>
  BY <1>2
<1> QED
  BY <1>1, <1>2 DEF Chunks

\* Truncate cuts or extends a file to the size asked for.
LEMMA ResizeType ==
  ASSUME NEW s \in Seq(Bytes), NEW n \in Nat
  PROVE  /\ Resize(s, n) \in Seq(Bytes) /\ Len(Resize(s, n)) = n
         /\ \A i \in 1..n : i <= Len(s) => Resize(s, n)[i] = s[i]
<1>1. Zero \in Bytes
  BY AppendOnlyFileAssumption
<1>2. \A i \in 1..n : (IF i <= Len(s) THEN s[i] ELSE Zero) \in Bytes
  BY <1>1
<1> QED
  BY <1>2 DEF Resize

\* What File::Write leaves is the old file followed by some of the buffer.
LEMMA WrittenType ==
  ASSUME TypeOK, NEW n \in 0..Len(buffer)
  PROVE  /\ Written(n) \in Seq(Bytes) /\ Len(Written(n)) = Len(disk) + n
         /\ \A i \in 1..Len(disk) : Written(n)[i] = disk[i]
BY DEF TypeOK, Written

\* No step breaks the types or the order of the indices, failures and crashes
\* included, as long as GetSize() succeeds.
LEMMA IndexStep ==
  ASSUME SizeIsKnown, TypeOK, IndexInFile, [Next]_vars
  PROVE  TypeOK' /\ IndexInFile'
<1> USE DEF TypeOK, IndexInFile, batch
<1>1. CASE UNCHANGED vars
  BY <1>1 DEF vars
<1>2. ASSUME NEW bytes \in Chunks, AppendBytes(bytes)
      PROVE  TypeOK' /\ IndexInFile'
  BY <1>2, ChunksType DEF AppendBytes
<1>3. ASSUME NEW position \in 0..MaxLen, Rewind(position)
      PROVE  TypeOK' /\ IndexInFile'
  <2>1. position \in Nat
    OBVIOUS
  <2>2. CASE position <= bufferIndex
    BY <1>3, <2>1, <2>2 DEF Rewind
  <2>3. CASE position > bufferIndex
    <3>1. position - bufferIndex \in 0..Len(buffer)
      BY <1>3, <2>1, <2>3 DEF Rewind, GetSize
    <3>2. SubSeq(buffer, 1, position - bufferIndex) \in Seq(Bytes)
      BY <3>1
    <3> QED
      BY <1>3, <2>1, <2>3, <3>2 DEF Rewind
  <2> QED
    BY <2>1, <2>2, <2>3
<1>4. CASE Rollback
  BY <1>4 DEF Rollback
<1>5. CASE CommitBegin
  BY <1>5 DEF CommitBegin, Unmap
<1>6. CASE CommitWrite
  <2>1. PICK n \in 0..Len(buffer) : disk' = Written(n) /\ faulty' = (faulty \/ n # Len(buffer))
    BY <1>6 DEF CommitWrite
  <2>2. disk' \in Seq(Bytes) /\ Len(disk') >= Len(disk)
    BY <2>1, WrittenType
  <2>3. faulty' \in BOOLEAN
    BY <2>1, Zenon
  <2>4. phase = "write" /\ phase' = "truncate" /\ UNCHANGED <<fileSize, bufferIndex, buffer, mapped>>
    BY <1>6 DEF CommitWrite
  <2> QED
    BY <2>2, <2>3, <2>4
<1>7. CASE CommitTruncate
  <2>1. bufferIndex + Len(buffer) \in Nat
    OBVIOUS
  <2>2. disk' \in Seq(Bytes) /\ Len(disk') = bufferIndex + Len(buffer)
    BY <1>7, <2>1, ResizeType DEF CommitTruncate
  <2> QED
    BY <1>7, <2>2 DEF CommitTruncate
<1>8. CASE CommitFails
  BY <1>8 DEF CommitFails, SizeIsKnown
<1>9. CASE CommitRefresh
  <2>1. mapped' \in BOOLEAN /\ faulty' \in BOOLEAN
    BY <1>9, Zenon DEF CommitRefresh, Map
  <2> QED
    BY <1>9, <2>1 DEF CommitRefresh
<1>10. CASE Crash
  <2>1. disk' \in Seq(Bytes)
    BY <1>10, WrittenType DEF Crash
  <2>2. mapped' \in BOOLEAN
    BY <1>10, Zenon DEF Crash
  <2>3. fileSize' = 0 /\ bufferIndex' = 0 /\ buffer' = <<>> /\ phase' = "closed" /\ UNCHANGED faulty
    BY <1>10 DEF Crash
  <2> QED
    BY <2>1, <2>2, <2>3
<1>11. CASE Load
  <2>1. mapped' \in BOOLEAN
    BY <1>11, Zenon DEF Load, Map
  <2> QED
    BY <1>11, <2>1 DEF Load
<1> QED
  BY <1>1, <1>2, <1>3, <1>4, <1>5, <1>6, <1>7, <1>8, <1>9, <1>10, <1>11 DEF Next

\* Writing all of the buffer leaves the old file with the buffer behind it.
LEMMA WrittenAll ==
  ASSUME TypeOK, NEW d \in Seq(Bytes), d = Written(Len(buffer)), fileSize = Len(disk)
  PROVE  d = SubSeq(d, 1, fileSize) \o buffer
<1>1. SubSeq(buffer, 1, Len(buffer)) = buffer
  BY DEF TypeOK
<1>2. d = disk \o buffer
  BY <1>1 DEF Written
<1>3. SubSeq(d, 1, Len(disk)) = disk
  BY <1>2 DEF TypeOK
<1> QED
  BY <1>2, <1>3

\* No step breaks CommitProgress.
LEMMA ProgressStep ==
  ASSUME SizeIsKnown, TypeOK, IndexInFile, CommitProgress, [Next]_vars
  PROVE  CommitProgress'
<1> USE DEF TypeOK, CommitProgress, GetSize, batch
<1>1. CASE UNCHANGED vars
  BY <1>1 DEF vars
<1>2. ASSUME NEW bytes \in Chunks, AppendBytes(bytes)
      PROVE  CommitProgress'
  BY <1>2 DEF AppendBytes
<1>3. ASSUME NEW position \in 0..MaxLen, Rewind(position)
      PROVE  CommitProgress'
  BY <1>3 DEF Rewind
<1>4. CASE Rollback
  BY <1>4 DEF Rollback
<1>5. CASE CommitBegin
  BY <1>5 DEF CommitBegin
<1>6. CASE CommitWrite
  <2>1. PICK n \in 0..Len(buffer) : disk' = Written(n) /\ faulty' = (faulty \/ n # Len(buffer))
    BY <1>6 DEF CommitWrite
  <2>2. ~faulty' => ~faulty /\ n = Len(buffer)
    BY <2>1, Zenon
  <2>3. phase = "write" /\ phase' = "truncate" /\ UNCHANGED <<fileSize, bufferIndex, buffer>>
    BY <1>6 DEF CommitWrite
  <2>4. disk' \in Seq(Bytes)
    BY <2>1, WrittenType
  <2>5. ~faulty' => disk' = SubSeq(disk', 1, fileSize) \o buffer
    BY <2>1, <2>2, <2>3, <2>4, WrittenAll
  <2> QED
    BY <2>3, <2>5
<1>7. CASE CommitTruncate
  <2>1. bufferIndex + Len(buffer) \in Nat
    OBVIOUS
  <2>2. Len(disk') = bufferIndex + Len(buffer)
    BY <1>7, <2>1, ResizeType DEF CommitTruncate
  <2> QED
    BY <1>7, <2>2 DEF CommitTruncate
<1>8. CASE CommitFails
  BY <1>8 DEF CommitFails
<1>9. CASE CommitRefresh
  <2>1. ~faulty' => (mapped' <=> disk # <<>>)
    BY <1>9, Zenon DEF CommitRefresh, Map
  <2>2. phase' = "idle" /\ fileSize' = Len(disk) /\ disk' = disk
    BY <1>9 DEF CommitRefresh
  <2> QED
    BY <2>1, <2>2
<1>10. CASE Crash
  BY <1>10 DEF Crash
<1>11. CASE Load
  <2>1. mapped' <=> disk # <<>>
    BY <1>11, Zenon DEF Load, Map
  <2>2. phase' = "idle" /\ fileSize' = Len(disk) /\ disk' = disk
    BY <1>11 DEF Load
  <2> QED
    BY <2>1, <2>2
<1> QED
  BY <1>1, <1>2, <1>3, <1>4, <1>5, <1>6, <1>7, <1>8, <1>9, <1>10, <1>11 DEF Next

\* The indices of the file are in order in every state: Commit never throws
\* "Buffer index is past the end" and m_fileSize never exceeds the file.
THEOREM FileInvariant ==
  ASSUME SizeIsKnown
  PROVE  Spec => []FileInv
<1>1. Init => FileInv
  <2> SUFFICES ASSUME Init
               PROVE  FileInv
    OBVIOUS
  <2>1. mapped \in BOOLEAN /\ faulty \in BOOLEAN
    BY Zenon DEF Init
  <2>2. disk = <<>> /\ buffer = <<>> /\ fileSize = 0 /\ bufferIndex = 0 /\ phase = "idle"
    BY DEF Init
  <2>3. ~mapped
    BY Zenon DEF Init
  <2> QED
    BY <2>1, <2>2, <2>3 DEF FileInv, TypeOK, IndexInFile, CommitProgress
<1>2. FileInv /\ [Next]_vars => FileInv'
  BY IndexStep, ProgressStep DEF FileInv
<1> QED
  BY <1>1, <1>2, PTL DEF Spec

\* What a step leaves of the bytes the user has not rewound: all of them.
LEMMA KeptStep ==
  ASSUME FileInv, Next, phase # "closed"
  PROVE  /\ Len(disk') >= bufferIndex
         /\ \A i \in 1..bufferIndex : disk'[i] = disk[i]
<1> USE DEF FileInv, TypeOK
<1>0. bufferIndex <= Len(disk)
  BY DEF IndexInFile
<1>1. ASSUME disk' = disk
      PROVE  /\ Len(disk') >= bufferIndex
             /\ \A i \in 1..bufferIndex : disk'[i] = disk[i]
  BY <1>0, <1>1
<1>2. ASSUME NEW n \in 0..Len(buffer), disk' = Written(n)
      PROVE  /\ Len(disk') >= bufferIndex
             /\ \A i \in 1..bufferIndex : disk'[i] = disk[i]
  BY <1>0, <1>2, WrittenType
<1>3. CASE CommitWrite
  BY <1>2, <1>3 DEF CommitWrite
<1>4. CASE CommitTruncate
  <2>1. bufferIndex + Len(buffer) \in Nat
    OBVIOUS
  <2>2. /\ Len(disk') = bufferIndex + Len(buffer)
        /\ \A i \in 1..(bufferIndex + Len(buffer)) : i <= Len(disk) => disk'[i] = disk[i]
    BY <1>4, <2>1, ResizeType DEF CommitTruncate
  <2> QED
    BY <1>0, <2>2
<1>5. CASE Crash
  BY <1>1, <1>2, <1>5 DEF Crash
<1>6. CASE Load
  BY <1>6 DEF Load
<1>7. CASE ~(CommitWrite \/ CommitTruncate \/ Crash \/ Load)
  <2>1. disk' = disk
    BY <1>7 DEF Next, AppendBytes, Rewind, Rollback, CommitBegin, CommitFails, CommitRefresh
  <2> QED
    BY <1>1, <2>1
<1> QED
  BY <1>3, <1>4, <1>5, <1>6, <1>7

\* No step of any commit, failed commit or crash loses or alters a byte before
\* m_bufferIndex.
THEOREM KeptBytes ==
  ASSUME SizeIsKnown
  PROVE  Spec => KeptBytesSurvive
<1>1. FileInv /\ [Next]_vars =>
        [phase # "closed" =>
           /\ Len(disk') >= bufferIndex
           /\ \A i \in 1..bufferIndex : disk'[i] = disk[i]]_vars
  BY KeptStep
<1> QED
  BY <1>1, FileInvariant, PTL DEF Spec, KeptBytesSurvive

\* Read takes a range before m_bufferIndex from the map and one after it from
\* the buffer, and both are what the user sees there.
THEOREM ReadsAreTheView ==
  ASSUME SizeIsKnown
  PROVE  Spec => []ReadsView
<1>1. ASSUME FileInv
      PROVE  ReadsView
  <2> SUFFICES ASSUME phase = "idle", ~faulty,
                      NEW position \in 0..GetSize, NEW numBytes \in 0..(GetSize - position),
                      position >= bufferIndex \/ position + numBytes <= bufferIndex
               PROVE  /\ ReadDefined(position, numBytes)
                      /\ Read(position, numBytes) = SubSeq(View, position + 1, position + numBytes)
    BY <1>1, Zenon DEF ReadsView
  <2>1. disk \in Seq(Bytes) /\ buffer \in Seq(Bytes) /\ bufferIndex \in Nat /\ fileSize \in Nat
    BY <1>1 DEF FileInv, TypeOK
  <2>2. fileSize = Len(disk) /\ (mapped <=> disk # <<>>)
    BY <1>1, Zenon DEF FileInv, CommitProgress
  <2>3. bufferIndex <= fileSize
    BY <1>1, Zenon DEF FileInv, IndexInFile
  <2>4. position \in Nat /\ numBytes \in Nat /\ position + numBytes <= bufferIndex + Len(buffer)
    BY <2>1 DEF GetSize
  <2>5. ReadDefined(position, numBytes)
    BY <2>1, <2>2, <2>3, <2>4 DEF ReadDefined
  <2>6. /\ View \in Seq(Bytes) /\ Len(View) = bufferIndex + Len(buffer)
        /\ \A i \in 1..(bufferIndex + Len(buffer)) :
             View[i] = IF i <= bufferIndex THEN disk[i] ELSE buffer[i - bufferIndex]
    BY <2>1, <2>2, <2>3 DEF View
  <2>7. CASE position < bufferIndex
    <3>1. \A i \in 1..numBytes : disk[position + i] = View[position + i]
      <4> TAKE i \in 1..numBytes
      <4>1. position + i \in 1..(bufferIndex + Len(buffer)) /\ position + i <= bufferIndex
        BY <2>1, <2>4, <2>7
      <4> QED
        BY <2>6, <4>1, Zenon
    <3>0. position + numBytes <= Len(disk) /\ position + numBytes <= Len(View)
      BY <2>1, <2>2, <2>3, <2>4, <2>6, <2>7
    <3>3. disk \in Seq(Bytes) /\ View \in Seq(Bytes) /\ position \in Nat /\ numBytes \in Nat
      BY <2>1, <2>4, <2>6, Zenon
    <3>2. SubSeq(disk, position + 1, position + numBytes) = SubSeq(View, position + 1, position + numBytes)
      BY <3>0, <3>1, <3>3, SameWindow, SMTT(40)
    <3> QED
      BY <2>5, <2>7, <3>2 DEF Read
  <2>8. CASE position >= bufferIndex
    <3> DEFINE p == position - bufferIndex
    <3>0. p \in Nat /\ p + bufferIndex = position /\ p + numBytes <= Len(buffer)
      BY <2>1, <2>4, <2>8
    <3>1. \A i \in 1..numBytes : buffer[p + i] = View[position + i]
      <4> TAKE i \in 1..numBytes
      <4>1. position + i \in 1..(bufferIndex + Len(buffer)) /\ ~(position + i <= bufferIndex)
        BY <2>1, <2>4, <2>8
      <4>2. View[position + i] = buffer[position + i - bufferIndex]
        BY <2>1, <2>4, <2>6, <4>1
      <4>3. position + i - bufferIndex = p + i
        BY <2>1, <2>4, <2>8
      <4> QED
        BY <4>2, <4>3
    <3>2. SubSeq(buffer, p + 1, p + numBytes) = SubSeq(View, position + 1, position + numBytes)
      <4>1. position + numBytes <= Len(View)
        BY <2>4, <2>6
      <4>2. /\ buffer \in Seq(Bytes) /\ View \in Seq(Bytes) /\ position \in Nat /\ numBytes \in Nat
            /\ p \in Nat /\ p + numBytes <= Len(buffer)
        BY <2>1, <2>4, <2>6, <3>0, Zenon
      <4> HIDE DEF p
      <4> QED
        BY <3>1, <4>1, <4>2, SameWindow, SMTT(40)
    <3> QED
      BY <2>1, <2>4, <2>5, <2>8, <3>2 DEF Read
  <2> QED
    BY <2>1, <2>4, <2>5, <2>7, <2>8
<1> QED
  BY <1>1, FileInvariant, PTL

\* A sequence that agrees with another one as far as it goes is a prefix of it.
LEMMA PrefixByIndex ==
  ASSUME NEW S, NEW s \in Seq(S), NEW t \in Seq(S), Len(s) <= Len(t),
         \A i \in 1..Len(s) : s[i] = t[i]
  PROVE  Log!IsPrefix(s, t) /\ SubSeq(t, 1, Len(s)) = s
<1>1. SubSeq(t, 1, Len(s)) \in Seq(S) /\ Len(SubSeq(t, 1, Len(s))) = Len(s)
  OBVIOUS
<1>2. \A i \in 1..Len(s) : SubSeq(t, 1, Len(s))[i] = s[i]
  OBVIOUS
<1>3. SubSeq(t, 1, Len(s)) = s
  BY <1>1, <1>2, SeqEqual
<1> QED
  BY <1>3 DEF Log!IsPrefix

\* Truncate makes the batch durable: all of what the user sees if it appends
\* only or rewinds only, and the bytes it kept in any case.
LEMMA TruncateCommits ==
  ASSUME FileInv, CommitTruncate
  PROVE  Log!LogCommit
<1> DEFINE n == bufferIndex + Len(buffer)
           d == SubSeq(disk, 1, fileSize)
           r == Resize(disk, n)
           k == SubSeq(d, 1, bufferIndex)
<1>0. /\ disk \in Seq(Bytes) /\ buffer \in Seq(Bytes) /\ fileSize \in Nat /\ bufferIndex \in Nat
      /\ n \in Nat
  BY DEF FileInv, TypeOK
<1>1. /\ phase = "truncate" /\ phase' = "refresh" /\ disk' = r
      /\ UNCHANGED <<fileSize, bufferIndex, buffer, faulty>>
  BY DEF CommitTruncate, batch
<1>2. bufferIndex <= fileSize /\ fileSize <= Len(disk)
  BY <1>1 DEF FileInv, IndexInFile
<1>3. r \in Seq(Bytes) /\ Len(r) = n /\ \A i \in 1..n : i <= Len(disk) => r[i] = disk[i]
  BY <1>0, ResizeType
<1>4. d \in Seq(Bytes) /\ Len(d) = fileSize /\ \A i \in 1..fileSize : d[i] = disk[i]
  BY <1>0, <1>2
<1> HIDE DEF n, d, r
<1>5. k \in Seq(Bytes) /\ Len(k) = bufferIndex /\ \A i \in 1..bufferIndex : k[i] = disk[i]
  BY <1>0, <1>2, <1>4
<1> HIDE DEF k
<1>6. /\ k \o buffer \in Seq(Bytes) /\ Len(k \o buffer) = n
      /\ \A i \in 1..n : (k \o buffer)[i] = IF i <= bufferIndex THEN k[i] ELSE buffer[i - bufferIndex]
  BY <1>0, <1>5 DEF n
<1>7. Log!IsPrefix(k, r)
  <2>1. \A i \in 1..Len(k) : k[i] = r[i]
    BY <1>0, <1>2, <1>3, <1>5 DEF n
  <2> QED
    BY <1>0, <1>3, <1>5, <2>1, PrefixByIndex DEF n
<1>8. ASSUME buffer = <<>>
      PROVE  r = k \o buffer
  <2>1. n = bufferIndex /\ k \o buffer = k
    BY <1>0, <1>5, <1>8 DEF n
  <2>2. \A i \in 1..n : r[i] = k[i]
    <3> TAKE i \in 1..n
    <3>1. i \in 1..bufferIndex /\ i <= Len(disk)
      BY <1>0, <1>2, <2>1
    <3> QED
      BY <1>3, <1>5, <3>1
  <2> QED
    BY <1>0, <1>3, <1>5, <2>1, <2>2, SeqEqual
<1>9. ASSUME ~faulty, bufferIndex = fileSize
      PROVE  r = k \o buffer
  <2>1. disk = d \o buffer
    BY <1>1, <1>9, Zenon DEF FileInv, CommitProgress, d
  <2>2. Len(disk) = n
    <3>1. Len(d \o buffer) = Len(d) + Len(buffer)
      BY <1>0, <1>4, ConcatProperties, ZenonT(40)
    <3> QED
      BY <1>4, <1>9, <2>1, <3>1, Zenon DEF n
  <2>3. r = disk
    BY <1>0, <1>3, <2>2, SeqEqual
  <2>4. k = d
    BY <1>0, <1>4, <1>5, <1>9, SeqEqual
  <2> QED
    BY <2>1, <2>3, <2>4
<1>10. ~faulty' /\ (bufferIndex = fileSize \/ buffer = <<>>) => r = k \o buffer
  BY <1>1, <1>8, <1>9
<1> QED
  BY <1>1, <1>3, <1>4, <1>6, <1>7, <1>10 DEF Log!LogCommit, Log!LogView, d, k

\* Until Truncate has cut the file, a crash that no failure preceded leaves the
\* durable bytes with some of the buffer behind them.
LEMMA CrashLeaves ==
  ASSUME FileInv, Crash, phase # "refresh", ~faulty
  PROVE  \E n \in 0..Len(buffer) : disk' = SubSeq(disk, 1, fileSize) \o SubSeq(buffer, 1, n)
<1>0. /\ disk \in Seq(Bytes) /\ buffer \in Seq(Bytes) /\ fileSize \in Nat
      /\ phase \in {"idle", "write", "truncate"}
  BY DEF FileInv, TypeOK, Crash
<1>1. ASSUME phase \in {"idle", "write"}
      PROVE  SubSeq(disk, 1, fileSize) = disk
  <2>1. fileSize = Len(disk)
    BY <1>1, Zenon DEF FileInv, CommitProgress
  <2> QED
    BY <1>0, <2>1
<1>2. CASE disk' = disk /\ phase \in {"idle", "write"}
  <2>1. SubSeq(buffer, 1, 0) = <<>> /\ 0 \in 0..Len(buffer)
    BY <1>0
  <2>2. disk \o <<>> = disk
    BY <1>0
  <2> QED
    BY <1>1, <1>2, <2>1, <2>2
<1>3. CASE disk' = disk /\ phase = "truncate"
  <2>1. disk = SubSeq(disk, 1, fileSize) \o buffer
    BY <1>3, Zenon DEF FileInv, CommitProgress
  <2>2. SubSeq(buffer, 1, Len(buffer)) = buffer /\ Len(buffer) \in 0..Len(buffer)
    BY <1>0
  <2> QED
    BY <1>3, <2>1, <2>2
<1>4. CASE disk' # disk
  <2>1. phase = "write" /\ \E n \in 0..Len(buffer) : disk' = Written(n)
    BY <1>4 DEF Crash
  <2> QED
    BY <1>1, <2>1 DEF Written
<1> QED
  BY <1>0, <1>2, <1>3, <1>4

\* A crash never touches the bytes kept, cuts an appending batch short, and
\* applies a rewinding one as a whole or not at all.
LEMMA CrashCrashes ==
  ASSUME FileInv, FileInv', Crash
  PROVE  Log!LogCrash
<1> DEFINE d == SubSeq(disk, 1, fileSize)
           k == SubSeq(d, 1, bufferIndex)
<1>0. /\ disk \in Seq(Bytes) /\ buffer \in Seq(Bytes) /\ fileSize \in Nat /\ bufferIndex \in Nat
      /\ disk' \in Seq(Bytes)
  BY DEF FileInv, TypeOK
<1>1. /\ phase # "closed" /\ phase' = "closed" /\ bufferIndex' = 0 /\ buffer' = <<>>
      /\ UNCHANGED faulty
  BY DEF Crash
<1>2. CASE phase = "refresh"
  <2>1. disk' = disk
    BY <1>2 DEF Crash
  <2>2. SubSeq(disk, 1, Len(disk)) = disk /\ disk \o <<>> = disk
    BY <1>0
  <2>3. Log!IsPrefix(disk, disk)
    BY <1>0, PrefixByIndex
  <2> QED
    BY <1>1, <1>2, <2>1, <2>2, <2>3 DEF Log!LogCrash, Log!LogView
<1>3. CASE phase # "refresh"
  <2>1. bufferIndex <= fileSize /\ fileSize <= Len(disk)
    BY <1>1, <1>3 DEF FileInv, IndexInFile
  <2>2. d \in Seq(Bytes) /\ Len(d) = fileSize /\ \A i \in 1..fileSize : d[i] = disk[i]
    BY <1>0, <2>1
  <2> HIDE DEF d
  <2>3. k \in Seq(Bytes) /\ Len(k) = bufferIndex /\ \A i \in 1..bufferIndex : k[i] = disk[i]
    BY <1>0, <2>1, <2>2
  <2>4. Len(disk') >= bufferIndex /\ \A i \in 1..bufferIndex : disk'[i] = disk[i]
    BY <1>1, KeptStep DEF Next
  <2>5. Log!IsPrefix(k, disk')
    <3> HIDE DEF k
    <3> QED
      BY <1>0, <2>3, <2>4, PrefixByIndex
  <2>6. bufferIndex = fileSize => k = d
    BY <1>0, <2>2
  <2>7. ASSUME ~faulty
        PROVE  /\ Log!IsPrefix(disk', d \o buffer)
               /\ buffer = <<>> => disk' = d
    <3>1. PICK n \in 0..Len(buffer) : disk' = d \o SubSeq(buffer, 1, n)
      BY <1>3, <2>7, CrashLeaves DEF d
    <3> DEFINE b == SubSeq(buffer, 1, n)
               v == d \o buffer
    <3>2. b \in Seq(Bytes) /\ Len(b) = n /\ \A i \in 1..n : b[i] = buffer[i]
      BY <1>0
    <3> HIDE DEF b
    <3>3. /\ Len(disk') = fileSize + n
          /\ \A i \in 1..(fileSize + n) : disk'[i] = IF i <= fileSize THEN d[i] ELSE b[i - fileSize]
      BY <1>0, <2>2, <3>1, <3>2 DEF b
    <3>4. /\ v \in Seq(Bytes) /\ Len(v) = fileSize + Len(buffer)
          /\ \A i \in 1..(fileSize + Len(buffer)) : v[i] = IF i <= fileSize THEN d[i] ELSE buffer[i - fileSize]
      BY <1>0, <2>2, ConcatProperties
    <3> HIDE DEF v
    <3>5. \A i \in 1..(fileSize + n) : disk'[i] = v[i]
      <4> TAKE i \in 1..(fileSize + n)
      <4>1. i \in 1..(fileSize + Len(buffer)) /\ (~(i <= fileSize) => i - fileSize \in 1..n)
        BY <1>0
      <4> QED
        BY <1>0, <3>2, <3>3, <3>4, <4>1
    <3>6. Log!IsPrefix(disk', v)
      <4>1. Len(disk') <= Len(v)
        BY <1>0, <3>3, <3>4
      <4>2. \A i \in 1..Len(disk') : disk'[i] = v[i]
        BY <3>3, <3>5
      <4> QED
        BY <1>0, <3>4, <4>1, <4>2, PrefixByIndex
    <3>7. buffer = <<>> => disk' = d
      BY <1>0, <2>2, <3>1
    <3> QED
      BY <3>6, <3>7 DEF v
  <2> QED
    BY <1>1, <1>3, <2>2, <2>5, <2>6, <2>7 DEF Log!LogCrash, Log!LogView, d
<1> QED
  BY <1>2, <1>3

\* Every step of the file is a step of the batched log, or none.
LEMMA LogStep ==
  ASSUME SizeIsKnown, FileInv, FileInv', [Next]_vars
  PROVE  [Log!LogNext]_(Log!logVars)
<1>0. /\ disk \in Seq(Bytes) /\ buffer \in Seq(Bytes) /\ fileSize \in Nat /\ bufferIndex \in Nat
      /\ phase \in {"idle", "write", "truncate", "refresh", "closed"}
  BY DEF FileInv, TypeOK
<1>1. CASE UNCHANGED vars
  BY <1>1 DEF vars, Log!logVars
<1>2. ASSUME NEW bytes \in Chunks, AppendBytes(bytes)
      PROVE  Log!LogAppend
  BY <1>0, <1>2, ChunksType DEF AppendBytes, Log!LogAppend, Log!IsPrefix
<1>3. ASSUME NEW position \in 0..MaxLen, Rewind(position)
      PROVE  Log!LogRewind
  <2>1. phase = "idle" /\ phase' = "idle" /\ UNCHANGED <<disk, fileSize, faulty>>
    BY <1>3 DEF Rewind
  <2>2. CASE position <= bufferIndex
    <3>1. bufferIndex' \in 0..bufferIndex /\ buffer' = <<>>
      BY <1>0, <1>3, <2>2 DEF Rewind
    <3> QED
      BY <2>1, <3>1 DEF Log!LogRewind
  <2>3. CASE position > bufferIndex
    <3>0. position - bufferIndex \in 0..Len(buffer)
      BY <1>0, <1>3, <2>3 DEF Rewind, GetSize
    <3>1. bufferIndex' = bufferIndex /\ buffer' = SubSeq(buffer, 1, position - bufferIndex)
      BY <1>0, <1>3, <2>3 DEF Rewind
    <3>2. Log!IsPrefix(buffer', buffer)
      BY <1>0, <3>0, <3>1 DEF Log!IsPrefix
    <3> QED
      BY <2>1, <3>1, <3>2 DEF Log!LogRewind
  <2> QED
    BY <1>0, <2>2, <2>3
<1>4. CASE Rollback
  <2>1. fileSize <= Len(disk)
    BY <1>4 DEF Rollback, FileInv, IndexInFile
  <2>2. Len(SubSeq(disk, 1, fileSize)) = fileSize
    BY <1>0, <2>1
  <2>3. Log!LogRollback
    BY <1>4, <2>2 DEF Rollback, Log!LogRollback
  <2> QED
    BY <2>3 DEF Log!LogNext
<1>5. CASE CommitBegin
  BY <1>5 DEF CommitBegin, batch, Log!logVars
<1>6. CASE CommitWrite
  <2>1. PICK n \in 0..Len(buffer) : disk' = Written(n) /\ faulty' = (faulty \/ n # Len(buffer))
    BY <1>6 DEF CommitWrite
  <2>2. phase = "write" /\ phase' = "truncate" /\ UNCHANGED <<fileSize, bufferIndex, buffer>>
    BY <1>6 DEF CommitWrite, batch
  <2>3. fileSize <= Len(disk)
    BY <2>2 DEF FileInv, IndexInFile
  <2>4. disk' \in Seq(Bytes) /\ Len(disk) <= Len(disk') /\ \A i \in 1..Len(disk) : disk'[i] = disk[i]
    BY <1>0, <2>1, WrittenType DEF FileInv
  <2>5. SubSeq(disk', 1, fileSize) = SubSeq(disk, 1, fileSize)
    BY <1>0, <2>3, <2>4, SameWindow
  <2>6. CASE faulty'
    <3>1. Log!LogFault
      BY <2>2, <2>5, <2>6 DEF Log!LogFault
    <3> QED
      BY <3>1 DEF Log!LogNext
  <2>7. CASE ~faulty'
    <3>1. faulty' = faulty
      BY <2>1, <2>7, Zenon DEF FileInv, TypeOK
    <3> QED
      BY <2>2, <2>5, <3>1 DEF Log!logVars
  <2> QED
    BY <2>6, <2>7
<1>7. CASE CommitTruncate
  BY <1>7, TruncateCommits DEF Log!LogNext
<1>8. CASE CommitFails
  <2>1. /\ phase \in {"write", "truncate", "idle", "closed"} /\ phase' = "idle" /\ faulty'
        /\ UNCHANGED <<disk, fileSize, bufferIndex, buffer>>
    BY <1>0, <1>8 DEF CommitFails, SizeIsKnown, batch
  <2>2. phase # "closed"
    BY <1>8, AppendOnlyFileAssumption DEF CommitFails
  <2>3. Log!LogFault
    BY <2>1, <2>2 DEF Log!LogFault
  <2> QED
    BY <2>3 DEF Log!LogNext
<1>9. CASE CommitRefresh
  <2>1. /\ phase = "refresh" /\ phase' = "idle" /\ fileSize' = Len(disk) /\ bufferIndex' = Len(disk)
        /\ buffer' = <<>> /\ disk' = disk
    BY <1>9 DEF CommitRefresh
  <2>2. SubSeq(disk, 1, Len(disk)) = disk
    BY <1>0
  <2>3. CASE faulty'
    <3>1. Log!LogFault
      BY <2>1, <2>2, <2>3 DEF Log!LogFault
    <3> QED
      BY <3>1 DEF Log!LogNext
  <2>4. CASE ~faulty'
    <3>1. faulty' = faulty
      BY <1>9, <2>4, Zenon DEF CommitRefresh
    <3> QED
      BY <2>1, <2>2, <3>1 DEF Log!logVars
  <2> QED
    BY <2>3, <2>4
<1>10. CASE Crash
  BY <1>10, CrashCrashes DEF Log!LogNext
<1>11. CASE Load
  <2>1. Log!LogOpen
    BY <1>0, <1>11 DEF Load, Log!LogOpen
  <2> QED
    BY <2>1 DEF Log!LogNext
<1> QED
  BY <1>1, <1>2, <1>3, <1>4, <1>5, <1>6, <1>7, <1>8, <1>9, <1>10, <1>11 DEF Next, Log!LogNext

\* AppendOnlyFile implements the batched log, whatever the sizes of the file and
\* of its batches and wherever calls fail or the process dies.
THEOREM RefinesLog ==
  ASSUME SizeIsKnown
  PROVE  Spec => ImplementsLog
<1>1. Init => Log!LogInit
  BY DEF Init, Log!LogInit
<1>2. FileInv /\ FileInv' /\ [Next]_vars => [Log!LogNext]_(Log!logVars)
  BY LogStep
<1> QED
  BY <1>1, <1>2, FileInvariant, PTL DEF Spec, ImplementsLog, Log!LogSpec

=============================================================================
