--------------------------- MODULE LockingProofs ---------------------------
(***************************************************************************)
(* Proofs about Locking, for any number of threads and objects: the        *)
(* inductive invariant LockingInv and what follows from it.                *)
(***************************************************************************)
EXTENDS Locking, TLAPS

\* Every call a thread can make names known objects and a kind of handle.
LEMMA CallsType ==
  ASSUME NEW c \in Calls
  PROVE  c.objects \in SUBSET Objects /\ c.kind \in HandleKind
BY LockingAssumption
DEF Calls, Read, Write, BatchWrite, LockShared, Lock, HandleKind, WriterKind, Batched

\* A batch writer or a writer of Lock is a writer: the kinds are distinct.
LEMMA KindsDistinct ==
  /\ "reader" \notin WriterKind /\ "none" \notin HandleKind /\ "closing" \notin HandleKind
  /\ WriterKind \subseteq HandleKind /\ Batched \subseteq WriterKind
  /\ "writer" \in WriterKind /\ "reader" \in HandleKind /\ "writer" \notin Batched
BY DEF HandleKind, WriterKind, Batched

\* Every state has the declared types.
LEMMA TypeStep ==
  ASSUME TypeOK, [Next]_vars
  PROVE  TypeOK'
<1> USE LockingAssumption DEF TypeOK, locks, calls, handles, data, Running
<1>1. CASE UNCHANGED vars
  BY <1>1 DEF vars
<1>2. ASSUME NEW t \in Threads, NEW c \in Calls, Call(t, c)
      PROVE  TypeOK'
  BY <1>2, CallsType DEF Call
<1>3. ASSUME NEW t \in Threads, Build(t)
      PROVE  TypeOK'
  <2>1. handle' \in [Threads -> [Objects -> HandleKind \cup {"none", "closing"}]]
    BY <1>3 DEF Build
  <2>2. refs' \in [Threads -> [Objects -> 0..MaxRefs]]
    BY <1>3 DEF Build
  <2>3. dirty' \in [Objects -> BOOLEAN]
    BY <1>3 DEF Build
  <2> QED
    BY <1>3, <2>1, <2>2, <2>3 DEF Build
<1>4. ASSUME NEW t \in Threads, NEW built \in SUBSET Batchable, BuildThrows(t, built)
      PROVE  TypeOK'
  BY <1>4 DEF BuildThrows
<1>5. ASSUME NEW t \in Threads, NEW o \in Objects, TakeMutex(t, o)
      PROVE  TypeOK'
  <2>1. shared' \in [Objects -> SUBSET Threads] /\ excl' \in [Objects -> Threads \cup {NoThread}]
    <3>1. CASE kind[t] = "reader"
      BY <1>5, <3>1 DEF TakeMutex
    <3>2. CASE kind[t] # "reader"
      BY <1>5, <3>2 DEF TakeMutex
    <3> QED
      BY <3>1, <3>2
  <2>2. held' \in [Threads -> SUBSET Objects]
    BY <1>5 DEF TakeMutex
  <2> QED
    BY <1>5, <2>1, <2>2 DEF TakeMutex
<1>6. ASSUME NEW t \in Threads, NEW o \in Objects, BackOff(t, o)
      PROVE  TypeOK'
  BY <1>6 DEF BackOff
<1>7. ASSUME NEW t \in Threads, NEW o \in Objects, NEW v \in Values, Modify(t, o, v)
      PROVE  TypeOK'
  BY <1>7 DEF Modify
<1>8. ASSUME NEW t \in Threads, NEW o \in Objects, CommitBatch(t, o)
      PROVE  TypeOK'
  BY <1>8 DEF CommitBatch
<1>9. ASSUME NEW t \in Threads, NEW o \in Objects, RollbackBatch(t, o)
      PROVE  TypeOK'
  BY <1>9 DEF RollbackBatch
<1>10. ASSUME NEW t \in Threads, NEW o \in Objects, Copy(t, o)
       PROVE  TypeOK'
  BY <1>10 DEF Copy
<1>11. ASSUME NEW t \in Threads, NEW o \in Objects, DropCopy(t, o)
       PROVE  TypeOK'
  BY <1>11 DEF DropCopy
<1>12. ASSUME NEW t \in Threads, NEW o \in Objects, DestroyReader(t, o)
       PROVE  TypeOK'
  BY <1>12 DEF DestroyReader
<1>13. ASSUME NEW t \in Threads, NEW o \in Objects, DestroyWriter(t, o)
       PROVE  TypeOK'
  BY <1>13 DEF DestroyWriter
<1>14. ASSUME NEW t \in Threads, NEW o \in Objects, Unlock(t, o)
       PROVE  TypeOK'
  BY <1>14 DEF Unlock
<1>15. ASSUME NEW t \in Threads, NEW o \in Objects, CommitThrows(t, o)
       PROVE  TypeOK'
  BY <1>15 DEF CommitThrows
<1> QED
  BY <1>1, <1>2, <1>3, <1>4, <1>5, <1>6, <1>7, <1>8, <1>9, <1>10, <1>11, <1>12,
     <1>13, <1>14, <1>15 DEF Next, Step

\* Who owns a mutex exclusively is the only one with a handle on its object.
LEMMA OwnerAlone ==
  ASSUME TypeOK, MutexInv, NEW t \in Threads, NEW o \in Objects, excl[o] = t
  PROVE  shared[o] = {} /\ \A u \in Threads : handle[u][o] # "reader" /\ (u # t => handle[u][o] = "none")
<1>1. shared[o] = {}
  BY LockingAssumption DEF MutexInv
<1>2. ASSUME NEW u \in Threads
      PROVE  handle[u][o] # "reader" /\ (u # t => handle[u][o] = "none")
  <2>1. handle[u][o] # "reader"
    BY <1>1 DEF MutexInv
  <2>2. handle[u][o] \in WriterKind \cup {"closing"} => excl[o] = u
    BY DEF MutexInv
  <2>3. handle[u][o] \in HandleKind \cup {"none", "closing"}
    BY DEF TypeOK
  <2> QED
    BY <2>1, <2>2, <2>3 DEF HandleKind
<1> QED
  BY <1>1, <1>2

\* A reader's mutex is not owned exclusively, so its object has no writer.
LEMMA ReaderShares ==
  ASSUME TypeOK, MutexInv, NEW t \in Threads, NEW o \in Objects, handle[t][o] = "reader"
  PROVE  t \in shared[o] /\ \A u \in Threads : excl[o] # u /\ handle[u][o] \notin WriterKind \cup {"closing"}
<1>1. t \in shared[o]
  BY DEF MutexInv
<1>2. ASSUME NEW u \in Threads, excl[o] = u
      PROVE  FALSE
  BY <1>1, <1>2, OwnerAlone
<1> QED
  BY <1>1, <1>2 DEF MutexInv

\* Every step keeps the mutexes and what the calls and handles hold in agreement.
LEMMA MutexStep ==
  ASSUME TypeOK, TypeOK', MutexInv, [Next]_vars
  PROVE  MutexInv'
<1> USE LockingAssumption, KindsDistinct DEF TypeOK, MutexInv, locks, calls, handles, data, Running
<1>1. CASE UNCHANGED vars
  BY <1>1 DEF vars
<1>2. ASSUME NEW t \in Threads, NEW c \in Calls, Call(t, c)
      PROVE  MutexInv'
  BY <1>2, CallsType DEF Call, Holds
<1>3. ASSUME NEW t \in Threads, Build(t)
      PROVE  MutexInv'
  BY <1>3 DEF Build
<1>4. ASSUME NEW t \in Threads, NEW built \in SUBSET Batchable, BuildThrows(t, built)
      PROVE  MutexInv'
  BY <1>4 DEF BuildThrows
<1>5. ASSUME NEW t \in Threads, NEW o \in Objects, TakeMutex(t, o)
      PROVE  MutexInv'
  <2>1. CASE kind[t] = "reader"
    <3>1. /\ excl' = excl /\ excl[o] = NoThread /\ want' = want /\ kind' = kind /\ handle' = handle
          /\ held' = [held EXCEPT ![t] = @ \cup {o}] /\ o \in want[t]
          /\ shared' = [shared EXCEPT ![o] = @ \cup {t}]
      BY <1>5, <2>1 DEF TakeMutex, MutexFree
    <3>2. \A p \in Objects : shared[p] \subseteq shared'[p] /\ (p # o => shared'[p] = shared[p])
      BY <3>1
    <3>3. t \in shared'[o]
      BY <3>1
    <3>4. held'[t] = held[t] \cup {o} /\ \A u \in Threads \ {t} : held'[u] = held[u]
      <4>1. held \in [Threads -> SUBSET Objects]
        OBVIOUS
      <4> HIDE DEF TypeOK, MutexInv
      <4> QED
        BY <3>1, <4>1
    <3>5. ASSUME NEW p \in Objects, excl'[p] # NoThread
          PROVE  shared'[p] = {}
      <4>1. p # o /\ excl[p] # NoThread
        BY <3>1, <3>5
      <4>2. shared[p] = {}
        BY <4>1
      <4> QED
        BY <3>2, <4>1, <4>2
    <3>6. ASSUME NEW u \in Threads
          PROVE  /\ held'[u] \subseteq want'[u]
                 /\ \A p \in want'[u] : handle'[u][p] = "none"
                 /\ \A p \in held'[u] : IF kind'[u] = "reader" THEN u \in shared'[p] ELSE excl'[p] = u
      BY <2>1, <3>1, <3>2, <3>3, <3>4
    <3>7. ASSUME NEW u \in Threads, NEW p \in Objects
          PROVE  /\ handle'[u][p] = "reader" => u \in shared'[p]
                 /\ handle'[u][p] \in WriterKind \cup {"closing"} => excl'[p] = u
      BY <3>1, <3>2
    <3> QED
      BY <3>5, <3>6, <3>7
  <2>2. CASE kind[t] # "reader"
    BY <1>5, <2>2 DEF TakeMutex, MutexFree
  <2> QED
    BY <2>1, <2>2
<1>6. ASSUME NEW t \in Threads, NEW o \in Objects, BackOff(t, o)
      PROVE  MutexInv'
  BY <1>6 DEF BackOff
<1>7. ASSUME NEW t \in Threads, NEW o \in Objects, NEW v \in Values, Modify(t, o, v)
      PROVE  MutexInv'
  BY <1>7 DEF Modify
<1>8. ASSUME NEW t \in Threads, NEW o \in Objects, CommitBatch(t, o)
      PROVE  MutexInv'
  BY <1>8 DEF CommitBatch
<1>9. ASSUME NEW t \in Threads, NEW o \in Objects, RollbackBatch(t, o)
      PROVE  MutexInv'
  BY <1>9 DEF RollbackBatch
<1>10. ASSUME NEW t \in Threads, NEW o \in Objects, Copy(t, o)
      PROVE  MutexInv'
  BY <1>10 DEF Copy
<1>11. ASSUME NEW t \in Threads, NEW o \in Objects, DropCopy(t, o)
      PROVE  MutexInv'
  BY <1>11 DEF DropCopy
<1>12. ASSUME NEW t \in Threads, NEW o \in Objects, DestroyReader(t, o)
      PROVE  MutexInv'
  BY <1>12 DEF DestroyReader
<1>13. ASSUME NEW t \in Threads, NEW o \in Objects, DestroyWriter(t, o)
      PROVE  MutexInv'
  BY <1>13 DEF DestroyWriter, Writing
<1>14. ASSUME NEW t \in Threads, NEW o \in Objects, Unlock(t, o)
      PROVE  MutexInv'
  BY <1>14 DEF Unlock
<1>15. ASSUME NEW t \in Threads, NEW o \in Objects, CommitThrows(t, o)
      PROVE  MutexInv'
  BY <1>15 DEF CommitThrows
<1> HIDE DEF TypeOK, MutexInv
<1> QED
  BY <1>1, <1>2, <1>3, <1>4, <1>5, <1>6, <1>7, <1>8, <1>9, <1>10, <1>11, <1>12, <1>13, <1>14, <1>15
  DEF Next, Step

\* Every step keeps m_dirty true to the object.
LEMMA DirtyStep ==
  ASSUME TypeOK, TypeOK', MutexInv, DirtyInv, [Next]_vars
  PROVE  DirtyInv'
<1> USE LockingAssumption, KindsDistinct DEF TypeOK, DirtyInv, locks, calls, handles, data, Running, Writing
<1>1. CASE UNCHANGED vars
  BY <1>1 DEF vars
<1>2. ASSUME NEW t \in Threads, NEW c \in Calls, Call(t, c)
      PROVE  DirtyInv'
  BY <1>2, CallsType DEF Call, Holds
<1>3. ASSUME NEW t \in Threads, Build(t)
      PROVE  DirtyInv'
  <2> SUFFICES ASSUME NEW p \in Batchable
               PROVE  /\ ~dirty'[p] => value'[p] = saved'[p]
                      /\ dirty'[p] => \E u \in Threads : handle'[u][p] \in WriterKind
                      /\ p \notin SelfTracking =>
                           \A u \in Threads : handle'[u][p] \in WriterKind => dirty'[p]
    OBVIOUS
  <2>1. p \in want[t] => handle[t][p] = "none"
    BY DEF MutexInv
  <2>2. CASE p \in want[t] /\ kind[t] # "reader"
    <3>1. dirty'[p] = TRUE /\ handle'[t][p] = kind[t]
      BY <1>3, <2>2 DEF Build
    <3>2. kind[t] \in WriterKind
      BY <2>2 DEF HandleKind
    <3> QED
      BY <3>1, <3>2
  <2>3. CASE ~(p \in want[t] /\ kind[t] # "reader")
    <3>1. dirty'[p] = dirty[p] /\ value'[p] = value[p] /\ saved'[p] = saved[p]
      BY <1>3, <2>3 DEF Build
    <3>2. \A u \in Threads : handle'[u][p] \in WriterKind <=> handle[u][p] \in WriterKind
      BY <1>3, <2>1, <2>3 DEF Build
    <3> QED
      BY <3>1, <3>2
  <2> QED
    BY <2>2, <2>3
<1>4. ASSUME NEW t \in Threads, NEW built \in SUBSET Batchable, BuildThrows(t, built)
      PROVE  DirtyInv'
  <2>1. \A p \in built : \A u \in Threads : handle[u][p] \notin WriterKind
    <3> SUFFICES ASSUME NEW p \in built, NEW u \in Threads
                 PROVE  handle[u][p] \notin WriterKind
      OBVIOUS
    <3>0. kind[t] \in Batched /\ held[t] = want[t] /\ built \subseteq want[t]
      BY <1>4 DEF BuildThrows
    <3>1. p \in Objects /\ p \in held[t] /\ p \in want[t] /\ kind[t] # "reader"
      BY <3>0
    <3>2. excl[p] = t /\ handle[t][p] = "none"
      BY <3>1 DEF MutexInv
    <3> HIDE DEF TypeOK, DirtyInv
    <3> QED
      BY <3>1, <3>2, OwnerAlone
  <2> QED
    BY <1>4, <2>1 DEF BuildThrows
<1>5. ASSUME NEW t \in Threads, NEW o \in Objects, TakeMutex(t, o)
      PROVE  DirtyInv'
  BY <1>5 DEF TakeMutex
<1>6. ASSUME NEW t \in Threads, NEW o \in Objects, BackOff(t, o)
      PROVE  DirtyInv'
  BY <1>6 DEF BackOff
<1>7. ASSUME NEW t \in Threads, NEW o \in Objects, NEW v \in Values, Modify(t, o, v)
      PROVE  DirtyInv'
  BY <1>7 DEF Modify
<1>8. ASSUME NEW t \in Threads, NEW o \in Objects, CommitBatch(t, o)
      PROVE  DirtyInv'
  BY <1>8 DEF CommitBatch
<1>9. ASSUME NEW t \in Threads, NEW o \in Objects, RollbackBatch(t, o)
      PROVE  DirtyInv'
  BY <1>9 DEF RollbackBatch
<1>10. ASSUME NEW t \in Threads, NEW o \in Objects, Copy(t, o)
      PROVE  DirtyInv'
  BY <1>10 DEF Copy
<1>11. ASSUME NEW t \in Threads, NEW o \in Objects, DropCopy(t, o)
      PROVE  DirtyInv'
  BY <1>11 DEF DropCopy
<1>12. ASSUME NEW t \in Threads, NEW o \in Objects, DestroyReader(t, o)
      PROVE  DirtyInv'
  BY <1>12 DEF DestroyReader
<1>13. ASSUME NEW t \in Threads, NEW o \in Objects, DestroyWriter(t, o)
      PROVE  DirtyInv'
  <2>1. \A u \in Threads \ {t} : handle[u][o] \notin WriterKind
    BY <1>13 DEF DestroyWriter, MutexInv
  <2>2. \A u \in Threads : handle'[u][o] \notin WriterKind
    BY <1>13, <2>1 DEF DestroyWriter
  <2>3. \A p \in Objects \ {o}, u \in Threads : handle'[u][p] = handle[u][p]
    BY <1>13 DEF DestroyWriter
  <2>4. \A p \in Objects \ {o} :
          value'[p] = value[p] /\ saved'[p] = saved[p] /\ dirty'[p] = dirty[p]
    BY <1>13 DEF DestroyWriter
  <2>5. o \in Batchable => ~dirty'[o] /\ value'[o] = saved'[o]
    BY <1>13 DEF DestroyWriter, WriterKind
  <2> SUFFICES ASSUME NEW p \in Batchable
               PROVE  /\ ~dirty'[p] => value'[p] = saved'[p]
                      /\ dirty'[p] => \E u \in Threads : handle'[u][p] \in WriterKind
                      /\ p \notin SelfTracking =>
                           \A u \in Threads : handle'[u][p] \in WriterKind => dirty'[p]
    OBVIOUS
  <2>6. CASE p = o
    BY <2>2, <2>5, <2>6
  <2>7. CASE p # o
    BY <2>3, <2>4, <2>7
  <2> QED
    BY <2>6, <2>7
<1>14. ASSUME NEW t \in Threads, NEW o \in Objects, Unlock(t, o)
      PROVE  DirtyInv'
  BY <1>14 DEF Unlock
<1>15. ASSUME NEW t \in Threads, NEW o \in Objects, CommitThrows(t, o)
      PROVE  DirtyInv'
  BY <1>15 DEF CommitThrows
<1> QED
  BY <1>1, <1>2, <1>3, <1>4, <1>5, <1>6, <1>7, <1>8, <1>9, <1>10, <1>11, <1>12, <1>13, <1>14, <1>15
  DEF Next, Step

\* The mutex discipline, the dirty flag and the types hold in every state the
\* program reaches, for any threads, objects and MultiLocker argument lists.
THEOREM LockingInvariant == Spec => []LockingInv
<1>1. Init => LockingInv
  <2> SUFFICES ASSUME Init
               PROVE  LockingInv
    OBVIOUS
  <2>1. TypeOK
    BY LockingAssumption, KindsDistinct DEF Init, TypeOK
  <2>2. MutexInv
    BY KindsDistinct DEF Init, MutexInv
  <2>3. DirtyInv
    BY LockingAssumption, KindsDistinct DEF Init, DirtyInv, Writing
  <2> QED
    BY <2>1, <2>2, <2>3 DEF LockingInv
<1>2. LockingInv /\ [Next]_vars => LockingInv'
  BY TypeStep, MutexStep, DirtyStep DEF LockingInv
<1> QED
  BY <1>1, <1>2, PTL DEF Spec

\* Types, as a property of the specification.
THEOREM TypeCorrect == Spec => []TypeOK
<1>1. LockingInv => TypeOK
  BY DEF LockingInv
<1> QED
  BY <1>1, LockingInvariant, PTL

\* Reader/writer exclusion: every live handle's thread holds the mutex in the
\* handle's mode, and a writer's handle is the only one on its object.
THEOREM MutualExclusion == Spec => []HandlesHoldMutex
<1>1. ASSUME LockingInv
      PROVE  HandlesHoldMutex
  <2> SUFFICES ASSUME NEW t \in Threads, NEW o \in Objects
               PROVE  /\ handle[t][o] = "reader" =>
                           t \in shared[o] /\ \A u \in Threads : ~Writing(u, o) /\ handle[u][o] # "closing"
                      /\ Writing(t, o) \/ handle[t][o] = "closing" =>
                           excl[o] = t /\ \A u \in Threads \ {t} : handle[u][o] = "none"
    BY DEF HandlesHoldMutex
  <2>1. TypeOK /\ MutexInv
    BY <1>1 DEF LockingInv
  <2>2. CASE handle[t][o] = "reader"
    BY <2>1, <2>2, ReaderShares, KindsDistinct DEF Writing
  <2>3. CASE handle[t][o] \in WriterKind \cup {"closing"}
    <3>1. excl[o] = t
      BY <2>1, <2>3 DEF MutexInv
    <3> QED
      BY <2>1, <2>3, <3>1, OwnerAlone, KindsDistinct
  <2> QED
    BY <2>2, <2>3 DEF Writing
<1> QED
  BY <1>1, LockingInvariant, PTL

\* ~InnerWriter leaves no uncommitted contents behind.
THEOREM CommittedAtRest == Spec => []NothingUncommitted
<1>1. LockingInv => NothingUncommitted
  BY DEF LockingInv, DirtyInv, NothingUncommitted
<1> QED
  BY <1>1, LockingInvariant, PTL

\* No step changes an object somebody holds a Reader of.
THEOREM StableReads == Spec => ReadersSeeStable
<1> DEFINE Stable == \A t \in Threads, o \in Objects :
                       handle[t][o] = "reader" /\ handle'[t][o] = "reader" =>
                         value'[o] = value[o] /\ saved'[o] = saved[o]
<1>1. LockingInv /\ [Next]_vars => [Stable]_vars
  <2> SUFFICES ASSUME LockingInv, Next, NEW r \in Threads, NEW p \in Objects,
                      handle[r][p] = "reader"
               PROVE  value'[p] = value[p] /\ saved'[p] = saved[p]
    BY DEF vars
  <2> USE LockingAssumption, KindsDistinct
      DEF LockingInv, TypeOK, locks, calls, handles, data, Running
  <2>1. \A u \in Threads : excl[p] # u
    BY ReaderShares
  <2>2. \A u \in Threads : ~Writing(u, p)
    BY ReaderShares DEF Writing
  <2>3. ASSUME NEW t \in Threads, NEW built \in SUBSET Batchable, BuildThrows(t, built)
        PROVE  value'[p] = value[p] /\ saved'[p] = saved[p]
    <3>1. p \notin built
      <4>1. want[t] = held[t] /\ kind[t] # "reader" /\ built \subseteq want[t]
        BY <2>3 DEF BuildThrows
      <4> QED
        BY <2>1, <4>1, SMTT(40) DEF MutexInv
    <3> QED
      BY <2>3, <3>1 DEF BuildThrows
  <2>4. ASSUME NEW t \in Threads, NEW o \in Objects, NEW v \in Values, Modify(t, o, v)
        PROVE  value'[p] = value[p] /\ saved'[p] = saved[p]
    BY <2>2, <2>4 DEF Modify
  <2>5. ASSUME NEW t \in Threads, NEW o \in Objects, CommitBatch(t, o) \/ RollbackBatch(t, o)
        PROVE  value'[p] = value[p] /\ saved'[p] = saved[p]
    BY <2>2, <2>5 DEF CommitBatch, RollbackBatch
  <2>6. ASSUME NEW t \in Threads, NEW o \in Objects, DestroyWriter(t, o)
        PROVE  value'[p] = value[p] /\ saved'[p] = saved[p]
    BY <2>2, <2>6 DEF DestroyWriter
  <2>7. ASSUME NEW t \in Threads, (\E c \in Calls : Call(t, c)) \/ Build(t)
        PROVE  value'[p] = value[p] /\ saved'[p] = saved[p]
    BY <2>7 DEF Call, Build
  <2>8. ASSUME NEW t \in Threads, NEW o \in Objects,
               TakeMutex(t, o) \/ BackOff(t, o) \/ Copy(t, o) \/ DropCopy(t, o)
        PROVE  value'[p] = value[p] /\ saved'[p] = saved[p]
    BY <2>8 DEF TakeMutex, BackOff, Copy, DropCopy
  <2>9. ASSUME NEW t \in Threads, NEW o \in Objects,
               DestroyReader(t, o) \/ Unlock(t, o) \/ CommitThrows(t, o)
        PROVE  value'[p] = value[p] /\ saved'[p] = saved[p]
    BY <2>9 DEF DestroyReader, Unlock, CommitThrows
  <2> QED
    BY <2>3, <2>4, <2>5, <2>6, <2>7, <2>8, <2>9 DEF Next, Step
<1> QED
  BY <1>1, LockingInvariant, PTL DEF Spec, ReadersSeeStable

-----------------------------------------------------------------------------
(***************************************************************************)
(* No mutex is lost.  MultiLocker::Lock does lose one when it is given an  *)
(* object without IBatchable (BuildThrows), so the claim is for programs   *)
(* that never do that.                                                     *)
(***************************************************************************)
LocksBatchable == \A S \in LockSets : S \subseteq Batchable

\* A pending call for batched writers asks for batchable objects only.
WantsBatchable == \A t \in Threads : kind[t] \in Batched => want[t] \subseteq Batchable

\* Where Lock is given batchable objects, so is every pending call.
LEMMA WantsStep ==
  ASSUME LocksBatchable, TypeOK, WantsBatchable, [Next]_vars
  PROVE  WantsBatchable'
<1> USE DEF WantsBatchable
<1>1. \A c \in Calls : c.kind \in Batched => c.objects \subseteq Batchable
  BY DEF LocksBatchable, Calls, Read, Write, BatchWrite, LockShared, Lock, Batched
<1>2. ASSUME NEW t \in Threads, NEW c \in Calls, Call(t, c)
      PROVE  WantsBatchable'
  BY <1>1, <1>2 DEF Call, TypeOK
<1>3. CASE UNCHANGED <<want, kind>>
  BY <1>3
<1>4. ASSUME NEW t \in Threads, want' = [want EXCEPT ![t] = {}], kind' = kind
      PROVE  WantsBatchable'
  BY <1>4 DEF TypeOK
<1>5. ASSUME NEW t \in Threads, Build(t) \/ \E built \in SUBSET Batchable : BuildThrows(t, built)
      PROVE  want' = [want EXCEPT ![t] = {}] /\ kind' = kind
  BY <1>5 DEF Build, BuildThrows
<1>6. ASSUME NEW t \in Threads, NEW o \in Objects,
             TakeMutex(t, o) \/ BackOff(t, o) \/ CommitBatch(t, o) \/ RollbackBatch(t, o)
      PROVE  UNCHANGED <<want, kind>>
  BY <1>6 DEF TakeMutex, BackOff, CommitBatch, RollbackBatch, calls
<1>7. ASSUME NEW t \in Threads, NEW o \in Objects,
             \/ Copy(t, o) \/ DropCopy(t, o) \/ DestroyReader(t, o) \/ DestroyWriter(t, o)
             \/ Unlock(t, o) \/ CommitThrows(t, o) \/ \E v \in Values : Modify(t, o, v)
      PROVE  UNCHANGED <<want, kind>>
  BY <1>7 DEF Copy, DropCopy, DestroyReader, DestroyWriter, Unlock, CommitThrows, Modify, calls
<1>8. UNCHANGED vars => UNCHANGED <<want, kind>>
  BY DEF vars
<1> HIDE DEF WantsBatchable
<1> QED
  BY <1>2, <1>3, <1>4, <1>5, <1>6, <1>7, <1>8 DEF Next, Step

\* A mutex that is taken keeps somebody who will release it, in every step
\* but the exception of Lock.
LEMMA HolderStep ==
  ASSUME TypeOK, MutexInv, WantsBatchable, MutexHasHolder, [Next]_vars
  PROVE  MutexHasHolder'
<1> USE LockingAssumption, KindsDistinct DEF TypeOK, MutexInv, MutexHasHolder, locks, calls, handles, data
<1>1. CASE UNCHANGED vars
  BY <1>1 DEF vars
<1>2. ASSUME NEW t \in Threads, NEW c \in Calls, Call(t, c)
      PROVE  MutexHasHolder'
  BY <1>2 DEF Call
<1>3. ASSUME NEW t \in Threads, Build(t)
      PROVE  MutexHasHolder'
  BY <1>3 DEF Build
<1>4. ASSUME NEW t \in Threads, NEW built \in SUBSET Batchable, BuildThrows(t, built)
      PROVE  FALSE
  BY <1>4 DEF BuildThrows, WantsBatchable
<1>5. ASSUME NEW t \in Threads, NEW o \in Objects, TakeMutex(t, o)
      PROVE  MutexHasHolder'
  BY <1>5 DEF TakeMutex
<1>6. ASSUME NEW t \in Threads, NEW o \in Objects, BackOff(t, o)
      PROVE  MutexHasHolder'
  BY <1>6 DEF BackOff
<1>7. ASSUME NEW t \in Threads, NEW o \in Objects, NEW v \in Values,
             \/ Modify(t, o, v) \/ CommitBatch(t, o) \/ RollbackBatch(t, o)
             \/ Copy(t, o) \/ DropCopy(t, o) \/ CommitThrows(t, o)
      PROVE  MutexHasHolder'
  <2>1. UNCHANGED <<excl, shared, held, handle>>
    BY <1>7 DEF Modify, CommitBatch, RollbackBatch, Copy, DropCopy, CommitThrows
  <2> QED
    BY <2>1
<1>8. ASSUME NEW t \in Threads, NEW o \in Objects, DestroyReader(t, o)
      PROVE  MutexHasHolder'
  BY <1>8 DEF DestroyReader
<1>9. ASSUME NEW t \in Threads, NEW o \in Objects, DestroyWriter(t, o)
      PROVE  MutexHasHolder'
  BY <1>9 DEF DestroyWriter
<1>10. ASSUME NEW t \in Threads, NEW o \in Objects, Unlock(t, o)
       PROVE  MutexHasHolder'
  BY <1>10 DEF Unlock
<1> QED
  BY <1>1, <1>2, <1>3, <1>4, <1>5, <1>6, <1>7, <1>8, <1>9, <1>10 DEF Next, Step

\* Every mutex that is taken has somebody who will release it, as long as
\* MultiLocker::Lock is given batchable objects.
THEOREM NoLostMutex ==
  ASSUME LocksBatchable
  PROVE  Spec => []MutexHasHolder
<1>1. Init => MutexHasHolder /\ WantsBatchable
  BY LockingAssumption DEF Init, MutexHasHolder, WantsBatchable, Batched
<1>2. LockingInv /\ MutexHasHolder /\ WantsBatchable /\ [Next]_vars => (MutexHasHolder /\ WantsBatchable)'
  BY HolderStep, WantsStep DEF LockingInv
<1> QED
  BY <1>1, <1>2, LockingInvariant, PTL DEF Spec

=============================================================================
