------------------------------ MODULE Locking ------------------------------
(***************************************************************************)
(* Locked<T>, Reader<T>, Writer<T> and MultiLocker                         *)
(* (include/mw/core/common/Lock.h) over std::shared_mutex and std::lock,   *)
(* and the Traits::IBatchable protocol a Writer drives on the object it    *)
(* guards (include/mw/core/traits/Batchable.h).                            *)
(*                                                                         *)
(* A thread asks for a set of objects: a singleton is Locked::Read, Write  *)
(* or BatchWrite, a larger set is MultiLocker::LockShared or Lock.  It     *)
(* takes the mutexes one by one, builds the handles, uses, copies and      *)
(* drops them.  Dropping the last copy of a writer runs ~InnerWriter in    *)
(* two steps, as the code does: commit or roll back, then unlock.          *)
(***************************************************************************)
EXTENDS Naturals, FiniteSets

CONSTANTS Threads,        \* the threads of the program
          Objects,        \* the objects wrapped in a Locked<>
          Batchable,      \* the objects that derive from IBatchable
          SelfTracking,   \* batchables that set/clear m_dirty themselves, as BitmapFile
          LockSets,       \* the sets of objects passed to MultiLocker
          Values,         \* the contents an object may have
          InitValue,      \* the contents it starts with
          MaxRefs,        \* bound: live copies of one handle
          MayThrow,       \* whether IBatchable::Commit may throw
          Nested,         \* whether a thread may ask while it holds handles
          NoThread        \* "nobody", distinct from every thread

ASSUME LockingAssumption ==
  /\ Batchable \subseteq Objects
  /\ SelfTracking \subseteq Batchable
  /\ LockSets \subseteq SUBSET Objects
  /\ InitValue \in Values
  /\ MaxRefs \in Nat \ {0}
  /\ MayThrow \in BOOLEAN
  /\ Nested \in BOOLEAN
  /\ NoThread \notin Threads

VARIABLES
  excl,     \* excl[o]: the thread that holds o's mutex exclusively
  shared,   \* shared[o]: the threads that hold it shared
  want,     \* want[t]: the objects t's pending call asks for
  kind,     \* kind[t]: the handles that call returns
  held,     \* held[t]: the mutexes that call has taken so far
  handle,   \* handle[t][o]: the handle t has on o
  refs,     \* refs[t][o]: its live copies
  value,    \* value[o]: o's contents in memory
  saved,    \* saved[o]: what o last committed
  dirty,    \* dirty[o]: IBatchable::m_dirty
  threw     \* the destructors whose Commit threw: <<thread, object>>

vars == <<excl, shared, want, kind, held, handle, refs, value, saved, dirty, threw>>
locks == <<excl, shared>>
calls == <<want, kind, held>>
handles == <<handle, refs>>
data == <<value, saved, dirty>>

(***************************************************************************)
(* "multi" is a writer that MultiLocker::Lock returned.  GetWriter makes   *)
(* it with BatchWrite(adopt_lock), so it is batched like "batch".          *)
(***************************************************************************)
Batched == {"batch", "multi"}
WriterKind == {"writer"} \cup Batched
HandleKind == {"reader"} \cup WriterKind
Writing(t, o) == handle[t][o] \in WriterKind
Holds(t) == {o \in Objects : handle[t][o] # "none"}

Init ==
  /\ excl = [o \in Objects |-> NoThread]
  /\ shared = [o \in Objects |-> {}]
  /\ want = [t \in Threads |-> {}]
  /\ kind = [t \in Threads |-> "reader"]
  /\ held = [t \in Threads |-> {}]
  /\ handle = [t \in Threads |-> [o \in Objects |-> "none"]]
  /\ refs = [t \in Threads |-> [o \in Objects |-> 0]]
  /\ value = [o \in Objects |-> InitValue]
  /\ saved = [o \in Objects |-> InitValue]
  /\ dirty = [o \in Objects |-> FALSE]
  /\ threw = {}

\* Nothing runs after std::terminate; an action leaves threw alone.
Running == threw = {} /\ UNCHANGED threw

-----------------------------------------------------------------------------
(* std::shared_mutex: whether t may take o's mutex for a handle of kind k. *)

\* Mutant of MutexFree: a writer does not wait for readers.
MutexFreeOfWriters(o, k) == excl[o] = NoThread

MutexFree(o, k) ==
  /\ excl[o] = NoThread
  /\ k # "reader" => shared[o] = {}

(***************************************************************************)
(* The calls.  BatchWrite throws before it locks when the object is not    *)
(* batchable, so that call changes nothing and is left out.                *)
(***************************************************************************)
Read(o) == [objects |-> {o}, kind |-> "reader"]
Write(o) == [objects |-> {o}, kind |-> "writer"]
BatchWrite(o) == [objects |-> {o}, kind |-> "batch"]
LockShared(S) == [objects |-> S, kind |-> "reader"]
Lock(S) == [objects |-> S, kind |-> "multi"]

Calls ==
       {Read(o) : o \in Objects}
  \cup {Write(o) : o \in Objects}
  \cup {BatchWrite(o) : o \in Batchable}
  \cup {LockShared(S) : S \in LockSets}
  \cup {Lock(S) : S \in LockSets}

Call(t, c) ==
  /\ Running
  /\ want[t] = {}
  /\ Nested \/ Holds(t) = {}
  /\ c.objects \cap Holds(t) = {}
  /\ want' = [want EXCEPT ![t] = c.objects]
  /\ kind' = [kind EXCEPT ![t] = c.kind]
  /\ UNCHANGED <<held, locks, handles, data>>

\* lock() on the first mutex, try_lock() on the others of a std::lock call.
TakeMutex(t, o) ==
  /\ Running
  /\ o \in want[t] \ held[t]
  /\ MutexFree(o, kind[t])
  /\ IF kind[t] = "reader"
       THEN shared' = [shared EXCEPT ![o] = @ \cup {t}] /\ UNCHANGED excl
       ELSE excl' = [excl EXCEPT ![o] = t] /\ UNCHANGED shared
  /\ held' = [held EXCEPT ![t] = @ \cup {o}]
  /\ UNCHANGED <<want, kind, handles, data>>

\* Mutant of BackOff: the mutexes taken so far stay locked.
BackOffKeepsMutexes(t, o) ==
  /\ Running
  /\ held[t] # {}
  /\ o \in want[t] \ held[t]
  /\ ~MutexFree(o, kind[t])
  /\ held' = [held EXCEPT ![t] = {}]
  /\ UNCHANGED <<want, kind, locks, handles, data>>

\* A try_lock() that fails: std::lock gives back what it took and starts over.
BackOff(t, o) ==
  /\ Running
  /\ held[t] # {}
  /\ o \in want[t] \ held[t]
  /\ ~MutexFree(o, kind[t])
  /\ excl' = [p \in Objects |-> IF p \in held[t] /\ kind[t] # "reader" THEN NoThread ELSE excl[p]]
  /\ shared' = [p \in Objects |-> IF p \in held[t] THEN shared[p] \ {t} ELSE shared[p]]
  /\ held' = [held EXCEPT ![t] = {}]
  /\ UNCHANGED <<want, kind, handles, data>>

-----------------------------------------------------------------------------
\* Mutant of Build: OnInitWrite does not set m_dirty.
BuildNotDirty(t) ==
  /\ Running
  /\ want[t] # {} /\ held[t] = want[t]
  /\ kind[t] \in Batched => want[t] \subseteq Batchable
  /\ handle' = [handle EXCEPT ![t] = [o \in Objects |-> IF o \in want[t] THEN kind[t] ELSE @[o]]]
  /\ refs' = [refs EXCEPT ![t] = [o \in Objects |-> IF o \in want[t] THEN 1 ELSE @[o]]]
  /\ want' = [want EXCEPT ![t] = {}]
  /\ held' = [held EXCEPT ![t] = {}]
  /\ UNCHANGED <<kind, locks, data>>

(***************************************************************************)
(* The handles are built once every mutex is taken.  InnerWriter's         *)
(* constructor calls OnInitWrite, which sets m_dirty.                      *)
(***************************************************************************)
Build(t) ==
  /\ Running
  /\ want[t] # {} /\ held[t] = want[t]
  /\ kind[t] \in Batched => want[t] \subseteq Batchable
  /\ handle' = [handle EXCEPT ![t] = [o \in Objects |-> IF o \in want[t] THEN kind[t] ELSE @[o]]]
  /\ refs' = [refs EXCEPT ![t] = [o \in Objects |-> IF o \in want[t] THEN 1 ELSE @[o]]]
  /\ dirty' = [o \in Objects |->
                 IF o \in want[t] \cap Batchable /\ kind[t] # "reader" THEN TRUE ELSE dirty[o]]
  /\ want' = [want EXCEPT ![t] = {}]
  /\ held' = [held EXCEPT ![t] = {}]
  /\ UNCHANGED <<kind, locks, value, saved>>

(***************************************************************************)
(* BatchWrite(adopt_lock) throws for an object that is not batchable after *)
(* std::lock has taken every mutex.  The writers built before (the order   *)
(* of make_tuple's arguments is unspecified) are destroyed: they roll back *)
(* and unlock.  Nothing unlocks the other mutexes.                         *)
(***************************************************************************)
BuildThrows(t, built) ==
  /\ Running
  /\ want[t] # {} /\ held[t] = want[t]
  /\ kind[t] \in Batched /\ ~(want[t] \subseteq Batchable)
  /\ built \subseteq want[t] \cap Batchable
  /\ value' = [o \in Objects |-> IF o \in built THEN saved[o] ELSE value[o]]
  /\ dirty' = [o \in Objects |-> IF o \in built THEN FALSE ELSE dirty[o]]
  /\ excl' = [o \in Objects |-> IF o \in built THEN NoThread ELSE excl[o]]
  /\ want' = [want EXCEPT ![t] = {}]
  /\ held' = [held EXCEPT ![t] = {}]
  /\ UNCHANGED <<kind, shared, handles, saved>>

-----------------------------------------------------------------------------
(* What the holder of a writer does with the object.                       *)

\* Mutant of Modify: a self-tracking object forgets SetDirty(true).
ModifyUntracked(t, o, v) ==
  /\ Running
  /\ Writing(t, o)
  /\ value' = [value EXCEPT ![o] = v]
  /\ saved' = IF o \in Batchable THEN saved ELSE [saved EXCEPT ![o] = v]
  /\ UNCHANGED <<dirty, locks, calls, handles>>

\* A modification through Writer::operator->.  An object without IBatchable
\* has no separate committed contents.
Modify(t, o, v) ==
  /\ Running
  /\ Writing(t, o)
  /\ value' = [value EXCEPT ![o] = v]
  /\ saved' = IF o \in Batchable THEN saved ELSE [saved EXCEPT ![o] = v]
  /\ dirty' = IF o \in SelfTracking THEN [dirty EXCEPT ![o] = TRUE] ELSE dirty
  /\ UNCHANGED <<locks, calls, handles>>

\* writer->Commit(), straight to the object: InnerWriter is not told.  A
\* self-tracking object clears m_dirty when it has modifications to write,
\* which it may have even if they leave its contents as they were.
CommitBatch(t, o) ==
  /\ Running
  /\ Writing(t, o) /\ o \in Batchable
  /\ saved' = [saved EXCEPT ![o] = value[o]]
  /\ \/ o \in SelfTracking /\ dirty' = [dirty EXCEPT ![o] = FALSE]
     \/ (o \in SelfTracking => value[o] = saved[o]) /\ UNCHANGED dirty
  /\ UNCHANGED <<value, locks, calls, handles>>

\* writer->Rollback()
RollbackBatch(t, o) ==
  /\ Running
  /\ Writing(t, o) /\ o \in Batchable
  /\ value' = [value EXCEPT ![o] = saved[o]]
  /\ dirty' = IF o \in SelfTracking THEN [dirty EXCEPT ![o] = FALSE] ELSE dirty
  /\ UNCHANGED <<saved, locks, calls, handles>>

-----------------------------------------------------------------------------
(* Copies share the InnerReader or InnerWriter through a shared_ptr.       *)

Copy(t, o) ==
  /\ Running
  /\ handle[t][o] \in HandleKind /\ refs[t][o] < MaxRefs
  /\ refs' = [refs EXCEPT ![t][o] = @ + 1]
  /\ UNCHANGED <<handle, locks, calls, data>>

\* ~Reader, ~Writer or Writer::Clear of a copy that is not the last one.
DropCopy(t, o) ==
  /\ Running
  /\ handle[t][o] \in HandleKind /\ refs[t][o] > 1
  /\ refs' = [refs EXCEPT ![t][o] = @ - 1]
  /\ UNCHANGED <<handle, locks, calls, data>>

\* Mutant of DestroyReader: every copy unlocks, not only the last.
DestroyReaderOfCopy(t, o) ==
  /\ Running
  /\ handle[t][o] = "reader"
  /\ shared' = [shared EXCEPT ![o] = @ \ {t}]
  /\ handle' = [handle EXCEPT ![t][o] = IF refs[t][o] = 1 THEN "none" ELSE @]
  /\ refs' = [refs EXCEPT ![t][o] = @ - 1]
  /\ UNCHANGED <<excl, calls, data>>

\* ~InnerReader
DestroyReader(t, o) ==
  /\ Running
  /\ handle[t][o] = "reader" /\ refs[t][o] = 1
  /\ shared' = [shared EXCEPT ![o] = @ \ {t}]
  /\ handle' = [handle EXCEPT ![t][o] = "none"]
  /\ refs' = [refs EXCEPT ![t][o] = 0]
  /\ UNCHANGED <<excl, calls, data>>

\* The body of ~InnerWriter: roll back a batch, commit otherwise, but only
\* what is dirty; then OnEndWrite.
DestroyWriter(t, o) ==
  /\ Running
  /\ Writing(t, o) /\ refs[t][o] = 1
  /\ LET acts == o \in Batchable /\ dirty[o]
     IN  /\ value' = IF acts /\ handle[t][o] \in Batched THEN [value EXCEPT ![o] = saved[o]] ELSE value
         /\ saved' = IF acts /\ handle[t][o] = "writer" THEN [saved EXCEPT ![o] = value[o]] ELSE saved
         /\ dirty' = IF acts THEN [dirty EXCEPT ![o] = FALSE] ELSE dirty
  /\ handle' = [handle EXCEPT ![t][o] = "closing"]
  /\ refs' = [refs EXCEPT ![t][o] = 0]
  /\ UNCHANGED <<locks, calls>>

\* MutexUnlocker's destructor, the last thing ~InnerWriter does.
Unlock(t, o) ==
  /\ Running
  /\ handle[t][o] = "closing"
  /\ excl' = [excl EXCEPT ![o] = NoThread]
  /\ handle' = [handle EXCEPT ![t][o] = "none"]
  /\ UNCHANGED <<shared, refs, calls, data>>

\* Commit throws inside ~InnerWriter, which is noexcept: std::terminate.
CommitThrows(t, o) ==
  /\ threw = {} /\ MayThrow
  /\ handle[t][o] = "writer" /\ refs[t][o] = 1
  /\ o \in Batchable /\ dirty[o]
  /\ threw' = {<<t, o>>}
  /\ UNCHANGED <<locks, calls, handles, data>>

-----------------------------------------------------------------------------
Step(t) ==
  \/ \E c \in Calls : Call(t, c)
  \/ Build(t)
  \/ \E built \in SUBSET Batchable : BuildThrows(t, built)
  \/ \E o \in Objects :
       \/ TakeMutex(t, o)
       \/ BackOff(t, o)
       \/ \E v \in Values : Modify(t, o, v)
       \/ CommitBatch(t, o)
       \/ RollbackBatch(t, o)
       \/ Copy(t, o)
       \/ DropCopy(t, o)
       \/ DestroyReader(t, o)
       \/ DestroyWriter(t, o)
       \/ Unlock(t, o)
       \/ CommitThrows(t, o)

Next == \E t \in Threads : Step(t)

Spec == Init /\ [][Next]_vars

-----------------------------------------------------------------------------
(* Properties *)

\* Every part of the state has its type; no handle has more copies than MaxRefs.
TypeOK ==
  /\ excl \in [Objects -> Threads \cup {NoThread}]
  /\ shared \in [Objects -> SUBSET Threads]
  /\ want \in [Threads -> SUBSET Objects]
  /\ kind \in [Threads -> HandleKind]
  /\ held \in [Threads -> SUBSET Objects]
  /\ handle \in [Threads -> [Objects -> HandleKind \cup {"none", "closing"}]]
  /\ refs \in [Threads -> [Objects -> 0..MaxRefs]]
  /\ value \in [Objects -> Values]
  /\ saved \in [Objects -> Values]
  /\ dirty \in [Objects -> BOOLEAN]
  /\ threw \subseteq Threads \X Objects

\* A handle is only ever alive while its thread holds the mutex in the
\* handle's mode, however the handle was obtained (alone or by MultiLocker),
\* copied and dropped, and as many copies as it has: the handles on an object
\* are those of one writer or of any number of readers.
HandlesHoldMutex ==
  \A t \in Threads, o \in Objects :
    /\ handle[t][o] = "reader" =>
         t \in shared[o] /\ \A u \in Threads : ~Writing(u, o) /\ handle[u][o] # "closing"
    /\ Writing(t, o) \/ handle[t][o] = "closing" =>
         excl[o] = t /\ \A u \in Threads \ {t} : handle[u][o] = "none"

\* No half-done work survives a writer: once ~InnerWriter has run (and even
\* before it unlocks), a batchable object's contents are the committed ones
\* and it is not dirty, whether the writer was batched or not, committed or
\* rolled back by hand before, or was destroyed by an exception in Lock.
NothingUncommitted ==
  \A o \in Batchable :
    (\A t \in Threads : ~Writing(t, o)) => value[o] = saved[o] /\ ~dirty[o]

\* A reader works on a stable, committed object: while some thread keeps a
\* Reader of an object, no step of any thread changes what it sees.
ReadersSeeStable ==
  [][\A t \in Threads, o \in Objects :
       handle[t][o] = "reader" /\ handle'[t][o] = "reader" =>
         value'[o] = value[o] /\ saved'[o] = saved[o]]_vars

(***************************************************************************)
(* The inductive invariant behind them.                                    *)
(***************************************************************************)
\* What each pending call has taken, and what each handle will release, is
\* what the mutexes record.
MutexInv ==
  /\ \A o \in Objects : excl[o] # NoThread => shared[o] = {}
  /\ \A t \in Threads :
       /\ held[t] \subseteq want[t]
       /\ \A o \in want[t] : handle[t][o] = "none"
       /\ \A o \in held[t] : IF kind[t] = "reader" THEN t \in shared[o] ELSE excl[o] = t
       /\ \A o \in Objects :
            /\ handle[t][o] = "reader" => t \in shared[o]
            /\ handle[t][o] \in WriterKind \cup {"closing"} => excl[o] = t

\* m_dirty covers every difference between an object's contents and what it
\* committed, and is only set while a writer is alive.
DirtyInv ==
  \A o \in Batchable :
    /\ ~dirty[o] => value[o] = saved[o]
    /\ dirty[o] => \E t \in Threads : Writing(t, o)
    /\ o \notin SelfTracking => \A t \in Threads : Writing(t, o) => dirty[o]

\* The two together are inductive: what HandlesHoldMutex, NothingUncommitted and
\* ReadersSeeStable rest on.
LockingInv == TypeOK /\ MutexInv /\ DirtyInv

\* Every mutex that is taken has somebody who will release it: a handle, or a
\* std::lock call that still runs ("Safely obtains the lock for multiple
\* Locked<> objects at once.").
MutexHasHolder ==
  \A o \in Objects, t \in Threads :
    (excl[o] = t \/ t \in shared[o]) => handle[t][o] # "none" \/ o \in held[t]

=============================================================================
