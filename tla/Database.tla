------------------------------ MODULE Database ------------------------------
(***************************************************************************)
(* Database and DBTransaction (src/db/common): a LevelDB store and at most *)
(* one transaction, which lives from OnInitWrite to OnEndWrite of a Writer *)
(* or until Rollback.  The Writer's lock keeps everybody else out (module  *)
(* Locking), so there is one user at a time.                               *)
(*                                                                         *)
(* LevelDB is external: Get reads a key, Write applies a batch atomically, *)
(* in order, or fails and changes nothing.                                 *)
(***************************************************************************)
EXTENDS Integers, Sequences, SequencesExt

CONSTANTS Keys,       \* the keys with their table's prefix
          Values,     \* the items stored
          NoValue,    \* the null pointer a lookup returns
          MaxOps      \* bound: the length of a batch

ASSUME DatabaseAssumption ==
  /\ NoValue \notin Values
  /\ MaxOps \in Nat

VARIABLES
  store,   \* what LevelDB holds
  open,    \* m_pTx is not null
  batch,   \* its m_batch: writes, and deletes with NoValue
  added,   \* added[k]: its m_added, the versions of k in the order they came
  handle   \* the Writer that has the database: none, "write" or "batch"

vars == <<store, open, batch, added, handle>>
tx == <<open, batch, added>>

Op(key, value) == [key |-> key, value |-> value]
Ops == [key : Keys, value : Values]

\* The places of the operations on a key.
OpsOn(ops, key) == {i \in DOMAIN ops : ops[i].key = key}

\* What LevelDB holds after the operations of a batch: of several on one key the last
\* one counts.
Apply(contents, ops) ==
  [key \in Keys |-> IF OpsOn(ops, key) = {} THEN contents[key]
                    ELSE ops[Max(OpsOn(ops, key))].value]

Init ==
  /\ store = [k \in Keys |-> NoValue]
  /\ open = FALSE /\ batch = <<>> /\ added = [k \in Keys |-> <<>>]
  /\ handle = "none"

-----------------------------------------------------------------------------
(* OrderedMultimap *)

\* Mutant of MultimapInsert: as unordered_map::insert, which does not overwrite.
MultimapInsertNew(map, key, value) ==
  IF map[key] = <<>> THEN [map EXCEPT ![key] = <<value>>] ELSE map

MultimapInsert(map, key, value) == [map EXCEPT ![key] = Append(@, value)]

FindLast(map, key) == IF map[key] = <<>> THEN NoValue ELSE Last(map[key])

MultimapErase(map, key) == IF map[key] = <<>> THEN map ELSE [map EXCEPT ![key] = Front(@)]

-----------------------------------------------------------------------------
NoTx == open' = FALSE /\ batch' = <<>> /\ added' = [k \in Keys |-> <<>>]

OnInitWrite(kind) ==
  /\ handle = "none"
  /\ handle' = kind
  /\ open' = TRUE /\ batch' = <<>> /\ added' = [k \in Keys |-> <<>>]
  /\ UNCHANGED store

\* The entries inserted one after the other.
InsertAll(map, entries) ==
  LET inserted[n \in 0..Len(entries)] ==
        IF n = 0 THEN map
        ELSE MultimapInsert(inserted[n - 1], entries[n].key, entries[n].value)
  IN  inserted[Len(entries)]

\* DBTransaction::Put
TxPut(entries) ==
  /\ batch' = batch \o entries
  /\ added' = InsertAll(added, entries)

\* Mutant of Put: a write in a transaction goes to the store too.
PutThrough(entries) ==
  /\ handle # "none"
  /\ Len(batch) + Len(entries) <= MaxOps
  /\ IF open
       THEN TxPut(entries) /\ UNCHANGED open
       ELSE UNCHANGED tx
  /\ store' = Apply(store, entries)
  /\ UNCHANGED handle

\* Into the transaction; or into the store at once when there is none, unless
\* LevelDB refuses.
Put(entries) ==
  /\ handle # "none"
  /\ Len(batch) + Len(entries) <= MaxOps
  /\ IF open
       THEN TxPut(entries) /\ UNCHANGED <<store, open>>
       ELSE /\ store' \in {Apply(store, entries), store}
            /\ UNCHANGED tx
  /\ UNCHANGED handle

\* DBTransaction::Delete, which Database does not offer yet.
Delete(key) ==
  /\ open /\ Len(batch) < MaxOps
  /\ batch' = Append(batch, Op(key, NoValue))
  /\ added' = MultimapErase(added, key)
  /\ UNCHANGED <<store, open, handle>>

\* The user of the Writer calls Commit.  The transaction stays, with all it has
\* written, so that another Commit writes it again.  Throws when LevelDB does.
Commit ==
  /\ handle # "none" /\ open
  /\ store' = Apply(store, batch)
  /\ UNCHANGED <<tx, handle>>

\* The user calls Rollback: the transaction is gone, the Writer is not.
Rollback ==
  /\ handle # "none"
  /\ NoTx
  /\ UNCHANGED <<store, handle>>

\* ~InnerWriter: roll back a batch, commit anything else; then OnEndWrite.
Destroy ==
  /\ handle # "none"
  /\ handle = "write" => open
  /\ store' = IF handle = "write" THEN Apply(store, batch) ELSE store
  /\ NoTx
  /\ handle' = "none"

\* The process dies: killed, by the null pointer that a Commit without a
\* transaction goes through, or by a Commit that throws in a destructor.
Crash ==
  /\ NoTx
  /\ handle' = "none"
  /\ UNCHANGED store

-----------------------------------------------------------------------------
\* Mutant of Get: a transaction does not look into the store.
GetOfTx(T, key) == IF open THEN FindLast(added, key) ELSE store[key]

\* DBTransaction::Get<T>: an item of the transaction that is not a T is passed over;
\* what the store has is deserialized as a T whatever it is.
TxGet(T, key) == IF FindLast(added, key) \in T THEN FindLast(added, key) ELSE store[key]

\* Database::Get<T>
Get(T, key) == IF open THEN TxGet(T, key) ELSE store[key]

Entries == BoundedSeq(Ops, MaxOps)

Next ==
  \/ \E kind \in {"write", "batch"} : OnInitWrite(kind)
  \/ \E entries \in Entries : Put(entries)
  \/ \E key \in Keys : Delete(key)
  \/ Commit \/ Rollback \/ Destroy \/ Crash

Spec == Init /\ [][Next]_vars

-----------------------------------------------------------------------------
(* Properties *)

\* Every part of the state has its type.
TypeOK ==
  /\ store \in [Keys -> Values \cup {NoValue}]
  /\ open \in BOOLEAN
  /\ batch \in Seq([key : Keys, value : Values \cup {NoValue}])
  /\ added \in [Keys -> Seq(Values)]
  /\ handle \in {"none", "write", "batch"}

Deletes == {i \in DOMAIN batch : batch[i].value = NoValue}

\* In a transaction, Get already returns what the store will hold once it is
\* committed: the last of several writes to a key, and the store's value for
\* the keys the transaction does not touch, also after a Commit half way.  (Not
\* with Delete, which m_added does not remember.)
ReadYourWrites ==
  open /\ Deletes = {} => \A key \in Keys : Get(Values, key) = Apply(store, batch)[key]

\* A transaction belongs to a Writer; until something is deleted, m_added has for every
\* key the write to it that comes last in the batch.
AddedFollowsBatch ==
  /\ handle = "none" => ~open
  /\ open /\ Deletes = {} =>
       \A key \in Keys :
         FindLast(added, key) =
           IF OpsOn(batch, key) = {} THEN NoValue ELSE batch[Max(OpsOn(batch, key))].value

\* The database's types, m_added in step with the batch, and reads in a transaction that
\* foretell its commit.
DatabaseInv == TypeOK /\ AddedFollowsBatch /\ ReadYourWrites

View == IF open THEN Apply(store, batch) ELSE store

Map == INSTANCE BatchedMap WITH durable <- store, view <- View, inTx <- open

\* The database is a batched map: a transaction reaches the store as a whole at
\* its Commit or not at all, although the batch is never cleared and may be
\* written twice.
ImplementsMap == Map!MapSpec

=============================================================================
