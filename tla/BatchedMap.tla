----------------------------- MODULE BatchedMap -----------------------------
(***************************************************************************)
(* What Database promises: a durable map, and a view of it that a          *)
(* transaction changes and that becomes durable all at once or not at all. *)
(* Outside a transaction a write is durable immediately.                   *)
(***************************************************************************)
VARIABLES
  durable,  \* what is stored
  view,     \* what a reader sees
  inTx      \* whether a transaction is open

mapVars == <<durable, view, inTx>>

MapInit == view = durable /\ inTx = FALSE

MapBegin == ~inTx /\ inTx' /\ UNCHANGED <<durable, view>>

MapWrite == inTx /\ UNCHANGED <<durable, inTx>>

MapWriteThrough == ~inTx /\ durable' = view' /\ UNCHANGED inTx

MapCommit == inTx /\ durable' = view /\ view' = view /\ UNCHANGED inTx

\* The end of a transaction, for better or worse.
MapCommitAndClose == inTx /\ ~inTx' /\ durable' = view /\ view' = view

MapDiscard == inTx /\ ~inTx' /\ view' = durable /\ UNCHANGED durable

MapNext ==
  \/ MapBegin \/ MapWrite \/ MapWriteThrough
  \/ MapCommit \/ MapCommitAndClose \/ MapDiscard

MapSpec == MapInit /\ [][MapNext]_mapVars

=============================================================================
