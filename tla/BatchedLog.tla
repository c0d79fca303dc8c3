----------------------------- MODULE BatchedLog -----------------------------
(***************************************************************************)
(* What AppendOnlyFile promises its user, and no more: a durable sequence  *)
(* of bytes, and a batch that keeps some of it and appends to that.        *)
(* A commit is atomic unless the process dies in it.  A batch that only    *)
(* appends, or only rewinds, is committed as the user sees it; of one that *)
(* does both, only the length and the bytes it kept are promised (the      *)
(* stream of File::Write appends and cannot overwrite).  The same is all   *)
(* that is promised once the storage has failed.                           *)
(***************************************************************************)
EXTENDS Naturals, Sequences, SequencesExt

VARIABLES
  durable,  \* what is on disk
  kept,     \* the length of the prefix of it that the batch keeps
  tail,     \* what the batch appends to that prefix
  up,       \* whether a process has the log open
  faulty    \* whether the storage has ever failed

logVars == <<durable, kept, tail, up, faulty>>

LogInit == durable = <<>> /\ kept = 0 /\ tail = <<>> /\ up = TRUE /\ faulty = FALSE

LogView == SubSeq(durable, 1, kept) \o tail

LogAppend ==
  /\ up
  /\ Len(tail') > Len(tail) /\ IsPrefix(tail, tail')
  /\ UNCHANGED <<durable, kept, up, faulty>>

\* The new view is a prefix of the old one.
LogRewind ==
  /\ up
  /\ \/ kept' \in 0..kept /\ tail' = <<>>
     \/ kept' = kept /\ IsPrefix(tail', tail)
  /\ UNCHANGED <<durable, up, faulty>>

LogRollback ==
  /\ up
  /\ kept' = Len(durable) /\ tail' = <<>>
  /\ UNCHANGED <<durable, up, faulty>>

LogCommit ==
  /\ up
  /\ Len(durable') = Len(LogView)
  /\ IsPrefix(SubSeq(durable, 1, kept), durable')
  /\ ~faulty' /\ (kept = Len(durable) \/ tail = <<>>) => durable' = LogView
  /\ kept' = Len(durable') /\ tail' = <<>>
  /\ faulty => faulty'
  /\ UNCHANGED up

\* The storage fails; what was durable still is, and so is the batch.
LogFault ==
  /\ up /\ faulty'
  /\ UNCHANGED <<durable, kept, tail, up>>

\* A crash may leave a commit half done, but never touches the bytes kept: an
\* appending batch is cut short, a rewinding one happens or does not.
LogCrash ==
  /\ up /\ up' = FALSE
  /\ IsPrefix(SubSeq(durable, 1, kept), durable')
  /\ ~faulty /\ kept = Len(durable) => IsPrefix(durable', LogView)
  /\ ~faulty /\ tail = <<>> => durable' \in {durable, LogView}
  /\ kept' = 0 /\ tail' = <<>>
  /\ UNCHANGED faulty

LogOpen ==
  /\ ~up /\ up' = TRUE
  /\ kept' = Len(durable) /\ tail' = <<>>
  /\ UNCHANGED <<durable, faulty>>

LogNext ==
  \/ LogAppend \/ LogRewind \/ LogRollback \/ LogCommit
  \/ LogFault \/ LogCrash \/ LogOpen

LogSpec == LogInit /\ [][LogNext]_logVars

=============================================================================
