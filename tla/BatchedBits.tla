---------------------------- MODULE BatchedBits -----------------------------
(***************************************************************************)
(* What BitmapFile promises: a durable set of bits and a batch of changes. *)
(* Bits are saved in any number of steps, as many at a time as it pleases, *)
(* so that a crash may catch a commit half way.                            *)
(***************************************************************************)
CONSTANT All    \* the positions

VARIABLES
  bits,   \* the bits the user sees
  saved,  \* the bits of the file
  up      \* whether a process has the file open

bitsVars == <<bits, saved, up>>

BitsInit == bits = {} /\ saved = {} /\ up = TRUE

BitsSet == up /\ \E p \in All : bits' = bits \cup {p} /\ UNCHANGED <<saved, up>>

BitsUnset == up /\ \E p \in All : bits' = bits \ {p} /\ UNCHANGED <<saved, up>>

BitsSave ==
  /\ up
  /\ \E P \in SUBSET All : saved' = (saved \ P) \cup (bits \cap P)
  /\ UNCHANGED <<bits, up>>

BitsRollback == up /\ bits' = saved /\ UNCHANGED <<saved, up>>

BitsCrash == up /\ up' = FALSE /\ bits' = saved /\ UNCHANGED saved

BitsLoad == ~up /\ up' = TRUE /\ UNCHANGED <<bits, saved>>

BitsNext == BitsSet \/ BitsUnset \/ BitsSave \/ BitsRollback \/ BitsCrash \/ BitsLoad

BitsSpec == BitsInit /\ [][BitsNext]_bitsVars

=============================================================================
