----------------------------- MODULE Secp256k1 -----------------------------
(***************************************************************************)
(* The curve library behind src/crypto, vendored in deps/secp256k1-zkp:    *)
(* what the functions that AggSig.cpp, Pedersen.cpp, PublicKeys.cpp and    *)
(* Bulletproofs.cpp call return.  Field and curve arithmetic and hashing   *)
(* are abstracted: a key is a scalar below the order, and a range proof is *)
(* what it hides with a checksum, so that no byte of it can be altered.    *)
(*                                                                         *)
(* The group is generated by two independent points, H for amounts and G   *)
(* for keys: <<v, r>> stands for v*H + r*G.  The nonce of a signature is   *)
(* written as its x coordinate, which a point and its negation share; of   *)
(* the two exactly one has a quadratic residue for y, and the verifier     *)
(* takes that one.                                                         *)
(***************************************************************************)
EXTENDS Integers, Sequences, SequencesExt

CONSTANT Order      \* the order of the group, an odd prime

ASSUME OrderAssumption ==
  /\ Order \in Nat
  /\ Order > 3
  /\ \A d \in 2..(Order - 1) : Order % d # 0

Scalar == 0..(Order - 1)
Point == Scalar \X Scalar
Infinity == <<0, 0>>

PointSum(a, b) == <<(a[1] + b[1]) % Order, (a[2] + b[2]) % Order>>
Negated(a) == <<(Order - a[1]) % Order, (Order - a[2]) % Order>>
Times(k, a) == <<(k * a[1]) % Order, (k * a[2]) % Order>>
SumOf(points) == FoldLeft(PointSum, Infinity, points)
ScalarSum(scalars) == FoldLeft(LAMBDA a, b : (a + b) % Order, 0, scalars)

HasQuadY(a) == IF a[1] # 0 THEN a[1] <= Order \div 2 ELSE a[2] \in 1..(Order \div 2)
XOf(a) == IF HasQuadY(a) THEN a ELSE Negated(a)

\* The hash of a signature's nonce, public key and message; any function will do.
Challenge(x, key, message) ==
  (1 + x[1] + 2 * x[2] + key[1] + 3 * key[2] + message) % Order

\* secp256k1_aggsig_sign_single.  total is the sum of all signers' nonces.
SignSingle(seckey, secnonce, nonceForE, total, keyForE, message) ==
  LET k == IF HasQuadY(total) THEN secnonce ELSE Order - secnonce
  IN [form |-> "raw",
      r |-> XOf(<<0, secnonce>>),
      s |-> (k + Challenge(XOf(nonceForE), keyForE, message) * seckey) % Order]

\* secp256k1_aggsig_verify_single.  A partial signature is compared by x alone.
VerifySingle(sig, message, nonceForE, key, keyForE, partial) ==
  LET e == Challenge(XOf(nonceForE), keyForE, message)
      R == PointSum(<<0, sig.s>>, Negated(Times(e, key)))
  IN /\ sig.form = "raw"
     /\ R # Infinity
     /\ XOf(R) = sig.r
     /\ partial \/ HasQuadY(R)

\* secp256k1_aggsig_add_signatures_single.
AddSignatures(sigs, total) ==
  [form |-> "raw", r |-> XOf(total),
   s |-> ScalarSum([i \in DOMAIN sigs |-> sigs[i].s])]

\* secp256k1_schnorrsig_verify_batch, whose random weights leave no way for invalid
\* signatures to make up for each other.
VerifyBatch(sigs, keys, messages) ==
  \A i \in DOMAIN sigs : VerifySingle(sigs[i], messages[i], sigs[i].r, keys[i], keys[i], FALSE)

\* secp256k1_aggsig_export_secnonce_single.
SecureNonce(drawn) == IF HasQuadY(<<0, drawn>>) THEN drawn ELSE Order - drawn

\* secp256k1_bulletproof_rangeproof_prove.  A message has MessageSize bytes.
MessageSize == 8
ProofSize == MessageSize + 5
ProofOf(amount, key, nonce, privateNonce, message) ==
  LET hidden == <<amount, key, nonce, privateNonce>> \o message
  IN Append(hidden, (Order - ScalarSum(hidden)) % Order)

\* secp256k1_bulletproof_rangeproof_verify: a proof holds for one commitment.
Proves(proof, commitment) ==
  /\ Len(proof) = ProofSize
  /\ SubSeq(proof, 1, 2) = commitment
  /\ ScalarSum(proof) = 0

\* secp256k1_bulletproof_rangeproof_rewind.  The amount and the message are hidden with
\* nonce, the key with privateNonce, but all three are uncovered with nonce.  The wrong
\* nonce or commitment gives noise, which is noticed; the proof is not verified.
Rewinds(proof, commitment, nonce) ==
  /\ Len(proof) = ProofSize
  /\ SubSeq(proof, 1, 2) = commitment
  /\ nonce = proof[3]
RewoundKey(proof, nonce) == (proof[2] + proof[4] + Order - nonce) % Order
=============================================================================
