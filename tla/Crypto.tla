------------------------------- MODULE Crypto -------------------------------
(***************************************************************************)
(* The class Crypto (src/crypto/Crypto.cpp) with the classes it is made of:*)
(* AggSig, Pedersen, PublicKeys, Bulletproofs and ConversionUtil.          *)
(*                                                                         *)
(* A PublicKey or a Commitment is a point; Infinity has no encoding, and   *)
(* its value stands for the all-zero bytes, which do not parse.  A         *)
(* function that throws returns Throw.  A signature is "raw" as the curve  *)
(* library made it, or "compact" as an ECDSA signature is serialized; the  *)
(* two are different bytes.                                                *)
(***************************************************************************)
EXTENDS Secp256k1

CONSTANTS Throw,     \* the result of a call that throws
          Crash,     \* the end of the process
          NoProof    \* a proof that could not be rewound

\* The classes under models/crypto, by the bytes they hold.
BigInt(numBytes) == [1..numBytes -> Scalar]
PublicKey == BigInt(2)
Commitment == BigInt(2)
SecretKey == Scalar
BlindingFactor == Scalar
RangeProof == Seq(Scalar)
RewoundProof == [amount : Scalar, blindingFactor : SecretKey, message : BigInt(MessageSize)]

\* An exception is neither a key nor a vector of keys.
ASSUME ThrowAssumption == Throw \notin PublicKey \cup Seq(PublicKey)

\* ConversionUtil::ToSecp256k1, which throws if one of the points does not parse.
ParseKeys(keys) == IF Infinity \in Range(keys) THEN Throw ELSE keys
ParseCommitments(commitments) == IF Infinity \in Range(commitments) THEN Throw ELSE commitments

\* ConversionUtil::ToPublicKey and ToCommitment, of points the library made.
EncodeKey(point) == IF point = Infinity THEN Throw ELSE point
EncodeCommitment(point) == IF point = Infinity THEN Throw ELSE point

\* A commitment as a public key.
ToPublicKey(commitment) == IF ParseCommitments(<<commitment>>) = Throw THEN Throw ELSE EncodeKey(commitment)

ToCompact(sig) == [sig EXCEPT !.form = IF @ = "raw" THEN "compact" ELSE "garbage"]
FromCompact(sig) == [sig EXCEPT !.form = IF @ = "compact" THEN "raw" ELSE "garbage"]

-----------------------------------------------------------------------------
\* Keys.

CalculatePublicKey(privateKey) ==
  IF privateKey = 0 THEN Throw ELSE EncodeKey(<<0, privateKey>>)

AddPublicKeys(keys) == IF ParseKeys(keys) = Throw THEN Throw ELSE EncodeKey(SumOf(keys))

AddPrivateKeys(key1, key2) == IF (key1 + key2) % Order = 0 THEN Throw ELSE (key1 + key2) % Order

GenerateSecureNonce(drawn) == SecureNonce(drawn)

-----------------------------------------------------------------------------
\* Commitments and blinding factors.

PedersenCommit(value, blind) == EncodeCommitment(<<value % Order, blind>>)
CommitBlinded(value, blind) == PedersenCommit(value, blind)
CommitTransparent(value) == PedersenCommit(value, 0)

PedersenCommitSum(positive, negative) ==
  IF ParseCommitments(positive \o negative) = Throw THEN Throw
  ELSE EncodeCommitment(PointSum(SumOf(positive), Negated(SumOf(negative))))

\* std::copy_if with what is not zero.
CopyNonZero(seq, zero) ==
  FoldLeft(LAMBDA copied, x : IF x = zero THEN copied ELSE Append(copied, x), <<>>, seq)

\* All-zero commitments are left out of the sum.
AddCommitments(positive, negative) ==
  PedersenCommitSum(CopyNonZero(positive, Infinity), CopyNonZero(negative, Infinity))

\* Mutant: the sum is not reduced.
Unreduced(positive, negative) ==
  FoldLeft(LAMBDA a, b : a + b, 0, positive) + FoldLeft(LAMBDA a, b : a + Order - b, 0, negative)

PedersenBlindSum(positive, negative) ==
  (ScalarSum(positive) + Order - ScalarSum(negative)) % Order

\* Zeros are left out, and nothing is asked of the library if nothing else is left.
AddBlindingFactors(positive, negative) ==
  LET plus == CopyNonZero(positive, 0)
      minus == CopyNonZero(negative, 0)
  IN IF plus = <<>> /\ minus = <<>> THEN 0 ELSE PedersenBlindSum(plus, minus)

-----------------------------------------------------------------------------
\* Signatures.

\* A message is signed with a nonce the library draws, whose own parity counts.
SignMessage(secretKey, publicKey, message, drawn) ==
  LET R == <<0, drawn>>
  IN IF ParseKeys(<<publicKey>>) = Throw THEN Throw
     ELSE ToCompact(SignSingle(secretKey, drawn, R, R, publicKey, message))

VerifyMessageSignature(sig, publicKey, message) ==
  /\ ParseKeys(<<publicKey>>) # Throw
  /\ VerifySingle(FromCompact(sig), message, sig.r, publicKey, publicKey, FALSE)

\* Mutant: the parity of the signer's own nonce decides, not that of the sum.
OwnParity(secretKey, secretNonce, sumPubKeys, sumPubNonces, message) ==
  ToCompact(SignSingle(secretKey, secretNonce, sumPubNonces, <<0, secretNonce>>, sumPubKeys, message))

CalculatePartialSignature(secretKey, secretNonce, sumPubKeys, sumPubNonces, message) ==
  IF ParseKeys(<<sumPubKeys, sumPubNonces>>) = Throw THEN Throw
  ELSE ToCompact(SignSingle(secretKey, secretNonce, sumPubNonces, sumPubNonces, sumPubKeys, message))

\* Mutant: the challenge is that of the signer's own key.
OwnChallenge(sig, publicKey, sumPubKeys, sumPubNonces, message) ==
  VerifySingle(FromCompact(sig), message, sumPubNonces, publicKey, publicKey, TRUE)

VerifyPartialSignature(sig, publicKey, sumPubKeys, sumPubNonces, message) ==
  /\ ParseKeys(<<publicKey, sumPubKeys, sumPubNonces>>) # Throw
  /\ VerifySingle(FromCompact(sig), message, sumPubNonces, publicKey, sumPubKeys, TRUE)

AggregateSignatures(sigs, sumPubNonces) ==
  IF ParseKeys(<<sumPubNonces>>) = Throw THEN Throw
  ELSE AddSignatures([i \in DOMAIN sigs |-> FromCompact(sigs[i])], sumPubNonces)

VerifyAggregateSignature(sig, sumPubKeys, message) ==
  /\ ParseKeys(<<sumPubKeys>>) # Throw
  /\ VerifySingle(sig, message, sig.r, sumPubKeys, sumPubKeys, FALSE)

\* The signatures of all kernels in one batch, each excess taken as a public key.
VerifyKernelSignatures(sigs, excesses, messages) ==
  LET keys == [i \in DOMAIN excesses |-> ToPublicKey(excesses[i])]
  IN IF Throw \in Range(keys) THEN "throw"
     ELSE IF VerifyBatch(sigs, keys, messages) THEN "accept" ELSE "reject"

-----------------------------------------------------------------------------
\* Range proofs.  Each function returns the outcomes it may have: m_pGenerators is
\* never given a value, so the library may work, fail or crash.

GenerateRangeProof(amount, key, privateNonce, rewindNonce, message) ==
  {ProofOf(amount, key, rewindNonce, privateNonce, message), Throw, Crash}

\* Rewinding needs no generators; NoProof is the null pointer.
RewindProof(commitment, proof, nonce) ==
  IF ParseCommitments(<<commitment>>) = Throw THEN Throw
  ELSE IF ~Rewinds(proof, commitment, nonce) THEN NoProof
  ELSE [amount |-> proof[1], blindingFactor |-> RewoundKey(proof, nonce),
        message |-> SubSeq(proof, 5, 4 + MessageSize)]

\* BulletProofsCache: a set of commitments, too few here for its bound of 3000 to matter.
WasAlreadyVerified(cached, commitment) == commitment \in cached
AddToCache(cached, commitments) == cached \cup commitments

\* rangeProofs: pairs of a commitment and a proof.  Every proof is taken to be as long
\* as the first.  A shorter one is verified with what lies behind it in memory: that may be
\* anything, and so may the result, if the library admits proofs of the first one's length.
VerifyBulletproofs(rangeProofs, cached) ==
  LET unverified == {p \in Range(rangeProofs) : ~WasAlreadyVerified(cached, p[1])}
      proofLength == Len(rangeProofs[1][2])
      mayHold(p) == IF Len(p[2]) < proofLength THEN proofLength = ProofSize
                    ELSE Proves(SubSeq(p[2], 1, proofLength), p[1])
  IN IF rangeProofs = <<>> THEN {"accept", "crash"}
     ELSE IF \E p \in unverified : p[1] = Infinity THEN {"throw"}
     ELSE IF unverified = {} THEN {"accept"}
     ELSE {"reject", "crash"} \cup {o \in {"accept"} : \A p \in unverified : mayHold(p)}
=============================================================================
