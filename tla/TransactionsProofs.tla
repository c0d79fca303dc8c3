------------------------- MODULE TransactionsProofs -------------------------
(***************************************************************************)
(* Proofs about Transactions, for groups of any order and integers of any  *)
(* width.                                                                  *)
(*                                                                         *)
(* First, of remainders and signatures: what TxBody::Validate accepts is   *)
(* sound, whatever body it is given, and what the wallets sign, in parts   *)
(* and together, is accepted by the verifiers.                             *)
(*                                                                         *)
(* Then, of bytes: a Deserializer reads back what a Serializer wrote, and  *)
(* of bytes cut short or altered it reads a value of the type or throws,   *)
(* and reads the same from longer bytes.  Numbers, lists and sums of any   *)
(* length are recursive functions and folds, which induction over sets of  *)
(* numbers unfolds.                                                        *)
(*                                                                         *)
(* Last, of the sums: coins that AddCommitments adds and takes off cancel  *)
(* out.  Three invariants carry the theorems: SlateInv, what the wallets   *)
(* sent to each other; BuildInv, what they built of it; and NodeInv, what  *)
(* the node holds of what arrived.                                         *)
(***************************************************************************)
EXTENDS Transactions, WellFoundedInduction, SequenceTheorems, TLAPS

-----------------------------------------------------------------------------
(* Remainders *)

\* The order of the group is at least 4.
LEMMA OrderIsNat == Order \in Nat /\ Order > 3
  BY OrderAssumption

\* A number is determined by its quotient and its remainder.
LEMMA DivMod ==
  ASSUME NEW a \in Nat
  PROVE  /\ a \div Order \in Nat /\ a % Order \in Scalar
         /\ a = Order * (a \div Order) + (a % Order)
  BY OrderIsNat DEF Scalar

\* The quotient is the number of times the order fits.
LEMMA UniqueMod ==
  ASSUME NEW q \in Nat, NEW r \in Scalar
  PROVE  (Order * q + r) % Order = r
<1>. DEFINE a == Order * q + r
            p == a \div Order
            t == a % Order
<1>1. a \in Nat /\ r \in Nat /\ r < Order
  BY OrderIsNat DEF Scalar
<1>2. p \in Nat /\ t \in Nat /\ t < Order /\ Order * q + r = Order * p + t
  BY <1>1, DivMod, OrderIsNat DEF Scalar
<1>. HIDE DEF a, p, t
<1>3. p <= q
  <2>. SUFFICES ASSUME p >= q + 1 PROVE FALSE
    BY <1>2
  <2>1. Order * p >= Order * (q + 1)
    BY <1>2, OrderIsNat, Z3
  <2>. QED  BY <1>1, <1>2, <2>1, OrderIsNat
<1>4. q <= p
  <2>. SUFFICES ASSUME q >= p + 1 PROVE FALSE
    BY <1>2
  <2>1. Order * q >= Order * (p + 1)
    BY <1>2, OrderIsNat, Z3
  <2>. QED  BY <1>1, <1>2, <2>1, OrderIsNat
<1>5. p = q
  BY <1>2, <1>3, <1>4
<1>6. t = r
  BY <1>1, <1>2, <1>5, OrderIsNat
<1>. QED  BY <1>6 DEF t, a

\* Sums of two scalars.
LEMMA SmallMod ==
  ASSUME NEW a \in 0..(2 * Order - 1)
  PROVE  a % Order = IF a < Order THEN a ELSE a - Order
<1>1. CASE a < Order
  <2>1. a \in Scalar /\ 0 \in Nat /\ Order * 0 + a = a
    BY <1>1, OrderIsNat DEF Scalar
  <2>2. (Order * 0 + a) % Order = a
    BY <2>1, UniqueMod, Zenon
  <2>. QED  BY <1>1, <2>1, <2>2
<1>2. CASE ~(a < Order)
  <2>1. a - Order \in Scalar /\ 1 \in Nat /\ Order * 1 + (a - Order) = a
    BY <1>2, OrderIsNat DEF Scalar
  <2>2. (Order * 1 + (a - Order)) % Order = a - Order
    BY <2>1, UniqueMod, Zenon
  <2>. QED  BY <1>2, <2>1, <2>2
<1>. QED  BY <1>1, <1>2

\* What is added modulo the order may be reduced first.
LEMMA ModAdd ==
  ASSUME NEW k \in Nat, NEW b \in Nat
  PROVE  (k + b) % Order = (k + (b % Order)) % Order
<1>. DEFINE q == b \div Order
            m == b % Order
            t == (k + m) % Order
            p == (k + m) \div Order
<1>1. q \in Nat /\ m \in Nat /\ b = Order * q + m
  BY DivMod, OrderIsNat DEF Scalar
<1>2. p \in Nat /\ t \in Scalar /\ k + m = Order * p + t
  <2>. HIDE DEF m
  <2>. QED  BY <1>1, DivMod
<1>. HIDE DEF q, m, t, p
<1>3. k + b = Order * (p + q) + t /\ p + q \in Nat
  BY <1>1, <1>2, OrderIsNat DEF Scalar
<1>4. (k + b) % Order = t
  BY <1>2, <1>3, UniqueMod, Zenon
<1>. QED  BY <1>4 DEF t, m

\* What is left when a scalar is taken off.
LEMMA TakeOff ==
  ASSUME NEW s \in Scalar, NEW m \in Scalar
  PROVE  (s + ((Order - m) % Order)) % Order = IF s >= m THEN s - m ELSE (s - m) + Order
<1>1. (Order - m) % Order = IF m = 0 THEN 0 ELSE Order - m
  <2>1. Order - m \in 0..(2 * Order - 1)
    BY OrderIsNat DEF Scalar
  <2>. QED  BY <2>1, SmallMod, OrderIsNat DEF Scalar
<1>2. s + ((Order - m) % Order) \in 0..(2 * Order - 1)
  BY <1>1, OrderIsNat DEF Scalar
<1>. DEFINE a == s + ((Order - m) % Order)
<1>3. a % Order = IF a < Order THEN a ELSE a - Order
  <2>. HIDE DEF a
  <2>1. a \in 0..(2 * Order - 1)
    BY <1>2 DEF a
  <2>. QED  BY <2>1, SmallMod
<1>4. a = s + IF m = 0 THEN 0 ELSE Order - m
  BY <1>1
<1>. HIDE DEF a
<1>5. a % Order = IF s >= m THEN s - m ELSE (s - m) + Order
  BY <1>3, <1>4, OrderIsNat DEF Scalar
<1>. QED  BY <1>5 DEF a

\* Taking a scalar off and adding it again.
LEMMA TakeOffAddBack ==
  ASSUME NEW s \in Scalar, NEW m \in Scalar
  PROVE  (((s + ((Order - m) % Order)) % Order) + m) % Order = s
<1>. DEFINE r == (s + ((Order - m) % Order)) % Order
<1>1. r = IF s >= m THEN s - m ELSE (s - m) + Order
  BY TakeOff
<1>. HIDE DEF r
<1>2. r + m \in 0..(2 * Order - 1) /\ (r + m = s \/ r + m = s + Order)
  BY <1>1, OrderIsNat DEF Scalar
<1>3. (r + m) % Order = IF r + m < Order THEN r + m ELSE (r + m) - Order
  BY <1>2, SmallMod
<1>4. (r + m) % Order = s
  BY <1>2, <1>3, OrderIsNat DEF Scalar
<1>. QED  BY <1>4 DEF r

\* Adding a scalar and taking it off again.
LEMMA AddTakeOff ==
  ASSUME NEW k \in Scalar, NEW m \in Scalar
  PROVE  (((k + m) % Order) + ((Order - m) % Order)) % Order = k
<1>. DEFINE s == (k + m) % Order
<1>1. s = IF k + m < Order THEN k + m ELSE (k + m) - Order
  <2>1. k + m \in 0..(2 * Order - 1)
    BY OrderIsNat DEF Scalar
  <2>. QED  BY <2>1, SmallMod
<1>. HIDE DEF s
<1>2. s \in Scalar
  BY <1>1, OrderIsNat DEF Scalar
<1>3. (s + ((Order - m) % Order)) % Order = IF s >= m THEN s - m ELSE (s - m) + Order
  BY <1>2, TakeOff
<1>4. (IF s >= m THEN s - m ELSE (s - m) + Order) = k
  BY <1>1, OrderIsNat DEF Scalar
<1>. QED  BY <1>3, <1>4 DEF s

-----------------------------------------------------------------------------
(* Signatures *)

\* Every challenge is a scalar.
LEMMA ChallengeType ==
  ASSUME NEW x \in BigInt(2), NEW key \in BigInt(2), NEW message \in Nat
  PROVE  Challenge(x, key, message) \in Scalar
<1>1. x[1] \in Nat /\ x[2] \in Nat /\ key[1] \in Nat /\ key[2] \in Nat
  BY OrderIsNat DEF BigInt, Scalar
<1>. DEFINE a == 1 + x[1] + 2 * x[2] + key[1] + 3 * key[2] + message
<1>2. a \in Nat
  BY <1>1
<1>. HIDE DEF a
<1>3. a % Order \in Scalar
  BY <1>2, DivMod
<1>. QED  BY <1>3 DEF a, Challenge

\* A multiple of a point, reduced.
LEMMA TimesType ==
  ASSUME NEW e \in Scalar, NEW c \in Scalar
  PROVE  (e * c) % Order \in Scalar
<1>1. e * c \in Nat
  BY OrderIsNat DEF Scalar
<1>. DEFINE a == e * c
<1>2. a \in Nat
  BY <1>1
<1>. HIDE DEF a
<1>3. a % Order \in Scalar
  BY <1>2, DivMod
<1>. QED  BY <1>3 DEF a

\* What secp256k1_aggsig_verify_single accepts satisfies Schnorr's equation: the nonce and
\* the key times the challenge are the signature times G.
LEMMA SingleIsSchnorr ==
  ASSUME NEW sig \in Signature, NEW key \in BigInt(2), NEW message \in Nat,
         VerifySingle(sig, message, sig.r, key, key, FALSE)
  PROVE  PointSum(sig.r, Times(Challenge(sig.r, key, message), key)) = <<0, sig.s>>
<1>. DEFINE f == Challenge(XOf(sig.r), key, message)
            e == Challenge(sig.r, key, message)
            R == PointSum(<<0, sig.s>>, Negated(Times(f, key)))
<1>1. sig.r \in BigInt(2) /\ sig.s \in Scalar
  BY DEF Signature
<1>2. HasQuadY(R) /\ XOf(R) = sig.r
  BY Zenon DEF VerifySingle
<1>3. sig.r = R
  <2>. HIDE DEF R
  <2>. QED  BY <1>2, Zenon DEF XOf
<1>4. XOf(sig.r) = sig.r
  BY <1>2, <1>3, Zenon
<1>5. f = e
  BY <1>4, Zenon
<1>. DEFINE m == (e * key[1]) % Order
            n == (e * key[2]) % Order
<1>6. e \in Scalar /\ key[1] \in Scalar /\ key[2] \in Scalar
  <2>1. e \in Scalar
    BY <1>1, ChallengeType, Zenon
  <2>2. key[1] \in Scalar /\ key[2] \in Scalar
    BY DEF BigInt
  <2>. QED  BY <2>1, <2>2, Zenon
<1>7. m \in Scalar /\ n \in Scalar /\ 0 \in Scalar
  <2>. HIDE DEF e
  <2>1. 0 \in Scalar
    BY OrderIsNat DEF Scalar
  <2>. QED  BY <1>6, <2>1, TimesType, Zenon
<1>8. Times(e, key) = <<m, n>>
  BY Zenon DEF Times
<1>. HIDE DEF e, f, m, n, R
<1>9. R = <<(0 + ((Order - m) % Order)) % Order, (sig.s + ((Order - n) % Order)) % Order>>
  BY <1>5, <1>8 DEF R, PointSum, Negated
<1>. DEFINE u == (0 + ((Order - m) % Order)) % Order
            v == (sig.s + ((Order - n) % Order)) % Order
<1>10. (u + m) % Order = 0 /\ (v + n) % Order = sig.s
  BY <1>1, <1>7, TakeOffAddBack, Zenon
<1>. HIDE DEF u, v
<1>11. sig.r = <<u, v>>
  BY <1>3, <1>9, Zenon DEF u, v
<1>12. PointSum(<<u, v>>, <<m, n>>) = <<0, sig.s>>
  BY <1>10 DEF PointSum
<1>. QED  BY <1>8, <1>11, <1>12, Zenon DEF e

\* Kernel signatures that are accepted hold one by one, and every excess parses.
LEMMA KernelsHold ==
  ASSUME NEW body \in TxBody, KernelSignatures(body) = "accept", NEW i \in DOMAIN body.kernels
  PROVE  /\ body.kernels[i].excess # Infinity
         /\ VerifySingle(body.kernels[i].signature, body.kernels[i].fee,
                         body.kernels[i].signature.r, body.kernels[i].excess,
                         body.kernels[i].excess, FALSE)
<1>. DEFINE sigs == [j \in DOMAIN body.kernels |-> body.kernels[j].signature]
            excesses == KernelCommitments(body)
            messages == [j \in DOMAIN body.kernels |-> body.kernels[j].fee]
            keys == [j \in DOMAIN excesses |-> ToPublicKey(excesses[j])]
            c == body.kernels[i].excess
<1>1. Throw \notin Range(keys) /\ VerifyBatch(sigs, keys, messages)
  <2>1. "throw" # "accept" /\ "reject" # "accept"
    OBVIOUS
  <2>. HIDE DEF sigs, messages
  <2>2. VerifyKernelSignatures(sigs, excesses, messages) = "accept"
    BY Zenon DEF KernelSignatures, sigs, messages
  <2>. HIDE DEF excesses, keys
  <2>. QED  BY <2>1, <2>2 DEF VerifyKernelSignatures, keys
<1>2. i \in DOMAIN excesses /\ excesses[i] = c
  BY Zenon DEF KernelCommitments
<1>3. keys[i] = ToPublicKey(c) /\ i \in DOMAIN keys
  BY <1>2, Zenon
<1>4. ToPublicKey(c) # Throw
  <2>. HIDE DEF keys
  <2>. QED  BY <1>1, <1>3 DEF Range
<1>5. c # Infinity /\ ToPublicKey(c) = c
  BY <1>4 DEF ToPublicKey, EncodeKey
<1>6. sigs[i] = body.kernels[i].signature /\ messages[i] = body.kernels[i].fee /\ i \in DOMAIN sigs
  BY Zenon
<1>7. VerifySingle(sigs[i], messages[i], sigs[i].r, keys[i], keys[i], FALSE)
  BY <1>1, <1>6, Zenon DEF VerifyBatch
<1>. HIDE DEF keys, sigs, messages
<1>8. VerifySingle(body.kernels[i].signature, body.kernels[i].fee,
                   body.kernels[i].signature.r, c, c, FALSE)
  BY <1>3, <1>5, <1>6, <1>7, Zenon
<1>. QED  BY <1>5, <1>8

-----------------------------------------------------------------------------
(* Bodies *)

\* Of proofs that are accepted without the help of a cache each that is as long as the first,
\* and so the first itself, holds for its own commitment, if none is longer than a proof.
LEMMA ProofsHold ==
  ASSUME NEW proofs \in Seq([1..2 -> BigInt(2) \cup Seq(Scalar)]),
         \A j \in DOMAIN proofs : proofs[j][2] \in Seq(Scalar) /\ Len(proofs[j][2]) <= ProofSize,
         "accept" \in VerifyBulletproofs(proofs, {}), NEW i \in DOMAIN proofs
  PROVE  /\ proofs[i][1] # Infinity
         /\ Len(proofs[i][2]) >= Len(proofs[1][2]) => Proves(proofs[i][2], proofs[i][1])
<1>. DEFINE unverified == {p \in Range(proofs) : ~WasAlreadyVerified({}, p[1])}
            length == Len(proofs[1][2])
            mayHold(p) == IF Len(p[2]) < length THEN length = ProofSize
                          ELSE Proves(SubSeq(p[2], 1, length), p[1])
<1>1. unverified = Range(proofs)
  BY Zenon DEF WasAlreadyVerified
<1>2. proofs[i] \in unverified /\ proofs # <<>>
  <2>1. proofs[i] \in Range(proofs)
    BY Zenon DEF Range
  <2>2. proofs # <<>>
    OBVIOUS
  <2>. QED  BY <1>1, <2>1, <2>2, Zenon
<1>. DEFINE held1 == {o \in {"accept"} : \A p \in unverified : mayHold(p)}
<1>3. "accept" \in IF proofs = <<>> THEN {"accept", "crash"}
                   ELSE IF \E p \in unverified : p[1] = Infinity THEN {"throw"}
                   ELSE IF unverified = {} THEN {"accept"}
                   ELSE {"reject", "crash"} \cup held1
  BY Zenon DEF VerifyBulletproofs
<1>. HIDE DEF unverified
<1>4. (\A p \in unverified : p[1] # Infinity) /\ "accept" \in held1
  <2>. HIDE DEF held1
  <2>. QED  BY <1>2, <1>3
<1>5. proofs[i][1] # Infinity /\ mayHold(proofs[i])
  BY <1>2, <1>4, Zenon
<1>. DEFINE b == proofs[i][2]
<1>6. b \in Seq(Scalar) /\ Len(b) <= ProofSize /\ length \in Nat
  <2>1. 1 \in DOMAIN proofs
    BY <1>2
  <2>2. proofs[1][2] \in Seq(Scalar)
    BY <2>1, Zenon
  <2>3. length \in Nat
    BY <2>2
  <2>. QED  BY <2>3
<1>7. ~(Len(b) < length) => Proves(SubSeq(b, 1, length), proofs[i][1])
  BY <1>5, Zenon
<1>. HIDE DEF b, length
<1>8. ASSUME Len(b) >= length PROVE Proves(b, proofs[i][1])
  <2>1. Proves(SubSeq(b, 1, length), proofs[i][1])
    <3>1. ~(Len(b) < length)
      BY <1>6, <1>8
    <3>. QED  BY <1>7, <3>1, Zenon
  <2>2. Len(SubSeq(b, 1, length)) = ProofSize
    BY <2>1, Zenon DEF Proves
  <2>3. SubSeq(b, 1, length) = b
    BY <1>6, <1>8, <2>2 DEF ProofSize, MessageSize
  <2>. QED  BY <2>1, <2>3, Zenon
<1>. QED  BY <1>5, <1>8, Zenon DEF b, length

\* What TxBody::Validate accepts is sound, for any body of any number of inputs, outputs and
\* kernels over a group of any order: no output is spent in it, each kernel's signature
\* holds for its own excess and fee, and the proof of the first output, and each that is as
\* long, holds for its own commitment.  All proofs are taken to be as long as the first, so
\* that nothing follows for a shorter one.  RangeProof::Deserialize admits no proof longer
\* than MAX_SIZE, the length of a proof.
THEOREM ValidateIsSound ==
  ASSUME MaxProof <= ProofSize, NEW body \in TxBody,
         \A i \in DOMAIN body.outputs : Len(body.outputs[i].proof) <= MaxProof,
         "accept" \in Validate(body, CacheAtCall)
  PROVE  Sound(body)
<1>. DEFINE proofs == [i \in DOMAIN body.outputs |-> <<body.outputs[i].commitment, body.outputs[i].proof>>]
<1>1. /\ VerifyCutThrough(body) /\ KernelSignatures(body) = "accept"
      /\ "accept" \in VerifyBulletproofs(proofs, {})
  <2>1. "accept" \notin {"reject"}
    OBVIOUS
  <2>. QED  BY <2>1, Zenon DEF Validate, CacheAtCall
<1>2. body.inputs \in Seq(Input) /\ body.outputs \in Seq(Output) /\ body.kernels \in Seq(Kernel)
  BY DEF TxBody
<1>3. ASSUME NEW i \in DOMAIN body.inputs, NEW j \in DOMAIN body.outputs
      PROVE  body.inputs[i].commitment # body.outputs[j].commitment
  <2>1. body.inputs[i].commitment \in Range(InputCommitments(body))
    BY Zenon DEF InputCommitments, Range
  <2>2. body.outputs[j].commitment \in Range(OutputCommitments(body))
    BY Zenon DEF OutputCommitments, Range
  <2>. QED  BY <1>1, <2>1, <2>2, Zenon DEF VerifyCutThrough
<1>4. ASSUME NEW i \in DOMAIN body.outputs
      PROVE  /\ body.outputs[i].commitment # Infinity
             /\ Len(body.outputs[i].proof) >= Len(body.outputs[1].proof) =>
                  Proves(body.outputs[i].proof, body.outputs[i].commitment)
  <2>1. \A j \in DOMAIN body.outputs :
          /\ body.outputs[j].commitment \in BigInt(2) /\ body.outputs[j].proof \in Seq(Scalar)
          /\ Len(body.outputs[j].proof) <= ProofSize
    <3>. TAKE j \in DOMAIN body.outputs
    <3>1. body.outputs[j] \in Output
      BY <1>2
    <3>2. body.outputs[j].proof \in Seq(Scalar) /\ body.outputs[j].commitment \in BigInt(2)
      BY <3>1 DEF Output, RangeProof, Commitment
    <3>3. Len(body.outputs[j].proof) <= MaxProof
      OBVIOUS
    <3>. QED  BY <3>2, <3>3, WireAssumption DEF ProofSize, MessageSize
  <2>2. DOMAIN proofs = DOMAIN body.outputs /\ \A j \in DOMAIN proofs :
          proofs[j][1] = body.outputs[j].commitment /\ proofs[j][2] = body.outputs[j].proof
    OBVIOUS
  <2>3. proofs \in Seq([1..2 -> BigInt(2) \cup Seq(Scalar)])
    BY <1>2, <2>1
  <2>4. 1 \in DOMAIN body.outputs
    BY <1>2
  <2>. HIDE DEF proofs
  <2>5. /\ proofs[i][1] # Infinity
        /\ Len(proofs[i][2]) >= Len(proofs[1][2]) => Proves(proofs[i][2], proofs[i][1])
    BY <1>1, <2>1, <2>2, <2>3, ProofsHold, Zenon
  <2>. QED  BY <2>2, <2>4, <2>5, Zenon
<1>5. ASSUME NEW i \in DOMAIN body.kernels
      PROVE  LET k == body.kernels[i]
                 e == Challenge(k.signature.r, k.excess, k.fee)
             IN  k.excess # Infinity /\ PointSum(k.signature.r, Times(e, k.excess)) = <<0, k.signature.s>>
  <2>. DEFINE k == body.kernels[i]
  <2>1. k \in Kernel
    BY <1>2
  <2>2. k.signature \in Signature /\ k.excess \in BigInt(2) /\ k.fee \in Nat
    BY <2>1, OrderIsNat DEF Kernel, Commitment, Scalar
  <2>3. /\ k.excess # Infinity
        /\ VerifySingle(k.signature, k.fee, k.signature.r, k.excess, k.excess, FALSE)
    BY <1>1, KernelsHold, Zenon
  <2>. HIDE DEF k
  <2>4. PointSum(k.signature.r, Times(Challenge(k.signature.r, k.excess, k.fee), k.excess))
          = <<0, k.signature.s>>
    BY <2>2, <2>3, SingleIsSchnorr, Zenon
  <2>. QED  BY <2>3, <2>4, Zenon DEF k
<1>. QED  BY <1>3, <1>4, <1>5, Zenon DEF Sound

-----------------------------------------------------------------------------
(* Shares *)

\* The negation of a nonce, and which of the two has a quadratic residue for y.
LEMMA NegatedNonce ==
  ASSUME NEW k \in 1..(Order - 1)
  PROVE  /\ Order - k \in 1..(Order - 1) /\ Order - (Order - k) = k
         /\ Negated(<<0, k>>) = <<0, Order - k>>
         /\ HasQuadY(<<0, Order - k>>) <=> ~HasQuadY(<<0, k>>)
<1>. DEFINE half == Order \div 2
<1>1. half \in Nat /\ (Order = 2 * half \/ Order = 2 * half + 1) /\ Order \in Nat /\ Order > 3
  BY OrderIsNat
<1>2. Order # 2 * half
  <2>1. 2 \in 2..(Order - 1)
    BY OrderIsNat
  <2>2. Order % 2 # 0
    BY <2>1, OrderAssumption, Zenon
  <2>. QED  BY <2>2, OrderIsNat
<1>. HIDE DEF half
<1>3. HasQuadY(<<0, k>>) <=> k <= half
  BY <1>1 DEF HasQuadY, half
<1>4. HasQuadY(<<0, Order - k>>) <=> Order - k <= half
  BY <1>1 DEF HasQuadY, half
<1>5. (k <= half) <=> ~(Order - k <= half)
  BY <1>1, <1>2
<1>6. Negated(<<0, k>>) = <<0, Order - k>>
  <2>1. Order - 0 \in 0..(2 * Order - 1) /\ Order - k \in 0..(2 * Order - 1)
    BY <1>1
  <2>2. (Order - 0) % Order = 0 /\ (Order - k) % Order = Order - k
    BY <1>1, <2>1, SmallMod
  <2>. QED  BY <2>2 DEF Negated
<1>7. Order - k \in 1..(Order - 1) /\ Order - (Order - k) = k
  BY <1>1
<1>. QED  BY <1>3, <1>4, <1>5, <1>6, <1>7, Zenon

\* A nonce and its negation are both written as the one of them that has a quadratic
\* residue for y.
LEMMA SameX ==
  ASSUME NEW k \in 1..(Order - 1)
  PROVE  /\ XOf(<<0, Order - k>>) = XOf(<<0, k>>)
         /\ XOf(<<0, k>>) = <<0, IF HasQuadY(<<0, k>>) THEN k ELSE Order - k>>
         /\ HasQuadY(XOf(<<0, k>>)) /\ XOf(XOf(<<0, k>>)) = XOf(<<0, k>>)
<1>. DEFINE j == Order - k
<1>1. /\ j \in 1..(Order - 1) /\ Order - j = k /\ Negated(<<0, k>>) = <<0, j>>
      /\ HasQuadY(<<0, j>>) <=> ~HasQuadY(<<0, k>>)
  BY NegatedNonce, Zenon
<1>2. Negated(<<0, j>>) = <<0, k>>
  <2>. HIDE DEF j
  <2>1. Negated(<<0, j>>) = <<0, Order - j>>
    BY <1>1, NegatedNonce, Zenon
  <2>. QED  BY <1>1, <2>1, Zenon
<1>. HIDE DEF j
<1>3. /\ XOf(<<0, j>>) = XOf(<<0, k>>)
      /\ XOf(<<0, k>>) = IF HasQuadY(<<0, k>>) THEN <<0, k>> ELSE <<0, j>>
      /\ HasQuadY(XOf(<<0, k>>))
  BY <1>1, <1>2, Zenon DEF XOf
<1>4. XOf(XOf(<<0, k>>)) = XOf(<<0, k>>)
  BY <1>3, Zenon DEF XOf
<1>. QED  BY <1>3, <1>4, Zenon DEF j

\* Both the coordinates and their negations are scalars.
LEMMA XOfType ==
  ASSUME NEW a \in BigInt(2)
  PROVE  XOf(a) \in BigInt(2)
<1>1. a[1] \in Scalar /\ a[2] \in Scalar
  BY DEF BigInt
<1>2. ASSUME NEW c \in Scalar
      PROVE  (Order - c) % Order \in Scalar
  <2>1. Order - c \in Nat
    BY OrderIsNat DEF Scalar
  <2>. QED  BY <2>1, DivMod, Zenon
<1>3. Negated(a) \in BigInt(2)
  <2>1. (Order - a[1]) % Order \in Scalar /\ (Order - a[2]) % Order \in Scalar
    BY <1>1, <1>2, Zenon
  <2>. DEFINE u == (Order - a[1]) % Order
              v == (Order - a[2]) % Order
  <2>2. Negated(a) = <<u, v>>
    BY Zenon DEF Negated
  <2>. HIDE DEF u, v
  <2>. QED  BY <2>1, <2>2 DEF BigInt, u, v
<1>. QED  BY <1>3, Zenon DEF XOf

\* Taking the challenge times the key off a signature leaves its nonce.
LEMMA NonceIsLeft ==
  ASSUME NEW k \in Scalar, NEW e \in Scalar, NEW key \in Scalar
  PROVE  PointSum(<<0, (k + ((e * key) % Order)) % Order>>, Negated(Times(e, <<0, key>>))) = <<0, k>>
<1>. DEFINE m == (e * key) % Order
            s == (k + m) % Order
<1>1. m \in Scalar /\ 0 \in Scalar /\ Order \in Nat /\ Order > 3
  BY TimesType, OrderIsNat DEF Scalar
<1>2. (e * 0) % Order = 0 /\ (0 + 0) % Order = 0
  <2>1. e * 0 = 0 /\ 0 + 0 = 0 /\ 0 \in 0..(2 * Order - 1) /\ 0 < Order
    BY <1>1 DEF Scalar
  <2>2. 0 % Order = 0
    BY <2>1, SmallMod
  <2>. QED  BY <2>1, <2>2
<1>3. Times(e, <<0, key>>) = <<0, m>>
  BY <1>2 DEF Times
<1>. HIDE DEF m
<1>4. (s + ((Order - m) % Order)) % Order = k
  BY <1>1, AddTakeOff, Zenon
<1>5. (0 + ((Order - 0) % Order)) % Order = 0
  <2>1. (((0 + 0) % Order) + ((Order - 0) % Order)) % Order = 0
    BY <1>1, AddTakeOff, Zenon
  <2>. QED  BY <1>2, <2>1, Zenon
<1>. HIDE DEF s
<1>6. Negated(<<0, m>>) = <<(Order - 0) % Order, (Order - m) % Order>>
  BY DEF Negated
<1>7. PointSum(<<0, s>>, Negated(<<0, m>>))
        = <<(0 + ((Order - 0) % Order)) % Order, (s + ((Order - m) % Order)) % Order>>
  BY <1>6 DEF PointSum
<1>8. PointSum(<<0, s>>, Negated(<<0, m>>)) = <<0, k>>
  BY <1>4, <1>5, <1>7, Zenon
<1>. QED  BY <1>3, <1>8, Zenon DEF s, m

\* A share that is signed with any key and any nonce but zero passes VerifyPartialSignature
\* under the key and the sums, whatever parities the nonce and the sum of the nonces have.
THEOREM ShareVerifies ==
  ASSUME NEW key \in 1..(Order - 1), NEW nonce \in 1..(Order - 1), NEW message \in Nat,
         NEW keys \in PublicKey \ {Infinity}, NEW nonces \in PublicKey \ {Infinity}
  PROVE  VerifyPartialSignature(
           CalculatePartialSignature(key, nonce, keys, nonces, message),
           CalculatePublicKey(key), keys, nonces, message)
<1>. DEFINE e == Challenge(XOf(nonces), keys, message)
            k == IF HasQuadY(nonces) THEN nonce ELSE Order - nonce
            s == (k + e * key) % Order
            m == (e * key) % Order
            raw == [form |-> "raw", r |-> XOf(<<0, nonce>>), s |-> s]
<1>1. keys \in BigInt(2) /\ nonces \in BigInt(2) /\ Order \in Nat /\ Order > 3
  BY OrderIsNat DEF PublicKey
<1>2. e \in Scalar /\ key \in Scalar /\ 0 \in Scalar
  <2>1. e \in Scalar
    BY <1>1, XOfType, ChallengeType, Zenon
  <2>2. key \in Scalar /\ 0 \in Scalar
    BY <1>1 DEF Scalar
  <2>. QED  BY <2>1, <2>2, Zenon
<1>3. k \in Scalar /\ k # 0 /\ k \in Nat /\ (k = nonce \/ k = Order - nonce)
  BY <1>1 DEF Scalar
<1>. HIDE DEF e, k
<1>4. m \in Scalar /\ s = (k + m) % Order
  <2>1. e * key \in Nat
    BY <1>1, <1>2 DEF Scalar
  <2>. DEFINE b == e * key
  <2>2. b \in Nat
    BY <2>1
  <2>3. b % Order \in Scalar /\ (k + b) % Order = (k + (b % Order)) % Order
    <3>. HIDE DEF b
    <3>. QED  BY <1>3, <2>2, DivMod, ModAdd, Zenon
  <2>. QED  BY <2>3, Zenon
\* Taking the challenge times the key off again leaves the nonce, or its negation.
<1>5. PointSum(<<0, s>>, Negated(Times(e, <<0, key>>))) = <<0, k>>
  <2>. HIDE DEF s
  <2>. QED  BY <1>2, <1>3, <1>4, NonceIsLeft, Zenon
<1>6. XOf(<<0, k>>) = XOf(<<0, nonce>>) /\ <<0, k>> # Infinity
  <2>1. XOf(<<0, k>>) = XOf(<<0, nonce>>)
    BY <1>3, SameX, Zenon
  <2>2. <<0, k>> # Infinity
    BY <1>3 DEF Infinity
  <2>. QED  BY <2>1, <2>2, Zenon
<1>7. VerifySingle(raw, message, nonces, <<0, key>>, keys, TRUE)
  <2>1. raw.form = "raw" /\ raw.r = XOf(<<0, nonce>>) /\ raw.s = s
    OBVIOUS
  <2>. HIDE DEF raw, s
  <2>. QED  BY <1>5, <1>6, <2>1, Zenon DEF VerifySingle, e
\* Nothing throws, and the share is changed to its compact form and back.
<1>8. <<0, key>> \in BigInt(2) /\ <<0, key>> # Infinity
  BY <1>2 DEF BigInt, Infinity
<1>9. ParseKeys(<<keys, nonces>>) = <<keys, nonces>>
  BY DEF ParseKeys, Range
<1>10. ParseKeys(<<<<0, key>>, keys, nonces>>) = <<<<0, key>>, keys, nonces>>
  <2>. DEFINE own == <<0, key>>
  <2>1. own # Infinity
    BY <1>8
  <2>. HIDE DEF own
  <2>2. ParseKeys(<<own, keys, nonces>>) = <<own, keys, nonces>>
    BY <2>1 DEF ParseKeys, Range
  <2>. QED  BY <2>2 DEF own
<1>11. Throw # <<keys, nonces>> /\ Throw # <<<<0, key>>, keys, nonces>>
  <2>1. ASSUME NEW a \in PublicKey, NEW b \in PublicKey, NEW c \in PublicKey
        PROVE  <<a, b>> \in Seq(PublicKey) /\ <<a, b, c>> \in Seq(PublicKey)
    OBVIOUS
  <2>2. keys \in PublicKey /\ nonces \in PublicKey /\ <<0, key>> \in PublicKey
    BY <1>1, <1>8, Zenon DEF PublicKey
  <2>3. <<keys, nonces>> \in Seq(PublicKey) /\ <<<<0, key>>, keys, nonces>> \in Seq(PublicKey)
    BY <2>1, <2>2, Zenon
  <2>. QED  BY <2>3, ThrowAssumption, Zenon
<1>12. CalculatePublicKey(key) = <<0, key>>
  BY <1>8 DEF CalculatePublicKey, EncodeKey
<1>13. CalculatePartialSignature(key, nonce, keys, nonces, message) = ToCompact(raw)
  BY <1>9, <1>11, Zenon DEF CalculatePartialSignature, SignSingle, e, k
<1>14. FromCompact(ToCompact(raw)) = raw
  <2>. HIDE DEF s
  <2>. QED  BY DEF FromCompact, ToCompact
<1>. QED  BY <1>7, <1>10, <1>11, <1>12, <1>13, <1>14, Zenon DEF VerifyPartialSignature

-----------------------------------------------------------------------------
(* Folds over at most two elements *)

\* The subsets of the indices of a pair, and the largest of each.
LEMMA PairIndices ==
  /\ SUBSET {1, 2} = {{}, {1}, {2}, {1, 2}}
  /\ Max({1, 2}) = 2 /\ Max({1}) = 1 /\ Max({2}) = 2
  /\ {1, 2} \ {2} = {1} /\ {1} \ {1} = {} /\ {2} \ {2} = {}
  /\ {1} # {} /\ {2} # {} /\ {1, 2} # {} /\ {1} # {2} /\ {1} # {1, 2} /\ {2} # {1, 2}
<1>1. SUBSET {1, 2} = {{}, {1}, {2}, {1, 2}}
  <2>1. ASSUME NEW s \in SUBSET {1, 2}
        PROVE  s \in {{}, {1}, {2}, {1, 2}}
    <3>1. CASE 1 \in s /\ 2 \in s
      BY <3>1
    <3>2. CASE 1 \in s /\ 2 \notin s
      BY <3>2
    <3>3. CASE 1 \notin s /\ 2 \in s
      BY <3>3
    <3>4. CASE 1 \notin s /\ 2 \notin s
      BY <3>4
    <3>. QED  BY <3>1, <3>2, <3>3, <3>4
  <2>. QED  BY <2>1
<1>2. Max({1, 2}) = 2 /\ Max({1}) = 1 /\ Max({2}) = 2
  BY DEF Max
<1>. QED  BY <1>1, <1>2

\* The sum of up to two points.
LEMMA SumOfFew ==
  ASSUME NEW seq, DOMAIN seq = {} \/ DOMAIN seq = {1} \/ DOMAIN seq = {1, 2}
  PROVE  /\ DOMAIN seq = {} => SumOf(seq) = Infinity
         /\ DOMAIN seq = {1} => SumOf(seq) = PointSum(Infinity, seq[1])
         /\ DOMAIN seq = {1, 2} => SumOf(seq) = PointSum(PointSum(Infinity, seq[1]), seq[2])
<1>. DEFINE D == DOMAIN seq
            one == PointSum(Infinity, seq[1])
            two == PointSum(Infinity, seq[2])
            both == PointSum(one, seq[2])
            H(g, s) == IF s = {} THEN Infinity ELSE PointSum(g[s \ {Max(s)}], seq[Max(s)])
            F(g) == [s \in SUBSET D |-> H(g, s)]
            iter == CHOOSE g : g = F(g)
            first == [s \in SUBSET D |-> IF s = {} THEN Infinity ELSE IF s = {1} THEN one
                                         ELSE IF s = {2} THEN two ELSE both]
<1>1. SumOf(seq) = iter[D]
  BY DEF SumOf, FoldLeft, MapThenFoldSet
<1>2. ASSUME NEW g
      PROVE  /\ H(g, {}) = Infinity /\ H(g, {1}) = PointSum(g[{}], seq[1])
             /\ H(g, {2}) = PointSum(g[{}], seq[2]) /\ H(g, {1, 2}) = PointSum(g[{1}], seq[2])
  <2>1. {1} # {} /\ Max({1}) = 1 /\ {1} \ {1} = {}
    BY PairIndices, Zenon
  <2>2. {2} # {} /\ Max({2}) = 2 /\ {2} \ {2} = {}
    BY PairIndices, Zenon
  <2>3. {1, 2} # {} /\ Max({1, 2}) = 2 /\ {1, 2} \ {2} = {1}
    BY PairIndices, Zenon
  <2>4. H(g, {1}) = PointSum(g[{}], seq[1])
    BY <2>1
  <2>5. H(g, {2}) = PointSum(g[{}], seq[2])
    BY <2>2
  <2>6. H(g, {1, 2}) = PointSum(g[{1}], seq[2])
    BY <2>3
  <2>. QED  BY <2>4, <2>5, <2>6, Zenon
<1>. HIDE DEF D, H
<1>3. first = F(first)
  <2>1. ASSUME NEW s \in SUBSET D
        PROVE  first[s] = H(first, s)
    <3>1. s \in {{}, {1}, {2}, {1, 2}} /\ {} \in SUBSET D /\ (s = {1, 2} => {1} \in SUBSET D)
      BY PairIndices DEF D
    <3>2. first[{}] = Infinity /\ (s = {1, 2} => first[{1}] = one)
      BY <3>1, PairIndices, Zenon
    <3>3. first[s] = IF s = {} THEN Infinity ELSE IF s = {1} THEN one ELSE IF s = {2} THEN two ELSE both
      BY Zenon
    <3>. HIDE DEF first
    <3>4. CASE s = {}
      BY <1>2, <3>2, <3>4, Zenon
    <3>5. CASE s = {1}
      <4>1. first[s] = one /\ H(first, s) = PointSum(first[{}], seq[1])
        BY <1>2, <3>3, <3>5, PairIndices, Zenon
      <4>. QED  BY <3>2, <4>1
    <3>6. CASE s = {2}
      <4>1. first[s] = two /\ H(first, s) = PointSum(first[{}], seq[2])
        BY <1>2, <3>3, <3>6, PairIndices, Zenon
      <4>. QED  BY <3>2, <4>1
    <3>7. CASE s = {1, 2}
      <4>1. first[s] = both /\ H(first, s) = PointSum(first[{1}], seq[2])
        BY <1>2, <3>3, <3>7, PairIndices, Zenon
      <4>. QED  BY <3>2, <3>7, <4>1
    <3>. QED  BY <3>1, <3>4, <3>5, <3>6, <3>7, Zenon
  <2>. QED  BY <2>1, Zenon
<1>4. iter = F(iter)
  <2>. HIDE DEF F, first
  <2>. QED  BY <1>3, Zenon
<1>. HIDE DEF iter
<1>5. \A s \in SUBSET D : iter[s] = H(iter, s)
  BY <1>4
<1>6. iter[{}] = Infinity /\ (1 \in D => iter[{1}] = one) /\ (D = {1, 2} => iter[{1, 2}] = both)
  <2>1. iter[{}] = Infinity
    <3>1. iter[{}] = H(iter, {})
      BY <1>5
    <3>. QED  BY <1>2, <3>1, Zenon
  <2>2. ASSUME 1 \in D
        PROVE  iter[{1}] = one
    <3>1. iter[{1}] = H(iter, {1})
      BY <1>5, <2>2
    <3>. QED  BY <1>2, <2>1, <3>1, Zenon
  <2>3. ASSUME D = {1, 2}
        PROVE  iter[{1, 2}] = both
    <3>1. iter[{1, 2}] = H(iter, {1, 2})
      BY <1>5, <2>3
    <3>2. iter[{1}] = one
      BY <2>2, <2>3
    <3>3. H(iter, {1, 2}) = PointSum(iter[{1}], seq[2])
      BY <1>2, Zenon
    <3>. QED  BY <3>1, <3>2, <3>3
  <2>. QED  BY <2>1, <2>2, <2>3, Zenon
<1>. HIDE DEF one, both
<1>7. (D = {} => iter[D] = Infinity) /\ (D = {1} => iter[D] = one) /\ (D = {1, 2} => iter[D] = both)
  BY <1>6, Zenon
<1>. QED  BY <1>1, <1>7, Zenon DEF D, one, both

\* The sum of up to two scalars.
LEMMA ScalarSumFew ==
  ASSUME NEW seq, DOMAIN seq = {} \/ DOMAIN seq = {1} \/ DOMAIN seq = {1, 2}
  PROVE  /\ DOMAIN seq = {} => ScalarSum(seq) = 0
         /\ DOMAIN seq = {1} => ScalarSum(seq) = ((0 + seq[1]) % Order)
         /\ DOMAIN seq = {1, 2} => ScalarSum(seq) = ((((0 + seq[1]) % Order) + seq[2]) % Order)
<1>. DEFINE D == DOMAIN seq
            one == ((0 + seq[1]) % Order)
            two == ((0 + seq[2]) % Order)
            both == ((one + seq[2]) % Order)
            H(g, s) == IF s = {} THEN 0 ELSE ((g[s \ {Max(s)}] + seq[Max(s)]) % Order)
            F(g) == [s \in SUBSET D |-> H(g, s)]
            iter == CHOOSE g : g = F(g)
            first == [s \in SUBSET D |-> IF s = {} THEN 0 ELSE IF s = {1} THEN one
                                         ELSE IF s = {2} THEN two ELSE both]
<1>1. ScalarSum(seq) = iter[D]
  BY DEF ScalarSum, FoldLeft, MapThenFoldSet
<1>2. ASSUME NEW g
      PROVE  /\ H(g, {}) = 0 /\ H(g, {1}) = ((g[{}] + seq[1]) % Order)
             /\ H(g, {2}) = ((g[{}] + seq[2]) % Order) /\ H(g, {1, 2}) = ((g[{1}] + seq[2]) % Order)
  <2>1. {1} # {} /\ Max({1}) = 1 /\ {1} \ {1} = {}
    BY PairIndices, Zenon
  <2>2. {2} # {} /\ Max({2}) = 2 /\ {2} \ {2} = {}
    BY PairIndices, Zenon
  <2>3. {1, 2} # {} /\ Max({1, 2}) = 2 /\ {1, 2} \ {2} = {1}
    BY PairIndices, Zenon
  <2>4. H(g, {1}) = ((g[{}] + seq[1]) % Order)
    BY <2>1
  <2>5. H(g, {2}) = ((g[{}] + seq[2]) % Order)
    BY <2>2
  <2>6. H(g, {1, 2}) = ((g[{1}] + seq[2]) % Order)
    BY <2>3
  <2>. QED  BY <2>4, <2>5, <2>6, Zenon
<1>. HIDE DEF D, H
<1>3. first = F(first)
  <2>1. ASSUME NEW s \in SUBSET D
        PROVE  first[s] = H(first, s)
    <3>1. s \in {{}, {1}, {2}, {1, 2}} /\ {} \in SUBSET D /\ (s = {1, 2} => {1} \in SUBSET D)
      BY PairIndices DEF D
    <3>2. first[{}] = 0 /\ (s = {1, 2} => first[{1}] = one)
      BY <3>1, PairIndices, Zenon
    <3>3. first[s] = IF s = {} THEN 0 ELSE IF s = {1} THEN one ELSE IF s = {2} THEN two ELSE both
      BY Zenon
    <3>. HIDE DEF first
    <3>4. CASE s = {}
      BY <1>2, <3>2, <3>4, Zenon
    <3>5. CASE s = {1}
      <4>1. first[s] = one /\ H(first, s) = ((first[{}] + seq[1]) % Order)
        BY <1>2, <3>3, <3>5, PairIndices, Zenon
      <4>. QED  BY <3>2, <4>1
    <3>6. CASE s = {2}
      <4>1. first[s] = two /\ H(first, s) = ((first[{}] + seq[2]) % Order)
        BY <1>2, <3>3, <3>6, PairIndices, Zenon
      <4>. QED  BY <3>2, <4>1
    <3>7. CASE s = {1, 2}
      <4>1. first[s] = both /\ H(first, s) = ((first[{1}] + seq[2]) % Order)
        BY <1>2, <3>3, <3>7, PairIndices, Zenon
      <4>. QED  BY <3>2, <3>7, <4>1
    <3>. QED  BY <3>1, <3>4, <3>5, <3>6, <3>7, Zenon
  <2>. QED  BY <2>1, Zenon
<1>4. iter = F(iter)
  <2>. HIDE DEF F, first
  <2>. QED  BY <1>3, Zenon
<1>. HIDE DEF iter
<1>5. \A s \in SUBSET D : iter[s] = H(iter, s)
  BY <1>4
<1>6. iter[{}] = 0 /\ (1 \in D => iter[{1}] = one) /\ (D = {1, 2} => iter[{1, 2}] = both)
  <2>1. iter[{}] = 0
    <3>1. iter[{}] = H(iter, {})
      BY <1>5
    <3>. QED  BY <1>2, <3>1, Zenon
  <2>2. ASSUME 1 \in D
        PROVE  iter[{1}] = one
    <3>1. iter[{1}] = H(iter, {1})
      BY <1>5, <2>2
    <3>. QED  BY <1>2, <2>1, <3>1, Zenon
  <2>3. ASSUME D = {1, 2}
        PROVE  iter[{1, 2}] = both
    <3>1. iter[{1, 2}] = H(iter, {1, 2})
      BY <1>5, <2>3
    <3>2. iter[{1}] = one
      BY <2>2, <2>3
    <3>3. H(iter, {1, 2}) = ((iter[{1}] + seq[2]) % Order)
      BY <1>2, Zenon
    <3>. QED  BY <3>1, <3>2, <3>3
  <2>. QED  BY <2>1, <2>2, <2>3, Zenon
<1>. HIDE DEF one, both
<1>7. (D = {} => iter[D] = 0) /\ (D = {1} => iter[D] = one) /\ (D = {1, 2} => iter[D] = both)
  BY <1>6, Zenon
<1>. QED  BY <1>1, <1>7, Zenon DEF D, one, both

\* What is copied of up to two elements.
LEMMA CopyFew ==
  ASSUME NEW zero, NEW seq, DOMAIN seq = {} \/ DOMAIN seq = {1} \/ DOMAIN seq = {1, 2}
  PROVE  /\ DOMAIN seq = {} => CopyNonZero(seq, zero) = <<>>
         /\ DOMAIN seq = {1} => CopyNonZero(seq, zero) = (IF seq[1] = zero THEN <<>> ELSE Append(<<>>, seq[1]))
         /\ DOMAIN seq = {1, 2} => CopyNonZero(seq, zero) = (IF seq[2] = zero THEN (IF seq[1] = zero THEN <<>> ELSE Append(<<>>, seq[1])) ELSE Append((IF seq[1] = zero THEN <<>> ELSE Append(<<>>, seq[1])), seq[2]))
<1>. DEFINE D == DOMAIN seq
            one == (IF seq[1] = zero THEN <<>> ELSE Append(<<>>, seq[1]))
            two == (IF seq[2] = zero THEN <<>> ELSE Append(<<>>, seq[2]))
            both == (IF seq[2] = zero THEN one ELSE Append(one, seq[2]))
            H(g, s) == IF s = {} THEN <<>> ELSE (IF seq[Max(s)] = zero THEN g[s \ {Max(s)}] ELSE Append(g[s \ {Max(s)}], seq[Max(s)]))
            F(g) == [s \in SUBSET D |-> H(g, s)]
            iter == CHOOSE g : g = F(g)
            first == [s \in SUBSET D |-> IF s = {} THEN <<>> ELSE IF s = {1} THEN one
                                         ELSE IF s = {2} THEN two ELSE both]
<1>1. CopyNonZero(seq, zero) = iter[D]
  BY DEF CopyNonZero, FoldLeft, MapThenFoldSet
<1>2. ASSUME NEW g
      PROVE  /\ H(g, {}) = <<>> /\ H(g, {1}) = (IF seq[1] = zero THEN g[{}] ELSE Append(g[{}], seq[1]))
             /\ H(g, {2}) = (IF seq[2] = zero THEN g[{}] ELSE Append(g[{}], seq[2])) /\ H(g, {1, 2}) = (IF seq[2] = zero THEN g[{1}] ELSE Append(g[{1}], seq[2]))
  <2>1. {1} # {} /\ Max({1}) = 1 /\ {1} \ {1} = {}
    BY PairIndices, Zenon
  <2>2. {2} # {} /\ Max({2}) = 2 /\ {2} \ {2} = {}
    BY PairIndices, Zenon
  <2>3. {1, 2} # {} /\ Max({1, 2}) = 2 /\ {1, 2} \ {2} = {1}
    BY PairIndices, Zenon
  <2>4. H(g, {1}) = (IF seq[1] = zero THEN g[{}] ELSE Append(g[{}], seq[1]))
    BY <2>1
  <2>5. H(g, {2}) = (IF seq[2] = zero THEN g[{}] ELSE Append(g[{}], seq[2]))
    BY <2>2
  <2>6. H(g, {1, 2}) = (IF seq[2] = zero THEN g[{1}] ELSE Append(g[{1}], seq[2]))
    BY <2>3
  <2>. QED  BY <2>4, <2>5, <2>6, Zenon
<1>. HIDE DEF D, H
<1>3. first = F(first)
  <2>1. ASSUME NEW s \in SUBSET D
        PROVE  first[s] = H(first, s)
    <3>1. s \in {{}, {1}, {2}, {1, 2}} /\ {} \in SUBSET D /\ (s = {1, 2} => {1} \in SUBSET D)
      BY PairIndices DEF D
    <3>2. first[{}] = <<>> /\ (s = {1, 2} => first[{1}] = one)
      BY <3>1, PairIndices, Zenon
    <3>3. first[s] = IF s = {} THEN <<>> ELSE IF s = {1} THEN one ELSE IF s = {2} THEN two ELSE both
      BY Zenon
    <3>. HIDE DEF first
    <3>4. CASE s = {}
      BY <1>2, <3>2, <3>4, Zenon
    <3>5. CASE s = {1}
      <4>1. first[s] = one /\ H(first, s) = (IF seq[1] = zero THEN first[{}] ELSE Append(first[{}], seq[1]))
        BY <1>2, <3>3, <3>5, PairIndices, Zenon
      <4>. QED  BY <3>2, <4>1
    <3>6. CASE s = {2}
      <4>1. first[s] = two /\ H(first, s) = (IF seq[2] = zero THEN first[{}] ELSE Append(first[{}], seq[2]))
        BY <1>2, <3>3, <3>6, PairIndices, Zenon
      <4>. QED  BY <3>2, <4>1
    <3>7. CASE s = {1, 2}
      <4>1. first[s] = both /\ H(first, s) = (IF seq[2] = zero THEN first[{1}] ELSE Append(first[{1}], seq[2]))
        BY <1>2, <3>3, <3>7, PairIndices, Zenon
      <4>. QED  BY <3>2, <3>7, <4>1
    <3>. QED  BY <3>1, <3>4, <3>5, <3>6, <3>7, Zenon
  <2>. QED  BY <2>1, Zenon
<1>4. iter = F(iter)
  <2>. HIDE DEF F, first
  <2>. QED  BY <1>3, Zenon
<1>. HIDE DEF iter
<1>5. \A s \in SUBSET D : iter[s] = H(iter, s)
  BY <1>4
<1>6. iter[{}] = <<>> /\ (1 \in D => iter[{1}] = one) /\ (D = {1, 2} => iter[{1, 2}] = both)
  <2>1. iter[{}] = <<>>
    <3>1. iter[{}] = H(iter, {})
      BY <1>5
    <3>. QED  BY <1>2, <3>1, Zenon
  <2>2. ASSUME 1 \in D
        PROVE  iter[{1}] = one
    <3>1. iter[{1}] = H(iter, {1})
      BY <1>5, <2>2
    <3>. QED  BY <1>2, <2>1, <3>1, Zenon
  <2>3. ASSUME D = {1, 2}
        PROVE  iter[{1, 2}] = both
    <3>1. iter[{1, 2}] = H(iter, {1, 2})
      BY <1>5, <2>3
    <3>2. iter[{1}] = one
      BY <2>2, <2>3
    <3>3. H(iter, {1, 2}) = (IF seq[2] = zero THEN iter[{1}] ELSE Append(iter[{1}], seq[2]))
      BY <1>2, Zenon
    <3>. QED  BY <3>1, <3>2, <3>3
  <2>. QED  BY <2>1, <2>2, <2>3, Zenon
<1>. HIDE DEF one, both
<1>7. (D = {} => iter[D] = <<>>) /\ (D = {1} => iter[D] = one) /\ (D = {1, 2} => iter[D] = both)
  BY <1>6, Zenon
<1>. QED  BY <1>1, <1>7, Zenon DEF D, one, both

-----------------------------------------------------------------------------
(* Aggregates *)

\* The remainder of a sum is that of the sum of the remainders.
LEMMA ModSum ==
  ASSUME NEW a \in Nat, NEW b \in Nat
  PROVE  ((a % Order) + (b % Order)) % Order = (a + b) % Order
<1>. DEFINE u == a % Order
            v == b % Order
<1>1. u \in Nat /\ v \in Nat
  <2>1. u \in Scalar /\ v \in Scalar
    BY DivMod, Zenon
  <2>. HIDE DEF u, v
  <2>. QED  BY <2>1, OrderIsNat DEF Scalar
<1>2. (u + b) % Order = (u + v) % Order
  <2>. HIDE DEF u
  <2>. QED  BY <1>1, ModAdd, Zenon
<1>3. (b + a) % Order = (b + u) % Order
  BY ModAdd, Zenon
<1>. HIDE DEF u, v
<1>4. b + a = a + b /\ b + u = u + b
  BY <1>1
<1>. QED  BY <1>2, <1>3, <1>4, Zenon DEF u, v

\* A factor may be reduced first.
LEMMA ModTimes ==
  ASSUME NEW e \in Nat, NEW a \in Nat
  PROVE  (e * (a % Order)) % Order = (e * a) % Order
<1>. DEFINE q == a \div Order
            r == a % Order
<1>1. q \in Nat /\ r \in Nat /\ a = Order * q + r /\ Order \in Nat
  BY DivMod, OrderIsNat DEF Scalar
<1>. HIDE DEF q, r
<1>. DEFINE b == e * r
            p == b \div Order
            t == b % Order
            c == e * q
<1>2. b \in Nat /\ c \in Nat
  BY <1>1
<1>3. e * a = Order * c + b
  BY <1>1, Z3
<1>. HIDE DEF b, c
<1>4. p \in Nat /\ t \in Scalar /\ b = Order * p + t
  BY <1>2, DivMod, Zenon
<1>. HIDE DEF p, t
<1>5. t \in Nat
  BY <1>4, OrderIsNat DEF Scalar
<1>6. e * a = Order * (c + p) + t /\ c + p \in Nat
  BY <1>1, <1>2, <1>3, <1>4, <1>5, Z3
<1>7. (e * a) % Order = t
  BY <1>4, <1>6, UniqueMod, ZenonT(60)
<1>. QED  BY <1>7, Zenon DEF t, b, r

\* The nonces that are signed with: all of them negated, if their sum has no quadratic
\* residue for y.
Signed(point, k) == IF HasQuadY(point) THEN k ELSE Order - k

\* A signature of one party, or of all of them, that was made with the nonce n passes.
LEMMA WholeVerifies ==
  ASSUME NEW n \in 1..(Order - 1), NEW key \in 1..(Order - 1), NEW message \in Nat, NEW s,
         s = (Signed(<<0, n>>, n)
               + ((Challenge(XOf(<<0, n>>), <<0, key>>, message) * key) % Order)) % Order
  PROVE  VerifySingle([form |-> "raw", r |-> XOf(<<0, n>>), s |-> s], message, XOf(<<0, n>>),
                      <<0, key>>, <<0, key>>, FALSE)
<1>. DEFINE x == XOf(<<0, n>>)
            e == Challenge(x, <<0, key>>, message)
            k == Signed(<<0, n>>, n)
            sig == [form |-> "raw", r |-> x, s |-> s]
<1>1. x = <<0, k>> /\ HasQuadY(x) /\ XOf(x) = x
  BY SameX, Zenon DEF Signed
<1>2. k \in Scalar /\ k # 0 /\ key \in Scalar /\ 0 \in Scalar
  BY OrderIsNat DEF Signed, Scalar
<1>. HIDE DEF k, x
<1>3. <<0, k>> \in BigInt(2) /\ <<0, key>> \in BigInt(2) /\ <<0, k>> # Infinity
  BY <1>2 DEF BigInt, Infinity
<1>4. e \in Scalar
  BY <1>1, <1>3, ChallengeType, Zenon
<1>5. PointSum(<<0, s>>, Negated(Times(e, <<0, key>>))) = <<0, k>>
  <2>1. s = (k + ((e * key) % Order)) % Order
    BY Zenon DEF k, x
  <2>. HIDE DEF e
  <2>. QED  BY <1>2, <1>4, <2>1, NonceIsLeft, Zenon
<1>6. sig.form = "raw" /\ sig.r = x /\ sig.s = s
  OBVIOUS
<1>. HIDE DEF sig
<1>7. VerifySingle(sig, message, x, <<0, key>>, <<0, key>>, FALSE)
  BY <1>1, <1>3, <1>5, <1>6, Zenon DEF VerifySingle
<1>. QED  BY <1>7 DEF sig, x

\* The shares of two parties add up to a signature with the sum of the nonces under the sum
\* of the keys.
LEMMA SharesAddUp ==
  ASSUME NEW x1 \in 1..(Order - 1), NEW x2 \in 1..(Order - 1),
         NEW k1 \in 1..(Order - 1), NEW k2 \in 1..(Order - 1), NEW e \in Scalar,
         NEW n, n = (k1 + k2) % Order, n # 0,
         NEW key, key = (x1 + x2) % Order,
         NEW point
  PROVE  (((0 + ((Signed(point, k1) + e * x1) % Order)) % Order) + ((Signed(point, k2) + e * x2) % Order)) % Order
           = (Signed(point, n) + ((e * key) % Order)) % Order
<1>. DEFINE j1 == Signed(point, k1)
            j2 == Signed(point, k2)
            a1 == j1 + e * x1
            a2 == j2 + e * x2
            s1 == a1 % Order
<1>1. Order \in Nat /\ Order > 3 /\ e \in Nat
  BY OrderIsNat DEF Scalar
<1>2. j1 \in Nat /\ j2 \in Nat /\ j1 <= Order /\ j2 <= Order
  BY <1>1 DEF Signed
<1>3. (j1 + j2) % Order = Signed(point, n)
  <2>1. k1 + k2 \in 0..(2 * Order - 1)
    BY <1>1
  <2>2. n = IF k1 + k2 < Order THEN k1 + k2 ELSE (k1 + k2) - Order
    BY <2>1, SmallMod
  <2>3. CASE HasQuadY(point)
    BY <2>3, Zenon DEF Signed
  <2>4. CASE ~HasQuadY(point)
    <3>1. j1 = Order - k1 /\ j2 = Order - k2 /\ Signed(point, n) = Order - n
      BY <2>4, Zenon DEF Signed
    <3>. DEFINE j == j1 + j2
    <3>2. j \in 0..(2 * Order - 1) /\ j = (2 * Order) - (k1 + k2)
      BY <1>1, <3>1
    <3>. HIDE DEF j
    <3>3. j % Order = IF j < Order THEN j ELSE j - Order
      BY <3>2, SmallMod
    <3>4. j % Order = Order - n
      BY <1>1, <2>2, <3>2, <3>3
    <3>. QED  BY <3>1, <3>4 DEF j
  <2>. QED  BY <2>3, <2>4
<1>. HIDE DEF j1, j2
<1>4. e * x1 \in Nat /\ e * x2 \in Nat /\ x1 + x2 \in Nat /\ e * (x1 + x2) \in Nat
  BY <1>1
<1>5. a1 \in Nat /\ a2 \in Nat /\ a1 + a2 = (j1 + j2) + e * (x1 + x2)
  BY <1>1, <1>2, <1>4, Z3
<1>6. (e * (x1 + x2)) % Order = (e * key) % Order
  BY <1>1, <1>4, ModTimes, Zenon
<1>. HIDE DEF a1, a2
<1>7. (0 + s1) % Order = s1
  <2>1. s1 \in Scalar
    BY <1>5, DivMod, Zenon
  <2>. HIDE DEF s1
  <2>2. 0 + s1 = s1 /\ s1 \in 0..(2 * Order - 1) /\ s1 < Order
    BY <1>1, <2>1 DEF Scalar
  <2>3. s1 % Order = s1
    BY <2>2, SmallMod
  <2>. QED  BY <2>2, <2>3, Zenon
<1>8. (s1 + (a2 % Order)) % Order = (a1 + a2) % Order
  BY <1>5, ModSum, Zenon
<1>9. ((j1 + j2) + e * (x1 + x2)) % Order
        = (((j1 + j2) % Order) + ((e * (x1 + x2)) % Order)) % Order
  <2>. DEFINE b == e * (x1 + x2)
              j == j1 + j2
  <2>1. b \in Nat /\ j \in Nat
    BY <1>2, <1>4
  <2>2. (j + b) % Order = ((j % Order) + (b % Order)) % Order
    <3>. HIDE DEF b, j
    <3>. QED  BY <2>1, ModSum, Zenon
  <2>. QED  BY <2>2, Zenon
<1>10. (((0 + s1) % Order) + (a2 % Order)) % Order = (Signed(point, n) + ((e * key) % Order)) % Order
  <2>. HIDE DEF s1
  <2>. QED  BY <1>3, <1>5, <1>6, <1>7, <1>8, <1>9, Zenon
<1>. QED  BY <1>10, Zenon DEF s1, a1, a2, j1, j2

\* The sum of two scalars, as the folds compute it.
LEMMA TwoScalars ==
  ASSUME NEW a \in Scalar, NEW b \in Scalar
  PROVE  /\ (((0 + a) % Order) + b) % Order = (a + b) % Order
         /\ (0 + a) % Order = a /\ (a + b) % Order \in Scalar
<1>1. 0 + a = a /\ a \in 0..(2 * Order - 1) /\ a < Order /\ a + b \in Nat
  BY OrderIsNat DEF Scalar
<1>2. a % Order = a
  BY <1>1, SmallMod
<1>3. (a + b) % Order \in Scalar
  BY <1>1, DivMod, Zenon
<1>. QED  BY <1>1, <1>2, <1>3, Zenon

\* Points that are not infinity parse.
LEMMA KeysParse ==
  ASSUME NEW a \in BigInt(2) \ {Infinity}
  PROVE  /\ ParseKeys(<<a>>) # Throw /\ ParseCommitments(<<a>>) # Throw /\ ToPublicKey(a) = a
         /\ \A b \in BigInt(2) \ {Infinity} : ParseKeys(<<a, b>>) # Throw /\ ParseCommitments(<<a, b>>) # Throw
<1>1. \A c \in PublicKey, b \in PublicKey : <<c>> \in Seq(PublicKey) /\ <<c, b>> \in Seq(PublicKey)
  OBVIOUS
<1>2. a \in PublicKey
  BY DEF PublicKey
<1>3. <<a>> # Throw
  BY <1>1, <1>2, ThrowAssumption, Zenon
<1>4. ParseKeys(<<a>>) = <<a>> /\ ParseCommitments(<<a>>) = <<a>>
  BY DEF ParseKeys, ParseCommitments, Range
<1>5. ToPublicKey(a) = a
  BY <1>3, <1>4, Zenon DEF ToPublicKey, EncodeKey
<1>6. ASSUME NEW b \in BigInt(2) \ {Infinity}
      PROVE  ParseKeys(<<a, b>>) # Throw /\ ParseCommitments(<<a, b>>) # Throw
  <2>1. <<a, b>> # Throw
    BY <1>1, <1>2, ThrowAssumption, Zenon DEF PublicKey
  <2>2. ParseKeys(<<a, b>>) = <<a, b>> /\ ParseCommitments(<<a, b>>) = <<a, b>>
    BY DEF ParseKeys, ParseCommitments, Range
  <2>. QED  BY <2>1, <2>2, Zenon
<1>. QED  BY <1>3, <1>4, <1>5, <1>6, Zenon

\* The points that stand for scalars.
LEMMA KeyPoint ==
  ASSUME NEW k \in Scalar \ {0}
  PROVE  <<0, k>> \in BigInt(2) \ {Infinity}
  BY OrderIsNat DEF BigInt, Infinity, Scalar

\* The sum of two public keys is the key of the sum.
LEMMA TwoKeys ==
  ASSUME NEW a \in Scalar, NEW b \in Scalar
  PROVE  SumOf(<<<<0, a>>, <<0, b>>>>) = <<0, (a + b) % Order>>
<1>. DEFINE seq == <<<<0, a>>, <<0, b>>>>
<1>1. DOMAIN seq = {1, 2} /\ seq[1] = <<0, a>> /\ seq[2] = <<0, b>>
  OBVIOUS
<1>. HIDE DEF seq
<1>2. SumOf(seq) = PointSum(PointSum(Infinity, <<0, a>>), <<0, b>>)
  <2>1. SumOf(seq) = PointSum(PointSum(Infinity, seq[1]), seq[2])
    BY <1>1, SumOfFew, Zenon
  <2>. QED  BY <1>1, <2>1, Zenon
<1>3. PointSum(Infinity, <<0, a>>) = <<(0 + 0) % Order, (0 + a) % Order>>
  BY DEF PointSum, Infinity
<1>. DEFINE z == (0 + 0) % Order
            c == (0 + a) % Order
<1>4. z = 0 /\ c = a
  <2>1. 0 \in Scalar
    BY OrderIsNat DEF Scalar
  <2>. QED  BY <2>1, TwoScalars, Zenon
<1>5. PointSum(<<0, a>>, <<0, b>>) = <<z, (a + b) % Order>>
  BY DEF PointSum
<1>. HIDE DEF z, c
<1>6. PointSum(Infinity, <<0, a>>) = <<0, a>>
  BY <1>3, <1>4, Zenon DEF z, c
<1>. QED  BY <1>2, <1>4, <1>5, <1>6, Zenon DEF seq

\* SignMessage and VerifyMessageSignature agree, whichever nonce the library draws.
LEMMA MessageVerifies ==
  ASSUME NEW key \in Scalar \ {0}, NEW drawn \in Scalar \ {0}, NEW message \in Nat
  PROVE  VerifyMessageSignature(SignMessage(key, <<0, key>>, message, drawn), <<0, key>>, message)
<1>. DEFINE x == XOf(<<0, drawn>>)
            e == Challenge(x, <<0, key>>, message)
            s == (Signed(<<0, drawn>>, drawn) + e * key) % Order
            raw == [form |-> "raw", r |-> x, s |-> s]
            K == <<0, key>>
<1>1. key \in 1..(Order - 1) /\ drawn \in 1..(Order - 1)
  BY OrderIsNat DEF Scalar
<1>2. ParseKeys(<<K>>) # Throw /\ <<0, key>> \in BigInt(2) /\ <<0, drawn>> \in BigInt(2)
  BY KeyPoint, KeysParse, Zenon
<1>3. SignMessage(key, K, message, drawn) = ToCompact(raw)
  BY <1>2, Zenon DEF SignMessage, SignSingle, Signed
<1>4. FromCompact(ToCompact(raw)) = raw /\ ToCompact(raw).r = x
  <2>. HIDE DEF x, s
  <2>. QED  BY DEF ToCompact, FromCompact
<1>5. s = (Signed(<<0, drawn>>, drawn) + ((e * key) % Order)) % Order
  <2>1. e \in Scalar
    BY <1>2, XOfType, ChallengeType, Zenon
  <2>. HIDE DEF e
  <2>2. e * key \in Nat /\ Signed(<<0, drawn>>, drawn) \in Nat
    BY <1>1, <2>1, OrderIsNat DEF Scalar, Signed
  <2>. QED  BY <2>2, ModAdd, Zenon
<1>6. VerifySingle(raw, message, x, K, K, FALSE)
  <2>. HIDE DEF s
  <2>. QED  BY <1>1, <1>5, WholeVerifies, Zenon
<1>. HIDE DEF raw, x, K
<1>7. VerifyMessageSignature(ToCompact(raw), K, message)
  BY <1>2, <1>4, <1>6, Zenon DEF VerifyMessageSignature
<1>. QED  BY <1>3, <1>7, Zenon DEF K

\* The aggregate of the shares of two parties is accepted under the sum of their keys.
LEMMA AggregateVerifies ==
  ASSUME NEW x1 \in Scalar \ {0}, NEW x2 \in Scalar \ {0}, NEW k1 \in Scalar \ {0}, NEW k2 \in Scalar \ {0},
         NEW key, key = (x1 + x2) % Order, key # 0, NEW n, n = (k1 + k2) % Order, n # 0,
         NEW message \in Nat
  PROVE  LET sig == AggregateSignatures(<<CalculatePartialSignature(x1, k1, <<0, key>>, <<0, n>>, message),
                                          CalculatePartialSignature(x2, k2, <<0, key>>, <<0, n>>, message)>>,
                                        <<0, n>>)
         IN  sig \in Signature /\ VerifyAggregateSignature(sig, <<0, key>>, message)
<1>. DEFINE K == <<0, key>>
            N == <<0, n>>
            e == Challenge(XOf(N), K, message)
            s1 == (Signed(N, k1) + e * x1) % Order
            s2 == (Signed(N, k2) + e * x2) % Order
            raw1 == [form |-> "raw", r |-> XOf(<<0, k1>>), s |-> s1]
            raw2 == [form |-> "raw", r |-> XOf(<<0, k2>>), s |-> s2]
            sigs == <<ToCompact(raw1), ToCompact(raw2)>>
            raws == [i \in DOMAIN sigs |-> FromCompact(sigs[i])]
            parts == [i \in DOMAIN raws |-> raws[i].s]
            s == (((0 + s1) % Order) + s2) % Order
<1>1. key \in Scalar \ {0} /\ n \in Scalar \ {0}
  BY TwoScalars, Zenon
<1>2. /\ key \in 1..(Order - 1) /\ n \in 1..(Order - 1) /\ x1 \in 1..(Order - 1) /\ x2 \in 1..(Order - 1)
      /\ k1 \in 1..(Order - 1) /\ k2 \in 1..(Order - 1)
  BY <1>1, OrderIsNat DEF Scalar
<1>3. K \in BigInt(2) \ {Infinity} /\ N \in BigInt(2) \ {Infinity}
  BY <1>1, KeyPoint, Zenon
<1>4. ParseKeys(<<K, N>>) # Throw /\ ParseKeys(<<N>>) # Throw /\ ParseKeys(<<K>>) # Throw
  <2>. HIDE DEF K, N
  <2>. QED  BY <1>3, KeysParse, Zenon
<1>5. /\ CalculatePartialSignature(x1, k1, K, N, message) = ToCompact(raw1)
      /\ CalculatePartialSignature(x2, k2, K, N, message) = ToCompact(raw2)
  <2>. HIDE DEF K, N
  <2>. QED  BY <1>4, Zenon DEF CalculatePartialSignature, SignSingle, Signed
<1>6. FromCompact(ToCompact(raw1)) = raw1 /\ FromCompact(ToCompact(raw2)) = raw2
  <2>. HIDE DEF s1, s2
  <2>. QED  BY DEF ToCompact, FromCompact
<1>7. DOMAIN parts = {1, 2} /\ parts[1] = s1 /\ parts[2] = s2
  <2>1. DOMAIN sigs = {1, 2} /\ sigs[1] = ToCompact(raw1) /\ sigs[2] = ToCompact(raw2)
    OBVIOUS
  <2>. HIDE DEF sigs
  <2>2. DOMAIN raws = {1, 2} /\ raws[1] = raw1 /\ raws[2] = raw2
    BY <1>6, <2>1, Zenon
  <2>. HIDE DEF raws
  <2>3. DOMAIN parts = {1, 2} /\ parts[1] = raw1.s /\ parts[2] = raw2.s
    BY <2>2, Zenon
  <2>4. raw1.s = s1 /\ raw2.s = s2
    <3>. HIDE DEF s1, s2
    <3>. QED  OBVIOUS
  <2>. QED  BY <2>3, <2>4, Zenon
<1>8. ScalarSum(parts) = s
  <2>. HIDE DEF parts, s1, s2
  <2>1. ScalarSum(parts) = (((0 + parts[1]) % Order) + parts[2]) % Order
    BY <1>7, ScalarSumFew, Zenon
  <2>. QED  BY <1>7, <2>1, Zenon
<1>9. AggregateSignatures(sigs, N) = [form |-> "raw", r |-> XOf(N), s |-> s]
  <2>. HIDE DEF sigs, N, s
  <2>. QED  BY <1>4, <1>8, Zenon DEF AggregateSignatures, AddSignatures
<1>10. s = (Signed(N, n) + ((e * key) % Order)) % Order
  <2>1. e \in Scalar
    BY <1>3, XOfType, ChallengeType, Zenon
  <2>. HIDE DEF e, N
  <2>2. (((0 + ((Signed(N, k1) + e * x1) % Order)) % Order) + ((Signed(N, k2) + e * x2) % Order)) % Order
          = (Signed(N, n) + ((e * key) % Order)) % Order
    BY <1>2, <2>1, SharesAddUp
  <2>. QED  BY <2>2, Zenon
<1>13. s \in Scalar
  <2>. DEFINE a == Signed(N, n) + ((e * key) % Order)
  <2>1. e \in Scalar /\ key \in Scalar
    BY <1>1, <1>3, XOfType, ChallengeType, Zenon
  <2>. HIDE DEF e
  <2>2. (e * key) % Order \in Scalar
    BY <2>1, TimesType, Zenon
  <2>. DEFINE m == (e * key) % Order
              j == Signed(N, n)
  <2>. HIDE DEF m, N
  <2>3. j \in Nat
    BY <1>2, OrderIsNat DEF Signed
  <2>. HIDE DEF j
  <2>4. j + m \in Nat
    BY <2>2, <2>3, OrderIsNat DEF Scalar, m
  <2>5. (j + m) % Order \in Scalar
    BY <2>4, DivMod, Zenon
  <2>. QED  BY <1>10, <2>5, Zenon DEF j, m
<1>. HIDE DEF s
<1>14. AggregateSignatures(sigs, N) \in Signature
  <2>1. XOf(N) \in BigInt(2)
    BY <1>3, XOfType, Zenon
  <2>. DEFINE r == XOf(N)
  <2>. HIDE DEF r
  <2>2. [form |-> "raw", r |-> r, s |-> s] \in Signature
    BY <1>13, <2>1 DEF Signature, r
  <2>. QED  BY <1>9, <2>2, Zenon DEF r
<1>11. VerifySingle([form |-> "raw", r |-> XOf(N), s |-> s], message, XOf(N), K, K, FALSE)
  BY <1>2, <1>10, WholeVerifies, Zenon
<1>. HIDE DEF K, N, sigs
<1>12. VerifyAggregateSignature(AggregateSignatures(sigs, N), K, message)
  <2>. DEFINE sig == [form |-> "raw", r |-> XOf(N), s |-> s]
  <2>1. sig.r = XOf(N)
    OBVIOUS
  <2>. HIDE DEF sig
  <2>2. VerifyAggregateSignature(sig, K, message)
    BY <1>4, <1>11, <2>1, Zenon DEF VerifyAggregateSignature, sig
  <2>. QED  BY <1>9, <2>2, Zenon DEF sig
<1>. QED  BY <1>5, <1>12, <1>14, Zenon DEF sigs, K, N

\* The excess that Build makes of two keys is the sum of their public keys.
LEMMA ExcessIsKey ==
  ASSUME NEW a \in Scalar \ {0}, NEW b \in Scalar \ {0}, (a + b) % Order # 0
  PROVE  AddCommitments(<<CommitBlinded(0, a), CommitBlinded(0, b)>>, <<>>) = <<0, (a + b) % Order>>
<1>. DEFINE A == <<0, a>>
            B == <<0, b>>
            c == (a + b) % Order
            C == <<0, c>>
<1>1. c \in Scalar \ {0} /\ 0 \in Scalar
  BY TwoScalars, OrderIsNat DEF Scalar
<1>2. A \in BigInt(2) \ {Infinity} /\ B \in BigInt(2) \ {Infinity} /\ C \in BigInt(2) \ {Infinity}
  <2>. HIDE DEF c
  <2>. QED  BY <1>1, KeyPoint, Zenon
<1>3. 0 % Order = 0 /\ (0 + 0) % Order = 0 /\ (Order - 0) % Order = 0 /\ (c + 0) % Order = c
  <2>. HIDE DEF c
  <2>1. /\ 0 \in 0..(2 * Order - 1) /\ Order - 0 \in 0..(2 * Order - 1) /\ c \in 0..(2 * Order - 1)
        /\ 0 + 0 = 0 /\ c + 0 = c /\ 0 < Order /\ c < Order /\ Order \in Nat
    BY <1>1, OrderIsNat DEF Scalar
  <2>2. 0 % Order = 0 /\ c % Order = c /\ (Order - 0) % Order = 0
    BY <2>1, SmallMod
  <2>. QED  BY <2>1, <2>2, Zenon
<1>4. CommitBlinded(0, a) = A /\ CommitBlinded(0, b) = B
  BY <1>2, <1>3, Zenon DEF CommitBlinded, PedersenCommit, EncodeCommitment
<1>5. SumOf(<<A, B>>) = C
  BY TwoKeys, Zenon
<1>. HIDE DEF c
<1>6. PointSum(C, Negated(Infinity)) = C
  <2>1. Negated(Infinity) = <<0, 0>>
    BY <1>3 DEF Negated, Infinity
  <2>2. PointSum(C, <<0, 0>>) = <<(0 + 0) % Order, (c + 0) % Order>>
    BY DEF PointSum
  <2>. QED  BY <1>3, <2>1, <2>2, Zenon
<1>. HIDE DEF A, B, C
<1>7. CopyNonZero(<<A, B>>, Infinity) = <<A, B>> /\ CopyNonZero(<<>>, Infinity) = <<>>
  <2>. DEFINE seq == <<A, B>>
  <2>1. DOMAIN seq = {1, 2} /\ seq[1] = A /\ seq[2] = B /\ <<A, B>> = Append(Append(<<>>, A), B)
    OBVIOUS
  <2>. HIDE DEF seq
  <2>2. CopyNonZero(seq, Infinity)
          = IF seq[2] = Infinity THEN (IF seq[1] = Infinity THEN <<>> ELSE Append(<<>>, seq[1]))
            ELSE Append((IF seq[1] = Infinity THEN <<>> ELSE Append(<<>>, seq[1])), seq[2])
    BY <2>1, CopyFew, Zenon
  <2>3. A # Infinity /\ B # Infinity
    BY <1>2, Zenon
  <2>4. CopyNonZero(seq, Infinity) = <<A, B>>
    BY <2>1, <2>2, <2>3, Zenon
  <2>5. CopyNonZero(<<>>, Infinity) = <<>>
    <3>1. DOMAIN <<>> = {}
      OBVIOUS
    <3>. QED  BY <3>1, CopyFew, Zenon
  <2>. QED  BY <2>4, <2>5, Zenon DEF seq
<1>8. SumOf(<<>>) = Infinity
  <2>1. DOMAIN <<>> = {}
    OBVIOUS
  <2>. QED  BY <2>1, SumOfFew, Zenon
<1>9. <<A, B>> \o <<>> = <<A, B>> /\ ParseCommitments(<<A, B>>) # Throw
  <2>1. ParseCommitments(<<A, B>>) # Throw
    BY <1>2, KeysParse, Zenon
  <2>2. <<A, B>> \o <<>> = <<A, B>>
    OBVIOUS
  <2>. QED  BY <2>1, <2>2, Zenon
<1>10. PedersenCommitSum(<<A, B>>, <<>>) = C
  BY <1>2, <1>5, <1>6, <1>8, <1>9, Zenon DEF PedersenCommitSum, EncodeCommitment
<1>. QED  BY <1>4, <1>7, <1>10, Zenon DEF AddCommitments, C, c

\* A kernel whose signature the single verifier accepts passes the batch verifier.
LEMMA KernelAccepted ==
  ASSUME NEW body, NEW fee, NEW sig, NEW K \in BigInt(2) \ {Infinity},
         body.kernels = <<[fee |-> fee, signature |-> sig, excess |-> K]>>,
         VerifyAggregateSignature(sig, K, fee)
  PROVE  KernelSignatures(body) = "accept"
<1>. DEFINE sigs == [i \in DOMAIN body.kernels |-> body.kernels[i].signature]
            excesses == KernelCommitments(body)
            messages == [i \in DOMAIN body.kernels |-> body.kernels[i].fee]
            keys == [i \in DOMAIN excesses |-> ToPublicKey(excesses[i])]
<1>1. /\ DOMAIN body.kernels = {1} /\ body.kernels[1].fee = fee
      /\ body.kernels[1].signature = sig /\ body.kernels[1].excess = K
  OBVIOUS
<1>2. DOMAIN sigs = {1} /\ sigs[1] = sig /\ messages[1] = fee
  BY <1>1, Zenon
<1>3. DOMAIN excesses = {1} /\ excesses[1] = K
  BY <1>1, Zenon DEF KernelCommitments
<1>. HIDE DEF excesses
<1>4. ToPublicKey(K) = K /\ K # Throw
  BY KeysParse, ThrowAssumption, Zenon DEF PublicKey
<1>5. DOMAIN keys = {1} /\ keys[1] = K
  BY <1>3, <1>4, Zenon
<1>. HIDE DEF keys
<1>6. Throw \notin Range(keys)
  BY <1>4, <1>5 DEF Range
<1>7. VerifyBatch(sigs, keys, messages)
  <2>. HIDE DEF sigs, messages
  <2>. SUFFICES ASSUME NEW i \in DOMAIN sigs
                PROVE  VerifySingle(sigs[i], messages[i], sigs[i].r, keys[i], keys[i], FALSE)
    BY Zenon DEF VerifyBatch
  <2>1. i = 1
    BY <1>2
  <2>. QED  BY <1>2, <1>5, <2>1, Zenon DEF VerifyAggregateSignature
<1>8. VerifyKernelSignatures(sigs, excesses, messages) = "accept"
  <2>. HIDE DEF sigs, messages
  <2>. QED  BY <1>6, <1>7, Zenon DEF VerifyKernelSignatures, keys
<1>. QED  BY <1>8, Zenon DEF KernelSignatures, excesses

\* Appending to a sequence of one.
LEMMA AppendPair ==
  ASSUME NEW x, NEW y
  PROVE  Append(<<x>>, y) = <<x, y>>
<1>1. Append(<<>>, x) = <<x>>
  OBVIOUS
<1>2. <<x, y>> = Append(Append(<<>>, x), y)
  OBVIOUS
<1>. QED  BY <1>1, <1>2, Zenon

\* The sender's key is a scalar.
LEMMA BlindingType ==
  ASSUME NEW a \in Scalar, NEW b \in Scalar, NEW c \in Scalar
  PROVE  AddBlindingFactors(<<a>>, <<b, c>>) \in Scalar
<1>. DEFINE plus == CopyNonZero(<<a>>, 0)
            minus == CopyNonZero(<<b, c>>, 0)
<1>1. plus \in {<<>>, <<a>>}
  <2>. DEFINE seq == <<a>>
  <2>1. DOMAIN seq = {1} /\ seq[1] = a /\ Append(<<>>, a) = <<a>>
    OBVIOUS
  <2>. HIDE DEF seq
  <2>2. CopyNonZero(seq, 0) = IF seq[1] = 0 THEN <<>> ELSE Append(<<>>, seq[1])
    BY <2>1, CopyFew, Zenon
  <2>3. CopyNonZero(seq, 0) \in {<<>>, <<a>>}
    BY <2>1, <2>2, Zenon
  <2>. QED  BY <2>3, Zenon DEF seq
<1>2. minus \in {<<>>, <<b>>, <<c>>, <<b, c>>}
  <2>. DEFINE seq == <<b, c>>
  <2>1. DOMAIN seq = {1, 2} /\ seq[1] = b /\ seq[2] = c
    OBVIOUS
  <2>. HIDE DEF seq
  <2>8. Append(<<>>, b) = <<b>> /\ Append(<<>>, c) = <<c>>
    OBVIOUS
  <2>9. Append(<<b>>, c) = <<b, c>>
    BY AppendPair, Zenon
  <2>2. CopyNonZero(seq, 0)
          = IF seq[2] = 0 THEN (IF seq[1] = 0 THEN <<>> ELSE Append(<<>>, seq[1]))
            ELSE Append((IF seq[1] = 0 THEN <<>> ELSE Append(<<>>, seq[1])), seq[2])
    BY <2>1, CopyFew, Zenon
  <2>3. CopyNonZero(seq, 0) \in {<<>>, <<b>>, <<c>>, <<b, c>>}
    <3>1. CASE seq[1] = 0
      BY <2>1, <2>2, <2>8, <2>9, <3>1, Zenon
    <3>2. CASE seq[1] # 0
      BY <2>1, <2>2, <2>8, <2>9, <3>2, Zenon
    <3>. QED  BY <3>1, <3>2, Zenon
  <2>. QED  BY <2>3, Zenon DEF seq
<1>. HIDE DEF plus, minus
<1>3. ScalarSum(<<>>) = 0 /\ 0 \in Scalar
  <2>1. DOMAIN <<>> = {}
    OBVIOUS
  <2>2. ScalarSum(<<>>) = 0
    BY <2>1, ScalarSumFew, Zenon
  <2>. QED  BY <2>2, OrderIsNat DEF Scalar
<1>4. ASSUME NEW x \in Scalar
      PROVE  ScalarSum(<<x>>) \in Scalar
  <2>. DEFINE seq == <<x>>
  <2>1. DOMAIN seq = {1} /\ seq[1] = x
    OBVIOUS
  <2>. HIDE DEF seq
  <2>2. ScalarSum(seq) = (0 + seq[1]) % Order
    BY <2>1, ScalarSumFew, Zenon
  <2>3. ScalarSum(seq) = x
    BY <2>1, <2>2, TwoScalars, Zenon
  <2>. QED  BY <2>3, Zenon DEF seq
<1>5. ScalarSum(<<b, c>>) \in Scalar
  <2>. DEFINE seq == <<b, c>>
  <2>1. DOMAIN seq = {1, 2} /\ seq[1] = b /\ seq[2] = c
    OBVIOUS
  <2>. HIDE DEF seq
  <2>2. ScalarSum(seq) = (((0 + seq[1]) % Order) + seq[2]) % Order
    BY <2>1, ScalarSumFew, Zenon
  <2>3. (((0 + b) % Order) + c) % Order \in Scalar
    BY TwoScalars, Zenon
  <2>4. ScalarSum(seq) \in Scalar
    BY <2>1, <2>2, <2>3, Zenon
  <2>. QED  BY <2>4, Zenon DEF seq
<1>6. ScalarSum(plus) \in Scalar /\ ScalarSum(minus) \in Scalar
  BY <1>1, <1>2, <1>3, <1>4, <1>5, Zenon
<1>7. PedersenBlindSum(plus, minus) \in Scalar
  <2>. DEFINE d == ScalarSum(plus) + Order - ScalarSum(minus)
  <2>1. d \in Nat
    BY <1>6, OrderIsNat DEF Scalar
  <2>2. d % Order \in Scalar
    <3>. HIDE DEF d
    <3>. QED  BY <2>1, DivMod, Zenon
  <2>. QED  BY <2>2, Zenon DEF PedersenBlindSum
<1>. QED  BY <1>3, <1>7, Zenon DEF AddBlindingFactors, plus, minus

\* The nonces of Crypto::GenerateSecureNonce are scalars.
LEMMA NonceType ==
  ASSUME NEW drawn \in Scalar \ {0}
  PROVE  GenerateSecureNonce(drawn) \in Scalar
  BY OrderIsNat DEF GenerateSecureNonce, SecureNonce, Scalar

-----------------------------------------------------------------------------
(* The slate *)

\* The sums of the secrets.
Sum(a, b) == (a + b) % Order
SumKey == Sum(secret["sender"].key, secret["receiver"].key)
SumNonce == Sum(secret["sender"].nonce, secret["receiver"].nonce)

\* What a party announced are the points of its secrets, which are not zero.
Announced(p) ==
  /\ secret[p].key # 0 /\ secret[p].nonce # 0
  /\ public[p].key = <<0, secret[p].key>> /\ public[p].nonce = <<0, secret[p].nonce>>

\* The sums are added up when all have announced, and are the points of the sums.
AddedUp ==
  /\ \A p \in Party : public[p] # None
  /\ SumKey # 0 /\ SumNonce # 0
  /\ total.keys = <<0, SumKey>> /\ total.nonces = <<0, SumNonce>>

\* The inductive invariant of the wallets: how what they sent to each other was made.
SlateInv ==
  /\ DOMAIN public = Party /\ DOMAIN greeting = Party /\ DOMAIN share = Party
  /\ \A p \in Party : secret[p].key \in Scalar /\ secret[p].nonce \in Scalar
  /\ \A p \in Party : public[p] # None => Announced(p)
  /\ \A p \in Party : greeting[p] # None => VerifyMessageSignature(greeting[p], public[p].key, 0)
  /\ total # None => AddedUp
  /\ \A p \in Party :
       share[p] # None =>
         /\ total # None
         /\ share[p] = CalculatePartialSignature(secret[p].key, secret[p].nonce, total.keys, total.nonces, Fee)
  /\ signature # None => total # None /\ signature \in Signature /\ VerifyAggregateSignature(signature, total.keys, Fee)
  /\ tx # None => KernelSignatures(tx.body) = "accept"

\* A key that CalculatePublicKey returns is the point of a scalar that is not zero.
LEMMA PublicKeyOf ==
  ASSUME NEW k, CalculatePublicKey(k) # Throw
  PROVE  k # 0 /\ CalculatePublicKey(k) = <<0, k>>
  BY Zenon DEF CalculatePublicKey, EncodeKey

\* All secrets are scalars at the start, and nothing has been sent.
LEMMA InitSlate == Init => SlateInv
<1>. SUFFICES ASSUME Init PROVE SlateInv
  OBVIOUS
<1>1. \A p \in Party : secret[p].key \in Scalar /\ secret[p].nonce \in Scalar
  <2>1. blind \in Scalar /\ offset \in Scalar /\ ChangeBlind \in Scalar /\ InputBlind \in Scalar
    <3>1. blind \in Blinds /\ offset \in Offsets
      BY DEF Init
    <3>2. Blinds \subseteq Scalar /\ Offsets \subseteq Scalar /\ ChangeBlind \in Scalar /\ InputBlind \in Scalar
      BY TransactionsAssumption
    <3>. QED  BY <3>1, <3>2, Zenon
  <2>2. PICK n \in Nonces, m \in Nonces :
          secret = [sender |-> [key |-> AddBlindingFactors(<<ChangeBlind>>, <<InputBlind, offset>>),
                                nonce |-> n],
                    receiver |-> [key |-> blind, nonce |-> GenerateSecureNonce(m)]]
    BY DEF Init
  <2>3. n \in Scalar /\ m \in Scalar \ {0}
    BY TransactionsAssumption, Zenon
  <2>4. AddBlindingFactors(<<ChangeBlind>>, <<InputBlind, offset>>) \in Scalar
    BY <2>1, BlindingType, Zenon
  <2>5. GenerateSecureNonce(m) \in Scalar
    BY <2>3, NonceType, Zenon
  <2>6. /\ secret["sender"].key = AddBlindingFactors(<<ChangeBlind>>, <<InputBlind, offset>>)
        /\ secret["sender"].nonce = n
        /\ secret["receiver"].key = blind /\ secret["receiver"].nonce = GenerateSecureNonce(m)
    BY <2>2
  <2>. QED  BY <2>1, <2>3, <2>4, <2>5, <2>6, Zenon DEF Party
<1>2. /\ DOMAIN public = Party /\ DOMAIN greeting = Party /\ DOMAIN share = Party
      /\ \A p \in Party : public[p] = None /\ greeting[p] = None /\ share[p] = None
      /\ total = None /\ signature = None /\ tx = None
  BY Zenon DEF Init, Absent
<1>. QED  BY <1>1, <1>2, Zenon DEF SlateInv

\* A step that leaves the slate alone keeps the invariant.
LEMMA NodeKeepsSlate ==
  ASSUME SlateInv, UNCHANGED <<secret, public, greeting, total, share, signature, tx>>
  PROVE  SlateInv'
  BY DEF SlateInv, Announced, AddedUp, SumKey, SumNonce

\* What a party announces are its own points, signed.
LEMMA AnnounceKeepsSlate ==
  ASSUME SlateInv, NEW p \in Party, Announce(p)
  PROVE  SlateInv'
<1>. DEFINE key == CalculatePublicKey(secret[p].key)
            nonce == CalculatePublicKey(secret[p].nonce)
<1>1. UNCHANGED <<secret, total, share, signature, tx>> /\ public[p] = None
  BY Zenon DEF Announce, slateVars
<1>2. total = None
  BY <1>1, Zenon DEF SlateInv, AddedUp
<1>3. CASE Throw \in {key, nonce}
  <2>1. UNCHANGED <<public, greeting>>
    BY <1>3, Zenon DEF Announce
  <2>. QED  BY <1>1, <2>1, NodeKeepsSlate
<1>4. CASE ~(Throw \in {key, nonce})
  <2>1. PICK drawn \in Nonces :
          /\ public' = [public EXCEPT ![p] = [key |-> key, nonce |-> nonce]]
          /\ greeting' = [greeting EXCEPT ![p] = SignMessage(secret[p].key, key, 0, drawn)]
    BY <1>4, Zenon DEF Announce
  <2>2. /\ secret[p].key # 0 /\ key = <<0, secret[p].key>>
        /\ secret[p].nonce # 0 /\ nonce = <<0, secret[p].nonce>>
    <3>. HIDE DEF key, nonce
    <3>1. key # Throw /\ nonce # Throw
      BY <1>4
    <3>. QED  BY <3>1, PublicKeyOf, Zenon DEF key, nonce
  <2>3. VerifyMessageSignature(SignMessage(secret[p].key, key, 0, drawn), key, 0)
    <3>1. secret[p].key \in Scalar \ {0} /\ drawn \in Scalar \ {0} /\ 0 \in Nat
      BY <2>2, TransactionsAssumption DEF SlateInv
    <3>2. VerifyMessageSignature(SignMessage(secret[p].key, <<0, secret[p].key>>, 0, drawn),
                                 <<0, secret[p].key>>, 0)
      BY <3>1, MessageVerifies, Zenon
    <3>. HIDE DEF key
    <3>. QED  BY <2>2, <3>2, Zenon
  <2>. HIDE DEF key, nonce
  <2>4. DOMAIN public = Party /\ DOMAIN greeting = Party
    BY Zenon DEF SlateInv
  <2>5. /\ DOMAIN public' = Party /\ DOMAIN greeting' = Party
        /\ public'[p].key = key /\ public'[p].nonce = nonce
        /\ greeting'[p] = SignMessage(secret[p].key, key, 0, drawn)
        /\ \A q \in Party \ {p} : public'[q] = public[q] /\ greeting'[q] = greeting[q]
    BY <2>1, <2>4
  <2>6. ASSUME NEW q \in Party
        PROVE  /\ public'[q] # None => Announced(q)'
               /\ greeting'[q] # None => VerifyMessageSignature(greeting'[q], public'[q].key, 0)
    <3>1. CASE q = p
      BY <1>1, <2>2, <2>3, <2>5, <3>1, Zenon DEF Announced
    <3>2. CASE q # p
      BY <1>1, <2>5, <3>2, Zenon DEF SlateInv, Announced
    <3>. QED  BY <3>1, <3>2
  <2>. QED  BY <1>1, <1>2, <2>5, <2>6, Zenon DEF SlateInv
<1>. QED  BY <1>3, <1>4

\* The sums that are added up are the points of the sums.
LEMMA AddUpKeepsSlate ==
  ASSUME SlateInv, AddUp
  PROVE  SlateInv'
<1>. DEFINE a == secret["sender"].key
            b == secret["receiver"].key
            c == secret["sender"].nonce
            d == secret["receiver"].nonce
            keys == AddPublicKeys(<<public["sender"].key, public["receiver"].key>>)
            nonces == AddPublicKeys(<<public["sender"].nonce, public["receiver"].nonce>>)
<1>1. /\ UNCHANGED <<secret, public, share, signature, tx>> /\ total = None
      /\ \A p \in Party : public[p] # None
  BY Zenon DEF AddUp, slateVars
<1>2. CASE Throw \in {keys, nonces}
  <2>1. UNCHANGED <<greeting, total>>
    BY <1>2, Zenon DEF AddUp
  <2>. QED  BY <1>1, <2>1, NodeKeepsSlate
<1>3. CASE ~(Throw \in {keys, nonces})
  <2>1. total' = [keys |-> keys, nonces |-> nonces] /\ greeting' = Absent
    BY <1>3, Zenon DEF AddUp
  <2>2. /\ public["sender"].key = <<0, a>> /\ public["receiver"].key = <<0, b>>
        /\ public["sender"].nonce = <<0, c>> /\ public["receiver"].nonce = <<0, d>>
        /\ a \in Scalar /\ b \in Scalar /\ c \in Scalar /\ d \in Scalar
    BY <1>1, Zenon DEF SlateInv, Announced, Party
  <2>. HIDE DEF a, b, c, d
  <2>3. ASSUME NEW x \in Scalar, NEW y \in Scalar, AddPublicKeys(<<<<0, x>>, <<0, y>>>>) # Throw
        PROVE  /\ AddPublicKeys(<<<<0, x>>, <<0, y>>>>) = <<0, Sum(x, y)>> /\ Sum(x, y) # 0
    <3>1. SumOf(<<<<0, x>>, <<0, y>>>>) = <<0, Sum(x, y)>>
      BY TwoKeys, Zenon DEF Sum
    <3>. DEFINE z == Sum(x, y)
    <3>. HIDE DEF z
    <3>2. <<0, z>> # Infinity /\ AddPublicKeys(<<<<0, x>>, <<0, y>>>>) = <<0, z>>
      BY <2>3, <3>1, Zenon DEF AddPublicKeys, EncodeKey, z
    <3>3. z # 0
      BY <3>2, Zenon DEF Infinity
    <3>. QED  BY <3>2, <3>3, Zenon DEF z
  <2>4. /\ keys # Throw /\ keys = AddPublicKeys(<<<<0, a>>, <<0, b>>>>)
        /\ nonces # Throw /\ nonces = AddPublicKeys(<<<<0, c>>, <<0, d>>>>)
    <3>1. keys # Throw /\ nonces # Throw
      <4>. HIDE DEF keys, nonces
      <4>. QED  BY <1>3
    <3>. QED  BY <2>2, <3>1, Zenon
  <2>. HIDE DEF keys, nonces
  <2>5. keys = <<0, Sum(a, b)>> /\ Sum(a, b) # 0 /\ nonces = <<0, Sum(c, d)>> /\ Sum(c, d) # 0
    BY <2>2, <2>3, <2>4, Zenon
  <2>6. total'.keys = keys /\ total'.nonces = nonces
    BY <2>1
  <2>7. AddedUp'
    BY <1>1, <2>5, <2>6, Zenon DEF AddedUp, SumKey, SumNonce, a, b, c, d
  <2>8. DOMAIN greeting' = Party /\ \A p \in Party : greeting'[p] = None
    BY <2>1, Zenon DEF Absent
  <2>9. \A p \in Party : share[p] = None
    BY <1>1, Zenon DEF SlateInv
  <2>10. signature = None
    BY <1>1, Zenon DEF SlateInv
  <2>. QED  BY <1>1, <2>7, <2>8, <2>9, <2>10, Zenon DEF SlateInv, Announced
<1>. QED  BY <1>2, <1>3

\* A share is made of the party's own secrets and the sums.
LEMMA SignKeepsSlate ==
  ASSUME SlateInv, NEW p \in Party, Sign(p)
  PROVE  SlateInv'
<1>. DEFINE part(q) == CalculatePartialSignature(secret[q].key, secret[q].nonce, total.keys, total.nonces, Fee)
<1>1. /\ UNCHANGED <<secret, public, greeting, total, signature, tx>> /\ total # None
      /\ share' = [share EXCEPT ![p] = part(p)]
  BY Zenon DEF Sign, slateVars
<1>2. DOMAIN share = Party
  BY Zenon DEF SlateInv
<1>3. DOMAIN share' = Party /\ share'[p] = part(p) /\ \A q \in Party \ {p} : share'[q] = share[q]
  <2>. HIDE DEF part
  <2>. QED  BY <1>1, <1>2
<1>4. ASSUME NEW q \in Party, share'[q] # None
      PROVE  share'[q] = part(q)
  <2>. HIDE DEF part
  <2>1. CASE q = p
    BY <1>3, <2>1, Zenon
  <2>2. CASE q # p
    BY <1>3, <1>4, <2>2, Zenon DEF SlateInv, part
  <2>. QED  BY <2>1, <2>2
<1>5. AddedUp' /\ \A q \in Party : public[q] # None => Announced(q)'
  BY <1>1, Zenon DEF SlateInv, AddedUp, SumKey, SumNonce, Announced
<1>. QED  BY <1>1, <1>3, <1>4, <1>5, Zenon DEF SlateInv

\* The aggregate of both shares is valid.
LEMMA AggregateKeepsSlate ==
  ASSUME SlateInv, Aggregate
  PROVE  SlateInv'
<1>. DEFINE a == secret["sender"].key
            b == secret["receiver"].key
            c == secret["sender"].nonce
            d == secret["receiver"].nonce
<1>1. /\ UNCHANGED <<secret, public, greeting, total, share, tx>>
      /\ \A p \in Party : share[p] # None
      /\ signature' = AggregateSignatures(<<share["sender"], share["receiver"]>>, total.nonces)
  BY Zenon DEF Aggregate, slateVars
<1>2. /\ total # None /\ AddedUp
      /\ share["sender"] = CalculatePartialSignature(a, c, total.keys, total.nonces, Fee)
      /\ share["receiver"] = CalculatePartialSignature(b, d, total.keys, total.nonces, Fee)
  BY <1>1, Zenon DEF SlateInv, Party
<1>3. Announced("sender") /\ Announced("receiver")
  BY <1>2, Zenon DEF SlateInv, AddedUp, Party
<1>4. a \in Scalar \ {0} /\ b \in Scalar \ {0} /\ c \in Scalar \ {0} /\ d \in Scalar \ {0}
  BY <1>3, Zenon DEF SlateInv, Announced, Party
<1>. DEFINE x == Sum(a, b)
            n == Sum(c, d)
<1>5. x # 0 /\ n # 0 /\ total.keys = <<0, x>> /\ total.nonces = <<0, n>>
  BY <1>2, Zenon DEF AddedUp, SumKey, SumNonce
<1>6. Fee \in Nat
  BY TransactionsAssumption, OrderIsNat DEF Scalar
<1>. HIDE DEF a, b, c, d
<1>7. x = (a + b) % Order /\ n = (c + d) % Order
  BY Zenon DEF Sum
<1>. HIDE DEF x, n
<1>. DEFINE sig == AggregateSignatures(<<CalculatePartialSignature(a, c, <<0, x>>, <<0, n>>, Fee),
                                         CalculatePartialSignature(b, d, <<0, x>>, <<0, n>>, Fee)>>, <<0, n>>)
<1>8. sig \in Signature /\ VerifyAggregateSignature(sig, <<0, x>>, Fee)
  BY <1>4, <1>5, <1>6, <1>7, AggregateVerifies
<1>9. signature' \in Signature /\ VerifyAggregateSignature(signature', total.keys, Fee)
  BY <1>1, <1>2, <1>5, <1>8, Zenon
<1>10. AddedUp' /\ \A q \in Party : public[q] # None => Announced(q)'
  BY <1>1, <1>2, Zenon DEF SlateInv, AddedUp, SumKey, SumNonce, Announced
<1>. QED  BY <1>1, <1>2, <1>9, <1>10, Zenon DEF SlateInv

\* The kernel that is built has the sum of the keys for its excess.
LEMMA BuildKeepsSlate ==
  ASSUME SlateInv, Build
  PROVE  SlateInv'
<1>. DEFINE a == secret["sender"].key
            b == secret["receiver"].key
            x == Sum(a, b)
            excess == AddCommitments(<<CommitBlinded(0, a), CommitBlinded(0, b)>>, <<>>)
<1>1. UNCHANGED <<secret, public, greeting, total, share, signature>> /\ signature # None
  BY Zenon DEF Build, slateVars
<1>2. CASE tx' = tx
  BY <1>1, <1>2, NodeKeepsSlate
<1>3. CASE tx' # tx
  <2>1. PICK change \in ProofsOf("sender"), proof \in ProofsOf("receiver") :
          tx' = [offset |-> offset,
                 body |-> [inputs |-> <<[features |-> 1, commitment |-> CommitBlinded(Reward, InputBlind)]>>,
                           outputs |-> <<OutputWith(0, Change, ChangeBlind, change),
                                         OutputWith(0, Amount, blind, proof)>>,
                           kernels |-> <<[fee |-> Fee, signature |-> signature, excess |-> excess]>>]]
    BY <1>3, Zenon DEF Build
  <2>2. tx'.body.kernels = <<[fee |-> Fee, signature |-> signature, excess |-> excess]>>
    <3>. HIDE DEF excess
    <3>. QED  BY <2>1
  <2>3. AddedUp /\ VerifyAggregateSignature(signature, total.keys, Fee)
    BY <1>1, Zenon DEF SlateInv
  <2>4. Announced("sender") /\ Announced("receiver")
    BY <2>3, Zenon DEF SlateInv, AddedUp, Party
  <2>5. a \in Scalar \ {0} /\ b \in Scalar \ {0}
    BY <2>4, Zenon DEF SlateInv, Announced, Party
  <2>6. x # 0 /\ total.keys = <<0, x>>
    BY <2>3, Zenon DEF AddedUp, SumKey
  <2>. HIDE DEF a, b
  <2>7. x \in Scalar /\ x = (a + b) % Order
    BY <2>5, TwoScalars, Zenon DEF Sum
  <2>. HIDE DEF x
  <2>8. excess = <<0, x>>
    BY <2>5, <2>6, <2>7, ExcessIsKey, Zenon
  <2>9. <<0, x>> \in BigInt(2) \ {Infinity}
    BY <2>6, <2>7, KeyPoint, Zenon
  <2>. HIDE DEF excess
  <2>10. KernelSignatures(tx'.body) = "accept"
    <3>. DEFINE body == tx'.body
                K == <<0, x>>
    <3>1. body.kernels = <<[fee |-> Fee, signature |-> signature, excess |-> K]>>
      BY <2>2, <2>8, Zenon
    <3>2. VerifyAggregateSignature(signature, K, Fee) /\ K \in BigInt(2) \ {Infinity}
      BY <2>3, <2>6, <2>9, Zenon
    <3>. HIDE DEF body, K
    <3>3. KernelSignatures(body) = "accept"
      BY <3>1, <3>2, KernelAccepted, Zenon
    <3>. QED  BY <3>3 DEF body
  <2>11. (total # None => AddedUp') /\ \A q \in Party : public[q] # None => Announced(q)'
    BY <1>1, Zenon DEF SlateInv, AddedUp, SumKey, SumNonce, Announced
  <2>. QED  BY <1>1, <2>10, <2>11, Zenon DEF SlateInv
<1>. QED  BY <1>2, <1>3

\* Every step keeps the invariant of the wallets.
LEMMA NextKeepsSlate ==
  ASSUME SlateInv, [Next]_vars
  PROVE  SlateInv'
<1>1. ASSUME NEW p \in Party, Announce(p) \/ Sign(p)
      PROVE  SlateInv'
  BY <1>1, AnnounceKeepsSlate, SignKeepsSlate, Zenon
<1>2. CASE AddUp
  BY <1>2, AddUpKeepsSlate
<1>3. CASE Aggregate
  BY <1>3, AggregateKeepsSlate
<1>4. CASE Build
  BY <1>4, BuildKeepsSlate
<1>5. CASE AcceptCoinbase \/ Receive \/ Refuse \/ SumUp \/ UNCHANGED vars
  <2>1. UNCHANGED wallet
    BY <1>5, Zenon DEF AcceptCoinbase, Receive, Refuse, SumUp, vars
  <2>. QED  BY <2>1, NodeKeepsSlate DEF wallet
<1>6. CASE ValidateBody
  <2>1. UNCHANGED <<secret, public, greeting, total, share, signature, tx>>
    BY <1>6, Zenon DEF ValidateBody, slateVars
  <2>. QED  BY <2>1, NodeKeepsSlate
<1>. QED  BY <1>1, <1>2, <1>3, <1>4, <1>5, <1>6, Zenon DEF Next

\* The sums are points that parse.
LEMMA TotalsParse ==
  ASSUME SlateInv, total # None
  PROVE  /\ total.keys \in BigInt(2) \ {Infinity} /\ total.nonces \in BigInt(2) \ {Infinity}
         /\ \A p \in Party : Announced(p)
<1>1. AddedUp /\ \A p \in Party : Announced(p)
  BY Zenon DEF SlateInv, AddedUp
<1>2. SumKey \in Scalar \ {0} /\ SumNonce \in Scalar \ {0}
  <2>1. ASSUME NEW a \in Scalar, NEW b \in Scalar
        PROVE  Sum(a, b) \in Scalar
    BY TwoScalars, Zenon DEF Sum
  <2>2. SumKey \in Scalar /\ SumNonce \in Scalar
    BY <2>1, Zenon DEF SlateInv, SumKey, SumNonce, Party
  <2>. QED  BY <1>1, <2>2, Zenon DEF AddedUp
<1>. QED  BY <1>1, <1>2, KeyPoint, Zenon DEF AddedUp

\* Whatever keys, nonces and offset the wallets choose, over a group of any order, each
\* share of the kernel's signature passes Crypto::VerifyPartialSignature.
THEOREM SharesAlwaysVerify == Spec => []SharesVerify
<1>1. ASSUME SlateInv
      PROVE  SharesVerify
  <2>. SUFFICES ASSUME NEW p \in Party, share[p] # None
                PROVE  VerifyPartialSignature(share[p], public[p].key, total.keys, total.nonces, Fee)
    BY Zenon DEF SharesVerify
  <2>. DEFINE key == secret[p].key
              nonce == secret[p].nonce
  <2>1. total # None /\ share[p] = CalculatePartialSignature(key, nonce, total.keys, total.nonces, Fee)
    BY <1>1, Zenon DEF SlateInv
  <2>2. /\ total.keys \in PublicKey \ {Infinity} /\ total.nonces \in PublicKey \ {Infinity}
        /\ Announced(p)
    BY <1>1, <2>1, TotalsParse, Zenon DEF PublicKey
  <2>3. key \in Scalar /\ nonce \in Scalar /\ key # 0 /\ nonce # 0 /\ public[p].key = <<0, key>>
    BY <1>1, <2>2, Zenon DEF SlateInv, Announced
  <2>. HIDE DEF key, nonce
  <2>4. key \in 1..(Order - 1) /\ nonce \in 1..(Order - 1) /\ Fee \in Nat
    BY <2>3, OrderIsNat, TransactionsAssumption DEF Scalar
  <2>5. CalculatePublicKey(key) = <<0, key>>
    <3>1. <<0, key>> # Infinity
      BY <2>3, KeyPoint, Zenon
    <3>. QED  BY <2>3, <3>1, Zenon DEF CalculatePublicKey, EncodeKey
  <2>6. VerifyPartialSignature(CalculatePartialSignature(key, nonce, total.keys, total.nonces, Fee),
                               CalculatePublicKey(key), total.keys, total.nonces, Fee)
    BY <2>2, <2>4, ShareVerifies, Zenon
  <2>. QED  BY <2>1, <2>3, <2>5, <2>6, Zenon
<1>. QED  BY <1>1, InitSlate, NextKeepsSlate, PTL DEF Spec

\* The signature under an announcement passes Crypto::VerifyMessageSignature, the sum of the
\* keys is the key of the sum, the aggregate of the shares passes
\* Crypto::VerifyAggregateSignature, and the kernel of the transaction that is built passes
\* the batch verifier, over a group of any order.
THEOREM SignaturesAlwaysVerify == Spec => []SignaturesVerify
<1>1. ASSUME SlateInv
      PROVE  SignaturesVerify
  <2>1. ASSUME total # None
        PROVE  total.keys = CalculatePublicKey(AddPrivateKeys(secret["sender"].key, secret["receiver"].key))
    <3>1. AddedUp /\ total.keys \in BigInt(2) \ {Infinity}
      BY <1>1, <2>1, TotalsParse, Zenon DEF SlateInv
    <3>2. total.keys = <<0, SumKey>> /\ SumKey # 0 /\ total.keys # Infinity
      BY <3>1, Zenon DEF AddedUp
    <3>3. AddPrivateKeys(secret["sender"].key, secret["receiver"].key) = SumKey
      BY <3>2, Zenon DEF AddPrivateKeys, SumKey, Sum
    <3>4. CalculatePublicKey(SumKey) = <<0, SumKey>>
      <4>. DEFINE x == SumKey
      <4>. HIDE DEF x
      <4>1. x # 0 /\ <<0, x>> # Infinity
        BY <3>2, Zenon DEF x
      <4>. QED  BY <4>1, Zenon DEF CalculatePublicKey, EncodeKey, x
    <3>. QED  BY <3>2, <3>3, <3>4, Zenon
  <2>. QED  BY <1>1, <2>1, Zenon DEF SlateInv, SignaturesVerify
<1>. QED  BY <1>1, InitSlate, NextKeepsSlate, PTL DEF Spec

-----------------------------------------------------------------------------
(* Induction and recursion *)

\* Every set of natural numbers that is not empty has a least element.
LEMMA LeastNumber ==
  ASSUME NEW S, S \subseteq Nat, S # {}
  PROVE  \E x \in S : \A y \in S : x <= y
<1>. DEFINE R == {ss \in Nat \X Nat : ss[1] < ss[2]}
<1>1. OpToRel(<, Nat) = R
  BY Zenon DEF OpToRel
<1>2. PICK x \in S : \A y \in S : ~ (<<y, x>> \in R)
  <2>1. IsWellFoundedOn(R, Nat)
    BY <1>1, NatLessThanWellFounded, Zenon
  <2>. HIDE DEF R
  <2>. QED  BY <2>1, WFMin, Zenon
<1>3. \A y \in S : y < x => <<y, x>> \in R
  BY SMT
<1>4. \A y \in S : ~ (y < x)
  BY <1>2, <1>3, Zenon
<1>. QED  BY <1>4

\* Induction, over the set of numbers that have the property in question.
LEMMA InductionOver ==
  ASSUME NEW S, 0 \in S, \A i \in Nat : i \in S => i + 1 \in S
  PROVE  \A i \in Nat : i \in S
<1>. DEFINE Bad == {i \in Nat : i \notin S}
<1>. SUFFICES ASSUME Bad # {} PROVE FALSE
  BY Zenon
<1>1. Bad \subseteq Nat
  OBVIOUS
<1>2. PICK x \in Bad : \A y \in Bad : x <= y
  BY <1>1, LeastNumber, Zenon
<1>3. x \in Nat /\ x > 0
  BY <1>2
<1>4. x - 1 \in Nat /\ x - 1 \notin Bad
  BY <1>1, <1>2, <1>3
<1>5. x - 1 \in S
  BY <1>4
<1>. QED  BY <1>2, <1>3, <1>4, <1>5

\* f follows the numbers given by start and step up to n.
Follows(f, n, start, step) ==
  /\ f[0] = start
  /\ \A i \in 1..n : f[i] = step[i][f[i - 1]]

\* f follows them for ever.
Recursive(f, S, start, step) ==
  /\ f \in [Nat -> S]
  /\ f[0] = start
  /\ \A i \in Nat : i # 0 => f[i] = step[i][f[i - 1]]

\* A number can be given for every i, starting from start and stepping from i - 1 to i.
LEMMA RecursionExists ==
  ASSUME NEW S, NEW start, NEW step, start \in S, step \in [Nat -> [S -> S]]
  PROVE  \E f : Recursive(f, S, start, step)
<1>. DEFINE Good == {n \in Nat : \E f \in [0..n -> S] : Follows(f, n, start, step)}
<1>1. 0 \in Good
  <2>1. [i \in 0..0 |-> start] \in [0..0 -> S] /\ Follows([i \in 0..0 |-> start], 0, start, step)
    BY DEF Follows
  <2>. QED  BY <2>1
<1>2. ASSUME NEW n \in Nat, n \in Good
      PROVE  n + 1 \in Good
  <2>1. PICK f \in [0..n -> S] : Follows(f, n, start, step)
    BY <1>2
  <2>. DEFINE g == [i \in 0..(n + 1) |-> IF i <= n THEN f[i] ELSE step[n + 1][f[n]]]
  <2>2. step[n + 1][f[n]] \in S
    OBVIOUS
  <2>3. g \in [0..(n + 1) -> S]
    BY <2>2
  <2>4. g[0] = start /\ \A i \in 1..(n + 1) : g[i] = step[i][g[i - 1]]
    <3>1. f[0] = start /\ \A i \in 1..n : f[i] = step[i][f[i - 1]]
      BY <2>1, Zenon DEF Follows
    <3>2. \A i \in 0..n : g[i] = f[i]
      OBVIOUS
    <3>3. g[n + 1] = step[n + 1][f[n]]
      OBVIOUS
    <3>. HIDE DEF g
    <3>. QED  BY <3>1, <3>2, <3>3
  <2>. HIDE DEF g
  <2>. QED  BY <2>3, <2>4 DEF Follows
<1>3. \A n \in Nat : n \in Good
  <2>. HIDE DEF Good
  <2>. QED  BY <1>1, <1>2, InductionOver, Zenon
<1>. DEFINE pick == [n \in Nat |-> CHOOSE f \in [0..n -> S] : Follows(f, n, start, step)]
<1>4. ASSUME NEW n \in Nat
      PROVE  pick[n] \in [0..n -> S] /\ Follows(pick[n], n, start, step)
  <2>1. \E f \in [0..n -> S] : Follows(f, n, start, step)
    BY <1>3
  <2>2. pick[n] = CHOOSE f \in [0..n -> S] : Follows(f, n, start, step)
    BY Zenon
  <2>. HIDE DEF pick
  <2>. QED  BY <2>1, <2>2, Zenon
<1>. HIDE DEF pick
<1>5. ASSUME NEW n \in Nat
      PROVE  pick[n + 1][n] = pick[n][n]
  <2>. DEFINE Same == {i \in Nat : i <= n => pick[n + 1][i] = pick[n][i]}
  <2>1. Follows(pick[n], n, start, step) /\ Follows(pick[n + 1], n + 1, start, step)
    BY <1>4
  <2>2. 0 \in Same
    BY <2>1 DEF Follows
  <2>3. ASSUME NEW i \in Nat, i \in Same PROVE i + 1 \in Same
    <3>. SUFFICES ASSUME i + 1 <= n PROVE pick[n + 1][i + 1] = pick[n][i + 1]
      OBVIOUS
    <3>1. i + 1 \in 1..n /\ i + 1 \in 1..(n + 1) /\ (i + 1) - 1 = i
      OBVIOUS
    <3>2. pick[n + 1][i] = pick[n][i]
      BY <2>3
    <3>3. pick[n + 1][i + 1] = step[i + 1][pick[n + 1][i]] /\ pick[n][i + 1] = step[i + 1][pick[n][i]]
      <4>. HIDE DEF Same
      <4>. QED  BY <2>1, <3>1 DEF Follows
    <3>. QED  BY <3>2, <3>3
  <2>4. n \in Same
    <3>. HIDE DEF Same
    <3>. QED  BY <2>2, <2>3, InductionOver, Zenon
  <2>. QED  BY <2>4
<1>. DEFINE f == [n \in Nat |-> pick[n][n]]
<1>6. f \in [Nat -> S]
  BY <1>4
<1>7. f[0] = start
  BY <1>4 DEF Follows
<1>8. ASSUME NEW i \in Nat, i # 0
      PROVE  f[i] = step[i][f[i - 1]]
  <2>1. i - 1 \in Nat /\ (i - 1) + 1 = i
    BY <1>8
  <2>2. pick[i][i - 1] = pick[i - 1][i - 1]
    BY <1>5, <2>1
  <2>3. pick[i][i] = step[i][pick[i][i - 1]]
    BY <1>4, <1>8 DEF Follows
  <2>. QED  BY <2>1, <2>2, <2>3
<1>. HIDE DEF f
<1>. QED  BY <1>6, <1>7, <1>8 DEF Recursive

\* The place values.
LEMMA PlaceValues ==
  /\ \A k \in Nat : PlaceValue[k] \in Nat /\ PlaceValue[k] > 0
  /\ PlaceValue[0] = 1
  /\ \A k \in Nat : PlaceValue[k + 1] = Order * PlaceValue[k]
<1>. DEFINE Body(f) == [k \in Nat |-> IF k = 0 THEN 1 ELSE Order * f[k - 1]]
            step == [k \in Nat |-> [x \in Nat |-> Order * x]]
<1>1. step \in [Nat -> [Nat -> Nat]]
  BY OrderIsNat
<1>2. PICK f \in [Nat -> Nat] : f[0] = 1 /\ \A i \in Nat : i # 0 => f[i] = step[i][f[i - 1]]
  <2>. HIDE DEF step
  <2>1. 1 \in Nat
    OBVIOUS
  <2>2. \E f : Recursive(f, Nat, 1, step)
    BY <1>1, <2>1, RecursionExists, Zenon
  <2>. QED  BY <2>2, Zenon DEF Recursive
<1>3. f = Body(f)
  <2>1. ASSUME NEW k \in Nat, k # 0 PROVE f[k] = Order * f[k - 1]
    <3>1. f[k] = step[k][f[k - 1]] /\ f[k - 1] \in Nat
      BY <1>2, <2>1
    <3>2. step[k][f[k - 1]] = Order * f[k - 1]
      BY <3>1
    <3>. QED  BY <3>1, <3>2, Zenon
  <2>. QED  BY <1>2, <2>1
<1>4. PlaceValue = CHOOSE g : g = Body(g)
  BY Zenon DEF PlaceValue
<1>5. PlaceValue = Body(PlaceValue)
  <2>. HIDE DEF Body
  <2>. QED  BY <1>3, <1>4, Zenon
<1>6. \A k \in Nat : PlaceValue[k] = IF k = 0 THEN 1 ELSE Order * PlaceValue[k - 1]
  BY <1>5, Zenon
<1>7. PlaceValue[0] = 1 /\ \A k \in Nat : PlaceValue[k + 1] = Order * PlaceValue[k]
  BY <1>6
<1>. DEFINE S == {k \in Nat : PlaceValue[k] \in Nat /\ PlaceValue[k] > 0}
<1>8. 0 \in S
  BY <1>7
<1>9. ASSUME NEW k \in Nat, k \in S PROVE k + 1 \in S
  BY <1>7, <1>9, OrderIsNat, Z3
<1>10. \A k \in Nat : k \in S
  <2>. HIDE DEF S
  <2>. QED  BY <1>8, <1>9, InductionOver, Zenon
<1>. QED  BY <1>7, <1>10

-----------------------------------------------------------------------------
(* Numbers and their bytes *)

\* The quotient is the number of times a divisor fits.
LEMMA UniqueDiv ==
  ASSUME NEW m \in Nat, m > 0, NEW q \in Nat, NEW r \in Nat, r < m
  PROVE  (m * q + r) \div m = q
<1>. DEFINE a == m * q + r
            p == a \div m
            t == a % m
<1>1. a \in Nat
  BY Z3
<1>2. p \in Nat /\ t \in Nat /\ t < m /\ a = m * p + t
  BY <1>1
<1>3. m * q + r = m * p + t
  BY <1>2
<1>. HIDE DEF a, p, t
<1>4. p <= q
  <2>. SUFFICES ASSUME p >= q + 1 PROVE FALSE
    BY <1>2
  <2>1. m * p >= m * (q + 1)
    BY <1>2, Z3
  <2>. QED  BY <1>2, <1>3, <2>1
<1>5. q <= p
  <2>. SUFFICES ASSUME q >= p + 1 PROVE FALSE
    BY <1>2
  <2>1. m * q >= m * (p + 1)
    BY <1>2, Z3
  <2>. QED  BY <1>2, <1>3, <2>1
<1>6. p = q
  BY <1>2, <1>4, <1>5
<1>. QED  BY <1>6 DEF p, a

\* Dividing by a product is dividing twice.
LEMMA DivTwice ==
  ASSUME NEW n \in Nat, NEW p \in Nat, p > 0
  PROVE  n \div (Order * p) = (n \div p) \div Order
<1>. DEFINE q == n \div p
            r == n % p
            s == q \div Order
            t == q % Order
<1>1. q \in Nat /\ r \in Nat /\ r < p /\ n = p * q + r
  OBVIOUS
<1>2. s \in Nat /\ t \in Nat /\ t < Order /\ q = Order * s + t
  <2>1. q \in Nat
    BY <1>1
  <2>. HIDE DEF q
  <2>. QED  BY <2>1, DivMod, OrderIsNat DEF Scalar
<1>. HIDE DEF q, r, s, t
<1>3. n = (Order * p) * s + (p * t + r)
  BY <1>1, <1>2, OrderIsNat, Z3
<1>4. p * t + r \in Nat /\ p * t + r < Order * p /\ Order * p \in Nat /\ Order * p > 0
  <2>1. p * (t + 1) <= p * Order
    BY <1>1, <1>2, OrderIsNat, Z3
  <2>2. p * (t + 1) = p * t + p /\ p * t \in Nat /\ p * Order = Order * p /\ Order * p \in Nat
    BY <1>1, <1>2, OrderIsNat, Z3
  <2>. QED  BY <1>1, <2>1, <2>2
<1>. DEFINE m == Order * p
            u == p * t + r
<1>5. (m * s + u) \div m = s
  <2>1. m \in Nat /\ m > 0 /\ u \in Nat /\ u < m
    BY <1>4
  <2>. HIDE DEF m, u
  <2>. QED  BY <1>2, <2>1, UniqueDiv
<1>. QED  BY <1>3, <1>5, Zenon DEF s, q, m, u

\* The loop of a big-endian read.
LEMMA NumberUnfolds ==
  ASSUME NEW b \in Seq(Scalar)
  PROVE  \E g \in [0..Len(b) -> Nat] :
           /\ g[0] = 0 /\ \A i \in 1..Len(b) : g[i] = g[i - 1] * Order + b[i]
           /\ NumberOf(b) = g[Len(b)]
<1>. DEFINE Body(f) == [i \in 0..Len(b) |-> IF i = 0 THEN 0 ELSE f[i - 1] * Order + b[i]]
            step == [k \in Nat |-> [x \in Nat |-> IF k \in 1..Len(b) THEN x * Order + b[k] ELSE 0]]
<1>1. step \in [Nat -> [Nat -> Nat]]
  <2>1. ASSUME NEW k \in Nat, NEW x \in Nat
        PROVE  (IF k \in 1..Len(b) THEN x * Order + b[k] ELSE 0) \in Nat
    <3>1. k \in 1..Len(b) => b[k] \in Nat
      BY OrderIsNat DEF Scalar
    <3>2. x * Order \in Nat
      BY OrderIsNat, Z3
    <3>. QED  BY <3>1, <3>2
  <2>. QED  BY <2>1
<1>2. PICK f : Recursive(f, Nat, 0, step)
  <2>. HIDE DEF step
  <2>1. 0 \in Nat
    OBVIOUS
  <2>. QED  BY <1>1, <2>1, RecursionExists, Zenon
<1>. DEFINE g == [i \in 0..Len(b) |-> f[i]]
<1>3. Len(b) \in Nat /\ g \in [0..Len(b) -> Nat] /\ g[0] = 0
  BY <1>2 DEF Recursive
<1>4. ASSUME NEW i \in 1..Len(b) PROVE g[i] = g[i - 1] * Order + b[i]
  <2>1. i \in Nat /\ i # 0 /\ i - 1 \in Nat /\ i \in 0..Len(b) /\ i - 1 \in 0..Len(b)
    BY <1>3
  <2>2. f[i] = step[i][f[i - 1]] /\ f[i - 1] \in Nat
    BY <1>2, <2>1 DEF Recursive
  <2>3. step[i][f[i - 1]] = f[i - 1] * Order + b[i]
    BY <2>1, <2>2, Zenon
  <2>. QED  BY <2>1, <2>2, <2>3, Zenon
<1>. HIDE DEF g
<1>5. g = Body(g)
  BY <1>3, <1>4
<1>. DEFINE number == CHOOSE h : h = Body(h)
<1>6. NumberOf(b) = number[Len(b)]
  BY Zenon DEF NumberOf
<1>7. number = Body(number)
  <2>. HIDE DEF Body
  <2>. QED  BY <1>5, Zenon
<1>. HIDE DEF number
<1>8. number[0] = 0 /\ \A i \in 1..Len(b) : number[i] = number[i - 1] * Order + b[i]
  BY <1>3, <1>7
<1>. DEFINE S == {i \in Nat : i <= Len(b) => number[i] = g[i]}
<1>9. \A i \in Nat : i \in S
  <2>1. 0 \in S
    BY <1>3, <1>8
  <2>2. ASSUME NEW i \in Nat, i \in S PROVE i + 1 \in S
    <3>. SUFFICES ASSUME i + 1 <= Len(b) PROVE number[i + 1] = g[i + 1]
      OBVIOUS
    <3>1. i + 1 \in 1..Len(b) /\ (i + 1) - 1 = i
      BY <1>3
    <3>2. number[i] = g[i]
      BY <1>3, <2>2
    <3>. QED  BY <1>4, <1>8, <3>1, <3>2
  <2>. HIDE DEF S
  <2>. QED  BY <2>1, <2>2, InductionOver, Zenon
<1>10. number[Len(b)] = g[Len(b)]
  BY <1>3, <1>9
<1>. QED  BY <1>3, <1>4, <1>6, <1>10, Zenon

\* A number below SizeEnd is read as it was written, in bytes.
LEMMA NumberRoundTrip ==
  ASSUME NEW n \in Nat
  PROVE  /\ AppendU64(n) \in Seq(Scalar) /\ Len(AppendU64(n)) = Width
         /\ n < SizeEnd => NumberOf(AppendU64(n)) = n
<1>. DEFINE b == AppendU64(n)
<1>1. Width \in Nat
  BY WireAssumption
<1>2. ASSUME NEW k \in 0..Width
      PROVE  n \div PlaceValue[k] \in Nat /\ (n \div PlaceValue[k]) % Order \in Scalar
  <2>1. PlaceValue[k] \in Nat /\ PlaceValue[k] > 0
    BY <1>1, PlaceValues
  <2>2. n \div PlaceValue[k] \in Nat
    BY <2>1
  <2>. QED  BY <2>2, DivMod
<1>3. b \in Seq(Scalar) /\ Len(b) = Width /\ \A i \in 1..Width : b[i] = (n \div PlaceValue[Width - i]) % Order
  <2>1. \A i \in 1..Width : (n \div PlaceValue[Width - i]) % Order \in Scalar
    BY <1>1, <1>2
  <2>. QED  BY <1>1, <2>1 DEF AppendU64
<1>. HIDE DEF b
<1>4. ASSUME n < SizeEnd PROVE NumberOf(b) = n
  <2>1. PICK g \in [0..Len(b) -> Nat] :
           /\ g[0] = 0 /\ \A i \in 1..Len(b) : g[i] = g[i - 1] * Order + b[i]
           /\ NumberOf(b) = g[Len(b)]
    BY <1>3, NumberUnfolds
  <2>. DEFINE S == {i \in Nat : i <= Width => g[i] = n \div PlaceValue[Width - i]}
  <2>2. 0 \in S
    <3>1. PlaceValue[Width] \in Nat /\ n < PlaceValue[Width]
      BY <1>1, <1>4, PlaceValues DEF SizeEnd
    <3>2. n \div PlaceValue[Width] = 0
      <4>. DEFINE m == PlaceValue[Width]
      <4>1. (m * 0 + n) \div m = 0
        <5>1. m \in Nat /\ m > 0 /\ n < m /\ 0 \in Nat
          BY <3>1
        <5>. HIDE DEF m
        <5>. QED  BY <5>1, UniqueDiv
      <4>2. m * 0 + n = n
        BY <3>1
      <4>. QED  BY <4>1, <4>2
    <3>. QED  BY <1>1, <2>1, <3>2
  <2>3. ASSUME NEW i \in Nat, i \in S PROVE i + 1 \in S
    <3>. SUFFICES ASSUME i + 1 <= Width PROVE g[i + 1] = n \div PlaceValue[Width - (i + 1)]
      OBVIOUS
    <3>. DEFINE k == Width - (i + 1)
                q == n \div PlaceValue[k]
    <3>1. i + 1 \in 1..Width /\ (i + 1) - 1 = i /\ k \in 0..Width /\ k + 1 = Width - i /\ i <= Width
      BY <1>1
    <3>2. g[i] = n \div PlaceValue[k + 1]
      BY <2>3, <3>1
    <3>3. g[i + 1] = g[i] * Order + b[i + 1] /\ b[i + 1] = q % Order
      BY <1>3, <2>1, <3>1
    <3>4. n \div PlaceValue[k + 1] = q \div Order
      <4>1. PlaceValue[k] \in Nat /\ PlaceValue[k] > 0 /\ PlaceValue[k + 1] = Order * PlaceValue[k]
        <5>1. k \in Nat
          BY <3>1
        <5>. HIDE DEF k
        <5>. QED  BY <5>1, PlaceValues, Zenon
      <4>. QED  BY <4>1, DivTwice
    <3>5. q \in Nat
      BY <1>2, <3>1
    <3>. HIDE DEF q, k
    <3>6. q = Order * (q \div Order) + (q % Order) /\ q \div Order \in Nat /\ q % Order \in Nat
      <4>1. q = Order * (q \div Order) + (q % Order) /\ q \div Order \in Nat /\ q % Order \in Scalar
        BY <3>5, DivMod, Zenon
      <4>2. \A x \in Scalar : x \in Nat
        BY OrderIsNat DEF Scalar
      <4>. QED  BY <4>1, <4>2, Zenon
    <3>7. g[i + 1] = q
      <4>. DEFINE u == q \div Order
                  v == q % Order
      <4>1. g[i + 1] = u * Order + v /\ q = Order * u + v /\ u \in Nat /\ v \in Nat
        BY <3>2, <3>3, <3>4, <3>6, Zenon
      <4>. HIDE DEF u, v
      <4>. QED  BY <4>1, OrderIsNat
    <3>. QED  BY <3>7 DEF q, k
  <2>4. Width \in S
    <3>. HIDE DEF S
    <3>. QED  BY <1>1, <2>2, <2>3, InductionOver, Zenon
  <2>5. PlaceValue[Width - Width] = 1
    BY <1>1, PlaceValues
  <2>. QED  BY <1>1, <1>3, <2>1, <2>4, <2>5
<1>. QED  BY <1>3, <1>4, Zenon DEF b

-----------------------------------------------------------------------------
(* Reading from a Deserializer *)

\* A Deserializer at some place of its bytes; it holds any value.
Reader(d) ==
  /\ d = [bytes |-> d.bytes, index |-> d.index, state |-> d.state, value |-> d.value]
  /\ d.bytes \in Seq(Scalar)
  /\ d.index \in Nat /\ d.index <= Len(d.bytes)
  /\ d.state \in {"ok", "throw", "beyond"}

\* No read of an item takes more bytes than Longest, and behind bytes that fit no such read
\* wraps around.
Longest == MaxProof + Width + 3
Fits(bytes) == Len(bytes) + Longest < SizeEnd

\* What a read may make of a Deserializer: its bytes stay, an exception stays, and if the
\* bytes fit it never goes beyond them.
After(d, e) ==
  /\ Reader(e)
  /\ e.bytes = d.bytes
  /\ d.state # "ok" => e.state = d.state
  /\ Fits(d.bytes) /\ d.state # "beyond" => e.state # "beyond"

\* The Deserializer after a read of v.
SetValue(d, v) == [d EXCEPT !.value = v]

\* The same place in longer bytes.
Extended(d, bytes) == [d EXCEPT !.bytes = bytes]

\* The longer bytes begin with the others.
Continues(bytes, longer) ==
  /\ longer \in Seq(Scalar) /\ Len(bytes) <= Len(longer)
  /\ \A i \in 1..Len(bytes) : longer[i] = bytes[i]

\* The bytes to be read next, and the Deserializer behind them.
Holds(d, s) ==
  /\ d.state = "ok" /\ s \in Seq(Scalar)
  /\ d.index + Len(s) <= Len(d.bytes)
  /\ \A k \in 1..Len(s) : d.bytes[d.index + k] = s[k]

\* The Deserializer that has read v of these bytes.
Behind(d, s, v) == [d EXCEPT !.value = v, !.index = @ + Len(s)]

\* The widths and bounds are numbers.
LEMMA Sizes == Width \in Nat /\ Width > 0 /\ MaxProof \in Nat /\ SizeEnd \in Nat /\ SizeEnd > 0
  BY WireAssumption, PlaceValues DEF SizeEnd

\* Only the value changes.
LEMMA ValueFields ==
  ASSUME NEW d, Reader(d), NEW v
  PROVE  /\ Reader(SetValue(d, v)) /\ SetValue(d, v).value = v
         /\ SetValue(d, v).bytes = d.bytes /\ SetValue(d, v).index = d.index
         /\ SetValue(d, v).state = d.state
  BY DEF Reader, SetValue

\* Only the last value counts.
LEMMA SetTwice ==
  ASSUME NEW d, Reader(d), NEW v, NEW w
  PROVE  SetValue(SetValue(d, v), w) = SetValue(d, w)
  BY DEF Reader, SetValue

\* A value put in place of the one that was read changes nothing else.
LEMMA AfterValue ==
  ASSUME NEW d, NEW e, After(d, e), NEW v
  PROVE  After(d, SetValue(e, v))
  BY ValueFields, Zenon DEF After

\* One read after another.
LEMMA AfterTrans ==
  ASSUME NEW d, NEW e, NEW f, After(d, e), After(e, f)
  PROVE  /\ After(d, f)
         /\ f.state = "ok" => e.state = "ok"
  BY Zenon DEF After

\* What can be read was not read after an exception.
LEMMA AfterOk ==
  ASSUME NEW d, NEW e, After(d, e), e.state = "ok"
  PROVE  d.state = "ok"
  BY Zenon DEF After

\* Only the bytes change.
LEMMA ExtendedIs ==
  ASSUME NEW d, Reader(d), NEW longer
  PROVE  Extended(d, longer) = [bytes |-> longer, index |-> d.index, state |-> d.state, value |-> d.value]
<1>. DEFINE e == Extended(d, longer)
<1>1. e = [d EXCEPT !.bytes = longer]
  BY DEF Extended
<1>. HIDE DEF e
<1>2. e = [bytes |-> longer, index |-> d.index, state |-> d.state, value |-> d.value]
  BY <1>1 DEF Reader
<1>. QED  BY <1>2 DEF e

\* More bytes change none of the other fields.
LEMMA ExtendedFields ==
  ASSUME NEW d, Reader(d), NEW longer, Continues(d.bytes, longer)
  PROVE  /\ Reader(Extended(d, longer)) /\ Extended(d, longer).bytes = longer
         /\ Extended(d, longer).index = d.index /\ Extended(d, longer).state = d.state
         /\ Extended(d, longer).value = d.value
  BY DEF Reader, Extended, Continues

\* The value and the bytes are changed in either order.
LEMMA ExtendedValue ==
  ASSUME NEW d, Reader(d), NEW longer, NEW v
  PROVE  SetValue(Extended(d, longer), v) = Extended(SetValue(d, v), longer)
  BY DEF Reader, Extended, SetValue

\* A Deserializer with another index and value.
LEMMA MovedRecord ==
  ASSUME NEW d, Reader(d), NEW n \in Nat, NEW v
  PROVE  [d EXCEPT !.value = v, !.index = @ + n]
           = [bytes |-> d.bytes, index |-> d.index + n, state |-> d.state, value |-> v]
<1>. DEFINE e == [d EXCEPT !.value = v, !.index = @ + n]
<1>1. e = [d EXCEPT !.value = v, !.index = @ + n]
  OBVIOUS
<1>. HIDE DEF e
<1>2. e = [bytes |-> d.bytes, index |-> d.index + n, state |-> d.state, value |-> v]
  BY <1>1 DEF Reader
<1>. QED  BY <1>1, <1>2

\* The fields of a Deserializer behind what it read.
LEMMA BehindFields ==
  ASSUME NEW d, Reader(d), NEW s, Holds(d, s), NEW v
  PROVE  /\ Reader(Behind(d, s, v)) /\ Behind(d, s, v).bytes = d.bytes
         /\ Behind(d, s, v).index = d.index + Len(s) /\ Behind(d, s, v).state = "ok"
         /\ Behind(d, s, v).value = v
<1>1. /\ d = [bytes |-> d.bytes, index |-> d.index, state |-> d.state, value |-> d.value]
      /\ d.bytes \in Seq(Scalar) /\ d.index \in Nat /\ d.state = "ok"
      /\ s \in Seq(Scalar) /\ d.index + Len(s) <= Len(d.bytes)
  BY DEF Reader, Holds
<1>2. Behind(d, s, v) = [bytes |-> d.bytes, index |-> d.index + Len(s), state |-> "ok", value |-> v]
  <2>1. Len(s) \in Nat
    BY <1>1
  <2>2. Behind(d, s, v) = [d EXCEPT !.value = v, !.index = @ + Len(s)]
    BY DEF Behind
  <2>3. Behind(d, s, v) = [bytes |-> d.bytes, index |-> d.index + Len(s), state |-> d.state, value |-> v]
    BY <2>1, <2>2, MovedRecord
  <2>. QED  BY <1>1, <2>3
<1>3. d.index + Len(s) \in Nat
  BY <1>1
<1>. QED  BY <1>1, <1>2, <1>3 DEF Reader

\* The value is changed behind what was read.
LEMMA BehindValue ==
  ASSUME NEW d, Reader(d), NEW s, NEW v, NEW w
  PROVE  SetValue(Behind(d, s, v), w) = Behind(d, s, w)
  BY DEF Reader, Behind, SetValue

\* What is held is read piece by piece.
LEMMA HoldsParts ==
  ASSUME NEW d, Reader(d), NEW s \in Seq(Scalar), NEW t \in Seq(Scalar), Holds(d, s \o t), NEW v
  PROVE  /\ Holds(d, s) /\ Holds(Behind(d, s, v), t)
         /\ \A w : Behind(Behind(d, s, v), t, w) = Behind(d, s \o t, w)
<1>1. /\ d.state = "ok" /\ d.index + (Len(s) + Len(t)) <= Len(d.bytes) /\ d.index \in Nat
      /\ \A k \in 1..(Len(s) + Len(t)) : d.bytes[d.index + k] = (s \o t)[k]
      /\ Len(s) \in Nat /\ Len(t) \in Nat
  BY DEF Holds, Reader
<1>2. \A k \in 1..Len(s) : (s \o t)[k] = s[k]
  OBVIOUS
<1>3. \A k \in 1..Len(t) : (s \o t)[Len(s) + k] = t[k]
  OBVIOUS
<1>4. Holds(d, s)
  BY <1>1, <1>2, SMTT(30) DEF Holds, Reader
<1>5. /\ Reader(Behind(d, s, v)) /\ Behind(d, s, v).bytes = d.bytes
      /\ Behind(d, s, v).index = d.index + Len(s) /\ Behind(d, s, v).state = "ok"
  BY <1>4, BehindFields
<1>6. Holds(Behind(d, s, v), t)
  <2>1. \A k \in 1..Len(t) : d.bytes[(d.index + Len(s)) + k] = t[k]
    <3>. TAKE k \in 1..Len(t)
    <3>1. Len(s) + k \in 1..(Len(s) + Len(t)) /\ d.index + (Len(s) + k) = (d.index + Len(s)) + k
      BY <1>1
    <3>. QED  BY <1>1, <1>3, <3>1
  <2>2. (d.index + Len(s)) + Len(t) <= Len(d.bytes)
    BY <1>1, <1>5 DEF Reader
  <2>. QED  BY <1>5, <2>1, <2>2, Zenon DEF Holds
<1>7. ASSUME NEW w PROVE Behind(Behind(d, s, v), t, w) = Behind(d, s \o t, w)
  <2>1. Len(s \o t) = Len(s) + Len(t) /\ (d.index + Len(s)) + Len(t) = d.index + (Len(s) + Len(t))
    BY <1>1
  <2>. QED  BY <2>1 DEF Behind, Reader
<1>. QED  BY <1>4, <1>6, <1>7

\* A remainder is not larger than the number, and a small number is its own remainder.
LEMMA Remainder ==
  ASSUME NEW a \in Nat, NEW m \in Nat, m > 0
  PROVE  a % m \in Nat /\ a % m <= a /\ (a < m => a % m = a)
<1>. DEFINE q == a \div m
            r == a % m
<1>1. q \in Nat /\ r \in Nat /\ a = m * q + r
  OBVIOUS
<1>. HIDE DEF q, r
<1>2. m * q \in Nat /\ (q >= 1 => m * q >= m)
  BY <1>1, Z3
<1>3. q = 0 => m * q = 0
  BY <1>1
<1>. QED  BY <1>1, <1>2, <1>3 DEF r

\* Deserializer::ReadVector returns the next bytes or throws; it is wrong only where index and
\* size wrap around.
LEMMA VectorReads ==
  ASSUME NEW d, Reader(d), NEW n \in Nat
  PROVE  LET e == ReadVector(d, n) IN
         /\ Reader(e) /\ e.bytes = d.bytes
         /\ n <= Longest => After(d, e)
         /\ e.state = "ok" =>
              /\ d.state = "ok" /\ d.index + n <= Len(d.bytes)
              /\ e = [bytes |-> d.bytes, index |-> d.index + n, state |-> "ok",
                      value |-> SubSeq(d.bytes, d.index + 1, d.index + n)]
<1>. DEFINE e == ReadVector(d, n)
            end == d.index + n
<1>1. end \in Nat /\ d.index \in Nat /\ Len(d.bytes) \in Nat /\ d.index <= Len(d.bytes)
  BY DEF Reader
<1>2. end % SizeEnd \in Nat /\ end % SizeEnd <= end /\ (end < SizeEnd => end % SizeEnd = end)
  <2>. HIDE DEF end
  <2>. QED  BY <1>1, Sizes, Remainder
<1>3. CASE d.state # "ok"
  <2>1. e = d
    BY <1>3, Zenon DEF ReadVector
  <2>. QED  BY <1>3, <2>1, Zenon DEF After
<1>4. CASE d.state = "ok" /\ end % SizeEnd > Len(d.bytes)
  <2>1. e = [d EXCEPT !.state = "throw"]
    BY <1>4, Zenon DEF ReadVector
  <2>2. e.state = "throw" /\ e.bytes = d.bytes /\ Reader(e)
    BY <2>1 DEF Reader
  <2>3. "throw" # "ok" /\ "throw" # "beyond"
    OBVIOUS
  <2>. HIDE DEF e
  <2>. QED  BY <1>4, <2>2, <2>3, Zenon DEF After, e
<1>5. CASE d.state = "ok" /\ ~(end % SizeEnd > Len(d.bytes)) /\ end > Len(d.bytes)
  <2>1. e = [d EXCEPT !.state = "beyond"]
    BY <1>5, Zenon DEF ReadVector
  <2>2. e.state = "beyond" /\ e.bytes = d.bytes /\ Reader(e)
    BY <2>1 DEF Reader
  <2>3. "beyond" # "ok"
    OBVIOUS
  <2>4. n <= Longest => ~Fits(d.bytes)
    <3>1. Longest \in Nat
      BY Sizes DEF Longest
    <3>2. end >= SizeEnd
      BY <1>1, <1>2, <1>5, Sizes
    <3>. HIDE DEF e
    <3>. QED  BY <1>1, <3>1, <3>2, Sizes DEF Fits
  <2>. HIDE DEF e
  <2>. QED  BY <1>5, <2>2, <2>3, <2>4, Zenon DEF After, e
<1>6. CASE d.state = "ok" /\ ~(end % SizeEnd > Len(d.bytes)) /\ ~(end > Len(d.bytes))
  <2>1. e = [d EXCEPT !.value = SubSeq(d.bytes, d.index + 1, d.index + n), !.index = @ + n]
    BY <1>6, Zenon DEF ReadVector
  <2>2. e = [bytes |-> d.bytes, index |-> d.index + n, state |-> "ok",
             value |-> SubSeq(d.bytes, d.index + 1, d.index + n)]
    BY <1>6, <2>1 DEF Reader
  <2>3. e.state = "ok" /\ e.bytes = d.bytes /\ e.index = end /\ end <= Len(d.bytes)
    BY <1>1, <1>6, <2>2
  <2>4. Reader(e)
    BY <1>1, <2>2, <2>3 DEF Reader
  <2>5. "ok" # "beyond"
    OBVIOUS
  <2>. HIDE DEF e
  <2>6. After(d, e)
    BY <1>6, <2>3, <2>4, <2>5, Zenon DEF After
  <2>. QED  BY <1>6, <2>2, <2>3, <2>4, <2>6, Zenon DEF e
<1>. QED  BY <1>3, <1>4, <1>5, <1>6, Zenon

\* Subsequences are equal if their members are.
LEMMA SameSub ==
  ASSUME NEW s \in Seq(Scalar), NEW t \in Seq(Scalar), NEW a \in Nat, NEW b \in Nat, a <= b,
         b <= Len(s), b <= Len(t), \A k \in (a + 1)..b : s[k] = t[k]
  PROVE  SubSeq(s, a + 1, b) = SubSeq(t, a + 1, b)
<1>. DEFINE u == SubSeq(s, a + 1, b)
            v == SubSeq(t, a + 1, b)
<1>1. u \in Seq(Scalar) /\ Len(u) = b - a /\ \A k \in 1..(b - a) : u[k] = s[a + k]
  OBVIOUS
<1>2. v \in Seq(Scalar) /\ Len(v) = b - a /\ \A k \in 1..(b - a) : v[k] = t[a + k]
  OBVIOUS
<1>3. \A k \in 1..(b - a) : a + k \in (a + 1)..b
  OBVIOUS
<1>. HIDE DEF u, v
<1>4. \A k \in 1..Len(u) : u[k] = v[k]
  BY <1>1, <1>2, <1>3
<1>5. u = v
  BY <1>1, <1>2, <1>4, SeqEqual
<1>. QED  BY <1>5 DEF u, v

\* The bytes between two places are given by their members.
LEMMA SubIs ==
  ASSUME NEW s \in Seq(Scalar), NEW t \in Seq(Scalar), NEW a \in Nat, a + Len(t) <= Len(s),
         \A k \in 1..Len(t) : s[a + k] = t[k]
  PROVE  SubSeq(s, a + 1, a + Len(t)) = t
<1>. DEFINE u == SubSeq(s, a + 1, a + Len(t))
<1>1. u \in Seq(Scalar) /\ Len(u) = Len(t) /\ \A k \in 1..Len(t) : u[k] = s[a + k]
  <2>. DEFINE n == Len(t)
              w == SubSeq(s, a + 1, a + n)
  <2>1. n \in Nat /\ a + n <= Len(s)
    OBVIOUS
  <2>. HIDE DEF n
  <2>2. a + n \in Nat /\ (a + n) - (a + 1) + 1 = n
    BY <2>1
  <2>3. \A k \in (a + 1)..(a + n) : s[k] \in Scalar
    BY <2>1
  <2>4. Len(w) = n /\ \A k \in 1..n : w[k] = s[a + k]
    BY <2>1, <2>2
  <2>5. w \in Seq(Scalar)
    BY <2>1, <2>2, <2>3
  <2>. QED  BY <2>4, <2>5 DEF n
<1>. HIDE DEF u
<1>2. u = t
  BY <1>1, SeqEqual
<1>. QED  BY <1>2 DEF u

\* Bytes that were read are read from longer bytes as well.
LEMMA VectorExtends ==
  ASSUME NEW d, Reader(d), NEW n \in Nat, ReadVector(d, n).state = "ok",
         NEW longer, Continues(d.bytes, longer)
  PROVE  ReadVector(Extended(d, longer), n) = Extended(ReadVector(d, n), longer)
<1>. DEFINE x == Extended(d, longer)
            end == d.index + n
<1>1. /\ d.state = "ok" /\ end <= Len(d.bytes)
      /\ ReadVector(d, n) = [bytes |-> d.bytes, index |-> end, state |-> "ok",
                             value |-> SubSeq(d.bytes, d.index + 1, end)]
  BY VectorReads, Zenon
<1>2. x = [bytes |-> longer, index |-> d.index, state |-> "ok", value |-> d.value]
  BY <1>1 DEF Extended, Reader
<1>3. d.index \in Nat /\ end \in Nat /\ Len(longer) \in Nat /\ end <= Len(longer) /\ d.bytes \in Seq(Scalar)
  BY <1>1 DEF Continues, Reader
<1>4. ~(end % SizeEnd > Len(longer)) /\ ~(end > Len(longer))
  <2>1. end % SizeEnd \in Nat /\ end % SizeEnd <= end
    <3>. HIDE DEF end
    <3>. QED  BY <1>3, Sizes, Remainder
  <2>. QED  BY <1>3, <2>1
<1>5. SubSeq(longer, d.index + 1, end) = SubSeq(d.bytes, d.index + 1, end)
  <2>1. d.index <= end /\ end <= Len(d.bytes) /\ longer \in Seq(Scalar)
    BY <1>1, <1>3 DEF Continues
  <2>2. \A k \in (d.index + 1)..end : longer[k] = d.bytes[k]
    BY <1>1, <1>3 DEF Continues
  <2>. HIDE DEF end
  <2>. QED  BY <1>3, <2>1, <2>2, SameSub, SMTT(30)
<1>6. ReadVector(x, n) = [x EXCEPT !.value = SubSeq(longer, d.index + 1, end), !.index = @ + n]
  <2>1. x.state = "ok" /\ x.index = d.index /\ x.bytes = longer
    BY <1>2
  <2>. HIDE DEF x
  <2>. QED  BY <1>4, <2>1, Zenon DEF ReadVector
<1>7. ReadVector(x, n) = [bytes |-> longer, index |-> end, state |-> "ok",
                          value |-> SubSeq(d.bytes, d.index + 1, end)]
  <2>. HIDE DEF x, end
  <2>1. end = d.index + n
    BY DEF end
  <2>2. Reader(x) /\ x.bytes = longer /\ x.index = d.index /\ x.state = "ok"
    BY <1>1, ExtendedFields, Zenon DEF x
  <2>3. ReadVector(x, n) = [bytes |-> x.bytes, index |-> x.index + n, state |-> x.state,
                            value |-> SubSeq(longer, d.index + 1, end)]
    BY <1>6, <2>2, MovedRecord
  <2>. QED  BY <1>5, <2>1, <2>2, <2>3
<1>8. Reader(ReadVector(d, n))
  BY VectorReads, Zenon
<1>. DEFINE e == ReadVector(d, n)
<1>9. Extended(e, longer) = [bytes |-> longer, index |-> e.index, state |-> e.state, value |-> e.value]
  <2>. HIDE DEF e
  <2>. QED  BY <1>8, ExtendedIs DEF e
<1>10. e.index = end /\ e.state = "ok" /\ e.value = SubSeq(d.bytes, d.index + 1, end)
  <2>. DEFINE v == SubSeq(d.bytes, d.index + 1, end)
  <2>1. e = [bytes |-> d.bytes, index |-> end, state |-> "ok", value |-> v]
    BY <1>1, Zenon
  <2>. HIDE DEF e, end, v
  <2>. QED  BY <2>1 DEF v
<1>. QED  BY <1>7, <1>9, <1>10, Zenon

\* Bytes that are held are read.
LEMMA VectorExact ==
  ASSUME NEW d, Reader(d), NEW s, Holds(d, s)
  PROVE  ReadVector(d, Len(s)) = Behind(d, s, s)
<1>. DEFINE n == Len(s)
            end == d.index + n
<1>1. d.index \in Nat /\ n \in Nat /\ end \in Nat /\ end <= Len(d.bytes) /\ d.bytes \in Seq(Scalar) /\ s \in Seq(Scalar)
  BY DEF Holds, Reader
<1>2. ~(end % SizeEnd > Len(d.bytes)) /\ ~(end > Len(d.bytes))
  <2>1. end % SizeEnd \in Nat /\ end % SizeEnd <= end
    <3>. HIDE DEF end
    <3>. QED  BY <1>1, Sizes, Remainder
  <2>. QED  BY <1>1, <2>1
<1>3. SubSeq(d.bytes, d.index + 1, end) = s
  <2>1. \A k \in 1..Len(s) : d.bytes[d.index + k] = s[k]
    BY DEF Holds
  <2>. QED  BY <1>1, <2>1, SubIs
<1>4. ReadVector(d, n) = [d EXCEPT !.value = SubSeq(d.bytes, d.index + 1, d.index + n), !.index = @ + n]
  BY <1>2, Zenon DEF ReadVector, Holds
<1>. QED  BY <1>3, <1>4 DEF Behind, Reader

-----------------------------------------------------------------------------
(* Bytes, numbers and signatures *)

\* What a read of d may return that reads a member of T.
Reads(d, e, T) == After(d, e) /\ (e.state = "ok" => e.value \in T)

\* A read whose value is then converted.
LEMMA MappedReads ==
  ASSUME NEW d, NEW e, After(d, e), Reader(e), NEW v, NEW T, e.state = "ok" => v \in T
  PROVE  Reads(d, SetValue(e, v), T)
  BY AfterValue, ValueFields, Zenon DEF Reads

\* The bytes that were read.
LEMMA VectorValue ==
  ASSUME NEW d, Reader(d), NEW n \in Nat, ReadVector(d, n).state = "ok"
  PROVE  ReadVector(d, n).value \in Seq(Scalar) /\ Len(ReadVector(d, n).value) = n
<1>. DEFINE e == ReadVector(d, n)
            a == d.index
            v == SubSeq(d.bytes, a + 1, a + n)
<1>1. /\ a + n <= Len(d.bytes)
      /\ e = [bytes |-> d.bytes, index |-> a + n, state |-> "ok", value |-> v]
  BY VectorReads, Zenon
<1>2. d.bytes \in Seq(Scalar) /\ a \in Nat
  BY DEF Reader
<1>3. v \in Seq(Scalar) /\ Len(v) = n
  <2>. HIDE DEF a, e
  <2>1. a + n \in Nat /\ (a + n) - (a + 1) + 1 = n
    BY <1>2
  <2>2. \A k \in (a + 1)..(a + n) : d.bytes[k] \in Scalar
    BY <1>1, <1>2
  <2>. QED  BY <1>1, <1>2, <2>1, <2>2
<1>4. e.value = v
  <2>. HIDE DEF e, v, a
  <2>. QED  BY <1>1
<1>. QED  BY <1>3, <1>4, Zenon

\* Bytes stand for a number.
LEMMA NumberType ==
  ASSUME NEW b \in Seq(Scalar)
  PROVE  NumberOf(b) \in Nat
<1>1. PICK g \in [0..Len(b) -> Nat] : NumberOf(b) = g[Len(b)]
  BY NumberUnfolds, Zenon
<1>2. Len(b) \in 0..Len(b)
  OBVIOUS
<1>. QED  BY <1>1, <1>2, Zenon

\* Three bytes are a signature.
LEMMA SignatureType ==
  ASSUME NEW w \in Seq(Scalar), Len(w) = 3
  PROVE  [form |-> "raw", r |-> SubSeq(w, 1, 2), s |-> w[3]] \in Signature
<1>. DEFINE u == SubSeq(w, 1, 2)
<1>0. u \in Seq(Scalar) /\ Len(u) = 2 /\ w[3] \in Scalar
  OBVIOUS
<1>. HIDE DEF u
<1>1. u \in [1..2 -> Scalar] /\ w[3] \in Scalar
  BY <1>0, LenProperties, Zenon
<1>. QED  BY <1>1 DEF Signature, BigInt, u

\* A BigInt is a sequence of bytes.
LEMMA BigIntIsSeq ==
  ASSUME NEW n \in Nat, NEW x \in [1..n -> Scalar]
  PROVE  x \in Seq(Scalar) /\ Len(x) = n
  OBVIOUS

\* The bytes of a signature.
LEMMA SignatureBytes ==
  ASSUME NEW x \in Signature
  PROVE  LET s == SerializeSignature(x) IN
           s \in Seq(Scalar) /\ Len(s) = 3 /\ [form |-> "raw", r |-> SubSeq(s, 1, 2), s |-> s[3]] = x
<1>. DEFINE r == x.r
            t == x.s
            s == r \o <<t>>
<1>1. x = [form |-> "raw", r |-> r, s |-> t] /\ r \in [1..2 -> Scalar] /\ t \in Scalar
  BY DEF Signature, BigInt
<1>. HIDE DEF r, t
<1>2. r \in Seq(Scalar) /\ Len(r) = 2 /\ <<t>> \in Seq(Scalar) /\ Len(<<t>>) = 1
  <2>1. r \in Seq(Scalar) /\ Len(r) = 2
    BY <1>1, BigIntIsSeq
  <2>. QED  BY <1>1, <2>1
<1>3. s \in Seq(Scalar) /\ Len(s) = 3 /\ s[3] = t /\ s[1] = r[1] /\ s[2] = r[2]
  <2>. DEFINE z == <<t>>
  <2>1. z \in Seq(Scalar) /\ Len(z) = 1 /\ z[1] = t
    BY <1>1
  <2>. HIDE DEF z
  <2>2. r \o z \in Seq(Scalar) /\ Len(r \o z) = 3 /\ (r \o z)[3] = z[1]
        /\ (r \o z)[1] = r[1] /\ (r \o z)[2] = r[2]
    <3>1. r \o z \in Seq(Scalar) /\ Len(r \o z) = Len(r) + Len(z)
      BY <1>2, <2>1, ConcatProperties
    <3>2. \A k \in 1..3 : (r \o z)[k] = IF k <= 2 THEN r[k] ELSE z[k - 2]
      <4>1. \A k \in 1..(Len(r) + Len(z)) : (r \o z)[k] = IF k <= Len(r) THEN r[k] ELSE z[k - Len(r)]
        BY <1>2, <2>1, ConcatProperties, Zenon
      <4>2. Len(r) = 2 /\ Len(z) = 1 /\ 2 + 1 = 3
        BY <1>2, <2>1
      <4>. QED  BY <4>1, <4>2, Zenon
    <3>3. 1 \in 1..3 /\ 2 \in 1..3 /\ 3 \in 1..3 /\ 1 <= 2 /\ 2 <= 2 /\ ~(3 <= 2) /\ 3 - 2 = 1 /\ 2 + 1 = 3
      OBVIOUS
    <3>4. (r \o z)[1] = r[1] /\ (r \o z)[2] = r[2] /\ (r \o z)[3] = z[1]
      <4>. DEFINE y == r \o z
      <4>1. \A k \in 1..3 : y[k] = IF k <= 2 THEN r[k] ELSE z[k - 2]
        BY <3>2
      <4>. HIDE DEF y
      <4>2. y[1] = r[1] /\ y[2] = r[2] /\ y[3] = z[1]
        BY <4>1
      <4>. QED  BY <4>2 DEF y
    <3>. QED  BY <1>2, <2>1, <3>1, <3>3, <3>4, Zenon
  <2>. QED  BY <2>1, <2>2 DEF z
<1>. HIDE DEF s
<1>4. SubSeq(s, 1, 2) \in Seq(Scalar) /\ Len(SubSeq(s, 1, 2)) = 2
      /\ \A k \in 1..2 : SubSeq(s, 1, 2)[k] = s[k]
  BY <1>3
<1>5. \A k \in 1..2 : k = 1 \/ k = 2
  OBVIOUS
<1>6. SubSeq(s, 1, 2) = r
  BY <1>2, <1>3, <1>4, <1>5, SeqEqual
<1>. QED  BY <1>1, <1>3, <1>6 DEF SerializeSignature, s, r, t

\* Deserializer::Read<uint8_t> reads a byte or throws.
LEMMA ReadReads ==
  ASSUME NEW d, Reader(d)
  PROVE  Reads(d, Read(d), Scalar)
<1>. DEFINE e == ReadVector(d, 1)
            v == IF e.state = "ok" THEN e.value[1] ELSE e.value
<1>1. Read(d) = SetValue(e, v)
  BY DEF Read, SetValue
<1>2. 1 \in Nat /\ 1 <= Longest
  BY Sizes DEF Longest
<1>3. Reader(e) /\ After(d, e)
  BY <1>2, VectorReads, Zenon
<1>4. ASSUME e.state = "ok" PROVE v \in Scalar
  <2>1. e.value \in Seq(Scalar) /\ Len(e.value) = 1
    BY <1>2, <1>4, VectorValue, Zenon
  <2>2. e.value[1] \in Scalar
    <3>. DEFINE w == e.value
    <3>. HIDE DEF w
    <3>. QED  BY <2>1 DEF w
  <2>. QED  BY <1>4, <2>2, Zenon
<1>. HIDE DEF v, e
<1>. QED  BY <1>1, <1>3, <1>4, MappedReads, Zenon

\* It reads the same from longer bytes.
LEMMA ReadExtends ==
  ASSUME NEW d, Reader(d), Read(d).state = "ok", NEW longer, Continues(d.bytes, longer)
  PROVE  Read(Extended(d, longer)) = Extended(Read(d), longer)
<1>. DEFINE e == ReadVector(d, 1)
            f == ReadVector(Extended(d, longer), 1)
            v == IF e.state = "ok" THEN e.value[1] ELSE e.value
            w == IF f.state = "ok" THEN f.value[1] ELSE f.value
<1>1. Read(d) = SetValue(e, v) /\ Read(Extended(d, longer)) = SetValue(f, w)
  BY DEF Read, SetValue
<1>2. 1 \in Nat
  BY Sizes
<1>3. Reader(e)
  BY <1>2, VectorReads, Zenon
<1>4. e.state = "ok"
  <2>. HIDE DEF e, v
  <2>. QED  BY <1>1, <1>3, ValueFields
<1>5. f = Extended(e, longer) /\ e.bytes = d.bytes
  BY <1>2, <1>4, VectorExtends, VectorReads, Zenon
<1>6. w = v
  <2>1. f.state = e.state /\ f.value = e.value
    <3>. HIDE DEF e, f, v, w
    <3>. QED  BY <1>3, <1>5, ExtendedFields, Zenon
  <2>. HIDE DEF e, f
  <2>. QED  BY <2>1, Zenon
<1>. HIDE DEF e, f, v, w
<1>7. SetValue(Extended(e, longer), v) = Extended(SetValue(e, v), longer)
  BY <1>3, ExtendedValue, Zenon
<1>. QED  BY <1>1, <1>5, <1>6, <1>7, Zenon

\* It reads back the byte that was written.
LEMMA ReadExact ==
  ASSUME NEW d, Reader(d), NEW x \in Scalar, Holds(d, <<x>>)
  PROVE  Read(d) = Behind(d, <<x>>, x)
<1>. DEFINE s == <<x>>
            e == ReadVector(d, 1)
            v == IF e.state = "ok" THEN e.value[1] ELSE e.value
<1>1. Read(d) = SetValue(e, v)
  BY DEF Read, SetValue
<1>2. s \in Seq(Scalar) /\ Len(s) = 1 /\ s[1] = x
  BY OrderIsNat DEF Scalar
<1>. HIDE DEF s
<1>3. e = Behind(d, s, s)
  BY <1>2, VectorExact DEF s
<1>4. e.state = "ok" /\ e.value = s
  <2>. HIDE DEF e
  <2>. QED  BY <1>3, BehindFields DEF s
<1>5. v = x
  <2>. HIDE DEF e
  <2>. QED  BY <1>2, <1>4, Zenon
<1>. HIDE DEF e, v
<1>6. SetValue(Behind(d, s, s), x) = Behind(d, s, x)
  BY BehindValue, Zenon
<1>. QED  BY <1>1, <1>3, <1>5, <1>6, Zenon DEF s

\* Deserializer::Read<uint64_t> reads a number or throws.
LEMMA U64Reads ==
  ASSUME NEW d, Reader(d)
  PROVE  Reads(d, ReadU64(d), Nat)
<1>. DEFINE e == ReadVector(d, Width)
            v == IF e.state = "ok" THEN NumberOf(e.value) ELSE 0
<1>1. ReadU64(d) = SetValue(e, v)
  BY DEF ReadU64, SetValue
<1>2. Width \in Nat /\ Width <= Longest
  BY Sizes DEF Longest
<1>3. Reader(e) /\ After(d, e)
  BY <1>2, VectorReads, Zenon
<1>4. ASSUME e.state = "ok" PROVE v \in Nat
  <2>1. e.value \in Seq(Scalar) /\ Len(e.value) = Width
    BY <1>2, <1>4, VectorValue, Zenon
  <2>2. NumberOf(e.value) \in Nat
    <3>. DEFINE w == e.value
    <3>. HIDE DEF w
    <3>. QED  BY <2>1, NumberType DEF w
  <2>. QED  BY <1>4, <2>2, Zenon
<1>. HIDE DEF v, e
<1>. QED  BY <1>1, <1>3, <1>4, MappedReads, Zenon

\* It reads the same number from longer bytes.
LEMMA U64Extends ==
  ASSUME NEW d, Reader(d), ReadU64(d).state = "ok", NEW longer, Continues(d.bytes, longer)
  PROVE  ReadU64(Extended(d, longer)) = Extended(ReadU64(d), longer)
<1>. DEFINE e == ReadVector(d, Width)
            f == ReadVector(Extended(d, longer), Width)
            v == IF e.state = "ok" THEN NumberOf(e.value) ELSE 0
            w == IF f.state = "ok" THEN NumberOf(f.value) ELSE 0
<1>1. ReadU64(d) = SetValue(e, v) /\ ReadU64(Extended(d, longer)) = SetValue(f, w)
  BY DEF ReadU64, SetValue
<1>2. Width \in Nat
  BY Sizes
<1>3. Reader(e)
  BY <1>2, VectorReads, Zenon
<1>4. e.state = "ok"
  <2>. HIDE DEF e, v
  <2>. QED  BY <1>1, <1>3, ValueFields
<1>5. f = Extended(e, longer) /\ e.bytes = d.bytes
  BY <1>2, <1>4, VectorExtends, VectorReads, Zenon
<1>6. w = v
  <2>1. f.state = e.state /\ f.value = e.value
    <3>. HIDE DEF e, f, v, w
    <3>. QED  BY <1>3, <1>5, ExtendedFields, Zenon
  <2>. HIDE DEF e, f
  <2>. QED  BY <2>1, Zenon
<1>. HIDE DEF e, f, v, w
<1>7. SetValue(Extended(e, longer), v) = Extended(SetValue(e, v), longer)
  BY <1>3, ExtendedValue, Zenon
<1>. QED  BY <1>1, <1>5, <1>6, <1>7, Zenon

\* It reads back the number that was written.
LEMMA U64Exact ==
  ASSUME NEW d, Reader(d), NEW x \in Nat, x < SizeEnd, Holds(d, AppendU64(x))
  PROVE  ReadU64(d) = Behind(d, AppendU64(x), x)
<1>. DEFINE s == AppendU64(x)
            e == ReadVector(d, Width)
            v == IF e.state = "ok" THEN NumberOf(e.value) ELSE 0
<1>1. ReadU64(d) = SetValue(e, v)
  BY DEF ReadU64, SetValue
<1>2. s \in Seq(Scalar) /\ Len(s) = Width /\ NumberOf(s) = x
  BY NumberRoundTrip DEF Scalar
<1>. HIDE DEF s
<1>3. e = Behind(d, s, s)
  BY <1>2, VectorExact DEF s
<1>4. e.state = "ok" /\ e.value = s
  <2>. HIDE DEF e
  <2>. QED  BY <1>3, BehindFields DEF s
<1>5. v = x
  <2>. HIDE DEF e
  <2>. QED  BY <1>2, <1>4, Zenon
<1>. HIDE DEF e, v
<1>6. SetValue(Behind(d, s, s), x) = Behind(d, s, x)
  BY BehindValue, Zenon
<1>. QED  BY <1>1, <1>3, <1>5, <1>6, Zenon DEF s

\* BlindingFactor::Deserialize reads a factor or throws.
LEMMA BlindReads ==
  ASSUME NEW d, Reader(d)
  PROVE  Reads(d, DeserializeBlindingFactor(d), BlindingFactor)
<1>. DEFINE e == ReadVector(d, 1)
            v == IF e.state = "ok" THEN e.value[1] ELSE e.value
<1>1. DeserializeBlindingFactor(d) = SetValue(e, v)
  BY DEF DeserializeBlindingFactor, DeserializeBigInt, SetValue
<1>2. 1 \in Nat /\ 1 <= Longest
  BY Sizes DEF Longest
<1>3. Reader(e) /\ After(d, e)
  BY <1>2, VectorReads, Zenon
<1>4. ASSUME e.state = "ok" PROVE v \in BlindingFactor
  <2>1. e.value \in Seq(Scalar) /\ Len(e.value) = 1
    BY <1>2, <1>4, VectorValue, Zenon
  <2>2. e.value[1] \in BlindingFactor
    <3>. DEFINE w == e.value
    <3>. HIDE DEF w
    <3>. QED  BY <2>1 DEF w, BlindingFactor
  <2>. QED  BY <1>4, <2>2, Zenon
<1>. HIDE DEF v, e
<1>. QED  BY <1>1, <1>3, <1>4, MappedReads, Zenon

\* It reads the same factor from longer bytes.
LEMMA BlindExtends ==
  ASSUME NEW d, Reader(d), DeserializeBlindingFactor(d).state = "ok", NEW longer, Continues(d.bytes, longer)
  PROVE  DeserializeBlindingFactor(Extended(d, longer)) = Extended(DeserializeBlindingFactor(d), longer)
<1>. DEFINE e == ReadVector(d, 1)
            f == ReadVector(Extended(d, longer), 1)
            v == IF e.state = "ok" THEN e.value[1] ELSE e.value
            w == IF f.state = "ok" THEN f.value[1] ELSE f.value
<1>1. DeserializeBlindingFactor(d) = SetValue(e, v) /\ DeserializeBlindingFactor(Extended(d, longer)) = SetValue(f, w)
  BY DEF DeserializeBlindingFactor, DeserializeBigInt, SetValue
<1>2. 1 \in Nat
  BY Sizes
<1>3. Reader(e)
  BY <1>2, VectorReads, Zenon
<1>4. e.state = "ok"
  <2>. HIDE DEF e, v
  <2>. QED  BY <1>1, <1>3, ValueFields
<1>5. f = Extended(e, longer) /\ e.bytes = d.bytes
  BY <1>2, <1>4, VectorExtends, VectorReads, Zenon
<1>6. w = v
  <2>1. f.state = e.state /\ f.value = e.value
    <3>. HIDE DEF e, f, v, w
    <3>. QED  BY <1>3, <1>5, ExtendedFields, Zenon
  <2>. HIDE DEF e, f
  <2>. QED  BY <2>1, Zenon
<1>. HIDE DEF e, f, v, w
<1>7. SetValue(Extended(e, longer), v) = Extended(SetValue(e, v), longer)
  BY <1>3, ExtendedValue, Zenon
<1>. QED  BY <1>1, <1>5, <1>6, <1>7, Zenon

\* It reads back the factor that was written.
LEMMA BlindExact ==
  ASSUME NEW d, Reader(d), NEW x \in BlindingFactor, Holds(d, SerializeBlindingFactor(x))
  PROVE  DeserializeBlindingFactor(d) = Behind(d, SerializeBlindingFactor(x), x)
<1>. DEFINE s == SerializeBlindingFactor(x)
            e == ReadVector(d, 1)
            v == IF e.state = "ok" THEN e.value[1] ELSE e.value
<1>1. DeserializeBlindingFactor(d) = SetValue(e, v)
  BY DEF DeserializeBlindingFactor, DeserializeBigInt, SetValue
<1>2. s \in Seq(Scalar) /\ Len(s) = 1 /\ s[1] = x
  BY OrderIsNat DEF SerializeBlindingFactor, BlindingFactor, Scalar
<1>. HIDE DEF s
<1>3. e = Behind(d, s, s)
  BY <1>2, VectorExact DEF s
<1>4. e.state = "ok" /\ e.value = s
  <2>. HIDE DEF e
  <2>. QED  BY <1>3, BehindFields DEF s
<1>5. v = x
  <2>. HIDE DEF e
  <2>. QED  BY <1>2, <1>4, Zenon
<1>. HIDE DEF e, v
<1>6. SetValue(Behind(d, s, s), x) = Behind(d, s, x)
  BY BehindValue, Zenon
<1>. QED  BY <1>1, <1>3, <1>5, <1>6, Zenon DEF s

\* Signature::Deserialize reads a signature or throws.
LEMMA SignatureReads ==
  ASSUME NEW d, Reader(d)
  PROVE  Reads(d, DeserializeSignature(d), Signature)
<1>. DEFINE e == ReadVector(d, 3)
            v == IF e.state = "ok" THEN [form |-> "raw", r |-> SubSeq(e.value, 1, 2), s |-> e.value[3]] ELSE e.value
<1>1. DeserializeSignature(d) = SetValue(e, v)
  BY DEF DeserializeSignature, DeserializeBigInt, SetValue
<1>2. 3 \in Nat /\ 3 <= Longest
  BY Sizes DEF Longest
<1>3. Reader(e) /\ After(d, e)
  BY <1>2, VectorReads, Zenon
<1>4. ASSUME e.state = "ok" PROVE v \in Signature
  <2>1. e.value \in Seq(Scalar) /\ Len(e.value) = 3
    BY <1>2, <1>4, VectorValue, Zenon
  <2>2. [form |-> "raw", r |-> SubSeq(e.value, 1, 2), s |-> e.value[3]] \in Signature
    <3>. DEFINE w == e.value
    <3>. HIDE DEF w
    <3>. QED  BY <2>1, SignatureType DEF w
  <2>. QED  BY <1>4, <2>2, Zenon
<1>. HIDE DEF v, e
<1>. QED  BY <1>1, <1>3, <1>4, MappedReads, Zenon

\* It reads the same signature from longer bytes.
LEMMA SignatureExtends ==
  ASSUME NEW d, Reader(d), DeserializeSignature(d).state = "ok", NEW longer, Continues(d.bytes, longer)
  PROVE  DeserializeSignature(Extended(d, longer)) = Extended(DeserializeSignature(d), longer)
<1>. DEFINE e == ReadVector(d, 3)
            f == ReadVector(Extended(d, longer), 3)
            v == IF e.state = "ok" THEN [form |-> "raw", r |-> SubSeq(e.value, 1, 2), s |-> e.value[3]] ELSE e.value
            w == IF f.state = "ok" THEN [form |-> "raw", r |-> SubSeq(f.value, 1, 2), s |-> f.value[3]] ELSE f.value
<1>1. DeserializeSignature(d) = SetValue(e, v) /\ DeserializeSignature(Extended(d, longer)) = SetValue(f, w)
  BY DEF DeserializeSignature, DeserializeBigInt, SetValue
<1>2. 3 \in Nat
  BY Sizes
<1>3. Reader(e)
  BY <1>2, VectorReads, Zenon
<1>4. e.state = "ok"
  <2>. HIDE DEF e, v
  <2>. QED  BY <1>1, <1>3, ValueFields
<1>5. f = Extended(e, longer) /\ e.bytes = d.bytes
  BY <1>2, <1>4, VectorExtends, VectorReads, Zenon
<1>6. w = v
  <2>1. f.state = e.state /\ f.value = e.value
    <3>. HIDE DEF e, f, v, w
    <3>. QED  BY <1>3, <1>5, ExtendedFields, Zenon
  <2>. HIDE DEF e, f
  <2>. QED  BY <2>1, Zenon
<1>. HIDE DEF e, f, v, w
<1>7. SetValue(Extended(e, longer), v) = Extended(SetValue(e, v), longer)
  BY <1>3, ExtendedValue, Zenon
<1>. QED  BY <1>1, <1>5, <1>6, <1>7, Zenon

\* It reads back the signature that was written.
LEMMA SignatureExact ==
  ASSUME NEW d, Reader(d), NEW x \in Signature, Holds(d, SerializeSignature(x))
  PROVE  DeserializeSignature(d) = Behind(d, SerializeSignature(x), x)
<1>. DEFINE s == SerializeSignature(x)
            e == ReadVector(d, 3)
            v == IF e.state = "ok" THEN [form |-> "raw", r |-> SubSeq(e.value, 1, 2), s |-> e.value[3]] ELSE e.value
<1>1. DeserializeSignature(d) = SetValue(e, v)
  BY DEF DeserializeSignature, DeserializeBigInt, SetValue
<1>2. s \in Seq(Scalar) /\ Len(s) = 3 /\ [form |-> "raw", r |-> SubSeq(s, 1, 2), s |-> s[3]] = x
  BY OrderIsNat, SignatureBytes DEF Scalar
<1>. HIDE DEF s
<1>3. e = Behind(d, s, s)
  BY <1>2, VectorExact DEF s
<1>4. e.state = "ok" /\ e.value = s
  <2>. HIDE DEF e
  <2>. QED  BY <1>3, BehindFields DEF s
<1>5. v = x
  <2>. HIDE DEF e
  <2>. QED  BY <1>2, <1>4, Zenon
<1>. HIDE DEF e, v
<1>6. SetValue(Behind(d, s, s), x) = Behind(d, s, x)
  BY BehindValue, Zenon
<1>. QED  BY <1>1, <1>3, <1>5, <1>6, Zenon DEF s

-----------------------------------------------------------------------------
(* Commitments and proofs *)

\* Commitment::Deserialize reads a commitment or throws.
LEMMA CommitmentReads ==
  ASSUME NEW d, Reader(d)
  PROVE  Reads(d, DeserializeCommitment(d), Commitment)
<1>. DEFINE e == ReadVector(d, 2)
<1>1. DeserializeCommitment(d) = e
  BY DEF DeserializeCommitment, DeserializeBigInt
<1>2. 2 \in Nat /\ 2 <= Longest
  BY Sizes DEF Longest
<1>3. After(d, e)
  BY <1>2, VectorReads, Zenon
<1>4. ASSUME e.state = "ok" PROVE e.value \in Commitment
  <2>1. e.value \in Seq(Scalar) /\ Len(e.value) = 2
    BY <1>2, <1>4, VectorValue, Zenon
  <2>2. e.value \in [1..2 -> Scalar]
    BY <2>1, LenProperties, Zenon
  <2>. QED  BY <2>2 DEF Commitment, BigInt
<1>. QED  BY <1>1, <1>3, <1>4, Zenon DEF Reads

\* It reads the same commitment from longer bytes.
LEMMA CommitmentExtends ==
  ASSUME NEW d, Reader(d), DeserializeCommitment(d).state = "ok", NEW longer, Continues(d.bytes, longer)
  PROVE  DeserializeCommitment(Extended(d, longer)) = Extended(DeserializeCommitment(d), longer)
<1>1. \A x : DeserializeCommitment(x) = ReadVector(x, 2)
  BY DEF DeserializeCommitment, DeserializeBigInt
<1>2. 2 \in Nat
  OBVIOUS
<1>. QED  BY <1>1, <1>2, VectorExtends, Zenon

\* A commitment is two bytes.
LEMMA CommitmentBytes ==
  ASSUME NEW x \in Commitment
  PROVE  SerializeCommitment(x) = x /\ x \in Seq(Scalar) /\ Len(x) = 2
<1>1. x \in [1..2 -> Scalar] /\ 2 \in Nat
  BY DEF Commitment, BigInt
<1>. QED  BY <1>1, BigIntIsSeq DEF SerializeCommitment

\* It reads back the commitment that was written.
LEMMA CommitmentExact ==
  ASSUME NEW d, Reader(d), NEW x \in Commitment, Holds(d, SerializeCommitment(x))
  PROVE  DeserializeCommitment(d) = Behind(d, SerializeCommitment(x), x)
<1>1. SerializeCommitment(x) = x /\ Len(x) = 2
  BY CommitmentBytes, Zenon
<1>2. DeserializeCommitment(d) = ReadVector(d, 2)
  BY DEF DeserializeCommitment, DeserializeBigInt
<1>. QED  BY <1>1, <1>2, VectorExact, Zenon

-----------------------------------------------------------------------------
\* A proof as it is admitted.
ShortProof == {p \in RangeProof : Len(p) <= MaxProof}

\* RangeProof::Deserialize reads a proof that is not too long or throws.
LEMMA ProofReads ==
  ASSUME NEW d, Reader(d)
  PROVE  Reads(d, DeserializeProof(d), ShortProof)
<1>. DEFINE size == ReadU64(d)
            n == size.value
            e == ReadVector(size, n)
<1>1. After(d, size) /\ Reader(size) /\ (size.state = "ok" => n \in Nat)
  BY U64Reads, Zenon DEF Reads, After
<1>. HIDE DEF size
<1>2. CASE size.state = "ok" /\ n > MaxProof
  <2>1. DeserializeProof(d) = [size EXCEPT !.state = "throw"]
    BY <1>2, Zenon DEF DeserializeProof, size
  <2>. DEFINE x == [size EXCEPT !.state = "throw"]
  <2>2. x = [size EXCEPT !.state = "throw"]
    OBVIOUS
  <2>. HIDE DEF x
  <2>3. x.state = "throw" /\ x.bytes = size.bytes /\ Reader(x)
    BY <1>1, <2>2 DEF Reader
  <2>4. "throw" # "ok" /\ "throw" # "beyond"
    OBVIOUS
  <2>5. After(d, x)
    BY <1>1, <1>2, <2>3, <2>4, Zenon DEF After
  <2>. QED  BY <2>1, <2>2, <2>3, <2>4, <2>5, Zenon DEF Reads
<1>3. CASE size.state = "ok" /\ ~(n > MaxProof)
  <2>1. DeserializeProof(d) = e
    BY <1>3, Zenon DEF DeserializeProof, size
  <2>2. n \in Nat /\ n <= MaxProof /\ n <= Longest
    <3>1. n \in Nat /\ ~(n > MaxProof)
      BY <1>1, <1>3, Zenon
    <3>. HIDE DEF n
    <3>. QED  BY <3>1, Sizes DEF Longest
  <2>. HIDE DEF n
  <2>3. After(size, e)
    BY <1>1, <2>2, VectorReads, Zenon
  <2>4. ASSUME e.state = "ok" PROVE e.value \in ShortProof
    <3>1. e.value \in Seq(Scalar) /\ Len(e.value) = n
      BY <1>1, <2>2, <2>4, VectorValue, Zenon
    <3>. QED  BY <2>2, <3>1, Zenon DEF ShortProof, RangeProof
  <2>5. After(d, e)
    BY <1>1, <2>3, AfterTrans, Zenon
  <2>. QED  BY <2>1, <2>4, <2>5, Zenon DEF Reads
<1>4. CASE size.state # "ok"
  <2>1. DeserializeProof(d) = size
    BY <1>4, Zenon DEF DeserializeProof, ReadVector, size
  <2>. QED  BY <1>1, <1>4, <2>1, Zenon DEF Reads
<1>. QED  BY <1>2, <1>3, <1>4, Zenon

\* It reads the same proof from longer bytes.
LEMMA ProofExtends ==
  ASSUME NEW d, Reader(d), DeserializeProof(d).state = "ok", NEW longer, Continues(d.bytes, longer)
  PROVE  DeserializeProof(Extended(d, longer)) = Extended(DeserializeProof(d), longer)
<1>. DEFINE size == ReadU64(d)
            n == size.value
            size2 == ReadU64(Extended(d, longer))
<1>1. After(d, size) /\ Reader(size) /\ (size.state = "ok" => n \in Nat)
  BY U64Reads, Zenon DEF Reads, After
<1>. HIDE DEF size, size2
<1>2. size.state = "ok"
  <2>. SUFFICES ASSUME size.state # "ok" PROVE FALSE
    OBVIOUS
  <2>1. DeserializeProof(d) = size
    BY Zenon DEF DeserializeProof, ReadVector, size
  <2>. QED  BY <2>1, Zenon
<1>3. ~(n > MaxProof)
  <2>. SUFFICES ASSUME n > MaxProof PROVE FALSE
    OBVIOUS
  <2>1. DeserializeProof(d) = [size EXCEPT !.state = "throw"]
    BY <1>2, Zenon DEF DeserializeProof, size
  <2>. DEFINE x == [size EXCEPT !.state = "throw"]
  <2>2. x = [size EXCEPT !.state = "throw"]
    OBVIOUS
  <2>. HIDE DEF x
  <2>3. x.state = "throw"
    BY <1>1, <2>2 DEF Reader
  <2>4. x.state = "ok"
    BY <2>1, <2>2, Zenon
  <2>. QED  BY <2>3, <2>4
<1>4. DeserializeProof(d) = ReadVector(size, n)
  BY <1>3, Zenon DEF DeserializeProof, size
<1>5. size2 = Extended(size, longer) /\ size.bytes = d.bytes
  BY <1>1, <1>2, U64Extends, Zenon DEF size, size2, After
<1>6. size2.state = "ok" /\ size2.value = n
  BY <1>1, <1>2, <1>5, ExtendedFields, Zenon
<1>7. DeserializeProof(Extended(d, longer)) = ReadVector(size2, n)
  BY <1>3, <1>6, Zenon DEF DeserializeProof, size2
<1>8. ReadVector(Extended(size, longer), n) = Extended(ReadVector(size, n), longer)
  BY <1>1, <1>2, <1>4, <1>5, VectorExtends, Zenon
<1>. QED  BY <1>4, <1>5, <1>7, <1>8, Zenon

\* The bytes of a proof, behind its size.
LEMMA ProofBytes ==
  ASSUME NEW x \in ShortProof
  PROVE  /\ x \in Seq(Scalar) /\ Len(x) \in Nat /\ AppendU64(Len(x)) \in Seq(Scalar)
         /\ SerializeProof(x) \in Seq(Scalar) /\ Len(SerializeProof(x)) = Width + Len(x)
<1>1. x \in Seq(Scalar)
  BY DEF ShortProof, RangeProof
<1>2. Len(x) \in Nat
  BY <1>1
<1>3. AppendU64(Len(x)) \in Seq(Scalar) /\ Len(AppendU64(Len(x))) = Width
  BY <1>2, NumberRoundTrip, Zenon
<1>4. SerializeProof(x) \in Seq(Scalar) /\ Len(SerializeProof(x)) = Len(AppendU64(Len(x))) + Len(x)
  BY <1>1, <1>3, ConcatProperties, Zenon DEF SerializeProof
<1>. QED  BY <1>1, <1>2, <1>3, <1>4, Zenon

\* It reads back the proof that was written.
LEMMA ProofExact ==
  ASSUME NEW d, Reader(d), NEW x \in ShortProof, Len(x) < SizeEnd, Holds(d, SerializeProof(x))
  PROVE  DeserializeProof(d) = Behind(d, SerializeProof(x), x)
<1>. DEFINE n == Len(x)
            s == AppendU64(n)
            size == Behind(d, s, n)
<1>1. x \in Seq(Scalar) /\ n \in Nat /\ n <= MaxProof /\ s \in Seq(Scalar)
  BY ProofBytes, Zenon DEF ShortProof
<1>2. Holds(d, s \o x)
  BY Zenon DEF SerializeProof
<1>. HIDE DEF n, s
<1>3. Holds(d, s) /\ Holds(size, x) /\ Behind(size, x, x) = Behind(d, s \o x, x)
  BY <1>1, <1>2, HoldsParts
<1>4. ReadU64(d) = size
  BY <1>1, <1>3, U64Exact, Zenon DEF s, n
<1>5. size.state = "ok" /\ size.value = n /\ Reader(size)
  BY <1>3, BehindFields
<1>6. ~(n > MaxProof)
  BY <1>1, Sizes
<1>. HIDE DEF size
<1>7. DeserializeProof(d) = ReadVector(size, n)
  BY <1>4, <1>5, <1>6, Zenon DEF DeserializeProof
<1>8. ReadVector(size, n) = Behind(size, x, x)
  BY <1>3, <1>5, VectorExact, Zenon DEF n
<1>. QED  BY <1>3, <1>7, <1>8, Zenon DEF SerializeProof, s, n

-----------------------------------------------------------------------------
(* Inputs, outputs and kernels *)

\* An output as it is admitted.
ShortOutput == {o \in Output : o.proof \in ShortProof}

\* Input::Deserialize reads an input or throws.
LEMMA InputReads ==
  ASSUME NEW d, Reader(d)
  PROVE  Reads(d, DeserializeInput(d), Input)
<1>. DEFINE e1 == Read(d)
            e2 == DeserializeCommitment(e1)
            v == [features |-> e1.value, commitment |-> e2.value]
<1>1. DeserializeInput(d) = SetValue(e2, v)
  BY DEF DeserializeInput, SetValue
<1>2. Reads(d, e1, Scalar) /\ Reader(e1)
  BY ReadReads, Zenon DEF Reads, After
<1>3. Reads(e1, e2, Commitment) /\ Reader(e2)
  BY <1>2, CommitmentReads, Zenon DEF Reads, After
<1>. HIDE DEF e1, e2
<1>4. After(d, e2)
  BY <1>2, <1>3, AfterTrans, Zenon DEF Reads
<1>5. ASSUME e2.state = "ok" PROVE v \in Input
  <2>1. e1.state = "ok" /\ e2.state = "ok"
    BY <1>2, <1>3, <1>5, AfterOk, Zenon DEF Reads
  <2>2. e1.value \in Scalar /\ e2.value \in Commitment
    BY <1>2, <1>3, <2>1, Zenon DEF Reads
  <2>. QED  BY <2>2 DEF Input
<1>. HIDE DEF v
<1>. QED  BY <1>1, <1>3, <1>4, <1>5, MappedReads, Zenon

\* It reads the same input from longer bytes.
LEMMA InputExtends ==
  ASSUME NEW d, Reader(d), DeserializeInput(d).state = "ok", NEW longer, Continues(d.bytes, longer)
  PROVE  DeserializeInput(Extended(d, longer)) = Extended(DeserializeInput(d), longer)
<1>. DEFINE e1 == Read(d)
            e2 == DeserializeCommitment(e1)
            v == [features |-> e1.value, commitment |-> e2.value]
            f1 == Read(Extended(d, longer))
            f2 == DeserializeCommitment(f1)
            w == [features |-> f1.value, commitment |-> f2.value]
<1>1. DeserializeInput(d) = SetValue(e2, v) /\ DeserializeInput(Extended(d, longer)) = SetValue(f2, w)
  BY DEF DeserializeInput, SetValue
<1>2. After(d, e1) /\ Reader(e1)
  BY ReadReads, Zenon DEF Reads, After
<1>3. After(e1, e2) /\ Reader(e2)
  BY <1>2, CommitmentReads, Zenon DEF Reads, After
<1>4. e2.state = "ok"
  <2>. HIDE DEF e1, e2, v
  <2>. QED  BY <1>1, <1>3, ValueFields
<1>5. e1.state = "ok" /\ e2.state = "ok"
  <2>. HIDE DEF e1, e2
  <2>. QED  BY <1>2, <1>3, <1>4, AfterOk, Zenon
<1>6. e1.bytes = d.bytes /\ e2.bytes = d.bytes
  <2>. HIDE DEF e1, e2
  <2>. QED  BY <1>2, <1>3, Zenon DEF After
<1>7. f1 = Extended(e1, longer)
  BY <1>5, <1>6, ReadExtends, Zenon
<1>8. f2 = Extended(e2, longer)
  <2>1. DeserializeCommitment(Extended(e1, longer)) = Extended(DeserializeCommitment(e1), longer)
    <3>. HIDE DEF e1, f1
    <3>. QED  BY <1>5, <1>6, <1>2, <1>7, CommitmentExtends, Zenon
  <2>. QED  BY <1>7, <2>1, Zenon
<1>. HIDE DEF e1, e2, f1, f2
<1>9. f1.value = e1.value /\ f2.value = e2.value
  BY <1>2, <1>3, <1>6, <1>7, <1>8, ExtendedFields, Zenon
<1>10. w = v
  BY <1>9, Zenon
<1>. HIDE DEF v, w
<1>11. SetValue(Extended(e2, longer), v) = Extended(SetValue(e2, v), longer)
  BY <1>3, ExtendedValue, Zenon
<1>. QED  BY <1>1, <1>8, <1>10, <1>11, Zenon

\* The bytes of an input.
LEMMA InputBytes ==
  ASSUME NEW x \in Input
  PROVE  SerializeInput(x) \in Seq(Scalar) /\ Len(SerializeInput(x)) = 3
<1>. DEFINE s1 == <<x.features>>
            s2 == SerializeCommitment(x.commitment)
<1>1. x.features \in Scalar /\ x.commitment \in Commitment
  BY DEF Input
<1>2. s1 \in Seq(Scalar) /\ Len(s1) = 1
  BY <1>1
<1>3. s2 \in Seq(Scalar) /\ Len(s2) = 2
  BY <1>1, CommitmentBytes, Zenon
<1>. HIDE DEF s1, s2
<1>4. s1 \o s2 \in Seq(Scalar) /\ Len(s1 \o s2) = Len(s1) + Len(s2)
  BY <1>2, <1>3, ConcatProperties, Zenon
<1>. QED  BY <1>2, <1>3, <1>4 DEF SerializeInput, s1, s2

\* It reads back the input that was written.
LEMMA InputExact ==
  ASSUME NEW d, Reader(d), NEW x \in Input, Holds(d, SerializeInput(x))
  PROVE  DeserializeInput(d) = Behind(d, SerializeInput(x), x)
<1>. DEFINE s1 == <<x.features>>
            s2 == SerializeCommitment(x.commitment)
            e1 == Behind(d, s1, x.features)
            e2 == Behind(e1, s2, x.commitment)
<1>1. x.features \in Scalar /\ x.commitment \in Commitment
      /\ x = [features |-> x.features, commitment |-> x.commitment]
  BY DEF Input
<1>2. s1 \in Seq(Scalar) /\ s2 \in Seq(Scalar)
  <2>1. s1 \in Seq(Scalar)
    BY <1>1
  <2>2. s2 \in Seq(Scalar)
    BY <1>1, CommitmentBytes, Zenon
  <2>. QED  BY <2>1, <2>2
<1>. DEFINE t == s1 \o s2
<1>3. t \in Seq(Scalar) /\ SerializeInput(x) = t
  BY <1>2, ConcatProperties, Zenon DEF SerializeInput
<1>. HIDE DEF s1, s2
<1>4. Holds(d, t)
  BY <1>3, Zenon
<1>5. Holds(d, s1) /\ Holds(e1, s2) /\ \A w : Behind(e1, s2, w) = Behind(d, t, w)
  BY <1>2, <1>4, HoldsParts
<1>6. Reader(e1)
  BY <1>5, BehindFields, Zenon
<1>7. Read(d) = e1 /\ e1.value = x.features
  BY <1>1, <1>5, ReadExact, BehindFields DEF s1
<1>. HIDE DEF e1
<1>8. Reader(e2) /\ e2.value = x.commitment
  BY <1>5, <1>6, BehindFields
<1>9. DeserializeCommitment(e1) = e2
  BY <1>1, <1>5, <1>6, CommitmentExact, Zenon DEF s2
<1>10. e2 = Behind(d, t, x.commitment)
  BY <1>5, Zenon
<1>. HIDE DEF e2
<1>11. DeserializeInput(d) = SetValue(e2, x)
  BY <1>1, <1>7, <1>8, <1>9, Zenon DEF DeserializeInput, SetValue
<1>12. SetValue(e2, x) = Behind(d, t, x)
  BY <1>10, BehindValue, Zenon
<1>. QED  BY <1>3, <1>11, <1>12, Zenon

\* Output::Deserialize reads an output or throws.
LEMMA OutputReads ==
  ASSUME NEW d, Reader(d)
  PROVE  Reads(d, DeserializeOutput(d), ShortOutput)
<1>. DEFINE e1 == Read(d)
            e2 == DeserializeCommitment(e1)
            e3 == DeserializeProof(e2)
            v == [features |-> e1.value, commitment |-> e2.value, proof |-> e3.value]
<1>1. DeserializeOutput(d) = SetValue(e3, v)
  BY DEF DeserializeOutput, SetValue
<1>2. Reads(d, e1, Scalar) /\ Reader(e1)
  BY ReadReads, Zenon DEF Reads, After
<1>3. Reads(e1, e2, Commitment) /\ Reader(e2)
  BY <1>2, CommitmentReads, Zenon DEF Reads, After
<1>4. Reads(e2, e3, ShortProof) /\ Reader(e3)
  BY <1>3, ProofReads, Zenon DEF Reads, After
<1>. HIDE DEF e1, e2, e3
<1>5. After(d, e3)
  BY <1>2, <1>3, <1>4, AfterTrans, Zenon DEF Reads
<1>6. ASSUME e3.state = "ok" PROVE v \in ShortOutput
  <2>1. e1.state = "ok" /\ e2.state = "ok" /\ e3.state = "ok"
    BY <1>2, <1>3, <1>4, <1>6, AfterOk, Zenon DEF Reads
  <2>2. e1.value \in Scalar /\ e2.value \in Commitment /\ e3.value \in ShortProof
    BY <1>2, <1>3, <1>4, <2>1, Zenon DEF Reads
  <2>. QED  BY <2>2 DEF ShortOutput, ShortProof, Output
<1>. HIDE DEF v
<1>. QED  BY <1>1, <1>4, <1>5, <1>6, MappedReads, Zenon

\* It reads the same output from longer bytes.
LEMMA OutputExtends ==
  ASSUME NEW d, Reader(d), DeserializeOutput(d).state = "ok", NEW longer, Continues(d.bytes, longer)
  PROVE  DeserializeOutput(Extended(d, longer)) = Extended(DeserializeOutput(d), longer)
<1>. DEFINE e1 == Read(d)
            e2 == DeserializeCommitment(e1)
            e3 == DeserializeProof(e2)
            v == [features |-> e1.value, commitment |-> e2.value, proof |-> e3.value]
            f1 == Read(Extended(d, longer))
            f2 == DeserializeCommitment(f1)
            f3 == DeserializeProof(f2)
            w == [features |-> f1.value, commitment |-> f2.value, proof |-> f3.value]
<1>1. DeserializeOutput(d) = SetValue(e3, v) /\ DeserializeOutput(Extended(d, longer)) = SetValue(f3, w)
  BY DEF DeserializeOutput, SetValue
<1>2. After(d, e1) /\ Reader(e1)
  BY ReadReads, Zenon DEF Reads, After
<1>3. After(e1, e2) /\ Reader(e2)
  BY <1>2, CommitmentReads, Zenon DEF Reads, After
<1>4. After(e2, e3) /\ Reader(e3)
  BY <1>3, ProofReads, Zenon DEF Reads, After
<1>5. e3.state = "ok"
  <2>. HIDE DEF e1, e2, e3, v
  <2>. QED  BY <1>1, <1>4, ValueFields
<1>6. e1.state = "ok" /\ e2.state = "ok" /\ e3.state = "ok"
  <2>. HIDE DEF e1, e2, e3
  <2>. QED  BY <1>2, <1>3, <1>4, <1>5, AfterOk, Zenon
<1>7. e1.bytes = d.bytes /\ e2.bytes = d.bytes /\ e3.bytes = d.bytes
  <2>. HIDE DEF e1, e2, e3
  <2>. QED  BY <1>2, <1>3, <1>4, Zenon DEF After
<1>8. f1 = Extended(e1, longer)
  BY <1>6, <1>7, ReadExtends, Zenon
<1>9. f2 = Extended(e2, longer)
  <2>1. DeserializeCommitment(Extended(e1, longer)) = Extended(DeserializeCommitment(e1), longer)
    <3>. HIDE DEF e1, f1
    <3>. QED  BY <1>6, <1>7, <1>2, <1>8, CommitmentExtends, Zenon
  <2>. QED  BY <1>8, <2>1, Zenon
<1>10. f3 = Extended(e3, longer)
  <2>1. DeserializeProof(Extended(e2, longer)) = Extended(DeserializeProof(e2), longer)
    <3>. HIDE DEF e1, e2, f1, f2
    <3>. QED  BY <1>6, <1>7, <1>3, <1>9, ProofExtends, Zenon
  <2>. QED  BY <1>9, <2>1, Zenon
<1>. HIDE DEF e1, e2, e3, f1, f2, f3
<1>11. f1.value = e1.value /\ f2.value = e2.value /\ f3.value = e3.value
  BY <1>2, <1>3, <1>4, <1>7, <1>8, <1>9, <1>10, ExtendedFields, Zenon
<1>12. w = v
  BY <1>11, Zenon
<1>. HIDE DEF v, w
<1>13. SetValue(Extended(e3, longer), v) = Extended(SetValue(e3, v), longer)
  BY <1>4, ExtendedValue, Zenon
<1>. QED  BY <1>1, <1>10, <1>12, <1>13, Zenon

\* The bytes of an output.
LEMMA OutputBytes ==
  ASSUME NEW x \in ShortOutput
  PROVE  SerializeOutput(x) \in Seq(Scalar) /\ Len(SerializeOutput(x)) = Width + Len(x.proof) + 3
<1>. DEFINE s1 == <<x.features>>
            s2 == SerializeCommitment(x.commitment)
            s3 == SerializeProof(x.proof)
<1>1. x.features \in Scalar /\ x.commitment \in Commitment /\ x.proof \in ShortProof
  BY DEF ShortOutput, ShortProof, Output
<1>2. s1 \in Seq(Scalar) /\ Len(s1) = 1
  BY <1>1
<1>3. s2 \in Seq(Scalar) /\ Len(s2) = 2
  BY <1>1, CommitmentBytes, Zenon
<1>4. s3 \in Seq(Scalar) /\ Len(s3) = Width + Len(x.proof) /\ Len(x.proof) \in Nat
  BY <1>1, ProofBytes, Zenon
<1>. HIDE DEF s1, s2, s3
<1>5. s1 \o s2 \in Seq(Scalar) /\ Len(s1 \o s2) = Len(s1) + Len(s2)
  BY <1>2, <1>3, ConcatProperties, Zenon
<1>. DEFINE t == s1 \o s2
<1>. HIDE DEF t
<1>6. t \o s3 \in Seq(Scalar) /\ Len(t \o s3) = Len(t) + Len(s3)
  BY <1>4, <1>5, ConcatProperties, Zenon DEF t
<1>7. SerializeOutput(x) = t \o s3 /\ Len(t) = 3
  BY <1>2, <1>3, <1>5 DEF SerializeOutput, s1, s2, s3, t
<1>. QED  BY <1>4, <1>6, <1>7, Sizes

\* It reads back the output that was written.
LEMMA OutputExact ==
  ASSUME NEW d, Reader(d), NEW x \in ShortOutput, Len(x.proof) < SizeEnd, Holds(d, SerializeOutput(x))
  PROVE  DeserializeOutput(d) = Behind(d, SerializeOutput(x), x)
<1>. DEFINE s1 == <<x.features>>
            s2 == SerializeCommitment(x.commitment)
            s3 == SerializeProof(x.proof)
            e1 == Behind(d, s1, x.features)
            e2 == Behind(e1, s2, x.commitment)
            e3 == Behind(e2, s3, x.proof)
<1>1. x.features \in Scalar /\ x.commitment \in Commitment /\ x.proof \in ShortProof
      /\ x = [features |-> x.features, commitment |-> x.commitment, proof |-> x.proof]
  BY DEF ShortOutput, ShortProof, Output
<1>2. s1 \in Seq(Scalar) /\ s2 \in Seq(Scalar) /\ s3 \in Seq(Scalar)
  <2>1. s1 \in Seq(Scalar)
    BY <1>1
  <2>2. s2 \in Seq(Scalar)
    BY <1>1, CommitmentBytes, Zenon
  <2>3. s3 \in Seq(Scalar)
    BY <1>1, ProofBytes, Zenon
  <2>. QED  BY <2>1, <2>2, <2>3
<1>. DEFINE t == s1 \o s2
<1>3. t \in Seq(Scalar) /\ SerializeOutput(x) = t \o s3
  BY <1>2, ConcatProperties, Zenon DEF SerializeOutput
<1>. HIDE DEF s1, s2, s3
<1>4. Holds(d, t) /\ Holds(Behind(d, t, x.commitment), s3)
      /\ \A w : Behind(Behind(d, t, x.commitment), s3, w) = Behind(d, SerializeOutput(x), w)
  <2>. HIDE DEF t
  <2>1. Holds(d, t \o s3)
    BY <1>3, Zenon
  <2>. QED  BY <1>2, <1>3, <2>1, HoldsParts
<1>5. Holds(d, s1) /\ Holds(e1, s2) /\ \A w : Behind(e1, s2, w) = Behind(d, t, w)
  BY <1>2, <1>4, HoldsParts
<1>6. Reader(e1)
  BY <1>5, BehindFields, Zenon
<1>7. Read(d) = e1 /\ e1.value = x.features
  BY <1>1, <1>5, ReadExact, BehindFields DEF s1
<1>. HIDE DEF e1
<1>8. Reader(e2) /\ e2.value = x.commitment
  BY <1>5, <1>6, BehindFields
<1>9. DeserializeCommitment(e1) = e2
  BY <1>1, <1>5, <1>6, CommitmentExact, Zenon DEF s2
<1>10. e2 = Behind(d, t, x.commitment)
  BY <1>5, Zenon
<1>. HIDE DEF e2
<1>11. Holds(e2, s3) /\ \A w : Behind(e2, s3, w) = Behind(d, SerializeOutput(x), w)
  BY <1>4, <1>10, Zenon
<1>12. e3.value = x.proof /\ DeserializeProof(e2) = e3
  BY <1>1, <1>8, <1>11, ProofExact, BehindFields DEF s3
<1>13. e3 = Behind(d, SerializeOutput(x), x.proof)
  BY <1>11, Zenon
<1>. HIDE DEF e3
<1>14. DeserializeOutput(d) = SetValue(e3, x)
  BY <1>1, <1>7, <1>8, <1>9, <1>12, Zenon DEF DeserializeOutput, SetValue
<1>15. SetValue(e3, x) = Behind(d, SerializeOutput(x), x)
  BY <1>13, BehindValue, Zenon
<1>. QED  BY <1>14, <1>15, Zenon

\* The kernel factory reads a kernel or throws.
LEMMA KernelReads ==
  ASSUME NEW d, Reader(d)
  PROVE  Reads(d, DeserializeKernel(d), Kernel)
<1>. DEFINE e1 == Read(d)
            e2 == DeserializeCommitment(e1)
            e3 == DeserializeSignature(e2)
            v == [fee |-> e1.value, excess |-> e2.value, signature |-> e3.value]
<1>1. DeserializeKernel(d) = SetValue(e3, v)
  BY DEF DeserializeKernel, SetValue
<1>2. Reads(d, e1, Scalar) /\ Reader(e1)
  BY ReadReads, Zenon DEF Reads, After
<1>3. Reads(e1, e2, Commitment) /\ Reader(e2)
  BY <1>2, CommitmentReads, Zenon DEF Reads, After
<1>4. Reads(e2, e3, Signature) /\ Reader(e3)
  BY <1>3, SignatureReads, Zenon DEF Reads, After
<1>. HIDE DEF e1, e2, e3
<1>5. After(d, e3)
  BY <1>2, <1>3, <1>4, AfterTrans, Zenon DEF Reads
<1>6. ASSUME e3.state = "ok" PROVE v \in Kernel
  <2>1. e1.state = "ok" /\ e2.state = "ok" /\ e3.state = "ok"
    BY <1>2, <1>3, <1>4, <1>6, AfterOk, Zenon DEF Reads
  <2>2. e1.value \in Scalar /\ e2.value \in Commitment /\ e3.value \in Signature
    BY <1>2, <1>3, <1>4, <2>1, Zenon DEF Reads
  <2>. QED  BY <2>2 DEF Kernel
<1>. HIDE DEF v
<1>. QED  BY <1>1, <1>4, <1>5, <1>6, MappedReads, Zenon

\* It reads the same kernel from longer bytes.
LEMMA KernelExtends ==
  ASSUME NEW d, Reader(d), DeserializeKernel(d).state = "ok", NEW longer, Continues(d.bytes, longer)
  PROVE  DeserializeKernel(Extended(d, longer)) = Extended(DeserializeKernel(d), longer)
<1>. DEFINE e1 == Read(d)
            e2 == DeserializeCommitment(e1)
            e3 == DeserializeSignature(e2)
            v == [fee |-> e1.value, excess |-> e2.value, signature |-> e3.value]
            f1 == Read(Extended(d, longer))
            f2 == DeserializeCommitment(f1)
            f3 == DeserializeSignature(f2)
            w == [fee |-> f1.value, excess |-> f2.value, signature |-> f3.value]
<1>1. DeserializeKernel(d) = SetValue(e3, v) /\ DeserializeKernel(Extended(d, longer)) = SetValue(f3, w)
  BY DEF DeserializeKernel, SetValue
<1>2. After(d, e1) /\ Reader(e1)
  BY ReadReads, Zenon DEF Reads, After
<1>3. After(e1, e2) /\ Reader(e2)
  BY <1>2, CommitmentReads, Zenon DEF Reads, After
<1>4. After(e2, e3) /\ Reader(e3)
  BY <1>3, SignatureReads, Zenon DEF Reads, After
<1>5. e3.state = "ok"
  <2>. HIDE DEF e1, e2, e3, v
  <2>. QED  BY <1>1, <1>4, ValueFields
<1>6. e1.state = "ok" /\ e2.state = "ok" /\ e3.state = "ok"
  <2>. HIDE DEF e1, e2, e3
  <2>. QED  BY <1>2, <1>3, <1>4, <1>5, AfterOk, Zenon
<1>7. e1.bytes = d.bytes /\ e2.bytes = d.bytes /\ e3.bytes = d.bytes
  <2>. HIDE DEF e1, e2, e3
  <2>. QED  BY <1>2, <1>3, <1>4, Zenon DEF After
<1>8. f1 = Extended(e1, longer)
  BY <1>6, <1>7, ReadExtends, Zenon
<1>9. f2 = Extended(e2, longer)
  <2>1. DeserializeCommitment(Extended(e1, longer)) = Extended(DeserializeCommitment(e1), longer)
    <3>. HIDE DEF e1, f1
    <3>. QED  BY <1>6, <1>7, <1>2, <1>8, CommitmentExtends, Zenon
  <2>. QED  BY <1>8, <2>1, Zenon
<1>10. f3 = Extended(e3, longer)
  <2>1. DeserializeSignature(Extended(e2, longer)) = Extended(DeserializeSignature(e2), longer)
    <3>. HIDE DEF e1, e2, f1, f2
    <3>. QED  BY <1>6, <1>7, <1>3, <1>9, SignatureExtends, Zenon
  <2>. QED  BY <1>9, <2>1, Zenon
<1>. HIDE DEF e1, e2, e3, f1, f2, f3
<1>11. f1.value = e1.value /\ f2.value = e2.value /\ f3.value = e3.value
  BY <1>2, <1>3, <1>4, <1>7, <1>8, <1>9, <1>10, ExtendedFields, Zenon
<1>12. w = v
  BY <1>11, Zenon
<1>. HIDE DEF v, w
<1>13. SetValue(Extended(e3, longer), v) = Extended(SetValue(e3, v), longer)
  BY <1>4, ExtendedValue, Zenon
<1>. QED  BY <1>1, <1>10, <1>12, <1>13, Zenon

\* The bytes of a kernel.
LEMMA KernelBytes ==
  ASSUME NEW x \in Kernel
  PROVE  SerializeKernel(x) \in Seq(Scalar) /\ Len(SerializeKernel(x)) = 6
<1>. DEFINE s1 == <<x.fee>>
            s2 == SerializeCommitment(x.excess)
            s3 == SerializeSignature(x.signature)
<1>1. x.fee \in Scalar /\ x.excess \in Commitment /\ x.signature \in Signature
  BY DEF Kernel
<1>2. s1 \in Seq(Scalar) /\ Len(s1) = 1
  BY <1>1
<1>3. s2 \in Seq(Scalar) /\ Len(s2) = 2
  BY <1>1, CommitmentBytes, Zenon
<1>4. s3 \in Seq(Scalar) /\ Len(s3) = 3
  BY <1>1, SignatureBytes, Zenon
<1>. HIDE DEF s1, s2, s3
<1>5. s1 \o s2 \in Seq(Scalar) /\ Len(s1 \o s2) = Len(s1) + Len(s2)
  BY <1>2, <1>3, ConcatProperties, Zenon
<1>. DEFINE t == s1 \o s2
<1>. HIDE DEF t
<1>6. t \o s3 \in Seq(Scalar) /\ Len(t \o s3) = Len(t) + Len(s3)
  BY <1>4, <1>5, ConcatProperties, Zenon DEF t
<1>7. SerializeKernel(x) = t \o s3 /\ Len(t) = 3
  BY <1>2, <1>3, <1>5 DEF SerializeKernel, s1, s2, s3, t
<1>. QED  BY <1>4, <1>6, <1>7, Sizes

\* It reads back the kernel that was written.
LEMMA KernelExact ==
  ASSUME NEW d, Reader(d), NEW x \in Kernel, Holds(d, SerializeKernel(x))
  PROVE  DeserializeKernel(d) = Behind(d, SerializeKernel(x), x)
<1>. DEFINE s1 == <<x.fee>>
            s2 == SerializeCommitment(x.excess)
            s3 == SerializeSignature(x.signature)
            e1 == Behind(d, s1, x.fee)
            e2 == Behind(e1, s2, x.excess)
            e3 == Behind(e2, s3, x.signature)
<1>1. x.fee \in Scalar /\ x.excess \in Commitment /\ x.signature \in Signature
      /\ x = [fee |-> x.fee, excess |-> x.excess, signature |-> x.signature]
  BY DEF Kernel
<1>2. s1 \in Seq(Scalar) /\ s2 \in Seq(Scalar) /\ s3 \in Seq(Scalar)
  <2>1. s1 \in Seq(Scalar)
    BY <1>1
  <2>2. s2 \in Seq(Scalar)
    BY <1>1, CommitmentBytes, Zenon
  <2>3. s3 \in Seq(Scalar)
    BY <1>1, SignatureBytes, Zenon
  <2>. QED  BY <2>1, <2>2, <2>3
<1>. DEFINE t == s1 \o s2
<1>3. t \in Seq(Scalar) /\ SerializeKernel(x) = t \o s3
  BY <1>2, ConcatProperties, Zenon DEF SerializeKernel
<1>. HIDE DEF s1, s2, s3
<1>4. Holds(d, t) /\ Holds(Behind(d, t, x.excess), s3)
      /\ \A w : Behind(Behind(d, t, x.excess), s3, w) = Behind(d, SerializeKernel(x), w)
  <2>. HIDE DEF t
  <2>1. Holds(d, t \o s3)
    BY <1>3, Zenon
  <2>. QED  BY <1>2, <1>3, <2>1, HoldsParts
<1>5. Holds(d, s1) /\ Holds(e1, s2) /\ \A w : Behind(e1, s2, w) = Behind(d, t, w)
  BY <1>2, <1>4, HoldsParts
<1>6. Reader(e1)
  BY <1>5, BehindFields, Zenon
<1>7. Read(d) = e1 /\ e1.value = x.fee
  BY <1>1, <1>5, ReadExact, BehindFields DEF s1
<1>. HIDE DEF e1
<1>8. Reader(e2) /\ e2.value = x.excess
  BY <1>5, <1>6, BehindFields
<1>9. DeserializeCommitment(e1) = e2
  BY <1>1, <1>5, <1>6, CommitmentExact, Zenon DEF s2
<1>10. e2 = Behind(d, t, x.excess)
  BY <1>5, Zenon
<1>. HIDE DEF e2
<1>11. Holds(e2, s3) /\ \A w : Behind(e2, s3, w) = Behind(d, SerializeKernel(x), w)
  BY <1>4, <1>10, Zenon
<1>12. e3.value = x.signature /\ DeserializeSignature(e2) = e3
  BY <1>1, <1>8, <1>11, SignatureExact, BehindFields DEF s3
<1>13. e3 = Behind(d, SerializeKernel(x), x.signature)
  BY <1>11, Zenon
<1>. HIDE DEF e3
<1>14. DeserializeKernel(d) = SetValue(e3, x)
  BY <1>1, <1>7, <1>8, <1>9, <1>12, Zenon DEF DeserializeKernel, SetValue
<1>15. SetValue(e3, x) = Behind(d, SerializeKernel(x), x)
  BY <1>13, BehindValue, Zenon
<1>. QED  BY <1>14, <1>15, Zenon

-----------------------------------------------------------------------------
(* Lists of items: what is read *)

\* What an item of a kind is.
Kinds == {"input", "output", "kernel"}
ItemType(kind) == IF kind = "input" THEN Input ELSE IF kind = "output" THEN ShortOutput ELSE Kernel

\* One round of the loop.
NextItem(kind, b) ==
  IF b.state # "ok" THEN b
  ELSE SetValue(DeserializeItem(kind, b), Append(b.value, DeserializeItem(kind, b).value))

\* g holds the rounds of the loop over num items.
Rounds(kind, d, num, g) ==
  /\ g = [i \in 0..num |-> g[i]]
  /\ g[0] = SetValue(d, <<>>)
  /\ \A i \in 1..num : g[i] = NextItem(kind, g[i - 1])

\* An item of each kind is read, or an exception thrown.
LEMMA ItemReads ==
  ASSUME NEW d, Reader(d), NEW kind \in Kinds
  PROVE  Reads(d, DeserializeItem(kind, d), ItemType(kind))
<1>1. CASE kind = "input"
  BY <1>1, InputReads DEF DeserializeItem, ItemType
<1>2. CASE kind = "output"
  BY <1>2, OutputReads DEF DeserializeItem, ItemType
<1>3. CASE kind = "kernel"
  BY <1>3, KernelReads DEF DeserializeItem, ItemType
<1>. QED  BY <1>1, <1>2, <1>3, Zenon DEF Kinds

\* The same item is read from longer bytes.
LEMMA ItemExtends ==
  ASSUME NEW d, Reader(d), NEW kind \in Kinds, DeserializeItem(kind, d).state = "ok",
         NEW longer, Continues(d.bytes, longer)
  PROVE  DeserializeItem(kind, Extended(d, longer)) = Extended(DeserializeItem(kind, d), longer)
<1>1. CASE kind = "input"
  <2>1. \A x : DeserializeItem(kind, x) = DeserializeInput(x)
    BY <1>1 DEF DeserializeItem
  <2>. QED  BY <2>1, InputExtends, Zenon
<1>2. CASE kind = "output"
  <2>1. \A x : DeserializeItem(kind, x) = DeserializeOutput(x)
    BY <1>2 DEF DeserializeItem
  <2>. QED  BY <2>1, OutputExtends, Zenon
<1>3. CASE kind = "kernel"
  <2>1. \A x : DeserializeItem(kind, x) = DeserializeKernel(x)
    BY <1>3 DEF DeserializeItem
  <2>. QED  BY <2>1, KernelExtends, Zenon
<1>. QED  BY <1>1, <1>2, <1>3, Zenon DEF Kinds

\* The function that DeserializeItems chooses exists.
LEMMA RoundsExist ==
  ASSUME NEW kind, NEW d, NEW num \in Nat
  PROVE  \E g : Rounds(kind, d, num, g)
<1>. DEFINE S == {n \in Nat : \E g : Rounds(kind, d, n, g)}
<1>1. 0 \in S
  <2>. DEFINE g == [i \in 0..0 |-> SetValue(d, <<>>)]
  <2>1. g = [i \in 0..0 |-> g[i]] /\ g[0] = SetValue(d, <<>>) /\ \A i \in 1..0 : FALSE
    OBVIOUS
  <2>. HIDE DEF g
  <2>. QED  BY <2>1, Zenon DEF Rounds
<1>2. ASSUME NEW n \in Nat, n \in S PROVE n + 1 \in S
  <2>1. PICK f : Rounds(kind, d, n, f)
    BY <1>2
  <2>. DEFINE g == [i \in 0..(n + 1) |-> IF i = n + 1 THEN NextItem(kind, f[n]) ELSE f[i]]
  <2>2. g = [i \in 0..(n + 1) |-> g[i]]
    OBVIOUS
  <2>3. \A i \in 0..n : g[i] = f[i]
    OBVIOUS
  <2>4. g[n + 1] = NextItem(kind, f[n])
    OBVIOUS
  <2>. HIDE DEF g
  <2>5. g[0] = SetValue(d, <<>>)
    BY <2>1, <2>3 DEF Rounds
  <2>6. ASSUME NEW i \in 1..(n + 1) PROVE g[i] = NextItem(kind, g[i - 1])
    <3>1. CASE i = n + 1
      BY <2>3, <2>4, <3>1
    <3>2. CASE i # n + 1
      <4>1. i \in 1..n /\ i \in 0..n /\ i - 1 \in 0..n
        BY <3>2
      <4>. QED  BY <2>1, <2>3, <4>1, Zenon DEF Rounds
    <3>. QED  BY <3>1, <3>2
  <2>7. Rounds(kind, d, n + 1, g)
    BY <2>2, <2>5, <2>6, Zenon DEF Rounds
  <2>8. n + 1 \in Nat
    OBVIOUS
  <2>9. \E h : Rounds(kind, d, n + 1, h)
    BY <2>7, Zenon
  <2>. QED  BY <2>8, <2>9, Zenon
<1>3. \A n \in Nat : n \in S
  <2>. HIDE DEF S
  <2>. QED  BY <1>1, <1>2, InductionOver, Zenon
<1>. QED  BY <1>3, Zenon

\* The recursive function of DeserializeItems holds the rounds.
LEMMA ItemsUnfold ==
  ASSUME NEW kind, NEW d, NEW num \in Nat
  PROVE  \E g : Rounds(kind, d, num, g) /\ DeserializeItems(kind, d, num) = g[num]
<1>. DEFINE Body(f) ==
       [i \in 0..num |-> IF i = 0 THEN SetValue(d, <<>>) ELSE NextItem(kind, f[i - 1])]
     read == CHOOSE f : f = Body(f)
<1>1. PICK g : Rounds(kind, d, num, g)
  BY RoundsExist, Zenon
<1>2. g = Body(g)
  <2>1. \A i \in 0..num : g[i] = IF i = 0 THEN SetValue(d, <<>>) ELSE NextItem(kind, g[i - 1])
    <3>. TAKE i \in 0..num
    <3>1. i # 0 => i \in 1..num
      OBVIOUS
    <3>. QED  BY <1>1, <3>1, Zenon DEF Rounds
  <2>2. Body(g) = [i \in 0..num |-> g[i]]
    BY <2>1, Zenon
  <2>. HIDE DEF Body
  <2>. QED  BY <1>1, <2>2, Zenon DEF Rounds
<1>3. read = Body(read)
  <2>. HIDE DEF Body
  <2>. QED  BY <1>2, Zenon
<1>4. DeserializeItems(kind, d, num) = read[num]
  BY DEF DeserializeItems, NextItem, SetValue
<1>. HIDE DEF read
<1>5. Rounds(kind, d, num, read)
  <2>1. read = [i \in 0..num |-> read[i]]
    BY <1>3
  <2>2. read[0] = SetValue(d, <<>>)
    BY <1>3
  <2>3. \A i \in 1..num : read[i] = NextItem(kind, read[i - 1])
    <3>. TAKE i \in 1..num
    <3>1. i \in 0..num /\ i # 0
      OBVIOUS
    <3>. QED  BY <1>3, <3>1, Zenon
  <2>. QED  BY <2>1, <2>2, <2>3, Zenon DEF Rounds
<1>. QED  BY <1>4, <1>5, Zenon

\* A round keeps what was read and adds an item.
LEMMA NextItemReads ==
  ASSUME NEW kind \in Kinds, NEW d, NEW b, After(d, b), b.state = "ok" => b.value \in Seq(ItemType(kind))
  PROVE  After(d, NextItem(kind, b)) /\ (NextItem(kind, b).state = "ok" => NextItem(kind, b).value \in Seq(ItemType(kind)))
<1>1. CASE b.state # "ok"
  BY <1>1, Zenon DEF NextItem
<1>2. CASE b.state = "ok"
  <2>. DEFINE item == DeserializeItem(kind, b)
              v == Append(b.value, item.value)
  <2>1. NextItem(kind, b) = SetValue(item, v)
    BY <1>2, Zenon DEF NextItem
  <2>2. Reads(b, item, ItemType(kind)) /\ Reader(item)
    BY ItemReads, Zenon DEF After, Reads
  <2>. HIDE DEF item
  <2>3. After(d, item)
    BY <2>2, AfterTrans, Zenon DEF Reads
  <2>4. ASSUME item.state = "ok" PROVE v \in Seq(ItemType(kind))
    <3>1. item.value \in ItemType(kind) /\ b.value \in Seq(ItemType(kind))
      BY <1>2, <2>2, <2>4, Zenon DEF Reads
    <3>. QED  BY <3>1, AppendProperties, Zenon
  <2>. HIDE DEF v
  <2>5. Reads(d, SetValue(item, v), Seq(ItemType(kind)))
    BY <2>2, <2>3, <2>4, MappedReads, Zenon
  <2>. QED  BY <2>1, <2>5, Zenon DEF Reads
<1>. QED  BY <1>1, <1>2, Zenon

\* The loop reads a sequence of items.
LEMMA ItemsRead ==
  ASSUME NEW kind \in Kinds, NEW d, Reader(d), NEW num \in Nat
  PROVE  Reads(d, DeserializeItems(kind, d, num), Seq(ItemType(kind)))
<1>1. PICK g : Rounds(kind, d, num, g) /\ DeserializeItems(kind, d, num) = g[num]
  BY ItemsUnfold, Zenon
<1>. DEFINE S == {i \in Nat : i <= num => Reads(d, g[i], Seq(ItemType(kind)))}
<1>2. 0 \in S
  <2>1. After(d, SetValue(d, <<>>)) /\ SetValue(d, <<>>).value = <<>>
    <3>1. After(d, d)
      BY Zenon DEF After
    <3>. QED  BY <3>1, AfterValue, ValueFields, Zenon
  <2>2. <<>> \in Seq(ItemType(kind))
    BY EmptySeq, Zenon
  <2>3. Reads(d, g[0], Seq(ItemType(kind)))
    BY <1>1, <2>1, <2>2, Zenon DEF Reads, Rounds
  <2>. QED  BY <2>3
<1>3. ASSUME NEW i \in Nat, i \in S PROVE i + 1 \in S
  <2>. SUFFICES ASSUME i + 1 <= num PROVE Reads(d, g[i + 1], Seq(ItemType(kind)))
    OBVIOUS
  <2>1. i + 1 \in 1..num /\ (i + 1) - 1 = i
    OBVIOUS
  <2>2. Reads(d, g[i], Seq(ItemType(kind)))
    BY <1>3
  <2>3. g[i + 1] = NextItem(kind, g[i])
    BY <1>1, <2>1, Zenon DEF Rounds
  <2>. QED  BY <2>2, <2>3, NextItemReads, Zenon DEF Reads
<1>4. num \in S
  <2>. HIDE DEF S
  <2>. QED  BY <1>2, <1>3, InductionOver, Zenon
<1>. QED  BY <1>1, <1>4

\* A round over longer bytes.
LEMMA NextItemExtends ==
  ASSUME NEW kind \in Kinds, NEW b, Reader(b), NEW longer, Continues(b.bytes, longer),
         NextItem(kind, b).state = "ok"
  PROVE  b.state = "ok" /\ NextItem(kind, Extended(b, longer)) = Extended(NextItem(kind, b), longer)
<1>1. b.state = "ok"
  <2>. SUFFICES ASSUME b.state # "ok" PROVE FALSE
    OBVIOUS
  <2>1. NextItem(kind, b) = b
    BY Zenon DEF NextItem
  <2>. QED  BY <2>1, Zenon
<1>. DEFINE item == DeserializeItem(kind, b)
            v == Append(b.value, item.value)
<1>2. NextItem(kind, b) = SetValue(item, v)
  BY <1>1, Zenon DEF NextItem
<1>3. Reader(item) /\ item.bytes = b.bytes
  BY ItemReads, Zenon DEF After, Reads
<1>4. item.state = "ok"
  <2>. HIDE DEF item, v
  <2>. QED  BY <1>2, <1>3, ValueFields
<1>5. DeserializeItem(kind, Extended(b, longer)) = Extended(item, longer)
  BY <1>4, ItemExtends, Zenon
<1>6. Extended(b, longer).state = "ok" /\ Extended(b, longer).value = b.value
  BY <1>1, ExtendedFields, Zenon
<1>. HIDE DEF item
<1>7. Extended(item, longer).value = item.value
  BY <1>3, ExtendedFields, Zenon
<1>8. NextItem(kind, Extended(b, longer)) = SetValue(Extended(item, longer), v)
  BY <1>5, <1>6, <1>7, Zenon DEF NextItem
<1>. HIDE DEF v
<1>9. SetValue(Extended(item, longer), v) = Extended(SetValue(item, v), longer)
  BY <1>3, ExtendedValue, Zenon
<1>. QED  BY <1>1, <1>2, <1>8, <1>9, Zenon

\* The loop over longer bytes.
LEMMA ItemsExtend ==
  ASSUME NEW kind \in Kinds, NEW d, Reader(d), NEW num \in Nat,
         DeserializeItems(kind, d, num).state = "ok", NEW longer, Continues(d.bytes, longer)
  PROVE  DeserializeItems(kind, Extended(d, longer), num) = Extended(DeserializeItems(kind, d, num), longer)
<1>1. PICK g : Rounds(kind, d, num, g) /\ DeserializeItems(kind, d, num) = g[num]
  BY ItemsUnfold, Zenon
<1>2. PICK h : Rounds(kind, Extended(d, longer), num, h)
               /\ DeserializeItems(kind, Extended(d, longer), num) = h[num]
  BY ItemsUnfold, Zenon
<1>. DEFINE Same(i) == /\ Reader(g[i]) /\ g[i].bytes = d.bytes
                       /\ g[i].state = "ok" => h[i] = Extended(g[i], longer)
            S == {i \in Nat : i <= num => Same(i)}
<1>3. 0 \in S
  <2>1. g[0] = SetValue(d, <<>>) /\ h[0] = SetValue(Extended(d, longer), <<>>)
    BY <1>1, <1>2, Zenon DEF Rounds
  <2>2. Reader(g[0]) /\ g[0].bytes = d.bytes
    BY <2>1, ValueFields
  <2>3. h[0] = Extended(g[0], longer)
    BY <2>1, ExtendedValue
  <2>4. Same(0)
    BY <2>2, <2>3, Zenon
  <2>. HIDE DEF Same
  <2>. QED  BY <2>4
<1>4. ASSUME NEW i \in Nat, i \in S PROVE i + 1 \in S
  <2>. HIDE DEF Same
  <2>. SUFFICES ASSUME i + 1 <= num PROVE Same(i + 1)
    OBVIOUS
  <2>1. i + 1 \in 1..num /\ (i + 1) - 1 = i /\ i <= num
    OBVIOUS
  <2>2. Same(i)
    BY <1>4, <2>1
  <2>. USE DEF Same
  <2>3. g[i + 1] = NextItem(kind, g[i]) /\ h[i + 1] = NextItem(kind, h[i])
    BY <1>1, <1>2, <2>1, Zenon DEF Rounds
  <2>4. Reader(g[i + 1]) /\ g[i + 1].bytes = d.bytes
    <3>1. CASE g[i].state # "ok"
      BY <2>2, <2>3, <3>1, Zenon DEF NextItem
    <3>2. CASE g[i].state = "ok"
      <4>. DEFINE item == DeserializeItem(kind, g[i])
      <4>1. Reader(item) /\ item.bytes = g[i].bytes
        BY <2>2, ItemReads, Zenon DEF After, Reads
      <4>2. g[i + 1] = SetValue(item, Append(g[i].value, item.value))
        BY <2>3, <3>2, Zenon DEF NextItem
      <4>. HIDE DEF item
      <4>3. g[i].bytes = d.bytes
        BY <2>2, Zenon
      <4>. DEFINE v == Append(g[i].value, item.value)
      <4>. HIDE DEF v
      <4>4. g[i + 1] = SetValue(item, v)
        BY <4>2, Zenon DEF v
      <4>5. Reader(SetValue(item, v)) /\ SetValue(item, v).bytes = item.bytes
        BY <4>1, ValueFields, Zenon
      <4>. QED  BY <4>1, <4>3, <4>4, <4>5, Zenon
    <3>. QED  BY <3>1, <3>2, Zenon
  <2>5. ASSUME g[i + 1].state = "ok" PROVE h[i + 1] = Extended(g[i + 1], longer)
    <3>1. g[i].state = "ok" /\ NextItem(kind, Extended(g[i], longer)) = Extended(NextItem(kind, g[i]), longer)
      BY <2>2, <2>3, <2>5, NextItemExtends, Zenon
    <3>. QED  BY <2>2, <2>3, <3>1, Zenon
  <2>. QED  BY <2>4, <2>5, Zenon
<1>5. num \in S
  <2>. HIDE DEF S
  <2>. QED  BY <1>3, <1>4, InductionOver, Zenon
<1>6. Same(num)
  <2>. HIDE DEF Same
  <2>. QED  BY <1>5
<1>7. h[num] = Extended(g[num], longer)
  BY <1>1, <1>6, Zenon
<1>. QED  BY <1>1, <1>2, <1>7, Zenon

-----------------------------------------------------------------------------
(* Lists of items: what is written *)

\* f holds the beginnings of what seqs is flattened to.
Pieces(seqs, f) ==
  /\ f \in [Nat -> Seq(Scalar)]
  /\ f[0] = <<>>
  /\ \A i \in 1..Len(seqs) : f[i] = f[i - 1] \o seqs[i]

\* The function that flattens a sequence exists.
LEMMA PiecesExist ==
  ASSUME NEW seqs, seqs \in Seq(Seq(Scalar))
  PROVE  \E f : Pieces(seqs, f)
<1>. DEFINE B == Seq(Scalar)
            n == Len(seqs)
            more == [i \in Nat |-> IF i \in 1..n THEN seqs[i] ELSE <<>>]
            step == [i \in Nat |-> [s \in B |-> s \o more[i]]]
<1>1. \A i \in 1..n : seqs[i] \in B
  OBVIOUS
<1>2. <<>> \in B
  BY EmptySeq, Zenon
<1>3. \A i \in Nat : more[i] \in B
  <2>. HIDE DEF B
  <2>. QED  BY <1>1, <1>2, Zenon
<1>4. \A i \in 1..n : more[i] = seqs[i]
  <2>1. \A i \in 1..n : i \in Nat
    OBVIOUS
  <2>. QED  BY <2>1, Zenon
<1>. HIDE DEF more
<1>5. \A i \in Nat : \A s \in B : s \o more[i] \in B
  BY <1>3, ConcatProperties, Zenon
<1>6. step \in [Nat -> [B -> B]]
  <2>1. \A i \in Nat : [s \in B |-> s \o more[i]] \in [B -> B]
    <3>. HIDE DEF B
    <3>. QED  BY <1>5, Zenon
  <2>. HIDE DEF B
  <2>. QED  BY <2>1, Zenon
<1>7. PICK f : Recursive(f, B, <<>>, step)
  <2>. HIDE DEF step, B
  <2>. QED  BY <1>2, <1>6, RecursionExists, Zenon
<1>8. f \in [Nat -> B] /\ f[0] = <<>>
  BY <1>7, Zenon DEF Recursive
<1>9. ASSUME NEW i \in 1..n PROVE f[i] = f[i - 1] \o seqs[i]
  <2>1. i \in Nat /\ i # 0 /\ i - 1 \in Nat
    OBVIOUS
  <2>2. f[i] = step[i][f[i - 1]]
    BY <1>7, <2>1, Zenon DEF Recursive
  <2>3. f[i - 1] \in B
    BY <1>8, <2>1, Zenon
  <2>4. step[i][f[i - 1]] = f[i - 1] \o more[i]
    <3>. HIDE DEF B
    <3>. QED  BY <2>1, <2>3, Zenon
  <2>. QED  BY <1>4, <2>2, <2>4, Zenon
<1>. QED  BY <1>8, <1>9, Zenon DEF Pieces

\* FlattenSeq puts the pieces one behind the other.
LEMMA FlattenIs ==
  ASSUME NEW seqs, seqs \in Seq(Seq(Scalar)), NEW f, Pieces(seqs, f)
  PROVE  FlattenSeq(seqs) = f[Len(seqs)]
<1>. DEFINE n == Len(seqs)
<1>0. n \in Nat
  OBVIOUS
<1>1. CASE n = 0
  <2>1. seqs = <<>>
    BY <1>1
  <2>. QED  BY <1>1, <2>1, Zenon DEF FlattenSeq, Pieces
<1>2. CASE n # 0
  <2>. DEFINE Body(g) == [i \in 1..n |-> IF i = 1 THEN seqs[i] ELSE g[i - 1] \o seqs[i]]
              flatten == CHOOSE g : g = Body(g)
              g == [i \in 1..n |-> f[i]]
  <2>1. FlattenSeq(seqs) = flatten[n]
    BY <1>2, Zenon DEF FlattenSeq
  <2>2. \A i \in 1..n : f[i] = IF i = 1 THEN seqs[i] ELSE f[i - 1] \o seqs[i]
    <3>. TAKE i \in 1..n
    <3>1. f[i] = f[i - 1] \o seqs[i] /\ seqs[i] \in Seq(Scalar)
      <4>1. seqs[i] \in Seq(Scalar)
        OBVIOUS
      <4>. QED  BY <4>1, Zenon DEF Pieces
    <3>2. CASE i = 1
      <4>1. i - 1 = 0
        BY <3>2
      <4>2. f[i - 1] = <<>>
        BY <4>1, Zenon DEF Pieces
      <4>3. <<>> \o seqs[i] = seqs[i]
        BY <3>1, ConcatEmptySeq, Zenon
      <4>. QED  BY <3>1, <3>2, <4>2, <4>3, Zenon
    <3>. QED  BY <3>1, <3>2, Zenon
  <2>3. g = Body(g)
    <3>1. \A i \in 1..n : i # 1 => i - 1 \in 1..n
      OBVIOUS
    <3>2. \A i \in 1..n : Body(g)[i] = f[i]
      BY <2>2, <3>1, Zenon
    <3>3. Body(g) = [i \in 1..n |-> Body(g)[i]]
      OBVIOUS
    <3>. HIDE DEF Body
    <3>. QED  BY <3>2, <3>3, Zenon
  <2>4. flatten = Body(flatten)
    <3>. HIDE DEF Body, g
    <3>. QED  BY <2>3, Zenon
  <2>. HIDE DEF flatten
  <2>. DEFINE S == {i \in Nat : i \in 1..n => flatten[i] = f[i]}
  <2>5. 0 \in S
    OBVIOUS
  <2>6. ASSUME NEW i \in Nat, i \in S PROVE i + 1 \in S
    <3>. SUFFICES ASSUME i + 1 \in 1..n PROVE flatten[i + 1] = f[i + 1]
      OBVIOUS
    <3>1. flatten[i + 1] = IF i + 1 = 1 THEN seqs[i + 1] ELSE flatten[(i + 1) - 1] \o seqs[i + 1]
      BY <2>4, Zenon
    <3>2. f[i + 1] = IF i + 1 = 1 THEN seqs[i + 1] ELSE f[(i + 1) - 1] \o seqs[i + 1]
      BY <2>2, Zenon
    <3>3. i + 1 # 1 => flatten[(i + 1) - 1] = f[(i + 1) - 1]
      <4>1. i + 1 # 1 => i \in 1..n
        OBVIOUS
      <4>2. (i + 1) - 1 = i
        OBVIOUS
      <4>. QED  BY <2>6, <4>1, <4>2, Zenon
    <3>. QED  BY <3>1, <3>2, <3>3, Zenon
  <2>7. n \in S
    <3>. HIDE DEF S
    <3>. QED  BY <1>0, <2>5, <2>6, InductionOver, Zenon
  <2>8. n \in 1..n
    BY <1>0, <1>2
  <2>. QED  BY <2>1, <2>7, <2>8, Zenon
<1>. QED  BY <1>1, <1>2, Zenon

\* The bytes of an item of a kind.
SerializeItem(kind, x) ==
  IF kind = "input" THEN SerializeInput(x)
  ELSE IF kind = "output" THEN SerializeOutput(x) ELSE SerializeKernel(x)

\* An item of each kind is written in bytes.
LEMMA ItemBytes ==
  ASSUME NEW kind \in Kinds, NEW x \in ItemType(kind)
  PROVE  SerializeItem(kind, x) \in Seq(Scalar)
<1>1. CASE kind = "input"
  BY <1>1, InputBytes, Zenon DEF SerializeItem, ItemType
<1>2. CASE kind = "output"
  <2>1. kind # "input"
    BY <1>2
  <2>. QED  BY <1>2, <2>1, OutputBytes, Zenon DEF SerializeItem, ItemType
<1>3. CASE kind = "kernel"
  <2>1. kind # "input" /\ kind # "output"
    BY <1>3
  <2>. QED  BY <1>3, <2>1, KernelBytes, Zenon DEF SerializeItem, ItemType
<1>. QED  BY <1>1, <1>2, <1>3, Zenon DEF Kinds

\* The size of a proof can be written as a uint64_t.
LEMMA ProofFits ==
  ASSUME NEW x \in ShortOutput
  PROVE  Len(x.proof) \in Nat /\ Len(x.proof) < SizeEnd
<1>1. x.proof \in Seq(Scalar) /\ Len(x.proof) <= MaxProof
  BY DEF ShortOutput, ShortProof, RangeProof
<1>2. PacketSize \in Nat
  BY Sizes, SizeAssumption DEF PacketSize
<1>. QED  BY <1>1, <1>2, Sizes, SizeAssumption

\* An item of each kind is read back as it was written.
LEMMA ItemExact ==
  ASSUME NEW d, Reader(d), NEW kind \in Kinds, NEW x \in ItemType(kind), Holds(d, SerializeItem(kind, x))
  PROVE  DeserializeItem(kind, d) = Behind(d, SerializeItem(kind, x), x)
<1>1. CASE kind = "input"
  <2>1. DeserializeItem(kind, d) = DeserializeInput(d) /\ SerializeItem(kind, x) = SerializeInput(x) /\ x \in Input
    BY <1>1 DEF DeserializeItem, SerializeItem, ItemType
  <2>. QED  BY <2>1, InputExact, Zenon
<1>2. CASE kind = "output"
  <2>1. DeserializeItem(kind, d) = DeserializeOutput(d) /\ SerializeItem(kind, x) = SerializeOutput(x) /\ x \in ShortOutput
    BY <1>2 DEF DeserializeItem, SerializeItem, ItemType
  <2>. QED  BY <2>1, OutputExact, ProofFits, Zenon
<1>3. CASE kind = "kernel"
  <2>1. DeserializeItem(kind, d) = DeserializeKernel(d) /\ SerializeItem(kind, x) = SerializeKernel(x) /\ x \in Kernel
    BY <1>3 DEF DeserializeItem, SerializeItem, ItemType
  <2>. QED  BY <2>1, KernelExact, Zenon
<1>. QED  BY <1>1, <1>2, <1>3, Zenon DEF Kinds

\* One item more of a beginning.
LEMMA OneMore ==
  ASSUME NEW T, NEW xs \in Seq(T), NEW i \in Nat, i + 1 <= Len(xs)
  PROVE  Append(SubSeq(xs, 1, i), xs[i + 1]) = SubSeq(xs, 1, i + 1)
<1>. DEFINE a == SubSeq(xs, 1, i)
            b == SubSeq(xs, 1, i + 1)
            c == Append(a, xs[i + 1])
<1>1. xs[i + 1] \in T
  OBVIOUS
<1>2. a \in Seq(T) /\ Len(a) = i /\ \A k \in 1..i : a[k] = xs[k]
  OBVIOUS
<1>3. b \in Seq(T) /\ Len(b) = i + 1 /\ \A k \in 1..(i + 1) : b[k] = xs[k]
  OBVIOUS
<1>. HIDE DEF a, b
<1>4. c \in Seq(T) /\ Len(c) = i + 1 /\ (\A k \in 1..i : c[k] = a[k]) /\ c[i + 1] = xs[i + 1]
  BY <1>1, <1>2, AppendProperties
<1>. HIDE DEF c
<1>5. \A k \in 1..Len(b) : b[k] = c[k]
  BY <1>2, <1>3, <1>4, SMTT(30)
<1>6. b = c
  BY <1>3, <1>4, <1>5, SeqEqual, Zenon
<1>. QED  BY <1>6, Zenon DEF a, b, c

\* The bytes of several items.
SerializeItems(kind, xs) == FlattenSeq([i \in DOMAIN xs |-> SerializeItem(kind, xs[i])])

\* The bytes of each item of a list.
LEMMA ItemsBytes ==
  ASSUME NEW kind \in Kinds, NEW xs \in Seq(ItemType(kind))
  PROVE  LET seqs == [i \in DOMAIN xs |-> SerializeItem(kind, xs[i])]
         IN  /\ seqs \in Seq(Seq(Scalar)) /\ Len(seqs) = Len(xs)
             /\ \A i \in 1..Len(xs) : seqs[i] = SerializeItem(kind, xs[i])
<1>. DEFINE seqs == [i \in DOMAIN xs |-> SerializeItem(kind, xs[i])]
            n == Len(xs)
<1>1. DOMAIN xs = 1..n /\ n \in Nat /\ \A i \in 1..n : xs[i] \in ItemType(kind)
  OBVIOUS
<1>2. \A i \in 1..n : SerializeItem(kind, xs[i]) \in Seq(Scalar)
  BY <1>1, ItemBytes, Zenon
<1>3. seqs = [i \in 1..n |-> SerializeItem(kind, xs[i])]
  BY <1>1, Zenon
<1>. DEFINE B == Seq(Scalar)
<1>. HIDE DEF B
<1>4. seqs \in [1..n -> B]
  BY <1>2, <1>3, Zenon DEF B
<1>5. \A i \in 1..n : seqs[i] = SerializeItem(kind, xs[i])
  BY <1>3, Zenon
<1>. HIDE DEF seqs, n
<1>6. seqs \in Seq(B) /\ Len(seqs) = n
  BY <1>1, <1>4
<1>. QED  BY <1>5, <1>6, Zenon DEF B, n, seqs

\* The loop over the bytes of several items gives them back.
LEMMA ItemsExact ==
  ASSUME NEW kind \in Kinds, NEW xs \in Seq(ItemType(kind)), NEW d, Reader(d),
         Holds(d, SerializeItems(kind, xs))
  PROVE  /\ SerializeItems(kind, xs) \in Seq(Scalar)
         /\ DeserializeItems(kind, d, Len(xs)) = Behind(d, SerializeItems(kind, xs), xs)
<1>. DEFINE seqs == [i \in DOMAIN xs |-> SerializeItem(kind, xs[i])]
            n == Len(xs)
<1>1. seqs \in Seq(Seq(Scalar)) /\ Len(seqs) = n /\ \A i \in 1..n : seqs[i] = SerializeItem(kind, xs[i])
  BY ItemsBytes, Zenon
<1>2. SerializeItems(kind, xs) = FlattenSeq(seqs)
  BY Zenon DEF SerializeItems
<1>. HIDE DEF seqs
<1>3. n \in Nat /\ \A i \in 1..n : xs[i] \in ItemType(kind)
  OBVIOUS
<1>4. PICK f : Pieces(seqs, f)
  BY <1>1, PiecesExist, Zenon
<1>5. FlattenSeq(seqs) = f[n]
  BY <1>1, <1>4, FlattenIs, Zenon
<1>6. PICK g : Rounds(kind, d, n, g) /\ DeserializeItems(kind, d, n) = g[n]
  BY <1>3, ItemsUnfold, Zenon
<1>. DEFINE Given(i) == Holds(d, f[i]) => g[i] = Behind(d, f[i], SubSeq(xs, 1, i))
            S == {i \in Nat : i <= n => Given(i)}
<1>. HIDE DEF n
<1>7. 0 \in S
  <2>1. g[0] = SetValue(d, <<>>) /\ f[0] = <<>>
    BY <1>4, <1>6, Zenon DEF Rounds, Pieces
  <2>2. SubSeq(xs, 1, 0) = <<>>
    OBVIOUS
  <2>3. SetValue(d, <<>>) = Behind(d, <<>>, <<>>)
    <3>1. [d EXCEPT !.value = <<>>, !.index = @ + 0]
            = [bytes |-> d.bytes, index |-> d.index + 0, state |-> d.state, value |-> <<>>]
      BY MovedRecord
    <3>2. Len(<<>>) = 0
      BY EmptySeq
    <3>3. SetValue(d, <<>>) = [bytes |-> d.bytes, index |-> d.index, state |-> d.state, value |-> <<>>]
      BY DEF SetValue, Reader
    <3>. QED  BY <3>1, <3>2, <3>3 DEF Behind, Reader
  <2>4. Given(0)
    BY <2>1, <2>2, <2>3, Zenon
  <2>. HIDE DEF Given
  <2>. QED  BY <2>4
<1>8. ASSUME NEW i \in Nat, i \in S PROVE i + 1 \in S
  <2>. HIDE DEF Given
  <2>. SUFFICES ASSUME i + 1 <= n PROVE Given(i + 1)
    OBVIOUS
  <2>0. i + 1 \in 1..n /\ (i + 1) - 1 = i /\ i <= n
    BY <1>3
  <2>1. Given(i)
    BY <1>8, <2>0
  <2>. USE DEF Given
  <2>. SUFFICES ASSUME Holds(d, f[i + 1]) PROVE g[i + 1] = Behind(d, f[i + 1], SubSeq(xs, 1, i + 1))
    OBVIOUS
  <2>. DEFINE x == xs[i + 1]
              t == SerializeItem(kind, x)
              v == SubSeq(xs, 1, i)
              e == Behind(d, f[i], v)
  <2>2. x \in ItemType(kind) /\ t \in Seq(Scalar) /\ f[i] \in Seq(Scalar)
    <3>1. x \in ItemType(kind)
      BY <1>3, <2>0, Zenon
    <3>. QED  BY <1>4, <3>1, ItemBytes, Zenon DEF Pieces
  <2>3. f[i + 1] = f[i] \o t
    BY <1>1, <1>4, <2>0, Zenon DEF Pieces
  <2>4. Append(v, x) = SubSeq(xs, 1, i + 1)
    BY <2>0, OneMore DEF n
  <2>5. g[i + 1] = NextItem(kind, g[i])
    BY <1>6, <2>0, Zenon DEF Rounds
  <2>. HIDE DEF x, t, v
  <2>6. Holds(d, f[i] \o t)
    BY <2>3, Zenon
  <2>7. Holds(d, f[i]) /\ Holds(e, t) /\ \A w : Behind(e, t, w) = Behind(d, f[i] \o t, w)
    BY <2>2, <2>6, HoldsParts
  <2>8. g[i] = e
    BY <2>1, <2>7, Zenon DEF v
  <2>9. Reader(e) /\ e.state = "ok" /\ e.value = v
    BY <2>7, BehindFields
  <2>. HIDE DEF e
  <2>10. DeserializeItem(kind, e) = Behind(e, t, x)
    BY <2>2, <2>7, <2>9, ItemExact, Zenon DEF t
  <2>11. Reader(Behind(e, t, x)) /\ Behind(e, t, x).value = x
    BY <2>7, <2>9, BehindFields
  <2>12. NextItem(kind, e) = SetValue(Behind(e, t, x), Append(v, x))
    BY <2>9, <2>10, <2>11, Zenon DEF NextItem
  <2>. DEFINE y == Append(v, x)
  <2>. HIDE DEF y
  <2>13. SetValue(Behind(e, t, x), y) = Behind(e, t, y)
    BY <2>9, BehindValue, Zenon
  <2>. QED  BY <2>3, <2>4, <2>5, <2>7, <2>8, <2>12, <2>13, Zenon DEF y
<1>9. Given(n)
  <2>1. n \in S
    <3>. HIDE DEF S
    <3>. QED  BY <1>3, <1>7, <1>8, InductionOver, Zenon
  <2>. HIDE DEF Given
  <2>. QED  BY <1>3, <2>1
<1>10. SubSeq(xs, 1, n) = xs
  BY DEF n
<1>11. f[n] \in Seq(Scalar)
  BY <1>3, <1>4, Zenon DEF Pieces
<1>12. g[n] = Behind(d, f[n], SubSeq(xs, 1, n))
  BY <1>2, <1>5, <1>9, Zenon
<1>. QED  BY <1>2, <1>5, <1>6, <1>10, <1>11, <1>12, Zenon DEF n

-----------------------------------------------------------------------------
(* Bodies *)

\* A list of items is written in bytes.
LEMMA ItemsAreBytes ==
  ASSUME NEW kind \in Kinds, NEW xs \in Seq(ItemType(kind))
  PROVE  SerializeItems(kind, xs) \in Seq(Scalar)
<1>. DEFINE seqs == [i \in DOMAIN xs |-> SerializeItem(kind, xs[i])]
<1>1. seqs \in Seq(Seq(Scalar)) /\ Len(seqs) = Len(xs)
  BY ItemsBytes, Zenon
<1>2. SerializeItems(kind, xs) = FlattenSeq(seqs)
  BY Zenon DEF SerializeItems
<1>. HIDE DEF seqs
<1>3. PICK f : Pieces(seqs, f)
  BY <1>1, PiecesExist, Zenon
<1>4. Len(xs) \in Nat
  OBVIOUS
<1>. QED  BY <1>1, <1>2, <1>3, <1>4, FlattenIs, Zenon DEF Pieces

\* The bytes of one item, and of two.
LEMMA FewItems ==
  ASSUME NEW kind \in Kinds
  PROVE  /\ \A x \in ItemType(kind) : SerializeItems(kind, <<x>>) = SerializeItem(kind, x)
         /\ \A x, y \in ItemType(kind) :
              SerializeItems(kind, <<x, y>>) = SerializeItem(kind, x) \o SerializeItem(kind, y)
<1>1. ASSUME NEW xs, xs \in Seq(ItemType(kind)), 1 \in 1..Len(xs)
      PROVE  \E f : /\ SerializeItems(kind, xs) = f[Len(xs)]
                    /\ f[1] = SerializeItem(kind, xs[1])
                    /\ 2 \in 1..Len(xs) => f[2] = f[1] \o SerializeItem(kind, xs[2])
  <2>. DEFINE seqs == [i \in DOMAIN xs |-> SerializeItem(kind, xs[i])]
  <2>1. seqs \in Seq(Seq(Scalar)) /\ Len(seqs) = Len(xs) /\ \A i \in 1..Len(xs) : seqs[i] = SerializeItem(kind, xs[i])
    BY <1>1, ItemsBytes, Zenon
  <2>2. SerializeItems(kind, xs) = FlattenSeq(seqs)
    BY Zenon DEF SerializeItems
  <2>. HIDE DEF seqs
  <2>3. PICK f : Pieces(seqs, f)
    BY <2>1, PiecesExist, Zenon
  <2>4. FlattenSeq(seqs) = f[Len(xs)]
    BY <2>1, <2>3, FlattenIs, Zenon
  <2>5. f[1] = SerializeItem(kind, xs[1])
    <3>1. 1 - 1 = 0
      OBVIOUS
    <3>2. f[1] = <<>> \o seqs[1]
      BY <1>1, <2>1, <2>3, <3>1, Zenon DEF Pieces
    <3>3. seqs[1] \in Seq(Scalar)
      BY <1>1, <2>1
    <3>4. <<>> \o seqs[1] = seqs[1]
      BY <3>3, ConcatEmptySeq, Zenon
    <3>. QED  BY <1>1, <2>1, <3>2, <3>4, Zenon
  <2>6. 2 \in 1..Len(xs) => f[2] = f[1] \o SerializeItem(kind, xs[2])
    <3>1. 2 - 1 = 1
      OBVIOUS
    <3>. QED  BY <2>1, <2>3, <3>1, Zenon DEF Pieces
  <2>. QED  BY <2>2, <2>4, <2>5, <2>6, Zenon
<1>2. ASSUME NEW x \in ItemType(kind) PROVE SerializeItems(kind, <<x>>) = SerializeItem(kind, x)
  <2>. DEFINE xs == <<x>>
  <2>1. xs \in Seq(ItemType(kind)) /\ Len(xs) = 1 /\ xs[1] = x /\ 1 \in 1..Len(xs)
    OBVIOUS
  <2>. HIDE DEF xs
  <2>2. SerializeItems(kind, xs) = SerializeItem(kind, x)
    BY <1>1, <2>1, Zenon
  <2>. QED  BY <2>2 DEF xs
<1>3. ASSUME NEW x \in ItemType(kind), NEW y \in ItemType(kind)
      PROVE  SerializeItems(kind, <<x, y>>) = SerializeItem(kind, x) \o SerializeItem(kind, y)
  <2>. DEFINE xs == <<x, y>>
  <2>1. xs \in Seq(ItemType(kind)) /\ Len(xs) = 2 /\ xs[1] = x /\ xs[2] = y /\ 1 \in 1..Len(xs) /\ 2 \in 1..Len(xs)
    OBVIOUS
  <2>. HIDE DEF xs
  <2>2. SerializeItems(kind, xs) = SerializeItem(kind, x) \o SerializeItem(kind, y)
    BY <1>1, <2>1, Zenon
  <2>. QED  BY <2>2 DEF xs
<1>. QED  BY <1>2, <1>3, Zenon

\* A body and a transaction as they are admitted.
ShortBody == {b \in TxBody : b.outputs \in Seq(ShortOutput)}
ShortTransaction == {x \in Transaction : x.body \in ShortBody}

\* The bytes of a body in terms of those of its items.
LEMMA BodyBytes ==
  ASSUME NEW b \in ShortBody
  PROVE  /\ b.inputs \in Seq(ItemType("input")) /\ b.outputs \in Seq(ItemType("output"))
         /\ b.kernels \in Seq(ItemType("kernel"))
         /\ b = [inputs |-> b.inputs, outputs |-> b.outputs, kernels |-> b.kernels]
         /\ SerializeBody(b) =
              AppendU64(Len(b.inputs)) \o AppendU64(Len(b.outputs)) \o AppendU64(Len(b.kernels))
                \o SerializeItems("input", b.inputs) \o SerializeItems("output", b.outputs)
                \o SerializeItems("kernel", b.kernels)
<1>1. /\ b.inputs \in Seq(Input) /\ b.outputs \in Seq(ShortOutput) /\ b.kernels \in Seq(Kernel)
      /\ b = [inputs |-> b.inputs, outputs |-> b.outputs, kernels |-> b.kernels]
  BY DEF ShortBody, TxBody
<1>2. ItemType("input") = Input /\ ItemType("output") = ShortOutput /\ ItemType("kernel") = Kernel
  BY DEF ItemType
<1>3. \A x : /\ SerializeItem("input", x) = SerializeInput(x)
             /\ SerializeItem("output", x) = SerializeOutput(x)
             /\ SerializeItem("kernel", x) = SerializeKernel(x)
  BY DEF SerializeItem
<1>4. /\ SerializeItems("input", b.inputs) = FlattenSeq([i \in DOMAIN b.inputs |-> SerializeInput(b.inputs[i])])
      /\ SerializeItems("output", b.outputs) = FlattenSeq([i \in DOMAIN b.outputs |-> SerializeOutput(b.outputs[i])])
      /\ SerializeItems("kernel", b.kernels) = FlattenSeq([i \in DOMAIN b.kernels |-> SerializeKernel(b.kernels[i])])
  BY <1>3, Zenon DEF SerializeItems
<1>. QED  BY <1>1, <1>2, <1>4, Zenon DEF SerializeBody

\* A uint64_t takes Width bytes.
LEMMA U64Bytes ==
  ASSUME NEW n \in Nat
  PROVE  AppendU64(n) \in Seq(Scalar) /\ Len(AppendU64(n)) = Width
  BY NumberRoundTrip

\* A uint64_t that is read is a number, also after an exception.
LEMMA U64Number ==
  ASSUME NEW d, Reader(d)
  PROVE  Reader(ReadU64(d)) /\ After(d, ReadU64(d)) /\ ReadU64(d).value \in Nat
<1>. DEFINE e == ReadVector(d, Width)
            v == IF e.state = "ok" THEN NumberOf(e.value) ELSE 0
<1>1. ReadU64(d) = SetValue(e, v)
  BY DEF ReadU64, SetValue
<1>2. Reads(d, ReadU64(d), Nat)
  BY U64Reads, Zenon
<1>3. Reader(e)
  BY Sizes, VectorReads, Zenon
<1>4. ReadU64(d).state = e.state /\ ReadU64(d).value = v
  <2>. HIDE DEF e, v
  <2>. QED  BY <1>1, <1>3, ValueFields
<1>5. e.state # "ok" => v \in Nat
  <2>. HIDE DEF e
  <2>. QED  OBVIOUS
<1>. HIDE DEF e, v
<1>. QED  BY <1>2, <1>4, <1>5, Zenon DEF Reads, After

\* What the three counts and the three loops of TxBody::Deserialize read.
LEMMA BodyReads ==
  ASSUME NEW d, Reader(d)
  PROVE  Reads(d, DeserializeBody(d), ShortBody)
<1>. DEFINE c1 == ReadU64(d)
            c2 == ReadU64(c1)
            c3 == ReadU64(c2)
            e1 == DeserializeItems("input", c3, c1.value)
            e2 == DeserializeItems("output", e1, c2.value)
            e3 == DeserializeItems("kernel", e2, c3.value)
            v == [inputs |-> e1.value, outputs |-> e2.value, kernels |-> e3.value]
<1>1. DeserializeBody(d) = SetValue(e3, v)
  BY DEF DeserializeBody, SetValue
<1>2. Reader(c1) /\ After(d, c1) /\ c1.value \in Nat
  BY U64Number, Zenon
<1>3. Reader(c2) /\ After(c1, c2) /\ c2.value \in Nat
  BY <1>2, U64Number, Zenon
<1>4. Reader(c3) /\ After(c2, c3) /\ c3.value \in Nat
  BY <1>3, U64Number, Zenon
<1>. HIDE DEF c1, c2, c3
<1>5. "input" \in Kinds /\ "output" \in Kinds /\ "kernel" \in Kinds
  BY Zenon DEF Kinds
<1>6. Reads(c3, e1, Seq(ItemType("input"))) /\ Reader(e1)
  BY <1>2, <1>4, <1>5, ItemsRead, Zenon DEF Reads, After
<1>7. Reads(e1, e2, Seq(ItemType("output"))) /\ Reader(e2)
  BY <1>3, <1>5, <1>6, ItemsRead, Zenon DEF Reads, After
<1>8. Reads(e2, e3, Seq(ItemType("kernel"))) /\ Reader(e3)
  BY <1>4, <1>5, <1>7, ItemsRead, Zenon DEF Reads, After
<1>. HIDE DEF e1, e2, e3
<1>9. After(d, e3)
  BY <1>2, <1>3, <1>4, <1>6, <1>7, <1>8, AfterTrans, Zenon DEF Reads
<1>10. ASSUME e3.state = "ok" PROVE v \in ShortBody
  <2>1. e1.state = "ok" /\ e2.state = "ok"
    BY <1>7, <1>8, <1>10, AfterOk, Zenon DEF Reads
  <2>2. ItemType("input") = Input /\ ItemType("output") = ShortOutput /\ ItemType("kernel") = Kernel
    BY DEF ItemType
  <2>3. e1.value \in Seq(Input) /\ e2.value \in Seq(ShortOutput) /\ e3.value \in Seq(Kernel)
    BY <1>6, <1>7, <1>8, <1>10, <2>1, <2>2, Zenon DEF Reads
  <2>4. e2.value \in Seq(Output)
    BY <2>3 DEF ShortOutput
  <2>. QED  BY <2>3, <2>4 DEF ShortBody, TxBody
<1>. HIDE DEF v
<1>. QED  BY <1>1, <1>8, <1>9, <1>10, MappedReads, Zenon

\* TxBody::Deserialize reads the same body from longer bytes.
LEMMA BodyExtends ==
  ASSUME NEW d, Reader(d), DeserializeBody(d).state = "ok", NEW longer, Continues(d.bytes, longer)
  PROVE  DeserializeBody(Extended(d, longer)) = Extended(DeserializeBody(d), longer)
<1>. DEFINE c1 == ReadU64(d)
            c2 == ReadU64(c1)
            c3 == ReadU64(c2)
            e1 == DeserializeItems("input", c3, c1.value)
            e2 == DeserializeItems("output", e1, c2.value)
            e3 == DeserializeItems("kernel", e2, c3.value)
            v == [inputs |-> e1.value, outputs |-> e2.value, kernels |-> e3.value]
            X(e) == Extended(e, longer)
            k1 == ReadU64(X(d))
            k2 == ReadU64(k1)
            k3 == ReadU64(k2)
            f1 == DeserializeItems("input", k3, k1.value)
            f2 == DeserializeItems("output", f1, k2.value)
            f3 == DeserializeItems("kernel", f2, k3.value)
            w == [inputs |-> f1.value, outputs |-> f2.value, kernels |-> f3.value]
<1>1. DeserializeBody(d) = SetValue(e3, v) /\ DeserializeBody(X(d)) = SetValue(f3, w)
  BY DEF DeserializeBody, SetValue
<1>2. Reader(c1) /\ After(d, c1) /\ c1.value \in Nat
  BY U64Number, Zenon
<1>3. Reader(c2) /\ After(c1, c2) /\ c2.value \in Nat
  BY <1>2, U64Number, Zenon
<1>4. Reader(c3) /\ After(c2, c3) /\ c3.value \in Nat
  BY <1>3, U64Number, Zenon
<1>5. "input" \in Kinds /\ "output" \in Kinds /\ "kernel" \in Kinds
  BY Zenon DEF Kinds
<1>6. After(c3, e1) /\ Reader(e1)
  <2>. HIDE DEF c1, c2, c3
  <2>. QED  BY <1>2, <1>4, <1>5, ItemsRead, Zenon DEF Reads, After
<1>7. After(e1, e2) /\ Reader(e2)
  <2>. HIDE DEF c1, c2, c3, e1
  <2>. QED  BY <1>3, <1>5, <1>6, ItemsRead, Zenon DEF Reads, After
<1>8. After(e2, e3) /\ Reader(e3)
  <2>. HIDE DEF c1, c2, c3, e1, e2
  <2>. QED  BY <1>4, <1>5, <1>7, ItemsRead, Zenon DEF Reads, After
<1>9. e3.state = "ok"
  <2>. HIDE DEF e3, v
  <2>. QED  BY <1>1, <1>8, ValueFields
<1>10. c1.state = "ok" /\ c2.state = "ok" /\ c3.state = "ok" /\ e1.state = "ok" /\ e2.state = "ok"
  <2>. HIDE DEF c1, c2, c3, e1, e2, e3
  <2>1. e2.state = "ok"
    BY <1>8, <1>9, AfterOk, Zenon
  <2>2. e1.state = "ok"
    BY <1>7, <2>1, AfterOk, Zenon
  <2>3. c3.state = "ok"
    BY <1>6, <2>2, AfterOk, Zenon
  <2>4. c2.state = "ok"
    BY <1>4, <2>3, AfterOk, Zenon
  <2>5. c1.state = "ok"
    BY <1>3, <2>4, AfterOk, Zenon
  <2>. QED  BY <2>1, <2>2, <2>3, <2>4, <2>5, Zenon
<1>11. c1.bytes = d.bytes /\ c2.bytes = d.bytes /\ c3.bytes = d.bytes /\ e1.bytes = d.bytes /\ e2.bytes = d.bytes /\ e3.bytes = d.bytes
  <2>. HIDE DEF c1, c2, c3, e1, e2, e3
  <2>. QED  BY <1>2, <1>3, <1>4, <1>6, <1>7, <1>8, Zenon DEF After
<1>12. k1 = X(c1)
  BY <1>10, U64Extends, Zenon
<1>13. k2 = X(c2)
  <2>1. ReadU64(X(c1)) = X(ReadU64(c1))
    <3>. HIDE DEF c1, k1
    <3>. QED  BY <1>2, <1>10, <1>11, U64Extends, Zenon
  <2>. QED  BY <1>12, <2>1, Zenon
<1>14. k3 = X(c3)
  <2>1. ReadU64(X(c2)) = X(ReadU64(c2))
    <3>. HIDE DEF c2, k2
    <3>. QED  BY <1>3, <1>10, <1>11, U64Extends, Zenon
  <2>. QED  BY <1>13, <2>1, Zenon
<1>15. k1.value = c1.value /\ k2.value = c2.value /\ k3.value = c3.value
  <2>. HIDE DEF c1, c2, c3, k1, k2, k3
  <2>. QED  BY <1>2, <1>3, <1>4, <1>11, <1>12, <1>13, <1>14, ExtendedFields, Zenon
<1>. HIDE DEF c1, c2, c3, k1, k2, k3
<1>16. f1 = X(e1)
  <2>1. DeserializeItems("input", X(c3), c1.value) = X(DeserializeItems("input", c3, c1.value))
    <3>. DEFINE num == c1.value
    <3>1. num \in Nat /\ Continues(c3.bytes, longer) /\ Reader(c3) /\ DeserializeItems("input", c3, num).state = "ok"
      BY <1>2, <1>4, <1>5, <1>10, <1>11, Zenon
    <3>. HIDE DEF num, c3
    <3>2. DeserializeItems("input", X(c3), num) = X(DeserializeItems("input", c3, num))
      BY <1>5, <3>1, ItemsExtend
    <3>. QED  BY <3>2, Zenon DEF num
  <2>. QED  BY <1>14, <1>15, <2>1, Zenon
<1>17. f2 = X(e2)
  <2>1. DeserializeItems("output", X(e1), c2.value) = X(DeserializeItems("output", e1, c2.value))
    <3>. DEFINE num == c2.value
    <3>1. num \in Nat /\ Continues(e1.bytes, longer) /\ Reader(e1) /\ DeserializeItems("output", e1, num).state = "ok"
      BY <1>3, <1>5, <1>6, <1>10, <1>11, Zenon
    <3>. HIDE DEF num, e1
    <3>2. DeserializeItems("output", X(e1), num) = X(DeserializeItems("output", e1, num))
      BY <1>5, <3>1, ItemsExtend
    <3>. QED  BY <3>2, Zenon DEF num
  <2>. HIDE DEF f1, e1
  <2>. QED  BY <1>15, <1>16, <2>1, Zenon
<1>18. f3 = X(e3)
  <2>1. DeserializeItems("kernel", X(e2), c3.value) = X(DeserializeItems("kernel", e2, c3.value))
    <3>. DEFINE num == c3.value
    <3>1. num \in Nat /\ Continues(e2.bytes, longer) /\ Reader(e2) /\ DeserializeItems("kernel", e2, num).state = "ok"
      BY <1>4, <1>5, <1>7, <1>9, <1>11, Zenon
    <3>. HIDE DEF num, e2
    <3>2. DeserializeItems("kernel", X(e2), num) = X(DeserializeItems("kernel", e2, num))
      BY <1>5, <3>1, ItemsExtend
    <3>. QED  BY <3>2, Zenon DEF num
  <2>. HIDE DEF f2, e2
  <2>. QED  BY <1>15, <1>17, <2>1, Zenon
<1>. HIDE DEF e1, e2, e3, f1, f2, f3
<1>19. f1.value = e1.value /\ f2.value = e2.value /\ f3.value = e3.value
  BY <1>6, <1>7, <1>8, <1>11, <1>16, <1>17, <1>18, ExtendedFields, Zenon
<1>20. w = v
  BY <1>19, Zenon
<1>. HIDE DEF v, w
<1>21. SetValue(X(e3), v) = X(SetValue(e3, v))
  BY <1>8, ExtendedValue, Zenon
<1>. QED  BY <1>1, <1>18, <1>20, <1>21, Zenon

\* TxBody::Deserialize reads back the body that was written.
LEMMA BodyExact ==
  ASSUME NEW d, Reader(d), NEW b \in ShortBody, Len(b.inputs) < SizeEnd, Len(b.outputs) < SizeEnd,
         Len(b.kernels) < SizeEnd, Holds(d, SerializeBody(b))
  PROVE  DeserializeBody(d) = Behind(d, SerializeBody(b), b)
<1>. DEFINE n1 == Len(b.inputs)
            n2 == Len(b.outputs)
            n3 == Len(b.kernels)
            s1 == AppendU64(n1)
            s2 == AppendU64(n2)
            s3 == AppendU64(n3)
            s4 == SerializeItems("input", b.inputs)
            s5 == SerializeItems("output", b.outputs)
            s6 == SerializeItems("kernel", b.kernels)
<1>1. /\ b.inputs \in Seq(ItemType("input")) /\ b.outputs \in Seq(ItemType("output"))
      /\ b.kernels \in Seq(ItemType("kernel"))
      /\ b = [inputs |-> b.inputs, outputs |-> b.outputs, kernels |-> b.kernels]
      /\ SerializeBody(b) = s1 \o s2 \o s3 \o s4 \o s5 \o s6
  BY BodyBytes, Zenon
<1>2. n1 \in Nat /\ n2 \in Nat /\ n3 \in Nat /\ n1 < SizeEnd /\ n2 < SizeEnd /\ n3 < SizeEnd
  BY <1>1
<1>3. "input" \in Kinds /\ "output" \in Kinds /\ "kernel" \in Kinds
  BY Zenon DEF Kinds
<1>4. s1 \in Seq(Scalar) /\ s2 \in Seq(Scalar) /\ s3 \in Seq(Scalar)
  BY <1>2, U64Bytes, Zenon
<1>5. s4 \in Seq(Scalar) /\ s5 \in Seq(Scalar) /\ s6 \in Seq(Scalar)
  BY <1>1, <1>3, ItemsAreBytes, Zenon
<1>. DEFINE t2 == s1 \o s2
            t3 == t2 \o s3
            t4 == t3 \o s4
            t5 == t4 \o s5
            t6 == t5 \o s6
<1>. HIDE DEF s1, s2, s3, s4, s5, s6
<1>6. t2 \in Seq(Scalar) /\ t3 \in Seq(Scalar) /\ t4 \in Seq(Scalar) /\ t5 \in Seq(Scalar)
  BY <1>4, <1>5, ConcatProperties, Zenon
<1>7. SerializeBody(b) = t6
  BY <1>1, Zenon DEF s1, s2, s3, s4, s5, s6
<1>. HIDE DEF t2, t3, t4, t5
<1>8. Holds(d, t6)
  BY <1>7, Zenon
<1>. DEFINE c1 == Behind(d, s1, n1)
            c2 == Behind(d, t2, n2)
            c3 == Behind(d, t3, n3)
            e1 == Behind(d, t4, b.inputs)
            e2 == Behind(d, t5, b.outputs)
            e3 == Behind(d, t6, b.kernels)
<1>9. Holds(d, t5) /\ Holds(e2, s6) /\ \A w : Behind(e2, s6, w) = Behind(d, t6, w)
  BY <1>5, <1>6, <1>8, HoldsParts
<1>10. Holds(d, t4) /\ Holds(e1, s5) /\ \A w : Behind(e1, s5, w) = Behind(d, t5, w)
  BY <1>5, <1>6, <1>9, HoldsParts DEF t5
<1>11. Holds(d, t3) /\ Holds(c3, s4) /\ \A w : Behind(c3, s4, w) = Behind(d, t4, w)
  BY <1>5, <1>6, <1>10, HoldsParts DEF t4
<1>12. Holds(d, t2) /\ Holds(c2, s3) /\ \A w : Behind(c2, s3, w) = Behind(d, t3, w)
  BY <1>4, <1>6, <1>11, HoldsParts DEF t3
<1>13. Holds(d, s1) /\ Holds(c1, s2) /\ \A w : Behind(c1, s2, w) = Behind(d, t2, w)
  BY <1>4, <1>6, <1>12, HoldsParts DEF t2
<1>14. Reader(c1) /\ c1.value = n1 /\ Reader(c2) /\ c2.value = n2 /\ Reader(c3) /\ c3.value = n3
  <2>1. Reader(c1) /\ c1.value = n1
    BY <1>13, BehindFields
  <2>2. Reader(c2) /\ c2.value = n2
    BY <1>12, BehindFields
  <2>3. Reader(c3) /\ c3.value = n3
    BY <1>11, BehindFields
  <2>. QED  BY <2>1, <2>2, <2>3, Zenon
<1>15. Reader(e1) /\ e1.value = b.inputs /\ Reader(e2) /\ e2.value = b.outputs /\ Reader(e3) /\ e3.value = b.kernels
  <2>1. Reader(e1) /\ e1.value = b.inputs
    BY <1>10, BehindFields
  <2>2. Reader(e2) /\ e2.value = b.outputs
    BY <1>9, BehindFields
  <2>3. Reader(e3) /\ e3.value = b.kernels
    <3>. HIDE DEF t6
    <3>. QED  BY <1>8, BehindFields
  <2>. QED  BY <2>1, <2>2, <2>3, Zenon
<1>16. ReadU64(d) = c1
  BY <1>2, <1>13, U64Exact, Zenon DEF s1
<1>17. ReadU64(c1) = c2
  <2>1. c2 = Behind(c1, s2, n2)
    BY <1>13, Zenon
  <2>. HIDE DEF c1, c2
  <2>. QED  BY <1>2, <1>13, <1>14, <2>1, U64Exact, Zenon DEF s2
<1>18. ReadU64(c2) = c3
  <2>1. c3 = Behind(c2, s3, n3)
    BY <1>12, Zenon
  <2>. HIDE DEF c2, c3
  <2>. QED  BY <1>2, <1>12, <1>14, <2>1, U64Exact, Zenon DEF s3
<1>19. DeserializeItems("input", c3, n1) = e1
  <2>1. e1 = Behind(c3, s4, b.inputs)
    BY <1>11, Zenon
  <2>. HIDE DEF c3, e1
  <2>. QED  BY <1>1, <1>3, <1>11, <1>14, <2>1, ItemsExact, Zenon DEF s4
<1>20. DeserializeItems("output", e1, n2) = e2
  <2>1. e2 = Behind(e1, s5, b.outputs)
    BY <1>10, Zenon
  <2>. HIDE DEF e1, e2
  <2>. QED  BY <1>1, <1>3, <1>10, <1>15, <2>1, ItemsExact, Zenon DEF s5
<1>21. DeserializeItems("kernel", e2, n3) = e3
  <2>1. e3 = Behind(e2, s6, b.kernels)
    BY <1>9, Zenon
  <2>. HIDE DEF e2, e3
  <2>. QED  BY <1>1, <1>3, <1>9, <1>15, <2>1, ItemsExact, Zenon DEF s6
<1>22. SetValue(e3, b) = Behind(d, t6, b)
  <2>. HIDE DEF t6
  <2>. QED  BY BehindValue, Zenon
<1>. HIDE DEF c1, c2, c3, e1, e2, e3, n1, n2, n3
<1>23. DeserializeBody(d) = SetValue(e3, b)
  BY <1>1, <1>14, <1>15, <1>16, <1>17, <1>18, <1>19, <1>20, <1>21, Zenon DEF DeserializeBody, SetValue
<1>. QED  BY <1>7, <1>22, <1>23, Zenon

-----------------------------------------------------------------------------
(* Transactions and packets *)

\* A Deserializer starts at the first byte.
LEMMA StartReads ==
  ASSUME NEW bytes \in Seq(Scalar)
  PROVE  LET d == Deserializer(bytes)
         IN  Reader(d) /\ d.bytes = bytes /\ d.index = 0 /\ d.state = "ok" /\ d.value = <<>>
  BY DEF Deserializer, Reader

\* Transaction::Deserialize reads a transaction whose proofs are not too long, or throws.
LEMMA TransactionReads ==
  ASSUME NEW bytes \in Seq(Scalar)
  PROVE  Reads(Deserializer(bytes), DeserializeTransaction(bytes), ShortTransaction)
<1>. DEFINE d == Deserializer(bytes)
            e1 == DeserializeBlindingFactor(d)
            e2 == DeserializeBody(e1)
            v == [offset |-> e1.value, body |-> e2.value]
<1>1. DeserializeTransaction(bytes) = SetValue(e2, v)
  BY DEF DeserializeTransaction, SetValue
<1>2. Reader(d)
  BY StartReads, Zenon
<1>. HIDE DEF d
<1>3. Reads(d, e1, BlindingFactor) /\ Reader(e1)
  BY <1>2, BlindReads, Zenon DEF Reads, After
<1>. HIDE DEF e1
<1>4. Reads(e1, e2, ShortBody) /\ Reader(e2)
  BY <1>3, BodyReads, Zenon DEF Reads, After
<1>. HIDE DEF e2
<1>5. After(d, e2)
  BY <1>3, <1>4, AfterTrans, Zenon DEF Reads
<1>6. ASSUME e2.state = "ok" PROVE v \in ShortTransaction
  <2>1. e1.state = "ok"
    BY <1>4, <1>6, AfterOk, Zenon DEF Reads
  <2>2. e1.value \in BlindingFactor /\ e2.value \in ShortBody
    BY <1>3, <1>4, <1>6, <2>1, Zenon DEF Reads
  <2>3. e2.value \in TxBody
    BY <2>2, Zenon DEF ShortBody
  <2>. QED  BY <2>2, <2>3 DEF ShortTransaction, Transaction
<1>. HIDE DEF v
<1>7. Reads(d, SetValue(e2, v), ShortTransaction)
  BY <1>4, <1>5, <1>6, MappedReads, Zenon
<1>. QED  BY <1>1, <1>7, Zenon DEF d

\* A Deserializer over longer bytes makes the same of them if it got to the end of the shorter ones.
LEMMA TransactionExtends ==
  ASSUME NEW bytes \in Seq(Scalar), DeserializeTransaction(bytes).state = "ok",
         NEW longer, Continues(bytes, longer)
  PROVE  DeserializeTransaction(longer) = Extended(DeserializeTransaction(bytes), longer)
<1>. DEFINE d == Deserializer(bytes)
            e1 == DeserializeBlindingFactor(d)
            e2 == DeserializeBody(e1)
            v == [offset |-> e1.value, body |-> e2.value]
            X(e) == Extended(e, longer)
            f1 == DeserializeBlindingFactor(Deserializer(longer))
            f2 == DeserializeBody(f1)
            w == [offset |-> f1.value, body |-> f2.value]
<1>1. DeserializeTransaction(bytes) = SetValue(e2, v) /\ DeserializeTransaction(longer) = SetValue(f2, w)
  BY DEF DeserializeTransaction, SetValue
<1>2. Reader(d) /\ d.bytes = bytes
  BY StartReads, Zenon
<1>3. Deserializer(longer) = X(d)
  BY DEF Deserializer, Extended
<1>4. Reader(e1) /\ After(d, e1)
  <2>. HIDE DEF d
  <2>. QED  BY <1>2, BlindReads, Zenon DEF Reads, After
<1>5. Reader(e2) /\ After(e1, e2)
  <2>. HIDE DEF e1
  <2>. QED  BY <1>4, BodyReads, Zenon DEF Reads, After
<1>6. e2.state = "ok"
  <2>. HIDE DEF e2, v
  <2>. QED  BY <1>1, <1>5, ValueFields
<1>7. e1.state = "ok"
  <2>. HIDE DEF e1, e2
  <2>. QED  BY <1>5, <1>6, AfterOk, Zenon
<1>8. e1.bytes = bytes /\ e2.bytes = bytes
  <2>. HIDE DEF d, e1, e2
  <2>. QED  BY <1>2, <1>4, <1>5, Zenon DEF After
<1>9. f1 = X(e1)
  <2>. HIDE DEF d
  <2>1. DeserializeBlindingFactor(X(d)) = X(DeserializeBlindingFactor(d))
    BY <1>2, <1>7, BlindExtends, Zenon
  <2>. QED  BY <1>3, <2>1, Zenon
<1>10. f2 = X(e2)
  <2>. HIDE DEF e1, f1
  <2>1. DeserializeBody(X(e1)) = X(DeserializeBody(e1))
    BY <1>4, <1>6, <1>8, BodyExtends, Zenon
  <2>. QED  BY <1>9, <2>1, Zenon
<1>. HIDE DEF d, e1, e2, f1, f2
<1>11. f1.value = e1.value /\ f2.value = e2.value
  BY <1>4, <1>5, <1>8, <1>9, <1>10, ExtendedFields, Zenon
<1>12. w = v
  BY <1>11, Zenon
<1>. HIDE DEF v, w
<1>13. SetValue(X(e2), v) = X(SetValue(e2, v))
  BY <1>5, ExtendedValue, Zenon
<1>. QED  BY <1>1, <1>10, <1>12, <1>13, Zenon

\* No count of a transaction is more than a uint64_t holds.
Countable(x) == Len(x.body.inputs) < SizeEnd /\ Len(x.body.outputs) < SizeEnd /\ Len(x.body.kernels) < SizeEnd

\* The bytes of a transaction.
LEMMA TransactionBytes ==
  ASSUME NEW x \in ShortTransaction
  PROVE  /\ x = [offset |-> x.offset, body |-> x.body] /\ x.offset \in BlindingFactor /\ x.body \in ShortBody
         /\ SerializeBlindingFactor(x.offset) \in Seq(Scalar) /\ Len(SerializeBlindingFactor(x.offset)) = 1
         /\ SerializeBody(x.body) \in Seq(Scalar)
         /\ SerializeTransaction(x) \in Seq(Scalar)
         /\ Len(SerializeTransaction(x)) = 1 + Len(SerializeBody(x.body))
<1>. DEFINE s1 == SerializeBlindingFactor(x.offset)
            b == x.body
            s2 == SerializeBody(b)
<1>1. x = [offset |-> x.offset, body |-> x.body] /\ x.offset \in BlindingFactor /\ b \in ShortBody
  BY DEF ShortTransaction, Transaction
<1>2. s1 \in Seq(Scalar) /\ Len(s1) = 1
  BY <1>1 DEF SerializeBlindingFactor, BlindingFactor
<1>3. s2 \in Seq(Scalar)
  <2>. HIDE DEF b
  <2>1. /\ b.inputs \in Seq(ItemType("input")) /\ b.outputs \in Seq(ItemType("output"))
        /\ b.kernels \in Seq(ItemType("kernel"))
    BY <1>1, BodyBytes, Zenon
  <2>2. Len(b.inputs) \in Nat /\ Len(b.outputs) \in Nat /\ Len(b.kernels) \in Nat
    BY <2>1
  <2>3. "input" \in Kinds /\ "output" \in Kinds /\ "kernel" \in Kinds
    BY Zenon DEF Kinds
  <2>4. s2 = AppendU64(Len(b.inputs)) \o AppendU64(Len(b.outputs)) \o AppendU64(Len(b.kernels))
                \o SerializeItems("input", b.inputs) \o SerializeItems("output", b.outputs)
                \o SerializeItems("kernel", b.kernels)
    BY <1>1, BodyBytes, Zenon
  <2>. DEFINE a1 == AppendU64(Len(b.inputs))
              a2 == AppendU64(Len(b.outputs))
              a3 == AppendU64(Len(b.kernels))
              a4 == SerializeItems("input", b.inputs)
              a5 == SerializeItems("output", b.outputs)
              a6 == SerializeItems("kernel", b.kernels)
  <2>5. a1 \in Seq(Scalar) /\ a2 \in Seq(Scalar) /\ a3 \in Seq(Scalar)
    BY <2>2, U64Bytes, Zenon
  <2>6. a4 \in Seq(Scalar) /\ a5 \in Seq(Scalar) /\ a6 \in Seq(Scalar)
    BY <2>1, <2>3, ItemsAreBytes, Zenon
  <2>. HIDE DEF a1, a2, a3, a4, a5, a6
  <2>7. a1 \o a2 \o a3 \o a4 \o a5 \o a6 \in Seq(Scalar)
    BY <2>5, <2>6, ConcatProperties, Zenon
  <2>. QED  BY <2>4, <2>7, Zenon DEF a1, a2, a3, a4, a5, a6
<1>. HIDE DEF s1, s2
<1>4. s1 \o s2 \in Seq(Scalar) /\ Len(s1 \o s2) = Len(s1) + Len(s2)
  BY <1>2, <1>3, ConcatProperties, Zenon
<1>5. SerializeTransaction(x) = s1 \o s2
  BY Zenon DEF SerializeTransaction, s1, s2
<1>6. Len(SerializeTransaction(x)) = 1 + Len(s2)
  BY <1>2, <1>4, <1>5, Zenon
<1>. QED  BY <1>1, <1>2, <1>3, <1>4, <1>5, <1>6, Zenon DEF s1, s2

\* What was serialized is deserialized to the last byte.
LEMMA TransactionExact ==
  ASSUME NEW x \in ShortTransaction, Countable(x)
  PROVE  LET e == DeserializeTransaction(SerializeTransaction(x))
         IN  e.state = "ok" /\ e.value = x /\ e.index = Len(SerializeTransaction(x))
             /\ e.bytes = SerializeTransaction(x) 
<1>. DEFINE s1 == SerializeBlindingFactor(x.offset)
            s2 == SerializeBody(x.body)
            t == s1 \o s2
            d == Deserializer(t)
            e1 == Behind(d, s1, x.offset)
            e2 == Behind(d, t, x.body)
<1>1. /\ x = [offset |-> x.offset, body |-> x.body] /\ x.offset \in BlindingFactor /\ x.body \in ShortBody
      /\ s1 \in Seq(Scalar) /\ s2 \in Seq(Scalar)
  BY TransactionBytes, Zenon
<1>2. SerializeTransaction(x) = t /\ t \in Seq(Scalar)
  BY <1>1, ConcatProperties, Zenon DEF SerializeTransaction
<1>. HIDE DEF s1, s2
<1>3. Reader(d) /\ d.bytes = t /\ d.index = 0 /\ d.state = "ok"
  <2>. HIDE DEF t
  <2>. QED  BY <1>2, StartReads, Zenon
<1>4. Holds(d, t)
  <2>. HIDE DEF t, d
  <2>. QED  BY <1>2, <1>3 DEF Holds
<1>. HIDE DEF d
<1>5. Holds(d, s1) /\ Holds(e1, s2) /\ \A w : Behind(e1, s2, w) = Behind(d, t, w)
  BY <1>1, <1>3, <1>4, HoldsParts
<1>. HIDE DEF t
<1>6. Reader(e1) /\ e1.value = x.offset
  BY <1>3, <1>5, BehindFields
<1>7. DeserializeBlindingFactor(d) = e1
  BY <1>1, <1>3, <1>5, BlindExact, Zenon DEF s1
<1>8. DeserializeBody(e1) = e2
  <2>1. e2 = Behind(e1, s2, x.body)
    BY <1>5, Zenon
  <2>. DEFINE b == x.body
  <2>2. Len(b.inputs) < SizeEnd /\ Len(b.outputs) < SizeEnd /\ Len(b.kernels) < SizeEnd
    BY Zenon DEF Countable
  <2>3. b \in ShortBody /\ Holds(e1, SerializeBody(b)) /\ Behind(e1, SerializeBody(b), b) = e2
    BY <1>1, <1>5, <2>1, Zenon DEF s2
  <2>. HIDE DEF e1, e2, b
  <2>4. DeserializeBody(e1) = Behind(e1, SerializeBody(b), b)
    BY <1>6, <2>2, <2>3, BodyExact
  <2>. QED  BY <2>3, <2>4, Zenon
<1>9. Reader(e2) /\ e2.value = x.body
  BY <1>3, <1>4, BehindFields
<1>10. SetValue(e2, x) = Behind(d, t, x)
  BY <1>3, BehindValue, Zenon
<1>11. /\ Behind(d, t, x).bytes = t /\ Behind(d, t, x).index = Len(t)
       /\ Behind(d, t, x).state = "ok" /\ Behind(d, t, x).value = x
  <2>1. /\ Behind(d, t, x).bytes = t /\ Behind(d, t, x).index = 0 + Len(t)
        /\ Behind(d, t, x).state = "ok" /\ Behind(d, t, x).value = x
    BY <1>3, <1>4, BehindFields
  <2>2. 0 + Len(t) = Len(t)
    BY <1>2
  <2>. QED  BY <2>1, <2>2, Zenon
<1>. HIDE DEF e1, e2
<1>12. DeserializeTransaction(t) = SetValue(e2, x)
  BY <1>1, <1>6, <1>7, <1>8, <1>9, Zenon DEF DeserializeTransaction, SetValue, d
<1>. QED  BY <1>2, <1>10, <1>11, <1>12, Zenon

\* A transaction of as many parts as the wallets build, and one with whole proofs as theirs.
Packet(x) ==
  /\ x \in ShortTransaction
  /\ Len(x.body.inputs) = 1 /\ Len(x.body.outputs) = 2 /\ Len(x.body.kernels) = 1
WholePacket(x) ==
  /\ Packet(x)
  /\ \A i \in 1..2 : Len(x.body.outputs[i].proof) = ProofSize

\* A packet has at most PacketSize bytes, and its counts can be written.
LEMMA PacketBytes ==
  ASSUME NEW x, Packet(x)
  PROVE  /\ SerializeTransaction(x) \in Seq(Scalar)
         /\ Len(SerializeTransaction(x)) <= PacketSize /\ PacketSize \in Nat
         /\ Countable(x)
<1>. DEFINE b == x.body
            a1 == AppendU64(Len(b.inputs))
            a2 == AppendU64(Len(b.outputs))
            a3 == AppendU64(Len(b.kernels))
            a4 == SerializeItems("input", b.inputs)
            a5 == SerializeItems("output", b.outputs)
            a6 == SerializeItems("kernel", b.kernels)
<1>0. PacketSize \in Nat /\ ProofSize \in Nat
  BY Sizes, SizeAssumption DEF PacketSize
<1>1. /\ b \in ShortBody /\ SerializeTransaction(x) \in Seq(Scalar)
      /\ Len(SerializeTransaction(x)) = 1 + Len(SerializeBody(b))
  BY TransactionBytes, Zenon DEF Packet
<1>2. Len(b.inputs) = 1 /\ Len(b.outputs) = 2 /\ Len(b.kernels) = 1
  BY Zenon DEF Packet
<1>. HIDE DEF b
<1>4. /\ b.inputs \in Seq(ItemType("input")) /\ b.outputs \in Seq(ItemType("output"))
      /\ b.kernels \in Seq(ItemType("kernel"))
      /\ SerializeBody(b) = a1 \o a2 \o a3 \o a4 \o a5 \o a6
  BY <1>1, BodyBytes, Zenon
<1>5. "input" \in Kinds /\ "output" \in Kinds /\ "kernel" \in Kinds
  BY Zenon DEF Kinds
<1>6. ItemType("input") = Input /\ ItemType("output") = ShortOutput /\ ItemType("kernel") = Kernel
  BY DEF ItemType
<1>7. /\ b.inputs[1] \in Input /\ b.inputs = <<b.inputs[1]>>
      /\ b.kernels[1] \in Kernel /\ b.kernels = <<b.kernels[1]>>
  BY <1>2, <1>4, <1>6
<1>8. b.outputs[1] \in ShortOutput /\ b.outputs[2] \in ShortOutput /\ b.outputs = <<b.outputs[1], b.outputs[2]>>
  BY <1>2, <1>4, <1>6
<1>3. ASSUME NEW o \in ShortOutput
      PROVE  Len(o.proof) \in Nat /\ Len(o.proof) <= ProofSize
  <2>1. o.proof \in Seq(Scalar) /\ Len(o.proof) <= MaxProof
    BY Zenon DEF ShortOutput, ShortProof, RangeProof
  <2>2. Len(o.proof) \in Nat
    BY <2>1
  <2>. QED  BY <2>1, <2>2, SizeAssumption, Zenon
<1>9. \A y : /\ SerializeItem("input", y) = SerializeInput(y)
             /\ SerializeItem("output", y) = SerializeOutput(y)
             /\ SerializeItem("kernel", y) = SerializeKernel(y)
  BY DEF SerializeItem
<1>10. a1 \in Seq(Scalar) /\ Len(a1) = Width /\ a2 \in Seq(Scalar) /\ Len(a2) = Width
       /\ a3 \in Seq(Scalar) /\ Len(a3) = Width
  <2>1. Len(b.inputs) \in Nat /\ Len(b.outputs) \in Nat /\ Len(b.kernels) \in Nat
    BY <1>2
  <2>. QED  BY <2>1, U64Bytes, Zenon
<1>11. a4 \in Seq(Scalar) /\ Len(a4) = 3
  <2>1. a4 = SerializeInput(b.inputs[1])
    BY <1>5, <1>6, <1>7, <1>9, FewItems, Zenon
  <2>. QED  BY <1>7, <2>1, InputBytes, Zenon
<1>12. a6 \in Seq(Scalar) /\ Len(a6) = 6
  <2>1. a6 = SerializeKernel(b.kernels[1])
    BY <1>5, <1>6, <1>7, <1>9, FewItems, Zenon
  <2>. QED  BY <1>7, <2>1, KernelBytes, Zenon
<1>13. a5 \in Seq(Scalar) /\ Len(a5) \in Nat /\ Len(a5) <= 2 * Width + 2 * ProofSize + 6
  <2>. DEFINE p == SerializeOutput(b.outputs[1])
              q == SerializeOutput(b.outputs[2])
              m == Len(b.outputs[1].proof)
              n == Len(b.outputs[2].proof)
  <2>1. a5 = p \o q
    BY <1>5, <1>6, <1>8, <1>9, FewItems, Zenon
  <2>2. m \in Nat /\ m <= ProofSize /\ n \in Nat /\ n <= ProofSize
    BY <1>3, <1>8, Zenon
  <2>3. p \in Seq(Scalar) /\ Len(p) = Width + m + 3 /\ q \in Seq(Scalar) /\ Len(q) = Width + n + 3
    BY <1>8, OutputBytes, Zenon
  <2>. HIDE DEF p, q, m, n
  <2>4. p \o q \in Seq(Scalar) /\ Len(p \o q) = Len(p) + Len(q)
    BY <2>3, ConcatProperties, Zenon
  <2>5. Len(p) + Len(q) \in Nat /\ Len(p) + Len(q) <= 2 * Width + 2 * ProofSize + 6
    BY <1>0, <2>2, <2>3, Sizes
  <2>. QED  BY <2>1, <2>4, <2>5, Zenon
<1>. HIDE DEF a1, a2, a3, a4, a5, a6
<1>14. Len(SerializeBody(b)) = Len(a1) + Len(a2) + Len(a3) + Len(a4) + Len(a5) + Len(a6)
  <2>1. a1 \o a2 \in Seq(Scalar) /\ Len(a1 \o a2) = Len(a1) + Len(a2)
    BY <1>10, ConcatProperties, Zenon
  <2>2. a1 \o a2 \o a3 \in Seq(Scalar) /\ Len(a1 \o a2 \o a3) = Len(a1 \o a2) + Len(a3)
    BY <1>10, <2>1, ConcatProperties, Zenon
  <2>3. a1 \o a2 \o a3 \o a4 \in Seq(Scalar) /\ Len(a1 \o a2 \o a3 \o a4) = Len(a1 \o a2 \o a3) + Len(a4)
    BY <1>11, <2>2, ConcatProperties, Zenon
  <2>4. /\ a1 \o a2 \o a3 \o a4 \o a5 \in Seq(Scalar)
        /\ Len(a1 \o a2 \o a3 \o a4 \o a5) = Len(a1 \o a2 \o a3 \o a4) + Len(a5)
    BY <1>13, <2>3, ConcatProperties, Zenon
  <2>5. Len(a1 \o a2 \o a3 \o a4 \o a5 \o a6) = Len(a1 \o a2 \o a3 \o a4 \o a5) + Len(a6)
    BY <1>12, <2>4, ConcatProperties, Zenon
  <2>. QED  BY <1>4, <2>1, <2>2, <2>3, <2>4, <2>5, Zenon
<1>15. Len(SerializeTransaction(x)) <= PacketSize
  BY <1>0, <1>1, <1>10, <1>11, <1>12, <1>13, <1>14, Sizes DEF PacketSize
<1>16. 3 < SizeEnd
  BY <1>0, Sizes, SizeAssumption
<1>17. Len(b.inputs) < SizeEnd /\ Len(b.outputs) < SizeEnd /\ Len(b.kernels) < SizeEnd
  BY <1>2, <1>16, Sizes
<1>. QED  BY <1>0, <1>1, <1>15, <1>17, Zenon DEF Countable, b

\* One item of a sequence is replaced by another of the same type.
Replaced(w, i, e) == [w EXCEPT ![i] = e]
LEMMA ReplacedItem ==
  ASSUME NEW S, NEW w \in Seq(S), NEW i \in 1..Len(w), NEW e \in S
  PROVE  Replaced(w, i, e) \in Seq(S) /\ Len(Replaced(w, i, e)) = Len(w)
  BY DEF Replaced

\* With fewer bytes in one of its proofs it is still a packet.
LEMMA ShorterProof ==
  ASSUME NEW x, WholePacket(x), NEW y \in WithShortProof(x)
  PROVE  Packet(y)
<1>1. PICK i \in 1..2, n \in 0..(ProofSize - 1) :
        y = [x EXCEPT !.body.outputs[i].proof = SubSeq(@, 1, n)]
  BY DEF WithShortProof
<1>. DEFINE b == x.body
            o == b.outputs[i]
            p == SubSeq(o.proof, 1, n)
            o2 == [o EXCEPT !.proof = p]
            outputs2 == [b.outputs EXCEPT ![i] = o2]
            b2 == [b EXCEPT !.outputs = outputs2]
<1>2. /\ x \in Transaction /\ b \in TxBody /\ b.outputs \in Seq(ShortOutput)
      /\ Len(b.inputs) = 1 /\ Len(b.outputs) = 2 /\ Len(b.kernels) = 1
      /\ Len(o.proof) = ProofSize
  BY Zenon DEF WholePacket, Packet, ShortTransaction, ShortBody
<1>3. y = [x EXCEPT !.body = b2]
  BY <1>1, <1>2 DEF Transaction
<1>. HIDE DEF b
<1>4. o \in ShortOutput
  BY <1>2
<1>. HIDE DEF o
<1>5. ProofSize \in Nat /\ MaxProof \in Nat /\ ProofSize <= MaxProof
  BY SizeAssumption, Sizes
<1>6. o \in Output /\ o.proof \in Seq(Scalar)
  BY <1>4, Zenon DEF ShortOutput, ShortProof, RangeProof
<1>7. p \in Seq(Scalar) /\ Len(p) <= MaxProof
  BY <1>2, <1>5, <1>6
<1>. HIDE DEF p
<1>8. p \in RangeProof /\ p \in ShortProof
  BY <1>7, Zenon DEF ShortProof, RangeProof
<1>9. o2 \in Output /\ o2.proof = p
  BY <1>6, <1>8 DEF Output
<1>. HIDE DEF o2
<1>10. o2 \in ShortOutput
  BY <1>8, <1>9, Zenon DEF ShortOutput
<1>11. outputs2 \in Seq(ShortOutput) /\ Len(outputs2) = 2
  <2>1. i \in 1..Len(b.outputs)
    BY <1>2
  <2>. DEFINE w == b.outputs
  <2>2. w \in Seq(ShortOutput) /\ i \in 1..Len(w) /\ Len(w) = 2
    BY <1>2, <2>1
  <2>. HIDE DEF w
  <2>3. Replaced(w, i, o2) \in Seq(ShortOutput) /\ Len(Replaced(w, i, o2)) = Len(w)
    BY <1>10, <2>2, ReplacedItem, Zenon
  <2>4. outputs2 = Replaced(w, i, o2)
    BY Zenon DEF Replaced, w
  <2>. HIDE DEF outputs2
  <2>. QED  BY <2>2, <2>3, <2>4, Zenon
<1>. HIDE DEF outputs2
<1>12. outputs2 \in Seq(Output)
  BY <1>11 DEF ShortOutput
<1>13. b2 \in TxBody /\ b2.outputs = outputs2 /\ b2.inputs = b.inputs /\ b2.kernels = b.kernels
  BY <1>2, <1>12 DEF TxBody
<1>. HIDE DEF b2
<1>14. b2 \in ShortBody
  BY <1>11, <1>13, Zenon DEF ShortBody
<1>15. y \in Transaction /\ y.body = b2
  BY <1>2, <1>3, <1>13 DEF Transaction
<1>. QED  BY <1>2, <1>11, <1>13, <1>14, <1>15, Zenon DEF Packet, ShortTransaction

\* What may arrive has no more bytes than a packet.
LEMMA ArrivalsAre ==
  ASSUME NEW x, WholePacket(x), NEW a \in Arrivals(x)
  PROVE  a \in Seq(Scalar) /\ Len(a) <= PacketSize
<1>. DEFINE bytes == SerializeTransaction(x)
<1>1. bytes \in Seq(Scalar) /\ Len(bytes) <= PacketSize /\ PacketSize \in Nat
  BY PacketBytes, Zenon DEF WholePacket
<1>2. \/ a = bytes \/ (\E n \in 0..(Len(bytes) - 1) : a = SubSeq(bytes, 1, n))
      \/ (\E i \in DOMAIN bytes : \E b \in Scalar : a = [bytes EXCEPT ![i] = b])
      \/ \E y \in WithShortProof(x) : a = SerializeTransaction(y)
  <2>. HIDE DEF bytes
  <2>. QED  BY DEF Arrivals, bytes
<1>. HIDE DEF bytes
<1>3. CASE a = bytes
  BY <1>1, <1>3, Zenon
<1>4. ASSUME NEW n \in 0..(Len(bytes) - 1), a = SubSeq(bytes, 1, n)
      PROVE  a \in Seq(Scalar) /\ Len(a) <= PacketSize
  BY <1>1, <1>4
<1>5. ASSUME NEW i \in DOMAIN bytes, NEW b \in Scalar, a = [bytes EXCEPT ![i] = b]
      PROVE  a \in Seq(Scalar) /\ Len(a) <= PacketSize
  BY <1>1, <1>5
<1>6. ASSUME NEW y \in WithShortProof(x), a = SerializeTransaction(y)
      PROVE  a \in Seq(Scalar) /\ Len(a) <= PacketSize
  BY <1>6, ShorterProof, PacketBytes, Zenon
<1>. QED  BY <1>2, <1>3, <1>4, <1>5, <1>6, Zenon

\* Whatever arrives is read without going beyond it, and refused if it was cut short.
LEMMA ArrivalRefused ==
  ASSUME NEW x, WholePacket(x), NEW a \in Arrivals(x)
  PROVE  LET e == DeserializeTransaction(a)
         IN  /\ e.state # "beyond" /\ e.bytes = a
             /\ IsStrictPrefix(a, SerializeTransaction(x)) => e.state = "throw"
             /\ e.state = "ok" => e.value \in ShortTransaction
<1>. DEFINE s == SerializeTransaction(x)
            e == DeserializeTransaction(a)
            d == Deserializer(a)
<1>1. s \in Seq(Scalar) /\ Len(s) <= PacketSize /\ PacketSize \in Nat /\ Countable(x) /\ x \in ShortTransaction
  BY PacketBytes, Zenon DEF WholePacket, Packet
<1>2. a \in Seq(Scalar) /\ Len(a) <= PacketSize
  BY ArrivalsAre, Zenon
<1>3. Reader(d) /\ d.bytes = a /\ d.state = "ok"
  BY <1>2, StartReads, Zenon
<1>4. Reads(d, e, ShortTransaction)
  BY <1>2, TransactionReads, Zenon
<1>5. Fits(a)
  <2>. HIDE DEF s
  <2>. QED  BY <1>1, <1>2, Sizes, SizeAssumption DEF Fits, Longest
<1>. HIDE DEF d
<1>6. e.state # "beyond" /\ Reader(e) /\ e.bytes = a
  <2>. HIDE DEF e
  <2>1. d.state # "beyond"
    BY <1>3
  <2>. QED  BY <1>3, <1>4, <1>5, <2>1, Zenon DEF Reads, After
<1>7. ASSUME IsStrictPrefix(a, s), e.state = "ok" PROVE FALSE
  <2>0. Len(a) < Len(s) /\ \A i \in 1..Len(a) : s[i] = a[i]
    <3>. HIDE DEF s, e
    <3>1. Len(a) <= Len(s) /\ SubSeq(a, 1, Len(a)) = SubSeq(s, 1, Len(a)) /\ a # s
      BY <1>7, Zenon DEF IsStrictPrefix, IsPrefix
    <3>2. \A i \in 1..Len(a) : s[i] = a[i]
      <4>. TAKE i \in 1..Len(a)
      <4>1. SubSeq(a, 1, Len(a))[i] = a[i] /\ SubSeq(s, 1, Len(a))[i] = s[i]
        BY <1>1, <1>2, <3>1
      <4>. QED  BY <3>1, <4>1, Zenon
    <3>3. Len(a) # Len(s)
      BY <1>1, <1>2, <3>1, <3>2, SeqEqual
    <3>. QED  BY <1>1, <1>2, <3>1, <3>2, <3>3
  <2>1. Continues(a, s)
    <3>. HIDE DEF s, e
    <3>. QED  BY <1>1, <1>2, <2>0 DEF Continues
  <2>2. DeserializeTransaction(s) = Extended(e, s)
    BY <1>2, <1>7, <2>1, TransactionExtends, Zenon
  <2>3. DeserializeTransaction(s).index = Len(s)
    BY <1>1, TransactionExact, Zenon
  <2>. HIDE DEF e, s
  <2>4. Extended(e, s).index = e.index
    BY <1>6, <2>1, ExtendedFields
  <2>5. e.index = Len(s) /\ e.index <= Len(a)
    BY <1>6, <2>2, <2>3, <2>4 DEF Reader
  <2>. QED  BY <1>1, <1>2, <2>0, <2>5
<1>8. e.state \in {"ok", "throw", "beyond"}
  BY <1>6, Zenon DEF Reader
<1>. HIDE DEF e, s
<1>9. IsStrictPrefix(a, s) => e.state = "throw"
  BY <1>6, <1>7, <1>8, Zenon
<1>. QED  BY <1>4, <1>6, <1>9, Zenon DEF Reads, e, s

-----------------------------------------------------------------------------
(* Folds *)

\* A set of numbers up to n that is not empty has a greatest element.
LEMMA Greatest ==
  ASSUME NEW n \in Nat, NEW s, s \subseteq 1..n, s # {}
  PROVE  Max(s) \in s /\ \A y \in s : Max(s) >= y
<1>. DEFINE B == {b \in Nat : \A y \in s : y <= b}
<1>1. n \in B /\ B \subseteq Nat
  OBVIOUS
<1>2. PICK b \in B : \A c \in B : b <= c
  BY <1>1, LeastNumber, Zenon
<1>3. b \in s
  <2>. SUFFICES ASSUME b \notin s PROVE FALSE
    OBVIOUS
  <2>1. PICK z \in s : TRUE
    OBVIOUS
  <2>2. b \in Nat /\ b >= z /\ z >= 1
    BY <1>2, <2>1
  <2>3. b - 1 \in Nat /\ \A y \in s : y <= b - 1
    BY <1>2, <2>2
  <2>. QED  BY <1>2, <2>2, <2>3
<1>4. b \in s /\ \A y \in s : b >= y
  BY <1>2, <1>3
<1>. QED  BY <1>4, Zenon DEF Max

\* What folding from the greatest element down leaves for the next one.
LEMMA WithoutGreatest ==
  ASSUME NEW n \in Nat, NEW s, s \subseteq 1..n, s # {}
  PROVE  /\ Max(s) \in 1..n /\ s \ {Max(s)} \subseteq 1..n
         /\ s \ {Max(s)} # {} => Max(s \ {Max(s)}) < Max(s)
<1>. DEFINE m == Max(s)
            t == s \ {m}
<1>1. m \in s /\ \A y \in s : m >= y
  BY Greatest, Zenon
<1>. HIDE DEF m
<1>2. m \in 1..n /\ t \subseteq 1..n
  BY <1>1
<1>3. ASSUME t # {} PROVE Max(t) < m
  <2>1. Max(t) \in t
    <3>. HIDE DEF t
    <3>. QED  BY <1>2, <1>3, Greatest, Zenon
  <2>. DEFINE k == Max(t)
  <2>. HIDE DEF k
  <2>2. k \in t
    BY <2>1, Zenon DEF k
  <2>3. k < m
    BY <1>1, <1>2, <2>2
  <2>. QED  BY <2>3, Zenon DEF k
<1>. QED  BY <1>2, <1>3, Zenon DEF m

\* The greatest of the first numbers, and the rest.
LEMMA FirstOnes ==
  ASSUME NEW i \in Nat, i # 0
  PROVE  Max(1..i) = i /\ (1..i) \ {i} = 1..(i - 1) /\ 1..i # {}
<1>1. i \in 1..i /\ \A y \in 1..i : i >= y
  OBVIOUS
<1>2. Max(1..i) \in 1..i /\ \A y \in 1..i : Max(1..i) >= y
  BY <1>1, Greatest, Zenon
<1>. DEFINE m == Max(1..i)
<1>. HIDE DEF m
<1>3. m = i
  <2>1. m \in 1..i /\ m >= i
    BY <1>1, <1>2, Zenon DEF m
  <2>. QED  BY <2>1
<1>4. (1..i) \ {i} = 1..(i - 1)
  OBVIOUS
<1>. QED  BY <1>1, <1>3, <1>4, Zenon DEF m

\* The values of a fold for every set of indices, the greatest index last.
FoldedSets(f, n, S, base, step) ==
  /\ f \in [SUBSET (1..n) -> S]
  /\ \A s \in SUBSET (1..n) : f[s] = IF s = {} THEN base ELSE step[Max(s)][f[s \ {Max(s)}]]

\* Folding over sets of numbers, greatest first, has a result.
LEMMA FoldExists ==
  ASSUME NEW n, n \in Nat, NEW S, NEW base, base \in S, NEW step, step \in [Nat -> [S -> S]]
  PROVE  \E f : FoldedSets(f, n, S, base, step)
<1>. DEFINE D == SUBSET (1..n)
            T == [D -> S]
            start == [s \in D |-> base]
            next(k, f) == [s \in D |-> IF s # {} /\ Max(s) = k THEN step[k][f[s \ {k}]] ELSE f[s]]
            big == [k \in Nat |-> [f \in T |-> next(k, f)]]
<1>1. start \in T
  OBVIOUS
<1>2. ASSUME NEW k \in Nat, NEW f \in T PROVE next(k, f) \in T
  <2>1. ASSUME NEW s \in D PROVE (IF s # {} /\ Max(s) = k THEN step[k][f[s \ {k}]] ELSE f[s]) \in S
    <3>1. s \ {k} \in D
      OBVIOUS
    <3>2. f[s] \in S /\ f[s \ {k}] \in S
      BY <3>1, Zenon
    <3>3. step[k] \in [S -> S]
      BY Zenon
    <3>4. step[k][f[s \ {k}]] \in S
      BY <3>2, <3>3, Zenon
    <3>. QED  BY <3>2, <3>4, Zenon
  <2>. HIDE DEF D
  <2>. QED  BY <2>1, Zenon
<1>3. big \in [Nat -> [T -> T]]
  <2>. HIDE DEF T, next
  <2>1. \A k \in Nat : [f \in T |-> next(k, f)] \in [T -> T]
    BY <1>2, Zenon
  <2>. QED  BY <2>1, Zenon
<1>4. PICK G : Recursive(G, T, start, big)
  <2>. HIDE DEF T, start, big
  <2>. QED  BY <1>1, <1>3, RecursionExists, Zenon
<1>5. G \in [Nat -> T] /\ G[0] = start
  BY <1>4, Zenon DEF Recursive
<1>6. ASSUME NEW k \in Nat, k # 0 PROVE G[k] = next(k, G[k - 1]) /\ G[k - 1] \in T
  <2>1. G[k] = big[k][G[k - 1]]
    BY <1>4, <1>6, Zenon DEF Recursive
  <2>2. k - 1 \in Nat
    BY <1>6
  <2>3. G[k - 1] \in T
    BY <1>5, <2>2, Zenon
  <2>. HIDE DEF T, next
  <2>. QED  BY <2>1, <2>3, Zenon
<1>. DEFINE Top(s) == IF s = {} THEN 0 ELSE Max(s)
<1>7. ASSUME NEW s \in D PROVE Top(s) \in 0..n /\ \A k \in Nat : k >= Top(s) => G[k][s] = G[Top(s)][s]
  <2>1. Top(s) \in 0..n
    <3>1. CASE s = {}
      BY <3>1
    <3>2. CASE s # {}
      <4>1. Max(s) \in 1..n
        BY <3>2, WithoutGreatest
      <4>. DEFINE m == Max(s)
      <4>. HIDE DEF m
      <4>2. m \in 0..n
        BY <4>1 DEF m
      <4>. QED  BY <3>2, <4>2, Zenon DEF m
    <3>. QED  BY <3>1, <3>2, Zenon
  <2>. DEFINE t == Top(s)
              I == {k \in Nat : k >= t => G[k][s] = G[t][s]}
  <2>2. t \in Nat
    BY <2>1
  <2>3. ASSUME NEW k \in Nat, k + 1 > t PROVE G[k + 1][s] = G[k][s]
    <3>1. k + 1 \in Nat /\ k + 1 # 0 /\ (k + 1) - 1 = k
      OBVIOUS
    <3>2. G[k + 1] = next(k + 1, G[k])
      BY <1>6, <3>1, Zenon
    <3>3. s # {} => Max(s) # k + 1
      <4>1. s # {} => t = Max(s)
        OBVIOUS
      <4>2. t # k + 1
        <5>. HIDE DEF t
        <5>. QED  BY <2>2, <2>3
      <4>. QED  BY <4>1, <4>2, Zenon
    <3>4. next(k + 1, G[k])[s] = G[k][s]
      BY <3>3, Zenon
    <3>. QED  BY <3>2, <3>4, Zenon
  <2>. HIDE DEF t
  <2>4. 0 \in I
    <3>1. 0 >= t => t = 0
      BY <2>2
    <3>. QED  BY <3>1
  <2>5. ASSUME NEW k \in Nat, k \in I PROVE k + 1 \in I
    <3>1. CASE k + 1 > t
      <4>1. k >= t
        BY <2>2, <3>1
      <4>2. G[k][s] = G[t][s]
        BY <2>5, <4>1
      <4>. QED  BY <2>3, <3>1, <4>2
    <3>2. CASE ~(k + 1 > t)
      <4>1. k + 1 >= t => k + 1 = t
        BY <2>2, <3>2
      <4>. QED  BY <4>1
    <3>. QED  BY <3>1, <3>2, Zenon
  <2>6. \A k \in Nat : k \in I
    <3>. HIDE DEF I
    <3>. QED  BY <2>4, <2>5, InductionOver, Zenon
  <2>7. \A k \in Nat : k >= t => G[k][s] = G[t][s]
    BY <2>6, Zenon
  <2>. QED  BY <2>1, <2>7, Zenon DEF t
<1>. DEFINE f == G[n]
<1>8. f \in T
  BY <1>5, Zenon
<1>9. ASSUME NEW s \in D PROVE f[s] = IF s = {} THEN base ELSE step[Max(s)][f[s \ {Max(s)}]]
  <2>1. CASE s = {}
    <3>1. Top(s) = 0 /\ n >= 0
      BY <2>1
    <3>2. f[s] = G[0][s]
      BY <1>7, <3>1, Zenon
    <3>3. G[0][s] = base
      BY <1>5, Zenon
    <3>. QED  BY <2>1, <3>2, <3>3, Zenon
  <2>2. CASE s # {}
    <3>. DEFINE m == Max(s)
                t == s \ {m}
    <3>1. m \in 1..n /\ t \in D /\ (t # {} => Max(t) < m)
      BY <2>2, WithoutGreatest
    <3>2. Top(s) = m
      BY <2>2, Zenon
    <3>. HIDE DEF m
    <3>3. n >= m /\ m \in Nat /\ m # 0 /\ m - 1 \in Nat
      BY <3>1
    <3>4. f[s] = G[m][s]
      BY <1>7, <3>2, <3>3, Zenon
    <3>5. G[m][s] = step[m][G[m - 1][t]]
      <4>1. G[m] = next(m, G[m - 1])
        BY <1>6, <3>3, Zenon
      <4>2. next(m, G[m - 1])[s] = step[m][G[m - 1][t]]
        BY <2>2, Zenon DEF m
      <4>. QED  BY <4>1, <4>2, Zenon
    <3>6. G[m - 1][t] = f[t]
      <4>1. Top(t) \in 0..n /\ \A k \in Nat : k >= Top(t) => G[k][t] = G[Top(t)][t]
        BY <1>7, <3>1, Zenon
      <4>2. t # {} => Top(t) = Max(t)
        BY Zenon
      <4>3. t = {} => Top(t) = 0
        BY Zenon
      <4>. DEFINE u == Top(t)
      <4>. HIDE DEF u, t
      <4>4. u \in 0..n /\ (t # {} => u < m) /\ (t = {} => u = 0)
        BY <3>1, <4>1, <4>2, <4>3, Zenon DEF u, t
      <4>5. m - 1 >= u /\ n >= u
        BY <3>3, <4>4
      <4>. QED  BY <3>3, <4>1, <4>5, Zenon DEF u, t
    <3>. QED  BY <2>2, <3>4, <3>5, <3>6, Zenon DEF m
  <2>. QED  BY <2>1, <2>2, Zenon
<1>10. FoldedSets(f, n, S, base, step)
  <2>. HIDE DEF f
  <2>. QED  BY <1>8, <1>9, Zenon DEF FoldedSets
<1>. QED  BY <1>10, Zenon

-----------------------------------------------------------------------------
(* Sums and copies of any length *)

\* The sum of points is a point.
LEMMA PointSumType ==
  ASSUME NEW a \in Point, NEW b \in Point
  PROVE  PointSum(a, b) \in Point
  BY OrderIsNat, DivMod DEF PointSum, Point, Scalar

\* The sum of scalars is a scalar.
LEMMA ScalarSumType ==
  ASSUME NEW a \in Scalar, NEW b \in Scalar
  PROVE  (a + b) % Order \in Scalar
  BY OrderIsNat, DivMod DEF Scalar

\* A copy with one element more.
Copied(copy, x, zero) == IF x = zero THEN copy ELSE Append(copy, x)

\* Zero and infinity are a scalar and a point.
LEMMA InfinityType == Infinity \in Point /\ 0 \in Scalar
  BY OrderIsNat DEF Infinity, Point, Scalar

\* A copy is a sequence.
LEMMA CopiedType ==
  ASSUME NEW E, NEW copy \in Seq(E), NEW x \in E, NEW zero
  PROVE  Copied(copy, x, zero) \in Seq(E)
  BY AppendProperties DEF Copied

\* g holds the values of SumOf for the beginnings of seq.
PartialSums(seq, g) ==
  g[0] = Infinity /\ \A i \in 1..Len(seq) : g[i] = PointSum(g[i - 1], seq[i])

\* SumOf adds up the points one by one.
LEMMA SumOfUnfolds ==
  ASSUME NEW seq, seq \in Seq(Point)
  PROVE  \E g : PartialSums(seq, g) /\ SumOf(seq) = g[Len(seq)]
<1>. DEFINE n == Len(seq)
            D == 1..n
            H(g, s) == IF s = {} THEN Infinity ELSE PointSum(g[s \ {Max(s)}], seq[Max(s)])
            F(g) == [s \in SUBSET D |-> H(g, s)]
            iter == CHOOSE g : g = F(g)
            S == Point
            step == [k \in Nat |-> [a \in S |-> IF k \in D THEN PointSum(a, seq[k]) ELSE a]]
<1>1. n \in Nat /\ DOMAIN seq = D /\ \A k \in D : k \in Nat /\ seq[k] \in Point
  OBVIOUS
<1>2. SumOf(seq) = iter[D]
  <2>. DEFINE it(d) == CHOOSE g : g = [s \in SUBSET d |-> IF s = {} THEN Infinity ELSE PointSum(g[s \ {Max(s)}], seq[Max(s)])]
  <2>1. SumOf(seq) = it(DOMAIN seq)[DOMAIN seq]
    BY DEF SumOf, FoldLeft, MapThenFoldSet
  <2>2. it(D) = iter
    BY Zenon
  <2>. HIDE DEF it, iter
  <2>. QED  BY <1>1, <2>1, <2>2, Zenon
<1>3. Infinity \in S /\ \A k \in D : \A a \in S : PointSum(a, seq[k]) \in S
  BY <1>1, InfinityType, PointSumType, Zenon
<1>4. step \in [Nat -> [S -> S]]
  <2>. HIDE DEF S, D
  <2>1. \A k \in Nat : [a \in S |-> IF k \in D THEN PointSum(a, seq[k]) ELSE a] \in [S -> S]
    <3>. TAKE k \in Nat
    <3>1. \A a \in S : (IF k \in D THEN PointSum(a, seq[k]) ELSE a) \in S
      BY <1>3, Zenon
    <3>. QED  BY <3>1, Zenon
  <2>. QED  BY <2>1, Zenon
<1>. HIDE DEF S
<1>5. \A k \in D : \A a \in S : step[k][a] = PointSum(a, seq[k])
  BY <1>1, Zenon
<1>. HIDE DEF step
<1>6. PICK f : FoldedSets(f, n, S, Infinity, step)
  BY <1>1, <1>3, <1>4, FoldExists, Zenon
<1>7. f = F(f)
  <2>1. ASSUME NEW s \in SUBSET D PROVE f[s] = H(f, s)
    <3>1. f[s] = IF s = {} THEN Infinity ELSE step[Max(s)][f[s \ {Max(s)}]]
      BY <1>6, Zenon DEF FoldedSets
    <3>2. ASSUME s # {} PROVE Max(s) \in D /\ s \ {Max(s)} \in SUBSET D
      BY <1>1, <3>2, WithoutGreatest
    <3>3. ASSUME s # {} PROVE f[s \ {Max(s)}] \in S
      BY <1>6, <3>2, <3>3, Zenon DEF FoldedSets
    <3>4. ASSUME s # {} PROVE step[Max(s)][f[s \ {Max(s)}]] = PointSum(f[s \ {Max(s)}], seq[Max(s)])
      BY <1>5, <3>2, <3>3, <3>4, Zenon
    <3>. QED  BY <3>1, <3>4, Zenon
  <2>2. f = [s \in SUBSET D |-> f[s]]
    BY <1>6, Zenon DEF FoldedSets
  <2>. HIDE DEF H
  <2>3. F(f) = [s \in SUBSET D |-> f[s]]
    BY <2>1, Zenon
  <2>. QED  BY <2>2, <2>3, Zenon
<1>8. iter = F(iter)
  <2>. HIDE DEF F
  <2>. QED  BY <1>7, Zenon
<1>. HIDE DEF iter
<1>9. \A s \in SUBSET D : iter[s] = H(iter, s)
  <2>. HIDE DEF H
  <2>. QED  BY <1>8, Zenon
<1>. DEFINE g == [i \in 0..n |-> iter[1..i]]
<1>10. g[0] = Infinity
  <2>1. g[0] = iter[1..0] /\ 1..0 = {}
    BY <1>1
  <2>2. {} \in SUBSET D
    OBVIOUS
  <2>. HIDE DEF g
  <2>. QED  BY <1>9, <2>1, <2>2, Zenon
<1>11. ASSUME NEW i \in D PROVE g[i] = PointSum(g[i - 1], seq[i])
  <2>1. i \in Nat /\ i # 0 /\ i \in 0..n /\ i - 1 \in 0..n /\ 1..i \in SUBSET D
    BY <1>1
  <2>2. Max(1..i) = i /\ (1..i) \ {i} = 1..(i - 1) /\ 1..i # {}
    BY <2>1, FirstOnes, Zenon
  <2>3. g[i] = iter[1..i] /\ g[i - 1] = iter[1..(i - 1)]
    BY <2>1, Zenon
  <2>. HIDE DEF g
  <2>4. iter[1..i] = PointSum(iter[(1..i) \ {Max(1..i)}], seq[Max(1..i)])
    BY <1>9, <2>1, <2>2, Zenon
  <2>5. iter[1..i] = PointSum(iter[1..(i - 1)], seq[i])
    BY <2>2, <2>4, Zenon
  <2>. QED  BY <2>3, <2>5, Zenon
<1>12. g[n] = iter[D]
  <2>1. n \in 0..n
    BY <1>1
  <2>. QED  BY <2>1, Zenon
<1>13. PartialSums(seq, g)
  <2>. HIDE DEF g
  <2>. QED  BY <1>10, <1>11, Zenon DEF PartialSums
<1>. HIDE DEF g
<1>. QED  BY <1>2, <1>12, <1>13, Zenon

\* The sum of points, one after the other.
LEMMA SumOfAppend ==
  ASSUME NEW seq, seq \in Seq(Point)
  PROVE  /\ SumOf(<<>>) = Infinity /\ SumOf(seq) \in Point
         /\ \A x \in Point : SumOf(Append(seq, x)) = PointSum(SumOf(seq), x)
<1>. DEFINE n == Len(seq)
            S == Point
<1>0. n \in Nat /\ \A i \in 1..n : seq[i] \in Point
  OBVIOUS
<1>1. PICK g : PartialSums(seq, g) /\ SumOf(seq) = g[n]
  BY SumOfUnfolds, Zenon
<1>2. SumOf(<<>>) = Infinity
  <2>1. <<>> \in Seq(Point) /\ Len(<<>>) = 0
    BY EmptySeq, Zenon
  <2>2. PICK h : PartialSums(<<>>, h) /\ SumOf(<<>>) = h[Len(<<>>)]
    BY <2>1, SumOfUnfolds, Zenon
  <2>. QED  BY <2>1, <2>2, Zenon DEF PartialSums
<1>3. SumOf(seq) \in S
  <2>. DEFINE I == {i \in Nat : i <= n => g[i] \in S}
  <2>1. 0 \in I
    <3>1. g[0] \in S
      BY <1>1, InfinityType, PointSumType, Zenon DEF PartialSums
    <3>. HIDE DEF S
    <3>. QED  BY <3>1
  <2>2. ASSUME NEW i \in Nat, i \in I PROVE i + 1 \in I
    <3>. SUFFICES ASSUME i + 1 <= n PROVE g[i + 1] \in S
      OBVIOUS
    <3>1. i + 1 \in 1..n /\ (i + 1) - 1 = i
      BY <1>0
    <3>2. g[i] \in S
      <4>. HIDE DEF S
      <4>. QED  BY <1>0, <2>2
    <3>3. g[i + 1] = PointSum(g[i], seq[i + 1])
      BY <1>1, <3>1, Zenon DEF PartialSums
    <3>4. seq[i + 1] \in Point
      BY <1>0, <3>1, Zenon
    <3>. QED  BY <3>2, <3>3, <3>4, InfinityType, PointSumType, Zenon
  <2>3. n \in I
    <3>. HIDE DEF I
    <3>. QED  BY <1>0, <2>1, <2>2, InductionOver, Zenon
  <2>4. g[n] \in S
    <3>. HIDE DEF S
    <3>. QED  BY <1>0, <2>3
  <2>. QED  BY <1>1, <2>4, Zenon
<1>4. ASSUME NEW x \in Point PROVE SumOf(Append(seq, x)) = PointSum(SumOf(seq), x)
  <2>. DEFINE t == Append(seq, x)
  <2>1. t \in Seq(Point) /\ Len(t) = n + 1 /\ t[n + 1] = x /\ \A i \in 1..n : t[i] = seq[i]
    BY AppendProperties
  <2>. HIDE DEF t
  <2>2. PICK h : PartialSums(t, h) /\ SumOf(t) = h[Len(t)]
    BY <2>1, SumOfUnfolds, Zenon
  <2>. DEFINE I == {i \in Nat : i <= n => h[i] = g[i]}
  <2>3. 0 \in I
    <3>1. h[0] = g[0]
      BY <1>1, <2>2, Zenon DEF PartialSums
    <3>. QED  BY <3>1
  <2>4. ASSUME NEW i \in Nat, i \in I PROVE i + 1 \in I
    <3>. SUFFICES ASSUME i + 1 <= n PROVE h[i + 1] = g[i + 1]
      OBVIOUS
    <3>1. i + 1 \in 1..n /\ i + 1 \in 1..Len(t) /\ (i + 1) - 1 = i
      BY <1>0, <2>1
    <3>2. h[i] = g[i]
      BY <1>0, <2>4
    <3>3. h[i + 1] = PointSum(h[i], t[i + 1])
      BY <2>2, <3>1, Zenon DEF PartialSums
    <3>4. g[i + 1] = PointSum(g[i], seq[i + 1])
      BY <1>1, <3>1, Zenon DEF PartialSums
    <3>. QED  BY <2>1, <3>1, <3>2, <3>3, <3>4, Zenon
  <2>5. n \in I
    <3>. HIDE DEF I
    <3>. QED  BY <1>0, <2>3, <2>4, InductionOver, Zenon
  <2>6. h[n] = g[n]
    BY <1>0, <2>5
  <2>7. h[n + 1] = PointSum(h[n], t[n + 1])
    <3>1. n + 1 \in 1..Len(t) /\ (n + 1) - 1 = n
      BY <1>0, <2>1
    <3>. QED  BY <2>2, <3>1, Zenon DEF PartialSums
  <2>8. SumOf(t) = h[n + 1]
    BY <2>1, <2>2, Zenon
  <2>. QED  BY <1>1, <2>1, <2>6, <2>7, <2>8, Zenon DEF t
<1>. QED  BY <1>2, <1>3, <1>4, Zenon

\* g holds the values of ScalarSum for the beginnings of seq.
PartialScalarSums(seq, g) ==
  g[0] = 0 /\ \A i \in 1..Len(seq) : g[i] = ((g[i - 1] + seq[i]) % Order)

\* ScalarSum adds up the scalars one by one.
LEMMA ScalarSumUnfolds ==
  ASSUME NEW seq, seq \in Seq(Scalar)
  PROVE  \E g : PartialScalarSums(seq, g) /\ ScalarSum(seq) = g[Len(seq)]
<1>. DEFINE n == Len(seq)
            D == 1..n
            H(g, s) == IF s = {} THEN 0 ELSE ((g[s \ {Max(s)}] + seq[Max(s)]) % Order)
            F(g) == [s \in SUBSET D |-> H(g, s)]
            iter == CHOOSE g : g = F(g)
            S == Scalar
            step == [k \in Nat |-> [a \in S |-> IF k \in D THEN ((a + seq[k]) % Order) ELSE a]]
<1>1. n \in Nat /\ DOMAIN seq = D /\ \A k \in D : k \in Nat /\ seq[k] \in Scalar
  OBVIOUS
<1>2. ScalarSum(seq) = iter[D]
  <2>. DEFINE it(d) == CHOOSE g : g = [s \in SUBSET d |-> IF s = {} THEN 0 ELSE ((g[s \ {Max(s)}] + seq[Max(s)]) % Order)]
  <2>1. ScalarSum(seq) = it(DOMAIN seq)[DOMAIN seq]
    BY DEF ScalarSum, FoldLeft, MapThenFoldSet
  <2>2. it(D) = iter
    BY Zenon
  <2>. HIDE DEF it, iter
  <2>. QED  BY <1>1, <2>1, <2>2, Zenon
<1>3. 0 \in S /\ \A k \in D : \A a \in S : ((a + seq[k]) % Order) \in S
  BY <1>1, InfinityType, ScalarSumType, Zenon
<1>4. step \in [Nat -> [S -> S]]
  <2>. HIDE DEF S, D
  <2>1. \A k \in Nat : [a \in S |-> IF k \in D THEN ((a + seq[k]) % Order) ELSE a] \in [S -> S]
    <3>. TAKE k \in Nat
    <3>1. \A a \in S : (IF k \in D THEN ((a + seq[k]) % Order) ELSE a) \in S
      BY <1>3, Zenon
    <3>. QED  BY <3>1, Zenon
  <2>. QED  BY <2>1, Zenon
<1>. HIDE DEF S
<1>5. \A k \in D : \A a \in S : step[k][a] = ((a + seq[k]) % Order)
  BY <1>1, Zenon
<1>. HIDE DEF step
<1>6. PICK f : FoldedSets(f, n, S, 0, step)
  BY <1>1, <1>3, <1>4, FoldExists, Zenon
<1>7. f = F(f)
  <2>1. ASSUME NEW s \in SUBSET D PROVE f[s] = H(f, s)
    <3>1. f[s] = IF s = {} THEN 0 ELSE step[Max(s)][f[s \ {Max(s)}]]
      BY <1>6, Zenon DEF FoldedSets
    <3>2. ASSUME s # {} PROVE Max(s) \in D /\ s \ {Max(s)} \in SUBSET D
      BY <1>1, <3>2, WithoutGreatest
    <3>3. ASSUME s # {} PROVE f[s \ {Max(s)}] \in S
      BY <1>6, <3>2, <3>3, Zenon DEF FoldedSets
    <3>4. ASSUME s # {} PROVE step[Max(s)][f[s \ {Max(s)}]] = ((f[s \ {Max(s)}] + seq[Max(s)]) % Order)
      BY <1>5, <3>2, <3>3, <3>4, Zenon
    <3>. QED  BY <3>1, <3>4, Zenon
  <2>2. f = [s \in SUBSET D |-> f[s]]
    BY <1>6, Zenon DEF FoldedSets
  <2>. HIDE DEF H
  <2>3. F(f) = [s \in SUBSET D |-> f[s]]
    BY <2>1, Zenon
  <2>. QED  BY <2>2, <2>3, Zenon
<1>8. iter = F(iter)
  <2>. HIDE DEF F
  <2>. QED  BY <1>7, Zenon
<1>. HIDE DEF iter
<1>9. \A s \in SUBSET D : iter[s] = H(iter, s)
  <2>. HIDE DEF H
  <2>. QED  BY <1>8, Zenon
<1>. DEFINE g == [i \in 0..n |-> iter[1..i]]
<1>10. g[0] = 0
  <2>1. g[0] = iter[1..0] /\ 1..0 = {}
    BY <1>1
  <2>2. {} \in SUBSET D
    OBVIOUS
  <2>. HIDE DEF g
  <2>. QED  BY <1>9, <2>1, <2>2, Zenon
<1>11. ASSUME NEW i \in D PROVE g[i] = ((g[i - 1] + seq[i]) % Order)
  <2>1. i \in Nat /\ i # 0 /\ i \in 0..n /\ i - 1 \in 0..n /\ 1..i \in SUBSET D
    BY <1>1
  <2>2. Max(1..i) = i /\ (1..i) \ {i} = 1..(i - 1) /\ 1..i # {}
    BY <2>1, FirstOnes, Zenon
  <2>3. g[i] = iter[1..i] /\ g[i - 1] = iter[1..(i - 1)]
    BY <2>1, Zenon
  <2>. HIDE DEF g
  <2>4. iter[1..i] = ((iter[(1..i) \ {Max(1..i)}] + seq[Max(1..i)]) % Order)
    BY <1>9, <2>1, <2>2, Zenon
  <2>5. iter[1..i] = ((iter[1..(i - 1)] + seq[i]) % Order)
    BY <2>2, <2>4, Zenon
  <2>. QED  BY <2>3, <2>5, Zenon
<1>12. g[n] = iter[D]
  <2>1. n \in 0..n
    BY <1>1
  <2>. QED  BY <2>1, Zenon
<1>13. PartialScalarSums(seq, g)
  <2>. HIDE DEF g
  <2>. QED  BY <1>10, <1>11, Zenon DEF PartialScalarSums
<1>. HIDE DEF g
<1>. QED  BY <1>2, <1>12, <1>13, Zenon

\* The sum of scalars, one after the other.
LEMMA ScalarSumAppend ==
  ASSUME NEW seq, seq \in Seq(Scalar)
  PROVE  /\ ScalarSum(<<>>) = 0 /\ ScalarSum(seq) \in Scalar
         /\ \A x \in Scalar : ScalarSum(Append(seq, x)) = ((ScalarSum(seq) + x) % Order)
<1>. DEFINE n == Len(seq)
            S == Scalar
<1>0. n \in Nat /\ \A i \in 1..n : seq[i] \in Scalar
  OBVIOUS
<1>1. PICK g : PartialScalarSums(seq, g) /\ ScalarSum(seq) = g[n]
  BY ScalarSumUnfolds, Zenon
<1>2. ScalarSum(<<>>) = 0
  <2>1. <<>> \in Seq(Scalar) /\ Len(<<>>) = 0
    BY EmptySeq, Zenon
  <2>2. PICK h : PartialScalarSums(<<>>, h) /\ ScalarSum(<<>>) = h[Len(<<>>)]
    BY <2>1, ScalarSumUnfolds, Zenon
  <2>. QED  BY <2>1, <2>2, Zenon DEF PartialScalarSums
<1>3. ScalarSum(seq) \in S
  <2>. DEFINE I == {i \in Nat : i <= n => g[i] \in S}
  <2>1. 0 \in I
    <3>1. g[0] \in S
      BY <1>1, InfinityType, ScalarSumType, Zenon DEF PartialScalarSums
    <3>. HIDE DEF S
    <3>. QED  BY <3>1
  <2>2. ASSUME NEW i \in Nat, i \in I PROVE i + 1 \in I
    <3>. SUFFICES ASSUME i + 1 <= n PROVE g[i + 1] \in S
      OBVIOUS
    <3>1. i + 1 \in 1..n /\ (i + 1) - 1 = i
      BY <1>0
    <3>2. g[i] \in S
      <4>. HIDE DEF S
      <4>. QED  BY <1>0, <2>2
    <3>3. g[i + 1] = ((g[i] + seq[i + 1]) % Order)
      BY <1>1, <3>1, Zenon DEF PartialScalarSums
    <3>4. seq[i + 1] \in Scalar
      BY <1>0, <3>1, Zenon
    <3>. QED  BY <3>2, <3>3, <3>4, InfinityType, ScalarSumType, Zenon
  <2>3. n \in I
    <3>. HIDE DEF I
    <3>. QED  BY <1>0, <2>1, <2>2, InductionOver, Zenon
  <2>4. g[n] \in S
    <3>. HIDE DEF S
    <3>. QED  BY <1>0, <2>3
  <2>. QED  BY <1>1, <2>4, Zenon
<1>4. ASSUME NEW x \in Scalar PROVE ScalarSum(Append(seq, x)) = ((ScalarSum(seq) + x) % Order)
  <2>. DEFINE t == Append(seq, x)
  <2>1. t \in Seq(Scalar) /\ Len(t) = n + 1 /\ t[n + 1] = x /\ \A i \in 1..n : t[i] = seq[i]
    BY AppendProperties
  <2>. HIDE DEF t
  <2>2. PICK h : PartialScalarSums(t, h) /\ ScalarSum(t) = h[Len(t)]
    BY <2>1, ScalarSumUnfolds, Zenon
  <2>. DEFINE I == {i \in Nat : i <= n => h[i] = g[i]}
  <2>3. 0 \in I
    <3>1. h[0] = g[0]
      BY <1>1, <2>2, Zenon DEF PartialScalarSums
    <3>. QED  BY <3>1
  <2>4. ASSUME NEW i \in Nat, i \in I PROVE i + 1 \in I
    <3>. SUFFICES ASSUME i + 1 <= n PROVE h[i + 1] = g[i + 1]
      OBVIOUS
    <3>1. i + 1 \in 1..n /\ i + 1 \in 1..Len(t) /\ (i + 1) - 1 = i
      BY <1>0, <2>1
    <3>2. h[i] = g[i]
      BY <1>0, <2>4
    <3>3. h[i + 1] = ((h[i] + t[i + 1]) % Order)
      BY <2>2, <3>1, Zenon DEF PartialScalarSums
    <3>4. g[i + 1] = ((g[i] + seq[i + 1]) % Order)
      BY <1>1, <3>1, Zenon DEF PartialScalarSums
    <3>. QED  BY <2>1, <3>1, <3>2, <3>3, <3>4, Zenon
  <2>5. n \in I
    <3>. HIDE DEF I
    <3>. QED  BY <1>0, <2>3, <2>4, InductionOver, Zenon
  <2>6. h[n] = g[n]
    BY <1>0, <2>5
  <2>7. h[n + 1] = ((h[n] + t[n + 1]) % Order)
    <3>1. n + 1 \in 1..Len(t) /\ (n + 1) - 1 = n
      BY <1>0, <2>1
    <3>. QED  BY <2>2, <3>1, Zenon DEF PartialScalarSums
  <2>8. ScalarSum(t) = h[n + 1]
    BY <2>1, <2>2, Zenon
  <2>. QED  BY <1>1, <2>1, <2>6, <2>7, <2>8, Zenon DEF t
<1>. QED  BY <1>2, <1>3, <1>4, Zenon

\* g holds the values of Copy for the beginnings of seq.
PartialCopies(zero, seq, g) ==
  g[0] = <<>> /\ \A i \in 1..Len(seq) : g[i] = Copied(g[i - 1], seq[i], zero)

\* CopyNonZero goes through the elements one by one.
LEMMA CopyUnfolds ==
  ASSUME NEW E, NEW zero, NEW seq, seq \in Seq(E)
  PROVE  \E g : PartialCopies(zero, seq, g) /\ CopyNonZero(seq, zero) = g[Len(seq)]
<1>. DEFINE n == Len(seq)
            D == 1..n
            H(g, s) == IF s = {} THEN <<>> ELSE Copied(g[s \ {Max(s)}], seq[Max(s)], zero)
            F(g) == [s \in SUBSET D |-> H(g, s)]
            iter == CHOOSE g : g = F(g)
            S == Seq(E)
            step == [k \in Nat |-> [a \in S |-> IF k \in D THEN Copied(a, seq[k], zero) ELSE a]]
<1>1. n \in Nat /\ DOMAIN seq = D /\ \A k \in D : k \in Nat /\ seq[k] \in E
  OBVIOUS
<1>2. CopyNonZero(seq, zero) = iter[D]
  <2>. DEFINE it(d) == CHOOSE g : g = [s \in SUBSET d |-> IF s = {} THEN <<>> ELSE Copied(g[s \ {Max(s)}], seq[Max(s)], zero)]
  <2>1. CopyNonZero(seq, zero) = it(DOMAIN seq)[DOMAIN seq]
    BY DEF CopyNonZero, Copied, FoldLeft, MapThenFoldSet
  <2>2. it(D) = iter
    BY Zenon
  <2>. HIDE DEF it, iter
  <2>. QED  BY <1>1, <2>1, <2>2, Zenon
<1>3. <<>> \in S /\ \A k \in D : \A a \in S : Copied(a, seq[k], zero) \in S
  BY <1>1, EmptySeq, CopiedType, Zenon
<1>4. step \in [Nat -> [S -> S]]
  <2>. HIDE DEF S, D
  <2>1. \A k \in Nat : [a \in S |-> IF k \in D THEN Copied(a, seq[k], zero) ELSE a] \in [S -> S]
    <3>. TAKE k \in Nat
    <3>1. \A a \in S : (IF k \in D THEN Copied(a, seq[k], zero) ELSE a) \in S
      BY <1>3, Zenon
    <3>. QED  BY <3>1, Zenon
  <2>. QED  BY <2>1, Zenon
<1>. HIDE DEF S
<1>5. \A k \in D : \A a \in S : step[k][a] = Copied(a, seq[k], zero)
  BY <1>1, Zenon
<1>. HIDE DEF step
<1>6. PICK f : FoldedSets(f, n, S, <<>>, step)
  BY <1>1, <1>3, <1>4, FoldExists, Zenon
<1>7. f = F(f)
  <2>1. ASSUME NEW s \in SUBSET D PROVE f[s] = H(f, s)
    <3>1. f[s] = IF s = {} THEN <<>> ELSE step[Max(s)][f[s \ {Max(s)}]]
      BY <1>6, Zenon DEF FoldedSets
    <3>2. ASSUME s # {} PROVE Max(s) \in D /\ s \ {Max(s)} \in SUBSET D
      BY <1>1, <3>2, WithoutGreatest
    <3>3. ASSUME s # {} PROVE f[s \ {Max(s)}] \in S
      BY <1>6, <3>2, <3>3, Zenon DEF FoldedSets
    <3>4. ASSUME s # {} PROVE step[Max(s)][f[s \ {Max(s)}]] = Copied(f[s \ {Max(s)}], seq[Max(s)], zero)
      BY <1>5, <3>2, <3>3, <3>4, Zenon
    <3>. QED  BY <3>1, <3>4, Zenon
  <2>2. f = [s \in SUBSET D |-> f[s]]
    BY <1>6, Zenon DEF FoldedSets
  <2>. HIDE DEF H
  <2>3. F(f) = [s \in SUBSET D |-> f[s]]
    BY <2>1, Zenon
  <2>. QED  BY <2>2, <2>3, Zenon
<1>8. iter = F(iter)
  <2>. HIDE DEF F
  <2>. QED  BY <1>7, Zenon
<1>. HIDE DEF iter
<1>9. \A s \in SUBSET D : iter[s] = H(iter, s)
  <2>. HIDE DEF H
  <2>. QED  BY <1>8, Zenon
<1>. DEFINE g == [i \in 0..n |-> iter[1..i]]
<1>10. g[0] = <<>>
  <2>1. g[0] = iter[1..0] /\ 1..0 = {}
    BY <1>1
  <2>2. {} \in SUBSET D
    OBVIOUS
  <2>. HIDE DEF g
  <2>. QED  BY <1>9, <2>1, <2>2, Zenon
<1>11. ASSUME NEW i \in D PROVE g[i] = Copied(g[i - 1], seq[i], zero)
  <2>1. i \in Nat /\ i # 0 /\ i \in 0..n /\ i - 1 \in 0..n /\ 1..i \in SUBSET D
    BY <1>1
  <2>2. Max(1..i) = i /\ (1..i) \ {i} = 1..(i - 1) /\ 1..i # {}
    BY <2>1, FirstOnes, Zenon
  <2>3. g[i] = iter[1..i] /\ g[i - 1] = iter[1..(i - 1)]
    BY <2>1, Zenon
  <2>. HIDE DEF g
  <2>4. iter[1..i] = Copied(iter[(1..i) \ {Max(1..i)}], seq[Max(1..i)], zero)
    BY <1>9, <2>1, <2>2, Zenon
  <2>5. iter[1..i] = Copied(iter[1..(i - 1)], seq[i], zero)
    BY <2>2, <2>4, Zenon
  <2>. QED  BY <2>3, <2>5, Zenon
<1>12. g[n] = iter[D]
  <2>1. n \in 0..n
    BY <1>1
  <2>. QED  BY <2>1, Zenon
<1>13. PartialCopies(zero, seq, g)
  <2>. HIDE DEF g
  <2>. QED  BY <1>10, <1>11, Zenon DEF PartialCopies
<1>. HIDE DEF g
<1>. QED  BY <1>2, <1>12, <1>13, Zenon

\* What is copied, one element after the other.
LEMMA CopyAppend ==
  ASSUME NEW E, NEW zero, NEW seq, seq \in Seq(E)
  PROVE  /\ CopyNonZero(<<>>, zero) = <<>> /\ CopyNonZero(seq, zero) \in Seq(E)
         /\ \A x \in E : CopyNonZero(Append(seq, x), zero) = Copied(CopyNonZero(seq, zero), x, zero)
<1>. DEFINE n == Len(seq)
            S == Seq(E)
<1>0. n \in Nat /\ \A i \in 1..n : seq[i] \in E
  OBVIOUS
<1>1. PICK g : PartialCopies(zero, seq, g) /\ CopyNonZero(seq, zero) = g[n]
  BY CopyUnfolds, Zenon
<1>2. CopyNonZero(<<>>, zero) = <<>>
  <2>1. <<>> \in Seq(E) /\ Len(<<>>) = 0
    BY EmptySeq, Zenon
  <2>2. PICK h : PartialCopies(zero, <<>>, h) /\ CopyNonZero(<<>>, zero) = h[Len(<<>>)]
    BY <2>1, CopyUnfolds, Zenon
  <2>. QED  BY <2>1, <2>2, Zenon DEF PartialCopies
<1>3. CopyNonZero(seq, zero) \in S
  <2>. DEFINE I == {i \in Nat : i <= n => g[i] \in S}
  <2>1. 0 \in I
    <3>1. g[0] \in S
      BY <1>1, EmptySeq, CopiedType, Zenon DEF PartialCopies
    <3>. HIDE DEF S
    <3>. QED  BY <3>1
  <2>2. ASSUME NEW i \in Nat, i \in I PROVE i + 1 \in I
    <3>. SUFFICES ASSUME i + 1 <= n PROVE g[i + 1] \in S
      OBVIOUS
    <3>1. i + 1 \in 1..n /\ (i + 1) - 1 = i
      BY <1>0
    <3>2. g[i] \in S
      <4>. HIDE DEF S
      <4>. QED  BY <1>0, <2>2
    <3>3. g[i + 1] = Copied(g[i], seq[i + 1], zero)
      BY <1>1, <3>1, Zenon DEF PartialCopies
    <3>4. seq[i + 1] \in E
      BY <1>0, <3>1, Zenon
    <3>. QED  BY <3>2, <3>3, <3>4, EmptySeq, CopiedType, Zenon
  <2>3. n \in I
    <3>. HIDE DEF I
    <3>. QED  BY <1>0, <2>1, <2>2, InductionOver, Zenon
  <2>4. g[n] \in S
    <3>. HIDE DEF S
    <3>. QED  BY <1>0, <2>3
  <2>. QED  BY <1>1, <2>4, Zenon
<1>4. ASSUME NEW x \in E PROVE CopyNonZero(Append(seq, x), zero) = Copied(CopyNonZero(seq, zero), x, zero)
  <2>. DEFINE t == Append(seq, x)
  <2>1. t \in Seq(E) /\ Len(t) = n + 1 /\ t[n + 1] = x /\ \A i \in 1..n : t[i] = seq[i]
    BY AppendProperties
  <2>. HIDE DEF t
  <2>2. PICK h : PartialCopies(zero, t, h) /\ CopyNonZero(t, zero) = h[Len(t)]
    BY <2>1, CopyUnfolds, Zenon
  <2>. DEFINE I == {i \in Nat : i <= n => h[i] = g[i]}
  <2>3. 0 \in I
    <3>1. h[0] = g[0]
      BY <1>1, <2>2, Zenon DEF PartialCopies
    <3>. QED  BY <3>1
  <2>4. ASSUME NEW i \in Nat, i \in I PROVE i + 1 \in I
    <3>. SUFFICES ASSUME i + 1 <= n PROVE h[i + 1] = g[i + 1]
      OBVIOUS
    <3>1. i + 1 \in 1..n /\ i + 1 \in 1..Len(t) /\ (i + 1) - 1 = i
      BY <1>0, <2>1
    <3>2. h[i] = g[i]
      BY <1>0, <2>4
    <3>3. h[i + 1] = Copied(h[i], t[i + 1], zero)
      BY <2>2, <3>1, Zenon DEF PartialCopies
    <3>4. g[i + 1] = Copied(g[i], seq[i + 1], zero)
      BY <1>1, <3>1, Zenon DEF PartialCopies
    <3>. QED  BY <2>1, <3>1, <3>2, <3>3, <3>4, Zenon
  <2>5. n \in I
    <3>. HIDE DEF I
    <3>. QED  BY <1>0, <2>3, <2>4, InductionOver, Zenon
  <2>6. h[n] = g[n]
    BY <1>0, <2>5
  <2>7. h[n + 1] = Copied(h[n], t[n + 1], zero)
    <3>1. n + 1 \in 1..Len(t) /\ (n + 1) - 1 = n
      BY <1>0, <2>1
    <3>. QED  BY <2>2, <3>1, Zenon DEF PartialCopies
  <2>8. CopyNonZero(t, zero) = h[n + 1]
    BY <2>1, <2>2, Zenon
  <2>. QED  BY <1>1, <2>1, <2>6, <2>7, <2>8, Zenon DEF t
<1>. QED  BY <1>2, <1>3, <1>4, Zenon

-----------------------------------------------------------------------------
(* Commitments and range proofs *)

\* A commitment is a point.
LEMMA PointsAreCommitments ==
  ASSUME NEW a
  PROVE  /\ a \in Commitment <=> a \in Point
         /\ a \in Point => a = <<a[1], a[2]>> /\ a[1] \in Scalar /\ a[2] \in Scalar
<1>1. ASSUME a \in Point PROVE a \in Commitment /\ a = <<a[1], a[2]>> /\ a[1] \in Scalar /\ a[2] \in Scalar
  BY <1>1 DEF Point, Commitment, BigInt
<1>2. ASSUME a \in Commitment PROVE a \in Point
  <2>1. a[1] \in Scalar /\ a[2] \in Scalar /\ a = <<a[1], a[2]>>
    BY <1>2 DEF Commitment, BigInt
  <2>. QED  BY <2>1 DEF Point
<1>. QED  BY <1>1, <1>2, Zenon

\* Small numbers are scalars: a group of order 4 is not of prime order.
LEMMA SmallScalars == Order >= 5 /\ 0 \in Scalar /\ 1 \in Scalar /\ 2 \in Scalar /\ 3 \in Scalar /\ 4 \in Scalar
<1>1. Order # 4
  <2>. SUFFICES ASSUME Order = 4 PROVE FALSE
    OBVIOUS
  <2>1. 2 \in 2..(Order - 1) /\ 4 % 2 = 0
    OBVIOUS
  <2>2. Order % 2 # 0
    BY <2>1, OrderAssumption, Zenon
  <2>. QED  BY <2>1, <2>2
<1>. QED  BY <1>1, OrderIsNat DEF Scalar

\* A commitment with a blinding factor is a point that is not infinity.
LEMMA CommitIs ==
  ASSUME NEW value \in Scalar, NEW b \in Scalar, value # 0 \/ b # 0
  PROVE  /\ CommitBlinded(value, b) = <<value, b>> /\ <<value, b>> \in Commitment
         /\ <<value, b>> \in Point /\ <<value, b>> # Infinity
<1>1. value % Order = value
  BY SmallMod, OrderIsNat DEF Scalar
<1>2. <<value, b>> \in Point /\ <<value, b>> # Infinity
  BY DEF Point, Infinity
<1>. QED  BY <1>1, <1>2, PointsAreCommitments, Zenon DEF CommitBlinded, PedersenCommit, EncodeCommitment

\* Three sequences one behind the other.
LEMMA ThreeParts ==
  ASSUME NEW a \in Seq(Scalar), NEW b \in Seq(Scalar), NEW c \in Seq(Scalar)
  PROVE  /\ a \o b \in Seq(Scalar) /\ a \o b \o c \in Seq(Scalar)
         /\ Len(a \o b) = Len(a) + Len(b)
         /\ Len(a \o b \o c) = Len(a) + Len(b) + Len(c)
<1>1. a \o b \in Seq(Scalar) /\ Len(a \o b) = Len(a) + Len(b)
  BY ConcatProperties, Zenon
<1>2. a \o b \o c \in Seq(Scalar) /\ Len(a \o b \o c) = Len(a \o b) + Len(c)
  BY <1>1, ConcatProperties, Zenon
<1>. QED  BY <1>1, <1>2, Zenon

\* The message of a proof, in its three parts.
Header(p) == IF p = "sender" THEN <<0, 0, 1, 2>> ELSE <<0, 0, 0, 0>>
Padding(p) == IF p = "sender" THEN <<0, 0>> ELSE <<0>>

\* A message is its header, the path of the key, and padding.
LEMMA MessageIs ==
  ASSUME NEW p \in Party, blind \in Scalar
  PROVE  /\ FromKeyIndices(Path(p), ProofType(p)) = Header(p) \o Path(p) \o Padding(p)
         /\ Header(p) \in Seq(Scalar) /\ Len(Header(p)) = 4
         /\ Path(p) \in Seq(Scalar) /\ Len(Path(p)) = (IF p = "sender" THEN 2 ELSE 3)
         /\ Padding(p) \in Seq(Scalar)
         /\ FromKeyIndices(Path(p), ProofType(p)) \in Seq(Scalar)
         /\ Len(FromKeyIndices(Path(p), ProofType(p))) = MessageSize
<1>1. CASE p = "sender"
  <2>1. /\ Path(p) = <<1, 2>> /\ ProofType(p) = "enhanced" /\ Header(p) = <<0, 0, 1, 2>> /\ Padding(p) = <<0, 0>>
    BY <1>1, Zenon DEF Path, ProofType, Header, Padding
  <2>2. <<1, 2>> \in Seq(Scalar) /\ Len(<<1, 2>>) = 2 /\ <<0, 0, 1, 2>> \in Seq(Scalar) /\ Len(<<0, 0, 1, 2>>) = 4
        /\ <<0, 0>> \in Seq(Scalar) /\ Len(<<0, 0>>) = 2
    BY SmallScalars
  <2>3. MessageSize - 4 - 2 = 2 /\ ~(2 < 0) /\ [i \in 1..2 |-> 0] = <<0, 0>>
    BY DEF MessageSize
  <2>. DEFINE path == <<1, 2>>
              pad == [i \in 1..2 |-> 0]
              head == <<0, 0, 1, 2>>
  <2>4. FromKeyIndices(path, "enhanced") = head \o path \o pad
    <3>. HIDE DEF path
    <3>. QED  BY <2>2, <2>3, Zenon DEF FromKeyIndices, path
  <2>5. head \o path \o <<0, 0>> \in Seq(Scalar) /\ Len(head \o path \o <<0, 0>>) = Len(head) + Len(path) + Len(<<0, 0>>)
    <3>. DEFINE q == <<0, 0>>
    <3>. HIDE DEF head, path, q
    <3>. QED  BY <2>2, ThreeParts, ZenonT(30) DEF head, path, q
  <2>6. Len(head) + Len(path) + Len(<<0, 0>>) = MessageSize
    BY <2>2 DEF MessageSize
  <2>. HIDE DEF head, path, pad
  <2>. QED  BY <1>1, <2>1, <2>2, <2>3, <2>4, <2>5, <2>6, Zenon DEF head, path, pad
<1>2. CASE p # "sender"
  <2>1. /\ Path(p) = <<blind, 0, 1>> /\ ProofType(p) = "original" /\ Header(p) = <<0, 0, 0, 0>> /\ Padding(p) = <<0>>
    BY <1>2, Zenon DEF Path, ProofType, Header, Padding
  <2>2. <<blind, 0, 1>> \in Seq(Scalar) /\ Len(<<blind, 0, 1>>) = 3 /\ <<0, 0, 0, 0>> \in Seq(Scalar) /\ Len(<<0, 0, 0, 0>>) = 4
        /\ <<0>> \in Seq(Scalar) /\ Len(<<0>>) = 1
    BY SmallScalars
  <2>3. MessageSize - 4 - 3 = 1 /\ ~(1 < 0) /\ [i \in 1..1 |-> 0] = <<0>> /\ "original" # "enhanced"
    BY DEF MessageSize
  <2>. DEFINE path == <<blind, 0, 1>>
              pad == [i \in 1..1 |-> 0]
              head == <<0, 0, 0, 0>>
  <2>4. FromKeyIndices(path, "original") = head \o path \o pad
    <3>. HIDE DEF path
    <3>. QED  BY <2>2, <2>3, Zenon DEF FromKeyIndices, path
  <2>5. head \o path \o <<0>> \in Seq(Scalar) /\ Len(head \o path \o <<0>>) = Len(head) + Len(path) + Len(<<0>>)
    <3>. DEFINE q == <<0>>
    <3>. HIDE DEF head, path, q
    <3>. QED  BY <2>2, ThreeParts, Zenon DEF head, path, q
  <2>6. Len(head) + Len(path) + Len(<<0>>) = MessageSize
    BY <2>2 DEF MessageSize
  <2>. HIDE DEF head, path, pad
  <2>. QED  BY <1>2, <2>1, <2>2, <2>3, <2>4, <2>5, <2>6, Zenon DEF head, path, pad
<1>. QED  BY <1>1, <1>2, Zenon

\* A proof and what it is made of.
Hides(P, amount, key, nonce, privateNonce, message) ==
  /\ P \in Seq(Scalar) /\ Len(P) = ProofSize
  /\ P[1] = amount /\ P[2] = key /\ P[3] = nonce /\ P[4] = privateNonce
  /\ SubSeq(P, 1, 2) = <<amount, key>>
  /\ SubSeq(P, 5, 4 + MessageSize) = message

\* What a proof is made of can be found in it.
LEMMA ProofParts ==
  ASSUME NEW amount \in Scalar, NEW key \in Scalar, NEW nonce \in Scalar, NEW privateNonce \in Scalar,
         NEW message \in Seq(Scalar), Len(message) = MessageSize
  PROVE  Hides(ProofOf(amount, key, nonce, privateNonce, message), amount, key, nonce, privateNonce, message)
<1>. DEFINE h == <<amount, key, nonce, privateNonce>>
            hidden == h \o message
            c == (Order - ScalarSum(hidden)) % Order
            P == Append(hidden, c)
<1>1. h \in Seq(Scalar) /\ Len(h) = 4 /\ h[1] = amount /\ h[2] = key /\ h[3] = nonce /\ h[4] = privateNonce
  OBVIOUS
<1>. HIDE DEF h
<1>2. hidden \in Seq(Scalar) /\ Len(hidden) = 4 + MessageSize
  <2>1. hidden \in Seq(Scalar) /\ Len(hidden) = Len(h) + Len(message)
    BY <1>1, ConcatProperties, Zenon
  <2>. HIDE DEF hidden
  <2>. QED  BY <1>1, <2>1, Zenon
<1>3. /\ \A k \in 1..4 : hidden[k] = h[k]
      /\ \A k \in 1..MessageSize : hidden[4 + k] = message[k]
  <2>1. \A k \in 1..(Len(h) + Len(message)) : hidden[k] = IF k <= Len(h) THEN h[k] ELSE message[k - Len(h)]
    BY <1>1, ConcatProperties, Zenon
  <2>. HIDE DEF hidden
  <2>2. \A k \in 1..(4 + MessageSize) : hidden[k] = IF k <= 4 THEN h[k] ELSE message[k - 4]
    BY <1>1, <2>1, Zenon
  <2>3. \A k \in 1..MessageSize : 4 + k \in 1..(4 + MessageSize) /\ ~(4 + k <= 4) /\ (4 + k) - 4 = k
    BY DEF MessageSize
  <2>4. \A k \in 1..4 : k \in 1..(4 + MessageSize) /\ k <= 4
    BY DEF MessageSize
  <2>5. \A k \in 1..4 : hidden[k] = h[k]
    BY <2>2, <2>4
  <2>. QED  BY <2>2, <2>3, <2>5
<1>. HIDE DEF hidden
<1>4. c \in Scalar
  <2>1. ScalarSum(hidden) \in Scalar
    BY <1>2, ScalarSumAppend, Zenon
  <2>2. Order - ScalarSum(hidden) \in Nat
    BY <2>1, OrderIsNat DEF Scalar
  <2>. QED  BY <2>2, DivMod, Zenon
<1>. HIDE DEF c
<1>5. /\ P \in Seq(Scalar) /\ Len(P) = Len(hidden) + 1
      /\ \A k \in 1..Len(hidden) : P[k] = hidden[k]
  BY <1>2, <1>4, AppendProperties
<1>6. P = ProofOf(amount, key, nonce, privateNonce, message)
  BY Zenon DEF ProofOf, hidden, h, c
<1>. HIDE DEF P
<1>7. Len(P) = ProofSize
  BY <1>2, <1>5 DEF ProofSize, MessageSize
<1>8. P[1] = amount /\ P[2] = key /\ P[3] = nonce /\ P[4] = privateNonce
  BY <1>1, <1>2, <1>3, <1>5 DEF MessageSize
<1>9. SubSeq(P, 1, 2) = <<amount, key>>
  <2>. DEFINE t == <<amount, key>>
  <2>1. t \in Seq(Scalar) /\ Len(t) = 2 /\ t[1] = amount /\ t[2] = key
    OBVIOUS
  <2>. HIDE DEF t
  <2>2. \A k \in 1..Len(t) : P[0 + k] = t[k]
    BY <1>8, <2>1
  <2>3. 0 + Len(t) <= Len(P) /\ 0 \in Nat /\ 0 + 1 = 1 /\ 0 + Len(t) = 2
    BY <1>7, <2>1 DEF ProofSize, MessageSize
  <2>4. SubSeq(P, 0 + 1, 0 + Len(t)) = t
    BY <1>5, <2>1, <2>2, <2>3, SubIs
  <2>. QED  BY <2>3, <2>4, Zenon DEF t
<1>10. SubSeq(P, 5, 4 + MessageSize) = message
  <2>1. \A k \in 1..Len(message) : P[4 + k] = message[k]
    BY <1>2, <1>3, <1>5 DEF MessageSize
  <2>2. 4 + Len(message) <= Len(P) /\ 4 \in Nat /\ 4 + 1 = 5
    BY <1>7 DEF ProofSize, MessageSize
  <2>3. SubSeq(P, 4 + 1, 4 + Len(message)) = message
    BY <1>5, <2>1, <2>2, SubIs
  <2>. QED  BY <2>2, <2>3, Zenon
<1>. QED  BY <1>5, <1>6, <1>7, <1>8, <1>9, <1>10, Zenon DEF Hides

-----------------------------------------------------------------------------
(* What the wallets build *)

\* The amounts and blinding factors are scalars, what is left over included.
LEMMA Amounts ==
  /\ Reward \in Scalar /\ Amount \in Scalar /\ Fee \in Scalar /\ Change \in Scalar
  /\ InputBlind \in Scalar \ {0} /\ ChangeBlind \in Scalar \ {0}
  /\ Blinds \subseteq Scalar \ {0} /\ Offsets \subseteq Scalar
<1>1. /\ Reward \in Scalar /\ Amount \in Scalar /\ Fee \in Scalar /\ Amount + Fee <= Reward
      /\ InputBlind \in Scalar \ {0} /\ ChangeBlind \in Scalar \ {0}
      /\ Blinds \subseteq Scalar \ {0} /\ Offsets \subseteq Scalar
  BY TransactionsAssumption
<1>2. Change \in Scalar
  BY <1>1, OrderIsNat DEF Change, Scalar
<1>. QED  BY <1>1, <1>2, Zenon

\* The proof of a party, and the transaction that is built if both proofs can be made.
ProofBy(p) ==
  ProofOf(Value(p), BlindOf(p), RewindNonce(p), PrivateNonce(p), FromKeyIndices(Path(p), ProofType(p)))

\* The transaction that the wallets build.
Built ==
  [offset |-> offset,
   body |-> [inputs |-> <<[features |-> 1, commitment |-> CommitBlinded(Reward, InputBlind)]>>,
             outputs |-> <<OutputWith(0, Change, ChangeBlind, ProofBy("sender")),
                           OutputWith(0, Amount, blind, ProofBy("receiver"))>>,
             kernels |-> <<[fee |-> Fee, signature |-> signature,
                            excess |-> AddCommitments(<<CommitBlinded(0, secret["sender"].key),
                                                        CommitBlinded(0, secret["receiver"].key)>>,
                                                      <<>>)]>>]]

\* The inductive invariant of the transaction: what it is made of, and that it is made once.
BuildInv ==
  /\ phase \in {"slate", "broadcast", "failed", "crashed"}
  /\ blind \in Blinds /\ offset \in Offsets
  /\ secret["sender"].key = AddBlindingFactors(<<ChangeBlind>>, <<InputBlind, offset>>)
  /\ secret["receiver"].key = blind
  /\ phase = "broadcast" => tx # None
  /\ tx # None => phase # "slate" /\ signature # None /\ tx = Built

\* The proofs are as long as a proof is, and tell what they hide.
LEMMA ProofByIs ==
  ASSUME NEW p \in Party, blind \in Blinds
  PROVE  LET P == ProofBy(p)
         IN  /\ P \in ShortProof /\ Len(P) = ProofSize
             /\ P[1] = Value(p) /\ P[2] = BlindOf(p) /\ P[3] = RewindNonce(p) /\ P[4] = PrivateNonce(p)
             /\ SubSeq(P, 1, 2) = <<Value(p), BlindOf(p)>>
             /\ SubSeq(P, 5, 4 + MessageSize) = FromKeyIndices(Path(p), ProofType(p))
             /\ Value(p) \in Scalar /\ BlindOf(p) \in Scalar \ {0}
             /\ RewindNonce(p) \in Scalar /\ PrivateNonce(p) \in Scalar
<1>. DEFINE message == FromKeyIndices(Path(p), ProofType(p))
            P == ProofBy(p)
<1>1. blind \in Scalar \ {0}
  BY Amounts, Zenon
<1>2. message \in Seq(Scalar) /\ Len(message) = MessageSize
  BY <1>1, MessageIs, Zenon
<1>3. Value(p) \in Scalar /\ BlindOf(p) \in Scalar \ {0}
  BY <1>1, Amounts, Zenon DEF Value, BlindOf
<1>4. RewindNonce(p) \in Scalar /\ PrivateNonce(p) \in Scalar
  BY SmallScalars, Zenon DEF RewindNonce, PrivateNonce
<1>. HIDE DEF message
<1>5. /\ P \in Seq(Scalar) /\ Len(P) = ProofSize
      /\ P[1] = Value(p) /\ P[2] = BlindOf(p) /\ P[3] = RewindNonce(p) /\ P[4] = PrivateNonce(p)
      /\ SubSeq(P, 1, 2) = <<Value(p), BlindOf(p)>>
      /\ SubSeq(P, 5, 4 + MessageSize) = message
  <2>. DEFINE v == Value(p)
              b == BlindOf(p)
              r == RewindNonce(p)
              s == PrivateNonce(p)
  <2>1. P = ProofOf(v, b, r, s, message)
    BY Zenon DEF ProofBy, message
  <2>2. v \in Scalar /\ b \in Scalar /\ r \in Scalar /\ s \in Scalar
    BY <1>3, <1>4, Zenon
  <2>. HIDE DEF P, v, b, r, s
  <2>3. message \in Seq(Scalar)
    BY <1>2, Zenon
  <2>4. Len(message) = MessageSize
    BY <1>2, Zenon
  <2>5. Hides(ProofOf(v, b, r, s, message), v, b, r, s, message)
    BY <2>2, <2>3, <2>4, ProofParts, Zenon
  <2>6. Hides(P, v, b, r, s, message)
    BY <2>1, <2>5, Zenon
  <2>. QED  BY <2>6, Zenon DEF Hides, v, b, r, s
<1>. HIDE DEF P
<1>6. P \in ShortProof
  <2>1. ProofSize <= MaxProof
    BY SizeAssumption, Sizes
  <2>. QED  BY <1>5, <2>1, Zenon DEF ShortProof, RangeProof
<1>. QED  BY <1>3, <1>4, <1>5, <1>6, Zenon DEF P, message

\* The transaction that is built, in terms of points.
LEMMA BuiltIs ==
  ASSUME SlateInv, BuildInv, signature # None
  PROVE  /\ WholePacket(Built)
         /\ SumKey \in Scalar \ {0} /\ blind \in Scalar \ {0} /\ offset \in Scalar
         /\ Built = [offset |-> offset,
                     body |-> [inputs |-> <<[features |-> 1, commitment |-> <<Reward, InputBlind>>]>>,
                               outputs |-> <<[features |-> 0, commitment |-> <<Change, ChangeBlind>>,
                                              proof |-> ProofBy("sender")],
                                             [features |-> 0, commitment |-> <<Amount, blind>>,
                                              proof |-> ProofBy("receiver")]>>,
                               kernels |-> <<[fee |-> Fee, signature |-> signature,
                                              excess |-> <<0, SumKey>>]>>]]
<1>. DEFINE a == secret["sender"].key
            b == secret["receiver"].key
<1>1. total # None /\ AddedUp /\ signature \in Signature
  BY Zenon DEF SlateInv
<1>2. Announced("sender") /\ Announced("receiver")
  BY <1>1, Zenon DEF SlateInv, AddedUp, Party
<1>3. a \in Scalar \ {0} /\ b \in Scalar \ {0}
  BY <1>2, Zenon DEF SlateInv, Announced, Party
<1>4. SumKey # 0 /\ SumKey = (a + b) % Order
  BY <1>1, Zenon DEF AddedUp, SumKey, Sum
<1>. HIDE DEF a, b
<1>5. SumKey \in Scalar \ {0}
  BY <1>3, <1>4, TwoScalars, Zenon
<1>6. AddCommitments(<<CommitBlinded(0, a), CommitBlinded(0, b)>>, <<>>) = <<0, SumKey>>
  BY <1>3, <1>4, ExcessIsKey, Zenon
<1>7. blind \in Scalar \ {0} /\ offset \in Scalar /\ blind \in Blinds
  BY Amounts, Zenon DEF BuildInv
<1>8. /\ CommitBlinded(Reward, InputBlind) = <<Reward, InputBlind>> /\ <<Reward, InputBlind>> \in Commitment
      /\ CommitBlinded(Change, ChangeBlind) = <<Change, ChangeBlind>> /\ <<Change, ChangeBlind>> \in Commitment
      /\ CommitBlinded(Amount, blind) = <<Amount, blind>> /\ <<Amount, blind>> \in Commitment
  <2>1. /\ Reward \in Scalar /\ InputBlind \in Scalar /\ InputBlind # 0
        /\ Change \in Scalar /\ ChangeBlind \in Scalar /\ ChangeBlind # 0
        /\ Amount \in Scalar /\ blind \in Scalar /\ blind # 0
    BY <1>7, Amounts, Zenon
  <2>. QED  BY <2>1, CommitIs, Zenon
<1>9. <<0, SumKey>> \in Commitment
  BY <1>5, KeyPoint, Zenon DEF Commitment
<1>. DEFINE P == ProofBy("sender")
            Q == ProofBy("receiver")
            x == [features |-> 1, commitment |-> <<Reward, InputBlind>>]
            y == [features |-> 0, commitment |-> <<Change, ChangeBlind>>, proof |-> P]
            z == [features |-> 0, commitment |-> <<Amount, blind>>, proof |-> Q]
            k == [fee |-> Fee, signature |-> signature, excess |-> <<0, SumKey>>]
            body == [inputs |-> <<x>>, outputs |-> <<y, z>>, kernels |-> <<k>>]
            whole == [offset |-> offset, body |-> body]
<1>10. Built = whole
  BY <1>6, <1>8, Zenon DEF Built, OutputWith, a, b
<1>11. P \in ShortProof /\ Len(P) = ProofSize /\ Q \in ShortProof /\ Len(Q) = ProofSize
  BY <1>7, ProofByIs, Zenon DEF Party
<1>. HIDE DEF P, Q
<1>12. x \in Input
  BY <1>8, SmallScalars DEF Input
<1>13. y \in ShortOutput /\ z \in ShortOutput
  <2>1. P \in RangeProof /\ Q \in RangeProof
    BY <1>11, Zenon DEF ShortProof
  <2>2. y \in Output /\ z \in Output
    BY <1>8, <2>1, SmallScalars DEF Output
  <2>3. y.proof = P /\ z.proof = Q
    OBVIOUS
  <2>. HIDE DEF y, z
  <2>. QED  BY <1>11, <2>2, <2>3, Zenon DEF ShortOutput
<1>14. k \in Kernel
  BY <1>1, <1>9, Amounts DEF Kernel
<1>15. y.proof = P /\ z.proof = Q
  OBVIOUS
<1>. HIDE DEF x, y, z, k
<1>16. /\ body.inputs = <<x>> /\ body.outputs = <<y, z>> /\ body.kernels = <<k>>
       /\ <<x>> \in Seq(Input) /\ Len(<<x>>) = 1 /\ <<k>> \in Seq(Kernel) /\ Len(<<k>>) = 1
  BY <1>12, <1>14
<1>17. <<y, z>> \in Seq(ShortOutput) /\ Len(<<y, z>>) = 2 /\ <<y, z>> \in Seq(Output)
  BY <1>13 DEF ShortOutput
<1>18. \A i \in 1..2 : Len(<<y, z>>[i].proof) = ProofSize
  <2>1. \A i \in 1..2 : <<y, z>>[i] = y \/ <<y, z>>[i] = z
    OBVIOUS
  <2>. QED  BY <1>11, <1>15, <2>1, Zenon
<1>19. body \in ShortBody
  <2>1. body \in TxBody
    BY <1>16, <1>17 DEF TxBody
  <2>. HIDE DEF body
  <2>. QED  BY <1>16, <1>17, <2>1, Zenon DEF ShortBody
<1>. HIDE DEF body
<1>20. whole.body = body /\ whole \in Transaction
  <2>1. body \in TxBody
    BY <1>19, Zenon DEF ShortBody
  <2>. QED  BY <1>7, <2>1 DEF Transaction, BlindingFactor
<1>. HIDE DEF whole
<1>21. WholePacket(whole)
  BY <1>16, <1>17, <1>18, <1>19, <1>20, Zenon DEF WholePacket, Packet, ShortTransaction
<1>. QED  BY <1>5, <1>7, <1>10, <1>21, Zenon DEF whole, body, x, y, z, k, P, Q

-----------------------------------------------------------------------------
(* AddCommitments *)

\* Scalars are added by taking off the order at most once.
LEMMA Plus ==
  ASSUME NEW a \in Scalar, NEW b \in Scalar
  PROVE  /\ (a + b) % Order = IF a + b < Order THEN a + b ELSE (a + b) - Order
         /\ (a + b) % Order \in Scalar
<1>1. a + b \in 0..(2 * Order - 1)
  BY OrderIsNat DEF Scalar
<1>2. (a + b) % Order = IF a + b < Order THEN a + b ELSE (a + b) - Order
  BY <1>1, SmallMod
<1>. QED  BY <1>2, ScalarSumType, Zenon

\* Every point but infinity counts in a sum of points.
LEMMA InfinityIsZero ==
  ASSUME NEW a \in Point
  PROVE  PointSum(a, Infinity) = a /\ PointSum(Infinity, a) = a
<1>1. a = <<a[1], a[2]>> /\ a[1] \in Scalar /\ a[2] \in Scalar
  BY PointsAreCommitments, Zenon
<1>2. /\ a[1] + 0 = a[1] /\ a[2] + 0 = a[2] /\ 0 + a[1] = a[1] /\ 0 + a[2] = a[2]
      /\ a[1] % Order = a[1] /\ a[2] % Order = a[2]
  BY <1>1, SmallMod, OrderIsNat DEF Scalar
<1>3. Infinity[1] = 0 /\ Infinity[2] = 0
  BY DEF Infinity
<1>. QED  BY <1>1, <1>2, <1>3, Zenon DEF PointSum

\* The points of seq that are not infinity have the same sum.
CopySums(seq) ==
  LET copy == CopyNonZero(seq, Infinity)
  IN  copy \in Seq(Point) /\ SumOf(copy) = SumOf(seq) /\ \A i \in 1..Len(copy) : copy[i] # Infinity

\* CopyNonZero leaves out nothing that counts.
LEMMA CopyKeepsSum ==
  ASSUME NEW points \in Seq(Point)
  PROVE  CopySums(points)
<1>. DEFINE S == {n \in Nat : \A seq \in Seq(Point) : Len(seq) = n => CopySums(seq)}
<1>1. 0 \in S
  <2>. SUFFICES ASSUME NEW seq \in Seq(Point), Len(seq) = 0
                PROVE  CopySums(seq)
    OBVIOUS
  <2>1. seq = <<>> /\ <<>> \in Seq(Point) /\ 1..Len(<<>>) = {}
    OBVIOUS
  <2>2. CopyNonZero(<<>>, Infinity) = <<>>
    BY <2>1, CopyAppend, Zenon
  <2>. QED  BY <2>1, <2>2, Zenon DEF CopySums
<1>2. ASSUME NEW n \in Nat, n \in S
      PROVE  n + 1 \in S
  <2>. SUFFICES ASSUME NEW seq \in Seq(Point), Len(seq) = n + 1
                PROVE  CopySums(seq)
    OBVIOUS
  <2>. DEFINE front == SubSeq(seq, 1, n)
              x == seq[n + 1]
              old == CopyNonZero(front, Infinity)
              new == CopyNonZero(seq, Infinity)
  <2>1. front \in Seq(Point) /\ Len(front) = n /\ x \in Point /\ seq = Append(front, x)
    BY AppendProperties
  <2>2. CopySums(front)
    BY <1>2, <2>1
  <2>. HIDE DEF front, x
  <2>3. old \in Seq(Point) /\ SumOf(old) = SumOf(front) /\ \A i \in 1..Len(old) : old[i] # Infinity
    BY <2>2, Zenon DEF CopySums
  <2>4. new = Copied(old, x, Infinity)
    BY <2>1, CopyAppend, Zenon
  <2>5. SumOf(seq) = PointSum(SumOf(front), x) /\ SumOf(front) \in Point
    BY <2>1, SumOfAppend, Zenon
  <2>6. CASE x = Infinity
    <3>1. new = old
      BY <2>4, <2>6, Zenon DEF Copied
    <3>2. SumOf(seq) = SumOf(front)
      BY <2>5, <2>6, InfinityIsZero, Zenon
    <3>. QED  BY <2>3, <3>1, <3>2, Zenon DEF CopySums
  <2>7. CASE x # Infinity
    <3>1. new = Append(old, x)
      BY <2>4, <2>7, Zenon DEF Copied
    <3>2. SumOf(new) = PointSum(SumOf(old), x)
      BY <2>1, <2>3, <3>1, SumOfAppend, Zenon
    <3>. HIDE DEF old, new
    <3>3. new \in Seq(Point) /\ \A i \in 1..Len(new) : new[i] # Infinity
      BY <2>1, <2>3, <2>7, <3>1, AppendProperties
    <3>. QED  BY <2>3, <2>5, <3>2, <3>3, Zenon DEF CopySums, new
  <2>. QED  BY <2>6, <2>7, Zenon
<1>. HIDE DEF S
<1>3. \A n \in Nat : n \in S
  BY <1>1, <1>2, InductionOver, Zenon
<1>4. Len(points) \in Nat
  OBVIOUS
<1>5. Len(points) \in S
  BY <1>3, <1>4, Zenon
<1>. QED  BY <1>5 DEF S

\* The sum that AddCommitments works out.
NetSum(plus, minus) == PointSum(SumOf(plus), Negated(SumOf(minus)))

\* A point can be negated.
LEMMA NegatedType ==
  ASSUME NEW a \in Point
  PROVE  Negated(a) \in Point
<1>1. a[1] \in Scalar /\ a[2] \in Scalar
  BY PointsAreCommitments, Zenon
<1>2. Order - a[1] \in Nat /\ Order - a[2] \in Nat
  BY <1>1, OrderIsNat DEF Scalar
<1>3. (Order - a[1]) % Order \in Scalar /\ (Order - a[2]) % Order \in Scalar
  BY <1>2, DivMod, Zenon
<1>. QED  BY <1>3 DEF Negated, Point

\* AddCommitments returns the sum of all its points, and throws if and only if that is
\* infinity.
LEMMA AddCommitmentsIs ==
  ASSUME NEW plus \in Seq(Point), NEW minus \in Seq(Point)
  PROVE  /\ NetSum(plus, minus) \in Point /\ NetSum(plus, minus) \in Commitment
         /\ AddCommitments(plus, minus) = EncodeCommitment(NetSum(plus, minus))
<1>. DEFINE p == CopyNonZero(plus, Infinity)
            m == CopyNonZero(minus, Infinity)
            s == NetSum(plus, minus)
<1>1. /\ p \in Seq(Point) /\ SumOf(p) = SumOf(plus) /\ \A i \in 1..Len(p) : p[i] # Infinity
      /\ m \in Seq(Point) /\ SumOf(m) = SumOf(minus) /\ \A i \in 1..Len(m) : m[i] # Infinity
  BY CopyKeepsSum, Zenon DEF CopySums
<1>2. AddCommitments(plus, minus) = PedersenCommitSum(p, m)
  BY Zenon DEF AddCommitments
<1>. HIDE DEF p, m
<1>. DEFINE both == p \o m
<1>3. both \in Seq(Point) /\ \A i \in DOMAIN both : both[i] # Infinity
  BY <1>1, ConcatProperties
<1>4. ParseCommitments(both) = both
  <2>1. Infinity \notin Range(both)
    BY <1>3, Zenon DEF Range
  <2>. QED  BY <2>1, Zenon DEF ParseCommitments
<1>5. both # Throw
  <2>. HIDE DEF both
  <2>1. both \in Seq(PublicKey)
    <3>1. \A i \in 1..Len(both) : both[i] \in PublicKey
      <4>1. \A i \in 1..Len(both) : both[i] \in Point
        BY <1>3
      <4>. QED  BY <4>1, PointsAreCommitments, Zenon DEF Commitment, PublicKey
    <3>. QED  BY <1>3, <3>1
  <2>. QED  BY <2>1, ThrowAssumption, Zenon
<1>6. SumOf(plus) \in Point /\ SumOf(minus) \in Point
  BY SumOfAppend, Zenon
<1>7. s \in Point /\ s \in Commitment
  BY <1>6, NegatedType, PointSumType, PointsAreCommitments, Zenon DEF NetSum
<1>8. PedersenCommitSum(p, m) = EncodeCommitment(s)
  BY <1>1, <1>4, <1>5, Zenon DEF PedersenCommitSum, NetSum
<1>. QED  BY <1>2, <1>7, <1>8, Zenon

-----------------------------------------------------------------------------
(* ValidateKernelSums *)

\* The points that ValidateKernelSums adds up.
UtxoPlus(body, overage, blockSums) ==
  OutputCommitments(body) \o OverageCommitments(overage).outputs
    \o IF blockSums # NoSums THEN <<blockSums.utxo>> ELSE <<>>

\* What is taken off them, and what the kernels add up.
UtxoMinus(body, overage) == InputCommitments(body) \o OverageCommitments(overage).inputs
KernelPlus(body, blockSums) ==
  KernelCommitments(body) \o IF blockSums # NoSums THEN <<blockSums.kernel>> ELSE <<>>

\* The sums of these points.
NewSums(body, overage, blockSums) ==
  [utxo |-> NetSum(UtxoPlus(body, overage, blockSums), UtxoMinus(body, overage)),
   kernel |-> NetSum(KernelPlus(body, blockSums), <<>>)]

\* A body whose commitments are points.
PointsOf(body) ==
  /\ OutputCommitments(body) \in Seq(Point)
  /\ InputCommitments(body) \in Seq(Point)
  /\ KernelCommitments(body) \in Seq(Point)

\* The commitment to an overage is a point.
LEMMA OverageIs ==
  ASSUME NEW overage \in Int, overage \in Scalar \/ 0 - overage \in Scalar
  PROVE  /\ OverageCommitments(overage).inputs =
              (IF overage < 0 THEN <<<<0 - overage, 0>>>> ELSE <<>>)
         /\ OverageCommitments(overage).outputs =
              (IF overage > 0 THEN <<<<overage, 0>>>> ELSE <<>>)
         /\ OverageCommitments(overage).inputs \in Seq(Point)
         /\ OverageCommitments(overage).outputs \in Seq(Point)
<1>. DEFINE ins == IF overage < 0 THEN <<CommitTransparent(0 - overage)>> ELSE <<>>
            outs == IF overage > 0 THEN <<CommitTransparent(overage)>> ELSE <<>>
<1>0. OverageCommitments(overage).inputs = ins /\ OverageCommitments(overage).outputs = outs
  BY DEF OverageCommitments
<1>1. ASSUME NEW v \in Scalar, v # 0
      PROVE  CommitTransparent(v) = <<v, 0>> /\ <<v, 0>> \in Point
  <2>1. CommitBlinded(v, 0) = <<v, 0>> /\ <<v, 0>> \in Point
    BY <1>1, CommitIs, SmallScalars, Zenon
  <2>. QED  BY <2>1, Zenon DEF CommitTransparent, CommitBlinded
<1>2. <<>> \in Seq(Point)
  OBVIOUS
<1>3. CASE overage < 0
  <2>1. 0 - overage \in Scalar /\ 0 - overage # 0 /\ ~(overage > 0)
    BY <1>3 DEF Scalar
  <2>2. CommitTransparent(0 - overage) = <<0 - overage, 0>> /\ <<0 - overage, 0>> \in Point
    BY <1>1, <2>1, Zenon
  <2>3. <<<<0 - overage, 0>>>> \in Seq(Point)
    BY <2>2
  <2>. QED  BY <1>0, <1>2, <1>3, <2>1, <2>2, <2>3, Zenon
<1>4. CASE overage > 0
  <2>1. overage \in Scalar /\ overage # 0 /\ ~(overage < 0)
    BY <1>4 DEF Scalar
  <2>2. CommitTransparent(overage) = <<overage, 0>> /\ <<overage, 0>> \in Point
    BY <1>1, <2>1, Zenon
  <2>3. <<<<overage, 0>>>> \in Seq(Point)
    BY <2>2
  <2>. QED  BY <1>0, <1>2, <1>4, <2>1, <2>2, <2>3, Zenon
<1>5. CASE overage = 0
  <2>1. ~(overage < 0) /\ ~(overage > 0)
    BY <1>5
  <2>. QED  BY <1>0, <1>2, <2>1, Zenon
<1>6. overage < 0 \/ overage > 0 \/ overage = 0
  OBVIOUS
<1>. QED  BY <1>3, <1>4, <1>5, <1>6, Zenon

\* What is encoded is the point, unless that is infinity.
LEMMA Encoded ==
  ASSUME NEW a \in Point
  PROVE  (EncodeCommitment(a) = Throw <=> a = Infinity) /\ (a # Infinity => EncodeCommitment(a) = a)
<1>1. a \in PublicKey
  BY PointsAreCommitments, Zenon DEF Commitment, PublicKey
<1>2. a # Throw
  BY <1>1, ThrowAssumption, Zenon
<1>. QED  BY <1>2, Zenon DEF EncodeCommitment

\* ValidateKernelSums throws or returns the sums of the points.
LEMMA KernelSumsAre ==
  ASSUME NEW body, NEW overage \in Int, NEW off, NEW old, PointsOf(body),
         overage \in Scalar \/ 0 - overage \in Scalar,
         old # NoSums => old \in BlockSums
  PROVE  LET new == NewSums(body, overage, old)
             result == ValidateKernelSums(body, overage, off, old)
         IN  /\ UtxoPlus(body, overage, old) \in Seq(Point) /\ UtxoMinus(body, overage) \in Seq(Point)
             /\ KernelPlus(body, old) \in Seq(Point)
             /\ new \in BlockSums
             /\ result = Throw \/ result = new
             /\ /\ new.utxo # Infinity /\ new.kernel # Infinity
                /\ AddKernelOffset(new.kernel, off) # Throw
                => result = new
<1>. DEFINE plus == UtxoPlus(body, overage, old)
            minus == UtxoMinus(body, overage)
            kernels == KernelPlus(body, old)
            u == NetSum(plus, minus)
            k == NetSum(kernels, <<>>)
            oldU == IF old # NoSums THEN <<old.utxo>> ELSE <<>>
            oldK == IF old # NoSums THEN <<old.kernel>> ELSE <<>>
<1>1. oldU \in Seq(Point) /\ oldK \in Seq(Point)
  <2>1. CASE old = NoSums
    BY <2>1
  <2>2. CASE old # NoSums
    <3>1. old.utxo \in Commitment /\ old.kernel \in Commitment
      BY <2>2 DEF BlockSums
    <3>2. old.utxo \in Point /\ old.kernel \in Point
      BY <3>1, PointsAreCommitments, Zenon
    <3>. QED  BY <2>2, <3>2
  <2>. QED  BY <2>1, <2>2, Zenon
<1>2. /\ OverageCommitments(overage).inputs \in Seq(Point)
      /\ OverageCommitments(overage).outputs \in Seq(Point)
  BY OverageIs, Zenon
<1>3. plus = OutputCommitments(body) \o OverageCommitments(overage).outputs \o oldU
  BY Zenon DEF UtxoPlus
<1>4. minus = InputCommitments(body) \o OverageCommitments(overage).inputs
  BY Zenon DEF UtxoMinus
<1>5. kernels = KernelCommitments(body) \o oldK
  BY Zenon DEF KernelPlus
<1>6. plus \in Seq(Point) /\ minus \in Seq(Point) /\ kernels \in Seq(Point) /\ <<>> \in Seq(Point)
  <2>. HIDE DEF oldU, oldK, plus, minus, kernels
  <2>1. OutputCommitments(body) \o OverageCommitments(overage).outputs \in Seq(Point)
    BY <1>2, ConcatProperties, Zenon DEF PointsOf
  <2>2. plus \in Seq(Point)
    BY <1>1, <1>3, <2>1, ConcatProperties, Zenon
  <2>3. minus \in Seq(Point) /\ kernels \in Seq(Point)
    BY <1>1, <1>2, <1>4, <1>5, ConcatProperties, Zenon DEF PointsOf
  <2>. QED  BY <2>2, <2>3
<1>. HIDE DEF plus, minus, kernels, oldU, oldK
<1>7. /\ u \in Point /\ u \in Commitment /\ AddCommitments(plus, minus) = EncodeCommitment(u)
      /\ k \in Point /\ k \in Commitment /\ AddCommitments(kernels, <<>>) = EncodeCommitment(k)
  BY <1>6, AddCommitmentsIs, Zenon
<1>. DEFINE new == [utxo |-> u, kernel |-> k]
<1>8. new \in BlockSums /\ new.utxo = u /\ new.kernel = k
  BY <1>7 DEF BlockSums
<1>9. new = NewSums(body, overage, old)
  BY Zenon DEF NewSums, plus, minus, kernels
<1>. DEFINE result == ValidateKernelSums(body, overage, off, old)
<1>10. result = IF AddCommitments(plus, minus) = Throw \/ AddCommitments(kernels, <<>>) = Throw THEN Throw
                ELSE IF AddKernelOffset(AddCommitments(kernels, <<>>), off) = Throw THEN Throw
                ELSE [utxo |-> AddCommitments(plus, minus), kernel |-> AddCommitments(kernels, <<>>)]
  BY <1>3, <1>4, <1>5, Zenon DEF ValidateKernelSums, oldU, oldK
<1>. HIDE DEF u, k, result
<1>11. CASE u = Infinity \/ k = Infinity
  <2>1. result = Throw
    BY <1>7, <1>10, <1>11, Encoded, Zenon
  <2>. QED  BY <1>6, <1>8, <1>9, <1>11, <2>1, Zenon DEF plus, minus, kernels, result
<1>12. CASE u # Infinity /\ k # Infinity
  <2>1. result = IF AddKernelOffset(k, off) = Throw THEN Throw ELSE new
    BY <1>7, <1>10, <1>12, Encoded, Zenon
  <2>. QED  BY <1>6, <1>8, <1>9, <2>1, Zenon DEF plus, minus, kernels, result
<1>. QED  BY <1>11, <1>12, Zenon

-----------------------------------------------------------------------------
(* Blinding factors *)

\* The scalars of seq that are not zero have the same sum.
CopyScalars(seq) ==
  LET copy == CopyNonZero(seq, 0)
  IN  copy \in Seq(Scalar) /\ ScalarSum(copy) = ScalarSum(seq)

\* CopyNonZero leaves out no scalar that counts.
LEMMA CopyKeepsScalarSum ==
  ASSUME NEW scalars \in Seq(Scalar)
  PROVE  CopyScalars(scalars)
<1>. DEFINE S == {n \in Nat : \A seq \in Seq(Scalar) : Len(seq) = n => CopyScalars(seq)}
<1>1. 0 \in S
  <2>. SUFFICES ASSUME NEW seq \in Seq(Scalar), Len(seq) = 0
                PROVE  CopyScalars(seq)
    OBVIOUS
  <2>1. seq = <<>> /\ <<>> \in Seq(Scalar)
    OBVIOUS
  <2>2. CopyNonZero(<<>>, 0) = <<>>
    BY <2>1, CopyAppend, Zenon
  <2>. QED  BY <2>1, <2>2, Zenon DEF CopyScalars
<1>2. ASSUME NEW n \in Nat, n \in S
      PROVE  n + 1 \in S
  <2>. SUFFICES ASSUME NEW seq \in Seq(Scalar), Len(seq) = n + 1
                PROVE  CopyScalars(seq)
    OBVIOUS
  <2>. DEFINE front == SubSeq(seq, 1, n)
              x == seq[n + 1]
              old == CopyNonZero(front, 0)
              new == CopyNonZero(seq, 0)
  <2>1. front \in Seq(Scalar) /\ Len(front) = n /\ x \in Scalar /\ seq = Append(front, x)
    BY AppendProperties
  <2>2. CopyScalars(front)
    BY <1>2, <2>1
  <2>. HIDE DEF front, x
  <2>3. old \in Seq(Scalar) /\ ScalarSum(old) = ScalarSum(front)
    BY <2>2, Zenon DEF CopyScalars
  <2>4. new = Copied(old, x, 0)
    BY <2>1, CopyAppend, Zenon
  <2>5. ScalarSum(seq) = (ScalarSum(front) + x) % Order /\ ScalarSum(front) \in Scalar
    BY <2>1, ScalarSumAppend, Zenon
  <2>6. CASE x = 0
    <3>1. new = old
      BY <2>4, <2>6, Zenon DEF Copied
    <3>. DEFINE s == ScalarSum(front)
    <3>. HIDE DEF s
    <3>2. s \in Scalar
      BY <2>5, Zenon DEF s
    <3>3. (s + 0) % Order = s
      <4>1. s + 0 = s /\ s \in 0..(2 * Order - 1) /\ s < Order
        BY <3>2, OrderIsNat DEF Scalar
      <4>. QED  BY <4>1, SmallMod, Zenon
    <3>. QED  BY <2>3, <2>5, <2>6, <3>1, <3>3, Zenon DEF CopyScalars, s
  <2>7. CASE x # 0
    <3>1. new = Append(old, x)
      BY <2>4, <2>7, Zenon DEF Copied
    <3>2. ScalarSum(new) = (ScalarSum(old) + x) % Order
      BY <2>1, <2>3, <3>1, ScalarSumAppend, Zenon
    <3>. HIDE DEF old, new
    <3>3. new \in Seq(Scalar)
      BY <2>1, <2>3, <3>1, AppendProperties
    <3>. QED  BY <2>3, <2>5, <3>2, <3>3, Zenon DEF CopyScalars, new
  <2>. QED  BY <2>6, <2>7, Zenon
<1>. HIDE DEF S
<1>3. \A n \in Nat : n \in S
  BY <1>1, <1>2, InductionOver, Zenon
<1>4. Len(scalars) \in Nat
  OBVIOUS
<1>5. Len(scalars) \in S
  BY <1>3, <1>4, Zenon
<1>. QED  BY <1>5 DEF S

\* AddBlindingFactors returns the sum of all its factors, whichever of them are zero.
LEMMA AddBlindingIs ==
  ASSUME NEW plus \in Seq(Scalar), NEW minus \in Seq(Scalar)
  PROVE  /\ AddBlindingFactors(plus, minus) = (ScalarSum(plus) + Order - ScalarSum(minus)) % Order
         /\ AddBlindingFactors(plus, minus) \in Scalar
         /\ ScalarSum(plus) \in Scalar /\ ScalarSum(minus) \in Scalar
<1>. DEFINE p == CopyNonZero(plus, 0)
            m == CopyNonZero(minus, 0)
            a == ScalarSum(plus)
            b == ScalarSum(minus)
<1>1. /\ p \in Seq(Scalar) /\ ScalarSum(p) = a /\ m \in Seq(Scalar) /\ ScalarSum(m) = b
  BY CopyKeepsScalarSum, Zenon DEF CopyScalars
<1>2. a \in Scalar /\ b \in Scalar /\ ScalarSum(<<>>) = 0
  BY ScalarSumAppend, Zenon
<1>3. AddBlindingFactors(plus, minus) = IF p = <<>> /\ m = <<>> THEN 0 ELSE PedersenBlindSum(p, m)
  BY Zenon DEF AddBlindingFactors
<1>4. PedersenBlindSum(p, m) = (a + Order - b) % Order
  BY <1>1, Zenon DEF PedersenBlindSum
<1>. HIDE DEF p, m, a, b
<1>5. p = <<>> /\ m = <<>> => (a + Order - b) % Order = 0
  <2>1. (0 + Order - 0) % Order = 0
    <3>1. 0 + Order - 0 \in 0..(2 * Order - 1)
      BY OrderIsNat
    <3>. QED  BY <3>1, SmallMod, OrderIsNat
  <2>2. p = <<>> /\ m = <<>> => a = 0 /\ b = 0
    BY <1>1, <1>2, Zenon
  <2>. QED  BY <2>1, <2>2, Zenon
<1>6. (a + Order - b) % Order \in Scalar
  <2>1. a + Order - b \in Nat
    BY <1>2, OrderIsNat DEF Scalar
  <2>. QED  BY <2>1, DivMod, Zenon
<1>. QED  BY <1>2, <1>3, <1>4, <1>5, <1>6, Zenon DEF a, b

\* A subtraction takes the order off or adds it at most once.
LEMMA Minus ==
  ASSUME NEW a \in Scalar, NEW b \in Scalar
  PROVE  (a + Order - b) % Order = IF a >= b THEN a - b ELSE (a - b) + Order
<1>1. a + Order - b \in 0..(2 * Order - 1)
  BY OrderIsNat DEF Scalar
<1>2. (a + Order - b) % Order = IF a + Order - b < Order THEN a + Order - b ELSE (a + Order - b) - Order
  BY <1>1, SmallMod
<1>. QED  BY <1>2, OrderIsNat DEF Scalar

\* Sums of one and two scalars.
LEMMA ShortSums ==
  ASSUME NEW a \in Scalar, NEW b \in Scalar
  PROVE  /\ <<>> \in Seq(Scalar) /\ <<a>> \in Seq(Scalar) /\ <<a, b>> \in Seq(Scalar)
         /\ ScalarSum(<<>>) = 0 /\ ScalarSum(<<a>>) = a /\ ScalarSum(<<a, b>>) = (a + b) % Order
<1>1. /\ <<>> \in Seq(Scalar) /\ <<a>> \in Seq(Scalar) /\ <<a, b>> \in Seq(Scalar)
      /\ <<a>> = Append(<<>>, a) /\ <<a, b>> = Append(<<a>>, b)
  OBVIOUS
<1>2. ScalarSum(<<>>) = 0 /\ ScalarSum(<<a>>) = (0 + a) % Order
  BY <1>1, ScalarSumAppend, Zenon
<1>3. (0 + a) % Order = a
  BY SmallMod, OrderIsNat DEF Scalar
<1>4. ScalarSum(<<a, b>>) = (ScalarSum(<<a>>) + b) % Order
  BY <1>1, ScalarSumAppend, Zenon
<1>. QED  BY <1>1, <1>2, <1>3, <1>4, Zenon

\* Two factors added, and two taken off one.
LEMMA FewBlindingFactors ==
  ASSUME NEW a \in Scalar, NEW b \in Scalar, NEW c \in Scalar
  PROVE  /\ AddBlindingFactors(<<a, b>>, <<>>) = (a + b) % Order
         /\ AddBlindingFactors(<<c>>, <<a, b>>) = (c + Order - ((a + b) % Order)) % Order
<1>. DEFINE s == (a + b) % Order
<1>1. s \in Scalar
  BY Plus, Zenon
<1>2. AddBlindingFactors(<<a, b>>, <<>>) = (s + Order - 0) % Order
  <2>1. /\ <<>> \in Seq(Scalar) /\ <<a, b>> \in Seq(Scalar) /\ ScalarSum(<<>>) = 0 /\ ScalarSum(<<a, b>>) = s
    BY ShortSums, Zenon
  <2>. DEFINE p == <<a, b>>
              e == <<>>
  <2>2. p \in Seq(Scalar) /\ e \in Seq(Scalar) /\ ScalarSum(e) = 0 /\ ScalarSum(p) = s
    BY <2>1, Zenon
  <2>. HIDE DEF p, e, s
  <2>3. AddBlindingFactors(p, e) = (ScalarSum(p) + Order - ScalarSum(e)) % Order
    BY <2>2, AddBlindingIs, Zenon
  <2>. QED  BY <2>2, <2>3, Zenon DEF p, e
<1>3. AddBlindingFactors(<<c>>, <<a, b>>) = (c + Order - s) % Order
  <2>. DEFINE p == <<c>>
              e == <<a, b>>
  <2>2. p \in Seq(Scalar) /\ e \in Seq(Scalar) /\ ScalarSum(e) = s /\ ScalarSum(p) = c
    BY ShortSums, Zenon
  <2>. HIDE DEF p, e, s
  <2>3. AddBlindingFactors(p, e) = (ScalarSum(p) + Order - ScalarSum(e)) % Order
    BY <2>2, AddBlindingIs, Zenon
  <2>. QED  BY <2>2, <2>3, Zenon DEF p, e
<1>. HIDE DEF s
<1>4. 0 \in Scalar /\ s >= 0 /\ s - 0 = s
  BY <1>1, OrderIsNat DEF Scalar
<1>5. (s + Order - 0) % Order = s
  BY <1>1, <1>4, Minus, Zenon
<1>. QED  BY <1>2, <1>3, <1>5, Zenon DEF s

-----------------------------------------------------------------------------
(* Amounts and keys cancel out *)

\* Sums of few points, and of a sequence that goes on with at most one.
LEMMA ShortPointSums ==
  ASSUME NEW a \in Point, NEW b \in Point
  PROVE  /\ <<>> \in Seq(Point) /\ <<a>> \in Seq(Point) /\ <<a, b>> \in Seq(Point)
         /\ SumOf(<<>>) = Infinity /\ SumOf(<<a>>) = a /\ SumOf(<<a, b>>) = PointSum(a, b)
<1>1. /\ <<>> \in Seq(Point) /\ <<a>> \in Seq(Point) /\ <<a, b>> \in Seq(Point)
      /\ <<a>> = Append(<<>>, a) /\ <<a, b>> = Append(<<a>>, b)
  OBVIOUS
<1>2. SumOf(<<>>) = Infinity /\ SumOf(<<a>>) = PointSum(Infinity, a)
  BY <1>1, SumOfAppend, Zenon
<1>3. SumOf(<<a, b>>) = PointSum(SumOf(<<a>>), b)
  BY <1>1, SumOfAppend, Zenon
<1>. QED  BY <1>1, <1>2, <1>3, InfinityIsZero, Zenon

\* The sum of a sequence with one point more, or none.
LEMMA SumOfRest ==
  ASSUME NEW seq \in Seq(Point), NEW x \in Point
  PROVE  /\ seq \o <<>> \in Seq(Point) /\ SumOf(seq \o <<>>) = PointSum(SumOf(seq), Infinity)
         /\ seq \o <<x>> \in Seq(Point) /\ SumOf(seq \o <<x>>) = PointSum(SumOf(seq), x)
         /\ SumOf(seq) \in Point
<1>1. seq \o <<>> = seq /\ seq \o <<x>> = Append(seq, x) /\ Append(seq, x) \in Seq(Point)
  OBVIOUS
<1>2. SumOf(seq) \in Point /\ SumOf(Append(seq, x)) = PointSum(SumOf(seq), x)
  BY SumOfAppend, Zenon
<1>. QED  BY <1>1, <1>2, InfinityIsZero, Zenon

\* Nothing is left when nothing is taken off.
LEMMA NegatedIs ==
  ASSUME NEW a \in Scalar, NEW b \in Scalar
  PROVE  Negated(<<a, b>>) = <<(Order - a) % Order, (Order - b) % Order>>
  BY DEF Negated

\* The sum of points, by coordinates.
LEMMA PointSumIs ==
  ASSUME NEW a, NEW b, NEW c, NEW d
  PROVE  PointSum(<<a, b>>, <<c, d>>) = <<(a + c) % Order, (b + d) % Order>>
  BY DEF PointSum

\* Negation, and a sum with it.
LEMMA NegatedScalar ==
  ASSUME NEW s \in Scalar, NEW m \in Scalar
  PROVE  /\ (Order - m) % Order \in Scalar
         /\ (s + ((Order - m) % Order)) % Order \in Scalar
         /\ (s + ((Order - m) % Order)) % Order = IF s >= m THEN s - m ELSE (s - m) + Order
<1>1. Order - m \in Nat
  BY OrderIsNat DEF Scalar
<1>2. (Order - m) % Order \in Scalar
  BY <1>1, DivMod, Zenon
<1>. QED  BY <1>2, TakeOff, ScalarSumType, Zenon

\* What is left of the amounts, of u before, change c, amount a, fee f and reward r.
AmountLeft(c, a, f, r, u) ==
  (((((((c + a) % Order) + f) % Order) + u) % Order) + ((Order - r) % Order)) % Order

\* The amounts of a transaction cancel out.
LEMMA AmountsCancel ==
  ASSUME NEW c \in Scalar, NEW a \in Scalar, NEW f \in Scalar, NEW r \in Scalar,
         c + a + f = r, NEW u \in Scalar
  PROVE  AmountLeft(c, a, f, r, u) = u
<1>. DEFINE s1 == (c + a) % Order
            s2 == (s1 + f) % Order
            s3 == (s2 + u) % Order
            s4 == (s3 + ((Order - r) % Order)) % Order
<1>1. s1 \in Scalar /\ s1 = IF c + a < Order THEN c + a ELSE (c + a) - Order
  BY Plus, Zenon
<1>. HIDE DEF s1
<1>2. s2 \in Scalar /\ s2 = IF s1 + f < Order THEN s1 + f ELSE (s1 + f) - Order
  BY <1>1, Plus, Zenon
<1>. HIDE DEF s2
<1>3. s3 \in Scalar /\ s3 = IF s2 + u < Order THEN s2 + u ELSE (s2 + u) - Order
  BY <1>2, Plus, Zenon
<1>. HIDE DEF s3
<1>4. s4 = IF s3 >= r THEN s3 - r ELSE (s3 - r) + Order
  BY <1>3, NegatedScalar, Zenon
<1>. HIDE DEF s4
<1>5. s1 = c + a
  BY <1>1, OrderIsNat DEF Scalar
<1>6. s2 = r
  BY <1>2, <1>5, OrderIsNat DEF Scalar
<1>7. s4 = u
  BY <1>3, <1>4, <1>6, OrderIsNat DEF Scalar
<1>. QED  BY <1>7, Zenon DEF AmountLeft, s1, s2, s3, s4

\* The blinding factors of the outputs, and the key with the offset.
BlindsLeft(c, b, i, v) == (((((c + b) % Order) + v) % Order) + ((Order - i) % Order)) % Order
KeyAndOffset(c, b, i, o, k, so) ==
  (((((((c + Order - ((i + o) % Order)) % Order) + b) % Order) + k) % Order) + ((so + o) % Order)) % Order

\* The two sides are the same.
KeysBalanced(c, b, i, o, k, so) == BlindsLeft(c, b, i, (k + so) % Order) = KeyAndOffset(c, b, i, o, k, so)

\* The blinding factors of a transaction add up to its key and its offset.
LEMMA KeysBalance ==
  ASSUME NEW c \in Scalar, NEW b \in Scalar, NEW i \in Scalar, NEW o \in Scalar,
         NEW k \in Scalar, NEW so \in Scalar
  PROVE  KeysBalanced(c, b, i, o, k, so)
<1>. DEFINE s1 == (c + b) % Order
            u == (k + so) % Order
            s2 == (s1 + u) % Order
            s3 == (s2 + ((Order - i) % Order)) % Order
            w == (i + o) % Order
            x == (c + Order - w) % Order
            y == (x + b) % Order
            t == (y + k) % Order
            v == (so + o) % Order
            z == (t + v) % Order
<1>1. /\ s1 \in Scalar /\ s1 = IF c + b < Order THEN c + b ELSE (c + b) - Order
      /\ u \in Scalar /\ u = IF k + so < Order THEN k + so ELSE (k + so) - Order
      /\ w \in Scalar /\ w = IF i + o < Order THEN i + o ELSE (i + o) - Order
      /\ v \in Scalar /\ v = IF so + o < Order THEN so + o ELSE (so + o) - Order
  BY Plus, Zenon
<1>. HIDE DEF s1, u, w, v
<1>2. s2 \in Scalar /\ s2 = IF s1 + u < Order THEN s1 + u ELSE (s1 + u) - Order
  BY <1>1, Plus, Zenon
<1>. HIDE DEF s2
<1>3. s3 \in Scalar /\ s3 = IF s2 >= i THEN s2 - i ELSE (s2 - i) + Order
  BY <1>2, NegatedScalar, Zenon
<1>4. x = IF c >= w THEN c - w ELSE (c - w) + Order
  BY <1>1, Minus, Zenon
<1>. HIDE DEF s3, x
<1>5. x \in Scalar
  BY <1>1, <1>4, OrderIsNat DEF Scalar
<1>6. y \in Scalar /\ y = IF x + b < Order THEN x + b ELSE (x + b) - Order
  BY <1>5, Plus, Zenon
<1>. HIDE DEF y
<1>7. t \in Scalar /\ t = IF y + k < Order THEN y + k ELSE (y + k) - Order
  BY <1>6, Plus, Zenon
<1>. HIDE DEF t
<1>8. z \in Scalar /\ z = IF t + v < Order THEN t + v ELSE (t + v) - Order
  BY <1>1, <1>7, Plus, Zenon
<1>. HIDE DEF z
<1>9. s3 = z
  <2>. DEFINE d == c + b + k + so - i
  <2>0. d \in Int /\ Order \in Nat
    BY OrderIsNat DEF Scalar
  <2>1. \/ s2 = d + i
        \/ s2 = (d + i) - Order
        \/ s2 = (d + i) - 2 * Order
        \/ s2 = (d + i) - 3 * Order
    BY <1>1, <1>2, <2>0 DEF Scalar
  <2>2. \/ s3 = (d) + Order
        \/ s3 = d
        \/ s3 = (d) - Order
        \/ s3 = (d) - 2 * Order
        \/ s3 = (d) - 3 * Order
    BY <1>3, <2>1, <2>0 DEF Scalar
  <2>3. \/ x = c - i - o
        \/ x = (c - i - o) + Order
        \/ x = (c - i - o) + 2 * Order
    BY <1>1, <1>4, <2>0 DEF Scalar
  <2>4. \/ t = (c - i - o + b + k) - 2 * Order
        \/ t = (c - i - o + b + k) - Order
        \/ t = c - i - o + b + k
        \/ t = (c - i - o + b + k) + Order
        \/ t = (c - i - o + b + k) + 2 * Order
    BY <1>5, <1>6, <1>7, <2>3, <2>0 DEF Scalar
  <2>5. \/ z = (d) - 4 * Order
        \/ z = (d) - 3 * Order
        \/ z = (d) - 2 * Order
        \/ z = (d) - Order
        \/ z = d
        \/ z = (d) + Order
        \/ z = (d) + 2 * Order
    BY <1>1, <1>8, <2>4, <2>0 DEF Scalar
  <2>. HIDE DEF d
  <2>. QED  BY <1>3, <1>8, <2>0, <2>2, <2>5 DEF Scalar
<1>. QED  BY <1>9, Zenon DEF KeysBalanced, BlindsLeft, KeyAndOffset, s1, s2, s3, u, w, x, y, t, v, z

-----------------------------------------------------------------------------
(* The coinbase *)

\* One point taken off another.
LEMMA PointMinusIs ==
  ASSUME NEW a \in Scalar, NEW b \in Scalar, NEW c \in Scalar, NEW d \in Scalar
  PROVE  PointSum(<<a, b>>, Negated(<<c, d>>))
           = <<(a + ((Order - c) % Order)) % Order, (b + ((Order - d) % Order)) % Order>>
<1>. DEFINE e == (Order - c) % Order
            f == (Order - d) % Order
<1>1. Negated(<<c, d>>) = <<e, f>>
  BY NegatedIs, Zenon
<1>. HIDE DEF e, f
<1>2. PointSum(<<a, b>>, <<e, f>>) = <<(a + e) % Order, (b + f) % Order>>
  BY DEF PointSum
<1>. QED  BY <1>1, <1>2, Zenon DEF e, f

\* The commitments of short lists.
LEMMA FewCommitments ==
  ASSUME NEW y, NEW z
  PROVE  /\ [i \in DOMAIN <<>> |-> <<>>[i].commitment] = <<>>
         /\ [i \in DOMAIN <<y>> |-> <<y>>[i].commitment] = <<y.commitment>>
         /\ [i \in DOMAIN <<y>> |-> <<y>>[i].excess] = <<y.excess>>
         /\ [i \in DOMAIN <<y, z>> |-> <<y, z>>[i].commitment] = <<y.commitment, z.commitment>>
  OBVIOUS

\* The body of the block that created the sender's coin.
CoinbaseBody ==
  [inputs |-> <<>>, outputs |-> <<OutputWith(1, Reward, InputBlind, <<>>)>>,
   kernels |-> <<[fee |-> 0, excess |-> CommitBlinded(0, InputBlind)]>>]

\* The coins of a coinbase are taken off, and its blinding factor is its key.
LEMMA CoinbaseSums ==
  LET result == ValidateKernelSums(CoinbaseBody, 0 - Reward, 0, NoSums)
  IN  /\ result \in BlockSums
      /\ result.utxo = PointSum(result.kernel, <<0, 0>>)
<1>. DEFINE body == CoinbaseBody
            coin == <<Reward, InputBlind>>
            key == <<0, InputBlind>>
            over == 0 - Reward
            new == NewSums(body, over, NoSums)
            y == OutputWith(1, Reward, InputBlind, <<>>)
            k == [fee |-> 0, excess |-> CommitBlinded(0, InputBlind)]
<1>1. Reward \in Scalar /\ InputBlind \in Scalar /\ InputBlind # 0 /\ 0 \in Scalar
  BY Amounts, SmallScalars, Zenon
<1>2. /\ CommitBlinded(Reward, InputBlind) = coin /\ coin \in Point
      /\ CommitBlinded(0, InputBlind) = key /\ key \in Point /\ key # Infinity
  BY <1>1, CommitIs, Zenon
<1>3. /\ body.inputs = <<>> /\ body.outputs = <<y>> /\ body.kernels = <<k>>
  BY DEF CoinbaseBody
<1>4. y.commitment = coin /\ k.excess = key
  BY <1>2 DEF OutputWith
<1>. HIDE DEF y, k, body
<1>5. /\ OutputCommitments(body) = <<coin>> /\ InputCommitments(body) = <<>> /\ KernelCommitments(body) = <<key>>
  BY <1>3, <1>4, FewCommitments, Zenon DEF OutputCommitments, InputCommitments, KernelCommitments
<1>. HIDE DEF coin, key
<1>6. /\ <<coin>> \in Seq(Point) /\ <<>> \in Seq(Point) /\ <<key>> \in Seq(Point)
      /\ SumOf(<<coin>>) = coin /\ SumOf(<<key>>) = key /\ SumOf(<<>>) = Infinity
  BY <1>2, ShortPointSums, Zenon
<1>7. PointsOf(body)
  BY <1>5, <1>6, Zenon DEF PointsOf
<1>8. over \in Int /\ 0 - over = Reward /\ ~(over > 0)
  BY <1>1, OrderIsNat DEF Scalar
<1>9. /\ OverageCommitments(over).inputs = (IF over < 0 THEN <<<<0 - over, 0>>>> ELSE <<>>)
      /\ OverageCommitments(over).outputs = (IF over > 0 THEN <<<<over, 0>>>> ELSE <<>>)
  <2>. HIDE DEF over
  <2>. QED  BY <1>1, <1>8, OverageIs, Zenon
<1>10. UtxoPlus(body, over, NoSums) = <<coin>>
  <2>1. UtxoPlus(body, over, NoSums) = <<coin>> \o <<>> \o <<>>
    BY <1>5, <1>8, <1>9, Zenon DEF UtxoPlus
  <2>2. <<coin>> \o <<>> = <<coin>>
    OBVIOUS
  <2>. QED  BY <2>1, <2>2, Zenon
<1>11. KernelPlus(body, NoSums) = <<key>>
  <2>1. KernelPlus(body, NoSums) = <<key>> \o <<>>
    BY <1>5, Zenon DEF KernelPlus
  <2>2. <<key>> \o <<>> = <<key>>
    OBVIOUS
  <2>. QED  BY <2>1, <2>2, Zenon
<1>12. SumOf(UtxoMinus(body, over)) = <<Reward, 0>>
  <2>. DEFINE taken == OverageCommitments(over).inputs
  <2>1. UtxoMinus(body, over) = <<>> \o taken
    BY <1>5, Zenon DEF UtxoMinus
  <2>2. CASE over < 0
    <3>1. taken = <<<<Reward, 0>>>>
      BY <1>8, <1>9, <2>2, Zenon
    <3>2. <<Reward, 0>> \in Point
      BY <1>1 DEF Point
    <3>3. <<>> \o <<<<Reward, 0>>>> = <<<<Reward, 0>>>>
      OBVIOUS
    <3>. QED  BY <2>1, <3>1, <3>2, <3>3, ShortPointSums, Zenon
  <2>3. CASE ~(over < 0)
    <3>1. taken = <<>> /\ <<>> \o <<>> = <<>>
      BY <1>9, <2>3
    <3>2. Reward = 0
      BY <1>1, <2>3, OrderIsNat DEF Scalar
    <3>. QED  BY <1>6, <2>1, <3>1, <3>2, Zenon DEF Infinity
  <2>. QED  BY <2>2, <2>3, Zenon
<1>13. new.utxo = PointSum(coin, Negated(<<Reward, 0>>)) /\ new.kernel = PointSum(key, Negated(Infinity))
  <2>1. /\ new.utxo = NetSum(UtxoPlus(body, over, NoSums), UtxoMinus(body, over))
        /\ new.kernel = NetSum(KernelPlus(body, NoSums), <<>>)
    BY DEF NewSums
  <2>. QED  BY <1>6, <1>10, <1>11, <1>12, <2>1, Zenon DEF NetSum
<1>14. new.utxo = key /\ new.kernel = key
  <2>1. /\ (Reward + ((Order - Reward) % Order)) % Order = 0
        /\ (0 + ((Order - 0) % Order)) % Order = 0
        /\ (InputBlind + ((Order - 0) % Order)) % Order = InputBlind
    <3>1. Reward - Reward = 0 /\ Reward >= Reward /\ 0 - 0 = 0 /\ 0 >= 0 /\ InputBlind >= 0 /\ InputBlind - 0 = InputBlind
      BY <1>1 DEF Scalar
    <3>. QED  BY <1>1, <3>1, TakeOff, Zenon
  <2>2. PointSum(coin, Negated(<<Reward, 0>>)) = key
    BY <1>1, <2>1, PointMinusIs DEF coin, key
  <2>3. PointSum(key, Negated(Infinity)) = key
    BY <1>1, <2>1, PointMinusIs DEF key, Infinity
  <2>. QED  BY <1>13, <2>2, <2>3, Zenon
<1>15. AddKernelOffset(key, 0) # Throw
  <2>1. AddKernelOffset(key, 0) = AddCommitments(<<key>> \o <<>>, <<>>)
    BY Zenon DEF AddKernelOffset
  <2>2. <<key>> \o <<>> = <<key>>
    OBVIOUS
  <2>3. NetSum(<<key>>, <<>>) = PointSum(key, Negated(Infinity))
    BY <1>6, Zenon DEF NetSum
  <2>4. AddCommitments(<<key>>, <<>>) = EncodeCommitment(NetSum(<<key>>, <<>>))
    BY <1>6, AddCommitmentsIs, Zenon
  <2>5. AddCommitments(<<key>>, <<>>) = EncodeCommitment(key)
    BY <1>13, <1>14, <2>3, <2>4, Zenon
  <2>. QED  BY <1>2, <2>1, <2>2, <2>5, Encoded, Zenon
<1>16. ValidateKernelSums(body, over, 0, NoSums) = new /\ new \in BlockSums
  <2>. HIDE DEF over
  <2>1. 0 - over \in Scalar
    BY <1>1, <1>8, Zenon
  <2>2. new.utxo # Infinity /\ new.kernel # Infinity /\ AddKernelOffset(new.kernel, 0) # Throw
    BY <1>2, <1>14, <1>15, Zenon
  <2>. QED  BY <1>7, <1>8, <2>1, <2>2, KernelSumsAre, Zenon
<1>17. PointSum(key, <<0, 0>>) = key
  BY <1>2, InfinityIsZero, Zenon DEF Infinity
<1>. QED  BY <1>14, <1>16, <1>17, Zenon DEF body

-----------------------------------------------------------------------------
(* The sums of the transaction *)

\* A body with the commitments of the one that is built.
Genuine(body) ==
  /\ OutputCommitments(body) = <<<<Change, ChangeBlind>>, <<Amount, blind>>>>
  /\ InputCommitments(body) = <<<<Reward, InputBlind>>>>
  /\ KernelCommitments(body) = <<<<0, SumKey>>>>

\* The previous sums, or nothing.
OldUtxo(old) == IF old # NoSums THEN old.utxo ELSE Infinity
OldKernel(old) == IF old # NoSums THEN old.kernel ELSE Infinity

\* What the sums are, coordinate by coordinate.
LEMMA GenuineSumsAre ==
  ASSUME SlateInv, BuildInv, NEW body, Genuine(body), NEW old, old # NoSums => old \in BlockSums,
         SumKey \in Scalar, blind \in Scalar, 
         NEW u \in Scalar, NEW v \in Scalar, NEW k \in Scalar, NEW l \in Scalar,
         OldUtxo(old) = <<u, v>>, OldKernel(old) = <<k, l>>
  PROVE  LET new == NewSums(body, Fee, old)
         IN  /\ PointsOf(body)
             /\ new.utxo = <<AmountLeft(Change, Amount, Fee, Reward, u),
                             BlindsLeft(ChangeBlind, blind, InputBlind, v)>>
             /\ new.kernel = <<k, (SumKey + l) % Order>>
<1>. DEFINE new == NewSums(body, Fee, old)
            p == <<Change, ChangeBlind>>
            q == <<Amount, blind>>
            i == <<Reward, InputBlind>>
            e == <<0, SumKey>>
            U == <<u, v>>
            K == <<k, l>>
            f == <<Fee, 0>>
            oldU == IF old # NoSums THEN <<old.utxo>> ELSE <<>>
            oldK == IF old # NoSums THEN <<old.kernel>> ELSE <<>>
            fee == OverageCommitments(Fee)
<1>1. /\ Change \in Scalar /\ ChangeBlind \in Scalar /\ Amount \in Scalar /\ blind \in Scalar
      /\ Reward \in Scalar /\ InputBlind \in Scalar /\ Fee \in Scalar /\ SumKey \in Scalar /\ 0 \in Scalar
  BY Amounts, SmallScalars, Zenon
<1>2. /\ p \in Point /\ q \in Point /\ i \in Point /\ e \in Point /\ U \in Point /\ K \in Point /\ f \in Point
      /\ Infinity \in Point
  BY <1>1 DEF Point, Infinity
<1>. DEFINE s1 == (Change + Amount) % Order
            t1 == (ChangeBlind + blind) % Order
            s2 == (s1 + Fee) % Order
            s3 == (s2 + u) % Order
            t3 == (t1 + v) % Order
<1>3. /\ OutputCommitments(body) = <<p, q>> /\ InputCommitments(body) = <<i>> /\ KernelCommitments(body) = <<e>>
  BY Zenon DEF Genuine
<1>4. /\ s1 \in Scalar /\ t1 \in Scalar /\ PointSum(p, q) = <<s1, t1>>
  <2>1. s1 \in Scalar /\ t1 \in Scalar
    BY <1>1, Plus, Zenon
  <2>. QED  BY <2>1 DEF PointSum
<1>. HIDE DEF s1, t1
<1>5. s2 \in Scalar /\ PointSum(<<s1, t1>>, f) = <<s2, t1>>
  <2>1. s2 \in Scalar
    BY <1>1, <1>4, Plus, Zenon
  <2>2. (t1 + 0) % Order = t1
    <3>1. t1 + 0 = t1 /\ t1 \in 0..(2 * Order - 1) /\ t1 < Order
      BY <1>4, OrderIsNat DEF Scalar
    <3>. QED  BY <3>1, SmallMod, Zenon
  <2>3. PointSum(<<s1, t1>>, <<Fee, 0>>) = <<(s1 + Fee) % Order, (t1 + 0) % Order>>
    BY DEF PointSum
  <2>. QED  BY <2>1, <2>2, <2>3, Zenon
<1>. HIDE DEF s2
<1>6. PointSum(<<s2, t1>>, U) = <<s3, t3>> /\ s3 \in Scalar /\ t3 \in Scalar
  <2>1. s3 \in Scalar /\ t3 \in Scalar
    BY <1>4, <1>5, Plus, Zenon
  <2>. QED  BY <2>1 DEF PointSum
<1>. DEFINE outputs == <<p, q>>
            inputs == <<i>>
            kernels == <<e>>
<1>7. /\ outputs \in Seq(Point) /\ SumOf(outputs) = PointSum(p, q)
      /\ inputs \in Seq(Point) /\ SumOf(inputs) = i
      /\ kernels \in Seq(Point) /\ SumOf(kernels) = e /\ SumOf(<<>>) = Infinity
  <2>. HIDE DEF p, q, i, e
  <2>. QED  BY <1>2, ShortPointSums, Zenon
<1>8. /\ OldUtxo(old) = U /\ OldKernel(old) = K
  OBVIOUS
<1>. HIDE DEF outputs, inputs, kernels, p, q, i, e, U, K
<1>9. Fee \in Int /\ ~(Fee < 0)
  BY <1>1, OrderIsNat DEF Scalar
<1>10. /\ fee.inputs = <<>> /\ fee.outputs = (IF Fee > 0 THEN <<f>> ELSE <<>>)
  BY <1>1, <1>9, OverageIs, Zenon
<1>. DEFINE withFee == outputs \o fee.outputs
<1>11. withFee \in Seq(Point) /\ SumOf(withFee) = PointSum(PointSum(p, q), f)
  <2>1. CASE Fee > 0
    <3>1. withFee = outputs \o <<f>>
      BY <1>10, <2>1, Zenon
    <3>. HIDE DEF f, withFee
    <3>. QED  BY <1>2, <1>7, <3>1, SumOfRest
  <2>2. CASE ~(Fee > 0)
    <3>1. withFee = outputs \o <<>>
      BY <1>10, <2>2, Zenon
    <3>2. Fee = 0
      BY <1>1, <2>2, OrderIsNat DEF Scalar
    <3>3. f = Infinity
      BY <3>2, Zenon DEF Infinity
    <3>. HIDE DEF f, withFee
    <3>. QED  BY <1>2, <1>7, <3>1, <3>3, SumOfRest, Zenon
  <2>. QED  BY <2>1, <2>2, Zenon
<1>12. SumOf(UtxoPlus(body, Fee, old)) = PointSum(PointSum(PointSum(p, q), f), U)
  <2>1. UtxoPlus(body, Fee, old) = withFee \o oldU
    BY <1>3, Zenon DEF UtxoPlus, outputs
  <2>. HIDE DEF withFee, f
  <2>2. CASE old # NoSums
    <3>1. oldU = <<U>>
      BY <1>8, <2>2, Zenon DEF OldUtxo
    <3>. QED  BY <1>2, <1>11, <2>1, <3>1, SumOfRest
  <2>3. CASE old = NoSums
    <3>1. oldU = <<>> /\ U = Infinity
      BY <1>8, <2>3, Zenon DEF OldUtxo
    <3>. QED  BY <1>2, <1>11, <2>1, <3>1, SumOfRest, Zenon
  <2>. QED  BY <2>2, <2>3, Zenon
<1>13. SumOf(KernelPlus(body, old)) = PointSum(e, K)
  <2>1. KernelPlus(body, old) = kernels \o oldK
    BY <1>3, Zenon DEF KernelPlus, kernels
  <2>2. CASE old # NoSums
    <3>1. oldK = <<K>>
      BY <1>8, <2>2, Zenon DEF OldKernel
    <3>. QED  BY <1>2, <1>7, <2>1, <3>1, SumOfRest
  <2>3. CASE old = NoSums
    <3>1. oldK = <<>> /\ K = Infinity
      BY <1>8, <2>3, Zenon DEF OldKernel
    <3>. QED  BY <1>2, <1>7, <2>1, <3>1, SumOfRest, Zenon
  <2>. QED  BY <2>2, <2>3, Zenon
<1>14. SumOf(UtxoMinus(body, Fee)) = i
  <2>1. UtxoMinus(body, Fee) = inputs \o <<>>
    BY <1>3, <1>10, Zenon DEF UtxoMinus, inputs
  <2>2. inputs \o <<>> = inputs
    BY <1>7
  <2>. QED  BY <1>7, <2>1, <2>2, Zenon
<1>15. /\ new.utxo = PointSum(SumOf(UtxoPlus(body, Fee, old)), Negated(SumOf(UtxoMinus(body, Fee))))
       /\ new.kernel = PointSum(SumOf(KernelPlus(body, old)), Negated(SumOf(<<>>)))
  BY DEF NewSums, NetSum
<1>16. new.utxo = PointSum(<<s3, t3>>, Negated(i))
  <2>. HIDE DEF f, s3, t3, new
  <2>. QED  BY <1>4, <1>5, <1>6, <1>12, <1>14, <1>15, Zenon
<1>17. new.utxo = <<(s3 + ((Order - Reward) % Order)) % Order, (t3 + ((Order - InputBlind) % Order)) % Order>>
  <2>. HIDE DEF s3, t3, new
  <2>. QED  BY <1>1, <1>6, <1>16, PointMinusIs DEF i
<1>18. PointSum(e, K) = <<k, (SumKey + l) % Order>>
  <2>1. (0 + k) % Order = k
    BY SmallMod, OrderIsNat DEF Scalar
  <2>2. PointSum(<<0, SumKey>>, <<k, l>>) = <<(0 + k) % Order, (SumKey + l) % Order>>
    BY DEF PointSum
  <2>. QED  BY <2>1, <2>2, Zenon DEF e, K
<1>19. new.kernel = <<k, (SumKey + l) % Order>>
  <2>. DEFINE x == (SumKey + l) % Order
  <2>1. x \in Scalar
    BY <1>1, Plus, Zenon
  <2>. HIDE DEF x, new
  <2>2. new.kernel = PointSum(<<k, x>>, Negated(<<0, 0>>))
    BY <1>7, <1>13, <1>15, <1>18, Zenon DEF Infinity, x
  <2>3. PointSum(<<k, x>>, Negated(<<0, 0>>)) = <<(k + ((Order - 0) % Order)) % Order, (x + ((Order - 0) % Order)) % Order>>
    BY <1>1, <2>1, PointMinusIs
  <2>4. (k + ((Order - 0) % Order)) % Order = k /\ (x + ((Order - 0) % Order)) % Order = x
    <3>1. k >= 0 /\ k - 0 = k /\ x >= 0 /\ x - 0 = x
      BY <2>1 DEF Scalar
    <3>. QED  BY <1>1, <2>1, <3>1, TakeOff, Zenon
  <2>. QED  BY <2>2, <2>3, <2>4, Zenon DEF x
<1>20. PointsOf(body)
  BY <1>3, <1>7, Zenon DEF PointsOf, outputs, inputs, kernels
<1>. QED  BY <1>17, <1>19, <1>20, Zenon DEF AmountLeft, BlindsLeft, s1, t1, s2, s3, t3

-----------------------------------------------------------------------------
(* The transaction is made once *)

\* The transaction is made of what the wallets keep secret until it is built.
LEMMA BuiltStays ==
  ASSUME UNCHANGED <<blind, offset, secret, signature>>
  PROVE  Built' = Built
<1>1. blind' = blind /\ offset' = offset /\ secret' = secret /\ signature' = signature
  OBVIOUS
<1>2. ProofBy("sender")' = ProofBy("sender") /\ ProofBy("receiver")' = ProofBy("receiver")
  BY <1>1 DEF ProofBy, Value, BlindOf, RewindNonce, PrivateNonce, Path, ProofType
<1>. QED  BY <1>1, <1>2 DEF Built, OutputWith

\* At the start there is no transaction.
LEMMA InitBuild == Init => BuildInv
<1>. SUFFICES ASSUME Init PROVE BuildInv
  OBVIOUS
<1>1. phase = "slate" /\ blind \in Blinds /\ offset \in Offsets /\ tx = None
  BY DEF Init
<1>2. PICK n \in Nonces, m \in Nonces :
        secret = [sender |-> [key |-> AddBlindingFactors(<<ChangeBlind>>, <<InputBlind, offset>>),
                              nonce |-> n],
                  receiver |-> [key |-> blind, nonce |-> GenerateSecureNonce(m)]]
  BY DEF Init
<1>3. /\ secret["sender"].key = AddBlindingFactors(<<ChangeBlind>>, <<InputBlind, offset>>)
      /\ secret["receiver"].key = blind
  BY <1>2
<1>. QED  BY <1>1, <1>3, Zenon DEF BuildInv

\* What a step leaves as it is.
Kept == secret' = secret /\ blind' = blind /\ offset' = offset

\* The steps before the transaction is built.
LEMMA SlateKeepsBuild ==
  ASSUME BuildInv, Kept, phase = "slate", phase' \in {"slate", "failed"}, tx' = tx
  PROVE  BuildInv'
<1>1. tx = None
  BY Zenon DEF BuildInv
<1>. QED  BY <1>1 DEF BuildInv, Kept

\* The steps of the node.
LEMMA NodeKeepsBuild ==
  ASSUME BuildInv, Kept, signature' = signature, tx' = tx,
         phase' = phase \/ (phase = "broadcast" /\ phase' = "crashed")
  PROVE  BuildInv'
<1>1. Built' = Built
  BY BuiltStays DEF Kept
<1>2. phase' \in {"slate", "broadcast", "failed", "crashed"} /\ (phase' = "broadcast" => phase = "broadcast")
      /\ (phase # "slate" => phase' # "slate")
  BY DEF BuildInv
<1>3. /\ blind' \in Blinds /\ offset' \in Offsets
      /\ secret'["sender"].key = AddBlindingFactors(<<ChangeBlind>>, <<InputBlind, offset'>>)
      /\ secret'["receiver"].key = blind'
  BY Zenon DEF BuildInv, Kept
<1>4. phase' = "broadcast" => tx' # None
  BY <1>2, Zenon DEF BuildInv
<1>5. tx' # None => phase' # "slate" /\ signature' # None /\ tx' = Built'
  BY <1>1, <1>2, Zenon DEF BuildInv
<1>. HIDE DEF Built
<1>. QED  BY <1>2, <1>3, <1>4, <1>5, Zenon DEF BuildInv

\* If both proofs can be made the transaction is the one built from the slate.
LEMMA BuildKeepsBuild ==
  ASSUME SlateInv, BuildInv, Build
  PROVE  BuildInv'
<1>1. Kept /\ signature' = signature /\ phase = "slate" /\ signature # None
  BY DEF Build, Kept, slateVars
<1>2. PICK change \in ProofsOf("sender"), proof \in ProofsOf("receiver") :
        IF {change, proof} \cap {Throw, Crash} # {}
        THEN phase' = "failed" /\ UNCHANGED tx
        ELSE /\ phase' = "broadcast"
             /\ tx' = [offset |-> offset,
                       body |-> [inputs |-> <<[features |-> 1,
                                               commitment |-> CommitBlinded(Reward, InputBlind)]>>,
                                 outputs |-> <<OutputWith(0, Change, ChangeBlind, change),
                                               OutputWith(0, Amount, blind, proof)>>,
                                 kernels |-> <<[fee |-> Fee, signature |-> signature,
                                                excess |-> AddCommitments(
                                                  <<CommitBlinded(0, secret["sender"].key),
                                                    CommitBlinded(0, secret["receiver"].key)>>,
                                                  <<>>)]>>]]
  BY Zenon DEF Build
<1>3. CASE {change, proof} \cap {Throw, Crash} # {}
  <2>1. phase' = "failed" /\ tx' = tx
    BY <1>2, <1>3
  <2>. QED  BY <1>1, <2>1, SlateKeepsBuild, Zenon
<1>4. CASE {change, proof} \cap {Throw, Crash} = {}
  <2>1. change \notin {Throw, Crash} /\ proof \notin {Throw, Crash}
    BY <1>4, Zenon
  <2>2. change = ProofBy("sender") /\ proof = ProofBy("receiver")
    <3>1. ProofsOf("sender") = {ProofBy("sender"), Throw, Crash} /\ ProofsOf("receiver") = {ProofBy("receiver"), Throw, Crash}
      BY Zenon DEF ProofsOf, GenerateRangeProof, ProofBy
    <3>. QED  BY <2>1, <3>1, Zenon
  <2>3. phase' = "broadcast" /\ tx' = Built
    BY <1>2, <1>4, <2>2, Zenon DEF Built
  <2>4. Built' = Built
    BY <1>1, BuiltStays DEF Kept
  <2>5. Built # None
    <3>1. Built \in Transaction
      BY <1>1, BuiltIs, Zenon DEF WholePacket, Packet, ShortTransaction
    <3>2. None \notin Transaction
      BY TransactionsAssumption, Zenon
    <3>. QED  BY <3>1, <3>2, Zenon
  <2>6. /\ blind' \in Blinds /\ offset' \in Offsets
        /\ secret'["sender"].key = AddBlindingFactors(<<ChangeBlind>>, <<InputBlind, offset'>>)
        /\ secret'["receiver"].key = blind'
    BY <1>1, Zenon DEF BuildInv, Kept
  <2>7. "broadcast" # "slate" /\ "broadcast" \in {"slate", "broadcast", "failed", "crashed"}
    OBVIOUS
  <2>. HIDE DEF Built
  <2>. QED  BY <1>1, <2>3, <2>4, <2>5, <2>6, <2>7, Zenon DEF BuildInv
<1>. QED  BY <1>3, <1>4, Zenon

\* Every step keeps it.
LEMMA NextKeepsBuild ==
  ASSUME SlateInv, BuildInv, [Next]_vars
  PROVE  BuildInv'
<1>1. ASSUME NEW p \in Party, Announce(p) PROVE BuildInv'
  <2>1. Kept /\ phase = "slate" /\ phase' \in {"slate", "failed"} /\ tx' = tx
    <3>1. Kept /\ phase = "slate" /\ tx' = tx
      BY <1>1 DEF Announce, Kept, slateVars
    <3>2. phase' = "failed" \/ phase' = phase
      BY <1>1, Zenon DEF Announce
    <3>. QED  BY <3>1, <3>2
  <2>. QED  BY <2>1, SlateKeepsBuild, Zenon
<1>2. ASSUME NEW p \in Party, Sign(p) PROVE BuildInv'
  <2>1. Kept /\ phase = "slate" /\ phase' = phase /\ tx' = tx
    BY <1>2 DEF Sign, Kept, slateVars
  <2>. QED  BY <2>1, SlateKeepsBuild
<1>3. CASE AddUp
  <2>1. Kept /\ phase = "slate" /\ tx' = tx
    BY <1>3 DEF AddUp, Kept, slateVars
  <2>2. phase' = "failed" \/ phase' = phase
    BY <1>3, Zenon DEF AddUp
  <2>. QED  BY <2>1, <2>2, SlateKeepsBuild
<1>4. CASE Aggregate
  <2>1. Kept /\ phase = "slate" /\ phase' = phase /\ tx' = tx
    BY <1>4 DEF Aggregate, Kept, slateVars
  <2>. QED  BY <2>1, SlateKeepsBuild
<1>5. CASE Build
  BY <1>5, BuildKeepsBuild, Zenon
<1>6. CASE AcceptCoinbase \/ Receive \/ Refuse \/ SumUp \/ UNCHANGED vars
  <2>1. UNCHANGED wallet
    BY <1>6 DEF AcceptCoinbase, Receive, Refuse, SumUp, vars
  <2>2. Kept /\ signature' = signature /\ tx' = tx /\ phase' = phase
    BY <2>1 DEF wallet, Kept
  <2>. QED  BY <2>2, NodeKeepsBuild, Zenon
<1>7. CASE ValidateBody
  <2>1. Kept /\ signature' = signature /\ tx' = tx /\ phase = "broadcast"
    BY <1>7 DEF ValidateBody, Kept, slateVars
  <2>2. phase' = phase \/ phase' = "crashed"
    BY <1>7, Zenon DEF ValidateBody
  <2>. QED  BY <2>1, <2>2, NodeKeepsBuild, Zenon
<1>. QED  BY <1>1, <1>2, <1>3, <1>4, <1>5, <1>6, <1>7, Zenon DEF Next

-----------------------------------------------------------------------------
(* The node *)

\* The inductive invariant of the node: what it holds came from the bytes of the
\* transaction, and its sums balance.
NodeInv ==
  /\ stage \in {"idle", "received", "valid"}
  /\ stage = "idle" => received = None
  /\ stage # "idle" => /\ tx # None
                       /\ received.bytes \in Arrivals(tx)
                       /\ received = DeserializeTransaction(received.bytes)
  /\ stage = "valid" => received.state = "ok" /\ Sound(received.value.body)
  /\ count \in 0..MaxReceived
  /\ sumOffset \in BlindingFactor /\ (sums = NoSums => sumOffset = 0)
  /\ sums # NoSums => sums \in BlockSums
  /\ verified \subseteq Commitment
  /\ SumsBalance

\* At the start the node holds nothing.
LEMMA InitNode == Init => NodeInv
<1>. SUFFICES ASSUME Init PROVE NodeInv
  OBVIOUS
<1>1. stage = "idle" /\ received = None /\ count = 0 /\ sums = NoSums /\ sumOffset = 0 /\ verified = {}
  BY DEF Init
<1>2. 0 \in 0..MaxReceived /\ 0 \in BlindingFactor
  BY TransactionsAssumption, SmallScalars DEF BlindingFactor
<1>. QED  BY <1>1, <1>2 DEF NodeInv, SumsBalance

\* The packet is that of the transaction that was built.
LEMMA PacketSent ==
  ASSUME SlateInv, BuildInv, tx # None
  PROVE  WholePacket(tx) /\ tx = Built /\ tx \in Transaction
<1>1. signature # None /\ tx = Built
  BY Zenon DEF BuildInv
<1>. QED  BY <1>1, BuiltIs, Zenon DEF WholePacket, Packet, ShortTransaction

\* The commitments of a body are points.
LEMMA BodyPoints ==
  ASSUME NEW body \in TxBody
  PROVE  PointsOf(body) /\ Range(OutputCommitments(body)) \subseteq Commitment
<1>1. /\ body.inputs \in Seq(Input) /\ body.outputs \in Seq(Output) /\ body.kernels \in Seq(Kernel)
  BY DEF TxBody
<1>. DEFINE n == Len(body.inputs)
            m == Len(body.outputs)
            l == Len(body.kernels)
<1>2. /\ n \in Nat /\ m \in Nat /\ l \in Nat
      /\ DOMAIN body.inputs = 1..n /\ DOMAIN body.outputs = 1..m /\ DOMAIN body.kernels = 1..l
  BY <1>1
<1>3. /\ \A i \in 1..n : body.inputs[i].commitment \in Commitment
      /\ \A i \in 1..m : body.outputs[i].commitment \in Commitment
      /\ \A i \in 1..l : body.kernels[i].excess \in Commitment
  <2>1. /\ \A i \in 1..n : body.inputs[i] \in Input
        /\ \A i \in 1..m : body.outputs[i] \in Output
        /\ \A i \in 1..l : body.kernels[i] \in Kernel
    BY <1>1
  <2>. QED  BY <2>1 DEF Input, Output, Kernel
<1>4. /\ \A i \in 1..n : body.inputs[i].commitment \in Point
      /\ \A i \in 1..m : body.outputs[i].commitment \in Point
      /\ \A i \in 1..l : body.kernels[i].excess \in Point
  BY <1>3, PointsAreCommitments, Zenon
<1>5. /\ InputCommitments(body) = [i \in 1..n |-> body.inputs[i].commitment]
      /\ OutputCommitments(body) = [i \in 1..m |-> body.outputs[i].commitment]
      /\ KernelCommitments(body) = [i \in 1..l |-> body.kernels[i].excess]
  BY <1>2, Zenon DEF InputCommitments, OutputCommitments, KernelCommitments
<1>. HIDE DEF n, m, l
<1>6. PointsOf(body)
  BY <1>2, <1>4, <1>5 DEF PointsOf
<1>7. Range(OutputCommitments(body)) \subseteq Commitment
  BY <1>3, <1>5 DEF Range
<1>. QED  BY <1>6, <1>7

\* What the node holds after a packet came in.
Held(r, t) == r.bytes \in Arrivals(t) /\ r = DeserializeTransaction(r.bytes)

\* What deserialized is a transaction with no proof that is too long.
LEMMA HeldIsShort ==
  ASSUME NEW x, WholePacket(x), NEW r, Held(r, x)
  PROVE  /\ r.state # "beyond"
         /\ IsStrictPrefix(r.bytes, SerializeTransaction(x)) => r.state = "throw"
         /\ r.state = "ok" => /\ r.value \in Transaction /\ r.value.body \in TxBody
                              /\ \A i \in DOMAIN r.value.body.outputs :
                                   Len(r.value.body.outputs[i].proof) <= MaxProof
<1>. DEFINE a == r.bytes
<1>1. a \in Arrivals(x) /\ r = DeserializeTransaction(a)
  BY Zenon DEF Held
<1>. HIDE DEF a
<1>2. /\ r.state # "beyond" /\ r.bytes = a
      /\ IsStrictPrefix(a, SerializeTransaction(x)) => r.state = "throw"
      /\ r.state = "ok" => r.value \in ShortTransaction
  BY <1>1, ArrivalRefused, Zenon
<1>3. ASSUME r.state = "ok"
      PROVE  /\ r.value \in Transaction /\ r.value.body \in TxBody
             /\ \A i \in DOMAIN r.value.body.outputs : Len(r.value.body.outputs[i].proof) <= MaxProof
  <2>1. /\ r.value \in Transaction /\ r.value.body \in TxBody /\ r.value.body.outputs \in Seq(ShortOutput)
    BY <1>2, <1>3, Zenon DEF ShortTransaction, ShortBody
  <2>. DEFINE outputs == r.value.body.outputs
  <2>. HIDE DEF outputs
  <2>2. \A i \in DOMAIN outputs : outputs[i] \in ShortOutput
    BY <2>1 DEF outputs
  <2>3. \A i \in DOMAIN outputs : Len(outputs[i].proof) <= MaxProof
    BY <2>2, Zenon DEF ShortOutput, ShortProof
  <2>. QED  BY <2>1, <2>3, Zenon DEF outputs
<1>. QED  BY <1>2, <1>3, Zenon

\* The steps of the wallets.
LEMMA WalletKeepsNode ==
  ASSUME NodeInv, UNCHANGED node, UNCHANGED tx \/ tx = None
  PROVE  NodeInv'
<1>1. /\ received' = received /\ stage' = stage /\ count' = count /\ sums' = sums
      /\ sumOffset' = sumOffset /\ genuine' = genuine /\ verified' = verified
  BY DEF node
<1>2. SumsBalance'
  BY <1>1 DEF NodeInv, SumsBalance
<1>3. CASE stage = "idle"
  BY <1>1, <1>2, <1>3, Zenon DEF NodeInv
<1>4. CASE stage # "idle"
  <2>1. tx' = tx
    BY <1>4, Zenon DEF NodeInv
  <2>. QED  BY <1>1, <1>2, <2>1, Zenon DEF NodeInv
<1>. QED  BY <1>3, <1>4, Zenon

\* The coin of the sender is the first that the node accepts.
LEMMA CoinbaseKeepsNode ==
  ASSUME NodeInv, AcceptCoinbase
  PROVE  NodeInv'
<1>1. /\ sums = NoSums /\ UNCHANGED <<wallet, received, stage, count, sumOffset, genuine, verified>>
      /\ sums' = ValidateKernelSums(CoinbaseBody, 0 - Reward, 0, NoSums)
  BY Zenon DEF AcceptCoinbase, CoinbaseBody
<1>2. /\ received' = received /\ stage' = stage /\ count' = count
      /\ sumOffset' = sumOffset /\ genuine' = genuine /\ verified' = verified /\ tx' = tx
  BY <1>1 DEF wallet
<1>3. /\ sums' \in BlockSums /\ sums'.utxo = PointSum(sums'.kernel, <<0, 0>>)
  BY <1>1, CoinbaseSums, Zenon
<1>4. sumOffset = 0 /\ sums' # NoSums
  BY <1>1, <1>3, NoSumsAssumption, Zenon DEF NodeInv
<1>5. SumsBalance'
  BY <1>2, <1>3, <1>4, Zenon DEF SumsBalance
<1>6. /\ stage' \in {"idle", "received", "valid"} /\ (stage' = "idle" => received' = None)
      /\ stage' # "idle" => /\ tx' # None
                            /\ received'.bytes \in Arrivals(tx')
                            /\ received' = DeserializeTransaction(received'.bytes)
      /\ stage' = "valid" => received'.state = "ok" /\ Sound(received'.value.body)
      /\ count' \in 0..MaxReceived /\ sumOffset' \in BlindingFactor /\ verified' \subseteq Commitment
  BY <1>2, Zenon DEF NodeInv
<1>. QED  BY <1>2, <1>3, <1>4, <1>5, <1>6, Zenon DEF NodeInv

\* A packet that comes in is one of those that may.
LEMMA ReceiveKeepsNode ==
  ASSUME SlateInv, BuildInv, NodeInv, Receive
  PROVE  NodeInv'
<1>1. tx # None
  BY Zenon DEF Receive, BuildInv
<1>2. PICK bytes \in Arrivals(tx) : received' = DeserializeTransaction(bytes)
  BY Zenon DEF Receive
<1>3. received'.bytes = bytes
  BY <1>1, <1>2, PacketSent, ArrivalRefused, Zenon
<1>4. stage' = "received" /\ count < MaxReceived /\ count' = count + 1 /\ UNCHANGED <<wallet, chain, verified>>
  BY Zenon DEF Receive
<1>5. tx' = tx /\ sums' = sums /\ sumOffset' = sumOffset /\ genuine' = genuine /\ verified' = verified
  BY <1>4 DEF wallet, chain
<1>6. count' \in 0..MaxReceived
  <2>1. count \in 0..MaxReceived /\ MaxReceived \in Nat
    BY TransactionsAssumption, Zenon DEF NodeInv
  <2>. QED  BY <1>4, <2>1
<1>7. SumsBalance'
  BY <1>5 DEF NodeInv, SumsBalance
<1>8. "received" # "idle" /\ "received" # "valid" /\ "received" \in {"idle", "received", "valid"}
  OBVIOUS
<1>. QED  BY <1>1, <1>2, <1>3, <1>4, <1>5, <1>6, <1>7, <1>8, Zenon DEF NodeInv

\* A packet that is dropped leaves the node idle.
LEMMA DropKeepsNode ==
  ASSUME NodeInv, Drop, count' = count, verified' = verified, SumsBalance',
         sumOffset' \in BlindingFactor, sums' = NoSums => sumOffset' = 0, sums' # NoSums => sums' \in BlockSums
  PROVE  NodeInv'
<1>1. stage' = "idle" /\ received' = None
  BY DEF Drop
<1>2. "idle" \in {"idle", "received", "valid"} /\ "idle" # "valid"
  OBVIOUS
<1>. QED  BY <1>1, <1>2, Zenon DEF NodeInv

\* Refusing a packet changes nothing that counts.
LEMMA RefuseKeepsNode ==
  ASSUME NodeInv, Refuse
  PROVE  NodeInv'
<1>1. Drop /\ count' = count /\ verified' = verified /\ sums' = sums /\ sumOffset' = sumOffset /\ genuine' = genuine
  BY DEF Refuse, chain
<1>2. SumsBalance'
  BY <1>1 DEF NodeInv, SumsBalance
<1>. QED  BY <1>1, <1>2, DropKeepsNode, Zenon DEF NodeInv

\* What was held is still held, and what is accepted is sound.
LEMMA ValidateKeepsNode ==
  ASSUME SlateInv, BuildInv, NodeInv, ValidateBody
  PROVE  NodeInv'
<1>1. /\ stage = "received" /\ received.state = "ok"
      /\ tx' = tx /\ count' = count /\ sums' = sums /\ sumOffset' = sumOffset /\ genuine' = genuine
  BY DEF ValidateBody, chain
<1>2. SumsBalance'
  BY <1>1 DEF NodeInv, SumsBalance
<1>3. tx # None /\ Held(received, tx)
  <2>1. stage # "idle"
    BY <1>1
  <2>. QED  BY <2>1, Zenon DEF NodeInv, Held
<1>4. /\ received.value.body \in TxBody
      /\ \A i \in DOMAIN received.value.body.outputs : Len(received.value.body.outputs[i].proof) <= MaxProof
  BY <1>1, <1>3, PacketSent, HeldIsShort, Zenon
<1>5. PICK outcome \in Validate(received.value.body, CacheAtCall) :
        \/ /\ outcome = "accept"
           /\ stage' = "valid"
           /\ verified' = AddToCache(verified, Range(OutputCommitments(received.value.body)))
           /\ UNCHANGED <<phase, received>>
        \/ outcome \in {"reject", "throw"} /\ Drop /\ UNCHANGED <<phase, verified>>
        \/ outcome = "crash" /\ phase' = "crashed" /\ Drop /\ UNCHANGED verified
  BY Zenon DEF ValidateBody
<1>6. CASE /\ outcome = "accept"
           /\ stage' = "valid"
           /\ verified' = AddToCache(verified, Range(OutputCommitments(received.value.body)))
           /\ UNCHANGED <<phase, received>>
  <2>1. received' = received
    BY <1>6
  <2>2. Sound(received.value.body)
    <3>1. MaxProof <= ProofSize
      BY SizeAssumption, Sizes
    <3>. QED  BY <1>4, <1>5, <1>6, <3>1, ValidateIsSound, Zenon
  <2>3. verified' \subseteq Commitment
    <3>1. Range(OutputCommitments(received.value.body)) \subseteq Commitment /\ verified \subseteq Commitment
      BY <1>4, BodyPoints, Zenon DEF NodeInv
    <3>. QED  BY <1>6, <3>1, Zenon DEF AddToCache
  <2>4. "valid" # "idle" /\ "valid" \in {"idle", "received", "valid"}
    OBVIOUS
  <2>5. /\ tx' # None
        /\ received'.bytes \in Arrivals(tx')
        /\ received' = DeserializeTransaction(received'.bytes)
    BY <1>1, <1>3, <2>1, Zenon DEF Held
  <2>. QED  BY <1>1, <1>2, <1>6, <2>1, <2>2, <2>3, <2>4, <2>5, Zenon DEF NodeInv
<1>7. CASE Drop /\ UNCHANGED verified
  BY <1>1, <1>2, <1>7, DropKeepsNode DEF NodeInv
<1>. QED  BY <1>5, <1>6, <1>7

\* The commitments of the transaction that was built.
LEMMA BuiltIsGenuine ==
  ASSUME SlateInv, BuildInv, signature # None
  PROVE  /\ Genuine(Built.body) /\ Built.offset = offset
         /\ SumKey \in Scalar /\ blind \in Scalar /\ offset \in Scalar
         /\ SumKey = (((ChangeBlind + Order - ((InputBlind + offset) % Order)) % Order) + blind) % Order
<1>. DEFINE x == [features |-> 1, commitment |-> <<Reward, InputBlind>>]
            y == [features |-> 0, commitment |-> <<Change, ChangeBlind>>, proof |-> ProofBy("sender")]
            z == [features |-> 0, commitment |-> <<Amount, blind>>, proof |-> ProofBy("receiver")]
            k == [fee |-> Fee, signature |-> signature, excess |-> <<0, SumKey>>]
            body == [inputs |-> <<x>>, outputs |-> <<y, z>>, kernels |-> <<k>>]
<1>1. /\ Built = [offset |-> offset, body |-> body]
      /\ SumKey \in Scalar /\ blind \in Scalar /\ offset \in Scalar
  BY BuiltIs, Zenon
<1>2. /\ x.commitment = <<Reward, InputBlind>> /\ y.commitment = <<Change, ChangeBlind>>
      /\ z.commitment = <<Amount, blind>> /\ k.excess = <<0, SumKey>>
  OBVIOUS
<1>. HIDE DEF x, y, z, k
<1>3. body.inputs = <<x>> /\ body.outputs = <<y, z>> /\ body.kernels = <<k>>
  OBVIOUS
<1>. HIDE DEF body
<1>4. Built.body = body /\ Built.offset = offset
  BY <1>1
<1>5. Genuine(body)
  BY <1>2, <1>3 DEF Genuine, OutputCommitments, InputCommitments, KernelCommitments
<1>. DEFINE a == secret["sender"].key
<1>6. a = (ChangeBlind + Order - ((InputBlind + offset) % Order)) % Order
  <2>1. a = AddBlindingFactors(<<ChangeBlind>>, <<InputBlind, offset>>)
    BY Zenon DEF BuildInv
  <2>2. ChangeBlind \in Scalar /\ InputBlind \in Scalar
    BY Amounts, Zenon
  <2>. QED  BY <1>1, <2>1, <2>2, FewBlindingFactors, Zenon
<1>7. secret["receiver"].key = blind
  BY Zenon DEF BuildInv
<1>8. SumKey = (a + blind) % Order
  BY <1>7, Zenon DEF SumKey, Sum
<1>. HIDE DEF a
<1>. QED  BY <1>1, <1>4, <1>5, <1>6, <1>8, Zenon

\* Adding the transaction to sums that balance leaves sums that balance.
LEMMA GenuineBalances ==
  ASSUME SlateInv, BuildInv, signature # None, NEW old, old # NoSums => old \in BlockSums,
         NEW so \in Scalar, OldUtxo(old) = PointSum(OldKernel(old), <<0, so>>)
  PROVE  LET new == NewSums(Built.body, Fee, old)
         IN  new.utxo = PointSum(new.kernel, <<0, (so + offset) % Order>>)
<1>. DEFINE new == NewSums(Built.body, Fee, old)
            k == OldKernel(old)[1]
            l == OldKernel(old)[2]
            v == (l + so) % Order
            key == (((ChangeBlind + Order - ((InputBlind + offset) % Order)) % Order) + blind) % Order
<1>1. /\ Genuine(Built.body) /\ SumKey \in Scalar /\ blind \in Scalar /\ offset \in Scalar /\ SumKey = key
  BY BuiltIsGenuine, Zenon
<1>2. /\ Change \in Scalar /\ ChangeBlind \in Scalar /\ Amount \in Scalar
      /\ Reward \in Scalar /\ InputBlind \in Scalar /\ Fee \in Scalar /\ 0 \in Scalar
  BY Amounts, SmallScalars, Zenon
<1>3. OldKernel(old) = <<k, l>> /\ k \in Scalar /\ l \in Scalar
  <2>1. old # NoSums => old.kernel \in Commitment
    BY DEF BlockSums
  <2>2. OldKernel(old) \in Point
    BY <2>1, InfinityType, PointsAreCommitments, Zenon DEF OldKernel
  <2>. QED  BY <2>2, PointsAreCommitments, Zenon
<1>. HIDE DEF k, l
<1>4. v \in Scalar
  BY <1>3, Plus, Zenon
<1>5. OldUtxo(old) = <<k, v>>
  <2>1. PointSum(<<k, l>>, <<0, so>>) = <<(k + 0) % Order, v>>
    BY DEF PointSum
  <2>2. k + 0 = k /\ k \in 0..(2 * Order - 1) /\ k < Order
    BY <1>3, OrderIsNat DEF Scalar
  <2>3. (k + 0) % Order = k
    BY <2>2, SmallMod, Zenon
  <2>. QED  BY <1>3, <2>1, <2>3, Zenon
<1>. DEFINE t == BlindsLeft(ChangeBlind, blind, InputBlind, v)
            w == (SumKey + l) % Order
            so2 == (so + offset) % Order
            left == AmountLeft(Change, Amount, Fee, Reward, k)
<1>6. new.utxo = <<left, t>> /\ new.kernel = <<k, w>>
  <2>. HIDE DEF v
  <2>. QED  BY <1>1, <1>3, <1>4, <1>5, GenuineSumsAre
<1>7. Change + Amount + Fee = Reward
  BY <1>2, OrderIsNat DEF Change, Scalar
<1>8. left = k
  BY <1>2, <1>3, <1>7, AmountsCancel
<1>9. t = (w + so2) % Order
  <2>1. t = KeyAndOffset(ChangeBlind, blind, InputBlind, offset, l, so)
    <3>1. KeysBalanced(ChangeBlind, blind, InputBlind, offset, l, so)
      BY <1>1, <1>2, <1>3, KeysBalance
    <3>. QED  BY <3>1, Zenon DEF KeysBalanced
  <2>. QED  BY <1>1, <2>1, Zenon DEF KeyAndOffset
<1>. HIDE DEF left, t, w, so2, new
<1>10. PointSum(new.kernel, <<0, so2>>) = <<k, t>>
  <2>1. PointSum(<<k, w>>, <<0, so2>>) = <<(k + 0) % Order, (w + so2) % Order>>
    BY DEF PointSum
  <2>2. k + 0 = k /\ k \in 0..(2 * Order - 1) /\ k < Order
    BY <1>3, OrderIsNat DEF Scalar
  <2>3. (k + 0) % Order = k
    BY <2>2, SmallMod, Zenon
  <2>. QED  BY <1>6, <1>9, <2>1, <2>3, Zenon
<1>. QED  BY <1>6, <1>8, <1>10, Zenon DEF new, so2

\* The node adds a valid body to its sums.
LEMMA SumUpKeepsNode ==
  ASSUME SlateInv, BuildInv, NodeInv, SumUp
  PROVE  NodeInv'
<1>. DEFINE body == received.value.body
            total2 == AddBlindingFactors(<<sumOffset, received.value.offset>>, <<>>)
            result == ValidateKernelSums(body, Fee, total2, sums)
            new == NewSums(body, Fee, sums)
<1>1. /\ stage = "valid" /\ Drop /\ tx' = tx /\ count' = count /\ verified' = verified
  BY DEF SumUp, wallet
<1>2. IF result = Throw THEN UNCHANGED chain
      ELSE /\ sums' = result
           /\ sumOffset' = total2
           /\ genuine' = (genuine /\ received.value = tx)
  BY Zenon DEF SumUp
<1>3. tx # None /\ Held(received, tx) /\ received.state = "ok"
  <2>1. stage # "idle"
    BY <1>1
  <2>. QED  BY <1>1, <2>1, Zenon DEF NodeInv, Held
<1>4. received.value \in Transaction /\ body \in TxBody
  BY <1>3, PacketSent, HeldIsShort, Zenon
<1>5. received.value.offset \in Scalar /\ sumOffset \in Scalar
  <2>1. received.value.offset \in Scalar
    BY <1>4 DEF Transaction, BlindingFactor
  <2>. QED  BY <2>1, Zenon DEF NodeInv, BlindingFactor
<1>6. total2 = (sumOffset + received.value.offset) % Order /\ total2 \in Scalar
  BY <1>5, FewBlindingFactors, Plus, Zenon
<1>. HIDE DEF body, total2
<1>7. new \in BlockSums /\ (result = Throw \/ result = new)
  <2>1. PointsOf(body)
    BY <1>4, BodyPoints, Zenon
  <2>2. Fee \in Scalar /\ Fee \in Int
    BY Amounts, OrderIsNat DEF Scalar
  <2>3. sums # NoSums => sums \in BlockSums
    BY Zenon DEF NodeInv
  <2>. QED  BY <2>1, <2>2, <2>3, KernelSumsAre, Zenon
<1>. HIDE DEF result, new
<1>8. CASE result = Throw
  <2>1. sums' = sums /\ sumOffset' = sumOffset /\ genuine' = genuine
    BY <1>2, <1>8 DEF chain
  <2>2. SumsBalance'
    BY <2>1 DEF NodeInv, SumsBalance
  <2>. QED  BY <1>1, <2>1, <2>2, DropKeepsNode, Zenon DEF NodeInv
<1>9. CASE result # Throw
  <2>1. sums' = new /\ sumOffset' = total2 /\ genuine' = (genuine /\ received.value = tx)
    BY <1>2, <1>7, <1>9, Zenon
  <2>2. sums' \in BlockSums /\ sums' # NoSums /\ sumOffset' \in BlindingFactor
    BY <1>6, <1>7, <2>1, NoSumsAssumption, Zenon DEF BlindingFactor
  <2>3. SumsBalance'
    <3>. SUFFICES ASSUME genuine' PROVE sums'.utxo = PointSum(sums'.kernel, <<0, sumOffset'>>)
      BY Zenon DEF SumsBalance
    <3>1. genuine /\ received.value = tx
      BY <2>1
    <3>2. tx = Built /\ signature # None
      BY <1>3, Zenon DEF BuildInv
    <3>3. body = Built.body /\ received.value.offset = offset
      BY <3>1, <3>2, BuiltIsGenuine, Zenon DEF body
    <3>4. OldUtxo(sums) = PointSum(OldKernel(sums), <<0, sumOffset>>)
      <4>1. CASE sums = NoSums
        <5>1. OldUtxo(sums) = Infinity /\ OldKernel(sums) = Infinity /\ <<0, sumOffset>> = Infinity
          BY <4>1, Zenon DEF NodeInv, OldUtxo, OldKernel, Infinity
        <5>. QED  BY <5>1, InfinityType, InfinityIsZero, Zenon
      <4>2. CASE sums # NoSums
        BY <3>1, <4>2, Zenon DEF NodeInv, SumsBalance, OldUtxo, OldKernel
      <4>. QED  BY <4>1, <4>2, Zenon
    <3>5. sums # NoSums => sums \in BlockSums
      BY Zenon DEF NodeInv
    <3>6. NewSums(Built.body, Fee, sums).utxo
            = PointSum(NewSums(Built.body, Fee, sums).kernel, <<0, (sumOffset + offset) % Order>>)
      BY <1>5, <3>2, <3>4, <3>5, GenuineBalances, Zenon
    <3>. QED  BY <1>6, <2>1, <3>3, <3>6, Zenon DEF new
  <2>. QED  BY <1>1, <2>2, <2>3, DropKeepsNode, Zenon
<1>. QED  BY <1>8, <1>9, Zenon

\* Every step keeps it.
LEMMA NextKeepsNode ==
  ASSUME SlateInv, BuildInv, NodeInv, [Next]_vars
  PROVE  NodeInv'
<1>1. ASSUME NEW p \in Party, Announce(p) \/ Sign(p) PROVE NodeInv'
  <2>1. UNCHANGED node /\ UNCHANGED tx
    BY <1>1, Zenon DEF Announce, Sign
  <2>. QED  BY <2>1, WalletKeepsNode
<1>2. CASE AddUp \/ Aggregate \/ UNCHANGED vars
  <2>1. UNCHANGED node /\ UNCHANGED tx
    BY <1>2 DEF AddUp, Aggregate, vars, wallet
  <2>. QED  BY <2>1, WalletKeepsNode
<1>3. CASE Build
  <2>1. UNCHANGED node /\ phase = "slate"
    BY <1>3, Zenon DEF Build
  <2>2. tx = None
    BY <2>1, Zenon DEF BuildInv
  <2>. QED  BY <2>1, <2>2, WalletKeepsNode
<1>. QED
  BY <1>1, <1>2, <1>3, CoinbaseKeepsNode, ReceiveKeepsNode, RefuseKeepsNode, ValidateKeepsNode,
     SumUpKeepsNode, Zenon DEF Next

-----------------------------------------------------------------------------
(* Rewinding proofs *)

\* The path of a key is read back from the message of its proof.
LEMMA PathReads ==
  ASSUME NEW p \in Party, blind \in Scalar
  PROVE  ToKeyIndices(FromKeyIndices(Path(p), ProofType(p)), ProofType(p)) = Path(p)
<1>. DEFINE m == FromKeyIndices(Path(p), ProofType(p))
            h == Header(p)
            path == Path(p)
            pad == Padding(p)
            d == Deserializer(m)
            header == ReadVector(d, 4)
            type == ProofType(p)
            length == IF type = "enhanced" /\ header.value[4] # 0 THEN header.value[4] ELSE 3
            keyIndices == ReadVector(header, length)
<1>1. /\ m = h \o path \o pad /\ m \in Seq(Scalar)
      /\ h \in Seq(Scalar) /\ Len(h) = 4
      /\ path \in Seq(Scalar) /\ Len(path) = (IF p = "sender" THEN 2 ELSE 3) /\ pad \in Seq(Scalar)
  BY MessageIs, Zenon
<1>. HIDE DEF m, h, path, pad
<1>2. Reader(d) /\ Holds(d, m)
  BY <1>1 DEF Deserializer, Reader, Holds
<1>. HIDE DEF d
<1>3. Holds(d, h) /\ Holds(Behind(d, h, h), path)
  <2>1. h \o path \in Seq(Scalar)
    BY <1>1, ConcatProperties, Zenon
  <2>2. Holds(d, h \o path)
    BY <1>1, <1>2, <2>1, HoldsParts, Zenon
  <2>. QED  BY <1>1, <1>2, <2>2, HoldsParts, Zenon
<1>4. header = Behind(d, h, h)
  BY <1>1, <1>2, <1>3, VectorExact, Zenon
<1>5. Reader(header) /\ header.state = "ok" /\ header.value = h
  BY <1>2, <1>3, <1>4, BehindFields
<1>. HIDE DEF header
<1>6. ReadVector(header, Len(path)) = Behind(header, path, path)
  BY <1>3, <1>4, <1>5, VectorExact, Zenon
<1>7. Behind(header, path, path).state = "ok" /\ Behind(header, path, path).value = path
  BY <1>3, <1>4, <1>5, BehindFields
<1>8. length = Len(path)
  <2>1. CASE p = "sender"
    <3>1. type = "enhanced" /\ h = <<0, 0, 1, 2>> /\ Len(path) = 2
      BY <1>1, <2>1 DEF ProofType, Header, h
    <3>2. h[4] = 2 /\ 2 # 0
      BY <3>1
    <3>. QED  BY <1>5, <3>1, <3>2, Zenon
  <2>2. CASE p # "sender"
    <3>1. type # "enhanced" /\ Len(path) = 3
      BY <1>1, <2>2 DEF ProofType
    <3>. QED  BY <3>1, Zenon
  <2>. QED  BY <2>1, <2>2, Zenon
<1>9. type = "original" => header.value = <<0, 0, 0, 0>>
  <2>1. CASE p = "sender"
    BY <2>1 DEF ProofType
  <2>2. CASE p # "sender"
    BY <1>5, <2>2, Zenon DEF Header, h
  <2>. QED  BY <2>1, <2>2, Zenon
<1>10. keyIndices.state = "ok" /\ keyIndices.value = path
  <2>. HIDE DEF length
  <2>. QED  BY <1>6, <1>7, <1>8, Zenon
<1>11. ToKeyIndices(m, type) = path
  <2>1. ToKeyIndices(m, type) =
          IF type = "original" /\ header.value # <<0, 0, 0, 0>> THEN Throw
          ELSE IF keyIndices.state # "ok" THEN Throw
          ELSE keyIndices.value
    BY Zenon DEF ToKeyIndices, header, d
  <2>. HIDE DEF keyIndices
  <2>. QED  BY <1>9, <1>10, <2>1, Zenon
<1>. QED  BY <1>11, Zenon DEF m, path

\* The wallet that made a proof, and no other, uncovers what is hidden in it.
Uncovers(p, q, output) ==
  LET rewound == RewindProof(output.commitment, output.proof, RewindNonce(q))
  IN IF p # q THEN rewound = NoProof
     ELSE /\ rewound \in RewoundProof
          /\ rewound.amount = Value(p)
          /\ ToKeyIndices(rewound.message, ProofType(p)) = Path(p)
          /\ (rewound.blindingFactor = BlindOf(p)) = (PrivateNonce(p) = RewindNonce(p))

\* RewindProof gives each wallet what it hid, and gives the other wallet nothing.
LEMMA ProofRewinds ==
  ASSUME blind \in Blinds, NEW p \in Party, NEW q \in Party, NEW output,
         output.commitment = <<Value(p), BlindOf(p)>>, output.proof = ProofBy(p)
  PROVE  Uncovers(p, q, output)
<1>. DEFINE P == ProofBy(p)
            c == output.commitment
            v == Value(p)
            b == BlindOf(p)
            message == FromKeyIndices(Path(p), ProofType(p))
            rewound == RewindProof(output.commitment, output.proof, RewindNonce(q))
<1>1. /\ Len(P) = ProofSize /\ P[1] = v /\ P[2] = b /\ P[3] = RewindNonce(p) /\ P[4] = PrivateNonce(p)
      /\ SubSeq(P, 1, 2) = <<v, b>> /\ SubSeq(P, 5, 4 + MessageSize) = message
      /\ v \in Scalar /\ b \in Scalar \ {0} /\ RewindNonce(p) \in Scalar /\ PrivateNonce(p) \in Scalar
  BY ProofByIs, Zenon
<1>2. c = <<v, b>> /\ c # Infinity /\ c \in Point
  BY <1>1 DEF Infinity, Point
<1>3. output.proof = P
  OBVIOUS
<1>4. ParseCommitments(<<c>>) # Throw
  <2>1. c \in PublicKey
    BY <1>2, PointsAreCommitments, Zenon DEF Commitment, PublicKey
  <2>. HIDE DEF c
  <2>2. Infinity \notin Range(<<c>>)
    BY <1>2 DEF Range
  <2>3. <<c>> \in Seq(PublicKey)
    BY <2>1
  <2>4. <<c>> # Throw
    BY <2>3, ThrowAssumption, Zenon
  <2>. QED  BY <2>2, <2>4, Zenon DEF ParseCommitments
<1>5. message \in Seq(Scalar) /\ Len(message) = MessageSize
  <2>1. blind \in Scalar
    BY Amounts, Zenon
  <2>. QED  BY <2>1, MessageIs, Zenon
<1>6. (PrivateNonce(p) = RewindNonce(p)) <=> p = "sender"
  BY DEF PrivateNonce, RewindNonce
<1>. HIDE DEF P, c, v, b, message
<1>7. CASE p # q
  <2>1. RewindNonce(q) # P[3]
    BY <1>1, <1>7 DEF RewindNonce, Party
  <2>2. rewound = NoProof
    BY <1>3, <1>4, <2>1, Zenon DEF RewindProof, Rewinds, c
  <2>. QED  BY <1>7, <2>2, Zenon DEF Uncovers
<1>8. CASE p = q
  <2>. DEFINE key == RewoundKey(P, RewindNonce(p))
              r == [amount |-> v, blindingFactor |-> key, message |-> message]
  <2>1. rewound = r
    <3>1. Rewinds(P, c, RewindNonce(q))
      BY <1>1, <1>2, <1>8, Zenon DEF Rewinds
    <3>. QED  BY <1>1, <1>3, <1>4, <1>8, <3>1, Zenon DEF RewindProof, c
  <2>2. key \in Scalar /\ (key = b <=> PrivateNonce(p) = RewindNonce(p))
    <3>. DEFINE s == PrivateNonce(p)
                n == RewindNonce(p)
    <3>1. key = (b + s + Order - n) % Order
      BY <1>1, Zenon DEF RewoundKey
    <3>2. s = 3 /\ (n = 3 \/ n = 4)
      BY DEF PrivateNonce, RewindNonce
    <3>3. n \in Scalar /\ b \in Scalar
      BY <1>1, Zenon
    <3>. HIDE DEF s, n, key
    <3>4. CASE n = 3
      <4>1. b + s + Order - n = b + Order /\ b + Order \in 0..(2 * Order - 1)
        BY <3>2, <3>3, <3>4, OrderIsNat DEF Scalar
      <4>2. (b + Order) % Order = IF b + Order < Order THEN b + Order ELSE (b + Order) - Order
        BY <4>1, SmallMod, Zenon
      <4>3. key = b
        BY <3>1, <3>3, <4>1, <4>2, OrderIsNat DEF Scalar
      <4>. QED  BY <3>2, <3>3, <3>4, <4>3, Zenon DEF s, n
    <3>5. CASE n = 4
      <4>1. b + s + Order - n = b + Order - 1 /\ b + Order - 1 \in 0..(2 * Order - 1)
        BY <3>2, <3>3, <3>5, SmallScalars, OrderIsNat DEF Scalar
      <4>2. (b + Order - 1) % Order = IF b + Order - 1 < Order THEN b + Order - 1 ELSE (b + Order - 1) - Order
        BY <4>1, SmallMod
      <4>3. key = (b + Order - 1) % Order
        BY <3>1, <4>1, Zenon
      <4>4. key \in Scalar /\ key # b
        BY <3>3, <4>2, <4>3, SmallScalars, OrderIsNat DEF Scalar
      <4>5. s # n
        BY <3>2, <3>5
      <4>. QED  BY <4>4, <4>5, Zenon DEF s, n
    <3>. QED  BY <3>2, <3>4, <3>5, Zenon
  <2>. HIDE DEF key
  <2>3. r.amount = v /\ r.blindingFactor = key /\ r.message = message
    OBVIOUS
  <2>4. r \in RewoundProof
    <3>1. message \in BigInt(MessageSize)
      BY <1>5 DEF BigInt
    <3>. QED  BY <1>1, <2>2, <3>1 DEF RewoundProof, SecretKey
  <2>5. ToKeyIndices(message, ProofType(p)) = Path(p)
    <3>1. blind \in Scalar
      BY Amounts, Zenon
    <3>. QED  BY <3>1, PathReads, Zenon DEF message
  <2>6. (key = b) = (PrivateNonce(p) = RewindNonce(p))
    BY <2>2, Zenon
  <2>. HIDE DEF r, rewound
  <2>7. /\ rewound \in RewoundProof /\ rewound.amount = Value(p)
        /\ ToKeyIndices(rewound.message, ProofType(p)) = Path(p)
        /\ (rewound.blindingFactor = BlindOf(p)) = (PrivateNonce(p) = RewindNonce(p))
    BY <2>1, <2>3, <2>4, <2>5, <2>6, Zenon DEF v, b
  <2>. QED  BY <1>8, <2>7, Zenon DEF Uncovers, rewound
<1>. QED  BY <1>7, <1>8, Zenon

-----------------------------------------------------------------------------
(* The theorems *)

\* The three invariants hold together: what the wallets sent, what they built and what the
\* node made of it.
LEMMA InvariantsHold == Spec => [](SlateInv /\ BuildInv /\ NodeInv)
<1>. DEFINE Inv == SlateInv /\ BuildInv /\ NodeInv
<1>1. Init => Inv
  BY InitSlate, InitBuild, InitNode, Zenon
<1>2. Inv /\ [Next]_vars => Inv'
  BY NextKeepsSlate, NextKeepsBuild, NextKeepsNode, Zenon
<1>. HIDE DEF Inv
<1>3. Spec => []Inv
  BY <1>1, <1>2, PTL DEF Spec
<1>. QED  BY <1>3, PTL DEF Inv

\* Every variable holds a value of its type, the transaction that a node deserialized from
\* whatever arrived included.
THEOREM TransactionsAreTyped == Spec => []TypeOK
<1>1. ASSUME SlateInv, BuildInv, NodeInv
      PROVE  TypeOK
  <2>1. phase \in {"slate", "broadcast", "failed", "crashed"}
    BY <1>1, Zenon DEF BuildInv
  <2>2. \A p \in Party : secret[p].key \in SecretKey /\ secret[p].nonce \in SecretKey
    BY <1>1, Zenon DEF SlateInv, SecretKey
  <2>3. blind \in BlindingFactor /\ offset \in BlindingFactor /\ sumOffset \in BlindingFactor
    BY <1>1, Amounts, Zenon DEF BuildInv, NodeInv, BlindingFactor
  <2>4. ASSUME NEW p \in Party, public[p] # None
        PROVE  public[p].key \in PublicKey /\ public[p].nonce \in PublicKey
    <3>1. Announced(p) /\ secret[p].key \in Scalar /\ secret[p].nonce \in Scalar
      BY <1>1, <2>4, Zenon DEF SlateInv
    <3>. QED  BY <3>1, KeyPoint, Zenon DEF Announced, PublicKey
  <2>5. total # None => total.keys \in PublicKey /\ total.nonces \in PublicKey
    BY <1>1, TotalsParse, Zenon DEF PublicKey
  <2>6. signature # None => signature \in Signature
    BY <1>1, Zenon DEF SlateInv
  <2>7. tx # None => tx \in Transaction
    BY <1>1, PacketSent, Zenon
  <2>8. stage # "idle" /\ received.state = "ok" => received.value \in Transaction
    BY <1>1, PacketSent, HeldIsShort, Zenon DEF NodeInv, Held
  <2>. QED  BY <1>1, <2>1, <2>2, <2>3, <2>4, <2>5, <2>6, <2>7, <2>8, Zenon DEF TypeOK, NodeInv
<1>. QED  BY <1>1, InvariantsHold, PTL

\* A transaction that was cut short never deserializes, and no count or size in a packet
\* makes the Deserializer read past the end, if a size_t counts more than a packet and the
\* longest read have bytes.
THEOREM NothingReadBeyond == Spec => []RefusesSafely
<1>1. ASSUME SlateInv, BuildInv, NodeInv
      PROVE  RefusesSafely
  BY <1>1, PacketSent, HeldIsShort, Zenon DEF RefusesSafely, NodeInv, Held
<1>. QED  BY <1>1, InvariantsHold, PTL

\* What the node takes for valid is sound, whatever arrived: no output is spent in the body
\* that makes it, each signature holds, and so do the first proof and those that are as long.
THEOREM AcceptedAlwaysSound == Spec => []AcceptedIsSound
<1>1. ASSUME NodeInv
      PROVE  AcceptedIsSound
  BY <1>1, Zenon DEF AcceptedIsSound, NodeInv
<1>. QED  BY <1>1, InvariantsHold, PTL

\* The sum of the node's outputs is the sum of its kernels and offsets, whichever amounts,
\* keys and offsets the wallets choose, with the coinbase and without.
THEOREM SumsAlwaysBalance == Spec => []SumsBalance
<1>1. ASSUME NodeInv
      PROVE  SumsBalance
  BY <1>1, Zenon DEF NodeInv
<1>. QED  BY <1>1, InvariantsHold, PTL

\* A packet that arrives as it was sent deserializes to the transaction that was sent, and
\* each wallet rewinds its own output and no other.
THEOREM PacketsRoundTrip == Spec => []RoundTrip
<1>1. ASSUME SlateInv, BuildInv, NodeInv
      PROVE  RoundTrip
  <2>. SUFFICES ASSUME stage # "idle", received.bytes = SerializeTransaction(tx)
                PROVE  /\ received.state = "ok" /\ received.value = tx /\ received.index = Len(received.bytes)
                       /\ \A p, q \in Party :
                            Uncovers(p, q, received.value.body.outputs[IF p = "sender" THEN 1 ELSE 2])
    BY Zenon DEF RoundTrip, Uncovers
  <2>1. tx # None /\ received = DeserializeTransaction(received.bytes)
    BY <1>1, Zenon DEF NodeInv
  <2>2. WholePacket(tx) /\ tx = Built /\ signature # None
    BY <1>1, <2>1, PacketSent, Zenon DEF BuildInv
  <2>3. tx \in ShortTransaction /\ Countable(tx)
    BY <2>2, PacketBytes, Zenon DEF WholePacket, Packet
  <2>4. received.state = "ok" /\ received.value = tx /\ received.index = Len(received.bytes)
    BY <2>1, <2>3, TransactionExact, Zenon
  <2>. DEFINE y == [features |-> 0, commitment |-> <<Change, ChangeBlind>>, proof |-> ProofBy("sender")]
              z == [features |-> 0, commitment |-> <<Amount, blind>>, proof |-> ProofBy("receiver")]
              outputs == received.value.body.outputs
  <2>5. outputs = <<y, z>>
    <3>. DEFINE x == [features |-> 1, commitment |-> <<Reward, InputBlind>>]
                k == [fee |-> Fee, signature |-> signature, excess |-> <<0, SumKey>>]
    <3>1. tx = [offset |-> offset, body |-> [inputs |-> <<x>>, outputs |-> <<y, z>>, kernels |-> <<k>>]]
      BY <1>1, <2>2, BuiltIs, Zenon
    <3>. HIDE DEF x, y, z, k
    <3>2. tx.body.outputs = <<y, z>>
      BY <3>1
    <3>. QED  BY <2>4, <3>2, Zenon
  <2>6. outputs[1] = y /\ outputs[2] = z
    BY <2>5
  <2>7. /\ y.commitment = <<Change, ChangeBlind>> /\ y.proof = ProofBy("sender")
        /\ z.commitment = <<Amount, blind>> /\ z.proof = ProofBy("receiver")
    OBVIOUS
  <2>. HIDE DEF y, z, outputs
  <2>8. ASSUME NEW p \in Party, NEW q \in Party
        PROVE  Uncovers(p, q, outputs[IF p = "sender" THEN 1 ELSE 2])
    <3>. DEFINE o == outputs[IF p = "sender" THEN 1 ELSE 2]
    <3>1. o.commitment = <<Value(p), BlindOf(p)>> /\ o.proof = ProofBy(p)
      <4>1. CASE p = "sender"
        BY <2>6, <2>7, <4>1, Zenon DEF Value, BlindOf
      <4>2. CASE p # "sender"
        <5>1. p = "receiver"
          BY <4>2, Zenon DEF Party
        <5>. QED  BY <2>6, <2>7, <4>2, <5>1, Zenon DEF Value, BlindOf
      <4>. QED  BY <4>1, <4>2, Zenon
    <3>2. blind \in Blinds
      BY <1>1, Zenon DEF BuildInv
    <3>. HIDE DEF o
    <3>. QED  BY <3>1, <3>2, ProofRewinds, Zenon DEF o
  <2>. QED  BY <2>4, <2>8, Zenon DEF outputs
<1>. QED  BY <1>1, InvariantsHold, PTL

=============================================================================
