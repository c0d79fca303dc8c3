---------------------------- MODULE Transactions ----------------------------
(***************************************************************************)
(* The life of a transaction.  Two wallets, which are not part of the      *)
(* repository and follow tests/crypto/Test_AggSig.cpp, build it together   *)
(* with the functions of Crypto: they announce keys and nonces, add them   *)
(* up, sign in parts, aggregate, and make the body.  A node gets its bytes *)
(* from the network, perhaps cut short, altered in one byte, with a        *)
(* shorter proof or twice, deserializes, validates, and adds the body to   *)
(* its running sums.                                                       *)
(*                                                                         *)
(* The sender spends a coinbase of Reward, the receiver gets Amount, and   *)
(* what is left after the Fee is the sender's change.  The sender may use  *)
(* any nonce, the receiver one of Crypto::GenerateSecureNonce.             *)
(***************************************************************************)
EXTENDS Consensus

CONSTANTS Reward, Amount, Fee,         \* amounts
          InputBlind, ChangeBlind,     \* the sender's blinding factors
          Blinds,                      \* those of the receiver's output
          Offsets,                     \* kernel offsets
          Nonces,                      \* secret nonces
          MaxReceived,                 \* bound: packets the node gets
          None                         \* not there yet

ASSUME TransactionsAssumption ==
  /\ {Reward, Amount, Fee} \cup Offsets \subseteq Scalar
  /\ {InputBlind, ChangeBlind} \cup Blinds \cup Nonces \subseteq Scalar \ {0}
  /\ Amount + Fee <= Reward
  /\ MaxReceived \in Nat
  /\ None \notin Transaction

\* A transaction of one input, two outputs and one kernel in bytes.  RangeProof::MAX_SIZE
\* is the size of a proof, and a size_t counts more than any packet or read takes.
PacketSize == 16 + 5 * Width + 2 * ProofSize

ASSUME SizeAssumption ==
  /\ MaxProof = ProofSize
  /\ PacketSize + MaxProof + Width + 3 < SizeEnd

Party == {"sender", "receiver"}

VARIABLES
  phase,       \* "slate", "broadcast", or how it ended: "failed", "crashed"
  secret,      \* secret[p]: the key and the nonce of p
  blind,       \* the blinding factor of the receiver's output
  offset,      \* the kernel offset
  public,      \* public[p]: the key and the nonce p announced
  greeting,    \* greeting[p]: p's signature under its announcement
  total,       \* the sums of the keys and of the nonces
  share,       \* share[p]: p's part of the kernel's signature
  signature,   \* the aggregate
  tx,          \* the transaction
  received,    \* the node's Deserializer and what it made of the packet
  stage,       \* the node: "idle", "received" or "valid"
  count,       \* packets received
  sums,        \* BlockSums of what the node accepted
  sumOffset,   \* the sum of its offsets
  genuine,     \* history: everything accepted was what the wallets built
  verified     \* history: the commitments whose proofs were verified

slateVars == <<secret, blind, offset>>
wallet == <<phase, secret, blind, offset, public, greeting, total, share, signature, tx>>
chain == <<sums, sumOffset, genuine>>
node == <<received, stage, count, sums, sumOffset, genuine, verified>>
vars == <<wallet, node>>

Absent == [p \in Party |-> None]
Change == Reward - Amount - Fee

Init ==
  /\ phase = "slate"
  /\ blind \in Blinds
  /\ offset \in Offsets
  /\ secret \in {[sender |-> [key |-> AddBlindingFactors(<<ChangeBlind>>, <<InputBlind, offset>>),
                              nonce |-> n],
                  receiver |-> [key |-> blind, nonce |-> GenerateSecureNonce(m)]] : n, m \in Nonces}
  /\ public = Absent /\ greeting = Absent /\ share = Absent
  /\ total = None /\ signature = None /\ tx = None
  /\ received = None /\ stage = "idle" /\ count = 0
  /\ sums = NoSums /\ sumOffset = 0 /\ genuine = TRUE /\ verified = {}

-----------------------------------------------------------------------------
\* The wallets.

Announce(p) ==
  /\ phase = "slate" /\ public[p] = None
  /\ LET key == CalculatePublicKey(secret[p].key)
         nonce == CalculatePublicKey(secret[p].nonce)
     IN IF Throw \in {key, nonce}
        THEN phase' = "failed" /\ UNCHANGED <<public, greeting>>
        ELSE \E drawn \in Nonces :
               /\ public' = [public EXCEPT ![p] = [key |-> key, nonce |-> nonce]]
               /\ greeting' = [greeting EXCEPT ![p] = SignMessage(secret[p].key, key, 0, drawn)]
               /\ UNCHANGED phase
  /\ UNCHANGED <<slateVars, total, share, signature, tx, node>>

AddUp ==
  /\ phase = "slate" /\ total = None
  /\ \A p \in Party : public[p] # None
  /\ LET keys == AddPublicKeys(<<public["sender"].key, public["receiver"].key>>)
         nonces == AddPublicKeys(<<public["sender"].nonce, public["receiver"].nonce>>)
     IN IF Throw \in {keys, nonces}
        THEN phase' = "failed" /\ UNCHANGED <<greeting, total>>
        ELSE /\ total' = [keys |-> keys, nonces |-> nonces]
             /\ greeting' = Absent
             /\ UNCHANGED phase
  /\ UNCHANGED <<slateVars, public, share, signature, tx, node>>

Sign(p) ==
  /\ phase = "slate" /\ total # None /\ share[p] = None
  /\ share' = [share EXCEPT ![p] =
       CalculatePartialSignature(secret[p].key, secret[p].nonce, total.keys, total.nonces, Fee)]
  /\ UNCHANGED <<phase, slateVars, public, greeting, total, signature, tx, node>>

Aggregate ==
  /\ phase = "slate" /\ signature = None
  /\ \A p \in Party : share[p] # None
  /\ signature' = AggregateSignatures(<<share["sender"], share["receiver"]>>, total.nonces)
  /\ UNCHANGED <<phase, slateVars, public, greeting, total, share, tx, node>>

\* Each wallet numbers its keys; the receiver's is an older one, with paths of three.
\* Only the sender uses one nonce to hide all of a proof.
Path(p) == IF p = "sender" THEN <<1, 2>> ELSE <<blind, 0, 1>>
ProofType(p) == IF p = "sender" THEN "enhanced" ELSE "original"
RewindNonce(p) == IF p = "sender" THEN 3 ELSE 4
PrivateNonce(p) == 3
Value(p) == IF p = "sender" THEN Change ELSE Amount
BlindOf(p) == IF p = "sender" THEN ChangeBlind ELSE blind
ProofsOf(p) == GenerateRangeProof(Value(p), BlindOf(p), PrivateNonce(p), RewindNonce(p),
                                  FromKeyIndices(Path(p), ProofType(p)))

OutputWith(features, value, b, proof) ==
  [features |-> features, commitment |-> CommitBlinded(value, b), proof |-> proof]

\* The excess is the sum of both keys, as a commitment to zero.
Build ==
  /\ phase = "slate" /\ signature # None
  /\ \E change \in ProofsOf("sender"), proof \in ProofsOf("receiver") :
       IF {change, proof} \cap {Throw, Crash} # {}
       THEN phase' = "failed" /\ UNCHANGED tx
       ELSE /\ phase' = "broadcast"
            /\ tx' = [offset |-> offset,
                      body |-> [inputs |-> <<[features |-> 1,
                                              commitment |-> CommitBlinded(Reward, InputBlind)]>>,
                                outputs |-> <<OutputWith(0, Change, ChangeBlind, change),
                                              OutputWith(0, Amount, blind, proof)>>,
                                kernels |-> <<[fee |-> Fee, signature |-> signature,
                                               excess |-> AddCommitments(
                                                 <<CommitBlinded(0, secret["sender"].key),
                                                   CommitBlinded(0, secret["receiver"].key)>>,
                                                 <<>>)]>>]]
  /\ UNCHANGED <<slateVars, public, greeting, total, share, signature, node>>

-----------------------------------------------------------------------------
\* The node.

\* The block that created the sender's coin, with overage -Reward.
AcceptCoinbase ==
  /\ phase = "broadcast" /\ sums = NoSums /\ count = 0
  /\ sums' = ValidateKernelSums(
       [inputs |-> <<>>, outputs |-> <<OutputWith(1, Reward, InputBlind, <<>>)>>,
        kernels |-> <<[fee |-> 0, excess |-> CommitBlinded(0, InputBlind)]>>],
       0 - Reward, 0, NoSums)
  /\ UNCHANGED <<wallet, received, stage, count, sumOffset, genuine, verified>>

\* The transaction t with fewer bytes in the proof of one output, which RangeProof admits.
WithShortProof(t) ==
  {[t EXCEPT !.body.outputs[i].proof = SubSeq(@, 1, n)] : i \in 1..2, n \in 0..(ProofSize - 1)}

\* What may arrive of t: its bytes, a beginning of them, one byte altered, or a shorter proof.
Arrivals(t) ==
  LET bytes == SerializeTransaction(t)
  IN {bytes} \cup {SubSeq(bytes, 1, n) : n \in 0..(Len(bytes) - 1)}
       \cup {[bytes EXCEPT ![i] = b] : i \in DOMAIN bytes, b \in Scalar}
       \cup {SerializeTransaction(s) : s \in WithShortProof(t)}

Receive ==
  /\ phase = "broadcast" /\ stage = "idle" /\ count < MaxReceived
  /\ \E bytes \in Arrivals(tx) : received' = DeserializeTransaction(bytes)
  /\ stage' = "received"
  /\ count' = count + 1
  /\ UNCHANGED <<wallet, chain, verified>>

Drop ==
  /\ stage' = "idle"
  /\ received' = None

\* A packet that does not deserialize is dropped.
Refuse ==
  /\ phase = "broadcast" /\ stage = "received" /\ received.state # "ok"
  /\ Drop
  /\ UNCHANGED <<wallet, count, chain, verified>>

\* Mutant: one proof cache for all calls.
SharedCache == verified

\* Every call of Crypto::VerifyRangeProofs makes a Bulletproofs with a cache of its own.
CacheAtCall == {}

ValidateBody ==
  /\ phase = "broadcast" /\ stage = "received" /\ received.state = "ok"
  /\ \E outcome \in Validate(received.value.body, CacheAtCall) :
       \/ /\ outcome = "accept"
          /\ stage' = "valid"
          /\ verified' = AddToCache(verified, Range(OutputCommitments(received.value.body)))
          /\ UNCHANGED <<phase, received>>
       \/ outcome \in {"reject", "throw"} /\ Drop /\ UNCHANGED <<phase, verified>>
       \/ outcome = "crash" /\ phase' = "crashed" /\ Drop /\ UNCHANGED verified
  /\ UNCHANGED <<slateVars, public, greeting, total, share, signature, tx, count, chain>>

SumUp ==
  /\ phase = "broadcast" /\ stage = "valid"
  /\ LET total2 == AddBlindingFactors(<<sumOffset, received.value.offset>>, <<>>)
         result == ValidateKernelSums(received.value.body, Fee, total2, sums)
     IN IF result = Throw THEN UNCHANGED chain
        ELSE /\ sums' = result
             /\ sumOffset' = total2
             /\ genuine' = (genuine /\ received.value = tx)
  /\ Drop
  /\ UNCHANGED <<wallet, count, verified>>

Next ==
  \/ \E p \in Party : Announce(p) \/ Sign(p)
  \/ AddUp \/ Aggregate \/ Build
  \/ AcceptCoinbase \/ Receive \/ Refuse \/ ValidateBody \/ SumUp

Spec == Init /\ [][Next]_vars

-----------------------------------------------------------------------------
\* Every variable holds a value of its type.
TypeOK ==
  /\ phase \in {"slate", "broadcast", "failed", "crashed"}
  /\ \A p \in Party : secret[p].key \in SecretKey /\ secret[p].nonce \in SecretKey
  /\ blind \in BlindingFactor /\ offset \in BlindingFactor /\ sumOffset \in BlindingFactor
  /\ \A p \in Party : public[p] # None => public[p].key \in PublicKey /\ public[p].nonce \in PublicKey
  /\ total # None => total.keys \in PublicKey /\ total.nonces \in PublicKey
  /\ signature # None => signature \in Signature
  /\ tx # None => tx \in Transaction
  /\ stage \in {"idle", "received", "valid"}
  /\ stage = "idle" => received = None
  /\ stage # "idle" /\ received.state = "ok" => received.value \in Transaction
  /\ count \in 0..MaxReceived
  /\ sums # NoSums => sums \in BlockSums
  /\ verified \subseteq Commitment

\* A share of an honest party passes VerifyPartialSignature, whichever parity the
\* party's nonce and the sum of the nonces have.
SharesVerify ==
  \A p \in Party :
    share[p] # None => VerifyPartialSignature(share[p], public[p].key, total.keys, total.nonces, Fee)

\* What SignMessage makes is accepted by VerifyMessageSignature; the aggregate of
\* the shares is accepted under the sum of the keys, which is the key of the sum, by the
\* single verifier and, as a kernel's signature, by the batch verifier.
SignaturesVerify ==
  /\ \A p \in Party :
       greeting[p] # None => VerifyMessageSignature(greeting[p], public[p].key, 0)
  /\ total # None =>
       total.keys = CalculatePublicKey(AddPrivateKeys(secret["sender"].key, secret["receiver"].key))
  /\ signature # None => VerifyAggregateSignature(signature, total.keys, Fee)
  /\ tx # None => KernelSignatures(tx.body) = "accept"

\* A packet that arrives as it was sent deserializes to the same transaction, and to the
\* last byte.  From the output in it each wallet, and no other, gets back the amount and
\* the path of its key, and the blinding factor too if it hid all of it with one nonce.
RoundTrip ==
  stage # "idle" /\ received.bytes = SerializeTransaction(tx) =>
    /\ received.state = "ok" /\ received.value = tx /\ received.index = Len(received.bytes)
    /\ \A p, q \in Party :
         LET output == received.value.body.outputs[IF p = "sender" THEN 1 ELSE 2]
             rewound == RewindProof(output.commitment, output.proof, RewindNonce(q))
         IN IF p # q THEN rewound = NoProof
            ELSE /\ rewound \in RewoundProof
                 /\ rewound.amount = Value(p)
                 /\ ToKeyIndices(rewound.message, ProofType(p)) = Path(p)
                 /\ (rewound.blindingFactor = BlindOf(p)) = (PrivateNonce(p) = RewindNonce(p))

\* A transaction that was cut short is never taken for a shorter one, and no count or
\* size in a packet makes the Deserializer read past the end of its bytes.
RefusesSafely ==
  stage # "idle" =>
    /\ IsStrictPrefix(received.bytes, SerializeTransaction(tx)) => received.state = "throw"
    /\ received.state # "beyond"

\* A body that TxBody::Validate accepted is sound, whatever the node validated before: no
\* output is spent in it, each signature holds, and so does the first proof and each that
\* is as long.  A shorter one is all that VerifyBulletproofs may wrongly take for proved.
AcceptedIsSound == stage = "valid" => Sound(received.value.body)

\* As long as a node accepts what wallets built, the sum of its outputs is the sum of
\* its kernels and offsets: coins appear only in a coinbase and go only into fees.
SumsBalance ==
  genuine /\ sums # NoSums => sums.utxo = PointSum(sums.kernel, <<0, sumOffset>>)
=============================================================================
