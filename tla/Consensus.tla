----------------------------- MODULE Consensus -----------------------------
(***************************************************************************)
(* What a node asks of a transaction body: TxBody::Validate with the       *)
(* validators under include/mw/core/consensus, and the running sums of     *)
(* KernelSumValidator.                                                     *)
(***************************************************************************)
EXTENDS Wire

CONSTANT NoSums     \* tl::nullopt for a BlockSums

BlockSums == [utxo : Commitment, kernel : Commitment]

ASSUME NoSumsAssumption == NoSums \notin BlockSums

InputCommitments(body) == [i \in DOMAIN body.inputs |-> body.inputs[i].commitment]
OutputCommitments(body) == [i \in DOMAIN body.outputs |-> body.outputs[i].commitment]
KernelCommitments(body) == [i \in DOMAIN body.kernels |-> body.kernels[i].excess]

VerifyCutThrough(body) == Range(InputCommitments(body)) \cap Range(OutputCommitments(body)) = {}

\* The message of a kernel's signature is its fee.
KernelSignatures(body) ==
  VerifyKernelSignatures([i \in DOMAIN body.kernels |-> body.kernels[i].signature],
                         KernelCommitments(body),
                         [i \in DOMAIN body.kernels |-> body.kernels[i].fee])

\* The outcomes of TxBody::Validate; cached is what its proof cache holds at the start.
Validate(body, cached) ==
  IF ~VerifyCutThrough(body) THEN {"reject"}
  ELSE IF KernelSignatures(body) # "accept" THEN {"reject"}
  ELSE VerifyBulletproofs(
         [i \in DOMAIN body.outputs |-> <<body.outputs[i].commitment, body.outputs[i].proof>>],
         cached)

\* Mutant: the overage is added on the other side.
OtherSide(overage) ==
  [inputs |-> IF overage > 0 THEN <<CommitTransparent(overage)>> ELSE <<>>,
   outputs |-> IF overage < 0 THEN <<CommitTransparent(0 - overage)>> ELSE <<>>]

\* Coins created are taken off the outputs, fees are added to them.
OverageCommitments(overage) ==
  [inputs |-> IF overage < 0 THEN <<CommitTransparent(0 - overage)>> ELSE <<>>,
   outputs |-> IF overage > 0 THEN <<CommitTransparent(overage)>> ELSE <<>>]

AddKernelOffset(kernelSum, offset) ==
  AddCommitments(<<kernelSum>> \o IF offset # 0 THEN <<CommitBlinded(0, offset)>> ELSE <<>>, <<>>)

\* Computes the sums and returns them; it does not compare them with each other.
ValidateKernelSums(body, overage, offset, blockSums) ==
  LET extra == OverageCommitments(overage)
      outputs == OutputCommitments(body) \o extra.outputs
                   \o IF blockSums # NoSums THEN <<blockSums.utxo>> ELSE <<>>
      utxoSum == AddCommitments(outputs, InputCommitments(body) \o extra.inputs)
      kernels == KernelCommitments(body)
                   \o IF blockSums # NoSums THEN <<blockSums.kernel>> ELSE <<>>
      kernelSum == AddCommitments(kernels, <<>>)
  IN IF utxoSum = Throw \/ kernelSum = Throw THEN Throw
     ELSE IF AddKernelOffset(kernelSum, offset) = Throw THEN Throw
     ELSE [utxo |-> utxoSum, kernel |-> kernelSum]

-----------------------------------------------------------------------------
\* What a validated body is, one output and one kernel at a time.  Nothing is known of a
\* proof that is shorter than the first: it was verified with bytes that are not its own.
Sound(body) ==
  /\ \A i \in DOMAIN body.inputs, j \in DOMAIN body.outputs :
       body.inputs[i].commitment # body.outputs[j].commitment
  /\ \A i \in DOMAIN body.outputs :
       /\ body.outputs[i].commitment # Infinity
       /\ Len(body.outputs[i].proof) >= Len(body.outputs[1].proof) =>
            Proves(body.outputs[i].proof, body.outputs[i].commitment)
  /\ \A i \in DOMAIN body.kernels :
       LET k == body.kernels[i]
           e == Challenge(k.signature.r, k.excess, k.fee)
       IN /\ k.excess # Infinity
          /\ PointSum(k.signature.r, Times(e, k.excess)) = <<0, k.signature.s>>
=============================================================================
