-------------------------------- MODULE Wire --------------------------------
(***************************************************************************)
(* Serializer and Deserializer (include/mw/core/serialization), and the    *)
(* bytes of the models under include/mw/core/models: BigInt, Commitment,   *)
(* BlindingFactor, Signature, RangeProof, Input, Output, TxBody and        *)
(* Transaction.                                                            *)
(*                                                                         *)
(* A byte holds one scalar, a uint64_t has Width bytes, and size_t wraps   *)
(* where a uint64_t does.  A Deserializer is a record: its bytes, m_index, *)
(* the value of the last read, and its state: "ok", "throw" after an       *)
(* exception, or "beyond" after a read past the end of the bytes, whose    *)
(* behaviour is undefined.  Once it is not "ok" nothing more is read.      *)
(***************************************************************************)
EXTENDS Crypto

CONSTANTS Width,        \* the bytes of a uint64_t and of a size_t
          MaxProof      \* RangeProof::MAX_SIZE

ASSUME WireAssumption == Width \in Nat \ {0} /\ MaxProof \in Nat

\* What a byte counts for that has k bytes behind it.
PlaceValue[k \in Nat] == IF k = 0 THEN 1 ELSE Order * PlaceValue[k - 1]

SizeEnd == PlaceValue[Width]  \* one past the largest uint64_t

\* The classes under models/tx, by their members.  Their hashes are functions of these.
Input == [features : Scalar, commitment : Commitment]
Output == [features : Scalar, commitment : Commitment, proof : RangeProof]
Signature == [form : {"raw"}, r : BigInt(2), s : Scalar]
Kernel == [fee : Scalar, excess : Commitment, signature : Signature]
TxBody == [inputs : Seq(Input), outputs : Seq(Output), kernels : Seq(Kernel)]
Transaction == [offset : BlindingFactor, body : TxBody]

\* Mutant: Serializer::AppendLE, least significant byte first.
AppendLE(n) == [i \in 1..Width |-> (n \div PlaceValue[i - 1]) % Order]

\* Serializer::Append<uint64_t>, most significant byte first.
AppendU64(n) == [i \in 1..Width |-> (n \div PlaceValue[Width - i]) % Order]

\* The number that bytes stand for, most significant byte first.
NumberOf(bytes) ==
  LET number[i \in 0..Len(bytes)] == IF i = 0 THEN 0 ELSE number[i - 1] * Order + bytes[i]
  IN number[Len(bytes)]

Deserializer(bytes) == [bytes |-> bytes, index |-> 0, state |-> "ok", value |-> <<>>]

ReadVector(d, numBytes) ==
  IF d.state # "ok" THEN d
  ELSE IF (d.index + numBytes) % SizeEnd > Len(d.bytes) THEN [d EXCEPT !.state = "throw"]
  ELSE IF d.index + numBytes > Len(d.bytes) THEN [d EXCEPT !.state = "beyond"]
  ELSE [d EXCEPT !.value = SubSeq(d.bytes, d.index + 1, d.index + numBytes),
                 !.index = @ + numBytes]

Read(d) == LET e == ReadVector(d, 1) IN [e EXCEPT !.value = IF e.state = "ok" THEN @[1] ELSE @]

ReadU64(d) ==
  LET e == ReadVector(d, Width) IN [e EXCEPT !.value = IF e.state = "ok" THEN NumberOf(@) ELSE 0]

-----------------------------------------------------------------------------
DeserializeBigInt(d, numBytes) == ReadVector(d, numBytes)

SerializeCommitment(commitment) == commitment
DeserializeCommitment(d) == DeserializeBigInt(d, 2)

SerializeBlindingFactor(blind) == <<blind>>
DeserializeBlindingFactor(d) ==
  LET e == DeserializeBigInt(d, 1) IN [e EXCEPT !.value = IF e.state = "ok" THEN @[1] ELSE @]

SerializeSignature(sig) == sig.r \o <<sig.s>>
DeserializeSignature(d) ==
  LET e == DeserializeBigInt(d, 3)
  IN [e EXCEPT !.value = IF e.state = "ok" THEN [form |-> "raw", r |-> SubSeq(@, 1, 2), s |-> @[3]] ELSE @]

SerializeProof(proof) == AppendU64(Len(proof)) \o proof

\* Mutant: RangeProof::Deserialize does not compare the size with MAX_SIZE.
AnySize(d) == LET size == ReadU64(d) IN ReadVector(size, size.value)

DeserializeProof(d) ==
  LET size == ReadU64(d)
  IN IF size.state = "ok" /\ size.value > MaxProof THEN [size EXCEPT !.state = "throw"]
     ELSE ReadVector(size, size.value)

SerializeInput(input) == <<input.features>> \o SerializeCommitment(input.commitment)

DeserializeInput(d) ==
  LET features == Read(d)
      commitment == DeserializeCommitment(features)
  IN [commitment EXCEPT !.value = [features |-> features.value, commitment |-> @]]

SerializeOutput(output) ==
  <<output.features>> \o SerializeCommitment(output.commitment) \o SerializeProof(output.proof)

DeserializeOutput(d) ==
  LET features == Read(d)
      commitment == DeserializeCommitment(features)
      proof == DeserializeProof(commitment)
  IN [proof EXCEPT !.value =
        [features |-> features.value, commitment |-> commitment.value, proof |-> @]]

\* The kernel of the embedding program, behind its kernel factory.
SerializeKernel(kernel) ==
  <<kernel.fee>> \o SerializeCommitment(kernel.excess) \o SerializeSignature(kernel.signature)

DeserializeKernel(d) ==
  LET fee == Read(d)
      excess == DeserializeCommitment(fee)
      signature == DeserializeSignature(excess)
  IN [signature EXCEPT !.value = [fee |-> fee.value, excess |-> excess.value, signature |-> @]]

-----------------------------------------------------------------------------
DeserializeItem(kind, d) ==
  CASE kind = "input" -> DeserializeInput(d)
    [] kind = "output" -> DeserializeOutput(d)
    [] kind = "kernel" -> DeserializeKernel(d)

\* One of the three loops of TxBody::Deserialize: count items of one kind.
DeserializeItems(kind, d, count) ==
  LET read[i \in 0..count] ==
        IF i = 0 THEN [d EXCEPT !.value = <<>>]
        ELSE LET before == read[i - 1]
                 item == DeserializeItem(kind, before)
             IN IF before.state # "ok" THEN before
                ELSE [item EXCEPT !.value = Append(before.value, @)]
  IN read[count]

SerializeBody(body) ==
  AppendU64(Len(body.inputs)) \o AppendU64(Len(body.outputs)) \o AppendU64(Len(body.kernels))
    \o FlattenSeq([i \in DOMAIN body.inputs |-> SerializeInput(body.inputs[i])])
    \o FlattenSeq([i \in DOMAIN body.outputs |-> SerializeOutput(body.outputs[i])])
    \o FlattenSeq([i \in DOMAIN body.kernels |-> SerializeKernel(body.kernels[i])])

DeserializeBody(d) ==
  LET numInputs == ReadU64(d)
      numOutputs == ReadU64(numInputs)
      numKernels == ReadU64(numOutputs)
      inputs == DeserializeItems("input", numKernels, numInputs.value)
      outputs == DeserializeItems("output", inputs, numOutputs.value)
      kernels == DeserializeItems("kernel", outputs, numKernels.value)
  IN [kernels EXCEPT !.value =
        [inputs |-> inputs.value, outputs |-> outputs.value, kernels |-> kernels.value]]

SerializeTransaction(tx) == SerializeBlindingFactor(tx.offset) \o SerializeBody(tx.body)

\* Bytes after the last kernel are not looked at.
DeserializeTransaction(bytes) ==
  LET offset == DeserializeBlindingFactor(Deserializer(bytes))
      body == DeserializeBody(offset)
  IN [body EXCEPT !.value = [offset |-> offset.value, body |-> @]]

-----------------------------------------------------------------------------
\* ProofMessage: the path of the key of an output, which goes into its range proof.  After
\* four bytes comes one word for each index, which takes one byte here.  A fifth index is
\* written past the end of the message.
FromKeyIndices(keyIndices, bulletproofType) ==
  LET header == IF bulletproofType = "enhanced" THEN <<0, 0, 1, Len(keyIndices)>> ELSE <<0, 0, 0, 0>>
      room == MessageSize - 4 - Len(keyIndices)
  IN IF room < 0 THEN Crash ELSE header \o keyIndices \o [i \in 1..room |-> 0]

ToKeyIndices(message, bulletproofType) ==
  LET header == ReadVector(Deserializer(message), 4)
      length == IF bulletproofType = "enhanced" /\ header.value[4] # 0 THEN header.value[4] ELSE 3
      keyIndices == ReadVector(header, length)
  IN IF bulletproofType = "original" /\ header.value # <<0, 0, 0, 0>> THEN Throw
     ELSE IF keyIndices.state # "ok" THEN Throw
     ELSE keyIndices.value
=============================================================================
