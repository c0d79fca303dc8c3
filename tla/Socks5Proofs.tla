---------------------------- MODULE Socks5Proofs ----------------------------
(***************************************************************************)
(* Theorems about Socket and Socks5: the calls return the peer's bytes in  *)
(* order and once, for any number of calls and bytes; the handshake keeps  *)
(* its order; an established connection was granted.                       *)
(***************************************************************************)
EXTENDS Socks5, SequenceTheorems, WellFoundedInduction, TLAPS

-----------------------------------------------------------------------------
(* Calls and places *)

Kinds == {"none", "connect", "accept", "read", "line", "write"}
Messages == {"none", "greet", "auth", "request", "data"}
Calls == [kind : Kinds, size : Nat, message : Messages]
Calling == {"connect", "greet", "method", "auth", "authReply", "request", "reply",
            "length", "ipv4", "ipv6", "domain", "port"}
Places == Calling \cup {"check", "up", "threw", "plain"}

\* The types and the fields of the calls.
LEMMA CallTypes ==
  /\ NoCall \in Calls /\ ConnectCall \in Calls /\ AcceptCall \in Calls /\ LineCall \in Calls
  /\ \A n \in Nat : ReadCall(n) \in Calls
  /\ \A m \in Messages : WriteCall(m) \in Calls
  BY DEF NoCall, ConnectCall, AcceptCall, LineCall, ReadCall, WriteCall, Calls, Kinds, Messages

\* The calls by their kinds.
LEMMA CallKinds ==
  /\ NoCall.kind = "none" /\ ConnectCall.kind = "connect" /\ AcceptCall.kind = "accept"
  /\ LineCall.kind = "line"
  /\ \A n : ReadCall(n).kind = "read" /\ ReadCall(n).size = n
  /\ \A m : WriteCall(m).kind = "write" /\ WriteCall(m).message = m
  BY DEF NoCall, ConnectCall, AcceptCall, LineCall, ReadCall, WriteCall

\* The call made at each place.
LEMMA CallPlaces ==
  /\ CallAt("connect") = ConnectCall
  /\ CallAt("greet") = WriteCall("greet")
  /\ CallAt("auth") = WriteCall("auth")
  /\ CallAt("request") = WriteCall("request")
  /\ CallAt("method") = ReadCall(2) /\ CallAt("authReply") = ReadCall(2)
  /\ CallAt("port") = ReadCall(2)
  /\ CallAt("reply") = ReadCall(4) /\ CallAt("ipv4") = ReadCall(4)
  /\ CallAt("ipv6") = ReadCall(16)
  /\ CallAt("length") = ReadCall(1)
  /\ CallAt("domain") = ReadCall(length)
  /\ \A p \in {"check", "up", "threw", "plain"} : CallAt(p) = NoCall
  BY DEF CallAt, Initialize

\* Each place of the handshake that makes a call makes one, and only Connect connects.
LEMMA CallAtType ==
  ASSUME length \in Nat, NEW p \in Places
  PROVE  /\ CallAt(p) \in Calls
         /\ CallAt(p) # NoCall <=> p \in Calling
         /\ CallAt(p).kind = "connect" <=> p = "connect"
         /\ CallAt(p).kind # "accept" /\ CallAt(p).kind # "line"
<1>1. CallAt(p) \in Calls
  BY CallPlaces, CallTypes DEF Places, Calling, Messages
<1>2. CallAt(p).kind = IF p = "connect" THEN "connect"
                       ELSE IF p \in {"greet", "auth", "request"} THEN "write"
                       ELSE IF p \in Calling THEN "read" ELSE "none"
  BY CallPlaces, CallKinds DEF Places, Calling
<1>3. p \notin Calling => CallAt(p) = NoCall
  BY CallPlaces, Zenon DEF Places
<1>. QED  BY <1>1, <1>2, <1>3, CallKinds DEF Calling

\* The places a call may lead to.
LEMMA AfterPlaces ==
  ASSUME NEW data, NEW p \in Calling
  PROVE  \/ After(p, data) \in Places \ {"connect", "check", "plain"}
         \/ After(p, data) = Retry
  BY DEF After, AfterMethod, AfterReply, Calling, Places

\* An attempt that failed is followed by another one or by an exception.
LEMMA RetryPlaces ==
  ASSUME attempt \in 0..Attempts
  PROVE  \/ Retry = "threw"
         \/ Retry = "connect" /\ attempt < Attempts
  BY DEF Retry, Attempts

-----------------------------------------------------------------------------
(* The stream *)

Bytes == Seq(Nat)

\* A sequence is the first n of its elements and the others.
LEMMA SplitAt ==
  ASSUME NEW s \in Bytes, NEW n \in 0..Len(s)
  PROVE  /\ SubSeq(s, 1, n) \in Bytes /\ Len(SubSeq(s, 1, n)) = n
         /\ SubSeq(s, n + 1, Len(s)) \in Bytes /\ Len(SubSeq(s, n + 1, Len(s))) = Len(s) - n
         /\ SubSeq(s, 1, n) \o SubSeq(s, n + 1, Len(s)) = s
<1>. USE DEF Bytes
<1>. DEFINE a == SubSeq(s, 1, n)
            b == SubSeq(s, n + 1, Len(s))
<1>1. a \in Bytes /\ Len(a) = n /\ \A i \in 1..n : a[i] = s[i]
  OBVIOUS
<1>2. b \in Bytes /\ Len(b) = Len(s) - n /\ \A i \in 1..Len(s) - n : b[i] = s[n + i]
  OBVIOUS
<1>. HIDE DEF a, b
<1>3. a \o b \in Bytes /\ Len(a \o b) = Len(s)
  BY <1>1, <1>2
<1>4. ASSUME NEW i \in 1..Len(s)
      PROVE  (a \o b)[i] = s[i]
  <2>1. CASE i <= n
    <3>1. i \in 1..n /\ i \in 1..Len(a) + Len(b) /\ i <= Len(a)
      BY <1>1, <1>2, <2>1
    <3>2. (a \o b)[i] = a[i]
      BY <1>1, <1>2, <3>1, ConcatProperties, ZenonT(40)
    <3>. QED  BY <1>1, <3>1, <3>2, Zenon
  <2>2. CASE i > n
    <3>1. i - n \in 1..Len(s) - n /\ n + (i - n) = i
      BY <2>2 
    <3>2. (a \o b)[i] = b[i - n]
      BY <1>1, <1>2, <1>3, <2>2
    <3>. QED  BY <1>2, <3>1, <3>2
  <2>3. i <= n \/ i > n
    OBVIOUS
  <2>. QED  BY <2>1, <2>2, <2>3, Zenon
<1>5. a \o b = s
  BY <1>3, <1>4, SeqEqual
<1>. QED  BY <1>1, <1>2, <1>5, Zenon DEF a, b

\* The length of a concatenation.
LEMMA ConcatBytes ==
  ASSUME NEW s \in Bytes, NEW t \in Bytes
  PROVE  s \o t \in Bytes /\ Len(s \o t) = Len(s) + Len(t)
  BY DEF Bytes

\* The elements of a concatenation.
LEMMA ConcatItems ==
  ASSUME NEW s \in Bytes, NEW t \in Bytes
  PROVE  /\ \A i \in 1..Len(s) : (s \o t)[i] = s[i]
         /\ \A i \in 1..Len(t) : (s \o t)[Len(s) + i] = t[i]
  BY DEF Bytes

\* The elements of a beginning.
LEMMA PrefixItems ==
  ASSUME NEW s \in Bytes, NEW n \in 0..Len(s)
  PROVE  \A i \in 1..n : SubSeq(s, 1, n)[i] = s[i]
  BY DEF Bytes

\* A sequence of three is given by its elements.
LEMMA ThreeBytes ==
  ASSUME NEW s \in Bytes, Len(s) = 3, s[1] = 5, s[2] = 0, s[3] = 0
  PROVE  s = <<5, 0, 0>>
<1>1. <<5, 0, 0>> \in Bytes /\ Len(<<5, 0, 0>>) = 3
  BY DEF Bytes
<1>2. \A i \in 1..3 : s[i] = <<5, 0, 0>>[i]
  OBVIOUS
<1>. QED  BY <1>1, <1>2, SeqEqual DEF Bytes

\* Two answers of two bytes, one after the other.
LEMMA TwoAndTwo ==
  ASSUME NEW s \in Bytes, NEW t \in Bytes, Len(s) = 2, Len(t) = 2
  PROVE  /\ s \o t \in Bytes /\ Len(s \o t) = 4
         /\ (s \o t)[1] = s[1] /\ (s \o t)[2] = s[2] /\ (s \o t)[3] = t[1] /\ (s \o t)[4] = t[2]
<1>1. 1 \in 1..Len(s) /\ 2 \in 1..Len(s) /\ 1 \in 1..Len(t) /\ 2 \in 1..Len(t)
      /\ Len(s) + Len(t) = 4 /\ Len(s) + 1 = 3 /\ Len(s) + 2 = 4
  OBVIOUS
<1>2. s \o t \in Bytes /\ Len(s \o t) = Len(s) + Len(t)
  BY ConcatBytes, Zenon
<1>3. (s \o t)[1] = s[1] /\ (s \o t)[2] = s[2]
      /\ (s \o t)[Len(s) + 1] = t[1] /\ (s \o t)[Len(s) + 2] = t[2]
  BY <1>1, ConcatItems, ZenonT(60)
<1>. QED  BY <1>1, <1>2, <1>3, Zenon

\* The answers to the greeting and to the credentials, one after the other.
LEMMA FourBytes == <<5, 2>> \o <<1, 0>> = <<5, 2, 1, 0>>
<1>. DEFINE s == <<5, 2>>
            t == <<1, 0>>
            u == <<5, 2, 1, 0>>
<1>1. s \in Bytes /\ t \in Bytes /\ Len(s) = 2 /\ Len(t) = 2
      /\ s[1] = 5 /\ s[2] = 2 /\ t[1] = 1 /\ t[2] = 0
  BY DEF Bytes
<1>2. u \in Bytes /\ Len(u) = 4 /\ u[1] = 5 /\ u[2] = 2 /\ u[3] = 1 /\ u[4] = 0
  BY DEF Bytes
<1>. HIDE DEF s, t, u
<1>. DEFINE v == s \o t
<1>5. v \in Bytes /\ Len(v) = 4 /\ v[1] = 5 /\ v[2] = 2 /\ v[3] = 1 /\ v[4] = 0
  BY <1>1, TwoAndTwo, Zenon
<1>. HIDE DEF v
<1>6. \A i \in 1..4 : v[i] = u[i]
  BY <1>2, <1>5
<1>7. v = u
  BY <1>2, <1>5, <1>6, SeqEqual DEF Bytes
<1>. QED  BY <1>7, Zenon DEF s, t, u, v

\* A list of one element gets a second one.
LEMMA AppendSecond ==
  ASSUME NEW S, NEW x \in S, NEW y \in S
  PROVE  Append(<<x>>, y) = <<x, y>>
<1>. DEFINE s == <<x>>
            u == <<x, y>>
<1>1. s \in Seq(S) /\ Len(s) = 1 /\ s[1] = x
  OBVIOUS
<1>2. u \in Seq(S) /\ Len(u) = 2 /\ u[1] = x /\ u[2] = y
  OBVIOUS
<1>. HIDE DEF s, u
<1>. DEFINE v == Append(s, y)
<1>3. v \in Seq(S) /\ Len(v) = 2 /\ v[1] = x /\ v[2] = y
  <2>1. 1 \in 1..Len(s) /\ Len(s) + 1 = 2
    BY <1>1
  <2>2. /\ v \in Seq(S) /\ Len(v) = Len(s) + 1 /\ v[Len(s) + 1] = y
        /\ \A i \in 1..Len(s) : v[i] = s[i]
    <3>1. s \in Seq(S)
      BY <1>1, Zenon
    <3>. QED  BY <3>1, AppendProperties
  <2>3. v[1] = s[1] /\ Len(v) = 2 /\ v[2] = y
    BY <2>1, <2>2
  <2>. QED  BY <1>1, <2>2, <2>3, Zenon
<1>. HIDE DEF v
<1>4. \A i \in 1..2 : u[i] = v[i]
  BY <1>2, <1>3
<1>5. v = u
  BY <1>2, <1>3, <1>4, SeqEqual
<1>. QED  BY <1>5, Zenon DEF s, u, v

\* The elements from m to n.
LEMMA PartItems ==
  ASSUME NEW s \in Bytes, NEW m \in 1..Len(s), NEW n \in 0..Len(s), m <= n + 1
  PROVE  /\ SubSeq(s, m, n) \in Bytes /\ Len(SubSeq(s, m, n)) = (n - m) + 1
         /\ \A i \in 1..(n - m) + 1 : SubSeq(s, m, n)[i] = s[i + (m - 1)]
  BY DEF Bytes

\* The n elements after the first i.
LEMMA WindowItems ==
  ASSUME NEW s \in Bytes, NEW i \in 0..Len(s), NEW n \in Nat, i + n <= Len(s)
  PROVE  /\ SubSeq(s, i + 1, i + n) \in Bytes /\ Len(SubSeq(s, i + 1, i + n)) = n
         /\ \A j \in 1..n : SubSeq(s, i + 1, i + n)[j] = s[i + j]
  BY SMTT(40) DEF Bytes

\* Append leaves what is there.
LEMMA AppendItems ==
  ASSUME NEW S, NEW a \in Seq(S), NEW b \in S
  PROVE  /\ Len(Append(a, b)) = Len(a) + 1 /\ Append(a, b)[Len(a) + 1] = b
         /\ \A i \in 1..Len(a) : Append(a, b)[i] = a[i]
  BY AppendProperties

\* A list of two elements gets a third one.
LEMMA AppendThird ==
  ASSUME NEW S, NEW x \in S, NEW y \in S, NEW z \in S
  PROVE  Append(<<x, y>>, z) = <<x, y, z>>
<1>. DEFINE s == <<x, y>>
            u == <<x, y, z>>
<1>1. s \in Seq(S) /\ Len(s) = 2 /\ s[1] = x /\ s[2] = y
  OBVIOUS
<1>2. u \in Seq(S) /\ Len(u) = 3 /\ u[1] = x /\ u[2] = y /\ u[3] = z
  OBVIOUS
<1>. HIDE DEF s, u
<1>. DEFINE v == Append(s, z)
<1>3. v \in Seq(S) /\ Len(v) = 3 /\ v[1] = x /\ v[2] = y /\ v[3] = z
  <2>1. 1 \in 1..Len(s) /\ 2 \in 1..Len(s) /\ Len(s) + 1 = 3
    BY <1>1
  <2>2. /\ v \in Seq(S) /\ Len(v) = Len(s) + 1 /\ v[Len(s) + 1] = z
        /\ \A i \in 1..Len(s) : v[i] = s[i]
    <3>1. s \in Seq(S)
      BY <1>1, Zenon
    <3>. QED  BY <3>1, AppendProperties
  <2>3. v[1] = s[1] /\ v[2] = s[2] /\ Len(v) = 3 /\ v[3] = z
    BY <2>1, <2>2
  <2>. QED  BY <1>1, <2>2, <2>3, Zenon
<1>. HIDE DEF v
<1>4. \A i \in 1..3 : u[i] = v[i]
  BY <1>2, <1>3
<1>5. v = u
  BY <1>2, <1>3, <1>4, SeqEqual
<1>. QED  BY <1>5, Zenon DEF s, u, v

\* FlattenSeq of two and of three sequences.
LEMMA FlattenTwo ==
  ASSUME NEW s \in Bytes, NEW t \in Bytes
  PROVE  FlattenSeq(<<s, t>>) = s \o t
<1>. DEFINE seqs == <<s, t>>
            Body(f) == [i \in 1..Len(seqs) |-> IF i = 1 THEN seqs[i] ELSE f[i - 1] \o seqs[i]]
            flatten == CHOOSE f : f = Body(f)
            g == [i \in 1..2 |-> IF i = 1 THEN s ELSE s \o t]
<1>1. Len(seqs) = 2 /\ seqs[1] = s /\ seqs[2] = t /\ Len(seqs) # 0
  OBVIOUS
<1>2. FlattenSeq(seqs) = flatten[Len(seqs)]
  BY <1>1, Zenon DEF FlattenSeq
<1>. HIDE DEF seqs
<1>3. g = Body(g)
  <2>1. g[1] = s /\ g[2] = s \o t
    OBVIOUS
  <2>2. \A i \in 1..2 : (IF i = 1 THEN s ELSE s \o t) = (IF i = 1 THEN seqs[i] ELSE g[i - 1] \o seqs[i])
    <3>. HIDE DEF g
    <3>1. \A i \in 1..2 : i = 1 \/ i = 2
      OBVIOUS
    <3>2. 2 - 1 = 1 /\ 2 # 1
      OBVIOUS
    <3>. QED  BY <1>1, <2>1, <3>1, <3>2, Zenon
  <2>. QED  BY <1>1, <2>2, Zenon
<1>4. flatten = Body(flatten)
  BY <1>3, Zenon
<1>. HIDE DEF flatten
<1>5. flatten[1] = s /\ flatten[2] = flatten[1] \o t
  <2>1. \A i \in 1..2 : flatten[i] = IF i = 1 THEN seqs[i] ELSE flatten[i - 1] \o seqs[i]
    BY <1>1, <1>4, Zenon
  <2>2. 1 \in 1..2 /\ 2 \in 1..2 /\ 2 # 1 /\ 2 - 1 = 1
    OBVIOUS
  <2>. QED  BY <1>1, <2>1, <2>2, Zenon
<1>. QED  BY <1>1, <1>2, <1>5, Zenon DEF seqs

\* FlattenSeq of three sequences.
LEMMA FlattenThree ==
  ASSUME NEW s \in Bytes, NEW t \in Bytes, NEW u \in Bytes
  PROVE  FlattenSeq(<<s, t, u>>) = (s \o t) \o u
<1>. DEFINE seqs == <<s, t, u>>
            Body(f) == [i \in 1..Len(seqs) |-> IF i = 1 THEN seqs[i] ELSE f[i - 1] \o seqs[i]]
            flatten == CHOOSE f : f = Body(f)
            g == [i \in 1..3 |-> IF i = 1 THEN s ELSE IF i = 2 THEN s \o t ELSE (s \o t) \o u]
<1>1. Len(seqs) = 3 /\ seqs[1] = s /\ seqs[2] = t /\ seqs[3] = u /\ Len(seqs) # 0
  OBVIOUS
<1>2. FlattenSeq(seqs) = flatten[Len(seqs)]
  BY <1>1, Zenon DEF FlattenSeq
<1>. HIDE DEF seqs
<1>3. g = Body(g)
  <2>1. g[1] = s /\ g[2] = s \o t /\ g[3] = (s \o t) \o u
    OBVIOUS
  <2>2. \A i \in 1..3 : (IF i = 1 THEN s ELSE IF i = 2 THEN s \o t ELSE (s \o t) \o u)
                         = (IF i = 1 THEN seqs[i] ELSE g[i - 1] \o seqs[i])
    <3>. HIDE DEF g
    <3>1. \A i \in 1..3 : i = 1 \/ i = 2 \/ i = 3
      OBVIOUS
    <3>2. 2 - 1 = 1 /\ 2 # 1 /\ 3 - 1 = 2 /\ 3 # 1 /\ 3 # 2
      OBVIOUS
    <3>. QED  BY <1>1, <2>1, <3>1, <3>2, Zenon
  <2>. QED  BY <1>1, <2>2, Zenon
<1>4. flatten = Body(flatten)
  BY <1>3, Zenon
<1>. HIDE DEF flatten
<1>5. flatten[1] = s /\ flatten[2] = flatten[1] \o t /\ flatten[3] = flatten[2] \o u
  <2>1. \A i \in 1..3 : flatten[i] = IF i = 1 THEN seqs[i] ELSE flatten[i - 1] \o seqs[i]
    BY <1>1, <1>4, Zenon
  <2>2. 1 \in 1..3 /\ 2 \in 1..3 /\ 2 # 1 /\ 2 - 1 = 1 /\ 3 \in 1..3 /\ 3 # 1 /\ 3 - 1 = 2
    OBVIOUS
  <2>. QED  BY <1>1, <2>1, <2>2, Zenon
<1>. QED  BY <1>1, <1>2, <1>5, Zenon DEF seqs

\* Concatenation is associative.
LEMMA ConcatTwice ==
  ASSUME NEW s \in Bytes, NEW t \in Bytes, NEW u \in Bytes
  PROVE  (s \o t) \o u = s \o (t \o u)
  BY ConcatAssociative, SMTT(40) DEF Bytes

\* Every set of natural numbers that is not empty has a least element.
LEMMA LeastNumber ==
  ASSUME NEW S, S \subseteq Nat, S # {}
  PROVE  \E x \in S : \A y \in S : x <= y
<1>. DEFINE R == {ss \in Nat \X Nat : ss[1] < ss[2]}
<1>1. OpToRel(<, Nat) = R
  BY Zenon DEF OpToRel
<1>2. PICK x \in S : \A y \in S : ~ (<<y, x>> \in R)
  <2>1. IsWellFoundedOn(R, Nat)
    BY <1>1, NatLessThanWellFounded, Zenon
  <2>. HIDE DEF R
  <2>. QED  BY <2>1, WFMin, Zenon
<1>3. \A y \in S : y < x => <<y, x>> \in R
  BY SMT
<1>4. \A y \in S : ~ (y < x)
  BY <1>2, <1>3, Zenon
<1>. QED  BY <1>4

\* A line is a beginning of what it is found in.
LEMMA LineIsPrefix ==
  ASSUME NEW s \in Bytes
  PROVE  \E n \in 0..Len(s) : Line(s) = SubSeq(s, 1, n)
<1>. DEFINE ends == {i \in DOMAIN s : s[i] = Newline}
            n == CHOOSE i \in ends : \A j \in ends : i <= j
<1>1. CASE ends = {}
  <2>1. Line(s) = <<>>
    BY <1>1, Zenon DEF Line
  <2>2. <<>> = SubSeq(s, 1, 0) /\ 0 \in 0..Len(s)
    BY DEF Bytes
  <2>. QED  BY <2>1, <2>2, Zenon
<1>2. CASE ends # {}
  <2>1. ends \subseteq Nat /\ ends \subseteq 0..Len(s)
    BY DEF Bytes
  <2>2. n \in ends
    BY <1>2, <2>1, LeastNumber, Zenon
  <2>3. Line(s) = SubSeq(s, 1, n)
    BY <1>2, Zenon DEF Line
  <2>. QED  BY <2>1, <2>2, <2>3, Zenon
<1>. QED  BY <1>1, <1>2

\* The stream's bytes, and a read that completed with the bytes it asked for.
Stream ==
  /\ buffer \in Bytes /\ inflight \in Bytes /\ sent \in Bytes /\ got \in Bytes
  /\ StreamIntact
  /\ done = "ok" /\ call.kind = "read" => Len(buffer) = call.size

\* A call that starts reads nothing yet; connecting and accepting begin a new stream.
LEMMA StartStream ==
  ASSUME Stream, NEW c, Start(c)
  PROVE  Stream'
<1>1. CASE c.kind \in {"connect", "accept"}
  <2>1. /\ buffer' = <<>> /\ inflight' = <<>> /\ sent' = <<>> /\ got' = <<>>
        /\ done' = "pending"
    BY <1>1, Zenon DEF Start, NewSocket
  <2>2. <<>> \in Bytes /\ <<>> \o <<>> \o <<>> = <<>>
    BY DEF Bytes
  <2>3. done' # "ok"
    BY <2>1
  <2>. QED  BY <2>1, <2>2, <2>3, Zenon DEF Stream, StreamIntact
<1>2. CASE c.kind \notin {"connect", "accept"}
  <2>1. /\ buffer' = buffer /\ inflight' = inflight /\ sent' = sent /\ got' = got
        /\ call' = c /\ (c.kind = "read" => Len(buffer) < c.size)
        /\ done' = (IF Completes(c, buffer) THEN "ok" ELSE IF open THEN "pending" ELSE "error")
    BY <1>2, Zenon DEF Start, connection
  <2>2. done' = "ok" => Completes(c, buffer)
    BY <2>1
  <2>3. Completes(c, buffer) /\ c.kind = "read" => Len(buffer) = c.size
    BY Zenon DEF Completes
  <2>4. done' = "ok" /\ call'.kind = "read" => Len(buffer') = call'.size
    BY <2>1, <2>2, <2>3, Zenon
  <2>. QED  BY <2>1, <2>4, Zenon DEF Stream, StreamIntact
<1>. QED  BY <1>1, <1>2, Zenon

\* Taking the first n bytes of the buffer.
LEMMA TakeStream ==
  ASSUME Stream, NEW n \in 0..Len(buffer),
         got' = got \o SubSeq(buffer, 1, n), buffer' = SubSeq(buffer, n + 1, Len(buffer)),
         inflight' = inflight, sent' = sent
  PROVE  buffer' \in Bytes /\ inflight' \in Bytes /\ sent' \in Bytes /\ got' \in Bytes /\ StreamIntact'
<1>. DEFINE a == SubSeq(buffer, 1, n)
            b == SubSeq(buffer, n + 1, Len(buffer))
<1>1. buffer \in Bytes /\ inflight \in Bytes /\ sent \in Bytes /\ got \in Bytes
      /\ got \o buffer \o inflight = sent
  BY Zenon DEF Stream, StreamIntact
<1>2. a \in Bytes /\ b \in Bytes /\ a \o b = buffer
  BY <1>1, SplitAt, Zenon
<1>3. got' = got \o a /\ buffer' = b
  BY Zenon
<1>. HIDE DEF a, b
<1>4. got \o a \in Bytes /\ (got \o a) \o b = got \o buffer
  <2>1. got \o a \in Bytes
    BY <1>1, <1>2, ConcatBytes, Zenon
  <2>2. (got \o a) \o b = got \o (a \o b)
    <3>1. got \in Bytes /\ a \in Bytes /\ b \in Bytes
      BY <1>1, <1>2, Zenon
    <3>. QED  BY <3>1, ConcatTwice, Zenon
  <2>. QED  BY <1>2, <2>1, <2>2, Zenon
<1>. QED  BY <1>1, <1>2, <1>3, <1>4, Zenon DEF StreamIntact

\* A Read that the buffer can serve returns its first bytes and leaves the others.
LEMMA BufferedStream ==
  ASSUME Stream, run = "out" => call = NoCall, NEW n \in Nat, ReadBuffered(n)
  PROVE  Stream'
<1>1. Len(buffer) \in Nat /\ n <= Len(buffer)
  <2>1. buffer \in Bytes /\ Len(buffer) >= n
    BY Zenon DEF Stream, ReadBuffered
  <2>. QED  BY <2>1 DEF Bytes
<1>2. n \in 0..Len(buffer)
  BY <1>1
<1>3. call'.kind # "read"
  <2>1. call' = NoCall
    BY Zenon DEF ReadBuffered
  <2>. QED  BY <2>1, CallKinds
<1>. QED  BY <1>2, <1>3, TakeStream, Zenon DEF ReadBuffered, Stream

\* A call that returns takes its bytes off the buffer, and none if it failed.
LEMMA FinishStream ==
  ASSUME Stream, call.size \in Nat, NEW success, Finish(success)
  PROVE  Stream'
<1>1. call'.kind # "read" /\ inflight' = inflight /\ sent' = sent
  <2>1. call' = NoCall /\ inflight' = inflight /\ sent' = sent
    BY Zenon DEF Finish
  <2>. QED  BY <2>1, CallKinds
<1>2. CASE done # "ok"
  <2>1. got' = got /\ buffer' = buffer
    BY <1>2, Zenon DEF Finish
  <2>. QED  BY <1>1, <2>1, Zenon DEF Stream, StreamIntact
<1>3. CASE done = "ok"
  <2>1. got' = got \o Taken /\ buffer' = SubSeq(buffer, Len(Taken) + 1, Len(buffer))
    BY <1>3, Zenon DEF Finish, Erased
  <2>2. \E n \in 0..Len(buffer) : Taken = SubSeq(buffer, 1, n)
    <3>1. buffer \in Bytes
      BY Zenon DEF Stream
    <3>2. CASE call.kind = "read"
      <4>1. Taken = SubSeq(buffer, 1, call.size) /\ Len(buffer) = call.size
        BY <1>3, <3>2, Zenon DEF Taken, Stream
      <4>2. call.size \in 0..Len(buffer)
        BY <4>1
      <4>. QED  BY <4>1, <4>2, Zenon
    <3>3. CASE call.kind = "line"
      <4>1. Taken = Line(buffer)
        BY <3>3 DEF Taken
      <4>. QED  BY <3>1, <4>1, LineIsPrefix, Zenon
    <3>4. CASE call.kind \notin {"read", "line"}
      <4>1. Taken = <<>>
        BY <3>4 DEF Taken
      <4>2. <<>> = SubSeq(buffer, 1, 0) /\ 0 \in 0..Len(buffer)
        BY <3>1 DEF Bytes
      <4>. QED  BY <4>1, <4>2, Zenon
    <3>. QED  BY <3>2, <3>3, <3>4
  <2>3. PICK n \in 0..Len(buffer) : Taken = SubSeq(buffer, 1, n)
    BY <2>2
  <2>4. Len(Taken) = n
    BY <2>3, SplitAt, Zenon DEF Stream
  <2>. QED  BY <1>1, <2>1, <2>3, <2>4, TakeStream, Zenon DEF Stream
<1>. QED  BY <1>2, <1>3, Zenon

\* Bytes that arrive go from the network to the end of the buffer.
LEMMA ArriveStream ==
  ASSUME Stream, NEW k, Arrive(k)
  PROVE  Stream'
<1>. DEFINE a == SubSeq(inflight, 1, k)
            b == SubSeq(inflight, k + 1, Len(inflight))
<1>1. buffer \in Bytes /\ inflight \in Bytes /\ sent \in Bytes /\ got \in Bytes
      /\ got \o buffer \o inflight = sent
  BY Zenon DEF Stream, StreamIntact
<1>2. k \in 0..Len(inflight)
  <2>1. k \in 1..Len(inflight)
    BY Zenon DEF Arrive
  <2>. QED  BY <1>1, <2>1 DEF Bytes
<1>3. a \in Bytes /\ b \in Bytes /\ a \o b = inflight
  BY <1>1, <1>2, SplitAt, Zenon
<1>4. buffer' = buffer \o a /\ inflight' = b /\ sent' = sent /\ got' = got /\ call' = call
  BY Zenon DEF Arrive
<1>5. done' = "ok" /\ call'.kind = "read" => Len(buffer') = call'.size
  <2>1. done' = "ok" => Completes(call, buffer')
    <3>1. done' = IF Completes(call, buffer') THEN "ok" ELSE "pending"
      BY Zenon DEF Arrive
    <3>. QED  BY <3>1
  <2>2. Completes(call, buffer') /\ call.kind = "read" => Len(buffer') = call.size
    BY Zenon DEF Completes
  <2>. QED  BY <1>4, <2>1, <2>2, Zenon
<1>. HIDE DEF a, b
<1>6. buffer \o a \in Bytes /\ got \o buffer \in Bytes /\ got \o (buffer \o a) = (got \o buffer) \o a
      /\ ((got \o buffer) \o a) \o b = (got \o buffer) \o (a \o b)
  <2>1. buffer \o a \in Bytes /\ got \o buffer \in Bytes
    BY <1>1, <1>3, ConcatBytes, Zenon
  <2>2. (got \o buffer) \o a = got \o (buffer \o a)
    <3>1. got \in Bytes /\ buffer \in Bytes /\ a \in Bytes
      BY <1>1, <1>3, Zenon
    <3>. QED  BY <3>1, ConcatTwice, Zenon
  <2>3. ((got \o buffer) \o a) \o b = (got \o buffer) \o (a \o b)
    BY <1>3, <2>1, ConcatTwice, ZenonT(60)
  <2>. QED  BY <2>1, <2>2, <2>3, Zenon
<1>7. got' \o buffer' \o inflight' = sent'
  BY <1>1, <1>3, <1>4, <1>6, Zenon
<1>. QED  BY <1>1, <1>3, <1>4, <1>5, <1>6, <1>7, Zenon DEF Stream, StreamIntact

\* What the peer sends is under way, behind what it sent before.
LEMMA SendStream ==
  ASSUME Stream, NEW bytes \in Bytes, PeerSends(bytes)
  PROVE  Stream'
<1>1. buffer \in Bytes /\ inflight \in Bytes /\ sent \in Bytes /\ got \in Bytes
      /\ got \o buffer \o inflight = sent
  BY Zenon DEF Stream, StreamIntact
<1>2. /\ inflight' = inflight \o bytes /\ sent' = sent \o bytes
      /\ buffer' = buffer /\ got' = got /\ call' = call /\ done' = done
  BY Zenon DEF PeerSends
<1>3. /\ got \o buffer \in Bytes /\ inflight \o bytes \in Bytes /\ sent \o bytes \in Bytes
      /\ (got \o buffer) \o (inflight \o bytes) = ((got \o buffer) \o inflight) \o bytes
  <2>1. got \o buffer \in Bytes /\ inflight \o bytes \in Bytes /\ sent \o bytes \in Bytes
    BY <1>1, ConcatBytes, Zenon
  <2>2. ((got \o buffer) \o inflight) \o bytes = (got \o buffer) \o (inflight \o bytes)
    <3>1. inflight \in Bytes
      BY <1>1, Zenon
    <3>. QED  BY <2>1, <3>1, ConcatTwice, ZenonT(60)
  <2>. QED  BY <2>1, <2>2, Zenon
<1>. QED  BY <1>1, <1>2, <1>3, Zenon DEF Stream, StreamIntact

\* The steps of asio and of the peer that move no bytes, and the timeout.
LEMMA QuietStream ==
  ASSUME Stream, Connected \/ Accepted \/ Written \/ Fails \/ PeerCloses \/ Timeout
  PROVE  Stream'
<1>1. UNCHANGED <<call, buffer, inflight, sent, got>>
  BY Zenon DEF Connected, Accepted, Written, Fails, PeerCloses, Timeout, connection
<1>2. done' = "ok" /\ call.kind = "read" => done = "ok"
  BY DEF Connected, Accepted, Written, Fails, PeerCloses, Timeout, connection
<1>. QED  BY <1>1, <1>2, Zenon DEF Stream, StreamIntact

-----------------------------------------------------------------------------
(* Control *)

\* Where the client is, and that the call in progress is the one of that place.
Control ==
  /\ call \in Calls
  /\ run \in {"out", "timed", "drain"} /\ done \in {"pending", "ok", "error"}
  /\ open \in BOOLEAN /\ link \in {"none", "up", "closed"}
  /\ role \in {"proxy", "plain"} /\ pc \in Places /\ (role = "plain" <=> pc = "plain")
  /\ attempt \in 0..Attempts /\ calls \in 0..MaxCalls /\ length \in Nat
  /\ run = "out" <=> call = NoCall
  /\ role = "proxy" /\ run # "out" => call = CallAt(pc)
  /\ pc \in {"check", "connect"} /\ run = "out" => attempt < Attempts
  /\ role = "proxy" => heard \in Seq({"greet", "auth", "request"})

Base == Control /\ Stream /\ answers \in Seq(Bytes)

\* Nothing is under way at the start.
LEMMA InitBase == Init => Base
<1>. SUFFICES ASSUME Init PROVE Base
  OBVIOUS
<1>1. 0 \in 0..Attempts /\ 0 \in 0..MaxCalls /\ 0 < Attempts
  BY Socks5Assumption DEF Attempts
<1>2. pc \in Places /\ (role = "plain" <=> pc = "plain") /\ pc # "connect"
  BY DEF Init, Places
<1>3. <<>> \in Bytes /\ <<>> \o <<>> \o <<>> = <<>> /\ <<>> \in Seq({"greet", "auth", "request"})
  BY DEF Bytes
<1>4. done # "ok" /\ run = "out"
  BY DEF Init, SocketInit
<1>5. Control
  BY <1>1, <1>2, <1>3, <1>4, CallTypes, Zenon DEF Init, SocketInit, Control
<1>6. answers \in Seq(Bytes)
  BY DEF Init
<1>. QED  BY <1>3, <1>4, <1>5, <1>6, Zenon DEF Init, SocketInit, Base, Stream, StreamIntact

\* Starting a call, with what the client does then.
LEMMA CallControl ==
  ASSUME Base, Call
  PROVE  Control'
<1>1. pc \in Calling /\ pc \in Places /\ length \in Nat /\ CallAt(pc) \in Calls
  BY CallAtType, Zenon DEF Base, Control, Call
<1>2. /\ run' = "timed" /\ run = "out" /\ call' = CallAt(pc) /\ CallAt(pc) # NoCall
      /\ UNCHANGED <<role, auth, pc, length, address, destination, calls>>
  BY Zenon DEF Call, Start
<1>3. CallAt(pc)' = CallAt(pc)
  BY <1>2, Zenon DEF CallAt
<1>4. done' \in {"pending", "ok", "error"} /\ open' \in BOOLEAN /\ link' \in {"none", "up", "closed"}
  BY Zenon DEF Call, Start, NewSocket, connection, Base, Control
<1>5. heard' = <<>> \/ heard' = heard
  BY Zenon DEF Call, Start, NewSocket, connection
<1>6. attempt' \in 0..Attempts
  <2>1. CASE pc = "connect"
    <3>1. attempt' = attempt + 1 /\ attempt < Attempts /\ attempt \in 0..Attempts
      BY <1>2, <2>1, Zenon DEF Call, Base, Control
    <3>. QED  BY <3>1 DEF Attempts
  <2>2. CASE pc # "connect"
    BY <2>2, Zenon DEF Call, Base, Control
  <2>. QED  BY <2>1, <2>2
<1>7. run' \in {"out", "timed", "drain"} /\ run' # "out"
  BY <1>2
<1>8. <<>> \in Seq({"greet", "auth", "request"})
  OBVIOUS
<1>. QED
  BY <1>1, <1>2, <1>3, <1>4, <1>5, <1>6, <1>7, <1>8, Zenon DEF Base, Control

\* The data that a read returns, for Advance.
ReadsNext(data) ==
  /\ CallAt(pc).kind = "read" /\ CallAt(pc).size \in 0..Len(buffer)
  /\ data = SubSeq(buffer, 1, CallAt(pc).size)

\* A read served by the buffer is that of the current place and takes the next bytes.
LEMMA BufferedReads ==
  ASSUME Base, CallFromBuffer
  PROVE  ReadsNext(SubSeq(buffer, 1, CallAt(pc).size)) /\ CallAt(pc).size \in Nat /\ pc \in Calling
<1>1. CallAt(pc) \in Calls /\ CallAt(pc).kind = "read" /\ pc \in Calling
  <2>1. CallAt(pc).kind = "read"
    BY Zenon DEF CallFromBuffer
  <2>2. CallAt(pc) # NoCall
    BY <2>1, CallKinds
  <2>. QED  BY <2>1, <2>2, CallAtType, Zenon DEF Base, Control
<1>2. CallAt(pc).size \in Nat
  BY <1>1 DEF Calls
<1>3. Len(buffer) >= CallAt(pc).size /\ buffer \in Bytes
  BY Zenon DEF CallFromBuffer, ReadBuffered, Base, Stream
<1>4. CallAt(pc).size \in 0..Len(buffer)
  BY <1>2, <1>3 DEF Bytes
<1>. QED  BY <1>1, <1>2, <1>4, Zenon DEF ReadsNext

\* A call that returns is that of the current place; if it reads, it takes the next bytes.
LEMMA ReturnReads ==
  ASSUME Base, Returns
  PROVE  /\ pc \in Calling /\ call = CallAt(pc) /\ done = "ok"
         /\ call.kind = "read" => ReadsNext(Taken)
<1>1. role = "proxy" /\ run # "out" /\ done = "ok"
  BY Zenon DEF Returns, Finish
<1>2. call = CallAt(pc) /\ call # NoCall /\ call \in Calls
  BY <1>1, Zenon DEF Base, Control
<1>3. pc \in Calling
  BY <1>2, CallAtType, Zenon DEF Base, Control
<1>4. ASSUME call.kind = "read"
      PROVE  ReadsNext(Taken)
  <2>1. Taken = SubSeq(buffer, 1, call.size) /\ Len(buffer) = call.size
    BY <1>1, <1>4, Zenon DEF Taken, Base, Stream
  <2>2. call.size \in Nat
    BY <1>2 DEF Calls
  <2>3. call.size \in 0..Len(buffer)
    BY <2>1, <2>2
  <2>. QED  BY <1>2, <1>4, <2>1, <2>3, Zenon DEF ReadsNext
<1>. QED  BY <1>1, <1>2, <1>3, <1>4, Zenon

\* The client goes on to a place, a new attempt or an end.
LEMMA AdvanceControl ==
  ASSUME Base, pc \in Calling, NEW data, Advance(data),
         CallAt(pc).kind = "read" => ReadsNext(data),
         run' = "out", call' = NoCall, done' \in {"pending", "ok", "error"}, open' \in BOOLEAN,
         link' = link, heard' = heard
  PROVE  Control'
<1>1. pc' = After(pc, data) /\ UNCHANGED <<role, auth, attempt, answers, calls>>
  BY Zenon DEF Advance
<1>2. pc' \in Places /\ pc' # "plain" /\ (pc' \in {"check", "connect"} => attempt < Attempts)
  <2>1. \/ pc' \in Places \ {"connect", "check", "plain"}
        \/ pc' = Retry
    BY <1>1, AfterPlaces, Zenon
  <2>2. \/ Retry = "threw"
        \/ Retry = "connect" /\ attempt < Attempts
    BY RetryPlaces, Zenon DEF Base, Control
  <2>. QED  BY <2>1, <2>2 DEF Places, Calling
<1>3. length' \in Nat
  <2>1. CASE pc = "length"
    <3>1. CallAt(pc) = ReadCall(1)
      BY <2>1, CallPlaces
    <3>2. CallAt(pc).kind = "read" /\ CallAt(pc).size = 1
      BY <3>1, CallKinds
    <3>3. length' = data[1] /\ data = SubSeq(buffer, 1, 1) /\ 1 \in 0..Len(buffer) /\ buffer \in Bytes
      BY <2>1, <3>2, Zenon DEF Advance, ReadsNext, Base, Stream
    <3>. QED  BY <3>3 DEF Bytes
  <2>2. CASE pc # "length"
    BY <2>2, Zenon DEF Advance, Base, Control
  <2>. QED  BY <2>1, <2>2
<1>4. role = "proxy"
  <2>1. pc # "plain"
    BY DEF Calling
  <2>. QED  BY <2>1, Zenon DEF Base, Control
<1>5. role' = "proxy" /\ role' # "plain"
  BY <1>1, <1>4
<1>. QED  BY <1>1, <1>2, <1>3, <1>5, CallTypes, Zenon DEF Base, Control

\* When a call is over, no operation of it is left.
LEMMA FinishEffect ==
  ASSUME NEW success, Finish(success), Base
  PROVE  /\ run # "out" /\ run' = "out" /\ call' = NoCall /\ done' = "pending"
         /\ open' \in BOOLEAN /\ link' = link /\ heard' = heard
  BY Zenon DEF Finish, Base, Control

\* A call that throws leads to the next attempt or out of Connect.
LEMMA ThrowControl ==
  ASSUME Base, Throws
  PROVE  Control'
<1>1. /\ run' = "out" /\ call' = NoCall /\ done' = "pending" /\ open' \in BOOLEAN
      /\ link' = link /\ heard' = heard
  BY FinishEffect, Zenon DEF Throws
<1>2. role = "proxy" /\ UNCHANGED <<role, auth, attempt, length, address, destination, answers, calls>>
  BY Zenon DEF Throws
<1>3. pc' \in {"threw", Retry}
  BY Zenon DEF Throws
<1>4. \/ Retry = "threw"
      \/ Retry = "connect" /\ attempt < Attempts
  BY RetryPlaces, Zenon DEF Base, Control
<1>5. pc' \in Places /\ pc' # "plain" /\ (pc' \in {"check", "connect"} => attempt < Attempts) /\ role' # "plain"
  BY <1>2, <1>3, <1>4 DEF Places, Calling
<1>6. done' \in {"pending", "ok", "error"}
  BY <1>1
<1>. QED  BY <1>1, <1>2, <1>5, <1>6, CallTypes, Zenon DEF Base, Control

\* The steps of the plain client.
LEMMA PlainControl ==
  ASSUME Base, PlainCall \/ PlainReturns
  PROVE  Control'
<1>1. role = "plain" /\ pc = "plain"
  BY Zenon DEF PlainCall, PlainReturns, Base, Control
<1>2. /\ UNCHANGED <<role, auth, pc, attempt, length, address, destination, answers>>
      /\ calls' \in 0..MaxCalls
  <2>1. CASE PlainCall
    <3>1. calls < MaxCalls /\ calls' = calls + 1 /\ calls \in 0..MaxCalls
      BY <2>1, Zenon DEF PlainCall, Base, Control
    <3>2. calls' \in 0..MaxCalls
      BY <3>1, Socks5Assumption
    <3>. QED  BY <2>1, <3>2, Zenon DEF PlainCall
  <2>2. CASE PlainReturns
    BY <2>2, Zenon DEF PlainReturns, clientVars, Base, Control
  <2>. QED  BY <2>1, <2>2
<1>3. role' # "proxy" /\ pc' \notin {"check", "connect"}
  BY <1>1, <1>2
<1>4. ASSUME NEW c \in Calls, c # NoCall, Start(c)
      PROVE  Control'
  <2>1. run' = "timed" /\ call' = c
    BY <1>4, Zenon DEF Start
  <2>2. run' \in {"out", "timed", "drain"} /\ run' # "out"
    BY <2>1
  <2>3. done' \in {"pending", "ok", "error"} /\ open' \in BOOLEAN /\ link' \in {"none", "up", "closed"}
    BY <1>4, Zenon DEF Start, NewSocket, connection, Base, Control
  <2>. QED  BY <1>2, <1>3, <1>4, <2>1, <2>2, <2>3, Zenon DEF Base, Control
<1>5. ASSUME NEW n, ReadBuffered(n)
      PROVE  Control'
  BY <1>2, <1>3, <1>5, Zenon DEF ReadBuffered, Base, Control
<1>6. CASE PlainReturns
  <2>1. /\ run' = "out" /\ call' = NoCall /\ done' = "pending" /\ open' \in BOOLEAN
        /\ link' = link
    BY <1>6, FinishEffect, Zenon DEF PlainReturns
  <2>2. done' \in {"pending", "ok", "error"}
    BY <2>1
  <2>. QED  BY <1>2, <1>3, <2>1, <2>2, CallTypes, Zenon DEF Base, Control
<1>7. CASE PlainCall
  <2>1. /\ {ConnectCall, AcceptCall} \subseteq Calls \ {NoCall}
        /\ {ReadCall(1), ReadCall(2), LineCall, WriteCall("data")} \subseteq Calls \ {NoCall}
    <3>1. "data" \in Messages /\ 1 \in Nat /\ 2 \in Nat
      BY DEF Messages
    <3>2. /\ ConnectCall # NoCall /\ AcceptCall # NoCall /\ LineCall # NoCall
          /\ ReadCall(1) # NoCall /\ ReadCall(2) # NoCall /\ WriteCall("data") # NoCall
      BY CallKinds
    <3>. QED  BY <3>1, <3>2, CallTypes, Zenon
  <2>. QED  BY <1>4, <1>5, <1>7, <2>1, Zenon DEF PlainCall
<1>. QED  BY <1>6, <1>7

\* The steps of time, of asio and of the peer.
LEMMA OutsideControl ==
  ASSUME Base, TimesOut \/ Environment \/ ProxyAnswers \/ DestinationSends \/ PlainPeer
  PROVE  Control'
<1>1. /\ UNCHANGED <<role, pc, attempt, length, calls>> /\ call' = call
      /\ (run' = "out" <=> run = "out") /\ run' \in {"out", "timed", "drain"}
      /\ (pc \in {"check", "connect"} /\ run' = "out" => attempt < Attempts)
  <2>1. UNCHANGED <<role, pc, attempt, length, calls>>
    BY Zenon DEF TimesOut, Environment, ProxyAnswers, DestinationSends, PlainPeer, clientVars
  <2>2. CASE Timeout
    <3>1. run = "timed" /\ run' = "drain" /\ call' = call
      BY <2>2, Zenon DEF Timeout
    <3>. QED  BY <2>1, <3>1
  <2>3. CASE ~ Timeout
    <3>1. run' = run /\ call' = call
      BY <2>3, Zenon DEF TimesOut, Environment, ProxyAnswers, DestinationSends, PlainPeer,
                         Connected, Accepted, Written, Fails, PeerCloses, Arrive, PeerSends
    <3>. QED  BY <2>1, <3>1, Zenon DEF Base, Control
  <2>. QED  BY <2>2, <2>3
<1>2. open' \in BOOLEAN
  BY Zenon DEF TimesOut, Environment, ProxyAnswers, DestinationSends, PlainPeer,
               Timeout, Connected, Accepted, Written, Fails, PeerCloses, Arrive, PeerSends,
               connection, Base, Control
<1>3. done' \in {"pending", "ok", "error"} /\ link' \in {"none", "up", "closed"}
  BY Zenon DEF TimesOut, Environment, ProxyAnswers, DestinationSends, PlainPeer,
               Timeout, Connected, Accepted, Written, Fails, PeerCloses, Arrive, PeerSends,
               connection, Base, Control
<1>4. ASSUME role = "proxy" PROVE heard' \in Seq({"greet", "auth", "request"})
  <2>1. CASE Written
    <3>1. call.kind = "write" /\ call = CallAt(pc) /\ pc \in Places
          /\ heard' = (IF link = "up" THEN Append(heard, call.message) ELSE heard)
          /\ heard \in Seq({"greet", "auth", "request"})
      <4>1. run # "out"
        BY <2>1 DEF Written, InProgress
      <4>. QED  BY <1>4, <2>1, <4>1, Zenon DEF Written, Base, Control
    <3>2. call.message \in {"greet", "auth", "request"}
      BY <3>1, CallPlaces, CallKinds DEF Places, Calling
    <3>. QED  BY <3>1, <3>2
  <2>2. CASE ~ Written
    <3>1. heard' = heard
      BY <2>2, Zenon DEF TimesOut, Environment, ProxyAnswers, DestinationSends, PlainPeer,
               Timeout, Connected, Accepted, Fails, PeerCloses, Arrive, PeerSends, connection
    <3>. QED  BY <1>4, <3>1, Zenon DEF Base, Control
  <2>. QED  BY <2>1, <2>2
<1>5. CallAt(pc)' = CallAt(pc)
  BY <1>1, Zenon DEF CallAt
<1>. QED  BY <1>1, <1>2, <1>3, <1>4, <1>5, Zenon DEF Base, Control

-----------------------------------------------------------------------------
(* The invariant *)

\* What the proxy answers are bytes.
LEMMA AddressType ==
  ASSUME NEW type \in {IPV4, DOMAINNAME, IPV6, 9}
  PROVE  AddressOf(type) \in Bytes
<1>1. /\ AddressOf(IPV4) = <<11, 12, 13, 14>>
      /\ AddressOf(IPV6) = [i \in 1..16 |-> 10 + i]
      /\ AddressOf(DOMAINNAME) = <<2, 11, 12>>
      /\ AddressOf(9) = <<>>
  BY DEF AddressOf, IPV4, IPV6, DOMAINNAME
<1>2. <<11, 12, 13, 14>> \in Bytes /\ <<2, 11, 12>> \in Bytes /\ <<>> \in Bytes
  BY DEF Bytes
<1>3. [i \in 1..16 |-> 10 + i] \in Bytes
  BY DEF Bytes
<1>. QED  BY <1>1, <1>2, <1>3, Zenon

RequestAnswer(reply, reserved, type) == <<5, reply, reserved, type>> \o AddressOf(type) \o <<7, 8>>
EmptyDomain == <<5, 0, 0, 3, 0, 7, 8>>
OtherVersion == <<4, 0, 0, 1, 11, 12, 13, 14, 7, 8>>

\* What a proxy may answer to the greeting and to the credentials.
LEMMA AnswerKinds ==
  /\ Answers("greet") = {<<5, 0>>, <<5, 2>>, <<5, 255>>, <<4, 0>>}
  /\ Answers("auth") = {<<1, 0>>, <<1, 1>>}
  BY DEF Answers, NOAUTH, USER_PASS

\* What a proxy may answer to the request.
LEMMA RequestAnswers ==
  ASSUME NEW bytes \in Answers("request")
  PROVE  \/ \E reply \in {0, 1}, reserved \in {0, 1}, type \in {IPV4, DOMAINNAME, IPV6, 9} :
              bytes = RequestAnswer(reply, reserved, type)
         \/ bytes \in {EmptyDomain, OtherVersion}
<1>1. SUCCEEDED = 0
  BY DEF SUCCEEDED
<1>2. Answers("request") =
       {RequestAnswer(reply, reserved, type) :
          reply \in {SUCCEEDED, 1}, reserved \in {0, 1}, type \in {IPV4, DOMAINNAME, IPV6, 9}}
         \cup {EmptyDomain, OtherVersion}
  BY DEF Answers, RequestAnswer, EmptyDomain, OtherVersion, SUCCEEDED, DOMAINNAME, IPV4
<1>. HIDE DEF RequestAnswer
<1>. QED  BY <1>1, <1>2, SMT

\* Every answer is a sequence of bytes.
LEMMA AnswerTypes ==
  ASSUME NEW message \in {"greet", "auth", "request"}, NEW bytes \in Answers(message)
  PROVE  bytes \in Bytes
<1>1. ASSUME NEW reply \in {0, 1}, NEW reserved \in {0, 1}, NEW type \in {IPV4, DOMAINNAME, IPV6, 9}
      PROVE  RequestAnswer(reply, reserved, type) \in Bytes
  <2>1. AddressOf(type) \in Bytes
    BY AddressType
  <2>2. type \in Nat
    BY DEF IPV4, DOMAINNAME, IPV6
  <2>3. <<5, reply, reserved, type>> \in Bytes /\ <<7, 8>> \in Bytes
    BY <2>2 DEF Bytes
  <2>. QED  BY <2>1, <2>3, ConcatBytes, Zenon DEF RequestAnswer
<1>2. /\ <<5, 0>> \in Bytes /\ <<5, 2>> \in Bytes /\ <<5, 255>> \in Bytes /\ <<4, 0>> \in Bytes
      /\ <<1, 0>> \in Bytes /\ <<1, 1>> \in Bytes /\ EmptyDomain \in Bytes /\ OtherVersion \in Bytes
  BY DEF Bytes, EmptyDomain, OtherVersion
<1>3. CASE message = "request"
  <2>1. bytes \in Answers("request")
    BY <1>3, Zenon
  <2>2. \/ \E reply \in {0, 1}, reserved \in {0, 1}, type \in {IPV4, DOMAINNAME, IPV6, 9} :
              bytes = RequestAnswer(reply, reserved, type)
        \/ bytes \in {EmptyDomain, OtherVersion}
    BY <2>1, RequestAnswers
  <2>. QED  BY <1>1, <1>2, <2>2, ZenonT(60)
<1>4. CASE message = "greet"
  <2>1. bytes \in {<<5, 0>>, <<5, 2>>, <<5, 255>>, <<4, 0>>}
    BY <1>4, AnswerKinds, Zenon
  <2>. QED  BY <1>2, <2>1, ZenonT(60)
<1>5. CASE message = "auth"
  <2>1. bytes \in {<<1, 0>>, <<1, 1>>}
    BY <1>5, AnswerKinds, Zenon
  <2>. QED  BY <1>2, <2>1, Zenon
<1>. QED  BY <1>3, <1>4, <1>5

\* The message the proxy answers next is one of the client's.
LEMMA NextHeard ==
  ASSUME Base, ProxyAnswers
  PROVE  heard[Len(answers) + 1] \in {"greet", "auth", "request"}
<1>1. /\ Len(answers) < Len(heard) /\ heard \in Seq({"greet", "auth", "request"})
      /\ answers \in Seq(Bytes)
  BY Zenon DEF ProxyAnswers, Base, Control
<1>. QED  BY <1>1

\* Every step preserves it.
LEMMA StepBase == Base /\ [Next]_vars => Base'
<1>. SUFFICES ASSUME Base, [Next]_vars PROVE Base'
  OBVIOUS
<1>1. call.size \in Nat /\ (run = "out" => call = NoCall) /\ Stream
  <2>1. call \in Calls
    BY Zenon DEF Base, Control
  <2>2. call.size \in Nat
    BY <2>1 DEF Calls
  <2>. QED  BY <2>2, Zenon DEF Base, Control
<1>2. <<>> \in Seq(Bytes)
  OBVIOUS
<1>3. answers \in Seq(Bytes)
  BY Zenon DEF Base
<1>4. CASE Call
  <2>1. Stream'
    BY <1>1, <1>4, StartStream, Zenon DEF Call
  <2>2. answers' = <<>> \/ answers' = answers
    BY <1>4, Zenon DEF Call
  <2>. QED  BY <1>2, <1>3, <1>4, <2>1, <2>2, CallControl, Zenon DEF Base
<1>5. CASE CallFromBuffer
  <2>1. ReadsNext(SubSeq(buffer, 1, CallAt(pc).size)) /\ CallAt(pc).size \in Nat /\ pc \in Calling
    BY <1>5, BufferedReads, Zenon
  <2>2. Stream'
    BY <1>1, <1>5, <2>1, BufferedStream, Zenon DEF CallFromBuffer
  <2>3. /\ run' = "out" /\ call' = NoCall /\ done' \in {"pending", "ok", "error"} /\ open' \in BOOLEAN
        /\ link' = link /\ heard' = heard
    BY <1>1, <1>5, Zenon DEF CallFromBuffer, ReadBuffered, Base, Control
  <2>4. Control'
    BY <1>5, <2>1, <2>3, AdvanceControl, Zenon DEF CallFromBuffer
  <2>. QED  BY <1>3, <1>5, <2>2, <2>4, Zenon DEF CallFromBuffer, Advance, Base
<1>6. CASE Returns
  <2>1. pc \in Calling /\ call = CallAt(pc) /\ (call.kind = "read" => ReadsNext(Taken))
    BY <1>6, ReturnReads, Zenon
  <2>2. Stream'
    BY <1>1, <1>6, FinishStream, Zenon DEF Returns
  <2>3. /\ run' = "out" /\ call' = NoCall /\ done' = "pending" /\ open' \in BOOLEAN
        /\ link' = link /\ heard' = heard
    BY <1>6, FinishEffect, Zenon DEF Returns
  <2>4. done' \in {"pending", "ok", "error"}
    BY <2>3
  <2>5. Control'
    BY <1>6, <2>1, <2>3, <2>4, AdvanceControl, Zenon DEF Returns
  <2>. QED  BY <1>3, <1>6, <2>2, <2>5, Zenon DEF Returns, Advance, Base
<1>7. CASE Throws
  BY <1>1, <1>3, <1>7, ThrowControl, FinishStream, Zenon DEF Throws, Base
<1>8. CASE PlainReturns
  BY <1>1, <1>3, <1>8, PlainControl, FinishStream, Zenon DEF PlainReturns, clientVars, Base
<1>9. CASE PlainCall
  <2>1. Stream'
    <3>1. \A n \in 1..2 : n \in Nat
      OBVIOUS
    <3>. QED  BY <1>1, <1>9, <3>1, StartStream, BufferedStream, Zenon DEF PlainCall
  <2>. QED  BY <1>3, <1>9, <2>1, PlainControl, Zenon DEF PlainCall, Base
<1>10. CASE CheckLengths
  <2>1. UNCHANGED <<socketVars, role, auth, attempt, length, address, destination, answers, calls>>
    BY <1>10, Zenon DEF CheckLengths
  <2>2. pc = "check" /\ pc' \in {"connect", "threw"}
    BY <1>10, Zenon DEF CheckLengths
  <2>3. Stream'
    BY <1>1, <2>1, Zenon DEF socketVars, Stream, StreamIntact
  <2>4. run = "out" /\ role = "proxy" /\ attempt < Attempts
    <3>1. CallAt(pc) = NoCall /\ pc # "plain" /\ pc \in {"check", "connect"}
      BY <2>2, CallPlaces
    <3>. QED  BY <3>1, Zenon DEF Base, Control
  <2>5. pc' \in Places /\ pc' # "plain"
    BY <2>2 DEF Places, Calling
  <2>6. role' = "proxy" /\ role' # "plain"
    BY <2>1, <2>4
  <2>7. Control'
    BY <2>1, <2>4, <2>5, <2>6, Zenon DEF socketVars, Base, Control
  <2>. QED  BY <1>3, <2>1, <2>3, <2>7, Zenon DEF Base
<1>11. CASE TimesOut
  BY <1>1, <1>3, <1>11, OutsideControl, QuietStream, Zenon DEF TimesOut, clientVars, Base
<1>12. CASE Environment
  BY <1>1, <1>3, <1>12, OutsideControl, QuietStream, ArriveStream, Zenon
  DEF Environment, clientVars, Base
<1>13. CASE ProxyAnswers
  <2>1. PICK bytes \in Answers(heard[Len(answers) + 1]) :
          PeerSends(bytes) /\ answers' = Append(answers, bytes)
    BY <1>13, Zenon DEF ProxyAnswers
  <2>2. bytes \in Bytes
    BY <1>13, NextHeard, AnswerTypes, Zenon
  <2>3. answers' \in Seq(Bytes)
    BY <1>3, <2>1, <2>2
  <2>. QED  BY <1>1, <1>13, <2>1, <2>2, <2>3, OutsideControl, SendStream, Zenon DEF Base
<1>14. CASE DestinationSends
  <2>1. <<99>> \in Bytes
    BY DEF Bytes
  <2>. QED
    BY <1>1, <1>3, <1>14, <2>1, OutsideControl, SendStream, Zenon
    DEF DestinationSends, clientVars, Base
<1>15. CASE PlainPeer
  <2>1. \A byte \in {1, 2, Newline} : <<byte>> \in Bytes
    BY DEF Bytes, Newline
  <2>. QED
    BY <1>1, <1>3, <1>15, <2>1, OutsideControl, SendStream, Zenon DEF PlainPeer, clientVars, Base
<1>16. CASE UNCHANGED vars
  <2>1. UNCHANGED socketVars /\ UNCHANGED clientVars
    BY <1>16, Zenon DEF vars
  <2>2. CallAt(pc)' = CallAt(pc)
    BY <2>1, Zenon DEF clientVars, CallAt
  <2>. QED
    BY <2>1, <2>2, Zenon DEF socketVars, clientVars, Base, Control, Stream, StreamIntact
<1>. QED
  BY <1>4, <1>5, <1>6, <1>7, <1>8, <1>9, <1>10, <1>11, <1>12, <1>13, <1>14, <1>15, <1>16, Zenon
  DEF Next, Client

\* The control of the call and the stream agree in every state.
LEMMA AlwaysBase == Spec => []Base
<1>. QED  BY InitBase, StepBase, PTL DEF Spec

\* Every call in progress has the thread waiting for it, so that a handler, which writes
\* to the stack of the call that started it, never outlives it; and Socks5Proxy makes
\* its three attempts and no more.
THEOREM TypeCorrect == Spec => []TypeOK
<1>1. Base => TypeOK
  <2>. SUFFICES ASSUME Base PROVE TypeOK
    OBVIOUS
  <2>1. call \in Calls
    BY Zenon DEF Base, Control
  <2>2. call.kind \in {"none", "connect", "accept", "read", "line", "write"}
    BY <2>1 DEF Calls, Kinds
  <2>. QED  BY <2>2, Zenon DEF Base, Control, TypeOK
<1>. QED  BY <1>1, AlwaysBase, PTL

\* The calls return the peer's bytes in order, each once, whatever pieces they arrive in
\* and whichever calls time out or fail, for any number of calls and bytes: Read and
\* ReadLine erase from m_stringBuffer what they return and leave the rest to the next call.
THEOREM StreamInOrder == Spec => []StreamIntact
<1>1. Base => StreamIntact
  BY Zenon DEF Base, Stream
<1>. QED  BY <1>1, AlwaysBase, PTL

-----------------------------------------------------------------------------
(* The dialogue with the proxy *)

Begins(s, t) == Len(s) <= Len(t) /\ \A i \in 1..Len(s) : t[i] = s[i]

\* The four exchanges of an attempt: the greeting, the credentials, and the request with
\* and without credentials before it.  For each: the messages and the answers before it,
\* the bytes of those answers, its own message, and the places of its calls.
Stages == {"hello", "login", "free", "member"}
Granting == {"ipv4", "ipv6", "length", "domain", "port", "up"}

HeardBefore(k) ==
  CASE k = "hello" -> <<>>
    [] k \in {"login", "free"} -> <<"greet">>
    [] k = "member" -> <<"greet", "auth">>
AnswersBefore(k) ==
  CASE k = "hello" -> <<>>
    [] k = "login" -> << <<5, 2>> >>
    [] k = "free" -> << <<5, 0>> >>
    [] k = "member" -> << <<5, 2>>, <<1, 0>> >>
BytesBefore(k) ==
  CASE k = "hello" -> <<>>
    [] k = "login" -> <<5, 2>>
    [] k = "free" -> <<5, 0>>
    [] k = "member" -> <<5, 2, 1, 0>>
MessageOf(k) ==
  CASE k = "hello" -> "greet" [] k = "login" -> "auth" [] k \in {"free", "member"} -> "request"
PlacesOf(k) ==
  CASE k = "hello" -> {"greet", "method"}
    [] k = "login" -> {"auth", "authReply"}
    [] k \in {"free", "member"} -> {"request", "reply"} \cup Granting

\* The answer b to the message of exchange k was sent.
AnsweredBy(k, b) ==
  /\ heard = Append(HeardBefore(k), MessageOf(k))
  /\ answers = Append(AnswersBefore(k), b)
  /\ Begins(BytesBefore(k) \o b, sent)
  /\ MessageOf(k) # "request" => sent = BytesBefore(k) \o b

\* How far the exchange got: nothing written, written, answered.
Exchange(k) ==
  \/ heard = HeardBefore(k) /\ answers = AnswersBefore(k) /\ sent = BytesBefore(k)
  \/ heard = Append(HeardBefore(k), MessageOf(k)) /\ answers = AnswersBefore(k) /\ sent = BytesBefore(k)
  \/ \E b \in Answers(MessageOf(k)) : AnsweredBy(k, b)

\* The first i bytes of the answer b were read.
HasRead(k, b, i) == got = BytesBefore(k) \o SubSeq(b, 1, i)

\* The address the answer b names.
Named(b) ==
  LET rest == SubSeq(b, 5, Len(b) - 2)
  IN IF b[4] = DOMAINNAME THEN Tail(rest) ELSE rest

\* The request was granted by b, of which the client has read what its place says.
GrantedBy(k, b) ==
  /\ AnsweredBy(k, b)
  /\ SubSeq(b, 1, 3) = <<5, SUCCEEDED, 0>>
  /\ pc = "ipv4" => b[4] = IPV4 /\ HasRead(k, b, 4)
  /\ pc = "ipv6" => b[4] = IPV6 /\ HasRead(k, b, 4)
  /\ pc = "length" => b[4] = DOMAINNAME /\ HasRead(k, b, 4)
  /\ pc = "domain" => b[4] = DOMAINNAME /\ HasRead(k, b, 5) /\ length = b[5]
  /\ pc = "port" => HasRead(k, b, Len(b) - 2) /\ address = Named(b)
  /\ pc = "up" => HasRead(k, b, Len(b)) /\ destination = [address |-> Named(b), port |-> 1800]

\* The client is in exchange k, and in step with the proxy.
InStage(k) ==
  /\ Exchange(k)
  /\ k \in {"login", "member"} => auth
  /\ pc \in Places \ {"check", "connect", "threw", "plain"} => pc \in PlacesOf(k)
  /\ pc = "connect" /\ run # "out" => k = "hello" /\ heard = <<>> /\ got = <<>>
  /\ pc \in {"greet", "auth", "request"} /\ (run = "out" \/ done # "ok") => heard = HeardBefore(k)
  /\ pc \in {"greet", "method", "auth", "authReply", "request", "reply"} => got = BytesBefore(k)
  /\ pc \in Granting => \E b \in Answers("request") : GrantedBy(k, b)

Dialogue == role = "proxy" => \E k \in Stages : InStage(k)

\* What was heard, answered and read before each exchange.
LEMMA StageValues ==
  /\ HeardBefore("hello") = <<>> /\ HeardBefore("login") = <<"greet">>
  /\ HeardBefore("free") = <<"greet">> /\ HeardBefore("member") = <<"greet", "auth">>
  /\ AnswersBefore("hello") = <<>> /\ AnswersBefore("login") = << <<5, 2>> >>
  /\ AnswersBefore("free") = << <<5, 0>> >> /\ AnswersBefore("member") = << <<5, 2>>, <<1, 0>> >>
  /\ BytesBefore("hello") = <<>> /\ BytesBefore("login") = <<5, 2>>
  /\ BytesBefore("free") = <<5, 0>> /\ BytesBefore("member") = <<5, 2, 1, 0>>
  /\ MessageOf("hello") = "greet" /\ MessageOf("login") = "auth"
  /\ MessageOf("free") = "request" /\ MessageOf("member") = "request"
  BY DEF HeardBefore, AnswersBefore, BytesBefore, MessageOf

\* The places of each exchange.
LEMMA StagePlaces ==
  /\ PlacesOf("hello") = {"greet", "method"} /\ PlacesOf("login") = {"auth", "authReply"}
  /\ PlacesOf("free") = {"request", "reply"} \cup Granting
  /\ PlacesOf("member") = {"request", "reply"} \cup Granting
  BY DEF PlacesOf

\* Before an exchange every message was answered, and no request was sent.
LEMMA StageTypes ==
  ASSUME NEW k \in Stages
  PROVE  /\ HeardBefore(k) \in Seq({"greet", "auth", "request"})
         /\ AnswersBefore(k) \in Seq(Bytes) /\ BytesBefore(k) \in Bytes
         /\ Len(AnswersBefore(k)) = Len(HeardBefore(k))
         /\ Len(HeardBefore(k)) > 0 => HeardBefore(k)[Len(HeardBefore(k))] # "request"
         /\ MessageOf(k) \in {"greet", "auth", "request"}
         /\ \A m : HeardBefore(k) # Append(HeardBefore(k), m)
<1>. DEFINE M == {"greet", "auth", "request"}
<1>1. /\ <<>> \in Seq(M) /\ <<"greet">> \in Seq(M) /\ <<"greet", "auth">> \in Seq(M)
      /\ <<>> \in Bytes /\ <<5, 2>> \in Bytes /\ <<5, 0>> \in Bytes /\ <<1, 0>> \in Bytes
      /\ <<5, 2, 1, 0>> \in Bytes
  BY DEF Bytes
<1>2. /\ <<>> \in Seq(Bytes) /\ << <<5, 2>> >> \in Seq(Bytes) /\ << <<5, 0>> >> \in Seq(Bytes)
      /\ << <<5, 2>>, <<1, 0>> >> \in Seq(Bytes)
  BY <1>1
<1>3. /\ HeardBefore(k) \in Seq(M) /\ AnswersBefore(k) \in Seq(Bytes) /\ BytesBefore(k) \in Bytes
      /\ MessageOf(k) \in M
  BY <1>1, <1>2, StageValues, Zenon DEF Stages
<1>4. Len(AnswersBefore(k)) = Len(HeardBefore(k))
  BY StageValues DEF Stages
<1>5. Len(HeardBefore(k)) > 0 => HeardBefore(k)[Len(HeardBefore(k))] # "request"
  <2>1. /\ Len(<<"greet">>) = 1 /\ <<"greet">>[1] = "greet"
        /\ Len(<<"greet", "auth">>) = 2 /\ <<"greet", "auth">>[2] = "auth"
        /\ Len(<<>>) = 0 /\ ~ (0 > 0) /\ "greet" # "request" /\ "auth" # "request"
    OBVIOUS
  <2>. QED  BY <2>1, StageValues, Zenon DEF Stages
<1>6. \A m : HeardBefore(k) # Append(HeardBefore(k), m)
  <2>1. \A m : Len(Append(HeardBefore(k), m)) = Len(HeardBefore(k)) + 1
    BY <1>3
  <2>2. Len(HeardBefore(k)) # Len(HeardBefore(k)) + 1
    BY <1>3
  <2>. QED  BY <2>1, <2>2, Zenon
<1>. QED  BY <1>3, <1>4, <1>5, <1>6

\* A granted request was answered.
LEMMA GrantedIsAnswered ==
  ASSUME NEW k, NEW b, GrantedBy(k, b)
  PROVE  AnsweredBy(k, b)
  BY DEF GrantedBy

\* What the client has read of the answer does not depend on what the peer does next.
LEMMA GrantedStays ==
  ASSUME NEW k, NEW b, GrantedBy(k, b), AnsweredBy(k, b)',
         UNCHANGED <<pc, got, length, address, destination>>
  PROVE  GrantedBy(k, b)'
<1>1. \A i : HasRead(k, b, i)' <=> HasRead(k, b, i)
  BY Zenon DEF HasRead
<1>2. pc' = pc /\ length' = length /\ address' = address /\ destination' = destination
  OBVIOUS
<1>3. /\ HasRead(k, b, 4) => HasRead(k, b, 4)'
      /\ HasRead(k, b, 5) => HasRead(k, b, 5)'
      /\ HasRead(k, b, Len(b) - 2) => HasRead(k, b, Len(b) - 2)'
      /\ HasRead(k, b, Len(b)) => HasRead(k, b, Len(b))'
  BY <1>1, Zenon
<1>4. (pc = "ipv4" => b[4] = IPV4 /\ HasRead(k, b, 4))'
  BY <1>2, <1>3 DEF GrantedBy
<1>5. (pc = "ipv6" => b[4] = IPV6 /\ HasRead(k, b, 4))'
  BY <1>2, <1>3 DEF GrantedBy
<1>6. (pc = "length" => b[4] = DOMAINNAME /\ HasRead(k, b, 4))'
  BY <1>2, <1>3 DEF GrantedBy
<1>7. (pc = "domain" => b[4] = DOMAINNAME /\ HasRead(k, b, 5) /\ length = b[5])'
  BY <1>2, <1>3 DEF GrantedBy
<1>8. (pc = "port" => HasRead(k, b, Len(b) - 2) /\ address = Named(b))'
  BY <1>2, <1>3 DEF GrantedBy
<1>9. (pc = "up" => HasRead(k, b, Len(b)) /\ destination = [address |-> Named(b), port |-> 1800])'
  BY <1>2, <1>3 DEF GrantedBy
<1>. QED  BY <1>4, <1>5, <1>6, <1>7, <1>8, <1>9 DEF GrantedBy

\* The steps that leave the dialogue as it is.
LEMMA QuietDialogue ==
  ASSUME NEW k \in Stages, InStage(k),
         UNCHANGED <<auth, pc, heard, answers, sent, got, length, address, destination>>,
         pc = "connect" /\ run' # "out" => run # "out",
         run' = "out" \/ done' # "ok" => run = "out" \/ done # "ok"
  PROVE  InStage(k)'
<1>1. Exchange(k)' <=> Exchange(k)
  BY Zenon DEF Exchange, AnsweredBy, Begins
<1>2. ASSUME NEW b, GrantedBy(k, b) PROVE GrantedBy(k, b)'
  <2>1. AnsweredBy(k, b)
    BY <1>2, GrantedIsAnswered, Zenon
  <2>2. AnsweredBy(k, b)'
    BY <2>1, Zenon DEF AnsweredBy, Begins
  <2>. QED  BY <1>2, <2>2, GrantedStays, Zenon
<1>. QED  BY <1>1, <1>2, Zenon DEF InStage

\* An attempt ends, or has not begun.
LEMMA LeaveDialogue ==
  ASSUME NEW k \in Stages, InStage(k), UNCHANGED <<auth, heard, answers, sent>>,
         pc' \in {"check", "connect", "threw"}, run' = "out"
  PROVE  InStage(k)'
<1>1. Exchange(k)' <=> Exchange(k)
  BY Zenon DEF Exchange, AnsweredBy, Begins
<1>2. /\ pc' \notin Places \ {"check", "connect", "threw", "plain"} 
      /\ pc' \notin {"greet", "auth", "request"} /\ pc' \notin Granting
      /\ pc' \notin {"greet", "method", "auth", "authReply", "request", "reply"}
  BY DEF Granting
<1>. QED  BY <1>1, <1>2, Zenon DEF InStage

\* A new attempt begins.
LEMMA ConnectDialogue ==
  ASSUME pc = "connect", pc' = "connect", heard' = <<>>, answers' = <<>>, sent' = <<>>, got' = <<>>
  PROVE  InStage("hello")'
<1>1. Exchange("hello")'
  BY StageValues, Zenon DEF Exchange
<1>2. pc' \notin Places \ {"check", "connect", "threw", "plain"} 
      /\ pc' \notin {"greet", "auth", "request"} /\ pc' \notin Granting
      /\ pc' \notin {"greet", "method", "auth", "authReply", "request", "reply"}
  BY DEF Granting
<1>3. "hello" \notin {"login", "member"}
  OBVIOUS
<1>. QED  BY <1>1, <1>2, <1>3, Zenon DEF InStage

\* The place of a write is the message of its exchange.
LEMMA WritePlace ==
  ASSUME NEW k \in Stages, pc \in {"greet", "auth", "request"}, pc \in PlacesOf(k)
  PROVE  MessageOf(k) = pc
  BY StagePlaces, StageValues DEF Stages, Granting

\* The peer receives a message.
LEMMA WrittenDialogue ==
  ASSUME Base, role = "proxy", NEW k \in Stages, InStage(k), Written,
         UNCHANGED <<auth, pc, answers, length, address, destination>>
  PROVE  InStage(k)'
<1>1. /\ run = "timed" /\ done = "pending" /\ call.kind = "write" /\ done' = "ok" /\ run' = "timed"
      /\ heard' = (IF link = "up" THEN Append(heard, call.message) ELSE heard)
      /\ sent' = sent /\ got' = got
  BY Zenon DEF Written, InProgress
<1>2. run # "out" /\ done # "ok" /\ run' # "out" /\ ~ (done' # "ok")
  BY <1>1
<1>3. call = CallAt(pc) /\ pc \in Places
  BY <1>2, Zenon DEF Base, Control
<1>4. pc \in {"greet", "auth", "request"} /\ call.message = pc
  BY <1>1, <1>3, CallPlaces, CallKinds DEF Places, Calling
<1>5. pc \in Places \ {"check", "connect", "threw", "plain"}
  BY <1>3, <1>4
<1>6. pc \in PlacesOf(k) /\ heard = HeardBefore(k)
  BY <1>2, <1>4, <1>5, Zenon DEF InStage
<1>7. call.message = MessageOf(k)
  BY <1>4, <1>6, WritePlace
<1>8. answers = AnswersBefore(k) /\ sent = BytesBefore(k)
  <2>1. heard # Append(HeardBefore(k), MessageOf(k))
    BY <1>6, StageTypes, Zenon
  <2>. QED  BY <2>1, Zenon DEF InStage, Exchange, AnsweredBy
<1>9. Exchange(k)'
  BY <1>1, <1>6, <1>7, <1>8, Zenon DEF Exchange
<1>10. pc' \notin Granting /\ pc' # "connect" 
  BY <1>4 DEF Granting
<1>. QED  BY <1>1, <1>2, <1>9, <1>10, Zenon DEF InStage

\* An exchange with as many answers as messages, and one with a message to answer.
LEMMA ExchangeLengths ==
  ASSUME NEW k \in Stages
  PROVE  /\ \A b : AnsweredBy(k, b) => Len(answers) = Len(heard)
         /\ Exchange(k) /\ Len(answers) # Len(heard) =>
              heard = Append(HeardBefore(k), MessageOf(k)) /\ answers = AnswersBefore(k) /\ sent = BytesBefore(k)
<1>1. /\ HeardBefore(k) \in Seq({"greet", "auth", "request"}) /\ AnswersBefore(k) \in Seq(Bytes)
      /\ Len(AnswersBefore(k)) = Len(HeardBefore(k))
  BY StageTypes, Zenon
<1>2. ASSUME NEW b, AnsweredBy(k, b) PROVE Len(answers) = Len(heard)
  <2>1. heard = Append(HeardBefore(k), MessageOf(k)) /\ answers = Append(AnswersBefore(k), b)
    BY <1>2, Zenon DEF AnsweredBy
  <2>. QED  BY <1>1, <2>1
<1>3. heard = HeardBefore(k) /\ answers = AnswersBefore(k) => Len(answers) = Len(heard)
  BY <1>1
<1>. QED  BY <1>2, <1>3, Zenon DEF Exchange

\* The proxy answers a message.
LEMMA AnswerDialogue ==
  ASSUME Base, NEW k \in Stages, InStage(k), ProxyAnswers
  PROVE  InStage(k)'
<1>1. PICK b \in Answers(heard[Len(answers) + 1]) :
        PeerSends(b) /\ answers' = Append(answers, b)
  BY Zenon DEF ProxyAnswers
<1>2. /\ UNCHANGED <<auth, pc, length, address, destination>>
      /\ UNCHANGED <<run, done, heard, got>> /\ sent' = sent \o b /\ Len(answers) < Len(heard)
  BY <1>1, Zenon DEF ProxyAnswers, PeerSends
<1>3. Len(answers) # Len(heard)
  <2>1. Len(answers) \in Nat
    BY DEF Base
  <2>. QED  BY <1>2, <2>1
<1>4. heard = Append(HeardBefore(k), MessageOf(k)) /\ answers = AnswersBefore(k) /\ sent = BytesBefore(k)
  BY <1>3, ExchangeLengths, Zenon DEF InStage
<1>5. heard[Len(answers) + 1] = MessageOf(k)
  <2>1. HeardBefore(k) \in Seq({"greet", "auth", "request"}) /\ Len(AnswersBefore(k)) = Len(HeardBefore(k))
    BY StageTypes, Zenon
  <2>. QED  BY <1>4, <2>1
<1>6. b \in Bytes /\ b \in Answers(MessageOf(k)) /\ BytesBefore(k) \in Bytes
  BY <1>5, StageTypes, AnswerTypes, Zenon
<1>7. Begins(BytesBefore(k) \o b, BytesBefore(k) \o b)
  BY <1>6 DEF Begins, Bytes
<1>8. AnsweredBy(k, b)'
  BY <1>1, <1>2, <1>4, <1>7, Zenon DEF AnsweredBy, Begins
<1>9. Exchange(k)'
  BY <1>6, <1>8, Zenon DEF Exchange
<1>10. pc \notin Granting
  BY <1>3, ExchangeLengths, GrantedIsAnswered, Zenon DEF InStage
<1>. QED  BY <1>2, <1>9, <1>10, Zenon DEF InStage

\* The destination's bytes follow the proxy's answer.
LEMMA DestinationDialogue ==
  ASSUME Base, NEW k \in Stages, InStage(k), DestinationSends
  PROVE  InStage(k)'
<1>1. /\ UNCHANGED <<auth, pc, answers, length, address, destination>>
      /\ UNCHANGED <<run, done, heard, got>> /\ sent' = sent \o <<99>>
      /\ Len(answers) = Len(heard) /\ Len(answers) > 0 /\ heard[Len(heard)] = "request"
  BY Zenon DEF DestinationSends, PeerSends, clientVars
<1>2. /\ HeardBefore(k) \in Seq({"greet", "auth", "request"}) /\ BytesBefore(k) \in Bytes
      /\ AnswersBefore(k) \in Seq(Bytes) /\ Len(AnswersBefore(k)) = Len(HeardBefore(k))
      /\ Len(HeardBefore(k)) > 0 => HeardBefore(k)[Len(HeardBefore(k))] # "request"
      /\ MessageOf(k) \in {"greet", "auth", "request"}
  BY StageTypes, Zenon
<1>3. heard # HeardBefore(k)
  BY <1>1, <1>2
<1>4. ASSUME heard = Append(HeardBefore(k), MessageOf(k)) PROVE MessageOf(k) = "request" /\ answers # AnswersBefore(k)
  BY <1>1, <1>2, <1>4
<1>5. PICK b \in Answers(MessageOf(k)) : AnsweredBy(k, b)
  BY <1>3, <1>4, Zenon DEF InStage, Exchange
<1>6. MessageOf(k) = "request"
  BY <1>4, <1>5, Zenon DEF AnsweredBy
<1>7. ASSUME NEW c, c \in Bytes, Begins(BytesBefore(k) \o c, sent)
      PROVE  Begins(BytesBefore(k) \o c, sent \o <<99>>)
  <2>1. BytesBefore(k) \o c \in Bytes /\ sent \in Bytes
    BY <1>2, <1>7, ConcatBytes, Zenon DEF Base, Stream
  <2>. DEFINE s == BytesBefore(k) \o c
  <2>. HIDE DEF s
  <2>2. s \in Bytes /\ Begins(s, sent) => Begins(s, sent \o <<99>>)
    BY <2>1 DEF Bytes, Begins
  <2>. QED  BY <1>7, <2>1, <2>2, Zenon DEF s
<1>8. ASSUME NEW c \in Answers("request"), AnsweredBy(k, c)
      PROVE  AnsweredBy(k, c)'
  <2>1. c \in Bytes
    BY <1>8, AnswerTypes, Zenon
  <2>2. Begins(BytesBefore(k) \o c, sent \o <<99>>)
    BY <1>7, <1>8, <2>1, Zenon DEF AnsweredBy
  <2>3. Begins(BytesBefore(k) \o c, sent)'
    BY <1>1, <2>2, Zenon DEF Begins
  <2>. QED  BY <1>1, <1>6, <1>8, <2>3, Zenon DEF AnsweredBy
<1>9. Exchange(k)'
  BY <1>5, <1>6, <1>8, Zenon DEF Exchange
<1>10. ASSUME pc \in Granting PROVE \E c \in Answers("request") : GrantedBy(k, c)'
  <2>1. PICK c \in Answers("request") : GrantedBy(k, c)
    BY <1>10, Zenon DEF InStage
  <2>2. AnsweredBy(k, c)'
    BY <1>8, <2>1, GrantedIsAnswered, Zenon
  <2>. QED  BY <1>1, <2>1, <2>2, GrantedStays, Zenon
<1>. QED  BY <1>1, <1>9, <1>10, Zenon DEF InStage

\* What is read from position i of an answer is what stands there.
LEMMA ReadOn ==
  ASSUME NEW g \in Bytes, NEW b \in Bytes, Stream, Begins(g \o b, sent),
         NEW i \in 0..Len(b), got = g \o SubSeq(b, 1, i),
         NEW n \in 0..Len(buffer), i + n <= Len(b)
  PROVE  /\ SubSeq(buffer, 1, n) = SubSeq(b, i + 1, i + n)
         /\ got \o SubSeq(buffer, 1, n) = g \o SubSeq(b, 1, i + n)
<1>1. buffer \in Bytes /\ inflight \in Bytes /\ got \in Bytes /\ sent \in Bytes
      /\ (got \o buffer) \o inflight = sent
  BY Zenon DEF Stream, StreamIntact
<1>2. SubSeq(b, 1, i) \in Bytes /\ Len(SubSeq(b, 1, i)) = i
  BY SplitAt, Zenon
<1>3. Len(got) = Len(g) + i
  BY <1>2, ConcatBytes, ZenonT(60)
<1>4. ASSUME NEW j \in 1..n PROVE buffer[j] = b[i + j]
  <2>1. j \in 1..Len(buffer) /\ Len(buffer) \in Nat /\ i + j \in 1..Len(b) /\ Len(g) \in Nat
        /\ Len(b) \in Nat /\ Len(inflight) \in Nat
    BY <1>1, SMTT(40) DEF Bytes
  <2>2. (got \o buffer) \in Bytes /\ Len(got \o buffer) = Len(got) + Len(buffer)
    BY <1>1, ConcatBytes, Zenon
  <2>3. (got \o buffer)[Len(got) + j] = buffer[j]
    BY <1>1, <2>1, SMTT(40) DEF Bytes
  <2>4. sent[Len(got) + j] = (got \o buffer)[Len(got) + j]
    <3>1. Len(got) + j \in 1..Len(got \o buffer)
      BY <1>3, <2>1, <2>2
    <3>. DEFINE c == got \o buffer
    <3>2. c \in Bytes /\ inflight \in Bytes /\ Len(got) + j \in 1..Len(c)
      BY <1>1, <2>2, <3>1, Zenon
    <3>. HIDE DEF c
    <3>3. (c \o inflight)[Len(got) + j] = c[Len(got) + j]
      BY <3>2 DEF Bytes
    <3>. QED  BY <1>1, <3>3, Zenon DEF c
  <2>5. Len(g) + (i + j) \in 1..Len(g \o b) /\ Len(got) + j = Len(g) + (i + j)
    <3>1. Len(g \o b) = Len(g) + Len(b)
      BY ConcatBytes, Zenon
    <3>. QED  BY <1>3, <2>1, <3>1, SMTT(40)
  <2>6. sent[Len(g) + (i + j)] = (g \o b)[Len(g) + (i + j)]
    BY <2>5, Zenon DEF Begins
  <2>7. (g \o b)[Len(g) + (i + j)] = b[i + j]
    BY <2>1 DEF Bytes
  <2>. QED  BY <2>3, <2>4, <2>5, <2>6, <2>7, Zenon
<1>. DEFINE d == SubSeq(buffer, 1, n)
            e == SubSeq(b, i + 1, i + n)
<1>5. d \in Bytes /\ Len(d) = n /\ \A j \in 1..n : d[j] = buffer[j]
  <2>1. d \in Bytes /\ Len(d) = n
    BY <1>1, SplitAt, Zenon
  <2>2. \A j \in 1..n : d[j] = buffer[j]
    BY <1>1, PrefixItems, Zenon
  <2>. QED  BY <2>1, <2>2, Zenon
<1>6. e \in Bytes /\ Len(e) = n /\ \A j \in 1..n : e[j] = b[i + j]
  <2>1. Len(buffer) \in Nat
    BY <1>1 DEF Bytes
  <2>2. n \in Nat
    BY <2>1
  <2>. QED  BY <2>2, WindowItems, ZenonT(40)
<1>. HIDE DEF d, e
<1>7. d = e
  <2>1. \A j \in 1..n : d[j] = e[j]
    BY <1>4, <1>5, <1>6, Zenon
  <2>. QED  BY <1>5, <1>6, <2>1, SeqEqual DEF Bytes
<1>8. SubSeq(b, 1, i) \o e = SubSeq(b, 1, i + n)
  BY ConcatAdjacentSubSeq, SMTT(40) DEF Bytes, e
<1>9. (g \o SubSeq(b, 1, i)) \o e = g \o (SubSeq(b, 1, i) \o e)
  BY <1>2, <1>6, ConcatTwice, ZenonT(60)
<1>10. got \o d = g \o SubSeq(b, 1, i + n)
  BY <1>7, <1>8, <1>9, Zenon
<1>. QED  BY <1>7, <1>10, Zenon DEF d, e

\* Bytes beyond those of the earlier answers are bytes of an answer.
LEMMA SomeAnswer ==
  ASSUME Stream, NEW k \in Stages, Exchange(k), got = BytesBefore(k), Len(buffer) >= 1
  PROVE  \E b \in Answers(MessageOf(k)) : AnsweredBy(k, b)
<1>1. buffer \in Bytes /\ inflight \in Bytes /\ got \in Bytes /\ sent \in Bytes
      /\ (got \o buffer) \o inflight = sent
  BY Zenon DEF Stream, StreamIntact
<1>2. Len(sent) = (Len(got) + Len(buffer)) + Len(inflight)
  <2>1. got \o buffer \in Bytes /\ inflight \in Bytes /\ Len(got \o buffer) = Len(got) + Len(buffer)
    BY <1>1, ConcatBytes, Zenon
  <2>2. Len((got \o buffer) \o inflight) = Len(got \o buffer) + Len(inflight)
    BY <2>1, ConcatBytes, Zenon
  <2>. QED  BY <1>1, <2>1, <2>2, Zenon
<1>3. Len(got) \in Nat /\ Len(buffer) \in Nat /\ Len(inflight) \in Nat
  BY <1>1 DEF Bytes
<1>4. Len(sent) # Len(got)
  BY <1>2, <1>3
<1>. QED  BY <1>4, Zenon DEF Exchange

\* The answers to a request: the address has the length that its type says, and the
\* port follows it.
Shape(b) ==
  /\ b \in Bytes /\ Len(b) >= 6 /\ b[Len(b) - 1] = 7 /\ b[Len(b)] = 8
  /\ b[4] = IPV4 => Len(b) = 10
  /\ b[4] = IPV6 => Len(b) = 22
  /\ b[4] = DOMAINNAME => Len(b) = 7 + b[5]

\* The type of the address in an answer to the request determines its length.
LEMMA RequestShape ==
  ASSUME NEW b \in Answers("request")
  PROVE  Shape(b)
<1>0. Shape(EmptyDomain)
  BY DEF EmptyDomain, Shape, Bytes, IPV4, IPV6, DOMAINNAME
<1>1. Shape(OtherVersion)
  BY DEF OtherVersion, Shape, Bytes, IPV4, IPV6, DOMAINNAME
<1>2. ASSUME NEW reply \in {0, 1}, NEW reserved \in {0, 1}, NEW type \in {IPV4, DOMAINNAME, IPV6, 9},
             b = RequestAnswer(reply, reserved, type)
      PROVE  Shape(b)
  <2>. DEFINE a == AddressOf(type)
              h == <<5, reply, reserved, type>>
  <2>1. a \in Bytes
    BY AddressType, Zenon
  <2>2. h \in Bytes /\ Len(h) = 4 /\ h[4] = type
    BY DEF Bytes, IPV4, DOMAINNAME, IPV6
  <2>3. /\ type = 1 => Len(a) = 4
        /\ type = 3 => Len(a) = 3 /\ a[1] = 2
        /\ type = 4 => Len(a) = 16
        /\ type \in {1, 3, 4, 9}
    <3>1. type \in {1, 3, 4, 9}
      BY DEF IPV4, DOMAINNAME, IPV6
    <3>2. CASE type = 1
      BY <3>2 DEF AddressOf, IPV4, DOMAINNAME, IPV6
    <3>3. CASE type = 3
      BY <3>3 DEF AddressOf, IPV4, DOMAINNAME, IPV6
    <3>4. CASE type = 4
      <4>1. a = [i \in 1..16 |-> 10 + i]
        BY <3>4 DEF AddressOf, IPV4, DOMAINNAME, IPV6
      <4>2. Len([i \in 1..16 |-> 10 + i]) = 16
        OBVIOUS
      <4>. QED  BY <3>4, <4>1, <4>2
    <3>5. CASE type = 9
      BY <3>5
    <3>. QED  BY <3>1, <3>2, <3>3, <3>4, <3>5
  <2>4. b = (h \o a) \o <<7, 8>>
    BY <1>2, Zenon DEF RequestAnswer
  <2>. HIDE DEF a, h
  <2>5. h \o a \in Bytes /\ Len(h \o a) = 4 + Len(a) /\ (h \o a)[4] = type
        /\ (Len(a) >= 1 => (h \o a)[5] = a[1])
    <3>1. h \o a \in Bytes /\ Len(h \o a) = 4 + Len(a) /\ Len(a) \in Nat
      <4>1. h \o a \in Bytes /\ Len(h \o a) = Len(h) + Len(a)
        BY <2>1, <2>2, ConcatBytes, Zenon
      <4>. QED  BY <2>1, <2>2, <4>1 DEF Bytes
    <3>2. (h \o a)[4] = h[4]
      <4>1. 4 \in 1..Len(h)
        BY <2>2
      <4>. QED  BY <2>1, <2>2, <4>1, ConcatItems, Zenon
    <3>3. ASSUME Len(a) >= 1 PROVE (h \o a)[5] = a[1]
      <4>1. 1 \in 1..Len(a) /\ Len(h) + 1 = 5
        BY <2>2, <3>1, <3>3
      <4>2. (h \o a)[Len(h) + 1] = a[1]
        BY <2>1, <2>2, <4>1, ConcatItems, Zenon
      <4>. QED  BY <4>1, <4>2
    <3>. QED  BY <2>2, <3>1, <3>2, <3>3, Zenon
  <2>. DEFINE c == h \o a
  <2>6. c \in Bytes /\ Len(c) = 4 + Len(a) /\ c[4] = type /\ (Len(a) >= 1 => c[5] = a[1])
        /\ b = c \o <<7, 8>> /\ Len(a) \in Nat
    BY <2>1, <2>4, <2>5, SMTT(40) DEF Bytes
  <2>. HIDE DEF c
  <2>7. b \in Bytes /\ Len(b) = 6 + Len(a) /\ b[4] = type /\ (Len(a) >= 1 => b[5] = a[1])
        /\ b[Len(b) - 1] = 7 /\ b[Len(b)] = 8
    BY <2>6, SMTT(40) DEF Bytes
  <2>8. Len(b) >= 6
    BY <2>6, <2>7
  <2>9. /\ b[4] = 1 => Len(b) = 10
        /\ b[4] = 4 => Len(b) = 22
        /\ b[4] = 3 => Len(b) = 7 + b[5]
    <3>1. type = 3 => Len(a) >= 1 /\ a[1] = 2 /\ Len(a) = 3
      BY <2>3
    <3>2. b[4] = type /\ Len(b) = 6 + Len(a) /\ (Len(a) >= 1 => b[5] = a[1])
      BY <2>7, Zenon
    <3>3. CASE type = 1
      <4>1. Len(a) = 4 /\ 6 + 4 = 10
        BY <2>3, <3>3
      <4>2. Len(b) = 10 /\ b[4] = 1
        BY <3>2, <3>3, <4>1, Zenon
      <4>. QED  BY <4>2
    <3>4. CASE type = 4
      <4>1. Len(a) = 16 /\ 6 + 16 = 22
        BY <2>3, <3>4
      <4>2. Len(b) = 22 /\ b[4] = 4
        BY <3>2, <3>4, <4>1, Zenon
      <4>. QED  BY <4>2
    <3>5. CASE type = 3
      <4>1. Len(a) = 3 /\ Len(a) >= 1 /\ a[1] = 2 /\ 6 + 3 = 7 + 2
        BY <3>1, <3>5
      <4>2. Len(b) = 7 + b[5] /\ b[4] = 3
        BY <3>2, <3>5, <4>1, Zenon
      <4>. QED  BY <4>2
    <3>6. CASE type = 9
      BY <3>2, <3>6
    <3>. QED  BY <2>3, <3>3, <3>4, <3>5, <3>6, Zenon
  <2>. QED  BY <2>7, <2>8, <2>9, Zenon DEF Shape, IPV4, IPV6, DOMAINNAME
<1>. QED  BY <1>0, <1>1, <1>2, RequestAnswers, Zenon

\* A call returned data and the client goes on.
Moves(data) ==
  /\ Base /\ role = "proxy" /\ pc \in Calling /\ Advance(data)
  /\ run' = "out" /\ UNCHANGED <<heard, sent>> /\ got' = got \o data
  /\ CallAt(pc).kind = "read" => ReadsNext(data)
  /\ CallAt(pc).kind # "read" => data = <<>>

\* What a move does, apart from where it leads.
LEMMA MoveEffect ==
  ASSUME NEW data, Moves(data), NEW k \in Stages, InStage(k)
  PROVE  /\ pc' = After(pc, data) /\ UNCHANGED <<auth, heard, answers, sent>> /\ run' = "out"
         /\ pc # "connect" => pc \in PlacesOf(k)
         /\ pc' = Retry => InStage(k)'
<1>1. pc' = After(pc, data) /\ UNCHANGED <<auth, heard, answers, sent>> /\ run' = "out" /\ pc \in Calling
  BY Zenon DEF Moves, Advance
<1>2. pc # "connect" => pc \in Places \ {"check", "connect", "threw", "plain"}
  BY <1>1 DEF Places, Calling
<1>3. Retry \in {"check", "connect", "threw"}
  BY DEF Retry
<1>4. pc' = Retry => InStage(k)'
  BY <1>1, <1>3, LeaveDialogue, Zenon
<1>. QED  BY <1>1, <1>2, <1>4, Zenon DEF InStage

\* The client is at a place before the reply to its request.
LEMMA EnterStage ==
  ASSUME NEW k \in Stages, Exchange(k)', (k \in {"login", "member"} => auth)',
         pc' \in PlacesOf(k), pc' \in {"greet", "method", "auth", "authReply", "request", "reply"},
         got' = BytesBefore(k),
         pc' \in {"greet", "auth", "request"} => heard' = HeardBefore(k)
  PROVE  InStage(k)'
<1>1. pc' # "connect" /\ pc' \notin Granting
  BY DEF Granting
<1>. QED  BY <1>1, Zenon DEF InStage

\* The client is at a place after it.
LEMMA EnterGranting ==
  ASSUME NEW k \in Stages, Exchange(k)', (k \in {"login", "member"} => auth)',
         pc' \in PlacesOf(k), pc' \in Granting,
         NEW b \in Answers("request"), GrantedBy(k, b)'
  PROVE  InStage(k)'
<1>1. /\ pc' # "connect" /\ pc' \notin {"greet", "auth", "request"}
      /\ pc' \notin {"greet", "method", "auth", "authReply", "request", "reply"}
  BY DEF Granting
<1>. QED  BY <1>1, Zenon DEF InStage

\* Connect and the three writes lead to the next place of the exchange.
LEMMA MoveAfterWrite ==
  ASSUME NEW data, Moves(data), NEW k \in Stages, InStage(k),
         pc \in {"connect", "greet", "auth", "request"}, run # "out"
  PROVE  InStage(k)'
<1>1. /\ pc' = After(pc, data) /\ UNCHANGED <<auth, heard, answers, sent>> /\ run' = "out"
      /\ pc # "connect" => pc \in PlacesOf(k)
  BY MoveEffect, Zenon
<1>2. data = <<>> /\ got \in Bytes /\ got' = got \o data
  <2>1. CallAt(pc).kind # "read"
    BY CallPlaces, CallKinds
  <2>. QED  BY <2>1, Zenon DEF Moves, Base, Stream
<1>3. got' = got
  BY <1>2 DEF Bytes
<1>4. Exchange(k)'
  BY <1>1, Zenon DEF InStage, Exchange, AnsweredBy, Begins
<1>5. (k \in {"login", "member"} => auth)'
  BY <1>1, Zenon DEF InStage
<1>6. CASE pc = "connect"
  <2>1. k = "hello" /\ heard = <<>> /\ got = <<>>
    BY <1>6, Zenon DEF InStage
  <2>2. pc' = "greet"
    BY <1>1, <1>6 DEF After
  <2>3. pc' \in PlacesOf(k) /\ pc' \in {"greet", "method", "auth", "authReply", "request", "reply"}
    BY <2>1, <2>2, StagePlaces
  <2>4. got' = BytesBefore(k) /\ heard' = HeardBefore(k)
    BY <1>1, <1>3, <2>1, StageValues, Zenon
  <2>. QED  BY <1>4, <1>5, <2>3, <2>4, EnterStage, Zenon
<1>7. CASE pc # "connect"
  <2>1. pc \in PlacesOf(k) /\ pc \in {"greet", "auth", "request"}
    BY <1>1, <1>7
  <2>2. pc' = (IF pc = "greet" THEN "method" ELSE IF pc = "auth" THEN "authReply" ELSE "reply")
    BY <1>1, <2>1 DEF After
  <2>3. /\ pc' \in PlacesOf(k) /\ pc' \in {"greet", "method", "auth", "authReply", "request", "reply"}
        /\ pc' \notin {"greet", "auth", "request"}
    BY <2>1, <2>2, StagePlaces DEF Stages, Granting
  <2>4. pc \in {"greet", "method", "auth", "authReply", "request", "reply"}
    BY <2>1
  <2>5. got' = BytesBefore(k)
    BY <1>3, <2>4, Zenon DEF InStage
  <2>. QED  BY <1>4, <1>5, <2>3, <2>5, EnterStage, Zenon
<1>. QED  BY <1>6, <1>7

\* The answer read at the method and the authentication replies is the one answer there is.
LEMMA WholeAnswer ==
  ASSUME NEW data, Moves(data), NEW k \in {"hello", "login"}, InStage(k),
         pc \in {"method", "authReply"}
  PROVE  \E b \in Answers(MessageOf(k)) :
           /\ AnsweredBy(k, b) /\ sent = BytesBefore(k) \o b
           /\ data = b /\ got' = BytesBefore(k) \o b
<1>1. k \in Stages /\ MessageOf(k) \in {"greet", "auth"} /\ pc \in {"greet", "method", "auth", "authReply", "request", "reply"}
  BY StageValues DEF Stages
<1>2. CallAt(pc).kind = "read" /\ CallAt(pc).size = 2
  BY CallPlaces, CallKinds
<1>3. /\ Stream /\ data = SubSeq(buffer, 1, 2) /\ 2 \in 0..Len(buffer) /\ got' = got \o data
  BY <1>2, Zenon DEF Moves, ReadsNext, Base
<1>4. got = BytesBefore(k) /\ Exchange(k)
  BY <1>1, Zenon DEF InStage
<1>5. Len(buffer) >= 1
  <2>1. buffer \in Bytes
    BY <1>3, Zenon DEF Stream
  <2>. QED  BY <1>3, <2>1 DEF Bytes
<1>6. PICK b \in Answers(MessageOf(k)) : AnsweredBy(k, b)
  BY <1>1, <1>3, <1>4, <1>5, SomeAnswer, Zenon
<1>7. b \in Bytes /\ BytesBefore(k) \in Bytes
  BY <1>1, <1>6, AnswerTypes, StageTypes, Zenon
<1>8. Len(b) = 2 
  <2>1. b \in {<<5, 0>>, <<5, 2>>, <<5, 255>>, <<4, 0>>, <<1, 0>>, <<1, 1>>}
    BY <1>1, <1>6, AnswerKinds, ZenonT(60)
  <2>. QED  BY <2>1
<1>9. Begins(BytesBefore(k) \o b, sent) /\ sent = BytesBefore(k) \o b
  <2>1. MessageOf(k) # "request"
    BY <1>1
  <2>. QED  BY <1>6, <2>1, Zenon DEF AnsweredBy
<1>10. SubSeq(b, 1, 2) = b /\ SubSeq(b, 1, 0) = <<>> /\ BytesBefore(k) \o <<>> = BytesBefore(k) /\ 0 \in 0..Len(b)
       /\ 0 + 2 <= Len(b) /\ 0 + 2 = 2 /\ 0 + 1 = 1
  BY <1>7, <1>8 DEF Bytes
<1>11. got = BytesBefore(k) \o SubSeq(b, 1, 0)
  BY <1>4, <1>10, Zenon
<1>12. /\ SubSeq(buffer, 1, 2) = SubSeq(b, 0 + 1, 0 + 2)
       /\ got \o SubSeq(buffer, 1, 2) = BytesBefore(k) \o SubSeq(b, 1, 0 + 2)
  BY <1>3, <1>7, <1>9, <1>10, <1>11, ReadOn, Zenon
<1>. QED  BY <1>3, <1>6, <1>9, <1>10, <1>12, Zenon

\* Authenticate: the proxy chose a method.
LEMMA MoveAfterMethod ==
  ASSUME NEW data, Moves(data), NEW k \in Stages, InStage(k), pc = "method"
  PROVE  \E j \in Stages : InStage(j)'
<1>1. /\ pc' = After(pc, data) /\ UNCHANGED <<auth, heard, answers, sent>>
      /\ pc \in PlacesOf(k) /\ (pc' = Retry => InStage(k)')
  <2>1. pc # "connect"
    OBVIOUS
  <2>. QED  BY <2>1, MoveEffect, Zenon
<1>2. k = "hello" /\ k \in {"hello", "login"} /\ pc \in {"method", "authReply"}
  BY <1>1, StagePlaces DEF Stages, Granting
<1>3. PICK b \in Answers(MessageOf(k)) :
           /\ AnsweredBy(k, b) /\ sent = BytesBefore(k) \o b
           /\ data = b /\ got' = BytesBefore(k) \o b
  BY <1>2, WholeAnswer, Zenon
<1>4. b \in {<<5, 0>>, <<5, 2>>, <<5, 255>>, <<4, 0>>}
  BY <1>2, <1>3, StageValues, AnswerKinds, Zenon
<1>5. heard' = <<"greet">> /\ answers' = <<b>> /\ sent' = b /\ got' = b
  <2>1. heard = Append(<<>>, "greet") /\ answers = Append(<<>>, b) /\ sent = <<>> \o b /\ got' = <<>> \o b
    BY <1>2, <1>3, StageValues, Zenon DEF AnsweredBy
  <2>2. Append(<<>>, "greet") = <<"greet">> /\ Append(<<>>, b) = <<b>> /\ <<>> \o b = b
    BY <1>4
  <2>. QED  BY <1>1, <2>1, <2>2, Zenon
<1>6. pc' = IF b[1] # 5 THEN Retry ELSE IF b[2] = 2 /\ auth THEN "auth"
            ELSE IF b[2] = 0 THEN "request" ELSE Retry
  BY <1>1, <1>3 DEF After, AfterMethod, SOCKS5, USER_PASS, NOAUTH
<1>7. /\ pc' = Retry \/ (pc' = "auth" /\ auth /\ b = <<5, 2>>) \/ (pc' = "request" /\ b = <<5, 0>>)
  <2>1. CASE b = <<5, 0>>
    BY <1>6, <2>1
  <2>2. CASE b = <<5, 2>>
    <3>1. b[1] = 5 /\ b[2] = 2 /\ 2 # 0
      BY <2>2
    <3>. QED  BY <1>6, <2>2, <3>1, Zenon
  <2>3. CASE b = <<5, 255>>
    BY <1>6, <2>3
  <2>4. CASE b = <<4, 0>>
    BY <1>6, <2>4
  <2>. QED  BY <1>4, <2>1, <2>2, <2>3, <2>4, Zenon
<1>8. CASE pc' = Retry
  BY <1>1, <1>8, Zenon
<1>9. CASE pc' = "auth" /\ auth /\ b = <<5, 2>>
  <2>1. pc' \in PlacesOf("login") /\ pc' \in {"greet", "method", "auth", "authReply", "request", "reply"}
        /\ "login" \in Stages
    BY <1>9, StagePlaces DEF Stages
  <2>2. heard' = HeardBefore("login") /\ answers' = AnswersBefore("login") /\ sent' = BytesBefore("login")
        /\ got' = BytesBefore("login")
    BY <1>5, <1>9, StageValues, Zenon
  <2>3. Exchange("login")'
    BY <2>2, Zenon DEF Exchange
  <2>4. auth'
    BY <1>1, <1>9, Zenon
  <2>. QED  BY <2>1, <2>2, <2>3, <2>4, EnterStage, Zenon
<1>10. CASE pc' = "request" /\ b = <<5, 0>>
  <2>1. pc' \in PlacesOf("free") /\ pc' \in {"greet", "method", "auth", "authReply", "request", "reply"}
        /\ "free" \in Stages /\ "free" \notin {"login", "member"}
    BY <1>10, StagePlaces DEF Stages
  <2>2. heard' = HeardBefore("free") /\ answers' = AnswersBefore("free") /\ sent' = BytesBefore("free")
        /\ got' = BytesBefore("free")
    BY <1>5, <1>10, StageValues, Zenon
  <2>3. Exchange("free")'
    BY <2>2, Zenon DEF Exchange
  <2>. QED  BY <2>1, <2>2, <2>3, EnterStage, Zenon
<1>. QED  BY <1>7, <1>8, <1>9, <1>10, Zenon

\* The proxy took the credentials or refused them.
LEMMA MoveAfterAuth ==
  ASSUME NEW data, Moves(data), NEW k \in Stages, InStage(k), pc = "authReply"
  PROVE  \E j \in Stages : InStage(j)'
<1>1. /\ pc' = After(pc, data) /\ UNCHANGED <<auth, heard, answers, sent>>
      /\ pc \in PlacesOf(k) /\ (pc' = Retry => InStage(k)')
  <2>1. pc # "connect"
    OBVIOUS
  <2>. QED  BY <2>1, MoveEffect, Zenon
<1>2. k = "login" /\ k \in {"hello", "login"} /\ k \in {"login", "member"} /\ pc \in {"method", "authReply"}
  BY <1>1, StagePlaces DEF Stages, Granting
<1>3. PICK b \in Answers(MessageOf(k)) :
           /\ AnsweredBy(k, b) /\ sent = BytesBefore(k) \o b
           /\ data = b /\ got' = BytesBefore(k) \o b
  BY <1>2, WholeAnswer, Zenon
<1>4. (pc' = "request" /\ b = <<1, 0>>) \/ pc' = Retry
  <2>1. pc' = (IF data = <<1, 0>> THEN "request" ELSE Retry)
    BY <1>1 DEF After
  <2>. QED  BY <1>3, <2>1, Zenon
<1>5. CASE pc' = Retry
  BY <1>1, <1>5, Zenon
<1>6. CASE pc' = "request" /\ b = <<1, 0>>
  <2>1. pc' \in PlacesOf("member") /\ pc' \in {"greet", "method", "auth", "authReply", "request", "reply"}
        /\ "member" \in Stages
    BY <1>6, StagePlaces DEF Stages
  <2>2. heard' = Append(<<"greet">>, "auth") /\ answers' = Append(<< <<5, 2>> >>, <<1, 0>>)
        /\ sent' = <<5, 2>> \o <<1, 0>> /\ got' = <<5, 2>> \o <<1, 0>>
    BY <1>1, <1>2, <1>3, <1>6, StageValues, Zenon DEF AnsweredBy
  <2>3. /\ Append(<<"greet">>, "auth") = <<"greet", "auth">>
        /\ Append(<< <<5, 2>> >>, <<1, 0>>) = << <<5, 2>>, <<1, 0>> >>
    <3>1. <<5, 2>> \in Bytes /\ <<1, 0>> \in Bytes /\ "greet" \in Places /\ "auth" \in Places
      BY DEF Bytes, Places, Calling
    <3>. QED  BY <3>1, AppendSecond, Zenon
  <2>4. heard' = HeardBefore("member") /\ answers' = AnswersBefore("member")
        /\ sent' = BytesBefore("member") /\ got' = BytesBefore("member")
    BY <2>2, <2>3, FourBytes, StageValues, Zenon
  <2>5. Exchange("member")'
    BY <2>4, Zenon DEF Exchange
  <2>6. auth'
    BY <1>1, <1>2, Zenon DEF InStage
  <2>. QED  BY <2>1, <2>4, <2>5, <2>6, EnterStage, Zenon
<1>. QED  BY <1>4, <1>5, <1>6, Zenon

\* The reply: its first four bytes say whether the request was granted.
LEMMA MoveAfterReply ==
  ASSUME NEW data, Moves(data), NEW k \in Stages, InStage(k), pc = "reply"
  PROVE  InStage(k)'
<1>1. /\ pc' = After(pc, data) /\ UNCHANGED <<auth, heard, answers, sent>>
      /\ pc \in PlacesOf(k) /\ (pc' = Retry => InStage(k)')
  <2>1. pc # "connect"
    OBVIOUS
  <2>. QED  BY <2>1, MoveEffect, Zenon
<1>2. MessageOf(k) = "request" /\ k \in {"free", "member"}
  BY <1>1, StagePlaces, StageValues DEF Stages
<1>3. got = BytesBefore(k) /\ Exchange(k)
  <2>1. pc \in {"greet", "method", "auth", "authReply", "request", "reply"}
    OBVIOUS
  <2>. QED  BY <2>1, Zenon DEF InStage
<1>4. CallAt(pc).kind = "read" /\ CallAt(pc).size = 4
  BY CallPlaces, CallKinds
<1>5. /\ Stream /\ data = SubSeq(buffer, 1, 4) /\ 4 \in 0..Len(buffer) /\ got' = got \o data
  BY <1>4, Zenon DEF Moves, ReadsNext, Base
<1>6. Len(buffer) >= 1
  <2>1. buffer \in Bytes
    BY <1>5, Zenon DEF Stream
  <2>. QED  BY <1>5, <2>1 DEF Bytes
<1>7. PICK b \in Answers("request") : AnsweredBy(k, b)
  BY <1>2, <1>3, <1>5, <1>6, SomeAnswer, Zenon
<1>8. b \in Bytes /\ BytesBefore(k) \in Bytes /\ Len(b) >= 6
  BY <1>7, RequestShape, StageTypes, Zenon DEF Shape
<1>9. SubSeq(b, 1, 0) = <<>> /\ BytesBefore(k) \o <<>> = BytesBefore(k) /\ 0 \in 0..Len(b)
       /\ 0 + 4 <= Len(b) /\ 0 + 4 = 4 /\ 0 + 1 = 1
  BY <1>8 DEF Bytes
<1>10. got = BytesBefore(k) \o SubSeq(b, 1, 0)
  BY <1>3, <1>9, Zenon
<1>11. /\ SubSeq(buffer, 1, 4) = SubSeq(b, 0 + 1, 0 + 4)
       /\ got \o SubSeq(buffer, 1, 4) = BytesBefore(k) \o SubSeq(b, 1, 0 + 4)
  BY <1>5, <1>7, <1>8, <1>9, <1>10, ReadOn, Zenon DEF AnsweredBy
<1>12. data = SubSeq(b, 1, 4) /\ HasRead(k, b, 4)'
  BY <1>5, <1>9, <1>11, Zenon DEF HasRead
<1>13. data[1] = b[1] /\ data[2] = b[2] /\ data[3] = b[3] /\ data[4] = b[4]
  <2>1. 4 \in 0..Len(b) /\ 1 \in 1..4 /\ 2 \in 1..4 /\ 3 \in 1..4 /\ 4 \in 1..4
    BY <1>8 DEF Bytes
  <2>. QED  BY <1>8, <1>12, <2>1, PrefixItems, Zenon
<1>14. \/ pc' = Retry
       \/ /\ b[1] = 5 /\ b[2] = SUCCEEDED /\ b[3] = 0
          /\ \/ pc' = "ipv4" /\ b[4] = IPV4
             \/ pc' = "ipv6" /\ b[4] = IPV6
             \/ pc' = "length" /\ b[4] = DOMAINNAME
  <2>1. pc' = AfterReply(data)
    BY <1>1 DEF After
  <2>. QED  BY <1>13, <2>1, Zenon DEF AfterReply, SOCKS5
<1>15. ASSUME pc' # Retry PROVE InStage(k)'
  <2>1. AnsweredBy(k, b)'
    BY <1>1, <1>7, Zenon DEF AnsweredBy, Begins
  <2>2. SubSeq(b, 1, 3) = <<5, SUCCEEDED, 0>>
    <3>1. b[1] = 5 /\ b[2] = 0 /\ b[3] = 0
      BY <1>14, <1>15, Zenon DEF SUCCEEDED
    <3>2. 3 \in 0..Len(b) /\ 1 \in 1..3 /\ 2 \in 1..3 /\ 3 \in 1..3
      BY <1>8 DEF Bytes
    <3>3. /\ SubSeq(b, 1, 3) \in Bytes /\ Len(SubSeq(b, 1, 3)) = 3
          /\ SubSeq(b, 1, 3)[1] = 5 /\ SubSeq(b, 1, 3)[2] = 0 /\ SubSeq(b, 1, 3)[3] = 0
      BY <1>8, <3>1, <3>2, SplitAt, PrefixItems, Zenon
    <3>. QED  BY <3>3, ThreeBytes, Zenon DEF SUCCEEDED
  <2>3. pc' \notin {"domain", "port", "up"} /\ pc' \in Granting /\ pc' \in {"ipv4", "ipv6", "length"}
        /\ (pc' = "ipv4" => b[4] = IPV4) /\ (pc' = "ipv6" => b[4] = IPV6) /\ (pc' = "length" => b[4] = DOMAINNAME)
    BY <1>14, <1>15 DEF Granting
  <2>4. GrantedBy(k, b)'
    BY <1>12, <2>1, <2>2, <2>3 DEF GrantedBy
  <2>5. pc' \in PlacesOf(k)
    BY <1>2, <2>3, StagePlaces, Zenon
  <2>6. Exchange(k)' /\ (k \in {"login", "member"} => auth)'
    BY <1>1, <1>2, <1>7, <2>1, Zenon DEF Exchange, InStage
  <2>. QED  BY <1>7, <2>3, <2>4, <2>5, <2>6, EnterGranting, Zenon
<1>. QED  BY <1>1, <1>15, Zenon

\* The address without its length byte, if its type says it has one.
LEMMA NamedParts ==
  ASSUME NEW b, Shape(b)
  PROVE  /\ b[4] = DOMAINNAME => Named(b) = SubSeq(b, 6, Len(b) - 2)
         /\ b[4] # DOMAINNAME => Named(b) = SubSeq(b, 5, Len(b) - 2)
<1>. DEFINE r == SubSeq(b, 5, Len(b) - 2)
            s == SubSeq(b, 6, Len(b) - 2)
<1>1. b \in Bytes /\ Len(b) \in Nat /\ Len(b) >= 6
  BY DEF Shape, Bytes
<1>2. ASSUME b[4] = DOMAINNAME PROVE Tail(r) = s
  <2>1. b[5] \in Nat /\ Len(b) = 7 + b[5]
    <3>1. Len(b) = 7 + b[5]
      BY <1>2, Zenon DEF Shape
    <3>2. b[5] \in Nat
      BY <1>1 DEF Bytes
    <3>. QED  BY <3>1, <3>2
  <2>2. r \in Bytes /\ Len(r) = Len(b) - 6 /\ \A i \in 1..Len(b) - 6 : r[i] = b[i + 4]
    <3>1. 5 \in 1..Len(b) /\ Len(b) - 2 \in 0..Len(b) /\ 5 <= (Len(b) - 2) + 1
          /\ ((Len(b) - 2) - 5) + 1 = Len(b) - 6 /\ 5 - 1 = 4
      BY <1>1
    <3>2. /\ r \in Bytes /\ Len(r) = ((Len(b) - 2) - 5) + 1
          /\ \A i \in 1..((Len(b) - 2) - 5) + 1 : r[i] = b[i + (5 - 1)]
      BY <1>1, <3>1, PartItems, Zenon
    <3>. HIDE DEF r
    <3>. QED  BY <3>1, <3>2, Zenon
  <2>3. s \in Bytes /\ Len(s) = Len(b) - 7 /\ \A i \in 1..Len(b) - 7 : s[i] = b[i + 5]
    <3>1. 6 \in 1..Len(b) /\ Len(b) - 2 \in 0..Len(b) /\ 6 <= (Len(b) - 2) + 1
          /\ ((Len(b) - 2) - 6) + 1 = Len(b) - 7 /\ 6 - 1 = 5
      BY <1>1, <2>1
    <3>2. /\ s \in Bytes /\ Len(s) = ((Len(b) - 2) - 6) + 1
          /\ \A i \in 1..((Len(b) - 2) - 6) + 1 : s[i] = b[i + (6 - 1)]
      BY <1>1, <3>1, PartItems, Zenon
    <3>. HIDE DEF s
    <3>. QED  BY <3>1, <3>2, Zenon
  <2>. HIDE DEF r, s
  <2>4. Len(b) - 6 >= 1
    BY <2>1
  <2>5. Tail(r) \in Bytes /\ Len(Tail(r)) = Len(b) - 7 /\ \A i \in 1..Len(b) - 7 : Tail(r)[i] = r[i + 1]
    BY <1>1, <2>2, <2>4 DEF Bytes
  <2>6. \A i \in 1..Len(b) - 7 : Tail(r)[i] = s[i]
    <3>1. ASSUME NEW i \in 1..Len(b) - 7 PROVE Tail(r)[i] = s[i]
      <4>1. i + 1 \in 1..Len(b) - 6 /\ (i + 1) + 4 = i + 5
        BY <1>1
      <4>. QED  BY <2>2, <2>3, <2>5, <4>1, Zenon
    <3>. QED  BY <3>1
  <2>. QED  BY <2>3, <2>5, <2>6, SeqEqual DEF Bytes
<1>. QED  BY <1>2, Zenon DEF Named

\* What a read of the reply's remaining parts returns.
LEMMA MoveInAnswer ==
  ASSUME NEW data, Moves(data), NEW k \in Stages, NEW b \in Answers("request"), AnsweredBy(k, b),
         NEW i \in Nat, HasRead(k, b, i), CallAt(pc).kind = "read",
         NEW n \in Nat, CallAt(pc).size = n, i + n <= Len(b)
  PROVE  data = SubSeq(b, i + 1, i + n) /\ HasRead(k, b, i + n)'
<1>1. Stream /\ n \in 0..Len(buffer) /\ data = SubSeq(buffer, 1, n) /\ got' = got \o data
  BY Zenon DEF Moves, ReadsNext, Base
<1>2. b \in Bytes /\ BytesBefore(k) \in Bytes
  BY RequestShape, StageTypes, Zenon DEF Shape
<1>3. Begins(BytesBefore(k) \o b, sent) /\ got = BytesBefore(k) \o SubSeq(b, 1, i)
  BY Zenon DEF AnsweredBy, HasRead
<1>4. i \in 0..Len(b)
  BY <1>2 DEF Bytes
<1>5. /\ SubSeq(buffer, 1, n) = SubSeq(b, i + 1, i + n)
      /\ got \o SubSeq(buffer, 1, n) = BytesBefore(k) \o SubSeq(b, 1, i + n)
  BY <1>1, <1>2, <1>3, <1>4, ReadOn, Zenon
<1>. QED  BY <1>1, <1>5, Zenon DEF HasRead

\* Reading the reply's remaining parts: the client stays in the exchange and the answer
\* stays the same.
LEMMA MoveGranting ==
  ASSUME NEW data, Moves(data), NEW k \in Stages, InStage(k), pc \in Granting
  PROVE  InStage(k)'
<1>1. /\ pc' = After(pc, data) /\ UNCHANGED <<auth, heard, answers, sent>>
      /\ pc \in PlacesOf(k)
  <2>1. pc # "connect"
    BY DEF Granting
  <2>. QED  BY <2>1, MoveEffect, Zenon
<1>2. PICK b \in Answers("request") : GrantedBy(k, b)
  BY Zenon DEF InStage
<1>3. MessageOf(k) = "request" /\ k \in {"free", "member"}
  BY <1>1, StagePlaces, StageValues DEF Stages, Granting
<1>4. AnsweredBy(k, b) /\ Shape(b) /\ SubSeq(b, 1, 3) = <<5, SUCCEEDED, 0>>
  <2>1. SubSeq(b, 1, 3) = <<5, SUCCEEDED, 0>>
    BY <1>2 DEF GrantedBy
  <2>. QED  BY <1>2, <2>1, GrantedIsAnswered, RequestShape, Zenon
<1>5. AnsweredBy(k, b)'
  BY <1>1, <1>4, Zenon DEF AnsweredBy, Begins
<1>6. ASSUME pc' \in Granting, GrantedBy(k, b)' PROVE InStage(k)'
  <2>1. pc' \in PlacesOf(k)
    BY <1>3, <1>6, StagePlaces, Zenon
  <2>2. Exchange(k)' /\ (k \in {"login", "member"} => auth)'
    BY <1>1, <1>3, <1>5, Zenon DEF Exchange, InStage
  <2>. QED  BY <1>2, <1>6, <2>1, <2>2, EnterGranting, Zenon
<1>7. b \in Bytes /\ Len(b) \in Nat /\ Len(b) >= 6
  BY <1>4 DEF Shape, Bytes
<1>8. ASSUME pc' = "port", HasRead(k, b, Len(b) - 2)', address' = Named(b) PROVE InStage(k)'
  <2>1. pc' \in Granting
    BY <1>8 DEF Granting
  <2>2. GrantedBy(k, b)'
    BY <1>4, <1>5, <1>8 DEF GrantedBy
  <2>. QED  BY <1>6, <2>1, <2>2, Zenon
<1>9. CASE pc \in {"ipv4", "ipv6"}
  <2>1. pc' = "port" /\ address' = data
    <3>1. address' = data
      BY <1>9 DEF Moves, Advance
    <3>. QED  BY <1>1, <1>9, <3>1 DEF After
  <2>2. HasRead(k, b, 4) /\ b[4] # DOMAINNAME
    BY <1>2, <1>9 DEF GrantedBy, IPV4, IPV6, DOMAINNAME
  <2>3. PICK n \in Nat : CallAt(pc).kind = "read" /\ CallAt(pc).size = n /\ 4 + n = Len(b) - 2 /\ 4 + n <= Len(b)
    <3>1. CASE pc = "ipv4"
      <4>1. b[4] = IPV4
        BY <1>2, <3>1 DEF GrantedBy
      <4>2. Len(b) = 10
        BY <1>4, <4>1, Zenon DEF Shape
      <4>3. CallAt(pc).kind = "read" /\ CallAt(pc).size = 4
        BY <3>1, CallPlaces, CallKinds
      <4>. QED  BY <4>2, <4>3
    <3>2. CASE pc = "ipv6"
      <4>1. b[4] = IPV6
        BY <1>2, <3>2 DEF GrantedBy
      <4>2. Len(b) = 22
        BY <1>4, <4>1, Zenon DEF Shape
      <4>3. CallAt(pc).kind = "read" /\ CallAt(pc).size = 16
        BY <3>2, CallPlaces, CallKinds
      <4>. QED  BY <4>2, <4>3
    <3>. QED  BY <1>9, <3>1, <3>2
  <2>4. data = SubSeq(b, 4 + 1, 4 + n) /\ HasRead(k, b, 4 + n)'
    BY <1>2, <1>4, <2>2, <2>3, MoveInAnswer
  <2>5. data = SubSeq(b, 5, Len(b) - 2) /\ HasRead(k, b, Len(b) - 2)'
    BY <2>3, <2>4
  <2>6. address' = Named(b)
    BY <1>4, <2>1, <2>2, <2>5, NamedParts, Zenon
  <2>. QED  BY <1>8, <2>1, <2>5, <2>6, Zenon
<1>10. CASE pc = "domain"
  <2>1. pc' = "port" /\ address' = data
    <3>1. address' = data
      BY <1>10 DEF Moves, Advance
    <3>. QED  BY <1>1, <1>10, <3>1 DEF After
  <2>2. HasRead(k, b, 5) /\ b[4] = DOMAINNAME /\ length = b[5]
    BY <1>2, <1>10 DEF GrantedBy
  <2>3. b[5] \in Nat /\ Len(b) = 7 + b[5]
    <3>1. Len(b) = 7 + b[5]
      BY <1>4, <2>2, Zenon DEF Shape
    <3>2. b[5] \in Nat
      BY <1>7 DEF Bytes
    <3>. QED  BY <3>1, <3>2
  <2>4. CallAt(pc).kind = "read" /\ CallAt(pc).size = b[5]
    BY <1>10, <2>2, CallPlaces, CallKinds
  <2>5. 5 + b[5] = Len(b) - 2 /\ 5 + b[5] <= Len(b) /\ 5 + 1 = 6
    BY <2>3
  <2>6. data = SubSeq(b, 5 + 1, 5 + b[5]) /\ HasRead(k, b, 5 + b[5])'
    BY <1>2, <1>4, <2>2, <2>3, <2>4, <2>5, MoveInAnswer
  <2>7. data = SubSeq(b, 6, Len(b) - 2) /\ HasRead(k, b, Len(b) - 2)'
    BY <2>5, <2>6
  <2>8. address' = Named(b)
    BY <1>4, <2>1, <2>2, <2>7, NamedParts, Zenon
  <2>. QED  BY <1>8, <2>1, <2>7, <2>8, Zenon
<1>11. CASE pc = "length"
  <2>1. pc' = "domain" /\ length' = data[1]
    <3>1. length' = data[1]
      BY <1>11 DEF Moves, Advance
    <3>. QED  BY <1>1, <1>11, <3>1 DEF After
  <2>2. HasRead(k, b, 4) /\ b[4] = DOMAINNAME
    BY <1>2, <1>11 DEF GrantedBy
  <2>3. CallAt(pc).kind = "read" /\ CallAt(pc).size = 1 /\ 4 + 1 <= Len(b) /\ 4 + 1 = 5
    BY <1>7, <1>11, CallPlaces, CallKinds
  <2>4. data = SubSeq(b, 4 + 1, 4 + 1) /\ HasRead(k, b, 4 + 1)'
    BY <1>2, <1>4, <2>2, <2>3, MoveInAnswer
  <2>5. data = SubSeq(b, 5, 5) /\ HasRead(k, b, 5)'
    BY <2>3, <2>4
  <2>6. length' = b[5]
    <3>1. SubSeq(b, 5, 5)[1] = b[5]
      BY <1>7 DEF Bytes
    <3>. QED  BY <2>1, <2>5, <3>1, Zenon
  <2>7. GrantedBy(k, b)'
    BY <1>4, <1>5, <2>1, <2>2, <2>5, <2>6 DEF GrantedBy
  <2>8. pc' \in Granting
    BY <2>1 DEF Granting
  <2>. QED  BY <1>6, <2>7, <2>8, Zenon
<1>12. CASE pc = "port"
  <2>1. pc' = "up" /\ destination' = [address |-> address, port |-> Port(data)]
    <3>1. destination' = [address |-> address, port |-> Port(data)]
      BY <1>12 DEF Moves, Advance
    <3>. QED  BY <1>1, <1>12, <3>1 DEF After
  <2>2. HasRead(k, b, Len(b) - 2) /\ address = Named(b)
    BY <1>2, <1>12 DEF GrantedBy
  <2>3. CallAt(pc).kind = "read" /\ CallAt(pc).size = 2
    BY <1>12, CallPlaces, CallKinds
  <2>4. Len(b) - 2 \in Nat /\ (Len(b) - 2) + 2 = Len(b) /\ (Len(b) - 2) + 2 <= Len(b)
        /\ (Len(b) - 2) + 1 = Len(b) - 1
    BY <1>7
  <2>5. data = SubSeq(b, (Len(b) - 2) + 1, (Len(b) - 2) + 2) /\ HasRead(k, b, (Len(b) - 2) + 2)'
    BY <1>2, <1>4, <2>2, <2>3, <2>4, MoveInAnswer
  <2>6. data = SubSeq(b, Len(b) - 1, Len(b)) /\ HasRead(k, b, Len(b))'
    BY <2>4, <2>5
  <2>7. Port(data) = 1800
    <3>1. SubSeq(b, Len(b) - 1, Len(b))[1] = b[Len(b) - 1] /\ SubSeq(b, Len(b) - 1, Len(b))[2] = b[Len(b)]
      BY <1>7 DEF Bytes
    <3>2. data[1] = 7 /\ data[2] = 8
      BY <1>4, <2>6, <3>1, Zenon DEF Shape
    <3>. QED  BY <3>2 DEF Port
  <2>8. destination' = [address |-> Named(b), port |-> 1800]
    BY <2>1, <2>2, <2>7
  <2>9. GrantedBy(k, b)'
    BY <1>4, <1>5, <2>1, <2>6, <2>8 DEF GrantedBy
  <2>10. pc' \in Granting
    BY <2>1 DEF Granting
  <2>. QED  BY <1>6, <2>9, <2>10, Zenon
<1>13. pc # "up"
  BY DEF Moves, Calling
<1>. QED  BY <1>9, <1>10, <1>11, <1>12, <1>13 DEF Granting

\* A call that returns leads from an exchange into the same or the next one.
LEMMA MoveDialogue ==
  ASSUME NEW data, Moves(data), NEW k \in Stages, InStage(k),
         pc \in {"connect", "greet", "auth", "request"} => run # "out"
  PROVE  \E j \in Stages : InStage(j)'
<1>1. pc \in {"connect", "greet", "auth", "request"} \/ pc \in {"method", "authReply", "reply"} \/ pc \in Granting
  <2>1. pc \in Calling
    BY Zenon DEF Moves
  <2>. QED  BY <2>1 DEF Calling, Granting
<1>. QED
  BY <1>1, MoveAfterWrite, MoveAfterMethod, MoveAfterAuth, MoveAfterReply, MoveGranting, Zenon

\* The calls that return are moves.
LEMMA BufferedMoves ==
  ASSUME Base, role = "proxy", CallFromBuffer
  PROVE  /\ Moves(SubSeq(buffer, 1, CallAt(pc).size))
         /\ pc \notin {"connect", "greet", "auth", "request"}
<1>1. ReadsNext(SubSeq(buffer, 1, CallAt(pc).size)) /\ pc \in Calling
  BY BufferedReads, Zenon
<1>2. CallAt(pc).kind = "read"
  BY Zenon DEF CallFromBuffer
<1>3. /\ Advance(SubSeq(buffer, 1, CallAt(pc).size)) /\ run' = "out" /\ UNCHANGED <<heard, sent>>
      /\ got' = got \o SubSeq(buffer, 1, CallAt(pc).size)
  BY Zenon DEF CallFromBuffer, ReadBuffered
<1>4. pc \notin {"connect", "greet", "auth", "request"}
  BY <1>2, CallPlaces, CallKinds
<1>. QED  BY <1>1, <1>2, <1>3, <1>4, Zenon DEF Moves

\* A call that returns moves the handshake on.
LEMMA ReturnMoves ==
  ASSUME Base, Returns
  PROVE  Moves(Taken) /\ run # "out"
<1>1. pc \in Calling /\ call = CallAt(pc) /\ (call.kind = "read" => ReadsNext(Taken))
  BY ReturnReads, Zenon
<1>2. /\ role = "proxy" /\ Advance(Taken) /\ run # "out" /\ run' = "out" /\ UNCHANGED <<heard, sent>>
      /\ got' = got \o Taken
  BY Zenon DEF Returns, Finish
<1>3. CallAt(pc).kind # "read" => Taken = <<>>
  <2>1. CallAt(pc).kind # "line"
    BY CallAtType, Zenon DEF Base, Control
  <2>. QED  BY <1>1, <2>1 DEF Taken
<1>. QED  BY <1>1, <1>2, <1>3, Zenon DEF Moves

\* The handshake begins with the greeting.
LEMMA InitDialogue == Init => Dialogue
<1>. SUFFICES ASSUME Init, role = "proxy" PROVE InStage("hello")
  BY DEF Dialogue, Stages
<1>1. pc = "check" /\ heard = <<>> /\ answers = <<>> /\ sent = <<>>
  BY Zenon DEF Init, SocketInit
<1>2. Exchange("hello")
  BY <1>1, StageValues, Zenon DEF Exchange
<1>3. /\ pc \notin Places \ {"check", "connect", "threw", "plain"} /\ pc # "connect"
      /\ pc \notin {"greet", "auth", "request"} /\ pc \notin Granting
      /\ pc \notin {"greet", "method", "auth", "authReply", "request", "reply"}
      /\ "hello" \notin {"login", "member"}
  BY <1>1 DEF Granting
<1>. QED  BY <1>2, <1>3, Zenon DEF InStage

\* Every step of client, proxy and network keeps the handshake in one of its exchanges.
LEMMA StepDialogue == Base /\ Dialogue /\ [Next]_vars => Dialogue'
<1>. SUFFICES ASSUME Base, Dialogue, [Next]_vars, role' = "proxy"
              PROVE  \E k \in Stages : InStage(k)'
  BY DEF Dialogue
<1>1. role = "proxy"
  BY Zenon DEF Next, Client, vars, clientVars, CheckLengths, Call, CallFromBuffer, Returns, Throws,
       PlainReturns, PlainCall, TimesOut, Environment, ProxyAnswers, DestinationSends, PlainPeer, Advance
<1>2. PICK k \in Stages : InStage(k)
  BY <1>1, Zenon DEF Dialogue
<1>3. role # "plain" /\ pc # "plain"
  <2>1. role # "plain"
    BY <1>1
  <2>. QED  BY <2>1, Zenon DEF Base, Control
<1>4. CASE Call
  <2>1. Start(CallAt(pc)) /\ run = "out" /\ UNCHANGED <<role, auth, pc, length, address, destination, calls>>
    BY <1>4, Zenon DEF Call, Start
  <2>2. CASE pc = "connect"
    <3>1. CallAt(pc).kind \in {"connect", "accept"}
      BY <2>2, CallPlaces, CallKinds
    <3>2. heard' = <<>> /\ sent' = <<>> /\ got' = <<>>
      BY <2>1, <3>1, Zenon DEF Start, NewSocket
    <3>3. answers' = <<>> /\ pc' = "connect"
      BY <1>4, <2>1, <2>2, Zenon DEF Call
    <3>4. "hello" \in Stages
      BY DEF Stages
    <3>. QED  BY <2>2, <3>2, <3>3, <3>4, ConnectDialogue, Zenon
  <2>3. CASE pc # "connect"
    <3>1. CallAt(pc).kind \notin {"connect", "accept"}
      BY <2>3, CallAtType, Zenon DEF Base, Control
    <3>2. UNCHANGED <<heard, sent, got>>
      BY <2>1, <3>1, Zenon DEF Start, connection
    <3>3. answers' = answers
      BY <1>4, <2>3, Zenon DEF Call
    <3>. QED  BY <1>2, <2>1, <2>3, <3>2, <3>3, QuietDialogue, Zenon
  <2>. QED  BY <2>2, <2>3
<1>5. CASE CallFromBuffer
  BY <1>1, <1>2, <1>5, BufferedMoves, MoveDialogue, Zenon
<1>6. CASE Returns
  BY <1>2, <1>6, ReturnMoves, MoveDialogue, Zenon
<1>7. CASE Throws
  <2>1. UNCHANGED <<auth, heard, answers, sent>> /\ run' = "out" /\ pc' \in {"threw", Retry}
    BY <1>7, Zenon DEF Throws, Finish
  <2>2. pc' \in {"check", "connect", "threw"}
    BY <2>1 DEF Retry
  <2>. QED  BY <1>2, <2>1, <2>2, LeaveDialogue, Zenon
<1>8. CASE CheckLengths
  <2>1. UNCHANGED <<auth, heard, answers, sent, run>> /\ pc = "check" /\ pc' \in {"connect", "threw"}
    BY <1>8, Zenon DEF CheckLengths, socketVars
  <2>2. pc' \in {"check", "connect", "threw"} /\ CallAt(pc) = NoCall
    BY <2>1, CallPlaces
  <2>3. run' = "out"
    BY <1>1, <2>1, <2>2, Zenon DEF Base, Control
  <2>. QED  BY <1>2, <2>1, <2>2, <2>3, LeaveDialogue, Zenon
<1>9. CASE Environment /\ Written
  BY <1>1, <1>2, <1>9, WrittenDialogue, Zenon DEF Environment, clientVars
<1>10. CASE TimesOut \/ (Environment /\ ~ Written) \/ UNCHANGED vars
  <2>1. UNCHANGED <<auth, pc, heard, answers, sent, got, length, address, destination>>
    BY <1>10, Zenon DEF TimesOut, Environment, vars, socketVars, clientVars, Timeout, Connected, Accepted,
         Fails, PeerCloses, Arrive, connection
  <2>2. (run' = "out" <=> run = "out") /\ (run # "out" /\ done = "ok" => done' = "ok")
    <3>1. CASE TimesOut
      <4>1. run = "timed" /\ run' = "drain"
            /\ done' = (IF done = "pending" /\ call.kind # "accept" THEN "error" ELSE done)
        BY <3>1, Zenon DEF TimesOut, Timeout
      <4>. QED  BY <4>1
    <3>2. CASE Environment /\ ~ Written
      <4>1. run' = run
        BY <3>2, Zenon DEF Environment, Connected, Accepted, Fails, PeerCloses, Arrive
      <4>2. done' = done \/ done = "pending"
        BY <3>2, Zenon DEF Environment, Connected, Accepted, Fails, PeerCloses, Arrive, InProgress
      <4>. QED  BY <4>1, <4>2
    <3>3. CASE UNCHANGED vars
      BY <3>3, Zenon DEF vars, socketVars
    <3>. QED  BY <1>10, <3>1, <3>2, <3>3, Zenon
  <2>. QED  BY <1>2, <2>1, <2>2, QuietDialogue, Zenon
<1>11. CASE ProxyAnswers
  BY <1>2, <1>11, AnswerDialogue, Zenon
<1>12. CASE DestinationSends
  BY <1>2, <1>12, DestinationDialogue, Zenon
<1>13. ~ PlainReturns /\ ~ PlainCall /\ ~ PlainPeer
  BY <1>3, Zenon DEF PlainReturns, PlainCall, PlainPeer
<1>. QED
  BY <1>4, <1>5, <1>6, <1>7, <1>8, <1>9, <1>10, <1>11, <1>12, <1>13, Zenon DEF Next, Client

\* The handshake is in one of its exchanges in every state.
LEMMA AlwaysDialogue == Spec => [](Base /\ Dialogue)
<1>. QED  BY InitBase, StepBase, InitDialogue, StepDialogue, PTL DEF Spec

\* What Append makes of the messages and the answers before an exchange.
LEMMA StageAppends ==
  /\ Append(HeardBefore("hello"), "greet") = <<"greet">>
  /\ Append(HeardBefore("login"), "auth") = <<"greet", "auth">>
  /\ Append(HeardBefore("free"), "request") = <<"greet", "request">>
  /\ Append(HeardBefore("member"), "request") = <<"greet", "auth", "request">>
<1>1. /\ Append(<<>>, "greet") = <<"greet">>
      /\ Append(<<"greet">>, "auth") = <<"greet", "auth">>
      /\ Append(<<"greet">>, "request") = <<"greet", "request">>
      /\ Append(<<"greet", "auth">>, "request") = <<"greet", "auth", "request">>
  <2>1. Append(<<>>, "greet") = <<"greet">>
    OBVIOUS
  <2>2. "greet" \in Places /\ "auth" \in Places /\ "request" \in Places
    BY DEF Places, Calling
  <2>. QED  BY <2>1, <2>2, AppendSecond, AppendThird, Zenon
<1>. QED  BY <1>1, StageValues, Zenon

\* An answer added at the end leaves the earlier ones.
LEMMA EarlierAnswers ==
  ASSUME NEW k \in Stages, k # "hello", NEW b \in Bytes
  PROVE  /\ Append(AnswersBefore(k), b)[1] = AnswersBefore(k)[1]
         /\ k = "member" => Append(AnswersBefore(k), b)[2] = AnswersBefore(k)[2]
         /\ Last(Append(AnswersBefore(k), b)) = b
<1>1. AnswersBefore(k) \in Seq(Bytes)
  BY StageTypes, Zenon
<1>2. Len(AnswersBefore(k)) = IF k = "member" THEN 2 ELSE 1
  BY StageValues DEF Stages
<1>. DEFINE a == AnswersBefore(k)
<1>. HIDE DEF a
<1>3. a \in Seq(Bytes) /\ Len(a) = IF k = "member" THEN 2 ELSE 1
  BY <1>1, <1>2, Zenon DEF a
<1>4. /\ Len(Append(a, b)) = Len(a) + 1 /\ Append(a, b)[Len(a) + 1] = b
      /\ \A i \in 1..Len(a) : Append(a, b)[i] = a[i]
  BY <1>3, AppendItems, ZenonT(40)
<1>5. 1 \in 1..Len(a) /\ (k = "member" => 2 \in 1..Len(a))
  BY <1>3
<1>. QED  BY <1>4, <1>5, Zenon DEF a, Last

\* Socks5Proxy sends credentials only to a proxy that asked for them, and its request only
\* to one that asked for none or took them: over any pieces the answers arrive in, after
\* any timeouts and attempts, and whatever the proxy answers.
THEOREM HandshakeKeepsOrder == Spec => []HandshakeInOrder
<1>1. Base /\ Dialogue => HandshakeInOrder
  <2>. SUFFICES ASSUME Dialogue, role = "proxy"
                PROVE  \/ heard \in {<<>>, <<"greet">>}
                       \/ heard = <<"greet", "request">> /\ answers[1] = <<5, 0>>
                       \/ heard = <<"greet", "auth">> /\ auth /\ answers[1] = <<5, 2>>
                       \/ heard = <<"greet", "auth", "request">> /\ auth
                            /\ answers[1] = <<5, 2>> /\ answers[2] = <<1, 0>>
    BY Zenon DEF HandshakeInOrder, NOAUTH, USER_PASS
  <2>1. PICK k \in Stages : InStage(k)
    BY Zenon DEF Dialogue
  <2>2. /\ heard = HeardBefore(k) \/ heard = Append(HeardBefore(k), MessageOf(k))
        /\ answers = AnswersBefore(k) \/ \E b \in Answers(MessageOf(k)) : answers = Append(AnswersBefore(k), b)
    BY <2>1, Zenon DEF InStage, Exchange, AnsweredBy
  <2>3. k = "hello" => heard \in {<<>>, <<"greet">>}
    BY <2>2, StageValues, StageAppends, Zenon
  <2>4. k # "hello" =>
          answers[1] = AnswersBefore(k)[1] /\ (k = "member" => answers[2] = AnswersBefore(k)[2])
    BY <2>2, EarlierAnswers, StageTypes, AnswerTypes, Zenon
  <2>5. << <<5, 2>> >>[1] = <<5, 2>> /\ << <<5, 0>> >>[1] = <<5, 0>>
        /\ << <<5, 2>>, <<1, 0>> >>[1] = <<5, 2>> /\ << <<5, 2>>, <<1, 0>> >>[2] = <<1, 0>>
    OBVIOUS
  <2>6. CASE k = "login"
    <3>1. k # "hello" /\ k \in {"login", "member"}
      BY <2>6
    <3>. QED  BY <2>1, <2>2, <2>4, <2>5, <2>6, <3>1, StageValues, StageAppends, Zenon DEF InStage
  <2>7. CASE k = "free"
    <3>1. k # "hello"
      BY <2>7
    <3>. QED  BY <2>2, <2>4, <2>5, <2>7, <3>1, StageValues, StageAppends, Zenon
  <2>8. CASE k = "member"
    <3>1. k # "hello" /\ k \in {"login", "member"}
      BY <2>8
    <3>. QED  BY <2>1, <2>2, <2>4, <2>5, <2>8, <3>1, StageValues, StageAppends, Zenon DEF InStage
  <2>. QED  BY <2>3, <2>6, <2>7, <2>8, Zenon DEF Stages
<1>. QED  BY <1>1, AlwaysDialogue, PTL

\* A connection that Socks5Proxy reports as established was granted in this attempt: every
\* message was answered and accepted, the destination is the one the proxy named, and
\* exactly the proxy's answers were consumed, so that the destination's own bytes, which
\* may arrive in one piece with them, are left for the caller.
THEOREM EstablishedWasGranted == Spec => []EstablishedMeansGranted
<1>1. Base /\ Dialogue => EstablishedMeansGranted
  <2>. SUFFICES ASSUME Base, Dialogue, pc = "up"
                PROVE  /\ Len(answers) = Len(heard)
                       /\ answers[1] \in {<<5, NOAUTH>>, <<5, USER_PASS>>}
                       /\ SubSeq(Last(answers), 1, 3) = <<5, SUCCEEDED, 0>>
                       /\ got = FlattenSeq(answers)
                       /\ destination.port = 1800
                       /\ destination.address = Named(Last(answers))
    BY Zenon DEF EstablishedMeansGranted, Named
  <2>1. role = "proxy"
    <3>1. pc # "plain"
      OBVIOUS
    <3>. QED  BY <3>1, Zenon DEF Base, Control
  <2>2. PICK k \in Stages : InStage(k)
    BY <2>1, Zenon DEF Dialogue
  <2>3. pc \in Granting /\ pc \in Places \ {"check", "connect", "threw", "plain"}
    BY DEF Granting, Places
  <2>4. k \in {"free", "member"} /\ k # "hello"
    <3>1. pc \in PlacesOf(k)
      BY <2>2, <2>3, Zenon DEF InStage
    <3>. QED  BY <3>1, StagePlaces DEF Stages
  <2>5. PICK b \in Answers("request") : GrantedBy(k, b)
    BY <2>2, <2>3, Zenon DEF InStage
  <2>6. AnsweredBy(k, b) /\ b \in Bytes
    BY <2>5, GrantedIsAnswered, RequestShape, Zenon DEF Shape
  <2>7. /\ SubSeq(b, 1, 3) = <<5, SUCCEEDED, 0>> /\ HasRead(k, b, Len(b))
        /\ destination = [address |-> Named(b), port |-> 1800]
    BY <2>5 DEF GrantedBy
  <2>8. answers = Append(AnswersBefore(k), b) /\ Len(answers) = Len(heard)
    BY <2>6, ExchangeLengths, Zenon DEF AnsweredBy
  <2>9. Last(answers) = b /\ answers[1] = AnswersBefore(k)[1]
    BY <2>4, <2>6, <2>8, EarlierAnswers, Zenon
  <2>10. answers[1] \in {<<5, 0>>, <<5, 2>>}
    <3>1. << <<5, 0>> >>[1] = <<5, 0>> /\ << <<5, 2>>, <<1, 0>> >>[1] = <<5, 2>>
      OBVIOUS
    <3>. QED  BY <2>4, <2>9, <3>1, StageValues, Zenon
  <2>11. got = BytesBefore(k) \o b
    <3>1. SubSeq(b, 1, Len(b)) = b
      BY <2>6 DEF Bytes
    <3>. QED  BY <2>7, <3>1, Zenon DEF HasRead
  <2>12. FlattenSeq(answers) = BytesBefore(k) \o b
    <3>1. <<5, 0>> \in Bytes /\ <<5, 2>> \in Bytes /\ <<1, 0>> \in Bytes
      BY DEF Bytes
    <3>2. CASE k = "free"
      <4>1. answers = << <<5, 0>>, b >>
        BY <2>6, <2>8, <3>1, <3>2, StageValues, AppendSecond, Zenon
      <4>. QED  BY <2>6, <3>1, <3>2, <4>1, StageValues, FlattenTwo, Zenon
    <3>3. CASE k = "member"
      <4>1. answers = << <<5, 2>>, <<1, 0>>, b >>
        BY <2>6, <2>8, <3>1, <3>3, StageValues, AppendThird, Zenon
      <4>2. FlattenSeq(<< <<5, 2>>, <<1, 0>>, b >>) = (<<5, 2>> \o <<1, 0>>) \o b
        BY <2>6, <3>1, FlattenThree, Zenon
      <4>3. BytesBefore(k) = <<5, 2>> \o <<1, 0>>
        BY <3>3, StageValues, FourBytes, Zenon
      <4>. QED  BY <4>1, <4>2, <4>3, Zenon
    <3>. QED  BY <2>4, <3>2, <3>3, Zenon
  <2>13. destination.port = 1800 /\ destination.address = Named(b)
    BY <2>7
  <2>. QED
    BY <2>7, <2>8, <2>9, <2>10, <2>11, <2>12, <2>13, Zenon DEF NOAUTH, USER_PASS
<1>. QED  BY <1>1, AlwaysDialogue, PTL

=============================================================================
