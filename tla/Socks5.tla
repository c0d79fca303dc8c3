------------------------------- MODULE Socks5 -------------------------------
(***************************************************************************)
(* Clients of Socket.  "proxy" is Socks5Proxy::Connect                     *)
(* (src/net/proxy/Socks5Proxy.cpp): up to three attempts, each over a new  *)
(* Socket, to have a proxy open a connection.  "plain" is any client that  *)
(* connects or accepts, then reads, reads lines and writes as it likes.    *)
(*                                                                         *)
(* The proxy is external.  It answers each message it gets, rightly or     *)
(* wrongly, and once it has granted the request it passes on what the      *)
(* destination sends, which may arrive in one piece with the answer.       *)
(***************************************************************************)
EXTENDS Socket

CONSTANTS MaxCalls,     \* bound: calls of a plain client
          MaxSent       \* bound: bytes sent to a plain client

ASSUME Socks5Assumption == MaxCalls \in Nat /\ MaxSent \in Nat

Attempts == 3

VARIABLES
  role,          \* "proxy" or "plain"
  auth,          \* authOpt has a value
  pc,            \* the client: its next or current call, or how it ended
  attempt,       \* attempts begun
  length,        \* the length of the domain name to read
  address,       \* the address read by ReadDestination
  destination,   \* m_destination, set by the last step of an attempt that succeeds
  answers,       \* history: what the proxy answered on this connection
  calls          \* the number of a plain client's calls

clientVars == <<role, auth, pc, attempt, length, address, destination, answers, calls>>
vars == <<socketVars, clientVars>>

NoDestination == [address |-> <<>>, port |-> 0]

Init ==
  /\ SocketInit
  /\ role \in {"proxy", "plain"}
  /\ auth \in BOOLEAN
  /\ pc = IF role = "proxy" THEN "check" ELSE "plain"
  /\ attempt = 0 /\ length = 0 /\ calls = 0
  /\ address = <<>> /\ destination = NoDestination /\ answers = <<>>

-----------------------------------------------------------------------------
\* The numbers of SOCKS.h.
SOCKS5 == 5
NOAUTH == 0
USER_PASS == 2
SUCCEEDED == 0
IPV4 == 1
DOMAINNAME == 3
IPV6 == 4

Initialize == WriteCall("greet")

\* The call the client makes at each place.
CallAt(p) ==
  CASE p = "connect" -> ConnectCall
    [] p = "greet" -> Initialize
    [] p \in {"auth", "request"} -> WriteCall(p)
    [] p \in {"method", "authReply", "port"} -> ReadCall(2)
    [] p \in {"reply", "ipv4"} -> ReadCall(4)
    [] p = "ipv6" -> ReadCall(16)
    [] p = "length" -> ReadCall(1)
    [] p = "domain" -> ReadCall(length)
    [] OTHER -> NoCall

\* Where an exception inside the try block leads.
Retry == IF attempt < Attempts THEN "connect" ELSE "threw"

\* Mutant: credentials are sent without being asked for.
SendsIfGiven(data) ==
  IF data[1] # SOCKS5 THEN Retry ELSE IF auth THEN "auth" ELSE "request"

\* Authenticate, after the answer to the greeting.
AfterMethod(data) ==
  IF data[1] # SOCKS5 THEN Retry
  ELSE IF data[2] = USER_PASS /\ auth THEN "auth"
  ELSE IF data[2] = NOAUTH THEN "request"
  ELSE Retry

\* Mutant: only the version and the reserved byte of the reply are looked at.
AnyReply(data) ==
  IF data[1] # SOCKS5 \/ data[3] # 0 THEN Retry
  ELSE IF data[4] = IPV4 THEN "ipv4"
  ELSE IF data[4] = IPV6 THEN "ipv6"
  ELSE IF data[4] = DOMAINNAME THEN "length"
  ELSE Retry

AfterReply(data) ==
  IF data[1] # SOCKS5 \/ data[2] # SUCCEEDED \/ data[3] # 0 THEN Retry
  ELSE IF data[4] = IPV4 THEN "ipv4"
  ELSE IF data[4] = IPV6 THEN "ipv6"
  ELSE IF data[4] = DOMAINNAME THEN "length"
  ELSE Retry

\* The client's next place when the call at p returned data.
After(p, data) ==
  CASE p = "connect" -> "greet"
    [] p = "greet" -> "method"
    [] p = "method" -> AfterMethod(data)
    [] p = "auth" -> "authReply"
    [] p = "authReply" -> IF data = <<1, 0>> THEN "request" ELSE Retry
    [] p = "request" -> "reply"
    [] p = "reply" -> AfterReply(data)
    [] p = "length" -> "domain"
    [] p \in {"ipv4", "ipv6", "domain"} -> "port"
    [] p = "port" -> "up"

\* Deserializer::Read<uint16_t>.
Port(data) == data[1] * 256 + data[2]

Advance(data) ==
  /\ pc' = After(pc, data)
  /\ length' = IF pc = "length" THEN data[1] ELSE length
  /\ address' = IF pc \in {"ipv4", "ipv6", "domain"} THEN data ELSE address
  /\ destination' = IF pc = "port" THEN [address |-> address, port |-> Port(data)] ELSE destination
  /\ UNCHANGED <<role, auth, attempt, answers, calls>>

-----------------------------------------------------------------------------
\* The destination, the user name and the password have at most 255 characters.
CheckLengths ==
  /\ pc = "check"
  /\ pc' \in {"connect", "threw"}
  /\ UNCHANGED <<socketVars, role, auth, attempt, length, address, destination, answers, calls>>

Call ==
  /\ CallAt(pc) # NoCall
  /\ Start(CallAt(pc))
  /\ IF pc = "connect"
     THEN attempt' = attempt + 1 /\ answers' = <<>>
     ELSE UNCHANGED <<attempt, answers>>
  /\ UNCHANGED <<role, auth, pc, length, address, destination, calls>>

CallFromBuffer ==
  /\ CallAt(pc).kind = "read"
  /\ ReadBuffered(CallAt(pc).size)
  /\ Advance(SubSeq(buffer, 1, CallAt(pc).size))

Returns ==
  /\ role = "proxy"
  /\ Finish(TRUE)
  /\ Advance(Taken)

\* Socket::Connect is called outside the try block.
Throws ==
  /\ role = "proxy"
  /\ Finish(FALSE)
  /\ pc' = IF pc = "connect" THEN "threw" ELSE Retry
  /\ UNCHANGED <<role, auth, attempt, length, address, destination, answers, calls>>

-----------------------------------------------------------------------------
\* What a proxy may answer to each message.  An address has the length its type says.
AddressOf(type) ==
  CASE type = IPV4 -> <<11, 12, 13, 14>>
    [] type = IPV6 -> [i \in 1..16 |-> 10 + i]
    [] type = DOMAINNAME -> <<2, 11, 12>>
    [] OTHER -> <<>>

Answers(message) ==
  CASE message = "greet" -> {<<5, NOAUTH>>, <<5, USER_PASS>>, <<5, 255>>, <<4, NOAUTH>>}
    [] message = "auth" -> {<<1, 0>>, <<1, 1>>}
    [] message = "request" ->
         {<<5, reply, reserved, type>> \o AddressOf(type) \o <<7, 8>> :
            reply \in {SUCCEEDED, 1}, reserved \in {0, 1}, type \in {IPV4, DOMAINNAME, IPV6, 9}}
           \cup {<<5, SUCCEEDED, 0, DOMAINNAME, 0, 7, 8>>,
                 <<4, SUCCEEDED, 0, IPV4, 11, 12, 13, 14, 7, 8>>}

ProxyAnswers ==
  /\ role = "proxy" /\ Len(answers) < Len(heard)
  /\ \E bytes \in Answers(heard[Len(answers) + 1]) :
       /\ PeerSends(bytes)
       /\ answers' = Append(answers, bytes)
  /\ UNCHANGED <<role, auth, pc, attempt, length, address, destination, calls>>

\* After an answer to the request, the first byte of what the destination sends.
DestinationSends ==
  /\ role = "proxy" /\ Len(answers) = Len(heard) /\ Len(answers) > 0
  /\ heard[Len(heard)] = "request"
  /\ Len(sent) = Len(FlattenSeq(answers))
  /\ PeerSends(<<99>>)
  /\ UNCHANGED clientVars

-----------------------------------------------------------------------------
PlainCall ==
  /\ pc = "plain" /\ calls < MaxCalls
  /\ calls' = calls + 1
  /\ \/ calls = 0 /\ \E c \in {ConnectCall, AcceptCall} : Start(c)
     \/ calls > 0 /\ \E c \in {ReadCall(1), ReadCall(2), LineCall, WriteCall("data")} : Start(c)
     \/ calls > 0 /\ \E n \in 1..2 : ReadBuffered(n)
  /\ UNCHANGED <<role, auth, pc, attempt, length, address, destination, answers>>

PlainReturns ==
  /\ role = "plain"
  /\ \E success \in BOOLEAN : Finish(success)
  /\ UNCHANGED clientVars

PlainPeer ==
  /\ role = "plain" /\ Len(sent) < MaxSent
  /\ \E byte \in {1, 2, Newline} : PeerSends(<<byte>>)
  /\ UNCHANGED clientVars

Environment ==
  /\ \/ Connected \/ Accepted \/ Written \/ Fails \/ PeerCloses
     \/ \E k \in 1..Len(inflight) : Arrive(k)
  /\ UNCHANGED clientVars

TimesOut == Timeout /\ UNCHANGED clientVars

Client == CheckLengths \/ Call \/ CallFromBuffer \/ Returns \/ Throws \/ PlainReturns

Next ==
  \/ Client \/ PlainCall \/ TimesOut
  \/ Environment \/ ProxyAnswers \/ DestinationSends \/ PlainPeer

\* The calling thread runs on, and time passes; nothing is asked of the peer.
Spec == Init /\ [][Next]_vars /\ WF_vars(Client) /\ WF_vars(TimesOut)

-----------------------------------------------------------------------------
\* Every variable has its type, and no handler, which writes to the stack of the call
\* that started it, outlives that call.
TypeOK ==
  /\ call.kind \in {"none", "connect", "accept", "read", "line", "write"}
  /\ run \in {"out", "timed", "drain"}
  /\ (run = "out") = (call = NoCall)
  /\ done \in {"pending", "ok", "error"}
  /\ open \in BOOLEAN
  /\ link \in {"none", "up", "closed"}
  /\ attempt \in 0..Attempts
  /\ calls \in 0..MaxCalls

\* The calls return the peer's bytes in order, each once, whatever pieces they arrive
\* in and whichever calls fail: a timed-out read leaves its bytes to the next one.
StreamIntact == got \o buffer \o inflight = sent

\* The connection is only called established if the proxy accepted every message of
\* this attempt; the destination is the one it named, and exactly its answers have been
\* consumed, so that what follows belongs to the caller.
EstablishedMeansGranted ==
  pc = "up" =>
    /\ Len(answers) = Len(heard)
    /\ answers[1] \in {<<5, NOAUTH>>, <<5, USER_PASS>>}
    /\ SubSeq(Last(answers), 1, 3) = <<5, SUCCEEDED, 0>>
    /\ got = FlattenSeq(answers)
    /\ destination.port = 1800
    /\ destination.address =
         LET rest == SubSeq(Last(answers), 5, Len(Last(answers)) - 2)
         IN IF Last(answers)[4] = DOMAINNAME THEN Tail(rest) ELSE rest

\* Nothing is asked of a proxy that did not ask for credentials it then accepted, or do
\* without; credentials go only to a proxy that asked for them.
HandshakeInOrder ==
  role = "proxy" =>
    \/ heard \in {<<>>, <<"greet">>}
    \/ heard = <<"greet", "request">> /\ answers[1] = <<5, NOAUTH>>
    \/ heard = <<"greet", "auth">> /\ auth /\ answers[1] = <<5, USER_PASS>>
    \/ heard = <<"greet", "auth", "request">> /\ auth
         /\ answers[1] = <<5, USER_PASS>> /\ answers[2] = <<1, 0>>

\* Socks5Proxy::Connect always returns or throws, and every other call but Accept
\* returns, whatever the peer does or fails to do.
ConnectReturns ==
  /\ role = "proxy" ~> pc \in {"up", "threw"}
  /\ (run # "out" /\ call.kind # "accept") ~> run = "out"
=============================================================================
