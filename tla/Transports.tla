----------------------------- MODULE Transports -----------------------------
(***************************************************************************)
(* The two transports under the protocol: a WebSocket connection, whose    *)
(* frames cross a byte stream that the network cuts where it likes, and    *)
(* the in-process pair, whose messages are microtasks.  Lengths keep their *)
(* three wire formats with the thresholds as parameters.                   *)
(***************************************************************************)
EXTENDS Integers, Sequences

CONSTANTS Flag,          \* 0x80: the mask bit; Flag - 2 and Flag - 1 announce longer lengths
          Base,          \* 256: a byte of an extended length
          Text,          \* messages, as sequences of bytes
          Masks,         \* masking keys a client may draw
          Cuts,          \* sizes of the pieces the network may deliver
          Says,          \* the messages each end has to say
          MaxSends       \* bound: how many of them it sends

ASSUME WireAssumption  == Flag \in Nat /\ Flag > 3 /\ Base \in Nat /\ Base > 1
ASSUME TextAssumption  == Text \subseteq Seq(0..255) /\ Masks \subseteq [1..4 -> 0..255]
ASSUME BoundAssumption == Cuts \subseteq Nat \ {0} /\ \A e \in {"client", "server"} : Says[e] \subseteq Text

End     == {"client", "server"}
Peer(e) == IF e = "client" THEN "server" ELSE "client"

VARIABLES medium,        \* "ws" or "mem"
          sent, got, quit, told, broken,    \* as in Transport
          closed,        \* each end's closed flag
          phase,         \* ws: "dialing", "accepted" (server's socket), "open" (client's too)
          wire,          \* ws: bytes on their way to each end
          buf,           \* ws: each end's undecoded bytes
          tasks          \* mem: queued microtasks

promise == <<sent, got, quit, told, broken>>
vars    == <<medium, promise, closed, phase, wire, buf, tasks>>

Each(v) == [e \in End |-> v]

Init ==
  /\ medium \in {"ws", "mem"}
  /\ sent = Each(<<>>) /\ got = Each(<<>>) /\ quit = Each(FALSE) /\ told = Each(FALSE)
  /\ broken = FALSE /\ closed = Each(FALSE)
  /\ phase = IF medium = "ws" THEN "dialing" ELSE "open"
  /\ wire = Each(<<>>) /\ buf = Each(<<>>) /\ tasks = <<>>

-----------------------------------------------------------------------------
(* WebSocket frames. *)

TextOp == 1  BinaryOp == 2  CloseOp == 8  Fin == 128

\* n without its last j digits; its last k digits; the number digits write.
Quotient(n, j) == LET q[i \in Nat] == IF i = 0 THEN n ELSE q[i - 1] \div Base IN q[j]
Digits(n, k)   == [i \in 1..k |-> Quotient(n, k - i) % Base]
Number(ds)     == LET v[i \in 0..Len(ds)] == IF i = 0 THEN 0 ELSE v[i - 1] * Base + ds[i] IN v[Len(ds)]

LengthCode(len)   ==
  IF len < Flag - 2 THEN len ELSE IF len < Base * Base THEN Flag - 2 ELSE Flag - 1
LengthDigits(len) ==
  IF len < Flag - 2 THEN <<>> ELSE IF len < Base * Base THEN Digits(len, 2) ELSE Digits(len, 8)

\* Exclusive or of two bytes, bit by bit.
Bit(n, w)       == (n \div w) % 2
XorBit(a, b, w) == w * ((Bit(a, w) + Bit(b, w)) % 2)
a ^^ b == XorBit(a, b, 1) + XorBit(a, b, 2) + XorBit(a, b, 4) + XorBit(a, b, 8)
          + XorBit(a, b, 16) + XorBit(a, b, 32) + XorBit(a, b, 64) + XorBit(a, b, 128)

Mask(bytes, key) == [i \in DOMAIN bytes |-> bytes[i] ^^ key[((i - 1) % 4) + 1]]

\* encodeTextFrame: the client masks with a fresh key, the server does not.
PlainFrame(m) ==
  <<Fin + TextOp, LengthCode(Len(m))>> \o LengthDigits(Len(m)) \o m
MaskedFrame(m, key) ==
  <<Fin + TextOp, Flag + LengthCode(Len(m))>> \o LengthDigits(Len(m)) \o key \o Mask(m, key)
CloseFrame == <<Fin + CloseOp, 0>>

Opcode(b)   == b[1] % 16
Masked(b)   == b[2] >= Flag
Code(b)     == IF Masked(b) THEN b[2] - Flag ELSE b[2]
ExtraLen(b) == CASE Code(b) = Flag - 2 -> 2 [] Code(b) = Flag - 1 -> 8 [] OTHER -> 0
BodyAt(b)   == 2 + ExtraLen(b) + (IF Masked(b) THEN 4 ELSE 0)
BodyLen(b)  == IF ExtraLen(b) = 0 THEN Code(b) ELSE Number(SubSeq(b, 3, 2 + ExtraLen(b)))
FrameLen(b) == BodyAt(b) + BodyLen(b)

WrongIsWhole(b) == Len(b) >= 2 /\ Len(b) > 2 + ExtraLen(b) /\ Len(b) > FrameLen(b)
IsWhole(b) == Len(b) >= 2 /\ Len(b) >= 2 + ExtraLen(b) /\ Len(b) >= FrameLen(b)

Payload(b) ==
  LET body == SubSeq(b, BodyAt(b) + 1, FrameLen(b)) IN
  IF Masked(b) THEN Mask(body, SubSeq(b, BodyAt(b) - 3, BodyAt(b))) ELSE body

\* The loop of onData.  A close frame does not end it.
Pass(s) ==
  IF ~IsWhole(s.rest) THEN s
  ELSE LET op == Opcode(s.rest)
       IN [texts |-> IF op \in {TextOp, BinaryOp} THEN Append(s.texts, Payload(s.rest)) ELSE s.texts,
           close |-> s.close \/ op = CloseOp,
           rest  |-> SubSeq(s.rest, FrameLen(s.rest) + 1, Len(s.rest))]
Start(b) == [texts |-> <<>>, close |-> FALSE, rest |-> b]
Drain(b) == LET loop[n \in Nat] == IF n = 0 THEN Start(b) ELSE Pass(loop[n - 1]) IN loop[Len(b)]

\* Eight digits announce the length of every message there is.
ASSUME LengthAssumption == \A t \in Text : Quotient(Len(t), 8) = 0

-----------------------------------------------------------------------------
(* The WebSocket transport. *)

HasSocket(e) == phase = "open" \/ (phase = "accepted" /\ e = "server")

\* The drone only ever answers: it neither sends nor hangs up unasked.
MaySpeak(e) == HasSocket(e) /\ (e = "server" => got[e] # <<>>)

\* What is written to a dead connection goes nowhere.
Transmit(w, to, bytes) == IF broken THEN w ELSE [w EXCEPT ![to] = @ \o bytes]

\* The server's upgrade handler answers 101 and hands out its socket.
Upgrade ==
  /\ medium = "ws" /\ phase = "dialing"
  /\ phase' = "accepted"
  /\ UNCHANGED <<medium, promise, closed, wire, buf, tasks>>

\* The client's upgrade handler: whatever came along with the 101 is dropped.
Opened ==
  /\ medium = "ws" /\ phase = "accepted"
  /\ phase' = "open"
  /\ \E n \in 0..Len(wire["client"]) :
       wire' = [wire EXCEPT !["client"] = SubSeq(@, n + 1, Len(@))]
  /\ UNCHANGED <<medium, promise, closed, buf, tasks>>

WsSend(e, m) ==
  /\ medium = "ws" /\ MaySpeak(e) /\ ~closed[e]
  /\ Len(sent[e]) < MaxSends[e]
  /\ sent' = [sent EXCEPT ![e] = Append(@, m)]
  /\ \/ e = "server" /\ wire' = Transmit(wire, "client", PlainFrame(m))
     \/ e = "client" /\ \E key \in Masks : wire' = Transmit(wire, "server", MaskedFrame(m, key))
  /\ UNCHANGED <<medium, got, quit, told, broken, closed, phase, buf, tasks>>

\* close(): a close frame, end(), and the close event at once.
CloseSocket(e, byApp) ==
  /\ closed' = [closed EXCEPT ![e] = TRUE]
  /\ told' = [told EXCEPT ![e] = TRUE]
  /\ quit' = [quit EXCEPT ![e] = @ \/ byApp]

WsClose(e) ==
  /\ medium = "ws" /\ MaySpeak(e) /\ ~closed[e]
  /\ CloseSocket(e, TRUE)
  /\ wire' = Transmit(wire, Peer(e), CloseFrame)
  /\ UNCHANGED <<medium, sent, got, broken, phase, buf, tasks>>

Readable(e) == medium = "ws" /\ HasSocket(e) /\ wire[e] # <<>>

\* onData: the next n bytes of the stream, however the network cut them.
Data(e, n) ==
  /\ LET b == buf[e] \o SubSeq(wire[e], 1, n)
         r == Drain(b)
         left == [wire EXCEPT ![e] = SubSeq(@, n + 1, Len(@))]
     IN /\ buf' = [buf EXCEPT ![e] = r.rest]
        /\ got' = [got EXCEPT ![e] = @ \o r.texts]
        /\ \/ /\ r.close /\ ~closed[e]
              /\ CloseSocket(e, FALSE)
              /\ wire' = Transmit(left, Peer(e), CloseFrame)
           \/ /\ ~r.close \/ closed[e]
              /\ wire' = left
              /\ UNCHANGED <<closed, told, quit>>
  /\ UNCHANGED <<medium, sent, broken, phase, tasks>>

WsReceive(e) ==
  /\ Readable(e)
  /\ \E n \in Cuts \cup {Len(wire[e])} : n <= Len(wire[e]) /\ Data(e, n)

\* The socket dies under both ends.
Break ==
  /\ medium = "ws" /\ phase = "open" /\ ~broken
  /\ broken' = TRUE
  /\ UNCHANGED <<medium, sent, got, quit, told, closed, phase, wire, buf, tasks>>

\* error and close of a dead socket: the rest of the stream is gone; the closed
\* flag stays as it was.
Lost(e) ==
  /\ broken /\ (~told[e] \/ wire[e] # <<>>)
  /\ told' = [told EXCEPT ![e] = TRUE]
  /\ wire' = [wire EXCEPT ![e] = <<>>]
  /\ UNCHANGED <<medium, sent, got, quit, broken, closed, phase, buf, tasks>>

-----------------------------------------------------------------------------
(* The in-process transport. *)

Message(e, m)  == [to |-> e, kind |-> "message", text |-> m]
CloseTask(e)   == [to |-> e, kind |-> "close", text |-> <<>>]

MemSend(e, m) ==
  /\ medium = "mem" /\ MaySpeak(e) /\ ~closed[e]
  /\ Len(sent[e]) < MaxSends[e]
  /\ sent' = [sent EXCEPT ![e] = Append(@, m)]
  /\ tasks' = Append(tasks, Message(Peer(e), m))
  /\ UNCHANGED <<medium, got, quit, told, broken, closed, phase, wire, buf>>

\* close() closes the peer in the same call; both close events are queued
\* behind the messages already sent.
WrongQueueClose(e) == <<CloseTask(e), CloseTask(Peer(e))>> \o tasks
QueueClose(e)      == tasks \o <<CloseTask(e), CloseTask(Peer(e))>>

MemClose(e) ==
  /\ medium = "mem" /\ MaySpeak(e) /\ ~closed[e]
  /\ quit' = [quit EXCEPT ![e] = TRUE]
  /\ closed' = Each(TRUE)
  /\ tasks' = QueueClose(e)
  /\ UNCHANGED <<medium, sent, got, told, broken, phase, wire, buf>>

\* Nobody looks at closed when the message is delivered.
RunTask ==
  /\ tasks # <<>>
  /\ tasks' = Tail(tasks)
  /\ LET t == Head(tasks) IN
     \/ /\ t.kind = "message"
        /\ got' = [got EXCEPT ![t.to] = Append(@, t.text)]
        /\ UNCHANGED told
     \/ /\ t.kind = "close"
        /\ told' = [told EXCEPT ![t.to] = TRUE]
        /\ UNCHANGED got
  /\ UNCHANGED <<medium, sent, quit, broken, closed, phase, wire, buf>>

-----------------------------------------------------------------------------
Next ==
  \/ Upgrade \/ Opened \/ Break \/ RunTask
  \/ \E e \in End : \/ \E m \in Says[e] : WsSend(e, m) \/ MemSend(e, m)
                    \/ WsClose(e) \/ WsReceive(e) \/ Lost(e) \/ MemClose(e)

\* The event loop runs its microtasks and hands over what the network brings: weak
\* fairness; for WsReceive with its guard in place of ENABLED, which it equals.
Spec ==
  /\ Init /\ [][Next]_vars
  /\ WF_vars(Upgrade) /\ WF_vars(Opened) /\ WF_vars(RunTask)
  /\ \A e \in End : /\ WF_vars(Lost(e))
                    /\ []<>~Readable(e) \/ []<><<WsReceive(e)>>_vars

-----------------------------------------------------------------------------
Promise == INSTANCE Transport WITH
  Text <- Text, sent <- sent, got <- got, quit <- quit, told <- told, broken <- broken

\* Refinement: whatever the network does to the byte stream, and on either
\* side of each length threshold, both transports keep what Transport promises.
ImplementsTransport == Promise!Spec

\* What an end has said is heard, unless the connection is lost: no message
\* waits in a buffer for bytes that will never come.  So is its hanging up.
EverythingIsHeard ==
  \A e \in End : /\ got[e] # sent[Peer(e)] ~> (got[e] = sent[Peer(e)] \/ broken)
                 /\ quit[e] ~> told[Peer(e)]
=============================================================================
