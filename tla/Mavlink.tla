------------------------------ MODULE Mavlink ------------------------------
(***************************************************************************)
(* The MAVLink v2 codec: frames, their checksum, the streaming parser and  *)
(* the five messages of the dialect, on bytes.  Floats are the whole       *)
(* numbers below 2^24; a fraction read from the wire is cut off.           *)
(***************************************************************************)
EXTENDS Integers, Sequences

Byte == 0..255
Word == 0..65535

-----------------------------------------------------------------------------
(* Numbers, least significant byte first; \div and % wrap as the widths do. *)

LittleEndian(n, k) == [i \in 1..k |-> (n \div 256 ^ (i - 1)) % 256]
Unsigned(bs)       ==
  LET v[i \in 0..Len(bs)] == IF i = 0 THEN 0 ELSE v[i - 1] * 256 + bs[Len(bs) - i + 1] IN v[Len(bs)]
Signed(bs)         == Unsigned(bs) - (IF bs[Len(bs)] < 128 THEN 0 ELSE 256 ^ Len(bs))

Exponent(n) == CHOOSE x \in 0..23 : 2 ^ x <= n /\ n < 2 ^ (x + 1)
Float(n) ==
  IF n = 0 THEN <<0, 0, 0, 0>>
  ELSE LET x == Exponent(n)
           fraction == (n - 2 ^ x) * 2 ^ (23 - x)
       IN LittleEndian(fraction + ((127 + x) % 2) * 2 ^ 23, 3) \o <<(127 + x) \div 2>>
Whole(bs) ==
  LET x == (bs[4] % 128) * 2 + bs[3] \div 128 - 127
      fraction == bs[1] + 256 * bs[2] + 65536 * (bs[3] % 128)
  IN IF x \in 0..23 THEN 2 ^ x + fraction \div 2 ^ (23 - x) ELSE 0

Width(type) == CASE type = "u8" -> 1 [] type \in {"u16", "i16"} -> 2 [] OTHER -> 4
Put(type, n)  == IF type = "float" THEN Float(n) ELSE LittleEndian(n, Width(type))
Take(type, bs) == CASE type = "float"            -> Whole(bs)
                    [] type \in {"i16", "i32"}   -> Signed(bs)
                    [] OTHER                     -> Unsigned(bs)

-----------------------------------------------------------------------------
(* The dialect: each message's fields in wire order, and their types. *)

HEARTBEAT == 0  ATTITUDE == 30  GLOBAL_POSITION_INT == 33  COMMAND_LONG == 76  COMMAND_ACK == 77

HeartbeatDef ==
  [name |-> "HEARTBEAT", crcExtra |-> 50, payloadLen |-> 9,
   fields |-> <<"customMode", "type", "autopilot", "baseMode", "systemStatus", "mavlinkVersion">>,
   types |-> <<"u32", "u8", "u8", "u8", "u8", "u8">>]
CommandLongDef ==
  [name |-> "COMMAND_LONG", crcExtra |-> 152, payloadLen |-> 33,
   fields |-> <<"param1", "param2", "param3", "param4", "param5", "param6", "param7",
                "command", "targetSystem", "targetComponent", "confirmation">>,
   types |-> <<"float", "float", "float", "float", "float", "float", "float",
               "u16", "u8", "u8", "u8">>]
CommandAckDef ==
  [name |-> "COMMAND_ACK", crcExtra |-> 143, payloadLen |-> 3,
   fields |-> <<"command", "result">>, types |-> <<"u16", "u8">>]
GlobalPositionIntDef ==
  [name |-> "GLOBAL_POSITION_INT", crcExtra |-> 104, payloadLen |-> 28,
   fields |-> <<"timeBootMs", "lat", "lon", "alt", "relativeAlt", "vx", "vy", "vz", "hdg">>,
   types |-> <<"u32", "i32", "i32", "i32", "i32", "i16", "i16", "i16", "u16">>]
AttitudeDef ==
  [name |-> "ATTITUDE", crcExtra |-> 39, payloadLen |-> 28,
   fields |-> <<"timeBootMs", "roll", "pitch", "yaw", "rollspeed", "pitchspeed", "yawspeed">>,
   types |-> <<"u32", "float", "float", "float", "float", "float", "float">>]

Def(msgid) ==
  CASE msgid = HEARTBEAT           -> HeartbeatDef
    [] msgid = COMMAND_LONG        -> CommandLongDef
    [] msgid = COMMAND_ACK         -> CommandAckDef
    [] msgid = GLOBAL_POSITION_INT -> GlobalPositionIntDef
    [] msgid = ATTITUDE            -> AttitudeDef
Known == {HEARTBEAT, COMMAND_LONG, COMMAND_ACK, GLOBAL_POSITION_INT, ATTITUDE}

\* Where field i begins; the fields one behind the other, and each from its place.
Offset(types, i) ==
  LET end[n \in 0..Len(types)] == IF n = 0 THEN 0 ELSE end[n - 1] + Width(types[n]) IN end[i - 1]
Pack(msgid, m) ==
  LET d == Def(msgid)
      upTo[n \in 0..Len(d.types)] ==
        IF n = 0 THEN <<>> ELSE upTo[n - 1] \o Put(d.types[n], m[d.fields[n]])
  IN upTo[Len(d.types)]
FieldIn(types, payload, i) ==
  SubSeq(payload, Offset(types, i) + 1, Offset(types, i) + Width(types[i]))
Unpack(msgid, payload) ==
  LET d     == Def(msgid)
      At(f) == CHOOSE i \in DOMAIN d.fields : d.fields[i] = f
  IN [f \in {d.fields[i] : i \in DOMAIN d.fields} |->
        Take(d.types[At(f)], FieldIn(d.types, payload, At(f)))]

-----------------------------------------------------------------------------
(* Checksum and frames. *)

\* Exclusive or: of two bits, and of 16-bit words half byte by half byte.
XorBit(a, b, k)    == 2 ^ k * ((a \div 2 ^ k + b \div 2 ^ k) % 2)
XorNibble == [a \in 0..15 |-> [b \in 0..15 |->
                XorBit(a, b, 0) + XorBit(a, b, 1) + XorBit(a, b, 2) + XorBit(a, b, 3)]]
XorDigit(a, b, k)  == 16 ^ k * XorNibble[(a \div 16 ^ k) % 16][(b \div 16 ^ k) % 16]
Xor(a, b)          == XorDigit(a, b, 0) + XorDigit(a, b, 1) + XorDigit(a, b, 2) + XorDigit(a, b, 3)

\* What a byte, combined with the low half of the CRC, folds into its upper half.
Folded ==
  [d \in Byte |-> LET t == Xor(d, (d * 16) % 256) IN Xor(t * 256, Xor(t * 8, t \div 16))]
\* One more byte: what it makes of the CRC so far.
Accumulate(b) == [crc \in Word |-> Xor(crc \div 256, Folded[Xor(b, crc % 256)])]

X25_INIT_CRC == 65535
Checksum(bytes, crcExtra) ==
  LET crc[i \in 0..Len(bytes)] == IF i = 0 THEN X25_INIT_CRC ELSE Accumulate(bytes[i])[crc[i - 1]]
  IN Accumulate(crcExtra)[crc[Len(bytes)]]

STX == 253  HeaderLen == 10  CrcLen == 2  SignatureLen == 13

WrongTrim(payload) ==
  LET keep == {1} \cup {n \in DOMAIN payload : payload[n] # 0} IN
  SubSeq(payload, 1, (CHOOSE n \in keep : \A m \in keep : m <= n) - 1)
\* Trailing zeros are cut, down to one byte.
Trim(payload) ==
  LET keep == {1} \cup {n \in DOMAIN payload : payload[n] # 0} IN
  SubSeq(payload, 1, CHOOSE n \in keep : \A m \in keep : m <= n)

EncodeFrame(msgid, m, seq, sysid, compid) ==
  LET payload == Trim(Pack(msgid, m))
      covered == <<Len(payload), 0, 0, seq % 256, sysid, compid>> \o LittleEndian(msgid, 3) \o payload
  IN <<STX>> \o covered \o LittleEndian(Checksum(covered, Def(msgid).crcExtra), 2)

IsSigned(b)  == b[3] % 2 = 1
FrameSize(b) == HeaderLen + b[2] + CrcLen + (IF IsSigned(b) THEN SignatureLen ELSE 0)

WrongReady(b) == Len(b) > HeaderLen /\ Len(b) > FrameSize(b)
Ready(b)      == Len(b) >= HeaderLen /\ Len(b) >= FrameSize(b)

WrongCrcOk(b, msgid) == TRUE
CrcOk(b, msgid) ==
  LET end == HeaderLen + b[2] IN
  Checksum(SubSeq(b, 2, end), Def(msgid).crcExtra) = Unsigned(SubSeq(b, end + 1, end + 2))

PadTo(payload, n) == payload \o [i \in 1..(n - Len(payload)) |-> 0]

\* The frame at the head of b.
Decoded(b) ==
  LET msgid   == Unsigned(SubSeq(b, 8, 10))
      payload == SubSeq(b, HeaderLen + 1, HeaderLen + b[2])
  IN [msgid |-> msgid, seq |-> b[5], sysid |-> b[6], compid |-> b[7],
      payload |-> IF msgid \in Known THEN PadTo(payload, Def(msgid).payloadLen) ELSE payload,
      crcOk |-> msgid \in Known /\ CrcOk(b, msgid)]

WrongSynced(b) == b
\* One turn of the parser's loop: resynchronise, then take the frame off if it is
\* whole.  A frame whose checksum is wrong is consumed too.
Synced(b) ==
  LET at == {i \in DOMAIN b : b[i] = STX} IN
  IF at = {} THEN <<>> ELSE SubSeq(b, CHOOSE i \in at : \A j \in at : i <= j, Len(b))
Pass(s) ==
  LET b == Synced(s.rest) IN
  IF Ready(b) THEN [frames |-> Append(s.frames, Decoded(b)),
                    rest |-> SubSeq(b, FrameSize(b) + 1, Len(b))]
              ELSE [frames |-> s.frames, rest |-> b]
Passes(s, n) == LET loop[i \in Nat] == IF i = 0 THEN s ELSE Pass(loop[i - 1]) IN loop[n]

\* The parser, given what it kept and what has come since: the frames, and what it
\* keeps.  Every turn but the last takes off at least a header and a checksum.
Push(bytes) ==
  Passes([frames |-> <<>>, rest |-> bytes], Len(bytes) \div (HeaderLen + CrcLen) + 1)

\* decodeAll: the checksum-valid messages of one buffer, with their fields.
DecodeFields(f) == [name |-> Def(f.msgid).name, fields |-> Unpack(f.msgid, f.payload)]
DecodeAll(bytes) ==
  LET frames == Push(bytes).frames
      upTo[n \in 0..Len(frames)] ==
        IF n = 0 THEN <<>>
        ELSE IF frames[n].crcOk THEN Append(upTo[n - 1], DecodeFields(frames[n]))
        ELSE upTo[n - 1]
  IN upTo[Len(frames)]
=============================================================================
