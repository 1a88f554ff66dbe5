------------------------------- MODULE Flight -------------------------------
(***************************************************************************)
(* Ground stations fly one drone over MAVLink.  Each station's payloads    *)
(* come through a session of its own, but they meet in one flight stack,   *)
(* with one parser, one sequence counter and one drone.                    *)
(***************************************************************************)
EXTENDS Mavlink, SequencesExt

CONSTANTS Station,
          Scripts      \* per station, what it may set out to say: a set of sequences of
                       \* messages: bytes in the pieces in which the session gets them, what
                       \* they ask for, and whether each piece is made of whole frames and text

GCS_SYS == 255  GCS_COMP == 190  DRONE_SYS == 1  DRONE_COMP == 1

NAV_LAND == 21  NAV_TAKEOFF == 22  DO_REPOSITION == 192  COMPONENT_ARM_DISARM == 400
ACCEPTED == 0   UNSUPPORTED == 3
STANDBY == 3    ACTIVE == 4
SAFETY_ARMED == 128  CUSTOM_MODE_ENABLED == 1
GENERIC == 0    QUADROTOR == 2

VARIABLES script,      \* per station, what it sets out to say
          tidy,        \* every payload is made of whole frames
          sent,        \* per station: payloads handed to the session, by message
          parser,      \* the bytes the parser keeps
          drone,       \* the flight stack's other fields
          inbox,       \* per station: replies on their way
          heard,       \* per station: decoded replies
          fed,         \* history: every byte ingested
          applied,     \* history: [command, after], in order
          asked        \* history: per station, which of them it asked for

vars == <<script, tidy, sent, parser, drone, inbox, heard, fed, applied, asked>>

-----------------------------------------------------------------------------
(* The ground station. *)

Plain == [param1 |-> 0, param2 |-> 0, param3 |-> 0, param4 |-> 0, param5 |-> 0, param6 |-> 0,
          param7 |-> 0, command |-> 0, targetSystem |-> DRONE_SYS,
          targetComponent |-> DRONE_COMP, confirmation |-> 0]

Arm     == [Plain EXCEPT !.command = COMPONENT_ARM_DISARM, !.param1 = 1]
TakeOff == [Plain EXCEPT !.command = NAV_TAKEOFF, !.param7 = 80]
Goto    == [Plain EXCEPT !.command = DO_REPOSITION, !.param5 = 25, !.param6 = 121, !.param7 = 80]
Land    == [Plain EXCEPT !.command = NAV_LAND]

Message == [payloads : Seq(Seq(Byte)) \ {<<>>}, commands : Seq([DOMAIN Plain -> Nat]),
            whole : BOOLEAN]
ASSUME ScriptAssumption == \A s \in Station : Scripts[s] \subseteq Seq(Message)

CommandFrame(c, seq) == EncodeFrame(COMMAND_LONG, c, seq, GCS_SYS, GCS_COMP)

-----------------------------------------------------------------------------
(* The flight stack. *)

Fresh == [armed |-> FALSE, lat |-> 250330000, lon |-> 1215640000, altMm |-> 0,
          bootMs |-> 0, txSeq |-> 0]
\* A fresh stack after 84 commands it does not support.
Seasoned == [Fresh EXCEPT !.bootMs = 8400, !.txSeq = 252]

Addressed(f) ==
  /\ f.crcOk /\ f.msgid = COMMAND_LONG
  /\ Unpack(COMMAND_LONG, f.payload).targetSystem = DRONE_SYS

Wanted(ms) == FlattenSeq([i \in DOMAIN ms |-> ms[i].commands])

\* The commands among frames that ingest does not pass over.
CommandsIn(frames) ==
  LET upTo[n \in 0..Len(frames)] ==
        IF n = 0 THEN <<>>
        ELSE IF Addressed(frames[n]) THEN Append(upTo[n - 1], Unpack(COMMAND_LONG, frames[n].payload))
        ELSE upTo[n - 1]
  IN upTo[Len(frames)]

\* What the scripts' flags mean: a parser keeps nothing of a piece of whole frames, and
\* these pieces ask for what their message is said to ask for.
WholeScripts ==
  \A s \in Station : \A said \in Scripts[s] : \A i \in DOMAIN said :
    LET m == said[i] IN
    m.whole => /\ \A j \in DOMAIN m.payloads : Push(m.payloads[j]).rest = <<>>
               /\ m.commands = FlattenSeq([j \in DOMAIN m.payloads |->
                                             CommandsIn(Push(m.payloads[j]).frames)])

Init ==
  /\ script \in {f \in [Station -> UNION {Scripts[s] : s \in Station}] :
                   \A s \in Station : f[s] \in Scripts[s]}
  /\ tidy = \A s \in Station : \A i \in DOMAIN script[s] : script[s][i].whole
  /\ sent = [s \in Station |-> <<>>]
  /\ parser = <<>> /\ drone \in {Fresh, Seasoned}
  /\ inbox = [s \in Station |-> <<>>] /\ heard = [s \in Station |-> <<>>]
  /\ fed = <<>> /\ applied = <<>> /\ asked = [s \in Station |-> <<>>]

Result(c) ==
  IF c.command \in {COMPONENT_ARM_DISARM, NAV_TAKEOFF, DO_REPOSITION, NAV_LAND}
  THEN ACCEPTED ELSE UNSUPPORTED

Obeyed(d, c) ==
  CASE c.command = COMPONENT_ARM_DISARM -> [d EXCEPT !.armed = c.param1 >= 1]
    [] c.command = NAV_TAKEOFF          -> [d EXCEPT !.altMm = c.param7 * 1000]
    [] c.command = DO_REPOSITION        -> [d EXCEPT !.lat = c.param5 * 10000000,
                                                     !.lon = c.param6 * 10000000,
                                                     !.altMm = c.param7 * 1000]
    [] c.command = NAV_LAND             -> [d EXCEPT !.altMm = 0]
    [] OTHER                            -> d

WrongAfter(d, c) == [Obeyed(d, c) EXCEPT !.bootMs = @ + 100, !.txSeq = @ + 2]
After(d, c) == [Obeyed(d, c) EXCEPT !.bootMs = @ + 100, !.txSeq = @ + 3]

\* The three answers to c, given the state after it.
Replies(d, c) ==
  LET Frame(msgid, m, seq) == EncodeFrame(msgid, m, seq, DRONE_SYS, DRONE_COMP) IN
  << Frame(COMMAND_ACK, [command |-> c.command, result |-> Result(c)], d.txSeq - 3),
     Frame(HEARTBEAT,
           [type |-> QUADROTOR, autopilot |-> GENERIC, customMode |-> 0, mavlinkVersion |-> 3,
            baseMode |-> CUSTOM_MODE_ENABLED + (IF d.armed THEN SAFETY_ARMED ELSE 0),
            systemStatus |-> IF d.armed THEN ACTIVE ELSE STANDBY], d.txSeq - 2),
     Frame(GLOBAL_POSITION_INT,
           [timeBootMs |-> d.bootMs, lat |-> d.lat, lon |-> d.lon, alt |-> d.altMm,
            relativeAlt |-> d.altMm, vx |-> 0, vy |-> 0, vz |-> 0, hdg |-> 0], d.txSeq - 1) >>

WrongKeep(rest) == <<>>
Keep(rest) == rest

\* Obeying one command: v holds the drone, the replies out and the history.
Serve(v, c) ==
  LET d == After(v.drone, c) IN
  [drone |-> d, out |-> v.out \o Replies(d, c),
   applied |-> Append(v.applied, [command |-> c, after |-> d]),
   asked |-> Append(v.asked, Len(v.applied) + 1)]
Served(s, commands) ==
  LET after[n \in 0..Len(commands)] ==
        IF n = 0 THEN [drone |-> drone, out |-> inbox[s], applied |-> applied, asked |-> asked[s]]
        ELSE Serve(after[n - 1], commands[n])
  IN after[Len(commands)]

\* ingest, with the reply callback of the session the payload came through.
Ingest(s, payload) ==
  \E r \in {Push(parser \o payload)} : \E v \in {Served(s, CommandsIn(r.frames))} :
    /\ parser' = Keep(r.rest) /\ fed' = fed \o payload
    /\ drone' = v.drone /\ inbox' = [inbox EXCEPT ![s] = v.out]
    /\ applied' = v.applied /\ asked' = [asked EXCEPT ![s] = v.asked]

-----------------------------------------------------------------------------
Messages(s) == SubSeq(script[s], 1, Len(sent[s]))

\* All of the current message is out and each command has its three replies.
Rested(s) ==
  /\ sent[s] # <<>> => Last(sent[s]) = Len(script[s][Len(sent[s])].payloads)
  /\ Len(heard[s]) >= 3 * Len(Wanted(Messages(s)))

\* The station's next piece: the rest of a message, or the start of the next.
More(s)    == sent[s] # <<>> /\ Last(sent[s]) < Len(script[s][Len(sent[s])].payloads)
HasNext(s) == More(s) \/ (Rested(s) /\ Len(sent[s]) < Len(script[s]))
Piece(s)   ==
  IF More(s) THEN [sent |-> [sent[s] EXCEPT ![Len(sent[s])] = @ + 1],
                   bytes |-> script[s][Len(sent[s])].payloads[Last(sent[s]) + 1]]
  ELSE [sent |-> Append(sent[s], 1), bytes |-> script[s][Len(sent[s]) + 1].payloads[1]]

\* The session brings it to the flight stack.
Feed(s) ==
  /\ HasNext(s)
  /\ \E p \in {Piece(s)} : sent' = [sent EXCEPT ![s] = p.sent] /\ Ingest(s, p.bytes)
  /\ UNCHANGED <<script, tidy, heard>>

\* describeFrame: the station decodes a reply with a parser of its own.
Described(reply) == [frames |-> Push(reply).frames, says |-> DecodeAll(reply)]
Hear(s) ==
  /\ inbox[s] # <<>>
  /\ inbox' = [inbox EXCEPT ![s] = Tail(@)]
  /\ heard' = [heard EXCEPT ![s] = Append(@, Described(Head(inbox[s])))]
  /\ UNCHANGED <<script, tidy, sent, parser, drone, fed, applied, asked>>

Next == \E s \in Station : Feed(s) \/ Hear(s)

\* The sessions deliver what they were given: weak fairness, the guards in place of
\* ENABLED, which they equal.
Spec ==
  /\ Init /\ [][Next]_vars
  /\ \A s \in Station : []<>~HasNext(s) \/ []<><<Feed(s)>>_vars
  /\ \A s \in Station : []<>(inbox[s] = <<>>) \/ []<><<Hear(s)>>_vars

-----------------------------------------------------------------------------
Bytes(bs) == bs \in Seq(Byte)
LongestFrame == HeaderLen + 255 + CrcLen + SignatureLen

\* Types; and the parser never keeps as much as the longest frame.
TypeOK ==
  /\ tidy \in BOOLEAN /\ DOMAIN sent = Station
  /\ Bytes(parser) /\ Bytes(fed) /\ Len(parser) < LongestFrame
  /\ parser # <<>> => parser[1] = STX
  /\ drone.lat \in Int /\ drone.lon \in Int /\ drone.altMm \in Int
  /\ drone.armed \in BOOLEAN /\ drone.txSeq \in Nat /\ drone.bootMs \in Nat
  /\ \A s \in Station : \A i \in DOMAIN inbox[s] : Bytes(inbox[s][i])

\* How the stations' software, the sessions and the other station's payloads cut
\* the stream shows nowhere: the drone has done what one look at all the bytes
\* would have made it do (the parser's buffer over chunk boundaries).
ChunkingInvisible ==
  [i \in DOMAIN applied |-> applied[i].command] = CommandsIn(Push(fed).frames)

\* With two stations' pieces mixed in one parser, and noise: no command is made of
\* parts of two, none is done twice, and its replies go to the station that sent it.
IsSubsequence(a, b) ==
  \E at \in [DOMAIN a -> DOMAIN b] :
    /\ \A i \in DOMAIN a : a[i] = b[at[i]]
    /\ \A i, j \in DOMAIN a : i < j => at[i] < at[j]
AppliedFor(s) == [i \in DOMAIN asked[s] |-> applied[asked[s][i]].command]
NoChimera == \A s \in Station : IsSubsequence(AppliedFor(s), Wanted(Messages(s)))

\* Each command has three replies: which command reply i is about.
About(s, i) == asked[s][(i + 2) \div 3]

\* What a station decodes is the drone as it was after the station's command, and a
\* drone told to go somewhere says that it is there.
TelemetryTrue ==
  \A s \in Station : \A i \in DOMAIN heard[s] :
    LET a == applied[About(s, i)]
        m == heard[s][i].says
    IN /\ Len(m) = 1
       /\ i % 3 = 1 => m[1].fields = [command |-> a.command.command, result |-> Result(a.command)]
       /\ i % 3 = 2 => (m[1].fields.baseMode >= SAFETY_ARMED) = a.after.armed
       /\ i % 3 = 0 =>
            /\ m[1].fields.lat = a.after.lat /\ m[1].fields.lon = a.after.lon
            /\ m[1].fields.alt = a.after.altMm /\ m[1].fields.timeBootMs = a.after.bootMs
            /\ a.command.command = DO_REPOSITION =>
                 /\ m[1].fields.lat = a.command.param5 * 10000000
                 /\ m[1].fields.lon = a.command.param6 * 10000000

\* A station that watches the sequence numbers for losses sees a gap only where the
\* other station was answered in between.
GapsExplained ==
  \A s \in Station : \A i \in 1..(Len(heard[s]) - 1) :
    LET seq(n) == heard[s][n].frames[1].seq
    IN (seq(i + 1) - seq(i)) % 256 = 1 \/ About(s, i + 1) > About(s, i) + 1

Finished(s) == Len(sent[s]) = Len(script[s]) /\ Rested(s)

\* If every station sends whole frames, each hears all replies and finishes, however
\* the others' commands come in between.
MissionCompletes == tidy => <>(\A s \in Station : Finished(s))
=============================================================================
