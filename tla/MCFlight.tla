------------------------------ MODULE MCFlight ------------------------------
(* Station "a" flies the demo's mission, "b" one message of every kind. *)
EXTENDS Flight

Whole1(c, seq) == [payloads |-> <<CommandFrame(c, seq)>>, commands |-> <<c>>, whole |-> TRUE]
Split(c, seq, n) ==
  LET f == CommandFrame(c, seq) IN
  [payloads |-> <<SubSeq(f, 1, n), SubSeq(f, n + 1, Len(f))>>, commands |-> <<c>>, whole |-> FALSE]
Noise == <<0, 171, STX, 3, 0>>
Silent(bytes)  == [payloads |-> <<bytes>>, commands |-> <<>>, whole |-> bytes # Noise]

Waypoint  == [Plain EXCEPT !.command = 16]
Elsewhere == [Arm EXCEPT !.targetSystem = 2]

Text    == <<104, 105>>
Beat    == EncodeFrame(HEARTBEAT, [type |-> 6, autopilot |-> 8, customMode |-> 0, mavlinkVersion |-> 3,
                                   baseMode |-> 0, systemStatus |-> ACTIVE], 9, GCS_SYS, GCS_COMP)
Turn    == EncodeFrame(ATTITUDE, [timeBootMs |-> 99, roll |-> 0, pitch |-> 0, yaw |-> 1, rollspeed |-> 0,
                                  pitchspeed |-> 0, yawspeed |-> 0], 8, GCS_SYS, GCS_COMP)
Damaged == LET f == CommandFrame(Land, 7) IN [f EXCEPT ![Len(f)] = (@ + 1) % 256]
Others  == CommandFrame(Elsewhere, 0)

Mission == << Whole1(Arm, 0), Whole1(TakeOff, 1), Whole1(Goto, 2), Whole1(Land, 3) >>
Both    == [payloads |-> <<Text \o CommandFrame(Arm, 4) \o CommandFrame(Goto, 5)>>,
            commands |-> <<Arm, Goto>>, whole |-> TRUE]

AllScripts ==
  [a |-> { SubSeq(Mission, 1, 2), SubSeq(Mission, 3, 4) },
   b |-> { <<Whole1(Land, 1), Whole1(Waypoint, 2)>>, <<Both>>,
           <<Silent(Text), Whole1(Land, 1)>>, <<Silent(Beat \o Turn), Whole1(Land, 1)>>,
           <<Silent(Others), Whole1(TakeOff, 1)>>, <<Silent(Damaged), Whole1(TakeOff, 1)>>,
           <<Split(Land, 1, 2), Whole1(Arm, 2)>>, <<Split(TakeOff, 1, 20), Whole1(Arm, 2)>>,
           <<Split(TakeOff, 1, 43)>>, <<Silent(Noise), Whole1(Arm, 1), Whole1(Arm, 2)>> }]
=============================================================================
