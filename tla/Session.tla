------------------------------ MODULE Session ------------------------------
(***************************************************************************)
(* An open session between one user and the drone over a reliable FIFO     *)
(* transport: commands, replies, in-band rekey and the per-epoch send      *)
(* budget.  rekey() suspends between the init it sends and the install of  *)
(* the keys, and the application may go on calling meanwhile.  Sequence    *)
(* numbers and receive budgets are ReplayWindow's; honest FIFO traffic     *)
(* never exhausts or replays there what the sender's budget allows here.   *)
(***************************************************************************)
EXTENDS Naturals, Sequences

CONSTANTS Cap,           \* maxFramesPerEpochKey()
          Apps,          \* the applications that may sit on the two ends
          MaxCalls,      \* bound: rekey() calls
          MaxSends       \* bound: commands and other control messages sent

ASSUME CapAssumption   == Cap \in Nat \ {0}
ASSUME AppAssumption   == Apps \subseteq [overlap : BOOLEAN, late : BOOLEAN, replies : SUBSET Nat]
ASSUME BoundAssumption == MaxCalls \in Nat /\ MaxSends \in Nat

Call  == 1..MaxCalls
Epoch == 0..MaxCalls
\* An epoch's keys: whose ephemeral the user put in, which init the drone
\* answered.  The ends hold the same keys iff they hold the same triple.
Key   == [epoch : Epoch, user : 0..MaxCalls, drone : 0..MaxCalls]
Key0  == [epoch |-> 0, user |-> 0, drone |-> 0]
Kind  == {"app", "note", "init", "resp"}
Frame == [epoch : Epoch, key : Key, kind : Kind, call : 0..MaxCalls, target : Epoch]

VARIABLES app,           \* overlap: the application calls on while a rekey is pending
                         \* late: onCommand may keep reply and use it once, later
                         \* replies: how many replies it may make to one command
          u,             \* user: epoch, key, epochTxCount
          d,             \* drone: epoch, key, epochTxCount, live (state non-null)
          calls,         \* each rekey() call: status, target epoch, answered init
          pendingRekey,  \* the call a rekey-resp will resolve; 0 is null
          u2d, d2u,      \* frames in flight
          closed,        \* some end has closed the link
          why,           \* what ended the session
          owed,          \* commands whose reply onCommand has kept for later
          sends,         \* bound: commands and notes sent so far
          overlapped,    \* history: something was sent while a rekey was pending
          overdrawn,     \* history: a reply kept for later was used at the cap
          dropped        \* history: drone frames the user silently dropped

rekey == <<calls, pendingRekey>>
hist  == <<sends, overlapped, overdrawn, dropped>>
vars  == <<app, u, d, rekey, u2d, d2u, closed, why, owed, hist>>

Why == {"none", "closed", "epoch", "aead", "nosession", "crash"}
CallState == [status : {"idle", "waiting", "got", "done", "threw"},
              target : Epoch, answered : 0..MaxCalls]

Init ==
  /\ app \in Apps
  /\ u = [epoch |-> 0, key |-> Key0, tx |-> 0]
  /\ d = [epoch |-> 0, key |-> Key0, tx |-> 0, live |-> TRUE]
  /\ calls = [i \in Call |-> [status |-> "idle", target |-> 0, answered |-> 0]]
  /\ pendingRekey = 0
  /\ u2d = <<>> /\ d2u = <<>>
  /\ closed = FALSE /\ why = "none"
  /\ owed = 0 /\ sends = 0 /\ overlapped = FALSE /\ overdrawn = FALSE /\ dropped = 0

-----------------------------------------------------------------------------
(* The user's session object. *)

Seal(end, kind, call, target) ==
  [epoch |-> end.epoch, key |-> end.key, kind |-> kind, call |-> call, target |-> target]

\* link.send: nothing leaves once the link is closed.
Enqueue(chan, frames) == IF closed THEN chan ELSE chan \o frames

Suspended(i) == calls[i].status \in {"waiting", "got"}
Rekeying     == \E i \in Call : Suspended(i)
AppMayCall   == app.overlap \/ ~Rekeying
HasBudget(end) == end.tx < Cap
Counted(end)   == [end EXCEPT !.tx = @ + 1]

\* send(), or refresh()/applyPolicy() once the cloud has answered: sendCtrl.
\* At the cap assertTxBudget throws and nothing changes.
Send(kind) ==
  /\ AppMayCall /\ sends < MaxSends
  /\ HasBudget(u)
  /\ u' = Counted(u)
  /\ u2d' = Enqueue(u2d, <<Seal(u, kind, 0, 0)>>)
  /\ sends' = sends + 1
  /\ overlapped' = (overlapped \/ Rekeying)
  /\ UNCHANGED <<d, rekey, d2u, closed, why, owed, overdrawn, dropped>>

\* rekey() up to its await: the awaiter is installed, then the init is sealed,
\* which throws at the cap.
RekeyCall(i) ==
  /\ AppMayCall
  /\ calls[i].status = "idle" /\ \A j \in 1..(i - 1) : calls[j].status # "idle"
  /\ pendingRekey' = i
  /\ \/ /\ HasBudget(u)
        /\ u' = Counted(u)
        /\ u2d' = Enqueue(u2d, <<Seal(u, "init", i, u.epoch + 1)>>)
        /\ calls' = [calls EXCEPT ![i].status = "waiting", ![i].target = u.epoch + 1]
     \/ /\ ~HasBudget(u)
        /\ calls' = [calls EXCEPT ![i].status = "threw", ![i].target = u.epoch + 1]
        /\ UNCHANGED <<u, u2d>>
  /\ overlapped' = (overlapped \/ Rekeying)
  /\ UNCHANGED <<d, d2u, closed, why, owed, sends, overdrawn, dropped>>

WrongInstalledKey(i)   == [epoch |-> calls[i].target, key |-> u.key, tx |-> 0]
WrongInstalledEpoch(i) ==
  [epoch |-> u.epoch, tx |-> 0,
   key |-> [epoch |-> calls[i].target, user |-> i, drone |-> calls[i].answered]]
Installed(i) ==
  [epoch |-> calls[i].target, tx |-> 0,
   key |-> [epoch |-> calls[i].target, user |-> i, drone |-> calls[i].answered]]

\* The continuation of rekey() after its await, a microtask of its own.
Install(i) ==
  /\ calls[i].status = "got"
  /\ pendingRekey' = 0
  /\ calls' = [calls EXCEPT ![i].status = "done"]
  /\ u' = Installed(i)
  /\ UNCHANGED <<d, u2d, d2u, closed, why, owed, hist>>

\* The one call that a rekey-resp for epoch e resolves, if it is still awaited.
WrongResolved(e) ==
  {i \in Call : i = pendingRekey /\ calls[i].status = "waiting" /\ e = u.epoch}
Resolved(e) ==
  {i \in Call : i = pendingRekey /\ calls[i].status = "waiting" /\ calls[i].target = e}

\* link.onMessage: another epoch, or keys that do not verify, drop silently.
UserReceive ==
  /\ d2u # <<>>
  /\ d2u' = Tail(d2u)
  /\ LET f == Head(d2u) IN
     \/ /\ f.epoch # u.epoch \/ f.key # u.key
        /\ dropped' = dropped + 1
        /\ UNCHANGED rekey
     \/ /\ f.epoch = u.epoch /\ f.key = u.key
        /\ calls' = [i \in Call |->
             IF f.kind = "resp" /\ i \in Resolved(f.target)
             THEN [calls[i] EXCEPT !.status = "got", !.answered = f.call] ELSE calls[i]]
        /\ UNCHANGED <<pendingRekey, dropped>>
  /\ UNCHANGED <<u, d, u2d, closed, why, owed, sends, overlapped, overdrawn>>

-----------------------------------------------------------------------------
(* The drone's session. *)

\* abort() and the close event it leads to: the link and the state are gone.
TearDown(reason) ==
  /\ closed' = TRUE /\ why' = reason
  /\ d' = [d EXCEPT !.live = FALSE]
  /\ UNCHANGED <<d2u, owed>>

\* sendFrame at the cap: dispose(), then an exception nobody catches.
Crash == TearDown("crash")

Handling == d.live /\ u2d # <<>> /\ u2d' = Tail(u2d)
Opens(f) == f.epoch = d.epoch /\ f.key = d.key

\* handleData: the epoch gate, then the AEAD.
DroneIgnores ==
  /\ Handling /\ ~Opens(Head(u2d))
  /\ UNCHANGED <<u, d, rekey, d2u, closed, why, owed, hist>>
DroneRefuses ==
  /\ Handling /\ ~Opens(Head(u2d))
  /\ TearDown(IF Head(u2d).epoch # d.epoch THEN "epoch" ELSE "aead")
  /\ UNCHANGED <<u, rekey, hist>>

\* handleData on a link whose session is gone.
NoSession ==
  /\ ~d.live /\ ~closed
  /\ u2d # <<>> /\ u2d' = Tail(u2d)
  /\ TearDown("nosession")
  /\ UNCHANGED <<u, rekey, hist>>

\* An application command: onCommand makes n replies at once, and may keep
\* reply for later.
Command(n) ==
  /\ Handling /\ Opens(Head(u2d)) /\ Head(u2d).kind = "app"
  /\ \/ /\ d.tx + n <= Cap
        /\ d' = [d EXCEPT !.tx = @ + n]
        /\ d2u' = Enqueue(d2u, [k \in 1..n |-> Seal(d, "app", 0, 0)])
        /\ owed' \in IF app.late THEN {owed, owed + 1} ELSE {owed}
        /\ UNCHANGED <<closed, why>>
     \/ d.tx + n > Cap /\ Crash
  /\ UNCHANGED <<u, rekey, hist>>

\* reply called after onCommand returned.  At the cap sendFrame disposes of the
\* session and leaves the link open; with no session it only throws.  Either
\* throw is the application's: it goes on, or the process ends there.
LateReply ==
  /\ owed > 0 /\ owed' = owed - 1
  /\ \/ /\ d.live /\ HasBudget(d)
        /\ d' = Counted(d)
        /\ d2u' = Enqueue(d2u, <<Seal(d, "app", 0, 0)>>)
        /\ UNCHANGED <<closed, why, overdrawn>>
     \/ /\ ~(d.live /\ HasBudget(d))
        /\ d' = [d EXCEPT !.live = FALSE]
        /\ overdrawn' = (overdrawn \/ d.live)
        /\ \/ UNCHANGED <<closed, why>>
           \/ closed' = TRUE /\ why' = IF closed THEN why ELSE "crash"
        /\ UNCHANGED d2u
  /\ UNCHANGED <<u, rekey, u2d, sends, overlapped, dropped>>

\* refresh and policy touch no key (module of their own).
Note ==
  /\ Handling /\ Opens(Head(u2d)) /\ Head(u2d).kind = "note"
  /\ UNCHANGED <<u, d, rekey, d2u, closed, why, owed, hist>>

TxAfterRekey(n)      == 0

KeyFor(f) == [epoch |-> f.target, user |-> f.call, drone |-> f.call]

\* The answer is sealed before the switch, under the keys the user still holds.
WrongAnswer(f) ==
  Seal([epoch |-> f.target, key |-> KeyFor(f)], "resp", f.call, f.target)
Answer(f) == Seal(d, "resp", f.call, f.target)

\* handleRekeyInit.  A frame that opens is of this epoch, and so is the target
\* its init asks for; at the cap the answer is the uncaught throw.
RekeyInit ==
  /\ Handling /\ Opens(Head(u2d)) /\ Head(u2d).kind = "init"
  /\ LET f == Head(u2d) IN
     \/ /\ HasBudget(d)
        /\ d2u' = Enqueue(d2u, <<Answer(f)>>)
        /\ d' = [d EXCEPT !.epoch = f.target, !.key = KeyFor(f), !.tx = TxAfterRekey(@ + 1)]
        /\ UNCHANGED <<closed, why, owed>>
     \/ ~HasBudget(d) /\ Crash
  /\ UNCHANGED <<u, rekey, hist>>

\* The user's close(), or the transport failing.
CloseLink ==
  /\ ~closed
  /\ closed' = TRUE /\ why' = "closed"
  /\ UNCHANGED <<u, d, rekey, u2d, d2u, owed, hist>>

\* The drone's close event: dispose().
Dispose ==
  /\ closed /\ d.live
  /\ d' = [d EXCEPT !.live = FALSE]
  /\ UNCHANGED <<u, rekey, u2d, d2u, closed, why, owed, hist>>

DroneReceive == DroneRefuses \/ NoSession \/ (\E n \in app.replies : Command(n)) \/ Note \/ RekeyInit

Next ==
  /\ \/ \E kind \in {"app", "note"} : Send(kind)
     \/ \E i \in Call : RekeyCall(i) \/ Install(i)
     \/ UserReceive \/ DroneReceive \/ LateReply
     \/ CloseLink \/ Dispose
  /\ UNCHANGED app

Spec == Init /\ [][Next]_vars

\* The event loops keep delivering messages and running continuations; nothing
\* forces the application to call, to reply late, or the link to close.
FairSpec ==
  /\ Spec
  /\ WF_vars(UserReceive /\ UNCHANGED app) /\ WF_vars(DroneReceive /\ UNCHANGED app)
  /\ \A i \in Call : WF_vars(Install(i) /\ UNCHANGED app)

-----------------------------------------------------------------------------
TypeOK ==
  /\ app \in Apps
  /\ u \in [epoch : Epoch, key : Key, tx : 0..Cap]
  /\ d \in [epoch : Epoch, key : Key, tx : 0..Cap, live : BOOLEAN]
  /\ calls \in [Call -> CallState] /\ pendingRekey \in 0..MaxCalls
  /\ u2d \in Seq(Frame) /\ d2u \in Seq(Frame)
  /\ closed \in BOOLEAN /\ why \in Why
  /\ owed \in Nat /\ sends \in 0..MaxSends /\ dropped \in Nat
  /\ overlapped \in BOOLEAN /\ overdrawn \in BOOLEAN

\* "All in-band over the authenticated channel, without tearing the transport":
\* with calls one at a time and at most one prompt reply to each command,
\* nothing the two honest ends do to each other ends the session.
Prompt     == ~app.late /\ app.replies \subseteq {0, 1}
NoTearDown == (~app.overlap /\ Prompt) => why \in {"none", "closed"}

\* The drone refuses an honest frame, for its epoch or its keys, only if the
\* user's application sent something while a rekey was pending, and for want of
\* a session only if the drone's used a reply it had kept when the budget was spent.
RefusalHasCause ==
  /\ why \in {"epoch", "aead"} => overlapped
  /\ why = "nosession" => overdrawn

\* Unless calls overlap a rekey, the drone is at most the one epoch ahead that
\* a pending rekey explains, and at the same epoch both ends hold the same keys.
Agreement ==
  /\ d.epoch \in {u.epoch, u.epoch + 1}
  /\ d.epoch = u.epoch => d.key = u.key
  /\ d.epoch # u.epoch => Rekeying
EpochsAgree == ~app.overlap => Agreement

\* Used one call at a time, and with no reply kept across a rekey, the session
\* loses no reply.
NothingDropped == ~(app.overlap \/ app.late) => dropped = 0

\* The drone's send budget survives any conversation in which each command has
\* at most one reply: no handler ends in the uncaught throw of sendFrame.
NoCrash == why # "crash"

\* One call at a time, a rekey() completes unless the link is closed under it.
RekeySettles ==
  ~app.overlap => \A i \in Call : Suspended(i) ~> (~Suspended(i) \/ closed)

\* Even if overlapping rekeys leave the ends with different keys for the same
\* epoch, the drone never goes on with such a session: the init that lost is
\* still in flight, and its epoch is refused.
Split == d.epoch = u.epoch /\ d.key # u.key
SplitIsTornDown == Split ~> (~d.live \/ closed)
=============================================================================
