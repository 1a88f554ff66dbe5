--------------------------- MODULE SessionProofs ---------------------------
(***************************************************************************)
(* The session's key switch, proved for every budget, every application    *)
(* and any number of commands and rekeys: as long as nothing is sent while *)
(* a rekey is pending, the two ends walk through it in step.               *)
(***************************************************************************)
EXTENDS Session, SequenceTheorems, TLAPS

IsIdle(i) == calls[i].status = "idle"

\* rekey() calls begin in order, and no epoch outruns the number of calls.
Numbered ==
  \A i \in Call : IsIdle(i) =>
    /\ u.epoch < i
    /\ \A k \in Call : ~IsIdle(k) => calls[k].target < i

TInv == TypeOK /\ Numbered

-----------------------------------------------------------------------------
LEMMA SealTyped ==
  ASSUME NEW e \in Epoch, NEW k \in Key, NEW end, end.epoch = e, end.key = k,
         NEW kind \in Kind, NEW call \in 0..MaxCalls, NEW target \in Epoch
  PROVE  Seal(end, kind, call, target) \in Frame
  BY DEF Seal, Frame

LEMMA EnqueueTyped ==
  ASSUME NEW s \in Seq(Frame), NEW t \in Seq(Frame)
  PROVE  Enqueue(s, t) \in Seq(Frame)
  BY DEF Enqueue

LEMMA OneFrame ==
  ASSUME NEW f \in Frame
  PROVE  <<f>> \in Seq(Frame)
  OBVIOUS

LEMMA TailTyped ==
  ASSUME NEW s \in Seq(Frame), s # <<>>
  PROVE  Head(s) \in Frame /\ Tail(s) \in Seq(Frame)
  OBVIOUS

UserEnd == [epoch : Epoch, key : Key, tx : 0..Cap]

LEMMA CountedTyped ==
  ASSUME NEW e \in UserEnd, HasBudget(e)
  PROVE  /\ Counted(e) \in UserEnd
         /\ Counted(e).epoch = e.epoch /\ Counted(e).key = e.key /\ Counted(e).tx = e.tx + 1
  BY CapAssumption DEF UserEnd, HasBudget, Counted

LEMMA InitTyped == Init => TInv
<1> SUFFICES ASSUME Init PROVE TInv
  OBVIOUS
<1> USE CapAssumption, BoundAssumption
<1>1. Key0 \in Key /\ 0 \in Epoch
  BY DEF Key0, Key, Epoch
<1>2. calls \in [Call -> CallState]
  BY <1>1 DEF Init, CallState
<1>3. TypeOK
  <2>1. u \in [epoch : Epoch, key : Key, tx : 0..Cap]
    BY <1>1 DEF Init
  <2>2. d \in [epoch : Epoch, key : Key, tx : 0..Cap, live : BOOLEAN]
    BY <1>1 DEF Init
  <2>3. u2d \in Seq(Frame) /\ d2u \in Seq(Frame)
    BY DEF Init
  <2>4. closed \in BOOLEAN /\ overlapped \in BOOLEAN /\ overdrawn \in BOOLEAN /\ why \in Why
    BY DEF Init, Why
  <2>5. /\ app \in Apps /\ pendingRekey \in 0..MaxCalls
        /\ owed \in Nat /\ sends \in 0..MaxSends /\ dropped \in Nat
    BY DEF Init
  <2> QED
    BY <1>2, <2>1, <2>2, <2>3, <2>4, <2>5 DEF TypeOK
<1>4. Numbered
  BY DEF Init, Numbered, IsIdle, Call
<1> QED
  BY <1>3, <1>4 DEF TInv

LEMMA SendTyped ==
  ASSUME TInv, NEW kind \in {"app", "note"}, Send(kind), UNCHANGED app
  PROVE  TInv'
<1> USE CapAssumption, BoundAssumption
<1>0. 0 \in 0..MaxCalls /\ 0 \in Epoch /\ kind \in Kind
  BY DEF Epoch, Kind
<1>1. Seal(u, kind, 0, 0) \in Frame
  BY <1>0, SealTyped DEF TInv, TypeOK
<1>2. u2d' \in Seq(Frame)
  BY <1>1, OneFrame, EnqueueTyped DEF Send, TInv, TypeOK
<1>3. u' \in [epoch : Epoch, key : Key, tx : 0..Cap] /\ u'.epoch = u.epoch
  BY CountedTyped DEF Send, TInv, TypeOK, UserEnd
<1>4. TypeOK'
  BY <1>2, <1>3 DEF Send, TInv, TypeOK, rekey
<1> QED
  BY <1>3, <1>4 DEF Send, rekey, TInv, Numbered, IsIdle

LEMMA RekeyCallTyped ==
  ASSUME TInv, NEW i \in Call, RekeyCall(i), UNCHANGED app
  PROVE  TInv'
<1> USE CapAssumption, BoundAssumption
<1> DEFINE t == u.epoch + 1
<1>0. i \in 1..MaxCalls /\ u.epoch \in 0..MaxCalls /\ IsIdle(i) /\ u.epoch < i
  BY DEF RekeyCall, TInv, TypeOK, Numbered, IsIdle, Call, Epoch
<1>1. t \in Epoch /\ i \in 0..MaxCalls /\ t <= i /\ "init" \in Kind
  BY <1>0 DEF Epoch, Kind
<1> HIDE DEF t
<1>2. PICK s \in {"waiting", "threw"} :
        calls' = [calls EXCEPT ![i].status = s, ![i].target = t]
  BY DEF RekeyCall, t
<1>3. calls' \in [Call -> CallState]
  BY <1>1, <1>2 DEF TInv, TypeOK, CallState
<1>4. Seal(u, "init", i, t) \in Frame
  BY <1>1, SealTyped DEF TInv, TypeOK
<1>5. u2d' \in Seq(Frame)
  <2>1. u2d' \in {u2d, Enqueue(u2d, <<Seal(u, "init", i, t)>>)}
    BY DEF RekeyCall, t
  <2>2. <<Seal(u, "init", i, t)>> \in Seq(Frame) /\ u2d \in Seq(Frame)
    BY <1>4, OneFrame DEF TInv, TypeOK
  <2>3. Enqueue(u2d, <<Seal(u, "init", i, t)>>) \in Seq(Frame)
    BY <2>2, EnqueueTyped
  <2> QED
    BY <2>1, <2>2, <2>3
<1>6. u' \in [epoch : Epoch, key : Key, tx : 0..Cap] /\ u'.epoch = u.epoch
  BY CountedTyped DEF RekeyCall, TInv, TypeOK, UserEnd
<1>7. TypeOK'
  BY <1>1, <1>3, <1>5, <1>6 DEF RekeyCall, TInv, TypeOK
<1>8. Numbered'
  <2> SUFFICES ASSUME NEW j \in Call, IsIdle(j)'
               PROVE  u'.epoch < j /\ \A k \in Call : ~IsIdle(k)' => calls'[k].target < j
    BY DEF Numbered
  <2>1. j # i /\ IsIdle(j)
    BY <1>2 DEF IsIdle, TInv, TypeOK, CallState
  <2>2. i < j
    BY <2>1 DEF RekeyCall, IsIdle, Call
  <2>3. u'.epoch < j
    BY <1>6, <2>1 DEF TInv, Numbered
  <2> QED
    <3> SUFFICES ASSUME NEW k \in Call, ~IsIdle(k)' PROVE calls'[k].target < j
      BY <2>3
    <3>1. CASE k = i
      BY <3>1, <1>1, <1>2, <2>2 DEF TInv, TypeOK, CallState, Call, Epoch
    <3>2. CASE k # i
      BY <3>2, <1>2, <2>1 DEF TInv, TypeOK, CallState, Numbered, IsIdle
    <3> QED
      BY <3>1, <3>2
<1> QED
  BY <1>7, <1>8 DEF TInv

LEMMA InstallTyped ==
  ASSUME TInv, NEW i \in Call, Install(i), UNCHANGED app
  PROVE  TInv'
<1> USE CapAssumption, BoundAssumption
<1>0. i \in 0..MaxCalls /\ calls[i].target \in Epoch /\ calls[i].answered \in 0..MaxCalls
  BY DEF Install, TInv, TypeOK, Call, CallState
<1>1. u' \in [epoch : Epoch, key : Key, tx : 0..Cap] /\ u'.epoch = calls[i].target
  BY <1>0 DEF Install, Installed, Key
<1>2. calls' \in [Call -> CallState]
  BY DEF Install, TInv, TypeOK, CallState
<1>3. TypeOK'
  BY <1>1, <1>2 DEF Install, TInv, TypeOK, hist
<1>4. \A k \in Call : IsIdle(k)' <=> IsIdle(k)
  BY DEF Install, IsIdle, TInv, TypeOK, CallState
<1>5. \A k \in Call : calls'[k].target = calls[k].target
  BY DEF Install, TInv, TypeOK, CallState
<1>6. ~IsIdle(i)
  BY DEF Install, IsIdle
<1> QED
  BY <1>1, <1>3, <1>4, <1>5, <1>6 DEF TInv, Numbered

LEMMA UserReceiveTyped ==
  ASSUME TInv, UserReceive, UNCHANGED app
  PROVE  TInv'
<1> USE CapAssumption, BoundAssumption
<1> DEFINE f == Head(d2u)
<1>0. f \in Frame /\ d2u' \in Seq(Frame)
  BY TailTyped DEF UserReceive, TInv, TypeOK
<1>1. f.call \in 0..MaxCalls
  BY <1>0 DEF Frame
<1> HIDE DEF f
<1>2. \A k \in Call : \/ calls'[k] = calls[k]
                      \/ /\ calls[k].status = "waiting"
                         /\ calls'[k] = [calls[k] EXCEPT !.status = "got", !.answered = f.call]
  BY DEF UserReceive, Resolved, rekey, f
<1>3. calls' = [k \in Call |-> calls'[k]]
  <2>1. CASE calls' = calls
    BY <2>1 DEF TInv, TypeOK
  <2>2. CASE calls' # calls
    BY <2>2 DEF UserReceive, rekey
  <2> QED
    BY <2>1, <2>2
<1>4. calls' \in [Call -> CallState]
  <2>1. ASSUME NEW k \in Call PROVE calls'[k] \in CallState
    <3>1. calls[k] \in CallState
      BY DEF TInv, TypeOK
    <3> QED
      BY <1>1, <1>2, <3>1 DEF CallState
  <2> QED
    BY <1>3, <2>1
<1>5. TypeOK'
  <2>1. pendingRekey' = pendingRekey /\ dropped' \in {dropped, dropped + 1}
    BY DEF UserReceive, rekey
  <2>2. UNCHANGED <<u, d, u2d, closed, why, owed, sends, overlapped, overdrawn>>
    BY DEF UserReceive
  <2> QED
    BY <1>0, <1>4, <2>1, <2>2 DEF TInv, TypeOK
<1>6. \A k \in Call : (IsIdle(k)' <=> IsIdle(k)) /\ calls'[k].target = calls[k].target
  <2> SUFFICES ASSUME NEW k \in Call
               PROVE  (IsIdle(k)' <=> IsIdle(k)) /\ calls'[k].target = calls[k].target
    OBVIOUS
  <2>1. calls[k] \in CallState
    BY DEF TInv, TypeOK
  <2> QED
    BY <1>2, <2>1 DEF IsIdle, CallState
<1>7. u'.epoch = u.epoch
  BY DEF UserReceive
<1> QED
  BY <1>5, <1>6, <1>7 DEF TInv, Numbered

DroneEnd == [epoch : Epoch, key : Key, tx : 0..Cap, live : BOOLEAN]

\* What the drone's steps have in common.
LEMMA DroneMayOverdraw ==
  ASSUME TInv, UNCHANGED <<app, u, rekey, sends, overlapped, dropped>>, d' \in DroneEnd,
         u2d' \in Seq(Frame), d2u' \in Seq(Frame),
         closed' \in BOOLEAN, why' \in Why, owed' \in Nat, overdrawn' \in BOOLEAN
  PROVE  TInv'
<1>1. TypeOK'
  BY DEF TInv, TypeOK, DroneEnd, rekey
<1> QED
  BY <1>1 DEF TInv, Numbered, IsIdle, rekey

LEMMA DroneTyped ==
  ASSUME TInv, UNCHANGED <<app, u, rekey, hist>>, d' \in DroneEnd,
         u2d' \in Seq(Frame), d2u' \in Seq(Frame),
         closed' \in BOOLEAN, why' \in Why, owed' \in Nat
  PROVE  TInv'
<1>1. overdrawn' \in BOOLEAN /\ UNCHANGED <<sends, overlapped, dropped>>
  BY DEF TInv, TypeOK, hist
<1> QED
  BY <1>1, DroneMayOverdraw

LEMMA HandlingTyped ==
  ASSUME TInv, Handling
  PROVE  Head(u2d) \in Frame /\ u2d' \in Seq(Frame)
  BY TailTyped DEF TInv, TypeOK, Handling

LEMMA TearDownTyped ==
  ASSUME TInv, NEW reason \in Why, TearDown(reason)
  PROVE  /\ d' \in DroneEnd /\ d2u' \in Seq(Frame)
         /\ closed' \in BOOLEAN /\ why' \in Why /\ owed' \in Nat
<1>1. d \in DroneEnd
  BY DEF TInv, TypeOK, DroneEnd
<1>2. d' = [d EXCEPT !.live = FALSE]
  BY DEF TearDown
<1>3. d' \in DroneEnd
  BY <1>1, <1>2 DEF DroneEnd
<1> QED
  BY <1>3 DEF TearDown, TInv, TypeOK

LEMMA CrashTyped ==
  ASSUME TInv, Crash
  PROVE  /\ d' \in DroneEnd /\ d2u' \in Seq(Frame)
         /\ closed' \in BOOLEAN /\ why' \in Why /\ owed' \in Nat
  BY TearDownTyped DEF Crash, Why

LEMMA DroneRefusesTyped ==
  ASSUME TInv, DroneRefuses, UNCHANGED app
  PROVE  TInv'
<1>1. PICK reason \in Why : TearDown(reason)
  BY DEF DroneRefuses, Why
<1> QED
  BY <1>1, TearDownTyped, HandlingTyped, DroneTyped DEF DroneRefuses, hist

LEMMA NoSessionTyped ==
  ASSUME TInv, NoSession, UNCHANGED app
  PROVE  TInv'
<1>1. "nosession" \in Why /\ u2d' \in Seq(Frame)
  BY TailTyped DEF NoSession, Why, TInv, TypeOK
<1> QED
  BY <1>1, TearDownTyped, DroneTyped DEF NoSession

LEMMA RepliesTyped ==
  ASSUME NEW e \in Epoch, NEW k \in Key, NEW end, end.epoch = e, end.key = k, NEW n \in Nat
  PROVE  [m \in 1..n |-> Seal(end, "app", 0, 0)] \in Seq(Frame)
<1>1. 0 \in 0..MaxCalls /\ 0 \in Epoch /\ "app" \in Kind
  BY BoundAssumption DEF Epoch, Kind
<1>2. Seal(end, "app", 0, 0) \in Frame
  BY <1>1, SealTyped
<1> QED
  BY <1>2

LEMMA CommandTyped ==
  ASSUME TInv, NEW n \in app.replies, Command(n), UNCHANGED app
  PROVE  TInv'
<1>0. n \in Nat
  BY AppAssumption DEF TInv, TypeOK
<1>1. u2d' \in Seq(Frame)
  BY HandlingTyped DEF Command
<1>2. CASE d.tx + n <= Cap /\ d' = [d EXCEPT !.tx = @ + n]
  <2>1. d \in DroneEnd
    BY DEF TInv, TypeOK, DroneEnd
  <2>2. d.tx + n \in 0..Cap
    BY <1>0, <1>2, <2>1, CapAssumption DEF DroneEnd
  <2>3. d' \in DroneEnd
    BY <1>2, <2>1, <2>2 DEF DroneEnd
  <2>4. ~Crash
    BY <1>2, <2>1 DEF Crash, TearDown, Command, DroneEnd, Handling
  <2>5. [m \in 1..n |-> Seal(d, "app", 0, 0)] \in Seq(Frame)
    BY <1>0, <2>1, RepliesTyped DEF DroneEnd
  <2>6. d2u' \in Seq(Frame) /\ owed' \in Nat /\ UNCHANGED <<closed, why>>
    BY <2>4, <2>5, EnqueueTyped DEF Command, TInv, TypeOK
  <2> QED
    BY <1>1, <2>3, <2>6, DroneTyped DEF Command, TInv, TypeOK
<1>3. CASE Crash
  BY <1>1, <1>3, CrashTyped, DroneTyped DEF Command
<1> QED
  BY <1>2, <1>3 DEF Command

LEMMA LateReplyTyped ==
  ASSUME TInv, LateReply, UNCHANGED app
  PROVE  TInv'
<1>1. /\ d \in DroneEnd /\ owed \in Nat /\ u2d \in Seq(Frame) /\ d2u \in Seq(Frame)
      /\ closed \in BOOLEAN /\ why \in Why /\ overdrawn \in BOOLEAN
  BY DEF TInv, TypeOK, DroneEnd
<1>2. owed' \in Nat /\ UNCHANGED <<u, rekey, u2d, sends, overlapped, dropped>>
  BY <1>1 DEF LateReply
<1>3. CASE d.live /\ HasBudget(d)
  <2>1. d' \in DroneEnd
    BY <1>1, <1>3, CapAssumption DEF LateReply, HasBudget, Counted, DroneEnd
  <2>2. <<Seal(d, "app", 0, 0)>> \in Seq(Frame)
    <3>1. 0 \in 0..MaxCalls /\ 0 \in Epoch /\ "app" \in Kind
      BY BoundAssumption DEF Epoch, Kind
    <3> QED
      BY <1>1, <3>1, SealTyped, OneFrame DEF DroneEnd
  <2>3. d2u' \in Seq(Frame) /\ UNCHANGED <<closed, why, overdrawn>>
    BY <1>3, <2>2, EnqueueTyped DEF LateReply, TInv, TypeOK
  <2> QED
    BY <1>1, <1>2, <2>1, <2>3, DroneMayOverdraw
<1>4. CASE ~(d.live /\ HasBudget(d))
  <2>1. d' \in DroneEnd
    BY <1>1, <1>4 DEF LateReply, DroneEnd
  <2>2. closed' \in BOOLEAN /\ why' \in Why /\ overdrawn' \in BOOLEAN /\ d2u' = d2u
    BY <1>1, <1>4 DEF LateReply, DroneEnd, Why
  <2> QED
    BY <1>1, <1>2, <2>1, <2>2, DroneMayOverdraw
<1> QED
  BY <1>3, <1>4

LEMMA NoteTyped ==
  ASSUME TInv, Note, UNCHANGED app
  PROVE  TInv'
  BY HandlingTyped, DroneTyped DEF Note, TInv, TypeOK, DroneEnd

LEMMA RekeyInitTyped ==
  ASSUME TInv, RekeyInit, UNCHANGED app
  PROVE  TInv'
<1> DEFINE f == Head(u2d)
<1>1. f \in Frame /\ u2d' \in Seq(Frame)
  BY HandlingTyped DEF RekeyInit
<1>2. f.call \in 0..MaxCalls /\ f.target \in Epoch
  BY <1>1 DEF Frame
<1>3. CASE HasBudget(d)
  <2>1. d \in DroneEnd
    BY DEF TInv, TypeOK, DroneEnd
  <2>2. KeyFor(f) \in Key
    BY <1>2 DEF KeyFor, Key
  <2>3. /\ d2u' = Enqueue(d2u, <<Answer(f)>>)
        /\ d' = [d EXCEPT !.epoch = f.target, !.key = KeyFor(f), !.tx = TxAfterRekey(@ + 1)]
        /\ UNCHANGED <<closed, why, owed>>
    BY <1>3 DEF RekeyInit
  <2>4. d' \in DroneEnd
    <3>1. d' = [epoch |-> f.target, key |-> KeyFor(f), tx |-> 0, live |-> d.live]
      BY <2>1, <2>3 DEF DroneEnd, TxAfterRekey
    <3>2. d.live \in BOOLEAN /\ 0 \in 0..Cap
      BY <2>1, CapAssumption DEF DroneEnd
    <3> HIDE DEF f
    <3> QED
      BY <1>2, <2>2, <3>1, <3>2 DEF DroneEnd
  <2>5. Answer(f) \in Frame
    BY <1>2, <2>1, SealTyped DEF Answer, DroneEnd, Kind
  <2>6. d2u' \in Seq(Frame)
    BY <2>3, <2>5, OneFrame, EnqueueTyped DEF TInv, TypeOK
  <2> QED
    <3>1. closed' \in BOOLEAN /\ why' \in Why /\ owed' \in Nat
      BY <2>3 DEF TInv, TypeOK
    <3>2. UNCHANGED <<app, u, rekey, hist>>
      BY DEF RekeyInit
    <3> QED
      BY <1>1, <2>4, <2>6, <3>1, <3>2, DroneTyped
<1>4. CASE ~HasBudget(d)
  BY <1>1, <1>4, CrashTyped, DroneTyped DEF RekeyInit
<1> QED
  BY <1>3, <1>4

LEMMA CloseLinkTyped ==
  ASSUME TInv, CloseLink, UNCHANGED app
  PROVE  TInv'
  BY DroneTyped DEF CloseLink, TInv, TypeOK, DroneEnd, Why

LEMMA DisposeTyped ==
  ASSUME TInv, Dispose, UNCHANGED app
  PROVE  TInv'
<1>1. d \in DroneEnd
  BY DEF TInv, TypeOK, DroneEnd
<1>2. d' \in DroneEnd
  BY <1>1 DEF Dispose, DroneEnd
<1> QED
  BY <1>2, DroneTyped DEF Dispose, TInv, TypeOK

LEMMA NextTyped == TInv /\ [Next]_vars => TInv'
<1> SUFFICES ASSUME TInv, [Next]_vars PROVE TInv'
  OBVIOUS
<1>1. CASE UNCHANGED vars
  BY <1>1 DEF vars, hist, rekey, TInv, TypeOK, Numbered, IsIdle
<1>2. CASE Next
  BY <1>2, SendTyped, RekeyCallTyped, InstallTyped, UserReceiveTyped, DroneRefusesTyped,
     NoSessionTyped, CommandTyped, LateReplyTyped, NoteTyped, RekeyInitTyped, CloseLinkTyped, DisposeTyped
     DEF Next, DroneReceive
<1> QED
  BY <1>1, <1>2

LEMMA Typed == Spec => []TInv
  BY InitTyped, NextTyped, PTL DEF Spec

\* Epochs, keys, budgets and frames keep their ranges; no rekey aims past the
\* number of rekeys.
THEOREM TypeCorrect == Spec => []TypeOK
<1>1. TInv => TypeOK
  BY DEF TInv
<1> QED
  BY <1>1, Typed, PTL

-----------------------------------------------------------------------------
(* As long as nothing is sent while a rekey is pending ... *)

Under(f, end) == f.epoch = end.epoch /\ f.key = end.key
Old(f) == Under(f, u) /\ f.kind = "app"
New(f) == Under(f, d) /\ f.kind = "app"

\* ... the ends are either level, or the drone is ahead by the answer to call i.
Level    == d.epoch = u.epoch /\ d.key = u.key
Ahead(i) == /\ Suspended(i) /\ calls[i].target = d.epoch /\ d.epoch = u.epoch + 1
            /\ d.key = [epoch |-> d.epoch, user |-> i, drone |-> i]

OneAtATime == \A i \in Call : Suspended(i) => i = pendingRekey

IsInit(f) == /\ f.call \in Call /\ calls[f.call].status = "waiting"
             /\ f.target = u.epoch + 1 /\ calls[f.call].target = f.target

\* Level: everything in flight is under the common keys, and an init is last.
WhenLevel ==
  Level => /\ \A i \in Call : calls[i].status # "got"
           /\ \A n \in 1..Len(u2d) :
                Under(u2d[n], u) /\ (u2d[n].kind = "init" => n = Len(u2d) /\ IsInit(u2d[n]))
           /\ \A n \in 1..Len(d2u) : Old(d2u[n])

IsAnswer(f, i) == Under(f, u) /\ f.kind = "resp" /\ f.call = i /\ f.target = d.epoch

\* Ahead: old frames, the answer, new frames, unless the answer met a closed
\* link; new frames only from replies kept for later.
AnswerAt(k, i) ==
  /\ \A n \in 1..Len(d2u) : /\ n < k => Old(d2u[n])
                            /\ n = k => IsAnswer(d2u[n], i)
                            /\ n > k => New(d2u[n])
  /\ k = Len(d2u) + 1 => closed
  /\ ~app.late => k >= Len(d2u)

WhenAhead ==
  \A i \in Call : Ahead(i) =>
    /\ u2d = <<>>
    /\ calls[i].status = "waiting" => \E k \in 1..(Len(d2u) + 1) : AnswerAt(k, i)
    /\ calls[i].status = "got" => /\ calls[i].answered = i
                                  /\ \A n \in 1..Len(d2u) : New(d2u[n])
                                  /\ ~app.late => d2u = <<>>

InStep == /\ Level \/ \E i \in Call : Ahead(i)
          /\ OneAtATime /\ WhenLevel /\ WhenAhead

\* The application's promises, kept.
Disciplined == (~app.overlap => ~overlapped) /\ (~app.late => owed = 0 /\ ~overdrawn)

\* Only a reply used at the cap takes the session from under an open link.
Accounted == /\ ~d.live => closed \/ overdrawn
             /\ why = "nosession" => overdrawn

\* With at most one reply to each command the drone spends no more than the user.
Frugal == (~app.overlap /\ Prompt) =>
  /\ Level => d.tx + Len(u2d) <= u.tx
  /\ ~Level => d.tx = 0
  /\ why # "crash"

SInv ==
  /\ TInv /\ Disciplined /\ Accounted /\ Frugal
  /\ ~overlapped => /\ InStep /\ why \notin {"epoch", "aead"}
                    /\ ~app.late => dropped = 0

-----------------------------------------------------------------------------
LEMMA TailElements ==
  ASSUME NEW s \in Seq(Frame), s # <<>>
  PROVE  /\ Len(s) \in Nat /\ Len(s) >= 1 /\ Head(s) = s[1]
         /\ Len(Tail(s)) = Len(s) - 1
         /\ \A n \in 1..Len(Tail(s)) : Tail(s)[n] = s[n + 1]
  OBVIOUS

LEMMA EnqueueElements ==
  ASSUME NEW s \in Seq(Frame), NEW t \in Seq(Frame)
  PROVE  /\ Len(Enqueue(s, t)) \in {Len(s), Len(s) + Len(t)}
         /\ Len(Enqueue(s, t)) = IF closed THEN Len(s) ELSE Len(s) + Len(t)
         /\ \A n \in 1..Len(s) : Enqueue(s, t)[n] = s[n]
         /\ \A n \in 1..Len(Enqueue(s, t)) : n > Len(s) => Enqueue(s, t)[n] = t[n - Len(s)]
  BY DEF Enqueue

LEMMA SealFields ==
  ASSUME NEW end, NEW kind, NEW call, NEW target
  PROVE  /\ Under(Seal(end, kind, call, target), end)
         /\ Seal(end, kind, call, target).kind = kind
         /\ Seal(end, kind, call, target).call = call
         /\ Seal(end, kind, call, target).target = target
  BY DEF Seal, Under

LEMMA InitInStep == Init => SInv
<1> SUFFICES ASSUME Init PROVE SInv
  OBVIOUS
<1>1. Level /\ \A i \in Call : ~Suspended(i) /\ calls[i].status # "got"
  BY DEF Init, Level, Suspended
<1>2. Len(u2d) = 0 /\ Len(d2u) = 0
  BY DEF Init
<1>3. InStep
  BY <1>1, <1>2 DEF InStep, OneAtATime, WhenLevel, WhenAhead, Ahead
<1>4. Frugal
  BY <1>1, <1>2 DEF Frugal, Init
<1>5. Disciplined /\ Accounted
  BY DEF Disciplined, Accounted, Init
<1> QED
  BY <1>3, <1>4, <1>5, InitTyped DEF SInv, Init

\* The states of the two ends only matter as far as keys and calls go.
LEMMA SameStage ==
  ASSUME TInv, TInv', UNCHANGED <<calls, pendingRekey>>,
         u'.epoch = u.epoch, u'.key = u.key, d'.epoch = d.epoch, d'.key = d.key
  PROVE  /\ Level' <=> Level
         /\ \A i \in Call : Ahead(i)' <=> Ahead(i)
         /\ OneAtATime' <=> OneAtATime
         /\ \A f : /\ (Old(f)' <=> Old(f)) /\ (New(f)' <=> New(f)) /\ (IsInit(f)' <=> IsInit(f))
                   /\ (Under(f, u)' <=> Under(f, u))
                   /\ \A i : IsAnswer(f, i)' <=> IsAnswer(f, i)
  BY DEF Level, Ahead, Suspended, OneAtATime, Old, New, IsInit, Under, IsAnswer

LEMMA OneLess ==
  ASSUME NEW n \in Int, NEW a \in Int, NEW b, b = a - 1, n + 1 = a
  PROVE  n = b
  OBVIOUS

\* Level, the drone takes one more frame, and nothing changes but what it sends.
LEMMA LevelReceive ==
  ASSUME TInv, TInv', InStep, UNCHANGED <<u, calls, pendingRekey>>,
         d'.epoch = d.epoch, d'.key = d.key,
         u2d # <<>>, u2d' = Tail(u2d),
         \A n \in 1..Len(d2u') : Old(d2u'[n])
  PROVE  InStep' /\ Level'
<1>1. Level
  BY DEF InStep, WhenAhead
<1>2. Level' /\ \A i \in Call : ~Ahead(i)'
  <2>1. u.epoch \in Nat
    BY DEF TInv, TypeOK, Epoch
  <2> QED
    BY <1>1, <2>1 DEF Level, Ahead
<1>3. /\ Len(u2d) \in Nat /\ Len(u2d') = Len(u2d) - 1
      /\ \A n \in 1..Len(u2d') : u2d'[n] = u2d[n + 1]
  BY TailElements DEF TInv, TypeOK
<1>4. WhenLevel'
  <2>1. ASSUME NEW n \in 1..Len(u2d')
        PROVE  /\ Under(u2d[n], u)'
               /\ u2d'[n].kind = "init" => n = Len(u2d') /\ IsInit(u2d[n])'
    <3>1. n + 1 \in 1..Len(u2d) /\ u2d'[n] = u2d[n + 1]
      BY <1>3
    <3>2. /\ Under(u2d[n + 1], u)
          /\ u2d[n + 1].kind = "init" => n + 1 = Len(u2d) /\ IsInit(u2d[n + 1])
      BY <1>1, <3>1 DEF InStep, WhenLevel
    <3>3. n + 1 = Len(u2d) => n = Len(u2d')
      <4>1. n \in Int /\ Len(u2d) \in Int /\ Len(u2d') = Len(u2d) - 1
        BY <1>3
      <4> QED
        BY <4>1, OneLess
    <3>4. Under(u2d[n], u)' <=> Under(u2d[n + 1], u)
      BY <3>1 DEF Under
    <3>5. IsInit(u2d[n])' <=> IsInit(u2d[n + 1])
      BY <3>1 DEF IsInit
    <3> QED
      BY <3>1, <3>2, <3>3, <3>4, <3>5
  <2>2. \A n \in 1..Len(d2u') : Old(d2u[n])'
    BY DEF Old, Under
  <2>3. \A i \in Call : calls'[i].status # "got"
    BY <1>1 DEF InStep, WhenLevel
  <2> QED
    BY <2>1, <2>2, <2>3 DEF WhenLevel
<1>5. OneAtATime'
  BY DEF InStep, OneAtATime, Suspended
<1> QED
  BY <1>2, <1>4, <1>5 DEF InStep, WhenAhead

LEMMA Numbers == TInv => /\ u.epoch \in Nat /\ d.epoch \in Nat /\ u.tx \in 0..Cap /\ d.tx \in 0..Cap
                         /\ Cap \in Nat /\ u2d \in Seq(Frame) /\ d2u \in Seq(Frame)
                         /\ Len(u2d) \in Nat /\ Len(d2u) \in Nat
  BY CapAssumption DEF TInv, TypeOK, Epoch

LEMMA Calls ==
  ASSUME TInv
  PROVE  /\ calls = [i \in Call |-> calls[i]]
         /\ \A i \in Call : /\ DOMAIN calls[i] = {"status", "target", "answered"}
                            /\ calls[i].status \in {"idle", "waiting", "got", "done", "threw"}
                            /\ calls[i] \in CallState
  BY DEF TInv, TypeOK, CallState

\* Level excludes every Ahead, and two calls are never ahead together.
LEMMA OneStage ==
  ASSUME TInv, InStep
  PROVE  /\ Level => \A i \in Call : ~Ahead(i)
         /\ u2d # <<>> => Level
         /\ \A i, j \in Call : Ahead(i) /\ Suspended(j) => j = i
<1>1. u.epoch \in Nat
  BY Numbers
<1>2. Level => \A i \in Call : ~Ahead(i)
  BY <1>1 DEF Level, Ahead
<1> QED
  BY <1>2 DEF InStep, WhenAhead, OneAtATime, Ahead

\* With no rekey pending the ends are level and no init is in flight.
LEMMA Quiet ==
  ASSUME TInv, InStep, ~Rekeying
  PROVE  /\ Level /\ \A i \in Call : ~Suspended(i)
         /\ \A n \in 1..Len(u2d) : Under(u2d[n], u) /\ u2d[n].kind # "init"
         /\ \A n \in 1..Len(d2u) : Old(d2u[n])
<1>1. \A i \in Call : ~Suspended(i)
  BY DEF Rekeying
<1>2. Level
  BY <1>1 DEF InStep, Ahead
<1> QED
  BY <1>1, <1>2 DEF InStep, WhenLevel, IsInit, Suspended

LEMMA SendInStep ==
  ASSUME TInv, TInv', InStep, NEW kind \in {"app", "note"}, Send(kind), ~overlapped'
  PROVE  InStep' /\ Level' /\ Level
<1>1. ~Rekeying /\ UNCHANGED <<d, calls, pendingRekey, d2u>> /\ u' = Counted(u)
      /\ u2d' = Enqueue(u2d, <<Seal(u, kind, 0, 0)>>)
  BY DEF Send, rekey
<1>2. u'.epoch = u.epoch /\ u'.key = u.key
  BY <1>1 DEF Counted, TInv, TypeOK
<1>3. Level' /\ \A i \in Call : ~Suspended(i)'
  BY <1>1, <1>2, Quiet DEF Level, Suspended
<1>4. \A n \in 1..Len(u2d') : Under(u2d[n], u)' /\ u2d'[n].kind # "init"
  <2> DEFINE f == Seal(u, kind, 0, 0)
  <2>1. Under(f, u) /\ f.kind # "init"
    BY SealFields
  <2>2. u2d' \in Seq(Frame) /\ u2d' \in {u2d, u2d \o <<f>>} /\ u2d \in Seq(Frame)
    BY <1>1 DEF Enqueue, TInv, TypeOK
  <2> HIDE DEF f
  <2>3. \A n \in 1..Len(u2d') : u2d'[n] = f \/ (n \in 1..Len(u2d) /\ u2d'[n] = u2d[n])
    BY <2>2
  <2>4. \A n \in 1..Len(u2d') : Under(u2d'[n], u) /\ u2d'[n].kind # "init"
    BY <1>1, <2>1, <2>3, Quiet
  <2> QED
    BY <1>2, <2>4 DEF Under
<1>5. \A n \in 1..Len(d2u') : Old(d2u[n])'
  BY <1>1, <1>2, Quiet DEF Old, Under
<1>6. WhenLevel'
  BY <1>3, <1>4, <1>5 DEF WhenLevel, Suspended
<1> QED
  BY <1>1, <1>3, <1>6, Quiet DEF InStep, WhenAhead, OneAtATime, Ahead

LEMMA RekeyCallInStep ==
  ASSUME TInv, TInv', InStep, NEW i \in Call, RekeyCall(i), ~overlapped'
  PROVE  InStep' /\ Level' /\ Level
<1>1. ~Rekeying /\ UNCHANGED <<d, d2u>> /\ pendingRekey' = i
  BY DEF RekeyCall
<1>2. Level /\ \A j \in Call : ~Suspended(j) /\ calls[j].status # "got"
  BY <1>1, Quiet DEF Suspended
<1>3. CASE HasBudget(u)
  <2> DEFINE f == Seal(u, "init", i, u.epoch + 1)
  <2>1. /\ u' = Counted(u) /\ u2d' = Enqueue(u2d, <<f>>)
        /\ calls' = [calls EXCEPT ![i].status = "waiting", ![i].target = u.epoch + 1]
    BY <1>3 DEF RekeyCall
  <2>2. u'.epoch = u.epoch /\ u'.key = u.key
    BY <2>1 DEF Counted, TInv, TypeOK
  <2>3. /\ calls'[i].status = "waiting" /\ calls'[i].target = u.epoch + 1
        /\ \A j \in Call : j # i => calls'[j] = calls[j]
    BY <2>1, Calls
  <2>4. /\ \A j \in Call : Suspended(j)' => j = i
        /\ \A j \in Call : calls'[j].status # "got"
    BY <1>2, <2>3 DEF Suspended
  <2>5. Level' /\ \A j \in Call : ~Ahead(j)'
    <3>1. Level'
      BY <1>1, <1>2, <2>2 DEF Level
    <3> QED
      BY <3>1, <2>2, Numbers DEF Level, Ahead
  <2>6. Under(f, u) /\ f.kind = "init" /\ f.call = i /\ f.target = u.epoch + 1
    BY SealFields
  <2> HIDE DEF f
  <2>7. \A n \in 1..Len(u2d') : \/ n = Len(u2d') /\ u2d'[n] = f
                                \/ n \in 1..Len(u2d) /\ u2d'[n] = u2d[n]
    <3>1. u2d \in Seq(Frame) /\ u2d' \in {u2d, u2d \o <<f>>}
      BY <2>1 DEF Enqueue, TInv, TypeOK
    <3> QED
      BY <3>1
  <2>8. \A n \in 1..Len(u2d') : /\ Under(u2d[n], u)'
                                /\ u2d'[n].kind = "init" => n = Len(u2d') /\ IsInit(u2d[n])'
    <3>1. \A n \in 1..Len(u2d') : u2d'[n] = f \/ (Under(u2d'[n], u) /\ u2d'[n].kind # "init")
      BY <1>1, <2>7, Quiet
    <3>2. \A n \in 1..Len(u2d') : Under(u2d[n], u)'
      BY <2>2, <2>6, <3>1 DEF Under
    <3>3. \A n \in 1..Len(u2d') : u2d'[n].kind = "init" => n = Len(u2d') /\ u2d'[n] = f
      BY <1>1, <2>7, Quiet
    <3>4. \A n \in 1..Len(u2d') : u2d'[n] = f => IsInit(u2d[n])'
      BY <2>2, <2>3, <2>6 DEF IsInit
    <3> QED
      BY <3>2, <3>3, <3>4
  <2>9. \A n \in 1..Len(d2u') : Old(d2u[n])'
    BY <1>1, <2>2, Quiet DEF Old, Under
  <2> QED
    BY <1>1, <1>2, <2>4, <2>5, <2>8, <2>9 DEF InStep, WhenLevel, WhenAhead, OneAtATime
<1>4. CASE ~HasBudget(u)
  <2>1. /\ calls' = [calls EXCEPT ![i].status = "threw", ![i].target = u.epoch + 1]
        /\ UNCHANGED <<u, u2d>>
    BY <1>4 DEF RekeyCall
  <2>2. calls'[i].status = "threw" /\ \A j \in Call : j # i => calls'[j] = calls[j]
    BY <2>1, Calls
  <2>3. \A j \in Call : ~Suspended(j)' /\ calls'[j].status # "got"
    BY <1>2, <2>2 DEF Suspended
  <2>4. /\ \A n \in 1..Len(u2d') : Under(u2d[n], u)' /\ u2d'[n].kind # "init"
        /\ \A n \in 1..Len(d2u') : Old(d2u[n])'
    BY <1>1, <2>1, Quiet DEF Under, Old
  <2> QED
    BY <1>1, <1>2, <2>1, <2>3, <2>4 DEF InStep, Level, WhenLevel, WhenAhead, OneAtATime, Ahead
<1> QED
  BY <1>3, <1>4

LEMMA InstallInStep ==
  ASSUME TInv, TInv', InStep, NEW i \in Call, Install(i)
  PROVE  InStep' /\ Level' /\ ~Level /\ u2d' = <<>>
<1>1. /\ calls[i].status = "got" /\ UNCHANGED <<d, u2d, d2u>>
      /\ calls' = [calls EXCEPT ![i].status = "done"] /\ u' = Installed(i)
  BY DEF Install
<1>2. ~Level /\ Ahead(i)
  BY <1>1, OneStage DEF InStep, WhenLevel, Suspended
<1>3. u2d = <<>> /\ calls[i].answered = i /\ \A n \in 1..Len(d2u) : New(d2u[n])
  BY <1>1, <1>2 DEF InStep, WhenAhead
<1>4. u'.epoch = d.epoch /\ u'.key = d.key
  BY <1>1, <1>2, <1>3 DEF Installed, Ahead
<1>5. Level'
  BY <1>1, <1>4 DEF Level
<1>6. calls'[i].status = "done" /\ \A j \in Call : j # i => calls'[j] = calls[j]
  BY <1>1, Calls
<1>7. \A j \in Call : ~Suspended(j)' /\ calls'[j].status # "got"
  BY <1>2, <1>6, OneStage DEF Suspended
<1>8. \A n \in 1..Len(d2u') : Old(d2u[n])'
  BY <1>1, <1>3, <1>4 DEF New, Old, Under
<1>9. \A n \in 1..Len(u2d') : FALSE
  BY <1>1, <1>3
<1> QED
  BY <1>1, <1>2, <1>3, <1>5, <1>7, <1>8, <1>9 DEF InStep, WhenLevel, WhenAhead, OneAtATime, Ahead

LEMMA LevelUserReceive ==
  ASSUME TInv, TInv', InStep, UserReceive, Level
  PROVE  InStep' /\ Level' /\ dropped' = dropped
<1>1. UNCHANGED <<u, d, u2d>> /\ d2u # <<>> /\ d2u' = Tail(d2u)
  BY DEF UserReceive
<1>2. /\ Len(d2u) \in Nat /\ Len(d2u) >= 1 /\ Head(d2u) = d2u[1] /\ Len(d2u') = Len(d2u) - 1
      /\ \A n \in 1..Len(d2u') : d2u'[n] = d2u[n + 1]
  BY <1>1, TailElements, Numbers
<1>3. \A n \in 1..Len(d2u) : Old(d2u[n])
  BY DEF InStep, WhenLevel
<1>4. Old(Head(d2u))
  BY <1>2, <1>3
<1>5. UNCHANGED <<calls, pendingRekey, dropped>>
  BY <1>4, Calls DEF UserReceive, Old, Under, rekey
<1>6. \A n \in 1..Len(d2u') : Old(d2u[n])'
  <2>1. \A n \in 1..Len(d2u') : n + 1 \in 1..Len(d2u)
    BY <1>2
  <2> QED
    BY <1>1, <1>2, <1>3, <2>1 DEF Old, Under
<1>7. Level' /\ \A i \in Call : ~Ahead(i)'
  BY <1>1, <1>5, OneStage DEF Level, Ahead, Suspended
<1>8. \A n \in 1..Len(u2d') : /\ Under(u2d[n], u)'
                              /\ u2d'[n].kind = "init" => n = Len(u2d') /\ IsInit(u2d[n])'
  BY <1>1, <1>5 DEF InStep, WhenLevel, Under, IsInit
<1> QED
  BY <1>5, <1>6, <1>7, <1>8 DEF InStep, WhenLevel, WhenAhead, OneAtATime, Suspended

\* The answer reaches the call it is for; what came before it was readable, what
\* comes after it is not until the call's continuation has run.
LEMMA AheadUserReceive ==
  ASSUME TInv, TInv', InStep, UserReceive, UNCHANGED app, NEW i \in Call, Ahead(i)
  PROVE  InStep' /\ ~Level' /\ (~app.late => dropped' = dropped)
<1>1. /\ UNCHANGED <<u, d, u2d, closed, pendingRekey>> /\ d2u # <<>> /\ d2u' = Tail(d2u)
      /\ d.epoch = u.epoch + 1 /\ u.epoch \in Nat /\ u2d = <<>> /\ i = pendingRekey
      /\ calls[i].target = d.epoch
      /\ \A j \in Call : Suspended(j) => j = i
  BY Numbers DEF UserReceive, rekey, Ahead, InStep, WhenAhead, OneAtATime
<1>2. /\ Len(d2u) \in Nat /\ Len(d2u) >= 1 /\ Head(d2u) = d2u[1] /\ Len(d2u') = Len(d2u) - 1
      /\ \A n \in 1..Len(d2u') : d2u'[n] = d2u[n + 1] /\ n + 1 \in 1..Len(d2u)
  BY <1>1, TailElements, Numbers
<1>3. ~Level' /\ ~Level
  BY <1>1 DEF Level
<1>4. CASE calls[i].status = "waiting"
  <2>1. PICK k \in 1..(Len(d2u) + 1) : AnswerAt(k, i)
    BY <1>4 DEF InStep, WhenAhead
  <2>2. k \in Nat
    BY <2>1, <1>2
  <2>3. CASE k = 1
    <3>1. IsAnswer(Head(d2u), i)
      BY <1>2, <2>1, <2>3 DEF AnswerAt
    <3>2. i \in Resolved(Head(d2u).target)
      BY <1>1, <1>4, <3>1 DEF IsAnswer, Resolved
    <3>3. /\ dropped' = dropped
          /\ calls' = [j \in Call |->
               IF j \in Resolved(Head(d2u).target)
               THEN [calls[j] EXCEPT !.status = "got", !.answered = Head(d2u).call] ELSE calls[j]]
      BY <3>1 DEF UserReceive, IsAnswer, Under
    <3>4. /\ calls'[i].status = "got" /\ calls'[i].answered = i
          /\ calls'[i].target = calls[i].target
      BY <3>1, <3>2, <3>3, Calls DEF IsAnswer
    <3>5. \A j \in Call : j # i => calls'[j] = calls[j]
      BY <1>1, <3>3 DEF Resolved
    <3>6. \A j \in Call : (Ahead(j)' => j = i) /\ (Suspended(j)' => j = i)
      BY <1>1, <3>5 DEF Ahead, Suspended
    <3>7. Ahead(i)'
      BY <1>1, <3>4 DEF Ahead, Suspended
    <3>8. \A n \in 1..Len(d2u') : New(d2u[n])'
      <4>1. \A n \in 1..Len(d2u') : New(d2u[n + 1])
        <5>1. \A n \in 1..Len(d2u') : n + 1 > 1
          BY <1>2
        <5> QED
          BY <1>2, <2>1, <2>3, <5>1 DEF AnswerAt
      <4> QED
        BY <1>1, <1>2, <4>1 DEF New, Under
    <3>9. ~app.late => d2u' = <<>>
      <4>1. ~app.late => 1 >= Len(d2u)
        BY <2>1, <2>3 DEF AnswerAt
      <4>2. ~app.late => Len(d2u') = 0
        BY <4>1, <1>2
      <4> QED
        BY <4>2 DEF TInv, TypeOK
    <3> QED
      BY <1>1, <1>3, <3>3, <3>4, <3>6, <3>7, <3>8, <3>9 DEF InStep, WhenLevel, WhenAhead, OneAtATime
  <2>4. CASE k > 1
    <3>1. Old(Head(d2u))
      BY <1>2, <2>1, <2>4 DEF AnswerAt
    <3>2. UNCHANGED <<calls, dropped>>
      BY <3>1, Calls DEF UserReceive, Old, Under, rekey
    <3>3. k - 1 \in 1..(Len(d2u') + 1)
      BY <1>2, <2>1, <2>4
    <3>4. /\ \A n \in 1..Len(d2u') : /\ n < k - 1 => Old(d2u[n])'
                                     /\ n = k - 1 => IsAnswer(d2u[n], i)'
                                     /\ n > k - 1 => New(d2u[n])'
      <4>1. ASSUME NEW n \in 1..Len(d2u')
            PROVE  /\ n < k - 1 => Old(d2u'[n])
                   /\ n = k - 1 => IsAnswer(d2u'[n], i)
                   /\ n > k - 1 => New(d2u'[n])
        <5>1. /\ n < k - 1 => n + 1 < k
              /\ n = k - 1 => n + 1 = k
              /\ n > k - 1 => n + 1 > k
          BY <1>2, <2>2
        <5> QED
          BY <1>2, <2>1, <5>1 DEF AnswerAt
      <4> QED
        BY <1>1, <3>2, <4>1 DEF Old, IsAnswer, New, Under
    <3>5. k - 1 = Len(d2u') + 1 => closed'
      <4>1. k - 1 = Len(d2u') + 1 => k = Len(d2u) + 1
        BY <1>2, <2>2
      <4> QED
        BY <1>1, <2>1, <4>1 DEF AnswerAt
    <3>6. ~app.late => k - 1 >= Len(d2u')
      <4>1. k >= Len(d2u) => k - 1 >= Len(d2u')
        BY <1>2, <2>2
      <4> QED
        BY <2>1, <4>1 DEF AnswerAt
    <3>7. AnswerAt(k - 1, i)'
      BY <3>4, <3>5, <3>6 DEF AnswerAt
    <3>8. \A j \in Call : (Ahead(j)' => j = i) /\ (Suspended(j)' => j = i)
      BY <1>1, <3>2 DEF Ahead, Suspended
    <3>9. calls'[i].status = "waiting" => \E m \in 1..(Len(d2u') + 1) : AnswerAt(m, i)'
      BY <3>3, <3>7
    <3> QED
      BY <1>1, <1>3, <1>4, <3>2, <3>8, <3>9 DEF InStep, WhenLevel, WhenAhead, OneAtATime, Ahead, Suspended
  <2> QED
    BY <2>2, <2>1, <2>3, <2>4
<1>5. CASE calls[i].status = "got"
  <2>1. /\ calls[i].answered = i /\ app.late
        /\ \A n \in 1..Len(d2u) : New(d2u[n])
    BY <1>1, <1>5 DEF InStep, WhenAhead
  <2>2. New(Head(d2u))
    BY <1>2, <2>1
  <2>3. Head(d2u).epoch # u.epoch
    BY <1>1, <2>2 DEF New, Under
  <2>4. UNCHANGED calls
    BY <2>3 DEF UserReceive, rekey
  <2>5. \A n \in 1..Len(d2u') : New(d2u[n])'
    BY <1>1, <1>2, <2>1 DEF New, Under
  <2>6. \A j \in Call : (Ahead(j)' => j = i) /\ (Suspended(j)' => j = i)
    BY <1>1, <2>4 DEF Ahead, Suspended
  <2> QED
    BY <1>1, <1>3, <1>5, <2>1, <2>4, <2>5, <2>6
       DEF InStep, WhenLevel, WhenAhead, OneAtATime, Ahead, Suspended
<1> QED
  BY <1>4, <1>5 DEF Ahead, Suspended

\* A frame that reaches the drone in step opens.
LEMMA InStepOpens ==
  ASSUME TInv, InStep, Handling
  PROVE  /\ Level /\ Opens(Head(u2d)) /\ u2d # <<>> /\ Head(u2d) = u2d[1]
         /\ Len(u2d) \in Nat /\ Len(u2d) >= 1 /\ Len(u2d') = Len(u2d) - 1
         /\ Head(u2d).kind = "init" => Len(u2d) = 1 /\ IsInit(Head(u2d))
<1>1. Level /\ u2d # <<>> /\ u2d' = Tail(u2d)
  BY OneStage DEF Handling
<1>2. /\ Len(u2d) \in Nat /\ Len(u2d) >= 1 /\ Head(u2d) = u2d[1] /\ Len(u2d') = Len(u2d) - 1
      /\ 1 \in 1..Len(u2d)
  BY <1>1, TailElements, Numbers
<1>3. Under(u2d[1], u) /\ (u2d[1].kind = "init" => 1 = Len(u2d) /\ IsInit(u2d[1]))
  BY <1>1, <1>2 DEF InStep, WhenLevel
<1> QED
  BY <1>1, <1>2, <1>3 DEF Opens, Under, Level

LEMMA CrashInStep ==
  ASSUME TInv, TInv', InStep, Handling, Crash, UNCHANGED <<u, rekey>>
  PROVE  InStep' /\ Level'
<1>1. UNCHANGED <<calls, pendingRekey, d2u>> /\ d'.epoch = d.epoch /\ d'.key = d.key
  BY DEF Crash, TearDown, TInv, TypeOK, rekey
<1>2. Level /\ u2d # <<>> /\ u2d' = Tail(u2d)
  BY InStepOpens DEF Handling
<1>3. \A n \in 1..Len(d2u') : Old(d2u'[n])
  BY <1>1, <1>2 DEF InStep, WhenLevel
<1> QED
  BY <1>1, <1>2, <1>3, LevelReceive

LEMMA CommandInStep ==
  ASSUME TInv, TInv', InStep, NEW n \in Nat, Command(n)
  PROVE  InStep' /\ Level'
<1>1. CASE d.tx + n > Cap /\ Crash
  BY <1>1, CrashInStep DEF Command
<1>2. CASE /\ d' = [d EXCEPT !.tx = @ + n]
           /\ d2u' = Enqueue(d2u, [k \in 1..n |-> Seal(d, "app", 0, 0)])
  <2> DEFINE f == Seal(d, "app", 0, 0)
  <2>1. UNCHANGED <<u, calls, pendingRekey>> /\ d'.epoch = d.epoch /\ d'.key = d.key
    BY <1>2 DEF Command, TInv, TypeOK, rekey
  <2>2. Level /\ u2d # <<>> /\ u2d' = Tail(u2d)
    BY InStepOpens DEF Handling, Command
  <2>3. Old(f)
    BY <2>2, SealFields DEF Old, Under, Level
  <2>4. \A m \in 1..Len(d2u) : Old(d2u[m])
    BY <2>2 DEF InStep, WhenLevel
  <2>5. \A m \in 1..Len(d2u') : d2u'[m] = f \/ (m \in 1..Len(d2u) /\ d2u'[m] = d2u[m])
    <3> DEFINE t == [k \in 1..n |-> f]
    <3>1. d2u \in Seq(Frame) /\ d2u' \in Seq(Frame) /\ d2u' \in {d2u, d2u \o t}
      BY <1>2 DEF Enqueue, TInv, TypeOK
    <3>2. t \in Seq({f}) /\ Len(t) = n /\ \A m \in 1..n : t[m] = f
      OBVIOUS
    <3> HIDE DEF t, f
    <3>3. \A m \in 1..Len(d2u \o t) : \/ m \in 1..Len(d2u) /\ (d2u \o t)[m] = d2u[m]
                                      \/ (d2u \o t)[m] = f
      BY <3>1, <3>2
    <3> QED
      BY <3>1, <3>3
  <2>6. \A m \in 1..Len(d2u') : Old(d2u'[m])
    BY <2>3, <2>4, <2>5
  <2> QED
    BY <2>1, <2>2, <2>6, LevelReceive
<1> QED
  BY <1>1, <1>2 DEF Command

LEMMA NoteInStep ==
  ASSUME TInv, TInv', InStep, Note
  PROVE  InStep' /\ Level'
<1>1. UNCHANGED <<u, calls, pendingRekey, d, d2u>>
  BY DEF Note, rekey
<1>2. Level /\ u2d # <<>> /\ u2d' = Tail(u2d)
  BY InStepOpens DEF Handling, Note
<1>3. \A n \in 1..Len(d2u') : Old(d2u'[n])
  BY <1>1, <1>2 DEF InStep, WhenLevel
<1> QED
  BY <1>1, <1>2, <1>3, LevelReceive

\* Answering an init puts the drone ahead by the call that sent it.
LEMMA RekeyInitInStep ==
  ASSUME TInv, TInv', InStep, RekeyInit, HasBudget(d),
         NEW f, f = Head(u2d), NEW a, a = Answer(f), NEW i, i = f.call,
         NEW k, k = Len(d2u) + 1
  PROVE  InStep' /\ ~Level' /\ d'.tx = 0
<1>1. /\ UNCHANGED <<u, calls, pendingRekey, closed>>
      /\ d2u' = Enqueue(d2u, <<Answer(f)>>)
      /\ d' = [d EXCEPT !.epoch = f.target, !.key = KeyFor(f), !.tx = TxAfterRekey(@ + 1)]
  BY DEF RekeyInit, rekey
<1>2. Level /\ IsInit(f) /\ u2d' = <<>>
  <2>1. Level /\ IsInit(f) /\ Len(u2d') = 0
    BY InStepOpens DEF RekeyInit
  <2> QED
    BY <2>1 DEF TInv, TypeOK
<1>3. /\ i \in Call /\ calls[i].status = "waiting" /\ calls[i].target = f.target
      /\ f.target = u.epoch + 1
  BY <1>2 DEF IsInit
<1>4. /\ d'.epoch = f.target /\ d'.tx = 0
      /\ d'.key = [epoch |-> f.target, user |-> i, drone |-> i]
  BY <1>1 DEF TInv, TypeOK, KeyFor, TxAfterRekey
<1>5. ~Level'
  <2>1. u.epoch \in Nat /\ u' = u
    BY <1>1, Numbers
  <2> QED
    BY <2>1, <1>3, <1>4 DEF Level
<1>6. Ahead(i)'
  BY <1>1, <1>3, <1>4 DEF Ahead, Suspended
<1>7. /\ \A j \in Call : Suspended(j)' => j = i
      /\ OneAtATime'
  BY <1>1, <1>3 DEF InStep, OneAtATime, Suspended
<1>8. k \in 1..(Len(d2u') + 1) /\ AnswerAt(k, i)'
  <2>1. IsAnswer(a, i)'
    <3>1. Under(a, d) /\ a.kind = "resp" /\ a.call = i /\ a.target = f.target
      BY SealFields DEF Answer
    <3> QED
      BY <1>1, <1>2, <1>4, <3>1 DEF IsAnswer, Under, Level
  <2>2. /\ d2u \in Seq(Frame) /\ d2u' \in Seq(Frame)
        /\ d2u' = IF closed THEN d2u ELSE d2u \o <<a>>
    BY <1>1 DEF Enqueue, TInv, TypeOK
  <2>3. /\ k \in Nat /\ k >= 1
        /\ Len(d2u') = IF closed THEN k - 1 ELSE k
        /\ \A n \in 1..Len(d2u') : IF n < k THEN n \in 1..Len(d2u) /\ d2u'[n] = d2u[n]
                                   ELSE n = k /\ d2u'[n] = a
    BY <2>2
  <2>4. \A n \in 1..Len(d2u) : Old(d2u[n])
    BY <1>2 DEF InStep, WhenLevel
  <2>5. \A n \in 1..Len(d2u') : /\ n < k => Old(d2u'[n])
                                /\ n = k => d2u'[n] = a
                                /\ ~(n > k)
    BY <2>3, <2>4
  <2>6. \A n \in 1..Len(d2u') : /\ n < k => Old(d2u[n])'
                                /\ n = k => IsAnswer(d2u[n], i)'
                                /\ n > k => New(d2u[n])'
    BY <1>1, <2>1, <2>5 DEF Old, Under
  <2>7. (k = Len(d2u') + 1 => closed) /\ k >= Len(d2u')
    BY <2>3
  <2>8. k \in 1..(Len(d2u') + 1)
    BY <2>3
  <2> QED
    BY <1>1, <2>6, <2>7, <2>8 DEF AnswerAt
<1> QED
  <2>1. \A j \in Call : Ahead(j)' => j = i
    BY <1>7 DEF Ahead
  <2>2. calls'[i].status # "got"
    BY <1>1, <1>3
  <2>3. \E m \in 1..(Len(d2u') + 1) : AnswerAt(m, i)'
    BY <1>8
  <2> QED
    BY <1>2, <1>3, <1>4, <1>5, <1>6, <1>7, <2>1, <2>2, <2>3 DEF InStep, WhenLevel, WhenAhead

LEMMA LateReplyInStep ==
  ASSUME TInv, TInv', InStep, LateReply, d.live, HasBudget(d), app.late, UNCHANGED app,
         NEW f, f = Seal(d, "app", 0, 0)
  PROVE  InStep'
<1>1. /\ UNCHANGED <<u, calls, pendingRekey, u2d, closed>>
      /\ d' = Counted(d) /\ d2u' = Enqueue(d2u, <<f>>)
  BY DEF LateReply, rekey
<1>2. u'.epoch = u.epoch /\ u'.key = u.key /\ d'.epoch = d.epoch /\ d'.key = d.key
  BY <1>1 DEF Counted, TInv, TypeOK
<1>3. New(f) /\ (Level => Old(f))
  BY SealFields DEF New, Old, Under, Level
<1>4. /\ Len(d2u) \in Nat
      /\ Len(d2u') = IF closed THEN Len(d2u) ELSE Len(d2u) + 1
      /\ \A n \in 1..Len(d2u') : IF n <= Len(d2u) THEN n \in 1..Len(d2u) /\ d2u'[n] = d2u[n]
                                 ELSE n = Len(d2u) + 1 /\ d2u'[n] = f /\ ~closed
  <2>1. /\ d2u \in Seq(Frame) /\ d2u' \in Seq(Frame)
        /\ d2u' = IF closed THEN d2u ELSE d2u \o <<f>>
    BY <1>1 DEF Enqueue, TInv, TypeOK
  <2> QED
    BY <2>1
<1>5. /\ Level' <=> Level
      /\ \A i \in Call : (Ahead(i)' <=> Ahead(i)) /\ (Suspended(i)' <=> Suspended(i))
      /\ OneAtATime'
  BY <1>1, <1>2 DEF Level, Ahead, Suspended, OneAtATime, InStep
<1>6. WhenLevel'
  <2> SUFFICES ASSUME Level PROVE WhenLevel'
    BY <1>5 DEF WhenLevel
  <2>1. \A n \in 1..Len(d2u') : Old(d2u'[n])
    BY <1>3, <1>4 DEF InStep, WhenLevel
  <2>2. \A n \in 1..Len(d2u') : Old(d2u[n])'
    BY <1>1, <2>1 DEF Old, Under
  <2>3. \A n \in 1..Len(u2d') : /\ Under(u2d[n], u)'
                                /\ u2d'[n].kind = "init" => n = Len(u2d') /\ IsInit(u2d[n])'
    BY <1>1 DEF InStep, WhenLevel, Under, IsInit
  <2>4. \A i \in Call : calls'[i].status # "got"
    BY <1>1 DEF InStep, WhenLevel
  <2> QED
    BY <2>2, <2>3, <2>4 DEF WhenLevel
<1>7. ASSUME NEW i \in Call, Ahead(i), calls[i].status = "waiting"
      PROVE  \E m \in 1..(Len(d2u') + 1) : AnswerAt(m, i)'
  <2>1. PICK k \in 1..(Len(d2u) + 1) : AnswerAt(k, i)
    BY <1>7 DEF InStep, WhenAhead
  <2>2. k \in Nat /\ (k = Len(d2u) + 1 => closed)
    BY <1>4, <2>1 DEF AnswerAt
  <2>3. k \in 1..(Len(d2u') + 1) /\ (k = Len(d2u') + 1 => closed)
    BY <1>4, <2>1, <2>2
  <2>4. \A n \in 1..Len(d2u') : /\ n < k => Old(d2u'[n])
                                /\ n = k => IsAnswer(d2u'[n], i)
                                /\ n > k => New(d2u'[n])
    <3> SUFFICES ASSUME NEW n \in 1..Len(d2u')
                 PROVE  /\ n < k => Old(d2u'[n])
                        /\ n = k => IsAnswer(d2u'[n], i)
                        /\ n > k => New(d2u'[n])
      OBVIOUS
    <3>1. CASE n <= Len(d2u)
      BY <1>4, <2>1, <3>1 DEF AnswerAt
    <3>2. CASE ~(n <= Len(d2u))
      <4>1. n = Len(d2u) + 1 /\ d2u'[n] = f /\ ~closed
        BY <1>4, <3>2
      <4>2. n > k
        BY <1>4, <2>1, <2>2, <4>1
      <4>3. ~(n < k) /\ ~(n = k)
        BY <1>4, <2>2, <4>1, <4>2
      <4> QED
        BY <1>3, <4>1, <4>3
    <3> QED
      BY <3>1, <3>2
  <2>5. \A n \in 1..Len(d2u') : /\ n < k => Old(d2u[n])'
                                /\ n = k => IsAnswer(d2u[n], i)'
                                /\ n > k => New(d2u[n])'
    BY <1>1, <1>2, <2>4 DEF Old, New, IsAnswer, Under
  <2>6. AnswerAt(k, i)'
    BY <1>1, <2>3, <2>5 DEF AnswerAt
  <2> QED
    BY <2>3, <2>6
<1>8. ASSUME NEW i \in Call, Ahead(i), calls[i].status = "got"
      PROVE  \A n \in 1..Len(d2u') : New(d2u[n])'
  <2>1. \A n \in 1..Len(d2u') : New(d2u'[n])
    BY <1>3, <1>4, <1>8 DEF InStep, WhenAhead
  <2> QED
    BY <1>2, <2>1 DEF New, Under
<1>9. WhenAhead'
  BY <1>1, <1>5, <1>7, <1>8 DEF InStep, WhenAhead
<1> QED
  BY <1>5, <1>6, <1>9 DEF InStep

LEMMA CloseInStep ==
  ASSUME TInv, TInv', InStep, UNCHANGED <<app, u, calls, pendingRekey, u2d, d2u>>,
         d'.epoch = d.epoch, d'.key = d.key, closed => closed'
  PROVE  InStep'
<1>1. /\ Level' <=> Level
      /\ \A i \in Call : Ahead(i)' <=> Ahead(i)
      /\ OneAtATime'
  BY DEF Level, Ahead, Suspended, OneAtATime, InStep
<1>2. WhenLevel'
  BY <1>1 DEF InStep, WhenLevel, Under, IsInit, Old
<1>3. ASSUME NEW i \in Call, NEW k, AnswerAt(k, i)
      PROVE  AnswerAt(k, i)'
  BY <1>3 DEF AnswerAt, Old, New, IsAnswer, Under
<1>4. WhenAhead'
  <2>1. \A n : New(d2u[n]) => New(d2u[n])'
    BY DEF New, Under
  <2> QED
    BY <1>1, <1>3, <2>1 DEF InStep, WhenAhead
<1> QED
  BY <1>1, <1>2, <1>4 DEF InStep

\* A frame that finds no session counts as taken: the link is closed after it.
LEMMA NoSessionInStep ==
  ASSUME TInv, TInv', InStep, NoSession
  PROVE  InStep' /\ Level' /\ Level /\ Len(u2d) >= 1 /\ Len(u2d') = Len(u2d) - 1 /\ d'.tx = d.tx
<1>1. /\ UNCHANGED <<u, calls, pendingRekey, d2u>>
      /\ d'.epoch = d.epoch /\ d'.key = d.key /\ d'.tx = d.tx
  BY DEF NoSession, TearDown, TInv, TypeOK, rekey
<1>2. Level /\ u2d # <<>> /\ u2d' = Tail(u2d)
  BY OneStage DEF NoSession
<1>3. \A n \in 1..Len(d2u') : Old(d2u'[n])
  BY <1>1, <1>2 DEF InStep, WhenLevel
<1>4. Len(u2d) >= 1 /\ Len(u2d') = Len(u2d) - 1
  BY <1>2, TailElements, Numbers
<1> QED
  BY <1>1, <1>2, <1>3, <1>4, LevelReceive

LEMMA AppFields ==
  ASSUME TInv
  PROVE  app.overlap \in BOOLEAN /\ app.late \in BOOLEAN /\ app.replies \subseteq Nat
  BY AppAssumption DEF TInv, TypeOK

LEMMA StepDisciplined ==
  ASSUME TInv, Disciplined, [Next]_vars
  PROVE  Disciplined'
<1>1. CASE UNCHANGED vars
  BY <1>1 DEF vars, hist, Disciplined
<1>2. CASE Next
  <2>1. UNCHANGED app
    BY <1>2 DEF Next
  <2>2. ~app.overlap => ~overlapped'
    BY <1>2 DEF Next, DroneReceive, Send, RekeyCall, Install, UserReceive, DroneRefuses, NoSession,
       Command, Note, RekeyInit, LateReply, CloseLink, Dispose, AppMayCall, hist, Disciplined
  <2>3. ~app.late => owed' = 0 /\ ~overdrawn'
    <3>1. ASSUME NEW n, Command(n) PROVE overdrawn' = overdrawn /\ (owed' = owed \/ app.late)
      BY <3>1, AppFields DEF Command, Crash, TearDown, hist
    <3>2. CASE LateReply
      BY <3>2, AppFields DEF LateReply, Disciplined
    <3>3. CASE ~LateReply /\ ~(\E n \in app.replies : Command(n))
      <4>1. UNCHANGED <<owed, overdrawn>>
        BY <1>2, <3>3 DEF Next, DroneReceive, Send, RekeyCall, Install, UserReceive, DroneRefuses,
           NoSession, Note, RekeyInit, CloseLink, Dispose, Crash, TearDown, hist
      <4> QED
        BY <4>1 DEF Disciplined
    <3> QED
      BY <3>1, <3>2, <3>3 DEF Disciplined
  <2> QED
    BY <2>1, <2>2, <2>3 DEF Disciplined
<1> QED
  BY <1>1, <1>2

LEMMA StepAccounted ==
  ASSUME TInv, Accounted, [Next]_vars
  PROVE  Accounted'
<1>0. d \in DroneEnd /\ closed \in BOOLEAN /\ overdrawn \in BOOLEAN
  BY DEF TInv, TypeOK, DroneEnd
<1>1. ASSUME NEW reason \in Why, TearDown(reason), reason # "nosession" \/ overdrawn,
             overdrawn' = overdrawn
      PROVE  Accounted'
  BY <1>1 DEF TearDown, Accounted
<1>2. ASSUME UNCHANGED <<closed, why, overdrawn>>, d'.live = d.live PROVE Accounted'
  BY <1>2 DEF Accounted
<1>3. CASE UNCHANGED vars
  BY <1>2, <1>3 DEF vars, hist
<1>4. CASE Next
  <2>1. ASSUME NEW kind, Send(kind) PROVE Accounted'
    BY <1>2, <2>1 DEF Send
  <2>2. ASSUME NEW i \in Call, RekeyCall(i) \/ Install(i) PROVE Accounted'
    BY <1>2, <2>2 DEF RekeyCall, Install, hist
  <2>3. CASE UserReceive \/ Note
    BY <1>2, <2>3 DEF UserReceive, Note, hist
  <2>4. CASE DroneRefuses
    BY <1>1, <2>4 DEF DroneRefuses, Why, hist
  <2>5. CASE NoSession
    BY <1>1, <2>5 DEF NoSession, Accounted, Why, hist
  <2>6. ASSUME NEW n \in app.replies, Command(n) PROVE Accounted'
    <3>1. d' = [d EXCEPT !.tx = @ + n] => d'.live = d.live
      BY <1>0 DEF DroneEnd
    <3> QED
      BY <1>1, <1>2, <2>6, <3>1 DEF Command, Crash, Why, hist
  <2>7. CASE RekeyInit
    <3>1. CASE HasBudget(d)
      <4>1. d'.live = d.live /\ UNCHANGED <<closed, why, overdrawn>>
        BY <1>0, <2>7, <3>1 DEF RekeyInit, DroneEnd, hist
      <4> QED
        BY <1>2, <4>1
    <3>2. CASE ~HasBudget(d)
      BY <1>1, <2>7, <3>2 DEF RekeyInit, Crash, Why, hist
    <3> QED
      BY <3>1, <3>2
  <2>8. CASE LateReply
    <3>1. CASE d.live /\ HasBudget(d)
      <4>1. d'.live = d.live /\ UNCHANGED <<closed, why, overdrawn>>
        BY <1>0, <2>8, <3>1 DEF LateReply, Counted, DroneEnd
      <4> QED
        BY <1>2, <4>1
    <3>2. CASE ~(d.live /\ HasBudget(d))
      <4>1. /\ d'.live = FALSE /\ overdrawn' = (overdrawn \/ d.live)
            /\ (closed => closed') /\ why' \in {why, "crash"}
        BY <1>0, <2>8, <3>2 DEF LateReply, DroneEnd
      <4> QED
        BY <1>0, <4>1 DEF Accounted
    <3> QED
      BY <3>1, <3>2
  <2>9. CASE CloseLink \/ Dispose
    BY <2>9 DEF CloseLink, Dispose, Accounted, hist
  <2> QED
    BY <1>4, <2>1, <2>2, <2>3, <2>4, <2>5, <2>6, <2>7, <2>8, <2>9 DEF Next, DroneReceive
<1> QED
  BY <1>3, <1>4

LEMMA StepInStep ==
  ASSUME TInv, TInv', Disciplined, InStep, [Next]_vars, ~overlapped',
         why \notin {"epoch", "aead"}, ~app.late => dropped = 0
  PROVE  InStep' /\ why' \notin {"epoch", "aead"} /\ (~app'.late => dropped' = 0)
<1>1. CASE UNCHANGED vars
  <2>1. InStep'
    BY <1>1, CloseInStep DEF vars, rekey
  <2> QED
    BY <1>1, <2>1 DEF vars, hist
<1>2. CASE Next
  <2>a. UNCHANGED app
    BY <1>2 DEF Next
  <2>1. ASSUME NEW kind \in {"app", "note"}, Send(kind) PROVE InStep' /\ UNCHANGED <<why, dropped>>
    BY <2>1, SendInStep DEF Send
  <2>2. ASSUME NEW i \in Call, RekeyCall(i) PROVE InStep' /\ UNCHANGED <<why, dropped>>
    BY <2>2, RekeyCallInStep DEF RekeyCall
  <2>3. ASSUME NEW i \in Call, Install(i) PROVE InStep' /\ UNCHANGED <<why, dropped>>
    BY <2>3, InstallInStep DEF Install, hist
  <2>4. CASE UserReceive
    <3>1. why' = why
      BY <2>4 DEF UserReceive
    <3>2. InStep' /\ (~app.late => dropped' = dropped)
      BY <2>a, <2>4, LevelUserReceive, AheadUserReceive DEF InStep
    <3> QED
      BY <2>a, <3>1, <3>2
  <2>5. CASE DroneRefuses
    BY <2>5, InStepOpens DEF DroneRefuses
  <2>12. CASE NoSession
    BY <2>a, <2>12, NoSessionInStep DEF NoSession, TearDown, hist
  <2>6. ASSUME NEW n \in app.replies, Command(n)
        PROVE  InStep' /\ why' \in {why, "crash"} /\ dropped' = dropped
    <3>1. InStep'
      BY <2>6, CommandInStep, AppFields
    <3> QED
      BY <2>6, <3>1 DEF Command, Crash, TearDown, hist
  <2>7. CASE Note
    BY <2>a, <2>7, NoteInStep DEF Note, hist
  <2>8. CASE RekeyInit
    <3>1. InStep'
      <4>1. CASE HasBudget(d)
        BY <2>8, <4>1, RekeyInitInStep
      <4>2. CASE ~HasBudget(d)
        <5>1. Handling /\ Crash /\ UNCHANGED <<u, rekey>>
          BY <2>8, <4>2 DEF RekeyInit
        <5> QED
          BY <5>1, CrashInStep
      <4> QED
        BY <4>1, <4>2
    <3>2. why' \in {why, "crash"} /\ dropped' = dropped
      BY <2>8 DEF RekeyInit, Crash, TearDown, hist
    <3> QED
      BY <2>a, <3>1, <3>2
  <2>9. CASE LateReply
    <3>1. app.late
      BY <2>9, AppFields DEF LateReply, Disciplined
    <3>2. CASE d.live /\ HasBudget(d)
      <4>1. InStep'
        BY <2>a, <2>9, <3>1, <3>2, LateReplyInStep
      <4> QED
        BY <2>a, <2>9, <3>2, <4>1 DEF LateReply
    <3>3. CASE ~(d.live /\ HasBudget(d))
      <4>1. /\ UNCHANGED <<u, calls, pendingRekey, u2d, d2u, dropped>> /\ (closed => closed')
            /\ d'.epoch = d.epoch /\ d'.key = d.key /\ why' \in {why, "crash"}
        BY <2>9, <3>3 DEF LateReply, TInv, TypeOK, rekey
      <4>2. InStep'
        BY <2>a, <4>1, CloseInStep
      <4> QED
        BY <2>a, <4>1, <4>2
    <3> QED
      BY <3>2, <3>3
  <2>10. CASE CloseLink
    BY <2>a, <2>10, CloseInStep DEF CloseLink, rekey, hist
  <2>11. CASE Dispose
    <3>1. d'.epoch = d.epoch /\ d'.key = d.key
      BY <2>11 DEF Dispose, TInv, TypeOK
    <3> QED
      BY <2>a, <2>11, <3>1, CloseInStep DEF Dispose, rekey, hist
  <2> QED
    BY <1>2, <2>a, <2>1, <2>2, <2>3, <2>4, <2>5, <2>6, <2>7, <2>8, <2>9, <2>10, <2>11, <2>12
       DEF Next, DroneReceive
<1> QED
  BY <1>1, <1>2

\* Every frame the drone handles was paid for by the user since the last rekey,
\* and the drone pays at most one frame for it.
LEMMA StepFrugal ==
  ASSUME TInv, TInv', Disciplined, Frugal, InStep, InStep', [Next]_vars,
         ~app.overlap, Prompt, ~overlapped'
  PROVE  /\ Level' => d'.tx + Len(u2d') <= u'.tx
         /\ ~Level' => d'.tx = 0
         /\ why' # "crash"
<1>1. /\ Level => d.tx + Len(u2d) <= u.tx
      /\ ~Level => d.tx = 0
      /\ why # "crash"
  BY DEF Frugal
<1>2. /\ d.tx \in Nat /\ u.tx \in Nat /\ Cap \in Nat /\ u.tx <= Cap
      /\ Len(u2d) \in Nat /\ u2d \in Seq(Frame)
  BY Numbers
<1>3. ASSUME UNCHANGED <<u, u2d, why>>, d'.epoch = d.epoch, d'.key = d.key, d'.tx = d.tx
      PROVE  /\ Level' => d'.tx + Len(u2d') <= u'.tx
             /\ ~Level' => d'.tx = 0
             /\ why' # "crash"
  BY <1>1, <1>3 DEF Level
<1>4. CASE UNCHANGED vars
  BY <1>3, <1>4 DEF vars
<1>5. CASE Next
  <2>1. ASSUME NEW kind \in {"app", "note"}, Send(kind)
        PROVE  Level' /\ d'.tx + Len(u2d') <= u'.tx /\ why' # "crash"
    <3>1. Level' /\ Level
      BY <2>1, SendInStep
    <3>2. u'.tx = u.tx + 1 /\ UNCHANGED <<d, why>>
          /\ u2d' = Enqueue(u2d, <<Seal(u, kind, 0, 0)>>)
      BY <2>1 DEF Send, Counted, TInv, TypeOK
    <3>3. Len(u2d') <= Len(u2d) + 1
      BY <1>2, <3>2 DEF Enqueue
    <3>4. u2d' \in Seq(Frame)
      BY DEF TInv, TypeOK
    <3>5. Len(u2d') \in Nat
      BY <3>4
    <3>6. d'.tx = d.tx /\ why' = why
      BY <3>2
    <3>7. d.tx + Len(u2d') <= u.tx + 1
      BY <1>1, <1>2, <3>1, <3>3, <3>5
    <3> QED
      BY <1>1, <3>1, <3>2, <3>6, <3>7
  <2>2. ASSUME NEW i \in Call, RekeyCall(i)
        PROVE  Level' /\ d'.tx + Len(u2d') <= u'.tx /\ why' # "crash"
    <3>1. Level' /\ Level
      BY <2>2, RekeyCallInStep
    <3>2. /\ UNCHANGED <<d, why>>
          /\ \/ UNCHANGED <<u, u2d>>
             \/ u'.tx = u.tx + 1 /\ u2d' = Enqueue(u2d, <<Seal(u, "init", i, u.epoch + 1)>>)
      BY <2>2 DEF RekeyCall, Counted, TInv, TypeOK
    <3>3. CASE UNCHANGED <<u, u2d>>
      BY <1>1, <3>1, <3>2, <3>3
    <3>4. CASE u'.tx = u.tx + 1 /\ u2d' = Enqueue(u2d, <<Seal(u, "init", i, u.epoch + 1)>>)
      <4>1. Len(u2d') <= Len(u2d) + 1
        BY <1>2, <3>4 DEF Enqueue
      <4>2. u2d' \in Seq(Frame)
        BY DEF TInv, TypeOK
      <4>3. Len(u2d') \in Nat
        BY <4>2
      <4>4. d.tx + Len(u2d') <= u.tx + 1
        BY <1>1, <1>2, <3>1, <4>1, <4>3
      <4> QED
        BY <1>1, <3>1, <3>2, <3>4, <4>4
    <3> QED
      BY <3>2, <3>3, <3>4
  <2>3. ASSUME NEW i \in Call, Install(i)
        PROVE  Level' /\ d'.tx + Len(u2d') <= u'.tx /\ why' # "crash"
    <3>1. Level' /\ ~Level /\ u2d' = <<>> /\ UNCHANGED <<d, why>> /\ u'.tx = 0
      BY <2>3, InstallInStep DEF Install, Installed
    <3>2. d'.tx = 0 /\ Len(u2d') = 0
      BY <1>1, <3>1
    <3> QED
      BY <1>1, <3>1, <3>2
  <2>4. CASE UserReceive
    BY <1>3, <2>4 DEF UserReceive
  <2>5. CASE DroneRefuses
    BY <2>5, InStepOpens DEF DroneRefuses
  <2>12. CASE NoSession
    <3>1. Level' /\ Level /\ Len(u2d') = Len(u2d) - 1 /\ d'.tx = d.tx /\ u' = u
          /\ why' = "nosession"
      BY <2>12, NoSessionInStep DEF NoSession, TearDown
    <3>2. d.tx + (Len(u2d) - 1) <= u.tx
      BY <1>1, <1>2, <3>1
    <3> QED
      BY <3>1, <3>2
  <2>6. ASSUME NEW n \in app.replies, Command(n)
        PROVE  Level' /\ d'.tx + Len(u2d') <= u'.tx /\ why' # "crash"
    <3>1. n \in {0, 1}
      BY DEF Prompt
    <3>2. InStep' /\ Level'
      BY <2>6, <3>1, CommandInStep
    <3>3. Level /\ Len(u2d) >= 1 /\ Len(u2d') = Len(u2d) - 1 /\ u' = u
      BY <2>6, InStepOpens DEF Command
    <3>4. d.tx + 1 <= Cap
      BY <1>1, <1>2, <3>3
    <3>5. ~(d.tx + n > Cap)
      BY <1>2, <3>1, <3>4
    <3>6. d'.tx = d.tx + n /\ why' = why
      BY <2>6, <3>5 DEF Command, TInv, TypeOK
    <3>7. d.tx + n + (Len(u2d) - 1) <= u.tx
      BY <1>1, <1>2, <3>1, <3>3
    <3> QED
      BY <1>1, <3>2, <3>3, <3>6, <3>7
  <2>7. CASE Note
    <3>1. Level' /\ Level /\ Len(u2d) >= 1 /\ Len(u2d') = Len(u2d) - 1 /\ UNCHANGED <<u, d, why>>
      BY <2>7, NoteInStep, InStepOpens DEF Note
    <3>2. d.tx + (Len(u2d) - 1) <= u.tx
      BY <1>1, <1>2, <3>1
    <3> QED
      BY <1>1, <3>1, <3>2
  <2>8. CASE RekeyInit
    <3>1. Level /\ Len(u2d) >= 1
      BY <2>8, InStepOpens DEF RekeyInit
    <3>2. HasBudget(d)
      <4>1. d.tx < Cap
        BY <1>1, <1>2, <3>1
      <4> QED
        BY <4>1 DEF HasBudget
    <3>3. ~Level' /\ d'.tx = 0
      BY <2>8, <3>2, RekeyInitInStep
    <3>4. why' = why
      BY <2>8, <3>2 DEF RekeyInit
    <3> QED
      BY <1>1, <3>3, <3>4
  <2>9. CASE LateReply
    BY <2>9 DEF LateReply, Prompt, Disciplined
  <2>10. CASE CloseLink
    BY <1>1, <2>10 DEF CloseLink, Level
  <2>11. CASE Dispose
    <3>1. d'.epoch = d.epoch /\ d'.key = d.key /\ d'.tx = d.tx
      BY <2>11 DEF Dispose, TInv, TypeOK
    <3> QED
      BY <1>3, <2>11, <3>1 DEF Dispose
  <2> QED
    BY <1>5, <2>1, <2>2, <2>3, <2>4, <2>5, <2>6, <2>7, <2>8, <2>9, <2>10, <2>11, <2>12
       DEF Next, DroneReceive
<1> QED
  BY <1>4, <1>5

LEMMA NextSInv == SInv /\ [Next]_vars => SInv'
<1> SUFFICES ASSUME SInv, [Next]_vars PROVE SInv'
  OBVIOUS
<1>1. TInv /\ TInv' /\ Disciplined /\ Accounted /\ Frugal
  BY NextTyped DEF SInv
<1>2. Disciplined' /\ Accounted'
  BY <1>1, StepDisciplined, StepAccounted
<1>3. overlapped => overlapped'
  BY DEF Next, DroneReceive, Send, RekeyCall, Install, UserReceive, DroneRefuses, NoSession,
     Command, Note, RekeyInit, LateReply, CloseLink, Dispose, vars, hist
<1>4. UNCHANGED app
  BY DEF Next, vars
<1>5. ~overlapped' => /\ InStep /\ InStep' /\ why' \notin {"epoch", "aead"}
                      /\ ~app'.late => dropped' = 0
  BY <1>1, <1>3, StepInStep DEF SInv
<1>6. Frugal'
  <2> SUFFICES ASSUME ~app.overlap, Prompt PROVE /\ Level' => d'.tx + Len(u2d') <= u'.tx
                                                 /\ ~Level' => d'.tx = 0
                                                 /\ why' # "crash"
    BY <1>4 DEF Frugal, Prompt
  <2>1. ~overlapped'
    BY <1>2, <1>4, AppFields DEF Disciplined
  <2> QED
    BY <1>1, <1>5, <2>1, StepFrugal
<1> QED
  BY <1>1, <1>2, <1>5, <1>6 DEF SInv

LEMMA StaysInStep == Spec => []SInv
  BY InitInStep, NextSInv, PTL DEF Spec

-----------------------------------------------------------------------------
\* handleData refuses an honest frame, for its epoch or its keys, only after the
\* user's application sent something while a rekey was pending, and for want of a
\* session only after the drone's used a kept reply when the budget was spent.
THEOREM RefusalHasCauseHolds == Spec => []RefusalHasCause
<1>1. SInv => RefusalHasCause
  BY DEF SInv, Accounted, RefusalHasCause
<1> QED
  BY <1>1, StaysInStep, PTL

\* Called one at a time, rekey() never leaves the ends with different keys for
\* one epoch, nor the drone ahead without a call that will catch up.
THEOREM EpochsAgreeHolds == Spec => []EpochsAgree
<1>1. SInv => EpochsAgree
  <2> SUFFICES ASSUME SInv, ~app.overlap PROVE Agreement
    BY DEF EpochsAgree
  <2>1. TInv /\ InStep
    BY AppFields DEF SInv, Disciplined
  <2>2. CASE Level
    BY <2>2 DEF Level, Agreement
  <2>3. CASE \E i \in Call : Ahead(i)
    BY <2>1, <2>3, Numbers DEF Ahead, Rekeying, Agreement
  <2> QED
    BY <2>1, <2>2, <2>3 DEF InStep
<1> QED
  BY <1>1, StaysInStep, PTL

\* Called one at a time and with no reply kept for later, the user's session
\* object never throws away a frame of the drone.
THEOREM NothingDroppedHolds == Spec => []NothingDropped
<1>1. SInv => NothingDropped
  BY AppFields DEF SInv, Disciplined, NothingDropped
<1> QED
  BY <1>1, StaysInStep, PTL

\* Called one at a time, with at most one prompt reply to each command, nothing
\* the two honest ends do to each other ends the session: no epoch mismatch, no
\* failed frame, and no sendFrame at the cap whatever the cap is.
THEOREM NoTearDownHolds == Spec => []NoTearDown
<1>1. SInv => NoTearDown
  <2> SUFFICES ASSUME SInv, ~app.overlap, Prompt PROVE why \in {"none", "closed"}
    BY DEF NoTearDown
  <2>1. why \notin {"epoch", "aead"} /\ why # "crash"
    BY AppFields DEF SInv, Disciplined, Frugal
  <2>3. why # "nosession"
    BY AppFields DEF SInv, Disciplined, Accounted, Prompt
  <2>2. why \in {"none", "closed", "epoch", "aead", "nosession", "crash"}
    BY DEF SInv, TInv, TypeOK, Why
  <2> QED
    BY <2>1, <2>2, <2>3
<1> QED
  BY <1>1, StaysInStep, PTL
=============================================================================
