---------------------------- MODULE ReplayWindow ----------------------------
(***************************************************************************)
(* One direction of an open session: the sender's sequence numbers and    *)
(* per-epoch seal budget, and the receiver's gate order, replay window    *)
(* and per-epoch decryption budget (DroneSession.handleData when drone,   *)
(* the user's link.onMessage handler otherwise).  The network may deliver *)
(* any frame any number of times, in any order, or alter it.               *)
(***************************************************************************)
EXTENDS Integers, FiniteSets

CONSTANTS Window,        \* SESSION_REPLAY_WINDOW
          Cap,           \* maxFramesPerEpochKey()
          MaxSeq,        \* bound: largest sequence number sealed
          MaxEpoch       \* bound: number of rekeys

ASSUME WindowAssumption == Window \in Nat \ {0}
ASSUME CapAssumption    == Cap \in Nat \ {0}
ASSUME BoundAssumption  == MaxSeq \in Nat /\ MaxEpoch \in Nat

Epoch == 0..MaxEpoch
Seq0  == 0..MaxSeq
Frame == [epoch : Epoch, seq : Seq0]

VARIABLES
  drone,            \* TRUE: u2d, the drone receives; FALSE: d2u, the user does
  sealed,           \* every frame the sender has sealed; the network keeps them all
  txEpoch, txSeq, epochTxCount,                        \* sender
  epoch, rxLastSeq, rxWindow, epochRxAttempts,         \* receiver
  open,             \* the receiver's session state still exists
  closing,          \* the receiver has called link.close()
  delivered,        \* history: how often each frame was accepted
  attempts          \* history: frames each epoch's key was tried on, good or bad

sender   == <<txEpoch, txSeq, epochTxCount>>
receiver == <<epoch, rxLastSeq, rxWindow, epochRxAttempts, open, closing>>
history  == <<delivered, attempts>>
vars     == <<drone, sealed, sender, receiver, history>>

Init ==
  /\ drone \in BOOLEAN
  /\ sealed = {}
  /\ txEpoch = 0 /\ txSeq = 0 /\ epochTxCount = 0
  /\ epoch = 0 /\ rxLastSeq = -1 /\ rxWindow = {} /\ epochRxAttempts = 0
  /\ open = TRUE /\ closing = FALSE
  /\ delivered = [f \in Frame |-> 0]
  /\ attempts = [e \in Epoch |-> 0]

-----------------------------------------------------------------------------
(* The sender. *)

WithinTxBudget(count) == count < Cap

\* UserSession.send / DroneSession.sendFrame below the cap.
Seal ==
  /\ WithinTxBudget(epochTxCount)
  /\ txSeq <= MaxSeq
  /\ sealed' = sealed \cup {[epoch |-> txEpoch, seq |-> txSeq]}
  /\ epochTxCount' = epochTxCount + 1
  /\ txSeq' = txSeq + 1
  /\ UNCHANGED <<txEpoch, receiver, history>>

\* In u2d the drone (receiver) moves to the next epoch first, in d2u the drone
\* (sender) does; the other end follows before the next rekey.
MaySwitch(mine, other, isDrone) ==
  IF isDrone THEN mine = other ELSE mine < other

\* The sequence number survives the rekey; only the budget restarts.
WrongSeqAfterRekey(s) == 0
SeqAfterRekey(s) == s

SenderRekey ==
  /\ txEpoch < MaxEpoch
  /\ MaySwitch(txEpoch, epoch, ~drone)
  /\ txEpoch' = txEpoch + 1
  /\ epochTxCount' = 0
  /\ txSeq' = SeqAfterRekey(txSeq)
  /\ UNCHANGED <<sealed, receiver, history>>

-----------------------------------------------------------------------------
(* The receiver. *)

WrongAttemptsAfterRekey(n) == n
AttemptsAfterRekey(n) == 0

ReceiverRekey ==
  /\ open
  /\ epoch < MaxEpoch
  /\ MaySwitch(epoch, txEpoch, drone)
  /\ epoch' = epoch + 1
  /\ epochRxAttempts' = AttemptsAfterRekey(epochRxAttempts)
  /\ UNCHANGED <<sealed, sender, rxLastSeq, rxWindow, open, closing, history>>

\* The drone answers any bad frame with abort(); the user drops it silently.
OnReject == closing' = (closing \/ drone)

WrongTooOld(s)   == s < rxLastSeq - Window
WrongExhausted   == epochRxAttempts > Cap

TooOld(s)     == s <= rxLastSeq - Window
Replayed(s)   == s \in rxWindow
IsValidSeq(s) == s >= 0
Exhausted     == epochRxAttempts + 1 > Cap

\* Refused before the attempt is counted: no session, other epoch, bad seq.
Discard(e, s) ==
  /\ ~open \/ e # epoch \/ ~IsValidSeq(s)
  /\ OnReject
  /\ UNCHANGED <<sealed, sender, epoch, rxLastSeq, rxWindow, epochRxAttempts, open, history>>

\* The attempt that crosses the cap: both ends close the link, and the drone
\* disposes of its state at once.  The user keeps counting; counts above the
\* cap are not told apart.
Overrun(e, s) ==
  /\ open /\ e = epoch /\ IsValidSeq(s)
  /\ Exhausted
  /\ epochRxAttempts' = Cap + 1
  /\ closing' = TRUE
  /\ open' = ~drone
  /\ UNCHANGED <<sealed, sender, epoch, rxLastSeq, rxWindow, history>>

\* Counted against the budget, but refused by the window before decryption.
Refuse(e, s) ==
  /\ open /\ e = epoch /\ IsValidSeq(s)
  /\ ~Exhausted
  /\ TooOld(s) \/ Replayed(s)
  /\ epochRxAttempts' = epochRxAttempts + 1
  /\ attempts' = [attempts EXCEPT ![e] = @ + 1]
  /\ OnReject
  /\ UNCHANGED <<sealed, sender, epoch, rxLastSeq, rxWindow, open, delivered>>

Verifiable(e, s) ==
  /\ open /\ e = epoch /\ IsValidSeq(s)
  /\ ~Exhausted
  /\ ~TooOld(s) /\ ~Replayed(s)

\* An altered frame, or one never sealed: the tag does not verify.
Forged(e, s) ==
  /\ Verifiable(e, s)
  /\ epochRxAttempts' = epochRxAttempts + 1
  /\ attempts' = [attempts EXCEPT ![e] = @ + 1]
  /\ OnReject
  /\ UNCHANGED <<sealed, sender, epoch, rxLastSeq, rxWindow, open, delivered>>

Prune(win, last) == {s \in win : s > last - Window}
Newest(a, b) == IF a > b THEN a ELSE b

\* A frame exactly as sealed: recorded in the window, which is then pruned.
Accept(e, s) ==
  /\ Verifiable(e, s)
  /\ [epoch |-> e, seq |-> s] \in sealed
  /\ epochRxAttempts' = epochRxAttempts + 1
  /\ attempts' = [attempts EXCEPT ![e] = @ + 1]
  /\ rxLastSeq' = Newest(s, rxLastSeq)
  /\ rxWindow' = Prune(rxWindow \cup {s}, rxLastSeq')
  /\ delivered' = [delivered EXCEPT ![[epoch |-> e, seq |-> s]] = @ + 1]
  /\ UNCHANGED <<sealed, sender, epoch, open, closing>>

\* The close event the transport raises later; only the drone listens to it.
LinkClosed ==
  /\ drone /\ closing /\ open
  /\ open' = FALSE
  /\ UNCHANGED <<sealed, sender, epoch, rxLastSeq, rxWindow, epochRxAttempts, closing, history>>

Receive(e, s) ==
  \/ Discard(e, s) \/ Overrun(e, s) \/ Refuse(e, s)
  \/ Forged(e, s)  \/ Accept(e, s)

Next ==
  /\ \/ Seal \/ SenderRekey \/ ReceiverRekey \/ LinkClosed
     \/ \E e \in Epoch, s \in -1..MaxSeq : Receive(e, s)
  /\ UNCHANGED drone

Spec == Init /\ [][Next]_vars

-----------------------------------------------------------------------------
TypeOK ==
  /\ drone \in BOOLEAN /\ sealed \subseteq Frame
  /\ txEpoch \in Epoch /\ txSeq \in 0..(MaxSeq + 1) /\ epochTxCount \in 0..Cap
  /\ epoch \in Epoch /\ rxLastSeq \in -1..MaxSeq /\ rxWindow \subseteq Seq0
  /\ epochRxAttempts \in 0..(Cap + 1)
  /\ open \in BOOLEAN /\ closing \in BOOLEAN
  /\ delivered \in [Frame -> Nat] /\ attempts \in [Epoch -> Nat]

\* However frames are reordered, repeated or altered, and across rekeys, no
\* sealed frame is handed up twice and nothing else is handed up
\* (replay test and tag check of handleData / the user's onMessage).
AtMostOnce ==
  \A f \in Frame : /\ delivered[f] <= 1
                   /\ delivered[f] = 1 => f \in sealed

\* Forgeries, retired epochs and pruning never make the window refuse a frame
\* wrongly: an undelivered frame of the live epoch is refused only once some
\* delivered frame is a whole Window ahead of it.
NoFalseReject ==
  \A f \in sealed :
    (f.epoch = epoch /\ delivered[f] = 0 /\ (TooOld(f.seq) \/ Replayed(f.seq)))
      => \E g \in sealed : delivered[g] = 1 /\ g.seq >= f.seq + Window

\* The AEAD bound's premise: under one epoch key at most Cap frames are sealed
\* and at most Cap frames, good or forged, reach the window and the tag check.
KeyBudget ==
  \A e \in Epoch : /\ attempts[e] <= Cap
                   /\ Cardinality({f \in sealed : f.epoch = e}) <= Cap

\* A rekey really restores the receive budget: the cap only tears a session
\* down for attempts made under the live epoch's own key.
BudgetIsPerEpoch == (open /\ Exhausted) => attempts[epoch] = Cap

\* The window never holds more than Window entries over a long session.
WindowBounded == Cardinality(rxWindow) <= Window

Delivery == INSTANCE OneShotDelivery

\* Refinement: the window, the epochs and the budgets together implement
\* one-shot delivery of sealed frames.
ImplementsOneShotDelivery == Delivery!Spec
=============================================================================
