--------------------------- MODULE FreshnessProofs ---------------------------
(***************************************************************************)
(* The two memories by which the drone tells a fresh message from a used  *)
(* one.  The replay window, for every window, budget and number of        *)
(* frames: type correctness, the safety properties of ReplayWindow, and   *)
(* that it implements OneShotDelivery; the heart is WindowExact: the       *)
(* window set is the delivered sequence numbers that are still recent.     *)
(* The freshness gate, for every set of nonces, lifetime, capacity and    *)
(* number of restarts: a token used since boot and not yet expired is      *)
(* still in the cache, and a token used before boot carries an iat older   *)
(* than the boot.                                                          *)
(***************************************************************************)
EXTENDS ReplayWindow, HelloGate, FiniteSetTheorems, TLAPS

-----------------------------------------------------------------------------
(* The replay window. *)

Was(f) == delivered[f] = 1

\* Sequence numbers are handed out once, whatever the epoch.
SealedOnce ==
  /\ \A f \in sealed : f.seq < txSeq
  /\ \A f, g \in sealed : f.seq = g.seq => f = g

DeliveredKnown ==
  \A f \in Frame : /\ delivered[f] \in {0, 1}
                   /\ Was(f) => f \in sealed /\ f.seq <= rxLastSeq

WindowExact ==
  \A s \in Seq0 : s \in rxWindow <=> /\ s > rxLastSeq - Window
                                     /\ \E f \in sealed : Was(f) /\ f.seq = s

LastDelivered == rxLastSeq # -1 => \E f \in sealed : Was(f) /\ f.seq = rxLastSeq

AttemptsExact ==
  /\ \A e \in Epoch : attempts[e] <= Cap /\ (e > epoch => attempts[e] = 0)
  /\ epochRxAttempts <= Cap => attempts[epoch] = epochRxAttempts
  /\ epochRxAttempts > Cap => attempts[epoch] = Cap

IInv == /\ TypeOK /\ SealedOnce /\ DeliveredKnown
        /\ WindowExact /\ LastDelivered /\ AttemptsExact

USE WindowAssumption, CapAssumption, BoundAssumption

LEMMA InitIInv == Init => IInv
<1> SUFFICES ASSUME Init PROVE IInv
  OBVIOUS
<1> USE DEF Init
<1>1. TypeOK
  <2>1. 0 \in Epoch /\ txSeq \in 0..(MaxSeq + 1) /\ rxLastSeq \in -1..MaxSeq
    BY DEF Epoch
  <2>2. delivered \in [Frame -> Nat] /\ attempts \in [Epoch -> Nat]
    OBVIOUS
  <2>3. epochRxAttempts \in 0..(Cap + 1) /\ epochTxCount \in 0..Cap
    OBVIOUS
  <2>4. sealed \subseteq Frame /\ rxWindow \subseteq Seq0
    OBVIOUS
  <2>5. txEpoch = 0 /\ epoch = 0 /\ drone \in BOOLEAN /\ open \in BOOLEAN /\ closing \in BOOLEAN
    OBVIOUS
  <2> HIDE DEF Init
  <2> QED
    BY <2>1, <2>2, <2>3, <2>4, <2>5 DEF TypeOK
<1>2. SealedOnce /\ DeliveredKnown /\ WindowExact /\ LastDelivered
  BY DEF SealedOnce, DeliveredKnown, WindowExact, LastDelivered, Was
<1>3. AttemptsExact
  BY DEF AttemptsExact, Epoch
<1> HIDE DEF Init
<1> QED
  BY <1>1, <1>2, <1>3 DEF IInv

LEMMA TypeStep == TypeOK /\ [Next]_vars => TypeOK'
<1> SUFFICES ASSUME TypeOK, [Next]_vars PROVE TypeOK'
  OBVIOUS
<1>0. drone' = drone
  BY DEF Next, vars
<1> USE <1>0 DEF TypeOK, Epoch, Seq0, Frame, sender, receiver, history
<1>1. CASE Seal
  BY <1>1 DEF Seal, WithinTxBudget
<1>2. CASE SenderRekey
  BY <1>2 DEF SenderRekey, SeqAfterRekey
<1>3. CASE ReceiverRekey
  BY <1>3 DEF ReceiverRekey, AttemptsAfterRekey
<1>4. CASE LinkClosed
  BY <1>4 DEF LinkClosed
<1>5. ASSUME NEW e \in Epoch, NEW s \in -1..MaxSeq, Receive(e, s) PROVE TypeOK'
  <2>1. CASE Discard(e, s)
    BY <2>1 DEF Discard, OnReject
  <2>2. CASE Overrun(e, s)
    BY <2>2 DEF Overrun
  <2>3. CASE Refuse(e, s)
    BY <2>3 DEF Refuse, OnReject, Exhausted
  <2>4. CASE Forged(e, s)
    BY <2>4 DEF Forged, Verifiable, Exhausted, OnReject
  <2>5. CASE Accept(e, s)
    <3>1. s \in Seq0 /\ rxLastSeq' \in -1..MaxSeq
      BY <2>5 DEF Accept, Verifiable, IsValidSeq, Newest
    <3>2. rxWindow' \subseteq Seq0
      BY <2>5, <3>1 DEF Accept, Prune
    <3>3. epochRxAttempts' \in 0..(Cap + 1)
      BY <2>5 DEF Accept, Verifiable, Exhausted
    <3>4. attempts' \in [Epoch -> Nat]
      BY <2>5 DEF Accept
    <3> HIDE DEF Frame
    <3>5. delivered' \in [Frame -> Nat]
      BY <2>5 DEF Accept
    <3> QED
      BY <2>5, <3>1, <3>2, <3>3, <3>4, <3>5 DEF Accept
  <2> QED
    BY <1>5, <2>1, <2>2, <2>3, <2>4, <2>5 DEF Receive
<1>6. CASE UNCHANGED vars
  BY <1>6 DEF vars
<1> QED
  BY <1>1, <1>2, <1>3, <1>4, <1>5, <1>6 DEF Next

\* Every step that accepts no frame keeps what is known about deliveries.
LEMMA QuietStep ==
  ASSUME IInv, UNCHANGED <<sealed, delivered, rxLastSeq, rxWindow>>, txSeq' = txSeq
  PROVE  SealedOnce' /\ DeliveredKnown' /\ WindowExact' /\ LastDelivered'
  BY DEF IInv, SealedOnce, DeliveredKnown, WindowExact, LastDelivered, Was

LEMMA SealStep ==
  ASSUME IInv, Seal
  PROVE  SealedOnce' /\ DeliveredKnown' /\ WindowExact' /\ LastDelivered' /\ AttemptsExact'
<1> DEFINE n == [epoch |-> txEpoch, seq |-> txSeq]
<1> USE DEF Seal, sender, receiver, history
<1>1. n \in Frame /\ n \notin sealed /\ n.seq = txSeq /\ ~Was(n)
  BY DEF IInv, TypeOK, SealedOnce, DeliveredKnown, Was, Frame, Epoch, Seq0
<1>2. \A f \in sealed : f \in Frame /\ f.seq \in Nat
  BY DEF IInv, TypeOK, Frame, Seq0
<1>3. SealedOnce'
  BY <1>1, <1>2 DEF IInv, TypeOK, SealedOnce
<1>4. DeliveredKnown'
  BY DEF IInv, DeliveredKnown, Was
<1>5. WindowExact'
  BY <1>1 DEF IInv, WindowExact, Was
<1>6. LastDelivered'
  BY <1>1 DEF IInv, LastDelivered, Was
<1>7. AttemptsExact'
  BY DEF IInv, AttemptsExact
<1> QED
  BY <1>3, <1>4, <1>5, <1>6, <1>7

LEMMA AcceptStep ==
  ASSUME IInv, NEW e \in Epoch, NEW s \in -1..MaxSeq, Accept(e, s)
  PROVE  /\ delivered[[epoch |-> e, seq |-> s]] = 0
         /\ SealedOnce' /\ DeliveredKnown' /\ WindowExact' /\ LastDelivered' /\ AttemptsExact'
<1> DEFINE n == [epoch |-> e, seq |-> s]
<1> USE DEF Accept, Verifiable, sender, receiver, history
<1>1. n \in sealed /\ n \in Frame /\ n.seq = s /\ s \in Seq0 /\ n.epoch = e
  BY DEF IInv, TypeOK, Frame, Seq0, IsValidSeq
<1>2. s > rxLastSeq - Window /\ s \notin rxWindow /\ rxLastSeq \in Int
  BY <1>1 DEF IInv, TypeOK, TooOld, Replayed, Seq0
<1>3. \A f \in sealed : f.seq = s => ~Was(f)
  BY <1>1, <1>2 DEF IInv, WindowExact
<1>4. delivered[n] = 0
  BY <1>1, <1>3 DEF IInv, DeliveredKnown, Was
<1>5. /\ delivered' \in [Frame -> Nat] /\ delivered'[n] = 1
      /\ \A f \in Frame : f # n => delivered'[f] = delivered[f]
  BY <1>1, <1>4 DEF IInv, TypeOK
<1>6. SealedOnce'
  BY DEF IInv, SealedOnce
<1>7. rxLastSeq' >= rxLastSeq /\ rxLastSeq' >= s /\ rxLastSeq' \in {s, rxLastSeq}
      /\ rxLastSeq' \in Int
  BY <1>1, <1>2 DEF Newest, Seq0
<1>8. DeliveredKnown'
  <2> SUFFICES ASSUME NEW f \in Frame
               PROVE  /\ delivered'[f] \in {0, 1}
                      /\ delivered'[f] = 1 => f \in sealed' /\ f.seq <= rxLastSeq'
    BY DEF DeliveredKnown, Was
  <2>1. f.seq \in Int
    BY DEF Frame, Seq0
  <2> QED
    BY <2>1, <1>1, <1>2, <1>5, <1>7 DEF IInv, DeliveredKnown, Was
<1>9. WindowExact'
  <2> SUFFICES ASSUME NEW t \in Seq0
               PROVE  t \in rxWindow' <=> /\ t > rxLastSeq' - Window
                                          /\ \E f \in sealed : delivered'[f] = 1 /\ f.seq = t
    BY DEF WindowExact, Was
  <2>1. t \in rxWindow' <=> (t \in rxWindow \/ t = s) /\ t > rxLastSeq' - Window
    BY DEF Prune
  <2>2. t > rxLastSeq' - Window => t > rxLastSeq - Window
    BY <1>2, <1>7 DEF Seq0
  <2>3. \A f \in sealed : f \in Frame
    BY DEF IInv, TypeOK
  <2>4. (\E f \in sealed : delivered'[f] = 1 /\ f.seq = t)
          <=> (t = s \/ \E f \in sealed : Was(f) /\ f.seq = t)
    BY <1>1, <1>4, <1>5, <2>3 DEF Was
  <2> QED
    BY <2>1, <2>2, <2>4 DEF IInv, WindowExact
<1>10. LastDelivered'
  <2>1. \A f \in sealed : f \in Frame
    BY DEF IInv, TypeOK
  <2>2. s # -1
    BY <1>1 DEF Seq0
  <2> QED
    BY <1>1, <1>4, <1>5, <1>7, <2>1, <2>2 DEF IInv, LastDelivered, Was
<1>11. AttemptsExact'
  BY DEF IInv, TypeOK, AttemptsExact, Exhausted, Epoch
<1> QED
  BY <1>4, <1>6, <1>8, <1>9, <1>10, <1>11

LEMMA IInvStep == IInv /\ [Next]_vars => IInv'
<1> SUFFICES ASSUME IInv, [Next]_vars PROVE IInv'
  OBVIOUS
<1>0. TypeOK'
  BY TypeStep DEF IInv
<1> USE DEF sender, receiver, history
<1>1. CASE Seal
  BY <1>0, <1>1, SealStep DEF IInv
<1>2. CASE SenderRekey
  <2>1. AttemptsExact'
    BY <1>2 DEF SenderRekey, IInv, AttemptsExact
  <2> QED
    BY <1>0, <1>2, <2>1, QuietStep DEF SenderRekey, SeqAfterRekey, IInv
<1>3. CASE ReceiverRekey
  <2>1. AttemptsExact'
    BY <1>3 DEF ReceiverRekey, AttemptsAfterRekey, IInv, TypeOK, AttemptsExact, Epoch
  <2> QED
    BY <1>0, <1>3, <2>1, QuietStep DEF ReceiverRekey, IInv
<1>4. CASE LinkClosed
  <2>1. AttemptsExact'
    BY <1>4 DEF LinkClosed, IInv, AttemptsExact
  <2> QED
    BY <1>0, <1>4, <2>1, QuietStep DEF LinkClosed, IInv
<1>5. ASSUME NEW e \in Epoch, NEW s \in -1..MaxSeq, Receive(e, s) PROVE IInv'
  <2>1. CASE Discard(e, s)
    <3>1. AttemptsExact'
      BY <2>1 DEF Discard, IInv, AttemptsExact
    <3> QED
      BY <1>0, <2>1, <3>1, QuietStep DEF Discard, IInv
  <2>2. CASE Overrun(e, s)
    <3>1. AttemptsExact'
      BY <2>2 DEF Overrun, Exhausted, IInv, TypeOK, AttemptsExact, Epoch
    <3> QED
      BY <1>0, <2>2, <3>1, QuietStep DEF Overrun, IInv
  <2>3. CASE Refuse(e, s)
    <3>1. AttemptsExact'
      BY <2>3 DEF Refuse, Exhausted, IInv, TypeOK, AttemptsExact, Epoch
    <3> QED
      BY <1>0, <2>3, <3>1, QuietStep DEF Refuse, IInv
  <2>4. CASE Forged(e, s)
    <3>1. AttemptsExact'
      BY <2>4 DEF Forged, Verifiable, Exhausted, IInv, TypeOK, AttemptsExact, Epoch
    <3> QED
      BY <1>0, <2>4, <3>1, QuietStep DEF Forged, IInv
  <2>5. CASE Accept(e, s)
    BY <1>0, <2>5, AcceptStep DEF IInv
  <2> QED
    BY <1>5, <2>1, <2>2, <2>3, <2>4, <2>5 DEF Receive
<1>6. CASE UNCHANGED vars
  <2>1. AttemptsExact'
    BY <1>6 DEF vars, IInv, AttemptsExact
  <2> QED
    BY <1>0, <1>6, <2>1, QuietStep DEF vars, IInv
<1> QED
  BY <1>1, <1>2, <1>3, <1>4, <1>5, <1>6 DEF Next

LEMMA Inductive == Spec => []IInv
  BY InitIInv, IInvStep, PTL DEF Spec

\* Every variable of the frame channel keeps its type.
THEOREM TypeCorrect == Spec => []TypeOK
<1>1. IInv => TypeOK
  BY DEF IInv
<1> QED
  BY <1>1, Inductive, PTL

\* No frame is handed up twice, and only sealed frames are: for every window,
\* budget, reordering and forgery.
THEOREM AtMostOnceHolds == Spec => []AtMostOnce
<1>1. IInv => AtMostOnce
  BY DEF IInv, DeliveredKnown, AtMostOnce, Was
<1> QED
  BY <1>1, Inductive, PTL

\* An undelivered frame of the live epoch is refused only when it really fell a
\* whole window behind.
THEOREM NoFalseRejectHolds == Spec => []NoFalseReject
<1>1. IInv => NoFalseReject
  <2> SUFFICES ASSUME IInv, NEW f \in sealed, delivered[f] = 0,
                      TooOld(f.seq) \/ Replayed(f.seq)
               PROVE  \E g \in sealed : delivered[g] = 1 /\ g.seq >= f.seq + Window
    BY DEF NoFalseReject
  <2>1. f \in Frame /\ f.seq \in Seq0 /\ rxLastSeq \in Int
    BY DEF IInv, TypeOK, Frame, Seq0
  <2>2. ~Replayed(f.seq)
    BY <2>1 DEF Replayed, IInv, WindowExact, SealedOnce, Was
  <2>3. rxLastSeq # -1 /\ f.seq + Window <= rxLastSeq
    BY <2>1, <2>2 DEF TooOld, Seq0
  <2> QED
    BY <2>3 DEF IInv, LastDelivered, Was
<1> QED
  BY <1>1, Inductive, PTL

\* Attempts under a retired key never tear down the epoch that replaced it.
THEOREM BudgetIsPerEpochHolds == Spec => []BudgetIsPerEpoch
<1>1. IInv => BudgetIsPerEpoch
  BY DEF IInv, TypeOK, AttemptsExact, BudgetIsPerEpoch, Exhausted
<1> QED
  BY <1>1, Inductive, PTL

\* The frames sealed under one epoch's key, and how many the sender counted.
Under(e) == {f \in sealed : f.epoch = e}
SealCount ==
  /\ \A e \in Epoch : IsFiniteSet(Under(e)) /\ Cardinality(Under(e)) <= Cap
  /\ \A f \in sealed : f.epoch <= txEpoch
  /\ Cardinality(Under(txEpoch)) = epochTxCount

LEMMA SealCountStep == IInv /\ SealCount /\ [Next]_vars => SealCount'
<1> SUFFICES ASSUME IInv, SealCount, [Next]_vars PROVE SealCount'
  OBVIOUS
<1> USE DEF sender, receiver, history
<1>1. CASE Seal
  <2> DEFINE n == [epoch |-> txEpoch, seq |-> txSeq]
  <2>1. /\ n \notin sealed /\ n.epoch = txEpoch /\ txEpoch \in Epoch
        /\ epochTxCount \in Nat /\ epochTxCount < Cap
    BY <1>1 DEF Seal, WithinTxBudget, IInv, TypeOK, SealedOnce, Epoch
  <2>2. Under(txEpoch)' = Under(txEpoch) \cup {n} /\ n \notin Under(txEpoch)
    BY <1>1, <2>1 DEF Seal, Under
  <2>3. \A e \in Epoch : e # txEpoch => Under(e)' = Under(e)
    BY <1>1, <2>1 DEF Seal, Under
  <2>4. IsFiniteSet(Under(txEpoch)') /\ Cardinality(Under(txEpoch)') = epochTxCount + 1
    BY <2>1, <2>2, FS_AddElement DEF SealCount
  <2>6. txEpoch' = txEpoch /\ epochTxCount' = epochTxCount + 1
    BY <1>1 DEF Seal
  <2>5. ASSUME NEW e \in Epoch PROVE IsFiniteSet(Under(e)') /\ Cardinality(Under(e)') <= Cap
    <3>1. CASE e # txEpoch
      BY <2>3, <3>1 DEF SealCount
    <3>2. CASE e = txEpoch
      <4>1. Under(e)' = Under(txEpoch)'
        BY <2>6, <3>2 DEF Under
      <4> QED
        BY <2>1, <2>4, <4>1
    <3> QED
      BY <3>1, <3>2
  <2>7. \A f \in sealed' : f.epoch <= txEpoch'
    BY <1>1, <2>1, <2>6 DEF Seal, SealCount, Epoch
  <2> QED
    BY <2>4, <2>5, <2>6, <2>7 DEF SealCount
<1>2. CASE SenderRekey
  <2>1. txEpoch' = txEpoch + 1 /\ txEpoch \in Nat /\ sealed' = sealed /\ epochTxCount' = 0
    BY <1>2 DEF SenderRekey, IInv, TypeOK, Epoch
  <2>2. \A f \in sealed : f.epoch \in Nat
    BY DEF IInv, TypeOK, Frame, Epoch
  <2>3. Under(txEpoch + 1) = {}
    BY <2>1, <2>2 DEF SealCount, Under
  <2>4. \A f \in sealed : f.epoch <= txEpoch + 1
    BY <2>1, <2>2 DEF SealCount
  <2>5. Cardinality(Under(txEpoch + 1)) = 0
    BY <2>3, FS_EmptySet
  <2> QED
    BY <2>1, <2>4, <2>5 DEF SealCount, Under
<1>3. CASE sealed' = sealed /\ txEpoch' = txEpoch /\ epochTxCount' = epochTxCount
  BY <1>3 DEF SealCount, Under
<1> QED
  BY <1>1, <1>2, <1>3 DEF Next, Receive, ReceiverRekey, LinkClosed, Discard, Overrun,
     Refuse, Forged, Accept, vars

\* Both halves of the AEAD bound's premise: at most Cap seals and at most Cap
\* verifications under any one epoch key.
THEOREM KeyBudgetHolds == Spec => []KeyBudget
<1>1. Init => SealCount
  <2> SUFFICES ASSUME Init PROVE SealCount
    OBVIOUS
  <2>1. ASSUME NEW e PROVE Under(e) = {}
    BY DEF Init, Under
  <2>2. IsFiniteSet({}) /\ Cardinality({}) = 0
    BY FS_EmptySet
  <2>3. \A e \in Epoch : IsFiniteSet(Under(e)) /\ Cardinality(Under(e)) <= Cap
    BY <2>1, <2>2
  <2>4. Cardinality(Under(txEpoch)) = epochTxCount
    BY <2>1, <2>2 DEF Init
  <2> QED
    BY <2>3, <2>4 DEF Init, SealCount
<1>2. IInv /\ SealCount => KeyBudget
  BY DEF IInv, AttemptsExact, SealCount, KeyBudget, Under
<1> QED
  BY <1>1, <1>2, SealCountStep, Inductive, PTL DEF Spec

\* The window stays within its bound over a session of any length.
THEOREM WindowBoundedHolds == Spec => []WindowBounded
<1>1. IInv => WindowBounded
  <2> SUFFICES ASSUME IInv PROVE Cardinality(rxWindow) <= Window
    BY DEF WindowBounded
  <2> DEFINE recent == (rxLastSeq - Window + 1)..rxLastSeq
  <2>1. rxLastSeq \in Int /\ rxLastSeq - Window + 1 \in Int
    BY DEF IInv, TypeOK
  <2>2. rxWindow \subseteq recent
    <3> SUFFICES ASSUME NEW s \in rxWindow PROVE s \in recent
      OBVIOUS
    <3>1. s \in Seq0 /\ s > rxLastSeq - Window
      BY DEF IInv, TypeOK, WindowExact
    <3>2. PICK f \in sealed : Was(f) /\ f.seq = s
      BY <3>1 DEF IInv, WindowExact
    <3>3. s <= rxLastSeq
      BY <3>2 DEF IInv, TypeOK, DeliveredKnown
    <3> QED
      BY <2>1, <3>1, <3>3 DEF Seq0
  <2>3. IsFiniteSet(recent) /\ Cardinality(recent) = Window
    BY <2>1, FS_Interval
  <2> QED
    BY <2>2, <2>3, FS_Subset
<1> QED
  BY <1>1, Inductive, PTL

\* The receiver, with everything it keeps, implements one-shot delivery.
THEOREM Implements == Spec => ImplementsOneShotDelivery
<1>1. Init => Delivery!Init
  BY DEF Init, Delivery!Init
<1>2. IInv /\ [Next]_vars => [Delivery!Next]_(Delivery!vars)
  <2> SUFFICES ASSUME IInv, [Next]_vars PROVE [Delivery!Next]_(Delivery!vars)
    OBVIOUS
  <2> USE DEF sender, receiver, history, Delivery!vars
  <2>1. CASE Seal
    <3> DEFINE n == [epoch |-> txEpoch, seq |-> txSeq]
    <3>1. n \in Frame /\ n \notin sealed
      BY <2>1 DEF Seal, IInv, TypeOK, SealedOnce, Frame, Epoch, Seq0
    <3>2. Delivery!Seal(n)
      BY <2>1, <3>1 DEF Seal, Delivery!Seal
    <3> QED
      BY <3>1, <3>2 DEF Delivery!Next
  <2>2. CASE SenderRekey \/ ReceiverRekey \/ LinkClosed \/ UNCHANGED vars
    BY <2>2 DEF SenderRekey, ReceiverRekey, LinkClosed, vars
  <2>3. ASSUME NEW e \in Epoch, NEW s \in -1..MaxSeq, Receive(e, s)
        PROVE  [Delivery!Next]_(Delivery!vars)
    <3>1. CASE Accept(e, s)
      <4> DEFINE n == [epoch |-> e, seq |-> s]
      <4>1. n \in sealed /\ n \in Frame /\ delivered[n] = 0
        BY <3>1, AcceptStep DEF Accept, IInv, TypeOK
      <4>2. Delivery!Deliver(n)
        BY <3>1, <4>1 DEF Accept, Delivery!Deliver, IInv, TypeOK
      <4> QED
        BY <4>1, <4>2 DEF Delivery!Next
    <3>2. CASE ~Accept(e, s)
      BY <2>3, <3>2 DEF Receive, Discard, Overrun, Refuse, Forged
    <3> QED
      BY <3>1, <3>2
  <2> QED
    BY <2>1, <2>2, <2>3 DEF Next
<1> QED
  BY <1>1, <1>2, Inductive, PTL DEF Spec, ImplementsOneShotDelivery, Delivery!Spec

-----------------------------------------------------------------------------
(* The freshness gate. *)

\* A token used in an earlier boot is older than this boot.
UsedBeforeBootIsOld ==
  \A t \in Token : uses[t] # bootUses[t] => t.iat < boot

MintedByNow == \A t \in minted : t.iat <= now + Skew

UsedIsMinted == \A t \in Token : /\ uses[t] > 0 => t \in minted
                                 /\ Used(t) => uses[t] > 0

\* LiveNonceRemembered, with the expiry the cache keeps it under.
LiveTokenCached == \A t \in Token : (Used(t) /\ now <= Exp(t)) => Entry(t) \in cache

\* The cache is a map from nonces, modelled by its pairs.
CacheIsMap == \A x, y \in cache : x.nonce = y.nonce => x = y

CacheFinite == IsFiniteSet(cache) /\ Cardinality(cache) <= MaxSeen

GateInv == /\ GateTypeOK /\ UsedBeforeBootIsOld /\ MintedByNow /\ UsedIsMinted
           /\ LiveTokenCached /\ OnlyUsedNoncesRemembered /\ CacheIsMap /\ CacheFinite

USE TimeAssumption, ClocksAssumption, SizeAssumption

\* What the handlers of a hello or a refresh may do: time moves by d, the
\* cache is pruned by the new time, and at most token t is used and entered.
Refused(d) ==
  /\ now' = now + d
  /\ cache' = cache \/ cache' = Live(cache, now + d)
  /\ verdict' \in Verdict \ {"accepted", "refreshed"}
  /\ UNCHANGED <<boot, minted, session, bootUses, uses>>

Spent(t, d) ==
  /\ Fresh(t)
  /\ CacheAccepts(t, Live(cache, now + d))
  /\ now' = now + d
  /\ cache' = Live(cache, now + d) \cup {Entry(t)}
  /\ session' \in {"none", "pending", "open"}
  /\ bootUses' = [bootUses EXCEPT ![t] = @ + 1]
  /\ uses' = [uses EXCEPT ![t] = @ + 1]
  /\ UNCHANGED <<boot, minted>>

LEMMA HelloCases ==
  ASSUME GateTypeOK, NEW t \in minted, NEW valid \in BOOLEAN, NEW d \in 0..Slack, Hello(t, valid, d)
  PROVE  \/ Refused(d)
         \/ Spent(t, d) /\ PastBootGate(t) /\ verdict' = "accepted"
  BY DEF Hello, Refused, Spent, TurnAway, CacheRefuses, HelloInvalid, HelloAccepted, Use,
         Admissible, AfterInvalid, Remember, Verdict, GateTypeOK

LEMMA RefreshCases ==
  ASSUME GateTypeOK, NEW t \in minted, NEW d \in 0..Slack, Refresh(t, d)
  PROVE  Refused(d) \/ (Spent(t, d) /\ verdict' = "refreshed")
  BY DEF Refresh, Refused, Spent, TurnAway, CacheRefuses, RefreshAccepted, Remember, Use,
         Verdict, GateTypeOK

LEMMA GateStarts == GateInit => GateInv
<1> SUFFICES ASSUME GateInit PROVE GateInv
  OBVIOUS
<1>1. GateTypeOK
  BY DEF GateInit, GateTypeOK, Verdict
<1>2. IsFiniteSet(cache) /\ Cardinality(cache) = 0
  BY FS_EmptySet DEF GateInit
<1>3. UsedBeforeBootIsOld /\ UsedIsMinted /\ LiveTokenCached
  BY DEF GateInit, UsedBeforeBootIsOld, UsedIsMinted, LiveTokenCached, Used
<1> QED
  BY <1>1, <1>2, <1>3
     DEF GateInit, GateInv, MintedByNow, OnlyUsedNoncesRemembered, CacheIsMap, CacheFinite

\* Pruning never loses a live entry nor adds one, and the cache stays small.
LEMMA RefusedStep ==
  ASSUME GateInv, NEW d \in 0..Slack, now + d <= MaxTime, Refused(d)
  PROVE  GateInv'
<1>0. now \in Nat /\ now' \in Nat /\ now' >= now /\ now' <= MaxTime /\ Skew \in Int
  BY DEF Refused, GateInv, GateTypeOK
<1>1. GateTypeOK'
  BY <1>0 DEF Refused, GateInv, GateTypeOK, Live
<1>2. UsedBeforeBootIsOld' /\ UsedIsMinted'
  BY DEF Refused, GateInv, UsedBeforeBootIsOld, UsedIsMinted, Used
<1>3. MintedByNow'
  <2>1. \A t \in minted : t.iat \in Int
    BY <1>0 DEF GateInv, GateTypeOK, Token
  <2> QED
    BY <1>0, <2>1 DEF Refused, GateInv, MintedByNow
<1>4. LiveTokenCached'
  <2> SUFFICES ASSUME NEW t \in Token, Used(t), now' <= Exp(t) PROVE Entry(t) \in cache'
    BY DEF Refused, LiveTokenCached, Used
  <2>1. Exp(t) \in Int /\ Entry(t).exp = Exp(t)
    BY <1>0 DEF Exp, Token, Entry
  <2>2. Entry(t) \in cache
    BY <1>0, <2>1 DEF GateInv, LiveTokenCached
  <2> QED
    BY <2>1, <2>2 DEF Refused, Live
<1>5. OnlyUsedNoncesRemembered'
  BY DEF Refused, GateInv, OnlyUsedNoncesRemembered, Live, Used
<1>6. CacheFinite'
  <2>1. cache' \subseteq cache
    BY DEF Refused, Live
  <2>2. IsFiniteSet(cache') /\ Cardinality(cache') <= Cardinality(cache)
    BY <2>1, FS_Subset DEF GateInv, CacheFinite
  <2>3. Cardinality(cache) \in Nat /\ Cardinality(cache') \in Nat
    BY <2>2, FS_CardinalityType DEF GateInv, CacheFinite
  <2> QED
    BY <2>2, <2>3 DEF GateInv, CacheFinite
<1>7. CacheIsMap'
  BY DEF Refused, GateInv, CacheIsMap, Live
<1> QED
  BY <1>1, <1>2, <1>3, <1>4, <1>5, <1>6, <1>7 DEF GateInv

LEMMA SpentStep ==
  ASSUME GateInv, NEW t \in minted, NEW d \in 0..Slack, now + d <= MaxTime,
         Spent(t, d), verdict' \in Verdict
  PROVE  GateInv'
<1> DEFINE seen == Live(cache, now + d)
<1>0. /\ now \in Nat /\ now' \in Nat /\ now' >= now /\ now' <= MaxTime /\ Skew \in Int
      /\ t \in Token /\ seen \subseteq cache
  BY DEF Spent, GateInv, GateTypeOK, Live
<1>1. GateTypeOK'
  <2>1. Entry(t) \in [nonce : Nonce, exp : Int]
    BY <1>0 DEF Entry, Exp, Token
  <2> QED
    BY <1>0, <2>1 DEF Spent, GateInv, GateTypeOK
<1>2. \A u \in Token : /\ uses'[u] >= uses[u] /\ bootUses'[u] >= bootUses[u]
                       /\ u # t => uses'[u] = uses[u] /\ bootUses'[u] = bootUses[u]
                       /\ uses'[t] = uses[t] + 1 /\ bootUses'[t] = bootUses[t] + 1
                       /\ uses[u] \in Nat /\ bootUses[u] \in Nat
  BY <1>0 DEF Spent, GateInv, GateTypeOK
<1>3. UsedBeforeBootIsOld' /\ UsedIsMinted'
  BY <1>0, <1>2 DEF Spent, GateInv, UsedBeforeBootIsOld, UsedIsMinted, Used
<1>4. MintedByNow'
  <2>1. \A u \in minted : u.iat \in Int
    BY <1>0 DEF GateInv, GateTypeOK, Token
  <2> QED
    BY <1>0, <2>1 DEF Spent, GateInv, MintedByNow
<1>5. LiveTokenCached'
  <2> SUFFICES ASSUME NEW u \in Token, bootUses'[u] > 0, now' <= Exp(u)
               PROVE  Entry(u) \in cache'
    BY DEF LiveTokenCached, Used
  <2>1. CASE u = t
    BY <2>1 DEF Spent
  <2>2. CASE u # t
    <3>1. Exp(u) \in Int /\ Entry(u).exp = Exp(u) /\ now <= Exp(u)
      BY <1>0 DEF Exp, Token, Entry
    <3>2. Entry(u) \in cache
      BY <1>2, <2>2, <3>1 DEF GateInv, LiveTokenCached, Used
    <3> QED
      BY <3>1, <3>2 DEF Spent, Live
  <2> QED
    BY <2>1, <2>2
<1>6. OnlyUsedNoncesRemembered'
  <2> SUFFICES ASSUME NEW x \in cache'
               PROVE  \E u \in minted : bootUses'[u] > 0 /\ Entry(u) = x
    BY DEF Spent, OnlyUsedNoncesRemembered, Used
  <2>1. CASE x = Entry(t)
    BY <1>0, <1>2, <2>1
  <2>2. CASE x \in cache
    <3>1. PICK u \in minted : Used(u) /\ Entry(u) = x
      BY <2>2 DEF GateInv, OnlyUsedNoncesRemembered
    <3>2. u \in Token /\ bootUses[u] \in Nat /\ bootUses'[u] \in Nat
      BY <1>1 DEF GateInv, GateTypeOK
    <3> QED
      BY <1>2, <3>1, <3>2 DEF Used
  <2> QED
    BY <1>0, <2>1, <2>2 DEF Spent
<1>7. CacheFinite'
  <2>1. IsFiniteSet(seen) /\ Cardinality(seen) < MaxSeen /\ Cardinality(seen) \in Nat
    BY <1>0, FS_Subset, FS_CardinalityType DEF GateInv, CacheFinite, Spent, CacheAccepts, Full
  <2>2. /\ IsFiniteSet(seen \cup {Entry(t)})
        /\ Cardinality(seen \cup {Entry(t)}) <= Cardinality(seen) + 1
    <3>1. CASE Entry(t) \in seen
      <4>1. seen \cup {Entry(t)} = seen
        BY <3>1
      <4>2. \A k \in Nat : k <= k + 1
        OBVIOUS
      <4> QED
        BY <2>1, <4>1, <4>2, Zenon
    <3>2. CASE Entry(t) \notin seen
      <4>1. /\ IsFiniteSet(seen \cup {Entry(t)})
            /\ Cardinality(seen \cup {Entry(t)}) = Cardinality(seen) + 1
        BY <2>1, <3>2, FS_AddElement
      <4> QED
        BY <2>1, <4>1
    <3> HIDE DEF seen
    <3> QED
      BY <2>1, <3>1, <3>2
  <2> QED
    BY <2>1, <2>2, FS_CardinalityType DEF CacheFinite, Spent
<1>8. CacheIsMap'
  BY DEF Spent, CacheAccepts, Knows, Entry, Live, GateInv, CacheIsMap
<1> QED
  BY <1>1, <1>3, <1>4, <1>5, <1>6, <1>7, <1>8 DEF GateInv

\* After a restart every earlier use is dated before the new boot: this is
\* where the clocks assumption is needed.
LEMMA RestartStep ==
  ASSUME GateInv, NEW d \in RestartTime..MaxTime, now + d <= MaxTime, Restart(d)
  PROVE  GateInv'
<1>0. /\ now \in Nat /\ d \in Nat /\ now' = now + d /\ boot' = now'
      /\ Skew \in Int /\ Skew < d
  BY DEF Restart, BootTime, GateInv, GateTypeOK
<1>1. GateTypeOK'
  BY <1>0 DEF Restart, BootTime, GateInv, GateTypeOK, Verdict
<1>2. \A t \in minted : t \in Token /\ t.iat \in Int /\ t.iat <= now + Skew
  BY <1>0 DEF GateInv, GateTypeOK, Token, MintedByNow
<1>3. UsedBeforeBootIsOld' /\ UsedIsMinted' /\ LiveTokenCached'
  <2>1. \A t \in Token : uses[t] \in Nat /\ bootUses'[t] = 0 /\ uses'[t] = uses[t]
    BY DEF Restart, GateInv, GateTypeOK
  <2> QED
    BY <1>0, <1>2, <2>1
       DEF Restart, GateInv, UsedBeforeBootIsOld, UsedIsMinted, LiveTokenCached, Used
<1>4. MintedByNow'
  BY <1>0, <1>2 DEF Restart, MintedByNow
<1>5. CacheFinite' /\ OnlyUsedNoncesRemembered' /\ CacheIsMap'
  BY FS_EmptySet DEF Restart, CacheFinite, OnlyUsedNoncesRemembered, CacheIsMap
<1> QED
  BY <1>1, <1>3, <1>4, <1>5 DEF GateInv

LEMMA GateStep == GateInv /\ [GateNext]_gateVars => GateInv'
<1> SUFFICES ASSUME GateInv, [GateNext]_gateVars PROVE GateInv'
  OBVIOUS
<1>1. CASE Tick
  <2>1. now' = now + 1 /\ now \in Nat /\ now' <= MaxTime /\ Skew \in Int
    BY <1>1 DEF Tick, GateInv, GateTypeOK
  <2>2. GateTypeOK'
    BY <1>1, <2>1 DEF Tick, GateInv, GateTypeOK, Verdict
  <2>3. \A t \in Token : t.iat \in Int /\ Exp(t) \in Int
    BY <2>1 DEF Token, Exp
  <2>4. MintedByNow' /\ LiveTokenCached'
    BY <1>1, <2>1, <2>3 DEF Tick, GateInv, GateTypeOK, MintedByNow, LiveTokenCached, Used
  <2> QED
    BY <1>1, <2>2, <2>4 DEF Tick, GateInv, UsedBeforeBootIsOld, UsedIsMinted,
       OnlyUsedNoncesRemembered, CacheIsMap, CacheFinite, Used
<1>2. ASSUME NEW n \in Nonce, Authorize(n) PROVE GateInv'
  <2> DEFINE t == [nonce |-> n, iat |-> now + Skew]
  <2>1. t \in Token /\ t.iat = now + Skew
    BY DEF GateInv, GateTypeOK, Token
  <2>2. GateTypeOK'
    BY <1>2, <2>1 DEF Authorize, GateInv, GateTypeOK, Verdict
  <2>3. MintedByNow'
    BY <1>2, <2>1 DEF Authorize, GateInv, GateTypeOK, MintedByNow
  <2>4. UsedIsMinted' /\ OnlyUsedNoncesRemembered'
    BY <1>2 DEF Authorize, GateInv, UsedIsMinted, OnlyUsedNoncesRemembered, Used
  <2> QED
    BY <1>2, <2>2, <2>3, <2>4 DEF Authorize, GateInv, UsedBeforeBootIsOld, LiveTokenCached,
       CacheIsMap, CacheFinite, Used
<1>3. ASSUME NEW t \in minted, NEW valid \in BOOLEAN, NEW d \in 0..Slack,
             now + d <= MaxTime, Hello(t, valid, d)
      PROVE  GateInv'
  BY <1>3, HelloCases, RefusedStep, SpentStep DEF GateInv, Verdict
<1>4. ASSUME NEW t \in minted, NEW d \in 0..Slack, now + d <= MaxTime, Refresh(t, d)
      PROVE  GateInv'
  BY <1>4, RefreshCases, RefusedStep, SpentStep DEF GateInv, Verdict
<1>5. ASSUME NEW d \in RestartTime..MaxTime, now + d <= MaxTime, Restart(d) PROVE GateInv'
  BY <1>5, RestartStep
<1>6. CASE Ack \/ UNCHANGED gateVars
  BY <1>6 DEF Ack, gateVars, GateInv, GateTypeOK, Verdict, UsedBeforeBootIsOld,
     MintedByNow, UsedIsMinted,
     LiveTokenCached, OnlyUsedNoncesRemembered, CacheIsMap, CacheFinite, Used
<1> QED
  BY <1>1, <1>2, <1>3, <1>4, <1>5, <1>6 DEF GateNext

LEMMA GateHolds == GateSpec => []GateInv
  BY GateStarts, GateStep, PTL DEF GateSpec

\* Every variable of the gate keeps its type.
THEOREM GateTypeCorrect == GateSpec => []GateTypeOK
<1>1. GateInv => GateTypeOK
  BY DEF GateInv
<1> QED
  BY <1>1, GateHolds, PTL

LEMMA CacheExact == GateInv => LiveNonceRemembered /\ OnlyUsedNoncesRemembered /\ CacheBounded
<1> SUFFICES ASSUME GateInv PROVE LiveNonceRemembered /\ CacheBounded
  BY DEF GateInv
<1>1. LiveNonceRemembered
  BY DEF GateInv, GateTypeOK, LiveTokenCached, LiveNonceRemembered, Knows, Entry
<1> QED
  BY <1>1 DEF GateInv, CacheFinite, CacheBounded

\* No live nonce is forgotten, for every capacity and every pruning.
THEOREM LiveNonceRememberedHolds == GateSpec => []LiveNonceRemembered
  BY CacheExact, GateHolds, PTL

\* Only the nonce of an accepted token takes room: no hello that fails a later
\* check burns one.
THEOREM OnlyUsedNoncesRememberedHolds == GateSpec => []OnlyUsedNoncesRemembered
  BY CacheExact, GateHolds, PTL

\* The cache never holds more than MaxSeen nonces.
THEOREM CacheBoundedHolds == GateSpec => []CacheBounded
  BY CacheExact, GateHolds, PTL

\* A refusal always has a live cause: every entry a handler would see after its
\* pruning belongs to an unexpired token used since boot, and a full cache
\* stands for MaxSeen different ones.
THEOREM RefusalJustifiedHolds == GateSpec => []RefusalJustified
<1>1. GateInv => RefusalJustified
  <2> SUFFICES ASSUME GateInv, NEW d \in 0..Slack
               PROVE  LET seen == Live(cache, now + d)
                          live == {t \in minted : Used(t) /\ now + d <= Exp(t)}
                      IN  /\ \A n \in Nonce : Knows(seen, n) => \E t \in live : t.nonce = n
                          /\ Full(seen) => Cardinality({t.nonce : t \in live}) >= MaxSeen
    BY DEF RefusalJustified
  <2> DEFINE seen   == Live(cache, now + d)
             live   == {t \in minted : Used(t) /\ now + d <= Exp(t)}
             names  == {x.nonce : x \in seen}
             name   == [x \in seen |-> x.nonce]
  <2>1. \A x \in seen : \E t \in live : t.nonce = x.nonce
    <3> SUFFICES ASSUME NEW x \in seen PROVE \E t \in live : t.nonce = x.nonce
      OBVIOUS
    <3>1. PICK t \in minted : Used(t) /\ Entry(t) = x
      BY DEF GateInv, OnlyUsedNoncesRemembered, Live
    <3> QED
      BY <3>1 DEF Live, Entry
  <2>2. \A t \in live : \E x \in seen : t.nonce = x.nonce
    <3> SUFFICES ASSUME NEW t \in live PROVE \E x \in seen : t.nonce = x.nonce
      OBVIOUS
    <3>1. t \in Token /\ now \in Nat /\ d \in Nat /\ Exp(t) \in Int
      BY DEF GateInv, GateTypeOK, Token, Exp
    <3>2. Entry(t) \in cache
      BY <3>1 DEF GateInv, LiveTokenCached
    <3> QED
      BY <3>2 DEF Live, Entry
  <2>3. {t.nonce : t \in live} = names
    BY <2>1, <2>2
  <2>4. IsFiniteSet(seen)
    BY FS_Subset DEF GateInv, CacheFinite, Live
  <2>5. name \in Bijection(seen, names)
    <3>1. name \in Injection(seen, names)
      BY DEF Injection, IsInjective, GateInv, CacheIsMap, Live
    <3>2. name \in Surjection(seen, names)
      BY DEF Surjection
    <3> QED
      BY <3>1, <3>2 DEF Bijection
  <2>6. Cardinality(names) = Cardinality(seen)
    <3>1. ExistsBijection(seen, names)
      BY <2>5 DEF ExistsBijection
    <3> HIDE DEF seen, names
    <3> QED
      BY <2>4, <3>1, FS_Bijection
  <2> QED
    BY <2>1, <2>3, <2>6 DEF Knows, Full
<1> QED
  BY <1>1, GateHolds, PTL

\* When a used token is spent again, it expired during the very handler that
\* took it.
LEMMA SpentAgain ==
  ASSUME GateInv, NEW t \in minted, NEW d \in 0..Slack, Spent(t, d), Used(t)
  PROVE  now <= Exp(t) /\ Exp(t) < now'
<1>1. t \in Token /\ now \in Nat /\ now' = now + d /\ Exp(t) \in Int
  BY DEF GateInv, GateTypeOK, Spent, Token, Exp
<1>2. Entry(t) \in cache /\ now <= Exp(t)
  BY <1>1 DEF Spent, Fresh, GateInv, LiveTokenCached
<1>3. Entry(t) \notin Live(cache, now + d)
  BY DEF Spent, CacheAccepts, Knows, Entry
<1> QED
  BY <1>1, <1>2, <1>3 DEF Live, Entry

\* What one step may do to the count of a token.
LEMMA UseStep ==
  ASSUME GateInv, [GateNext]_gateVars, NEW t \in Token,
         bootUses'[t] > bootUses[t] \/ uses'[t] > uses[t]
  PROVE  \E d \in 0..Slack :
            /\ t \in minted /\ Spent(t, d)
            /\ verdict' = "accepted" => PastBootGate(t)
<1>0. bootUses[t] \in Nat /\ uses[t] \in Nat
  BY DEF GateInv, GateTypeOK
<1>1. CASE Tick \/ Ack \/ (\E n \in Nonce : Authorize(n)) \/ UNCHANGED gateVars
  BY <1>0, <1>1 DEF Tick, Ack, Authorize, gateVars
<1>2. ASSUME NEW u \in minted, NEW d \in 0..Slack, Spent(u, d) PROVE u = t
  BY <1>0, <1>2 DEF Spent, GateInv, GateTypeOK
<1>3. ASSUME NEW d \in 0..Slack, Refused(d) PROVE FALSE
  BY <1>0, <1>3 DEF Refused
<1>4. ASSUME NEW u \in minted, NEW valid \in BOOLEAN, NEW d \in 0..Slack, Hello(u, valid, d)
      PROVE  Spent(u, d) /\ PastBootGate(u)
  BY <1>3, <1>4, HelloCases DEF GateInv
<1>5. ASSUME NEW u \in minted, NEW d \in 0..Slack, Refresh(u, d)
      PROVE  Spent(u, d) /\ verdict' = "refreshed"
  BY <1>3, <1>5, RefreshCases DEF GateInv
<1>6. ASSUME NEW d \in RestartTime..MaxTime, Restart(d) PROVE FALSE
  BY <1>0, <1>6 DEF Restart, BootTime, GateInv, GateTypeOK
<1> QED
  BY <1>1, <1>2, <1>4, <1>5, <1>6 DEF GateNext

\* However far the clock moves between the two reads, a token is reused only by
\* a handler during which it expires.
THEOREM ReuseOnlyAcrossExpiryHolds == GateSpec => ReuseOnlyAcrossExpiry
<1>1. GateInv /\ [GateNext]_gateVars
        => [\A t \in Token : (Used(t) /\ bootUses'[t] > bootUses[t])
                               => now <= Exp(t) /\ Exp(t) < now']_gateVars
  BY UseStep, SpentAgain
<1> QED
  BY <1>1, GateHolds, PTL DEF GateSpec, ReuseOnlyAcrossExpiry

\* With one clock reading per handler, no token is accepted twice in one boot.
THEOREM OncePerBootHolds == Slack = 0 => (GateSpec => []OncePerBoot)
<1> SUFFICES ASSUME Slack = 0 PROVE GateSpec => []OncePerBoot
  OBVIOUS
<1>1. GateInit => OncePerBoot
  BY DEF GateInit, OncePerBoot
<1>2. GateInv /\ OncePerBoot /\ [GateNext]_gateVars => OncePerBoot'
  <2> SUFFICES ASSUME GateInv, OncePerBoot, [GateNext]_gateVars, NEW t \in Token
               PROVE  bootUses'[t] <= 1
    BY DEF OncePerBoot
  <2>0. bootUses[t] \in Nat /\ bootUses[t] <= 1
    BY DEF GateInv, GateTypeOK, OncePerBoot
  <2>1. bootUses'[t] \in Nat
    BY GateStep DEF GateInv, GateTypeOK
  <2>2. CASE bootUses'[t] > bootUses[t]
    <3>1. PICK d \in 0..Slack : t \in minted /\ Spent(t, d)
      BY <2>2, UseStep
    <3>2. now' = now /\ now \in Nat /\ Exp(t) \in Int
      BY <3>1 DEF Spent, GateInv, GateTypeOK, Exp, Token
    <3>3. ~Used(t)
      BY <3>1, <3>2, SpentAgain
    <3>4. bootUses'[t] = bootUses[t] + 1
      BY <3>1 DEF Spent, GateInv, GateTypeOK
    <3> QED
      BY <2>0, <3>3, <3>4 DEF Used
  <2>3. CASE ~(bootUses'[t] > bootUses[t])
    BY <2>0, <2>1, <2>3
  <2> QED
    BY <2>2, <2>3
<1> QED
  BY <1>1, <1>2, GateHolds, PTL DEF GateSpec

\* With a cloud clock less than a restart ahead, an accepted hello never spends
\* a token of an earlier boot, however far the clock moves between two reads.
THEOREM NoHelloReplayAcrossRestartHolds == GateSpec => NoHelloReplayAcrossRestart
<1>1. GateInv /\ [GateNext]_gateVars
        => [\A t \in Token : (verdict' = "accepted" /\ uses'[t] > uses[t])
                               => uses[t] = bootUses[t]]_gateVars
  <2> SUFFICES ASSUME GateInv, [GateNext]_gateVars, NEW t \in Token, verdict' = "accepted",
                      uses'[t] > uses[t]
               PROVE  uses[t] = bootUses[t]
    OBVIOUS
  <2>1. PastBootGate(t)
    BY UseStep
  <2>2. boot \in Int /\ t.iat \in Int /\ t.iat >= boot
    BY <2>1 DEF PastBootGate, Token, GateInv, GateTypeOK
  <2> QED
    BY <2>2 DEF GateInv, UsedBeforeBootIsOld
<1> QED
  BY <1>1, GateHolds, PTL DEF GateSpec, NoHelloReplayAcrossRestart
=============================================================================
