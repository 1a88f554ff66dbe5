-------------------------- MODULE DroneServerProofs --------------------------
(***************************************************************************)
(* The registry and the key buffers for every number of connections, hellos *)
(* and slots, over either transport.  What carries them: a connection is in *)
(* the registry exactly while it has a pending handshake, its handshakes    *)
(* are numbered in order so that a pending one is never the open one, and   *)
(* admissions carry distinct tickets.                                       *)
(***************************************************************************)
EXTENDS DroneServer, FiniteSetTheorems, TLAPS

\* Slot flag, registry and pending handshake of one connection agree.
SlotExact == \A c \in Conn : /\ admitted[c] > 0 <=> sess[c].pending # 0
                             /\ sess[c].slotHeld <=> sess[c].pending # 0

MembersBounded == IsFiniteSet(Members) /\ Cardinality(Members) <= MaxPending

\* Handshakes are numbered by the hellos of their connection, and a pending one
\* is later than the one the session was opened with.
InOrder == \A c \in Conn : /\ sess[c].pending <= hellos[c] /\ sess[c].state <= hellos[c]
                           /\ sess[c].pending # 0 => sess[c].state < sess[c].pending

\* Admissions are dated, and no two members share a date.
Dated == /\ \A c \in Conn : admitted[c] <= tickets
         /\ \A c, o \in Members : admitted[c] = admitted[o] => c = o

IInv == TypeOK /\ SlotExact /\ MembersBounded /\ InOrder /\ Dated

USE PendingAssumption, BoundAssumption

LEMMA InitIInv == Init => IInv
<1> SUFFICES ASSUME Init PROVE IInv
  OBVIOUS
<1>1. Members = {}
  BY DEF Init, Members
<1>2. MembersBounded
  BY <1>1, FS_EmptySet DEF MembersBounded
<1>3. TypeOK
  BY DEF Init, TypeOK, Session, HsId
<1>4. SlotExact /\ InOrder
  BY DEF Init, SlotExact, InOrder
<1>5. Dated
  BY <1>1 DEF Init, Dated
<1> QED
  BY <1>2, <1>3, <1>4, <1>5 DEF IInv

\* A step that only removes members and lowers the sessions of the others.
LEMMA Shrinks ==
  ASSUME MembersBounded, Members' \subseteq Members
  PROVE  MembersBounded'
<1>1. IsFiniteSet(Members') /\ Cardinality(Members') <= Cardinality(Members)
  BY FS_Subset DEF MembersBounded
<1>2. Cardinality(Members) \in Nat /\ Cardinality(Members') \in Nat
  BY <1>1, FS_CardinalityType DEF MembersBounded
<1> QED
  BY <1>1, <1>2 DEF MembersBounded

\* A step of connection c that ends its handshake, or leaves it, and neither
\* admits nor counts anything.
Lets(c, s) ==
  /\ sess' = [sess EXCEPT ![c] = s]
  /\ s \in {sess[c], Wiped(sess[c]), Disposed(sess[c]), Opened(sess[c])}
  /\ admitted' = IF s.slotHeld THEN admitted ELSE Retired(c)
  /\ link' \in [Conn -> {"idle", "open", "closing", "closed"}]
  /\ km' \subseteq km /\ keys' \subseteq keys
  /\ UNCHANGED <<syncClose, hellos, tickets>>

LEMMA WipedFields ==
  ASSUME NEW s \in Session
  PROVE  /\ Wiped(s) \in Session /\ Disposed(s) \in Session
         /\ ~Wiped(s).slotHeld /\ Wiped(s).pending = 0 /\ Wiped(s).state = s.state
         /\ ~Disposed(s).slotHeld /\ Disposed(s).pending = 0 /\ Disposed(s).state = 0
<1>1. [s EXCEPT !.pending = 0] \in Session
  BY DEF Session, HsId
<1>2. Wiped(s) = [[s EXCEPT !.pending = 0] EXCEPT !.slotHeld = FALSE]
  BY DEF Wiped
<1>3. Wiped(s) \in Session
  BY <1>1, <1>2 DEF Session
<1>4. Disposed(s) \in Session
  BY <1>3 DEF Session, HsId, Disposed
<1>5. ~Wiped(s).slotHeld /\ Wiped(s).pending = 0 /\ Wiped(s).state = s.state
  BY DEF Session, Wiped
<1>6. ~Disposed(s).slotHeld /\ Disposed(s).pending = 0 /\ Disposed(s).state = 0
  BY <1>3, <1>5 DEF Session, Disposed
<1> QED
  BY <1>3, <1>4, <1>5, <1>6

LEMMA LetsStep ==
  ASSUME IInv, NEW c \in Conn, NEW s, Lets(c, s)
  PROVE  IInv'
<1>0. sess[c] \in Session
  BY DEF IInv, TypeOK
<1>1. /\ s \in Session /\ (s.slotHeld <=> s.pending # 0)
      /\ s.pending \in {0, sess[c].pending}
      /\ s.state \in {0, sess[c].state, sess[c].pending}
      /\ s.pending # 0 => s = sess[c]
  <2>1. CASE s = sess[c]
    BY <1>0, <2>1 DEF IInv, SlotExact, Session
  <2>2. CASE s = Wiped(sess[c]) \/ s = Disposed(sess[c])
    BY <1>0, <2>2, WipedFields
  <2>3. CASE s = Opened(sess[c])
    <3>1. s = [pending |-> 0, state |-> sess[c].pending, slotHeld |-> FALSE]
      BY <2>3 DEF Opened
    <3>2. ~s.slotHeld /\ s.pending = 0 /\ s.state = sess[c].pending
      BY <3>1
    <3>3. s \in Session
      BY <1>0, <3>1 DEF Session, HsId
    <3> QED
      BY <3>2, <3>3
  <2> QED
    BY <2>1, <2>2, <2>3 DEF Lets
<1>2. admitted' \in [Conn -> Nat]
  BY DEF Lets, IInv, TypeOK, Retired
<1>3. TypeOK'
  BY <1>1, <1>2 DEF Lets, IInv, TypeOK
<1>4. \A o \in Conn : admitted'[o] = IF o = c /\ s.pending = 0 THEN 0 ELSE admitted[o]
  BY <1>1 DEF Lets, IInv, TypeOK, Retired
<1>5. \A o \in Conn : sess'[o] = IF o = c THEN s ELSE sess[o]
  BY DEF Lets, IInv, TypeOK
<1>6. SlotExact'
  BY <1>1, <1>4, <1>5 DEF IInv, SlotExact
<1>7. Members' \subseteq Members /\ \A o \in Members' : admitted'[o] = admitted[o]
  BY <1>4 DEF Members
<1>8. InOrder'
  <2> SUFFICES ASSUME NEW o \in Conn
               PROVE  /\ sess'[o].pending <= hellos[o] /\ sess'[o].state <= hellos[o]
                      /\ sess'[o].pending # 0 => sess'[o].state < sess'[o].pending
    BY DEF Lets, InOrder
  <2>1. hellos[o] \in Nat /\ sess[o].pending \in Nat /\ sess[o].state \in Nat
    BY DEF IInv, TypeOK, Session, HsId
  <2> QED
    BY <1>1, <1>5, <2>1 DEF IInv, InOrder
<1>9. Dated'
  <2>1. \A o \in Conn : admitted'[o] <= tickets'
    BY <1>4 DEF Lets, IInv, TypeOK, Dated
  <2> QED
    BY <1>7, <2>1 DEF IInv, Dated
<1> QED
  BY <1>3, <1>6, <1>7, <1>8, <1>9, Shrinks DEF IInv

LEMMA TearLets ==
  ASSUME IInv, NEW c \in Conn,
         NEW s \in {sess[c], Wiped(sess[c]), Disposed(sess[c])}, NEW released,
         Tear(c, s, released)
  PROVE  \E x : Lets(c, x)
<1>1. link' \in [Conn -> {"idle", "open", "closing", "closed"}]
  BY DEF Tear, Shut, IInv, TypeOK
<1>2. CASE DisposesNow(c)
  <2>1. Disposed(sess[c]).slotHeld = FALSE
    BY DEF Disposed, Wiped, IInv, TypeOK, Session
  <2>2. Lets(c, Disposed(sess[c]))
    BY <1>1, <1>2, <2>1 DEF Tear, Lets
  <2> QED
    BY <2>2
<1>3. CASE ~DisposesNow(c)
  <2>1. s.slotHeld \in BOOLEAN
    BY DEF Disposed, Wiped, IInv, TypeOK, Session
  <2>2. Lets(c, s)
    BY <1>1, <1>3, <2>1 DEF Tear, Lets
  <2> QED
    BY <2>2
<1> QED
  BY <1>2, <1>3

\* The steps that end or keep a handshake, all but the hellos.
LEMMA EndingLets ==
  ASSUME IInv, NEW c \in Conn,
         AckGood(c) \/ AckBad(c) \/ Abort(c) \/ CapReached(c) \/ CloseEvent(c)
  PROVE  \E x : Lets(c, x)
<1>0. sess[c] \in Session
  BY DEF IInv, TypeOK
<1>1. CASE AckGood(c)
  <2>1. Lets(c, Opened(sess[c]))
    BY <1>1 DEF AckGood, Lets, Opened, IInv, TypeOK
  <2> QED
    BY <2>1
<1>2. CASE CloseEvent(c)
  <2>1. Disposed(sess[c]).slotHeld = FALSE
    BY <1>0 DEF Disposed, Wiped, Session
  <2>2. Lets(c, Disposed(sess[c]))
    BY <1>2, <2>1 DEF CloseEvent, Lets, IInv, TypeOK
  <2> QED
    BY <2>2
<1>3. CASE AckBad(c) \/ Abort(c) \/ CapReached(c)
  BY <1>3, TearLets DEF AckBad, Abort, CapReached
<1> QED
  BY <1>1, <1>2, <1>3

\* A hello gives c a later pending handshake and its slot.
LEMMA HelloFields ==
  ASSUME TypeOK, NEW c \in Conn, hellos[c] < MaxHello
  PROVE  /\ NewPending(c, sess[c]) \in Session
         /\ NewPending(c, sess[c]).pending = hellos[c] + 1
         /\ NewPending(c, sess[c]).state = sess[c].state
         /\ NewPending(c, sess[c]).slotHeld
         /\ NewKey(c) \in Conn \X (1..MaxHello)
<1>0. sess[c] \in Session /\ hellos[c] \in Nat
  BY DEF TypeOK, HsId
<1>1. [sess[c] EXCEPT !.pending = hellos[c] + 1] \in Session
  BY <1>0 DEF Session, HsId
<1>2. NewPending(c, sess[c]) = [[sess[c] EXCEPT !.pending = hellos[c] + 1] EXCEPT !.slotHeld = TRUE]
  BY DEF NewPending
<1>3. NewPending(c, sess[c]) \in Session
  BY <1>1, <1>2 DEF Session
<1>4. /\ NewPending(c, sess[c]).pending = hellos[c] + 1
      /\ NewPending(c, sess[c]).state = sess[c].state
      /\ NewPending(c, sess[c]).slotHeld
  BY <1>0 DEF NewPending, Session
<1>5. NewKey(c) \in Conn \X (1..MaxHello)
  BY <1>0 DEF NewKey
<1> QED
  BY <1>3, <1>4, <1>5

LEMMA HelloAgainStep ==
  ASSUME IInv, NEW c \in Conn, HelloAgain(c)
  PROVE  IInv'
<1>0. TypeOK /\ hellos[c] < MaxHello /\ hellos[c] \in Nat
  BY DEF HelloAgain, CountHello, IInv, TypeOK, HsId
<1>1. TypeOK'
  <2>1. sess' \in [Conn -> Session]
    BY <1>0, HelloFields DEF HelloAgain, TypeOK
  <2>2. km' \subseteq Conn \X (1..MaxHello) /\ keys' \subseteq Conn \X (1..MaxHello)
    BY <1>0, HelloFields DEF HelloAgain, TypeOK
  <2>3. /\ link' \in [Conn -> {"idle", "open", "closing", "closed"}]
        /\ hellos' \in [Conn -> HsId] /\ admitted' \in [Conn -> Nat] /\ tickets' \in Nat
        /\ syncClose' \in BOOLEAN
    BY <1>0 DEF HelloAgain, CountHello, TypeOK, HsId
  <2> QED
    BY <2>1, <2>2, <2>3 DEF TypeOK
<1>2. \A o \in Conn : /\ sess'[o] = IF o = c THEN NewPending(c, sess[c]) ELSE sess[o]
                      /\ hellos'[o] = IF o = c THEN hellos[c] + 1 ELSE hellos[o]
  BY <1>0 DEF HelloAgain, CountHello, TypeOK
<1>3. SlotExact'
  BY <1>0, <1>2, HelloFields DEF HelloAgain, IInv, SlotExact
<1>4. InOrder'
  BY <1>0, <1>2, HelloFields DEF IInv, InOrder, TypeOK, Session, HsId
<1>5. Dated' /\ MembersBounded'
  BY DEF HelloAgain, IInv, Dated, MembersBounded, Members
<1> QED
  BY <1>1, <1>3, <1>4, <1>5 DEF IInv

\* What one admission does to the dates and the registry.
LEMMA AdmitStep ==
  ASSUME IInv, NEW c \in Conn, c \notin Members,
         admitted' \in [Conn -> Nat], tickets' = tickets + 1,
         admitted'[c] = tickets + 1,
         \A o \in Conn \ {c} : admitted'[o] \in {0, admitted[o]}
  PROVE  Dated' /\ c \in Members' /\ Members' \ {c} \subseteq Members
<1>1. tickets \in Nat /\ admitted \in [Conn -> Nat]
  BY DEF IInv, TypeOK
<1>2. c \in Members' /\ Members' \ {c} \subseteq Members
  BY <1>1 DEF Members
<1>3. \A o \in Members' \ {c} : admitted'[o] = admitted[o] /\ admitted[o] <= tickets
  BY <1>1 DEF Members, IInv, Dated
<1>4. \A o, p \in Members' : admitted'[o] = admitted'[p] => o = p
  BY <1>1, <1>2, <1>3 DEF IInv, Dated
<1>5. \A o \in Conn : admitted'[o] <= tickets'
  BY <1>1 DEF IInv, Dated
<1> QED
  BY <1>2, <1>4, <1>5 DEF Dated

LEMMA HelloFitsStep ==
  ASSUME IInv, NEW c \in Conn, HelloFits(c)
  PROVE  IInv'
<1>0. /\ TypeOK /\ hellos[c] < MaxHello /\ hellos[c] \in Nat
      /\ sess[c].pending = 0 /\ c \notin Members
  BY DEF HelloFits, CountHello, IInv, TypeOK, HsId, SlotExact, Members
<1>1. TypeOK'
  <2>1. sess' \in [Conn -> Session]
    BY <1>0, HelloFields DEF HelloFits, TypeOK
  <2>2. km' \subseteq Conn \X (1..MaxHello) /\ keys' \subseteq Conn \X (1..MaxHello)
    BY <1>0, HelloFields DEF HelloFits, TypeOK
  <2>3. /\ link' \in [Conn -> {"idle", "open", "closing", "closed"}]
        /\ hellos' \in [Conn -> HsId] /\ admitted' \in [Conn -> Nat] /\ tickets' \in Nat
        /\ syncClose' \in BOOLEAN
    BY <1>0 DEF HelloFits, CountHello, TypeOK, HsId
  <2> QED
    BY <2>1, <2>2, <2>3 DEF TypeOK
<1>2. \A o \in Conn : /\ sess'[o] = IF o = c THEN NewPending(c, sess[c]) ELSE sess[o]
                      /\ hellos'[o] = IF o = c THEN hellos[c] + 1 ELSE hellos[o]
                      /\ admitted'[o] = IF o = c THEN tickets + 1 ELSE admitted[o]
  BY <1>0 DEF HelloFits, CountHello, TypeOK
<1>3. SlotExact'
  BY <1>0, <1>2, HelloFields DEF IInv, SlotExact, TypeOK
<1>4. InOrder'
  BY <1>0, <1>2, HelloFields DEF IInv, InOrder, TypeOK, Session, HsId
<1>5. Dated' /\ c \in Members' /\ Members' \ {c} \subseteq Members
  BY <1>0, <1>1, <1>2, AdmitStep DEF HelloFits, TypeOK
<1>6. MembersBounded'
  <2>1. Members' = Members \cup {c}
    BY <1>0, <1>2, <1>5 DEF Members
  <2>2. IsFiniteSet(Members') /\ Cardinality(Members') = Cardinality(Members) + 1
    BY <1>0, <2>1, FS_AddElement DEF IInv, MembersBounded
  <2> QED
    BY <2>2, FS_CardinalityType DEF HelloFits, HasRoom, IInv, MembersBounded
<1> QED
  BY <1>1, <1>3, <1>4, <1>5, <1>6 DEF IInv

LEMMA HelloEvictsStep ==
  ASSUME IInv, NEW c \in Conn, NEW o \in Conn, HelloEvicts(c, o)
  PROVE  IInv'
<1>0. /\ TypeOK /\ hellos[c] < MaxHello /\ hellos[c] \in Nat
      /\ sess[c].pending = 0 /\ c \notin Members /\ o \in Members /\ o # c
  BY DEF HelloEvicts, CountHello, Oldest, IInv, TypeOK, HsId, SlotExact, Members
<1> DEFINE ended == IF DisposesNow(o) THEN Disposed(sess[o]) ELSE Wiped(sess[o])
<1>1. /\ ended \in Session /\ ~ended.slotHeld /\ ended.pending = 0
      /\ ended.state \in {0, sess[o].state}
  BY <1>0, WipedFields DEF TypeOK
<1>2. \A p \in Conn : /\ sess'[p] = IF p = c THEN NewPending(c, sess[c])
                                  ELSE IF p = o THEN ended ELSE sess[p]
                      /\ hellos'[p] = IF p = c THEN hellos[c] + 1 ELSE hellos[p]
                      /\ admitted'[p] = IF p = c THEN tickets + 1
                                       ELSE IF p = o THEN 0 ELSE admitted[p]
  BY <1>0 DEF HelloEvicts, CountHello, TypeOK
<1> HIDE DEF ended
<1>3. TypeOK'
  <2>1. sess' \in [Conn -> Session]
    <3>1. DOMAIN sess' = Conn /\ sess' = [p \in Conn |-> sess'[p]]
      BY <1>0 DEF HelloEvicts, TypeOK
    <3>2. \A p \in Conn : sess'[p] \in Session
      BY <1>0, <1>1, <1>2, HelloFields DEF TypeOK
    <3> QED
      BY <3>1, <3>2
  <2>2. km' \subseteq Conn \X (1..MaxHello) /\ keys' \subseteq Conn \X (1..MaxHello)
    BY <1>0, HelloFields DEF HelloEvicts, TypeOK
  <2>3. /\ link' \in [Conn -> {"idle", "open", "closing", "closed"}]
        /\ hellos' \in [Conn -> HsId] /\ admitted' \in [Conn -> Nat] /\ tickets' \in Nat
        /\ syncClose' \in BOOLEAN
    BY <1>0 DEF HelloEvicts, CountHello, Shut, TypeOK, HsId
  <2> QED
    BY <2>1, <2>2, <2>3 DEF TypeOK
<1>4. SlotExact'
  BY <1>0, <1>1, <1>2, HelloFields DEF IInv, SlotExact, TypeOK
<1>5. InOrder'
  BY <1>0, <1>1, <1>2, HelloFields DEF IInv, InOrder, TypeOK, Session, HsId
<1>6. Dated' /\ c \in Members' /\ Members' \ {c} \subseteq Members
  BY <1>0, <1>2, <1>3, AdmitStep DEF HelloEvicts, TypeOK
<1>7. MembersBounded'
  <2>1. Members' = (Members \ {o}) \cup {c}
    BY <1>0, <1>2, <1>6 DEF Members
  <2>2. IsFiniteSet(Members \ {o}) /\ Cardinality(Members \ {o}) = Cardinality(Members) - 1
    BY <1>0, FS_RemoveElement DEF IInv, MembersBounded
  <2>3. IsFiniteSet(Members') /\ Cardinality(Members') = Cardinality(Members \ {o}) + 1
    BY <1>0, <2>1, <2>2, FS_AddElement
  <2> QED
    BY <2>2, <2>3, FS_CardinalityType DEF IInv, MembersBounded
<1> QED
  BY <1>3, <1>4, <1>5, <1>6, <1>7 DEF IInv

LEMMA IInvStep == IInv /\ [Next]_vars => IInv'
<1> SUFFICES ASSUME IInv, [Next]_vars PROVE IInv'
  OBVIOUS
<1>1. CASE UNCHANGED vars
  BY <1>1 DEF vars, IInv, TypeOK, SlotExact, MembersBounded, Members, InOrder, Dated
<1>2. ASSUME NEW c \in Conn, Connect(c) PROVE IInv'
  BY <1>2 DEF Connect, IInv, TypeOK, SlotExact, MembersBounded, Members, InOrder, Dated
<1>3. ASSUME NEW c \in Conn,
             AckGood(c) \/ AckBad(c) \/ Abort(c) \/ CapReached(c) \/ CloseEvent(c)
      PROVE  IInv'
  BY <1>3, EndingLets, LetsStep
<1>4. ASSUME NEW c \in Conn, HelloAgain(c) PROVE IInv'
  BY <1>4, HelloAgainStep
<1>5. ASSUME NEW c \in Conn, HelloFits(c) PROVE IInv'
  BY <1>5, HelloFitsStep
<1>6. ASSUME NEW c \in Conn, NEW o \in Conn, HelloEvicts(c, o) PROVE IInv'
  BY <1>6, HelloEvictsStep
<1> QED
  BY <1>1, <1>2, <1>3, <1>4, <1>5, <1>6 DEF Next

LEMMA Inductive == Spec => []IInv
  BY InitIInv, IInvStep, PTL DEF Spec

\* Every variable of the server keeps its type.
THEOREM TypeCorrect == Spec => []TypeOK
<1>1. IInv => TypeOK
  BY DEF IInv
<1> QED
  BY <1>1, Inductive, PTL

\* Whatever the hellos, acks, evictions and closes of however many connections,
\* the registry is exact and bounded.
THEOREM RegistryExactHolds == Spec => []RegistryExact
<1>1. IInv => RegistryExact
  BY DEF IInv, SlotExact, MembersBounded, RegistryExact
<1> QED
  BY <1>1, Inductive, PTL

-----------------------------------------------------------------------------
(* The key buffers. *)

InUse == \A c \in Conn :
  /\ sess[c].pending # 0 => <<c, sess[c].pending>> \in km /\ <<c, sess[c].pending>> \in keys
  /\ sess[c].state # 0 => <<c, sess[c].state>> \in keys

Reachable == \A c \in Conn, x \in 1..MaxHello :
  /\ <<c, x>> \in km => x = sess[c].pending
  /\ <<c, x>> \in keys => x \in {sess[c].pending, sess[c].state} \/ hellos[c] > 1

KInv == IInv /\ InUse /\ Reachable

LEMMA KeysMember ==
  ASSUME NEW c
  PROVE  \A o, x :
           /\ <<o, x>> \in WipedKeys(c) <=> o = c /\ x = sess[c].pending /\ x # 0
           /\ <<o, x>> \in DisposedKeys(c)
                <=> o = c /\ x \in {sess[c].pending, sess[c].state} /\ x # 0
  BY DEF Keys, WipedKeys, DisposedKeys

\* Connection c ends the step as s, and the buffers of the others are untouched.
KeyChange(c, s) ==
  /\ sess' = [sess EXCEPT ![c] = s]
  /\ \A o \in Conn \ {c} : hellos'[o] = hellos[o]
  /\ \A o \in Conn \ {c}, x \in 1..MaxHello : /\ <<o, x>> \in km' <=> <<o, x>> \in km
                                              /\ <<o, x>> \in keys' <=> <<o, x>> \in keys
  /\ s.pending # 0 => <<c, s.pending>> \in km' /\ <<c, s.pending>> \in keys'
  /\ s.state # 0 => <<c, s.state>> \in keys'
  /\ \A x \in 1..MaxHello :
       /\ <<c, x>> \in km' => x = s.pending
       /\ <<c, x>> \in keys' => x \in {s.pending, s.state} \/ hellos'[c] > 1

LEMMA KeyChangeStep ==
  ASSUME KInv, NEW c \in Conn, NEW s, KeyChange(c, s)
  PROVE  InUse' /\ Reachable'
<1>1. \A o \in Conn : /\ sess'[o] = IF o = c THEN s ELSE sess[o]
                      /\ sess[o].pending \in 0..MaxHello /\ sess[o].state \in 0..MaxHello
  BY DEF KeyChange, KInv, IInv, TypeOK, Session, HsId
<1>2. ASSUME NEW o \in Conn
      PROVE  /\ sess'[o].pending # 0 => /\ <<o, sess'[o].pending>> \in km'
                                        /\ <<o, sess'[o].pending>> \in keys'
             /\ sess'[o].state # 0 => <<o, sess'[o].state>> \in keys'
  <2>1. CASE o = c
    BY <1>1, <2>1 DEF KeyChange
  <2>2. CASE o # c
    <3>1. sess[o].pending # 0 => sess[o].pending \in 1..MaxHello
      BY <1>1
    <3>2. sess[o].state # 0 => sess[o].state \in 1..MaxHello
      BY <1>1
    <3> QED
      BY <1>1, <2>2, <3>1, <3>2 DEF KeyChange, KInv, InUse
  <2> QED
    BY <2>1, <2>2
<1>3. ASSUME NEW o \in Conn, NEW x \in 1..MaxHello
      PROVE  /\ <<o, x>> \in km' => x = sess'[o].pending
             /\ <<o, x>> \in keys' => x \in {sess'[o].pending, sess'[o].state} \/ hellos'[o] > 1
  <2>1. CASE o = c
    BY <1>1, <2>1 DEF KeyChange
  <2>2. CASE o # c
    <3>1. sess'[o] = sess[o] /\ hellos'[o] = hellos[o]
      BY <1>1, <2>2 DEF KeyChange
    <3>2. /\ <<o, x>> \in km' <=> <<o, x>> \in km
          /\ <<o, x>> \in keys' <=> <<o, x>> \in keys
      BY <2>2 DEF KeyChange
    <3> QED
      BY <3>1, <3>2 DEF KInv, Reachable
  <2> QED
    BY <2>1, <2>2
<1> QED
  BY <1>2, <1>3 DEF InUse, Reachable

LEMMA TearKeys ==
  ASSUME KInv, NEW c \in Conn,
         NEW s, NEW released, Tear(c, s, released),
         \/ s = sess[c] /\ released = {}
         \/ s = Wiped(sess[c]) /\ released = WipedKeys(c)
         \/ s = Disposed(sess[c]) /\ released = DisposedKeys(c)
  PROVE  \E x : KeyChange(c, x)
<1>0. /\ sess[c] \in Session /\ hellos' = hellos
      /\ sess[c].pending # 0 => sess[c].pending # sess[c].state
  BY DEF KInv, IInv, TypeOK, InOrder, Tear, Session, HsId
<1>1. CASE DisposesNow(c) \/ (s = Disposed(sess[c]) /\ released = DisposedKeys(c))
  <2>1. /\ sess' = [sess EXCEPT ![c] = Disposed(sess[c])]
        /\ km' = km \ WipedKeys(c) /\ keys' = keys \ DisposedKeys(c)
    <3>1. WipedKeys(c) \subseteq DisposedKeys(c)
      BY DEF WipedKeys, DisposedKeys, Keys
    <3>2. km \ WipedKeys(c) = km \ (DisposedKeys(c) \cap WipedKeys(c))
      BY <3>1
    <3> QED
      BY <1>1, <3>2 DEF Tear
  <2> DEFINE x == Disposed(sess[c])
  <2>2. x.pending = 0 /\ x.state = 0
    BY <1>0, WipedFields
  <2> HIDE DEF x
  <2>3. KeyChange(c, x)
    BY <1>0, <2>1, <2>2, KeysMember DEF KeyChange, KInv, Reachable, x
  <2> QED
    BY <2>3
<1>2. CASE ~DisposesNow(c) /\ s = sess[c] /\ released = {}
  <2>1. /\ sess' = [sess EXCEPT ![c] = sess[c]] /\ km' = km /\ keys' = keys
    BY <1>2 DEF Tear
  <2> QED
    BY <1>0, <2>1 DEF KeyChange, KInv, Reachable, InUse
<1>3. CASE ~DisposesNow(c) /\ s = Wiped(sess[c]) /\ released = WipedKeys(c)
  <2>1. /\ sess' = [sess EXCEPT ![c] = Wiped(sess[c])]
        /\ km' = km \ WipedKeys(c) /\ keys' = keys \ WipedKeys(c)
    BY <1>3 DEF Tear
  <2> DEFINE x == Wiped(sess[c])
  <2>2. x.pending = 0 /\ x.state = sess[c].state
    BY <1>0, WipedFields
  <2>3. KeyChange(c, x)
    <3> HIDE DEF x
    <3> QED
      BY <1>0, <2>1, <2>2, KeysMember DEF KeyChange, KInv, Reachable, InUse, x
  <2> QED
    BY <2>3
<1> QED
  BY <1>1, <1>2, <1>3

LEMMA EndingKeys ==
  ASSUME KInv, NEW c \in Conn,
         AckGood(c) \/ AckBad(c) \/ Abort(c) \/ CapReached(c) \/ CloseEvent(c)
  PROVE  \E x : KeyChange(c, x)
<1>0. /\ sess[c] \in Session /\ hellos[c] \in Nat
      /\ sess[c].pending \in 0..MaxHello /\ sess[c].state \in 0..MaxHello
      /\ sess[c].pending <= hellos[c]
      /\ sess[c].pending # 0 => sess[c].state < sess[c].pending
  BY DEF KInv, IInv, TypeOK, InOrder, Session, HsId
<1>1. CASE AckGood(c)
  <2>1. /\ sess' = [sess EXCEPT ![c] = Opened(sess[c])] /\ hellos' = hellos
        /\ km' = km \ WipedKeys(c) /\ keys' = keys /\ sess[c].pending # 0
    BY <1>1 DEF AckGood, KeysWipedByAck
  <2>2. Opened(sess[c]).pending = 0 /\ Opened(sess[c]).state = sess[c].pending
    BY DEF Opened
  <2>3. sess[c].state # 0 => hellos[c] > 1
    BY <1>0, <2>1
  <2>4. KeyChange(c, Opened(sess[c]))
    BY <1>0, <2>1, <2>2, <2>3, KeysMember DEF KeyChange, KInv, Reachable, InUse
  <2> QED
    BY <2>4
<1>2. CASE CloseEvent(c)
  <2>1. /\ sess' = [sess EXCEPT ![c] = Disposed(sess[c])] /\ hellos' = hellos
        /\ km' = km \ WipedKeys(c) /\ keys' = keys \ DisposedKeys(c)
    BY <1>2 DEF CloseEvent
  <2> DEFINE x == Disposed(sess[c])
  <2>2. x.pending = 0 /\ x.state = 0
    BY <1>0, WipedFields
  <2> HIDE DEF x
  <2>3. KeyChange(c, x)
    BY <1>0, <2>1, <2>2, KeysMember DEF KeyChange, KInv, Reachable, x
  <2> QED
    BY <2>3
<1>3. CASE AckBad(c) \/ Abort(c) \/ CapReached(c)
  BY <1>3, TearKeys DEF AckBad, Abort, CapReached
<1> QED
  BY <1>1, <1>2, <1>3

LEMMA HelloAgainKeys ==
  ASSUME KInv, NEW c \in Conn, HelloAgain(c)
  PROVE  KeyChange(c, NewPending(c, sess[c]))
<1> DEFINE s == NewPending(c, sess[c])
<1>0. /\ hellos[c] \in Nat /\ sess[c].pending \in 1..MaxHello /\ sess[c].pending <= hellos[c]
      /\ sess[c].state \in 0..MaxHello
      /\ sess[c].state < sess[c].pending
      /\ hellos' = [hellos EXCEPT ![c] = hellos[c] + 1]
  BY DEF HelloAgain, CountHello, KInv, IInv, TypeOK, SlotExact, InOrder, Session, HsId
<1>1. /\ s.pending = hellos[c] + 1 /\ s.state = sess[c].state
      /\ sess' = [sess EXCEPT ![c] = s]
  BY HelloFields DEF HelloAgain, CountHello, KInv, IInv
<1>2. hellos'[c] = hellos[c] + 1 /\ \A o \in Conn \ {c} : hellos'[o] = hellos[o]
  BY <1>0 DEF KInv, IInv, TypeOK
<1>3. /\ km' = (km \ WipedKeys(c)) \cup {<<c, hellos[c] + 1>>}
      /\ keys' = keys \cup {<<c, hellos[c] + 1>>}
  BY DEF HelloAgain, NewKey
<1> HIDE DEF s
<1>4. s.state # 0 => <<c, s.state>> \in keys'
  BY <1>1, <1>3 DEF KInv, InUse
<1>5. \A x \in 1..MaxHello : <<c, x>> \in km' => x = s.pending
  BY <1>1, <1>3, KeysMember DEF KInv, Reachable
<1>6. hellos'[c] > 1
  BY <1>0, <1>2
<1>7. \A o \in Conn \ {c}, x \in 1..MaxHello : /\ <<o, x>> \in km' <=> <<o, x>> \in km
                                               /\ <<o, x>> \in keys' <=> <<o, x>> \in keys
  BY <1>3, KeysMember
<1>8. KeyChange(c, s)
  BY <1>1, <1>2, <1>3, <1>4, <1>5, <1>6, <1>7 DEF KeyChange
<1> QED
  BY <1>8 DEF s

LEMMA HelloFitsKeys ==
  ASSUME KInv, NEW c \in Conn, HelloFits(c)
  PROVE  KeyChange(c, NewPending(c, sess[c]))
<1> DEFINE s == NewPending(c, sess[c])
<1>0. /\ hellos[c] \in Nat /\ sess[c].pending = 0
      /\ hellos' = [hellos EXCEPT ![c] = hellos[c] + 1]
  BY DEF HelloFits, CountHello, KInv, IInv, TypeOK, SlotExact, HsId
<1>1. /\ s.pending = hellos[c] + 1 /\ s.state = sess[c].state
      /\ sess' = [sess EXCEPT ![c] = s]
  BY HelloFields DEF HelloFits, CountHello, KInv, IInv
<1>2. hellos'[c] = hellos[c] + 1 /\ \A o \in Conn \ {c} : hellos'[o] = hellos[o]
  BY <1>0 DEF KInv, IInv, TypeOK
<1>3. km' = km \cup {<<c, hellos[c] + 1>>} /\ keys' = keys \cup {<<c, hellos[c] + 1>>}
  BY DEF HelloFits, NewKey
<1> HIDE DEF s
<1>4. s.state # 0 => <<c, s.state>> \in keys'
  BY <1>1, <1>3 DEF KInv, InUse
<1>5. \A x \in 1..MaxHello : <<c, x>> \in km' => x = s.pending
  BY <1>0, <1>1, <1>3 DEF KInv, Reachable
<1>6. \A x \in 1..MaxHello :
        <<c, x>> \in keys' => x \in {s.pending, s.state} \/ hellos'[c] > 1
  BY <1>0, <1>1, <1>2, <1>3 DEF KInv, Reachable
<1>7. \A o \in Conn \ {c}, x \in 1..MaxHello : /\ <<o, x>> \in km' <=> <<o, x>> \in km
                                               /\ <<o, x>> \in keys' <=> <<o, x>> \in keys
  BY <1>3
<1>8. KeyChange(c, s)
  BY <1>1, <1>2, <1>3, <1>4, <1>5, <1>6, <1>7 DEF KeyChange
<1> QED
  BY <1>8 DEF s

LEMMA HelloEvictsKeys ==
  ASSUME KInv, NEW c \in Conn, NEW o \in Conn, HelloEvicts(c, o)
  PROVE  InUse' /\ Reachable'
<1> DEFINE s     == NewPending(c, sess[c])
           ended == IF DisposesNow(o) THEN Disposed(sess[o]) ELSE Wiped(sess[o])
           gone  == IF DisposesNow(o) THEN DisposedKeys(o) ELSE WipedKeys(o)
<1>0. /\ hellos[c] \in Nat /\ sess[c].pending = 0 /\ o # c /\ hellos[c] < MaxHello
      /\ hellos' = [hellos EXCEPT ![c] = hellos[c] + 1]
      /\ sess[o] \in Session /\ TypeOK
      /\ sess[o].pending # 0 => sess[o].state # sess[o].pending
  BY DEF HelloEvicts, CountHello, Oldest, Members, KInv, IInv, TypeOK, SlotExact, InOrder,
         HsId, Session
<1>1. /\ s.pending = hellos[c] + 1 /\ s.state = sess[c].state
      /\ ended.pending = 0 /\ ended.state \in {0, sess[o].state}
      /\ ended.state # 0 => ~DisposesNow(o)
  BY <1>0, HelloFields, WipedFields
<1>2. \A p \in Conn : /\ sess'[p] = IF p = c THEN s ELSE IF p = o THEN ended ELSE sess[p]
                      /\ hellos'[p] = IF p = c THEN hellos[c] + 1 ELSE hellos[p]
  BY <1>0 DEF HelloEvicts, TypeOK
<1>3. /\ km' = (km \ WipedKeys(o)) \cup {<<c, hellos[c] + 1>>}
      /\ keys' = (keys \ gone) \cup {<<c, hellos[c] + 1>>}
  BY DEF HelloEvicts, NewKey
<1>4. \A p, x : <<p, x>> \in gone
                  <=> /\ p = o /\ x # 0
                      /\ x = sess[o].pending \/ (DisposesNow(o) /\ x = sess[o].state)
  BY KeysMember
<1> HIDE DEF s, ended, gone
<1>5. ASSUME NEW p \in Conn
      PROVE  /\ sess'[p].pending # 0 => /\ <<p, sess'[p].pending>> \in km'
                                        /\ <<p, sess'[p].pending>> \in keys'
             /\ sess'[p].state # 0 => <<p, sess'[p].state>> \in keys'
  <2>1. CASE p = c
    BY <1>0, <1>1, <1>2, <1>3, <1>4, <2>1 DEF KInv, InUse
  <2>2. CASE p = o
    BY <1>0, <1>1, <1>2, <1>3, <1>4, <2>2 DEF KInv, InUse
  <2>3. CASE p # c /\ p # o
    BY <1>2, <1>3, <1>4, <2>3, KeysMember DEF KInv, InUse
  <2> QED
    BY <2>1, <2>2, <2>3
<1>6. ASSUME NEW p \in Conn, NEW x \in 1..MaxHello
      PROVE  /\ <<p, x>> \in km' => x = sess'[p].pending
             /\ <<p, x>> \in keys' => x \in {sess'[p].pending, sess'[p].state} \/ hellos'[p] > 1
  <2>1. CASE p = c
    BY <1>0, <1>1, <1>2, <1>3, <2>1 DEF KInv, Reachable
  <2>2. CASE p = o
    <3>1. x # 0 /\ <<p, x>> \notin km'
      BY <1>0, <1>3, <2>2, KeysMember DEF KInv, Reachable
    <3>2. <<p, x>> \in keys' => x = sess'[p].state \/ hellos'[p] > 1
      <4>1. <<p, x>> \in keys' => <<p, x>> \in keys /\ <<p, x>> \notin gone
        BY <1>0, <1>3, <2>2
      <4>2. ~DisposesNow(o) => ended.state = sess[o].state
        BY <1>0, WipedFields DEF ended
      <4> QED
        BY <1>0, <1>2, <1>4, <2>2, <3>1, <4>1, <4>2 DEF KInv, Reachable
    <3> QED
      BY <3>1, <3>2
  <2>3. CASE p # c /\ p # o
    BY <1>2, <1>3, <2>3 DEF KInv, Reachable
  <2> QED
    BY <2>1, <2>2, <2>3
<1> QED
  BY <1>5, <1>6 DEF InUse, Reachable

LEMMA KInvStep == KInv /\ [Next]_vars => KInv'
<1> SUFFICES ASSUME KInv, [Next]_vars PROVE InUse' /\ Reachable'
  BY IInvStep DEF KInv
<1>1. CASE UNCHANGED vars
  BY <1>1 DEF vars, KInv, InUse, Reachable
<1>2. ASSUME NEW c \in Conn, Connect(c) PROVE InUse' /\ Reachable'
  BY <1>2 DEF Connect, KInv, InUse, Reachable
<1>3. ASSUME NEW c \in Conn,
             AckGood(c) \/ AckBad(c) \/ Abort(c) \/ CapReached(c) \/ CloseEvent(c)
      PROVE  InUse' /\ Reachable'
  BY <1>3, EndingKeys, KeyChangeStep
<1>4. ASSUME NEW c \in Conn, HelloAgain(c) \/ HelloFits(c) PROVE InUse' /\ Reachable'
  BY <1>4, HelloAgainKeys, HelloFitsKeys, KeyChangeStep
<1>5. ASSUME NEW c \in Conn, NEW o \in Conn, HelloEvicts(c, o) PROVE InUse' /\ Reachable'
  BY <1>5, HelloEvictsKeys
<1> QED
  BY <1>1, <1>2, <1>3, <1>4, <1>5 DEF Next

LEMMA KeysInductive == Spec => []KInv
<1>1. Init => KInv
  BY InitIInv DEF Init, KInv, InUse, Reachable
<1> QED
  BY <1>1, KInvStep, PTL DEF Spec

\* No interleaving of second hellos, acks, evictions and closes leaves a session
\* or a pending handshake using a zeroized key.
THEOREM NoUseAfterWipeHolds == Spec => []NoUseAfterWipe
<1>1. KInv => NoUseAfterWipe
  <2> SUFFICES ASSUME KInv, NEW c \in Conn
               PROVE  /\ Keys(c, {sess[c].pending}) \subseteq (km \cap keys)
                      /\ Keys(c, {sess[c].state}) \subseteq keys
    BY DEF NoUseAfterWipe
  <2>1. \A x, k : k \in Keys(c, {x}) => x # 0 /\ k = <<c, x>>
    BY DEF Keys
  <2> QED
    BY <2>1 DEF KInv, InUse
<1> QED
  BY <1>1, KeysInductive, PTL

\* Every unwiped secret can be found again by dispose(), except the session keys
\* a connection abandoned by sending more than one hello.
THEOREM SecretsReachableHolds == Spec => []SecretsReachable
<1>1. KInv => SecretsReachable
  <2> SUFFICES ASSUME KInv PROVE SecretsReachable
    OBVIOUS
  <2>1. ASSUME NEW k \in Conn \X (1..MaxHello) PROVE k = <<k[1], k[2]>> /\ k[1] \in Conn /\ k[2] \in 1..MaxHello
    BY <2>1
  <2> QED
    BY <2>1 DEF KInv, IInv, TypeOK, Reachable, SecretsReachable
<1> QED
  BY <1>1, KeysInductive, PTL

-----------------------------------------------------------------------------
(* Evictions. *)

\* A registry with no room holds MaxPending admissions, all dated no earlier
\* than its oldest: the oldest cannot go before that many have come after it.
LEMMA OldestIsOld ==
  ASSUME IInv, ~HasRoom, NEW o \in Members, \A p \in Members : admitted[o] <= admitted[p]
  PROVE  tickets + 1 - admitted[o] >= MaxPending
<1> DEFINE date  == [p \in Members |-> admitted[p]]
           dates == admitted[o]..tickets
<1>1. tickets \in Nat /\ admitted[o] \in Nat /\ admitted[o] <= tickets
  BY DEF Members, IInv, TypeOK, Dated
<1>2. \A p \in Members : admitted[p] \in dates
  BY <1>1 DEF Members, IInv, TypeOK, Dated
<1>3. date \in Injection(Members, dates)
  <2>1. date \in [Members -> dates]
    BY <1>2
  <2>2. \A p, q \in Members : date[p] = date[q] => p = q
    BY DEF IInv, Dated
  <2> QED
    BY <2>1, <2>2 DEF Injection, IsInjective
<1>4. IsFiniteSet(dates) /\ Cardinality(dates) = tickets - admitted[o] + 1
  BY <1>1, FS_Interval
<1>5. Cardinality(Members) <= Cardinality(dates)
  <2> HIDE DEF date, dates
  <2> QED
    BY <1>3, <1>4, FS_Injection
<1>6. Cardinality(Members) \in Nat /\ Cardinality(Members) >= MaxPending
  BY FS_CardinalityType DEF HasRoom, IInv, MembersBounded
<1> QED
  BY <1>1, <1>4, <1>5, <1>6

\* To push a handshake out of the registry before its ack, MaxPending others
\* must have been admitted after it.
THEOREM EvictionNeedsFloodHolds == Spec => EvictionNeedsFlood
<1>1. IInv /\ [Next]_vars
        => [\A c \in Conn : (admitted[c] > 0 /\ admitted'[c] = 0 /\ tickets' > tickets)
                              => tickets' - admitted[c] >= MaxPending]_vars
  <2> SUFFICES ASSUME IInv, [Next]_vars, NEW p \in Conn,
                      admitted[p] > 0, admitted'[p] = 0, tickets' > tickets
               PROVE  tickets' - admitted[p] >= MaxPending
    OBVIOUS
  <2>0. tickets \in Nat /\ admitted \in [Conn -> Nat]
    BY DEF IInv, TypeOK
  <2>1. PICK c \in Conn, o \in Conn : HelloFits(c) \/ HelloEvicts(c, o)
    BY <2>0 DEF Next, vars, Connect, HelloAgain, AckGood, AckBad, Abort, CapReached, CloseEvent, Tear
  <2>2. admitted'[c] = tickets + 1 /\ tickets' = tickets + 1
    BY <2>0, <2>1 DEF HelloFits, HelloEvicts
  <2>3. p # c
    BY <2>0, <2>2
  <2>4. HelloEvicts(c, o) /\ p = o
    BY <2>0, <2>1, <2>3 DEF HelloFits, HelloEvicts
  <2>5. ~HasRoom /\ p \in Members /\ \A q \in Members : admitted[p] <= admitted[q]
    BY <2>4 DEF HelloEvicts, Oldest
  <2>6. tickets + 1 - admitted[p] >= MaxPending
    BY <2>5, OldestIsOld
  <2> QED
    BY <2>0, <2>2, <2>6
<1> QED
  BY <1>1, Inductive, PTL DEF Spec, EvictionNeedsFlood

\* An open session that sent one hello is untouched by the admissions and
\* evictions of other connections.
THEOREM SessionsIsolatedHolds == Spec => SessionsIsolated
<1>1. IInv /\ [Next]_vars
        => [\A c \in Conn : (sess[c].state # 0 /\ hellos[c] = 1 /\ tickets' > tickets)
                              => hellos'[c] > hellos[c] \/ sess'[c] = sess[c]]_vars
  <2> SUFFICES ASSUME IInv, [Next]_vars, NEW p \in Conn,
                      sess[p].state # 0, hellos[p] = 1, tickets' > tickets
               PROVE  hellos'[p] > hellos[p] \/ sess'[p] = sess[p]
    OBVIOUS
  <2>0. /\ tickets \in Nat /\ sess \in [Conn -> Session] /\ hellos \in [Conn -> HsId]
        /\ admitted \in [Conn -> Nat]
    BY DEF IInv, TypeOK
  <2>1. PICK c \in Conn, o \in Conn : HelloFits(c) \/ HelloEvicts(c, o)
    BY <2>0 DEF Next, vars, Connect, HelloAgain, AckGood, AckBad, Abort, CapReached, CloseEvent, Tear
  <2>2. p \notin Members
    <3>1. sess[p].pending \in Nat /\ sess[p].state \in Nat
      BY <2>0 DEF Session, HsId
    <3>2. sess[p].pending = 0
      BY <3>1 DEF IInv, InOrder
    <3> QED
      BY <3>2 DEF IInv, SlotExact, Members
  <2>3. CASE p = c
    BY <2>0, <2>1, <2>3 DEF HelloFits, HelloEvicts, CountHello, HsId
  <2>4. CASE p # c
    BY <2>0, <2>1, <2>2, <2>4 DEF HelloFits, HelloEvicts, Oldest
  <2> QED
    BY <2>3, <2>4
<1> QED
  BY <1>1, Inductive, PTL DEF Spec, SessionsIsolated

-----------------------------------------------------------------------------
\* A connection whose close event has run holds nothing, for ever.
THEOREM ClosedIsEmptyHolds == Spec => []ClosedIsEmpty
<1>1. Init => ClosedIsEmpty
  BY DEF Init, ClosedIsEmpty
<1>2. IInv /\ ClosedIsEmpty /\ [Next]_vars => ClosedIsEmpty'
  <2> SUFFICES ASSUME IInv, ClosedIsEmpty, [Next]_vars, NEW p \in Conn, link'[p] = "closed"
               PROVE  /\ sess'[p].pending = 0 /\ sess'[p].state = 0
                      /\ ~sess'[p].slotHeld /\ admitted'[p] = 0
    BY DEF ClosedIsEmpty
  <2>0. TypeOK
    BY DEF IInv
  <2>1. CASE link[p] = "closed"
    <3>1. ~Handling(p) /\ p \notin Members
      BY <2>1 DEF Handling, ClosedIsEmpty, Members
    <3>2. sess'[p] = sess[p] /\ admitted'[p] = admitted[p]
      BY <2>0, <2>1, <3>1 DEF TypeOK, Next, vars, Connect, HelloAgain, HelloFits, HelloEvicts,
         Oldest, CountHello, AckGood, AckBad, Abort, CapReached, CloseEvent, Tear, Retired
    <3> QED
      BY <2>1, <3>2 DEF ClosedIsEmpty
  <2>2. CASE link[p] # "closed"
    <3>1. CloseEvent(p)
      BY <2>0, <2>2 DEF TypeOK, Next, vars, Connect, HelloAgain, HelloFits, HelloEvicts,
         CountHello, AckGood, AckBad, Abort, CapReached, CloseEvent, Tear, Shut
    <3>2. sess'[p] = Disposed(sess[p]) /\ admitted'[p] = 0
      BY <2>0, <3>1 DEF CloseEvent, Retired, TypeOK
    <3> QED
      BY <2>0, <3>2, WipedFields DEF TypeOK
  <2> QED
    BY <2>1, <2>2
<1> QED
  BY <1>1, <1>2, Inductive, PTL DEF Spec
=============================================================================
