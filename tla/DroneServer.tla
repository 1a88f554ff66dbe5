---------------------------- MODULE DroneServer ----------------------------
(***************************************************************************)
(* attachDrone: many connections, one bounded registry of half-open        *)
(* handshakes evicted oldest first, and the life of the key material each *)
(* connection derives: pending, open, wiped by abort, eviction, cap or     *)
(* close.  A peer may send anything at any time; messages still arrive     *)
(* after the drone has closed its end of a link.                           *)
(***************************************************************************)
EXTENDS Naturals, FiniteSets

CONSTANTS Conn,          \* connections
          MaxPending,    \* MAX_PENDING_HANDSHAKES
          MaxHello       \* bound: valid hellos on one connection

ASSUME PendingAssumption == MaxPending \in Nat \ {0}
ASSUME BoundAssumption   == MaxHello \in Nat

VARIABLES syncClose,     \* TRUE: WebSocket, close() raises the close event itself;
                         \* FALSE: in-process, the event is queued behind messages
          link,          \* "idle", "open", "closing" (drone closed it), "closed"
          sess,          \* per connection: pending, state, slotHeld; 0 is null
          hellos,        \* valid hellos handled: names the handshake's keys
          admitted,      \* insertion order in halfOpenSet; 0 when not a member
          tickets,       \* insertions so far
          km,            \* MAC keys not yet zeroized
          keys           \* directional session keys not yet zeroized

vars == <<syncClose, link, sess, hellos, admitted, tickets, km, keys>>

HsId    == 0..MaxHello
Session == [pending : HsId, state : HsId, slotHeld : BOOLEAN]

Init ==
  /\ syncClose \in BOOLEAN
  /\ link = [c \in Conn |-> "idle"]
  /\ sess = [c \in Conn |-> [pending |-> 0, state |-> 0, slotHeld |-> FALSE]]
  /\ hellos = [c \in Conn |-> 0]
  /\ admitted = [c \in Conn |-> 0] /\ tickets = 0
  /\ km = {} /\ keys = {}

-----------------------------------------------------------------------------
Members   == {c \in Conn : admitted[c] > 0}
WrongOldest(c) == c \in Members /\ \A o \in Members : admitted[c] >= admitted[o]
Oldest(c) == c \in Members /\ \A o \in Members : admitted[c] <= admitted[o]
Keys(c, ids) == {c} \X (ids \ {0})

\* wipePending: drop the half-open handshake and free the slot.
WrongWiped(s) == [s EXCEPT !.pending = 0]
Wiped(s) == [s EXCEPT !.pending = 0, !.slotHeld = FALSE]
WrongWipedKeys(c) == {}
WipedKeys(c) == Keys(c, {sess[c].pending})

\* dispose: also release the open session.
Disposed(s) == [Wiped(s) EXCEPT !.state = 0]
DisposedKeys(c) == Keys(c, {sess[c].pending, sess[c].state})

\* halfOpen.retire
WrongRetired(c) == admitted
Retired(c) == [admitted EXCEPT ![c] = 0]

Handling(c) == link[c] \in {"open", "closing"}
Shut(c)     == [link EXCEPT ![c] = "closing"]
DisposesNow(c) == syncClose /\ link[c] = "open"

Connect(c) ==
  /\ link[c] = "idle"
  /\ link' = [link EXCEPT ![c] = "open"]
  /\ UNCHANGED <<syncClose, sess, hellos, admitted, tickets, km, keys>>

-----------------------------------------------------------------------------
(* handleHello, for a hello that passes every check. *)

NewPending(c, s) == [s EXCEPT !.pending = hellos[c] + 1, !.slotHeld = TRUE]
NewKey(c)        == <<c, hellos[c] + 1>>

CountHello(c) ==
  /\ Handling(c) /\ hellos[c] < MaxHello
  /\ hellos' = [hellos EXCEPT ![c] = @ + 1]

\* A second hello before the ack: the old K_m is wiped, the old session keys
\* are only dropped, and the slot keeps its place in the registry.
HelloAgain(c) ==
  /\ sess[c].slotHeld
  /\ CountHello(c)
  /\ sess' = [sess EXCEPT ![c] = NewPending(c, @)]
  /\ km' = (km \ WipedKeys(c)) \cup {NewKey(c)}
  /\ keys' = keys \cup {NewKey(c)}
  /\ UNCHANGED <<syncClose, link, admitted, tickets>>

HasRoom == Cardinality(Members) < MaxPending

HelloFits(c) ==
  /\ ~sess[c].slotHeld /\ HasRoom
  /\ CountHello(c)
  /\ sess' = [sess EXCEPT ![c] = NewPending(c, @)]
  /\ km' = km \cup {NewKey(c)}
  /\ keys' = keys \cup {NewKey(c)}
  /\ tickets' = tickets + 1
  /\ admitted' = [admitted EXCEPT ![c] = tickets + 1]
  /\ UNCHANGED <<syncClose, link>>

\* The registry is full: the oldest member o is wiped and its link closed.
HelloEvicts(c, o) ==
  /\ ~sess[c].slotHeld /\ ~HasRoom
  /\ Oldest(o)
  /\ CountHello(c)
  /\ sess' = [sess EXCEPT ![c] = NewPending(c, @),
                          ![o] = IF DisposesNow(o) THEN Disposed(@) ELSE Wiped(@)]
  /\ km' = (km \ WipedKeys(o)) \cup {NewKey(c)}
  /\ keys' = (keys \ (IF DisposesNow(o) THEN DisposedKeys(o) ELSE WipedKeys(o)))
               \cup {NewKey(c)}
  /\ tickets' = tickets + 1
  /\ admitted' = [admitted EXCEPT ![c] = tickets + 1, ![o] = 0]
  /\ link' = Shut(o)
  /\ UNCHANGED syncClose

-----------------------------------------------------------------------------
(* handleAck. *)

\* Keys move into the session unwiped; K_m is wiped and the slot freed.
Opened(s) == [pending |-> 0, state |-> s.pending, slotHeld |-> FALSE]
WrongKeysWipedByAck(c) == WipedKeys(c)
KeysWipedByAck(c) == {}

AckGood(c) ==
  /\ Handling(c) /\ sess[c].pending # 0
  /\ sess' = [sess EXCEPT ![c] = Opened(@)]
  /\ km' = km \ WipedKeys(c)
  /\ keys' = keys \ KeysWipedByAck(c)
  /\ admitted' = Retired(c)
  /\ UNCHANGED <<syncClose, link, hellos, tickets>>

\* abort() after releasing: a syncClose transport disposes of the rest at once.
Tear(c, releases, released) ==
  /\ link' = Shut(c)
  /\ sess' = [sess EXCEPT ![c] = IF DisposesNow(c) THEN Disposed(@) ELSE releases]
  /\ km' = km \ (IF DisposesNow(c) THEN WipedKeys(c) ELSE released \cap WipedKeys(c))
  /\ keys' = keys \ (IF DisposesNow(c) THEN DisposedKeys(c) ELSE released)
  /\ admitted' = IF DisposesNow(c) \/ ~releases.slotHeld THEN Retired(c) ELSE admitted
  /\ UNCHANGED <<syncClose, hellos, tickets>>

AckBad(c) ==
  /\ Handling(c) /\ sess[c].pending # 0
  /\ Tear(c, Wiped(sess[c]), WipedKeys(c))

\* An ack without a handshake, an invalid hello, a frame the session refuses,
\* an unparseable message, or the peer closing: abort, nothing released first.
Abort(c) ==
  /\ Handling(c)
  /\ Tear(c, sess[c], {})

\* The decryption-attempt cap: handleData disposes, then aborts.
CapReached(c) ==
  /\ Handling(c) /\ sess[c].state # 0
  /\ Tear(c, Disposed(sess[c]), DisposedKeys(c))

\* The transport is gone: the registered onClose runs dispose().
CloseEvent(c) ==
  /\ link[c] = "closing"
  /\ link' = [link EXCEPT ![c] = "closed"]
  /\ sess' = [sess EXCEPT ![c] = Disposed(@)]
  /\ km' = km \ WipedKeys(c)
  /\ keys' = keys \ DisposedKeys(c)
  /\ admitted' = Retired(c)
  /\ UNCHANGED <<syncClose, hellos, tickets>>

Next ==
  \E c \in Conn :
    \/ Connect(c) \/ HelloAgain(c) \/ HelloFits(c)
    \/ \E o \in Conn : HelloEvicts(c, o)
    \/ AckGood(c) \/ AckBad(c) \/ Abort(c) \/ CapReached(c) \/ CloseEvent(c)

Spec == Init /\ [][Next]_vars

-----------------------------------------------------------------------------
TypeOK ==
  /\ syncClose \in BOOLEAN
  /\ link \in [Conn -> {"idle", "open", "closing", "closed"}]
  /\ sess \in [Conn -> Session]
  /\ hellos \in [Conn -> HsId]
  /\ admitted \in [Conn -> Nat] /\ tickets \in Nat
  /\ km \subseteq Conn \X (1..MaxHello) /\ keys \subseteq Conn \X (1..MaxHello)

\* However hellos, acks, evictions and closes interleave, the registry, the
\* slot flag and the pending handshake agree, and the bound holds: no slot is
\* leaked by a dead connection and none is freed twice.
RegistryExact ==
  /\ \A c \in Conn : /\ admitted[c] > 0 <=> sess[c].pending # 0
                     /\ sess[c].slotHeld <=> sess[c].pending # 0
  /\ Cardinality(Members) <= MaxPending

\* No key in use has been zeroized: neither the pending handshake's (its
\* buffers are shared with the session after the ack) nor the session's.
NoUseAfterWipe ==
  \A c \in Conn : /\ Keys(c, {sess[c].pending}) \subseteq (km \cap keys)
                  /\ Keys(c, {sess[c].state}) \subseteq keys

\* Every unwiped secret is reachable, so that dispose() will find it; session
\* keys escape only on a connection that sent more than one hello.
SecretsReachable ==
  /\ \A k \in km : k[2] = sess[k[1]].pending
  /\ \A k \in keys : \/ k[2] \in {sess[k[1]].pending, sess[k[1]].state}
                     \/ hellos[k[1]] > 1

\* A closed connection holds nothing: no slot, no handshake, no session.
ClosedIsEmpty ==
  \A c \in Conn : link[c] = "closed" =>
    sess[c].pending = 0 /\ sess[c].state = 0 /\ ~sess[c].slotHeld /\ admitted[c] = 0

\* A handshake loses its slot to another connection only after MaxPending
\* admissions later than its own: the flood must outrun the ack.
EvictionNeedsFlood ==
  [][\A c \in Conn : (admitted[c] > 0 /\ admitted'[c] = 0 /\ tickets' > tickets)
                       => tickets' - admitted[c] >= MaxPending]_vars

\* An open session that sent one hello is never disturbed by what other
\* connections do: it ends only through its own link.
SessionsIsolated ==
  [][\A c \in Conn : (sess[c].state # 0 /\ hellos[c] = 1 /\ tickets' > tickets)
                       => hellos'[c] > hellos[c] \/ sess'[c] = sess[c]]_vars

\* "Release all secret material for this connection ... when the transport
\* closes": after the close event no key of the connection is left unwiped.
NoKeyOutlivesConnection ==
  \A c \in Conn : link[c] = "closed" => \A k \in km \cup keys : k[1] # c
=============================================================================
