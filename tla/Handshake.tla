----------------------------- MODULE Handshake -----------------------------
(***************************************************************************)
(* runUserHandshake against the drone server: authorization, hello,        *)
(* finish, ack, over one link per attempt.  A link delivers in order until *)
(* it is lost or closed; both ends then get a close event.  The user's     *)
(* waiter is registered only after the cloud has answered, and its result  *)
(* is used one continuation later.  Pinned keys may be out of date.        *)
(* The gates of HelloGate are one refusal here.                            *)
(***************************************************************************)
EXTENDS Naturals, SequencesExt

CONSTANTS Conn,          \* connections, one handshake attempt each
          Static,        \* drone keys P_D, of this and of other enrolments
          Own,           \* the P_D of the key the drone can unwrap
          MaxPending     \* MAX_PENDING_HANDSHAKES

ASSUME OwnAssumption     == Own \in Static
ASSUME PendingAssumption == MaxPending \in Nat \ {0}

VARIABLES pin,           \* per connection: P_D its user has pinned
          record,        \* P_D the cloud writes into tokens
          known,         \* connections whose user's key the drone has pinned
          link,          \* per connection: is it up, and what is in flight
          user,          \* per connection: where runUserHandshake is
          heard,         \* what the user's waiter was settled with
          userKey,       \* session keys the user has opened with
          drone,         \* per connection: "none", "pending", "open"
          droneKey,      \* keys of the drone's half-open handshake or session
          halfOpen       \* halfOpenSet in insertion order

pins == <<pin, record, known>>
droneVars == <<drone, droneKey, halfOpen>>
vars == <<pins, link, user, heard, userKey, droneVars>>

\* Keys and MACs depend on the transcript (one per connection), and on the
\* static key mixed into the second branch.
Key(c, static) == <<c, static>>
NoKey == <<>>

HelloMsg  == [kind |-> "hello"]
Finish(k) == [kind |-> "finish", mac |-> k]
AckMsg(k) == [kind |-> "ack", mac |-> k]
Error     == [kind |-> "error"]
Closed    == [kind |-> "close"]        \* a close event, not a message

Init ==
  /\ pin \in [Conn -> Static] /\ record \in Static /\ known \in SUBSET Conn
  /\ link = [c \in Conn |-> [up |-> TRUE, toDrone |-> <<>>, toUser |-> <<>>]]
  /\ user = [c \in Conn |-> "idle"]
  /\ heard = [c \in Conn |-> Closed]
  /\ userKey = [c \in Conn |-> NoKey]
  /\ drone = [c \in Conn |-> "none"]
  /\ droneKey = [c \in Conn |-> NoKey]
  /\ halfOpen = <<>>

-----------------------------------------------------------------------------
(* Links.  Sending on a closed link does nothing and says nothing. *)

ToDrone(l, m) == IF l.up THEN [l EXCEPT !.toDrone = Append(@, m)] ELSE l
ToUser(l, m)  == IF l.up THEN [l EXCEPT !.toUser = Append(@, m)] ELSE l

\* close(): both ends get the event behind what is in flight to them.
Shut(l) == [ToDrone(ToUser(l, Closed), Closed) EXCEPT !.up = FALSE]

TakenByUser(l)  == [l EXCEPT !.toUser = Tail(@)]
TakenByDrone(l) == [l EXCEPT !.toDrone = Tail(@)]

\* The handshake starts on an open link; from then on it may be lost.
Lose(c) ==
  /\ link[c].up /\ user[c] # "idle"
  /\ link' = [link EXCEPT ![c] = [up |-> FALSE, toDrone |-> <<Closed>>, toUser |-> <<Closed>>]]
  /\ UNCHANGED <<pins, user, heard, userKey, droneVars>>

\* The application gives up, or ends its session.
AppClose(c) ==
  /\ link[c].up /\ user[c] # "idle"
  /\ link' = [link EXCEPT ![c] = Shut(@)]
  /\ UNCHANGED <<pins, user, heard, userKey, droneVars>>

-----------------------------------------------------------------------------
(* The user. *)

Goes(c, from, to) == user[c] = from /\ user' = [user EXCEPT ![c] = to]

Start(c) ==
  /\ Goes(c, "idle", "authorizing")
  /\ UNCHANGED <<pins, link, heard, userKey, droneVars>>

\* authorize() rejects: the exception leaves the link as it is.
Rejected(c) ==
  /\ Goes(c, "authorizing", "failed")
  /\ UNCHANGED <<pins, link, heard, userKey, droneVars>>

\* The answer is badly signed, or for another user, drone or nonce.
BadToken(c) ==
  /\ Goes(c, "authorizing", "failed")
  /\ link' = [link EXCEPT ![c] = Shut(@)]
  /\ UNCHANGED <<pins, heard, userKey, droneVars>>

\* The hello is sent, then nextMessage() registers its listeners.
Hello(c) ==
  /\ Goes(c, "authorizing", "waiting")
  /\ link' = [link EXCEPT ![c] = ToDrone(@, HelloMsg)]
  /\ UNCHANGED <<pins, heard, userKey, droneVars>>

\* An event that reaches the waiter settles it; one that comes before it or
\* after it is not heard.
UserReceive(c) ==
  /\ link[c].toUser # <<>>
  /\ link' = [link EXCEPT ![c] = TakenByUser(@)]
  /\ IF user[c] = "waiting"
     THEN /\ Goes(c, "waiting", "settled")
          /\ heard' = [heard EXCEPT ![c] = Head(link[c].toUser)]
     ELSE UNCHANGED <<user, heard>>
  /\ UNCHANGED <<pins, userKey, droneVars>>

\* An owner-pinned P_D is mandatory and must be the token's.
Pinned(c) == pin[c] = record

\* tau_D must verify under keys computed with the pinned P_D.
WrongConfirmed(c) == heard[c].mac[1] = c
Confirmed(c) == heard[c].mac = Key(c, pin[c])

Convinced(c) == heard[c].kind = "finish" /\ Pinned(c) /\ Confirmed(c)

\* The continuation after the waiter: confirm and open ...
Open(c) ==
  /\ Goes(c, "settled", "open") /\ Convinced(c)
  /\ userKey' = [userKey EXCEPT ![c] = Key(c, pin[c])]
  /\ link' = [link EXCEPT ![c] = ToDrone(@, AckMsg(Key(c, pin[c])))]
  /\ UNCHANGED <<pins, heard, droneVars>>

\* ... or close the link and throw (after a close event it is closed already).
WrongGivenUp(l) == l
GivenUp(l) == Shut(l)

Fail(c) ==
  /\ Goes(c, "settled", "failed") /\ ~Convinced(c)
  /\ link' = [link EXCEPT ![c] = GivenUp(@)]
  /\ UNCHANGED <<pins, heard, userKey, droneVars>>

-----------------------------------------------------------------------------
(* The drone.  Its handlers see the link without the message handled. *)

Gets(c, kind) ==
  /\ link[c].toDrone # <<>> /\ Head(link[c].toDrone).kind = kind

WrongAborted(l) == l
Aborted(l) == Shut(ToUser(l, Error))

\* handleHello, when a gate, the user's pinned key or the PUF says no.
Refuse(c) ==
  /\ Gets(c, "hello")
  /\ link' = [link EXCEPT ![c] = Aborted(TakenByDrone(@))]
  /\ UNCHANGED <<pins, user, heard, userKey, droneVars>>

MayAccept(c) == c \in known

\* The oldest handshake is evicted when the registry is full.
WrongVictims == IF Len(halfOpen) > MaxPending THEN {Head(halfOpen)} ELSE {}
Victims == IF Len(halfOpen) >= MaxPending THEN {Head(halfOpen)} ELSE {}

\* The registry is a set, so that whoever leaves it stands in it once.
Evicting == IF Victims = {} THEN halfOpen ELSE Tail(halfOpen)
Without(s, c) ==
  IF c \in ToSet(s) THEN RemoveAt(s, CHOOSE i \in DOMAIN s : s[i] = c) ELSE s

WrongEvicted(l) == l
Evicted(l) == Shut(l)

Answered(c, l) == ToUser(TakenByDrone(l), Finish(Key(c, Own)))

Accept(c) ==
  /\ Gets(c, "hello") /\ MayAccept(c)
  /\ link' = [o \in Conn |-> IF o = c THEN Answered(c, link[c])
                             ELSE IF o \in Victims THEN Evicted(link[o]) ELSE link[o]]
  /\ drone' = [o \in Conn |-> IF o = c THEN "pending"
                              ELSE IF o \in Victims THEN "none" ELSE drone[o]]
  /\ droneKey' = [o \in Conn |-> IF o = c THEN Key(c, Own)
                                 ELSE IF o \in Victims THEN NoKey ELSE droneKey[o]]
  /\ halfOpen' = Append(Evicting, c)
  /\ UNCHANGED <<pins, user, heard, userKey>>

\* tau_U must verify under the pending handshake's key.
AckFits(c) == drone[c] = "pending" /\ Head(link[c].toDrone).mac = droneKey[c]

Ack(c) ==
  /\ Gets(c, "ack") /\ AckFits(c)
  /\ link' = [link EXCEPT ![c] = TakenByDrone(@)]
  /\ drone' = [drone EXCEPT ![c] = "open"]
  /\ halfOpen' = Without(halfOpen, c)
  /\ UNCHANGED <<pins, user, heard, userKey, droneKey>>

Wiped(c) ==
  /\ drone' = [drone EXCEPT ![c] = "none"]
  /\ droneKey' = [droneKey EXCEPT ![c] = NoKey]
  /\ halfOpen' = Without(halfOpen, c)

\* After an eviction there is no handshake in progress.
AckRefused(c) ==
  /\ Gets(c, "ack") /\ ~AckFits(c)
  /\ link' = [link EXCEPT ![c] = Aborted(TakenByDrone(@))]
  /\ IF drone[c] = "pending" THEN Wiped(c) ELSE UNCHANGED droneVars
  /\ UNCHANGED <<pins, user, heard, userKey>>

Dispose(c) ==
  /\ Gets(c, "close")
  /\ link' = [link EXCEPT ![c] = TakenByDrone(@)]
  /\ Wiped(c)
  /\ UNCHANGED <<pins, user, heard, userKey>>

DroneReceive(c) == Refuse(c) \/ Accept(c) \/ Ack(c) \/ AckRefused(c) \/ Dispose(c)
Continue(c) == Open(c) \/ Fail(c)

Next == \E c \in Conn :
  \/ Lose(c) \/ AppClose(c)
  \/ Start(c) \/ Rejected(c) \/ BadToken(c) \/ Hello(c)
  \/ UserReceive(c) \/ Continue(c)
  \/ DroneReceive(c)

Spec == Init /\ [][Next]_vars

\* The event loops deliver what is in flight and run continuations; nothing
\* makes the cloud answer, a link stay up or an application act.
FairSpec == Spec /\ \A c \in Conn :
  WF_vars(UserReceive(c)) /\ WF_vars(Continue(c)) /\ WF_vars(DroneReceive(c))

-----------------------------------------------------------------------------
Keys == (Conn \X Static) \cup {NoKey}
Event == {HelloMsg, Error, Closed} \cup {Finish(k) : k \in Keys} \cup {AckMsg(k) : k \in Keys}

TypeOK ==
  /\ pin \in [Conn -> Static] /\ record \in Static /\ known \subseteq Conn
  /\ link \in [Conn -> [up : BOOLEAN, toDrone : Seq(Event), toUser : Seq(Event)]]
  /\ user \in [Conn -> {"idle", "authorizing", "waiting", "settled", "open", "failed"}]
  /\ heard \in [Conn -> Event] /\ userKey \in [Conn -> Keys]
  /\ drone \in [Conn -> {"none", "pending", "open"}] /\ droneKey \in [Conn -> Keys]
  /\ halfOpen \in Seq(Conn) /\ Len(halfOpen) <= MaxPending

\* A user opens only with a drone that holds the key he pinned; the drone opens
\* only for a user it knows, and only after he has, with his keys.
MutualAuthentication ==
  \A c \in Conn : /\ user[c] = "open" => pin[c] = Own
                  /\ drone[c] = "open" => /\ c \in known /\ user[c] = "open"
                                          /\ droneKey[c] = userKey[c]

\* A user may hold an open session the drone does not have (eviction between
\* finish and ack), but never on a link that is still up: he can notice.
AloneOnlyWhenClosed ==
  \A c \in Conn : (user[c] = "open" /\ link[c].up) =>
    /\ drone[c] # "none"
    /\ link[c].toDrone = <<>> => drone[c] = "open"

\* Between the one-shot waiter and the session's own listener nobody listens,
\* and no message arrives then: only the close event can go unheard.
NothingUnheard ==
  \A c \in Conn : user[c] = "settled" => ToSet(link[c].toUser) \subseteq {Closed}

\* A handshake that failed on the user's side gives its slot back.
FailureFreesSlot == \A c \in Conn : user[c] = "failed" ~> drone[c] = "none"

\* A user who starts to wait on a live link gets an answer or a failure.
WaitEnds ==
  \A c \in Conn : (user[c] = "waiting" /\ link[c].up) ~> user[c] # "waiting"
=============================================================================
