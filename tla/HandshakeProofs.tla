-------------------------- MODULE HandshakeProofs --------------------------
(***************************************************************************)
(* The handshake proved for any number of connections and any registry     *)
(* size: each connection's user, link and drone side stay one of the few   *)
(* combinations a handshake can reach, whatever the others do.             *)
(***************************************************************************)
EXTENDS Handshake, TLAPS

Line == [up : BOOLEAN, toDrone : Seq(Event), toUser : Seq(Event)]

\* On a live link the two sides are where the protocol puts them.
OnCourse(c, l, us, dr) ==
  \/ /\ us \in {"idle", "authorizing", "failed"} /\ dr = "none"
     /\ l.toDrone = <<>> /\ l.toUser = <<>>
  \/ us = "waiting" /\ dr = "none" /\ l.toDrone = <<HelloMsg>> /\ l.toUser = <<>>
  \/ us = "waiting" /\ dr = "pending" /\ l.toDrone = <<>> /\ l.toUser = <<Finish(Key(c, Own))>>
  \/ us = "settled" /\ dr = "pending" /\ l.toDrone = <<>> /\ l.toUser = <<>>
  \/ us = "open" /\ dr = "pending" /\ l.toDrone = <<AckMsg(Key(c, Own))>> /\ l.toUser = <<>>
  \/ us = "open" /\ dr = "open" /\ l.toDrone = <<>> /\ l.toUser = <<>>

\* On a dead one nothing but the close event follows the first thing in flight.
Trailing(l, us) ==
  \A n \in 1..Len(l.toUser) : n > 1 \/ us = "settled" => l.toUser[n] = Closed

\* Every MAC in flight or in hand was made by whoever it vouches for.
Genuine(c, l, us, uk) ==
  /\ \A n \in 1..Len(l.toUser) : l.toUser[n].kind = "finish" => l.toUser[n].mac = Key(c, Own)
  /\ \A n \in 1..Len(l.toDrone) : l.toDrone[n].kind = "ack" =>
       us = "open" /\ l.toDrone[n].mac = uk

\* What each side knows of the other once it has keys.
Assured(c, us, he, uk, dr, dk) ==
  /\ us = "settled" /\ he.kind = "finish" => he.mac = Key(c, Own)
  /\ us = "open" => pin[c] = Own /\ uk = Key(c, Own)
  /\ dr # "none" => c \in known /\ dk = Key(c, Own)
  /\ dr = "open" => us = "open"

Sound(c, l, us, he, uk, dr, dk) ==
  /\ l \in Line
  /\ l.up => OnCourse(c, l, us, dr)
  /\ ~l.up => Trailing(l, us)
  /\ Genuine(c, l, us, uk)
  /\ Assured(c, us, he, uk, dr, dk)

IsArray(f) == f = [c \in Conn |-> f[c]]

Arrays ==
  /\ pin \in [Conn -> Static]
  /\ IsArray(link) /\ IsArray(user) /\ IsArray(heard)
  /\ IsArray(userKey) /\ IsArray(drone) /\ IsArray(droneKey)

SoundAt(c) == Sound(c, link[c], user[c], heard[c], userKey[c], drone[c], droneKey[c])

IInv == Arrays /\ \A c \in Conn : SoundAt(c)

-----------------------------------------------------------------------------
LEMMA Kinds ==
  /\ HelloMsg.kind = "hello" /\ Error.kind = "error" /\ Closed.kind = "close"
  /\ \A k : /\ Finish(k).kind = "finish" /\ Finish(k).mac = k
            /\ AckMsg(k).kind = "ack" /\ AckMsg(k).mac = k
  BY DEF HelloMsg, Error, Closed, Finish, AckMsg

LEMMA Events ==
  ASSUME NEW c \in Conn, NEW s \in Static
  PROVE  /\ HelloMsg \in Event /\ Error \in Event /\ Closed \in Event
         /\ Finish(Key(c, s)) \in Event /\ AckMsg(Key(c, s)) \in Event
<1>1. Key(c, s) \in Keys
  BY DEF Key, Keys
<1> QED
  BY <1>1 DEF Event

LEMMA Keyed ==
  ASSUME NEW c, NEW s, NEW t, Key(c, s) = Key(c, t)
  PROVE  s = t
  BY DEF Key

\* What sending, closing and receiving do to a line.
LEMMA LineFields ==
  ASSUME NEW l \in Line
  PROVE  /\ l = [up |-> l.up, toDrone |-> l.toDrone, toUser |-> l.toUser]
         /\ l.up \in BOOLEAN /\ l.toDrone \in Seq(Event) /\ l.toUser \in Seq(Event)
  BY DEF Line

LEMMA LineMade ==
  ASSUME NEW u \in BOOLEAN, NEW td \in Seq(Event), NEW tu \in Seq(Event)
  PROVE  [up |-> u, toDrone |-> td, toUser |-> tu] \in Line
  BY DEF Line

LEMMA Sending ==
  ASSUME NEW l \in Line, NEW m \in Event
  PROVE  /\ ToDrone(l, m) = IF l.up THEN [up |-> TRUE, toDrone |-> Append(l.toDrone, m),
                                          toUser |-> l.toUser] ELSE l
         /\ ToUser(l, m) = IF l.up THEN [up |-> TRUE, toDrone |-> l.toDrone,
                                         toUser |-> Append(l.toUser, m)] ELSE l
         /\ ToDrone(l, m) \in Line /\ ToUser(l, m) \in Line
<1>1. /\ l.up \in BOOLEAN /\ l.toDrone \in Seq(Event) /\ l.toUser \in Seq(Event)
      /\ Append(l.toDrone, m) \in Seq(Event) /\ Append(l.toUser, m) \in Seq(Event)
  BY LineFields
<1>2. l.up => ToDrone(l, m) = [up |-> TRUE, toDrone |-> Append(l.toDrone, m), toUser |-> l.toUser]
  BY DEF ToDrone, Line
<1>3. l.up => ToUser(l, m) = [up |-> TRUE, toDrone |-> l.toDrone, toUser |-> Append(l.toUser, m)]
  BY DEF ToUser, Line
<1>4. ~l.up => ToDrone(l, m) = l /\ ToUser(l, m) = l
  BY DEF ToDrone, ToUser
<1> QED
  BY <1>1, <1>2, <1>3, <1>4, LineMade

LEMMA Shutting ==
  ASSUME NEW l \in Line
  PROVE  /\ Shut(l) = [up |-> FALSE,
                       toDrone |-> IF l.up THEN Append(l.toDrone, Closed) ELSE l.toDrone,
                       toUser |-> IF l.up THEN Append(l.toUser, Closed) ELSE l.toUser]
         /\ Shut(l) \in Line
<1> DEFINE a == ToUser(l, Closed)
           b == ToDrone(a, Closed)
<1>1. Closed \in Event
  BY DEF Event
<1>2. /\ a = IF l.up THEN [up |-> TRUE, toDrone |-> l.toDrone,
                           toUser |-> Append(l.toUser, Closed)] ELSE l
      /\ a \in Line
  BY <1>1, Sending
<1>3. b \in Line /\ b = IF a.up THEN [up |-> TRUE, toDrone |-> Append(a.toDrone, Closed),
                           toUser |-> a.toUser] ELSE a
  BY <1>1, <1>2, Sending
<1>5. Shut(l) = [b EXCEPT !.up = FALSE]
  BY DEF Shut
<1> HIDE DEF a, b
<1>4. b = IF l.up THEN [up |-> TRUE, toDrone |-> Append(l.toDrone, Closed),
                        toUser |-> Append(l.toUser, Closed)] ELSE l
  BY <1>2, <1>3
<1>6. Shut(l) = [up |-> FALSE, toDrone |-> b.toDrone, toUser |-> b.toUser]
  BY <1>3, <1>5 DEF Line
<1>7. Shut(l) \in Line
  <2>1. b.toDrone \in Seq(Event) /\ b.toUser \in Seq(Event)
    BY <1>3, LineFields
  <2> QED
    BY <1>6, <2>1, LineMade
<1> QED
  BY <1>4, <1>6, <1>7

LEMMA Taking ==
  ASSUME NEW l \in Line
  PROVE  /\ l.toUser # <<>> =>
              /\ TakenByUser(l) = [up |-> l.up, toDrone |-> l.toDrone, toUser |-> Tail(l.toUser)]
              /\ TakenByUser(l) \in Line
         /\ l.toDrone # <<>> =>
              /\ TakenByDrone(l) = [up |-> l.up, toDrone |-> Tail(l.toDrone), toUser |-> l.toUser]
              /\ TakenByDrone(l) \in Line
<1>1. /\ l.up \in BOOLEAN /\ l.toDrone \in Seq(Event) /\ l.toUser \in Seq(Event)
      /\ l.toDrone # <<>> => Tail(l.toDrone) \in Seq(Event)
      /\ l.toUser # <<>> => Tail(l.toUser) \in Seq(Event)
  BY LineFields
<1>2. ASSUME NEW t, t = Tail(l.toUser)
      PROVE  TakenByUser(l) = [up |-> l.up, toDrone |-> l.toDrone, toUser |-> t]
  <2>1. TakenByUser(l) = [l EXCEPT !.toUser = t]
    BY <1>2 DEF TakenByUser
  <2> QED
    BY <2>1 DEF Line
<1>3. ASSUME NEW t, t = Tail(l.toDrone)
      PROVE  TakenByDrone(l) = [up |-> l.up, toDrone |-> t, toUser |-> l.toUser]
  <2>1. TakenByDrone(l) = [l EXCEPT !.toDrone = t]
    BY <1>3 DEF TakenByDrone
  <2> QED
    BY <2>1 DEF Line
<1> QED
  BY <1>1, <1>2, <1>3, LineMade

LEMMA Appending ==
  ASSUME NEW s \in Seq(Event), NEW m \in Event
  PROVE  /\ Len(s) \in Nat /\ Append(s, m) \in Seq(Event) /\ Len(Append(s, m)) = Len(s) + 1
         /\ \A n \in 1..Len(Append(s, m)) : IF n <= Len(s)
              THEN n \in 1..Len(s) /\ Append(s, m)[n] = s[n]
              ELSE n = Len(s) + 1 /\ Append(s, m)[n] = m
  OBVIOUS

LEMMA TailOf ==
  ASSUME NEW s \in Seq(Event), s # <<>>
  PROVE  /\ Len(s) \in Nat /\ Len(s) >= 1 /\ Head(s) = s[1] /\ Head(s) \in Event
         /\ Tail(s) \in Seq(Event) /\ Len(Tail(s)) = Len(s) - 1
         /\ \A n \in 1..Len(Tail(s)) : n + 1 \in 1..Len(s) /\ n + 1 > 1 /\ Tail(s)[n] = s[n + 1]
  OBVIOUS

LEMMA SingleSeq ==
  ASSUME NEW m
  PROVE  /\ <<m>> # <<>> /\ Head(<<m>>) = m /\ Tail(<<m>>) = <<>> /\ Append(<<>>, m) = <<m>>
         /\ Len(<<m>>) = 1 /\ <<m>>[1] = m /\ 1..Len(<<m>>) = {1} /\ 1..Len(<<>>) = {}
  OBVIOUS

-----------------------------------------------------------------------------
(* Sound survives what can happen to a line. *)

\* A live line has at most one thing under way to the user, and none once his
\* waiter is settled.
LEMMA Uncrowded ==
  ASSUME NEW c, NEW l \in Line, NEW us, NEW dr, OnCourse(c, l, us, dr)
  PROVE  Len(l.toUser) <= 1 /\ (us = "settled" => Len(l.toUser) = 0)
<1> DEFINE f == <<Finish(Key(c, Own))>>
<1>1. Len(<<>>) = 0 /\ Len(f) = 1
  BY SingleSeq
<1>2. /\ l.toUser = <<>> \/ l.toUser = f
      /\ us = "settled" => l.toUser = <<>>
  BY DEF OnCourse
<1> HIDE DEF f
<1>3. CASE l.toUser = <<>>
  BY <1>1, <1>3
<1>4. CASE l.toUser = f
  <2>1. Len(l.toUser) <= 1
    BY <1>1, <1>4
  <2> QED
    BY <1>1, <1>2, <2>1
<1> QED
  BY <1>2, <1>3, <1>4

LEMMA SoundShut ==
  ASSUME NEW c \in Conn, NEW l, NEW us, NEW he, NEW uk, NEW dr, NEW dk,
         Sound(c, l, us, he, uk, dr, dk)
  PROVE  Sound(c, Shut(l), us, he, uk, dr, dk) /\ ~Shut(l).up
<1>1. l \in Line
  BY DEF Sound
<1>2. CASE l.up
  <2> DEFINE m == Shut(l)
  <2>1. /\ m \in Line /\ ~m.up /\ m.toUser = Append(l.toUser, Closed)
        /\ m.toDrone = Append(l.toDrone, Closed) /\ Closed \in Event
    BY <1>1, <1>2, Shutting, Events, OwnAssumption
  <2>2. l.toUser \in Seq(Event) /\ l.toDrone \in Seq(Event)
    BY <1>1, LineFields
  <2> HIDE DEF m
  <2>3. Trailing(m, us)
    <3>1. Len(l.toUser) <= 1 /\ (us = "settled" => Len(l.toUser) = 0) /\ Len(l.toUser) \in Nat
      BY <1>1, <1>2, <2>2, Uncrowded, Appending, <2>1 DEF Sound
    <3>2. \A n \in 1..Len(m.toUser) : n <= Len(l.toUser) \/ m.toUser[n] = Closed
      BY <2>1, <2>2, Appending
    <3>3. \A n \in 1..Len(m.toUser) : (n > 1 \/ us = "settled") => ~(n <= Len(l.toUser))
      BY <3>1
    <3> QED
      BY <3>2, <3>3 DEF Trailing
  <2>4. Genuine(c, m, us, uk)
    <3>1. /\ \A n \in 1..Len(m.toUser) :
               m.toUser[n] = Closed \/ (n \in 1..Len(l.toUser) /\ m.toUser[n] = l.toUser[n])
          /\ \A n \in 1..Len(m.toDrone) :
               m.toDrone[n] = Closed \/ (n \in 1..Len(l.toDrone) /\ m.toDrone[n] = l.toDrone[n])
      BY <2>1, <2>2, Appending
    <3> QED
      BY <3>1, Kinds DEF Sound, Genuine
  <2> QED
    BY <2>1, <2>3, <2>4 DEF Sound, m
<1>3. CASE ~l.up
  <2> DEFINE m == Shut(l)
  <2>1. m \in Line /\ ~m.up /\ m.toUser = l.toUser /\ m.toDrone = l.toDrone
    BY <1>1, <1>3, Shutting
  <2> HIDE DEF m
  <2>2. Trailing(m, us) /\ Genuine(c, m, us, uk)
    BY <1>3, <2>1 DEF Sound, Trailing, Genuine
  <2> QED
    BY <2>1, <2>2 DEF Sound, m
<1> QED
  BY <1>2, <1>3

\* On a dead line the drone may forget the connection ...
LEMMA SoundForgotten ==
  ASSUME NEW c, NEW l, NEW us, NEW he, NEW uk, NEW dr, NEW dk,
         Sound(c, l, us, he, uk, dr, dk), ~l.up
  PROVE  Sound(c, l, us, he, uk, "none", NoKey)
  BY DEF Sound, Assured

\* ... and whatever waits at the drone's end may be taken.
LEMMA SoundTaken ==
  ASSUME NEW c, NEW l, NEW us, NEW he, NEW uk, NEW dr, NEW dk,
         Sound(c, l, us, he, uk, dr, dk), ~l.up, l.toDrone # <<>>
  PROVE  Sound(c, TakenByDrone(l), us, he, uk, dr, dk) /\ ~TakenByDrone(l).up
<1> DEFINE m == TakenByDrone(l)
<1>0. l \in Line
  BY DEF Sound
<1>a. m \in Line /\ m = [up |-> l.up, toDrone |-> Tail(l.toDrone), toUser |-> l.toUser]
  BY <1>0, Taking
<1> HIDE DEF m
<1>1. /\ l \in Line /\ m \in Line /\ m.up = l.up
      /\ m.toDrone = Tail(l.toDrone) /\ m.toUser = l.toUser
  BY <1>0, <1>a
<1>2. l.toDrone \in Seq(Event)
  BY <1>1, LineFields
<1>3. \A n \in 1..Len(m.toDrone) : n + 1 \in 1..Len(l.toDrone) /\ m.toDrone[n] = l.toDrone[n + 1]
  BY <1>1, <1>2, TailOf
<1>4. Trailing(m, us) /\ Genuine(c, m, us, uk)
  BY <1>1, <1>3 DEF Sound, Trailing, Genuine
<1> QED
  BY <1>1, <1>4 DEF Sound, m

-----------------------------------------------------------------------------
(* A step at one connection leaves the others as they are. *)

Puts(f, g, c, v) == g = [f EXCEPT ![c] = v]

LEMMA ArrayUpdate ==
  ASSUME NEW f, IsArray(f), NEW c \in Conn, NEW v
  PROVE  /\ IsArray([f EXCEPT ![c] = v]) /\ [f EXCEPT ![c] = v][c] = v
         /\ \A o \in Conn : o # c => [f EXCEPT ![c] = v][o] = f[o]
<1>1. DOMAIN f = Conn
  BY DEF IsArray
<1> QED
  BY <1>1 DEF IsArray

LEMMA ArrayKept ==
  ASSUME NEW f, IsArray(f), NEW c \in Conn
  PROVE  [f EXCEPT ![c] = f[c]] = f
<1>1. DOMAIN f = Conn
  BY DEF IsArray
<1> QED
  BY <1>1 DEF IsArray

LEMMA Repinned ==
  ASSUME UNCHANGED pins, NEW c, NEW l, NEW us, NEW he, NEW uk, NEW dr, NEW dk,
         Sound(c, l, us, he, uk, dr, dk)
  PROVE  Sound(c, l, us, he, uk, dr, dk)'
  BY DEF pins, Sound, Assured

LEMMA Local ==
  ASSUME IInv, UNCHANGED pins, NEW c \in Conn,
         NEW l, NEW us, NEW he, NEW uk, NEW dr, NEW dk, Sound(c, l, us, he, uk, dr, dk),
         Puts(link, link', c, l), Puts(user, user', c, us), Puts(heard, heard', c, he),
         Puts(userKey, userKey', c, uk), Puts(drone, drone', c, dr), Puts(droneKey, droneKey', c, dk)
  PROVE  IInv'
<1>1. Arrays'
  <2>1. IsArray(link)'
    <3>1. IsArray([link EXCEPT ![c] = l])
      BY ArrayUpdate DEF IInv, Arrays
    <3> QED
      BY <3>1 DEF IsArray, Puts
  <2>2. IsArray(user)'
    <3>1. IsArray([user EXCEPT ![c] = us])
      BY ArrayUpdate DEF IInv, Arrays
    <3> QED
      BY <3>1 DEF IsArray, Puts
  <2>3. IsArray(heard)'
    <3>1. IsArray([heard EXCEPT ![c] = he])
      BY ArrayUpdate DEF IInv, Arrays
    <3> QED
      BY <3>1 DEF IsArray, Puts
  <2>4. IsArray(userKey)'
    <3>1. IsArray([userKey EXCEPT ![c] = uk])
      BY ArrayUpdate DEF IInv, Arrays
    <3> QED
      BY <3>1 DEF IsArray, Puts
  <2>5. IsArray(drone)'
    <3>1. IsArray([drone EXCEPT ![c] = dr])
      BY ArrayUpdate DEF IInv, Arrays
    <3> QED
      BY <3>1 DEF IsArray, Puts
  <2>6. IsArray(droneKey)'
    <3>1. IsArray([droneKey EXCEPT ![c] = dk])
      BY ArrayUpdate DEF IInv, Arrays
    <3> QED
      BY <3>1 DEF IsArray, Puts
  <2> QED
    BY <2>1, <2>2, <2>3, <2>4, <2>5, <2>6 DEF IInv, Arrays, pins
<1>2. /\ link'[c] = l /\ user'[c] = us /\ heard'[c] = he /\ userKey'[c] = uk
      /\ drone'[c] = dr /\ droneKey'[c] = dk
      /\ \A o \in Conn \ {c} :
           /\ link'[o] = link[o] /\ user'[o] = user[o] /\ heard'[o] = heard[o]
           /\ userKey'[o] = userKey[o] /\ drone'[o] = drone[o] /\ droneKey'[o] = droneKey[o]
  <2>1. link'[c] = l /\ \A o \in Conn \ {c} : link'[o] = link[o]
    <3>1. DOMAIN link = Conn
      BY DEF IInv, Arrays, IsArray
    <3> QED
      BY <3>1 DEF Puts
  <2>2. user'[c] = us /\ \A o \in Conn \ {c} : user'[o] = user[o]
    <3>1. DOMAIN user = Conn
      BY DEF IInv, Arrays, IsArray
    <3> QED
      BY <3>1 DEF Puts
  <2>3. heard'[c] = he /\ \A o \in Conn \ {c} : heard'[o] = heard[o]
    <3>1. DOMAIN heard = Conn
      BY DEF IInv, Arrays, IsArray
    <3> QED
      BY <3>1 DEF Puts
  <2>4. userKey'[c] = uk /\ \A o \in Conn \ {c} : userKey'[o] = userKey[o]
    <3>1. DOMAIN userKey = Conn
      BY DEF IInv, Arrays, IsArray
    <3> QED
      BY <3>1 DEF Puts
  <2>5. drone'[c] = dr /\ \A o \in Conn \ {c} : drone'[o] = drone[o]
    <3>1. DOMAIN drone = Conn
      BY DEF IInv, Arrays, IsArray
    <3> QED
      BY <3>1 DEF Puts
  <2>6. droneKey'[c] = dk /\ \A o \in Conn \ {c} : droneKey'[o] = droneKey[o]
    <3>1. DOMAIN droneKey = Conn
      BY DEF IInv, Arrays, IsArray
    <3> QED
      BY <3>1 DEF Puts
  <2> QED
    BY <2>1, <2>2, <2>3, <2>4, <2>5, <2>6
<1>3. SoundAt(c)'
  BY <1>2, Repinned DEF SoundAt
<1>4. ASSUME NEW o \in Conn, o # c PROVE SoundAt(o)'
  <2>1. /\ link'[o] = link[o] /\ user'[o] = user[o] /\ heard'[o] = heard[o]
        /\ userKey'[o] = userKey[o] /\ drone'[o] = drone[o] /\ droneKey'[o] = droneKey[o]
    BY <1>2, <1>4
  <2>2. Sound(o, link[o], user[o], heard[o], userKey[o], drone[o], droneKey[o])
    BY DEF IInv, SoundAt
  <2> QED
    BY <2>1, <2>2, Repinned DEF SoundAt
<1> QED
  BY <1>1, <1>3, <1>4 DEF IInv

LEMMA Kept ==
  ASSUME IInv, NEW c \in Conn
  PROVE  /\ link = [link EXCEPT ![c] = link[c]] /\ user = [user EXCEPT ![c] = user[c]]
         /\ heard = [heard EXCEPT ![c] = heard[c]] /\ userKey = [userKey EXCEPT ![c] = userKey[c]]
         /\ drone = [drone EXCEPT ![c] = drone[c]] /\ droneKey = [droneKey EXCEPT ![c] = droneKey[c]]
         /\ Sound(c, link[c], user[c], heard[c], userKey[c], drone[c], droneKey[c])
  BY ArrayKept DEF IInv, Arrays, SoundAt

\* ... and a step of the line alone needs only that the line stays sound.
LEMMA LineOnly ==
  ASSUME IInv, NEW c \in Conn, NEW l, Puts(link, link', c, l),
         UNCHANGED <<pins, user, heard, userKey, drone, droneKey>>,
         Sound(c, l, user[c], heard[c], userKey[c], drone[c], droneKey[c])
  PROVE  IInv'
<1>1. /\ Puts(user, user', c, user[c]) /\ Puts(heard, heard', c, heard[c])
      /\ Puts(userKey, userKey', c, userKey[c])
      /\ Puts(drone, drone', c, drone[c]) /\ Puts(droneKey, droneKey', c, droneKey[c])
  BY Kept DEF Puts
<1> QED
  BY <1>1, Local

LEMMA InitSound == Init => IInv
<1> SUFFICES ASSUME Init PROVE IInv
  OBVIOUS
<1>1. Arrays
  BY DEF Init, Arrays, IsArray
<1>2. ASSUME NEW c \in Conn PROVE SoundAt(c)
  <2> DEFINE l == [up |-> TRUE, toDrone |-> <<>>, toUser |-> <<>>]
  <2>1. /\ link[c] = l /\ user[c] = "idle" /\ heard[c] = Closed /\ userKey[c] = NoKey
        /\ drone[c] = "none" /\ droneKey[c] = NoKey
    BY DEF Init
  <2>2. l \in Line
    BY DEF Line
  <2>3. OnCourse(c, l, "idle", "none") /\ Assured(c, "idle", Closed, NoKey, "none", NoKey)
    BY DEF OnCourse, Assured
  <2>4. Genuine(c, l, "idle", NoKey)
    BY DEF Genuine
  <2> QED
    BY <2>1, <2>2, <2>3, <2>4 DEF SoundAt, Sound
<1> QED
  BY <1>1, <1>2 DEF IInv

LEMMA LoseSound ==
  ASSUME IInv, NEW c \in Conn, Lose(c)
  PROVE  IInv'
<1> DEFINE l == [up |-> FALSE, toDrone |-> <<Closed>>, toUser |-> <<Closed>>]
<1>1. l \in Line
  <2>1. Closed \in Event
    BY DEF Event
  <2> QED
    BY <2>1 DEF Line
<1>2. \A n \in 1..Len(<<Closed>>) : <<Closed>>[n] = Closed
  OBVIOUS
<1>3. Trailing(l, user[c]) /\ Genuine(c, l, user[c], userKey[c])
  BY <1>2, Kinds DEF Trailing, Genuine
<1>4. Sound(c, l, user[c], heard[c], userKey[c], drone[c], droneKey[c])
  BY <1>1, <1>3, Kept DEF Sound
<1>5. Puts(link, link', c, l) /\ UNCHANGED <<pins, user, heard, userKey, drone, droneKey>>
  BY DEF Lose, droneVars, Puts
<1> HIDE DEF l
<1> QED
  BY <1>4, <1>5, LineOnly

LEMMA AppCloseSound ==
  ASSUME IInv, NEW c \in Conn, AppClose(c)
  PROVE  IInv'
<1>1. Sound(c, Shut(link[c]), user[c], heard[c], userKey[c], drone[c], droneKey[c])
  BY Kept, SoundShut
<1>2. Puts(link, link', c, Shut(link[c])) /\ UNCHANGED <<pins, user, heard, userKey, drone, droneKey>>
  BY DEF AppClose, droneVars, Puts
<1> QED
  BY <1>1, <1>2, LineOnly

-----------------------------------------------------------------------------
(* The user's steps. *)

\* Until the hello is sent nothing depends on how far the user has got.
LEMMA BeforeHello ==
  ASSUME NEW c, NEW l, NEW us, NEW he, NEW uk, NEW dr, NEW dk,
         Sound(c, l, us, he, uk, dr, dk), us \in {"idle", "authorizing"},
         NEW to \in {"authorizing", "failed"}
  PROVE  Sound(c, l, to, he, uk, dr, dk)
<1>1. l.up => OnCourse(c, l, to, dr)
  BY DEF Sound, OnCourse
<1>2. Trailing(l, us) => Trailing(l, to)
  BY DEF Trailing
<1>3. Genuine(c, l, to, uk) /\ Assured(c, to, he, uk, dr, dk)
  BY DEF Sound, Genuine, Assured
<1> QED
  BY <1>1, <1>2, <1>3 DEF Sound

\* On a dead line a user who has not opened may give up.
LEMMA GivenUpSound ==
  ASSUME NEW c, NEW l, NEW us, NEW he, NEW uk, NEW dr, NEW dk,
         Sound(c, l, us, he, uk, dr, dk), ~l.up, us # "open"
  PROVE  Sound(c, l, "failed", he, uk, dr, dk)
<1>1. Trailing(l, "failed") /\ Genuine(c, l, "failed", uk) /\ Assured(c, "failed", he, uk, dr, dk)
  BY DEF Sound, Trailing, Genuine, Assured
<1> QED
  BY <1>1 DEF Sound

LEMMA UserOnly ==
  ASSUME IInv, NEW c \in Conn, NEW us, NEW l, Puts(link, link', c, l), Puts(user, user', c, us),
         UNCHANGED <<pins, heard, userKey, drone, droneKey>>,
         Sound(c, l, us, heard[c], userKey[c], drone[c], droneKey[c])
  PROVE  IInv'
<1>1. /\ Puts(heard, heard', c, heard[c]) /\ Puts(userKey, userKey', c, userKey[c])
      /\ Puts(drone, drone', c, drone[c]) /\ Puts(droneKey, droneKey', c, droneKey[c])
  BY Kept DEF Puts
<1> QED
  BY <1>1, Local

LEMMA StartSound ==
  ASSUME IInv, NEW c \in Conn, Start(c) \/ Rejected(c)
  PROVE  IInv'
<1>1. PICK to \in {"authorizing", "failed"} :
        user[c] \in {"idle", "authorizing"} /\ Puts(user, user', c, to)
  BY DEF Start, Rejected, Goes, Puts
<1>2. Puts(link, link', c, link[c]) /\ UNCHANGED <<pins, heard, userKey, drone, droneKey>>
  BY Kept DEF Start, Rejected, Puts, droneVars
<1>3. Sound(c, link[c], to, heard[c], userKey[c], drone[c], droneKey[c])
  BY <1>1, Kept, BeforeHello
<1> QED
  BY <1>1, <1>2, <1>3, UserOnly

LEMMA BadTokenSound ==
  ASSUME IInv, NEW c \in Conn, BadToken(c)
  PROVE  IInv'
<1>1. user[c] = "authorizing" /\ Puts(user, user', c, "failed")
  BY DEF BadToken, Goes, Puts
<1>2. Puts(link, link', c, Shut(link[c])) /\ UNCHANGED <<pins, heard, userKey, drone, droneKey>>
  BY DEF BadToken, Puts, droneVars
<1>3. Sound(c, link[c], "failed", heard[c], userKey[c], drone[c], droneKey[c])
  BY <1>1, Kept, BeforeHello
<1>4. Sound(c, Shut(link[c]), "failed", heard[c], userKey[c], drone[c], droneKey[c])
  BY <1>3, SoundShut
<1> QED
  BY <1>1, <1>2, <1>4, UserOnly

LEMMA HelloSound ==
  ASSUME IInv, NEW c \in Conn, Hello(c)
  PROVE  IInv'
<1> DEFINE l == link[c]
           m == ToDrone(link[c], HelloMsg)
<1>1. user[c] = "authorizing" /\ Puts(user, user', c, "waiting")
  BY DEF Hello, Goes, Puts
<1>2. Puts(link, link', c, m) /\ UNCHANGED <<pins, heard, userKey, drone, droneKey>>
  BY DEF Hello, Puts, droneVars
<1>3. Sound(c, l, "authorizing", heard[c], userKey[c], drone[c], droneKey[c]) /\ l \in Line
  BY <1>1, Kept DEF Sound
<1>4. /\ m = IF l.up THEN [up |-> TRUE, toDrone |-> Append(l.toDrone, HelloMsg),
                           toUser |-> l.toUser] ELSE l
      /\ m \in Line
  BY <1>3, Sending, Events, OwnAssumption
<1> HIDE DEF l, m
<1>5. Assured(c, "waiting", heard[c], userKey[c], drone[c], droneKey[c])
  BY <1>3 DEF Sound, Assured
<1>6. CASE l.up
  <2>1. l.toDrone = <<>> /\ l.toUser = <<>> /\ drone[c] = "none"
    BY <1>3, <1>6 DEF Sound, OnCourse
  <2>2. m.up /\ m.toDrone = <<HelloMsg>> /\ m.toUser = <<>>
    BY <1>4, <1>6, <2>1, SingleSeq
  <2>3. OnCourse(c, m, "waiting", drone[c])
    BY <2>1, <2>2 DEF OnCourse
  <2>4. Genuine(c, m, "waiting", userKey[c])
    BY <2>2, SingleSeq, Kinds DEF Genuine
  <2>5. Sound(c, m, "waiting", heard[c], userKey[c], drone[c], droneKey[c])
    BY <1>4, <1>5, <2>2, <2>3, <2>4 DEF Sound
  <2> QED
    BY <1>1, <1>2, <2>5, UserOnly
<1>7. CASE ~l.up
  <2>1. m = l
    BY <1>4, <1>7
  <2>2. Trailing(l, "waiting") /\ Genuine(c, l, "waiting", userKey[c])
    BY <1>3, <1>7 DEF Sound, Trailing, Genuine
  <2>3. Sound(c, m, "waiting", heard[c], userKey[c], drone[c], droneKey[c])
    BY <1>3, <1>5, <1>7, <2>1, <2>2 DEF Sound
  <2> QED
    BY <1>1, <1>2, <2>3, UserOnly
<1> QED
  BY <1>6, <1>7

\* Taking what is next for the user, whether or not a waiter hears it.
LEMMA UserTakes ==
  ASSUME NEW c \in Conn, NEW l, NEW us, NEW he, NEW uk, NEW dr, NEW dk,
         Sound(c, l, us, he, uk, dr, dk), l.toUser # <<>>,
         NEW m, m = TakenByUser(l), NEW h, h = Head(l.toUser)
  PROVE  IF us = "waiting" THEN Sound(c, m, "settled", h, uk, dr, dk)
                           ELSE Sound(c, m, us, he, uk, dr, dk)
<1>1. l \in Line
  BY DEF Sound
<1>2. m \in Line /\ m = [up |-> l.up, toDrone |-> l.toDrone, toUser |-> Tail(l.toUser)]
  BY <1>1, Taking
<1>3. m.up = l.up /\ m.toDrone = l.toDrone /\ m.toUser = Tail(l.toUser)
  BY <1>2
<1>4. /\ l.toUser \in Seq(Event) /\ Len(l.toUser) \in Nat /\ Len(l.toUser) >= 1
      /\ h = l.toUser[1] /\ 1 \in 1..Len(l.toUser)
      /\ \A n \in 1..Len(m.toUser) :
           n + 1 \in 1..Len(l.toUser) /\ n + 1 > 1 /\ m.toUser[n] = l.toUser[n + 1]
  <2>1. l.toUser \in Seq(Event)
    BY <1>1, LineFields
  <2>2. Len(l.toUser) \in Nat /\ Len(l.toUser) >= 1 /\ h = l.toUser[1]
    BY <2>1, TailOf
  <2> QED
    BY <1>3, <2>1, <2>2, TailOf
<1>5. \A n \in 1..Len(m.toUser) : m.toUser[n].kind = "finish" => m.toUser[n].mac = Key(c, Own)
  BY <1>4 DEF Sound, Genuine
<1>6. CASE us = "waiting"
  <2>1. h.kind = "finish" => h.mac = Key(c, Own)
    BY <1>4 DEF Sound, Genuine
  <2>2. Assured(c, "settled", h, uk, dr, dk)
    BY <1>6, <2>1 DEF Sound, Assured
  <2>3. Genuine(c, m, "settled", uk)
    BY <1>3, <1>5, <1>6 DEF Sound, Genuine
  <2>4. m.up => OnCourse(c, m, "settled", dr)
    <3> SUFFICES ASSUME m.up PROVE OnCourse(c, m, "settled", dr)
      OBVIOUS
    <3>1. dr = "pending" /\ l.toDrone = <<>> /\ l.toUser = <<Finish(Key(c, Own))>>
      BY <1>3, <1>6 DEF Sound, OnCourse
    <3>2. m.toUser = <<>>
      BY <1>3, <3>1, SingleSeq
    <3> QED
      BY <1>3, <3>1, <3>2 DEF OnCourse
  <2>5. ~m.up => Trailing(m, "settled")
    BY <1>3, <1>4 DEF Sound, Trailing
  <2> QED
    BY <1>2, <1>6, <2>2, <2>3, <2>4, <2>5 DEF Sound
<1>7. CASE us # "waiting"
  <2>1. ~l.up
    BY <1>7 DEF Sound, OnCourse
  <2>2. Trailing(m, us)
    BY <1>4, <2>1 DEF Sound, Trailing
  <2>3. Genuine(c, m, us, uk)
    BY <1>3, <1>5 DEF Sound, Genuine
  <2> QED
    BY <1>2, <1>3, <1>7, <2>1, <2>2, <2>3 DEF Sound
<1> QED
  BY <1>6, <1>7

LEMMA UserReceiveSound ==
  ASSUME IInv, NEW c \in Conn, UserReceive(c)
  PROVE  IInv'
<1>1. /\ link[c].toUser # <<>> /\ Puts(link, link', c, TakenByUser(link[c]))
      /\ UNCHANGED <<pins, userKey, drone, droneKey>>
  BY DEF UserReceive, Puts, droneVars
<1>2. CASE user[c] = "waiting"
  <2>1. Puts(user, user', c, "settled") /\ Puts(heard, heard', c, Head(link[c].toUser))
    BY <1>2 DEF UserReceive, Goes, Puts
  <2>2. Sound(c, TakenByUser(link[c]), "settled", Head(link[c].toUser), userKey[c], drone[c], droneKey[c])
    BY <1>1, <1>2, Kept, UserTakes
  <2>3. /\ Puts(userKey, userKey', c, userKey[c])
        /\ Puts(drone, drone', c, drone[c]) /\ Puts(droneKey, droneKey', c, droneKey[c])
    BY <1>1, Kept DEF Puts
  <2> QED
    BY <1>1, <2>1, <2>2, <2>3, Local
<1>3. CASE user[c] # "waiting"
  <2>1. UNCHANGED <<user, heard>>
    BY <1>3 DEF UserReceive
  <2>2. Sound(c, TakenByUser(link[c]), user[c], heard[c], userKey[c], drone[c], droneKey[c])
    BY <1>1, <1>3, Kept, UserTakes
  <2> QED
    BY <1>1, <2>1, <2>2, LineOnly
<1> QED
  BY <1>2, <1>3

LEMMA OpenSound ==
  ASSUME IInv, NEW c \in Conn, Open(c)
  PROVE  IInv'
<1> DEFINE l == link[c]
           k == Key(c, Own)
           m == ToDrone(link[c], AckMsg(Key(c, Own)))
<1>1. user[c] = "settled" /\ Puts(user, user', c, "open") /\ Convinced(c)
  BY DEF Open, Goes, Puts
<1>2. Sound(c, l, "settled", heard[c], userKey[c], drone[c], droneKey[c]) /\ l \in Line
  BY <1>1, Kept DEF Sound
<1>3. pin[c] = Own
  <2>1. Key(c, pin[c]) = Key(c, Own)
    BY <1>1, <1>2 DEF Convinced, Confirmed, Sound, Assured
  <2> QED
    BY <2>1, Keyed
<1>4. /\ Puts(userKey, userKey', c, k) /\ Puts(link, link', c, m)
      /\ UNCHANGED <<pins, heard, drone, droneKey>>
  BY <1>3 DEF Open, Puts, droneVars
<1>5. /\ m = IF l.up THEN [up |-> TRUE, toDrone |-> Append(l.toDrone, AckMsg(k)),
                           toUser |-> l.toUser] ELSE l
      /\ m \in Line
  BY <1>2, Sending, Events, OwnAssumption
<1> HIDE DEF l, m
<1>6. Assured(c, "open", heard[c], k, drone[c], droneKey[c])
  BY <1>2, <1>3 DEF Sound, Assured
<1>7. Sound(c, m, "open", heard[c], k, drone[c], droneKey[c])
  <2>1. CASE l.up
    <3>1. l.toDrone = <<>> /\ l.toUser = <<>> /\ drone[c] = "pending"
      BY <1>2, <2>1 DEF Sound, OnCourse
    <3>2. m.up /\ m.toDrone = <<AckMsg(k)>> /\ m.toUser = <<>>
      BY <1>5, <2>1, <3>1, SingleSeq
    <3>3. OnCourse(c, m, "open", drone[c])
      BY <3>1, <3>2 DEF OnCourse
    <3>4. Genuine(c, m, "open", k)
      <4>1. \A n \in 1..Len(<<AckMsg(k)>>) : <<AckMsg(k)>>[n] = AckMsg(k)
        BY SingleSeq
      <4>2. \A n \in 1..Len(m.toDrone) : m.toDrone[n].mac = k
        BY <3>2, <4>1, Kinds
      <4>3. 1..Len(m.toUser) = {}
        BY <3>2, SingleSeq
      <4> QED
        BY <4>2, <4>3 DEF Genuine
    <3> QED
      BY <1>5, <1>6, <3>2, <3>3, <3>4 DEF Sound
  <2>2. CASE ~l.up
    <3>1. m = l
      BY <1>5, <2>2
    <3>2. Trailing(l, "open") /\ Genuine(c, l, "open", k)
      BY <1>2, <2>2 DEF Sound, Trailing, Genuine
    <3> QED
      BY <1>2, <1>6, <2>2, <3>1, <3>2 DEF Sound
  <2> QED
    BY <2>1, <2>2
<1>8. /\ Puts(heard, heard', c, heard[c])
      /\ Puts(drone, drone', c, drone[c]) /\ Puts(droneKey, droneKey', c, droneKey[c])
  BY <1>4, Kept DEF Puts
<1> QED
  BY <1>1, <1>4, <1>7, <1>8, Local

LEMMA FailSound ==
  ASSUME IInv, NEW c \in Conn, Fail(c)
  PROVE  IInv'
<1>1. user[c] = "settled" /\ Puts(user, user', c, "failed")
  BY DEF Fail, Goes, Puts
<1>2. Puts(link, link', c, Shut(link[c])) /\ UNCHANGED <<pins, heard, userKey, drone, droneKey>>
  BY DEF Fail, GivenUp, Puts, droneVars
<1>3. /\ Sound(c, Shut(link[c]), "settled", heard[c], userKey[c], drone[c], droneKey[c])
      /\ ~Shut(link[c]).up
  BY <1>1, Kept, SoundShut
<1>4. Sound(c, Shut(link[c]), "failed", heard[c], userKey[c], drone[c], droneKey[c])
  BY <1>3, GivenUpSound
<1> QED
  BY <1>1, <1>2, <1>4, UserOnly

-----------------------------------------------------------------------------
(* The drone's steps. *)

LEMMA DroneOnly ==
  ASSUME IInv, NEW c \in Conn, NEW l, NEW dr, NEW dk, Puts(link, link', c, l),
         Puts(drone, drone', c, dr), Puts(droneKey, droneKey', c, dk),
         UNCHANGED <<pins, user, heard, userKey>>,
         Sound(c, l, user[c], heard[c], userKey[c], dr, dk)
  PROVE  IInv'
<1>1. /\ Puts(user, user', c, user[c]) /\ Puts(heard, heard', c, heard[c])
      /\ Puts(userKey, userKey', c, userKey[c])
  BY Kept DEF Puts
<1> QED
  BY <1>1, Local

\* A message got: it is the head of a line that carries events.
LEMMA Got ==
  ASSUME IInv, NEW c \in Conn, NEW kind, Gets(c, kind)
  PROVE  /\ link[c] \in Line /\ link[c].toDrone # <<>> /\ 1 \in 1..Len(link[c].toDrone)
         /\ Head(link[c].toDrone) = link[c].toDrone[1] /\ link[c].toDrone[1].kind = kind
<1>1. link[c] \in Line
  BY Kept DEF Sound
<1>2. link[c].toDrone \in Seq(Event)
  BY <1>1, LineFields
<1>3. Len(link[c].toDrone) \in Nat /\ Len(link[c].toDrone) >= 1
      /\ Head(link[c].toDrone) = link[c].toDrone[1]
  BY <1>2, TailOf DEF Gets
<1> QED
  BY <1>1, <1>3 DEF Gets

\* On a live line the drone gets a hello or a fitting ack, and nothing else.
LEMMA GotAlive ==
  ASSUME IInv, NEW c \in Conn, NEW kind, Gets(c, kind), link[c].up
  PROVE  /\ link[c].toUser = <<>>
         /\ \/ /\ kind = "hello" /\ user[c] = "waiting" /\ drone[c] = "none"
               /\ link[c].toDrone = <<HelloMsg>>
            \/ /\ kind = "ack" /\ user[c] = "open" /\ drone[c] = "pending"
               /\ link[c].toDrone = <<AckMsg(Key(c, Own))>> /\ AckFits(c)
<1> DEFINE l == link[c]
<1>1. OnCourse(c, l, user[c], drone[c]) /\ Assured(c, user[c], heard[c], userKey[c], drone[c], droneKey[c])
  BY Kept DEF Sound
<1>2. l.toDrone # <<>> /\ Head(l.toDrone).kind = kind
  BY DEF Gets
<1> HIDE DEF l
<1>3. \/ l.toDrone = <<HelloMsg>> \/ l.toDrone = <<AckMsg(Key(c, Own))>>
  BY <1>1, <1>2 DEF OnCourse
<1>4. CASE l.toDrone = <<HelloMsg>>
  <2>1. Head(l.toDrone) = HelloMsg
    BY <1>4, SingleSeq
  <2>2. kind = "hello"
    BY <1>2, <2>1, Kinds
  <2>3. l.toDrone # <<AckMsg(Key(c, Own))>>
    BY <2>1, Kinds, SingleSeq
  <2>4. user[c] = "waiting" /\ drone[c] = "none" /\ l.toUser = <<>>
    BY <1>1, <1>2, <2>3 DEF OnCourse
  <2> QED
    BY <1>4, <2>2, <2>4 DEF l
<1>5. CASE l.toDrone = <<AckMsg(Key(c, Own))>>
  <2>1. Head(l.toDrone) = AckMsg(Key(c, Own))
    BY <1>5, SingleSeq
  <2>2. kind = "ack" /\ Head(l.toDrone).mac = Key(c, Own)
    BY <1>2, <2>1, Kinds
  <2>3. l.toDrone # <<HelloMsg>>
    BY <2>1, Kinds, SingleSeq
  <2>4. user[c] = "open" /\ drone[c] = "pending" /\ l.toUser = <<>>
    BY <1>1, <1>2, <2>3 DEF OnCourse
  <2>5. droneKey[c] = Key(c, Own)
    BY <1>1, <2>4 DEF Assured
  <2>6. AckFits(c)
    BY <2>2, <2>4, <2>5 DEF AckFits, l
  <2> QED
    BY <1>5, <2>2, <2>4, <2>6 DEF l
<1> QED
  BY <1>3, <1>4, <1>5

\* On a dead line the error and the close of an abort go nowhere.
LEMMA AbortedDead ==
  ASSUME NEW l \in Line, ~l.up
  PROVE  Aborted(l) = Shut(l)
<1>1. Error \in Event
  BY DEF Event
<1>2. ToUser(l, Error) = l
  BY <1>1, Sending
<1> QED
  BY <1>2 DEF Aborted

LEMMA RefuseSound ==
  ASSUME IInv, NEW c \in Conn, Refuse(c)
  PROVE  IInv'
<1> DEFINE l == link[c]
           t == TakenByDrone(link[c])
           a == ToUser(TakenByDrone(link[c]), Error)
           m == Aborted(TakenByDrone(link[c]))
<1>1. Gets(c, "hello") /\ Puts(link, link', c, m)
      /\ UNCHANGED <<pins, user, heard, userKey, drone, droneKey>>
  BY DEF Refuse, Puts, droneVars
<1>2. /\ Sound(c, l, user[c], heard[c], userKey[c], drone[c], droneKey[c])
      /\ l \in Line /\ l.toDrone # <<>>
  BY <1>1, Kept, Got
<1>3. t \in Line /\ t = [up |-> l.up, toDrone |-> Tail(l.toDrone), toUser |-> l.toUser]
  BY <1>2, Taking
<1>4. CASE ~l.up
  <2>1. Sound(c, t, user[c], heard[c], userKey[c], drone[c], droneKey[c]) /\ ~t.up
    BY <1>2, <1>4, SoundTaken
  <2>2. m = Shut(t)
    BY <1>3, <2>1, AbortedDead
  <2>3. Sound(c, m, user[c], heard[c], userKey[c], drone[c], droneKey[c])
    BY <2>1, <2>2, SoundShut
  <2> QED
    BY <1>1, <2>3, LineOnly
<1>5. CASE l.up
  <2>1. /\ user[c] = "waiting" /\ drone[c] = "none"
        /\ l.toUser = <<>> /\ l.toDrone = <<HelloMsg>>
    BY <1>1, <1>5, GotAlive
  <2>2. Error \in Event /\ Closed \in Event
    BY DEF Event
  <2>3. a \in Line /\ a = IF t.up THEN [up |-> TRUE, toDrone |-> t.toDrone,
                                        toUser |-> Append(t.toUser, Error)] ELSE t
    BY <1>3, <2>2, Sending
  <2>4. m = Shut(a)
    BY DEF Aborted
  <2> HIDE DEF l, t, a, m
  <2>5. t.up /\ t.toDrone = <<>> /\ t.toUser = <<>>
    BY <1>3, <1>5, <2>1, SingleSeq
  <2>6. a.up /\ a.toDrone = <<>> /\ a.toUser = <<Error>>
    BY <2>3, <2>5, SingleSeq
  <2>7. /\ m \in Line /\ ~m.up /\ m.toDrone = <<Closed>> /\ m.toUser = Append(<<Error>>, Closed)
    <3>1. a \in Line
      BY <2>3
    <3>2. m \in Line /\ m = [up |-> FALSE, toDrone |-> Append(<<>>, Closed),
                             toUser |-> Append(<<Error>>, Closed)]
      BY <2>4, <2>6, <3>1, Shutting
    <3>3. Append(<<>>, Closed) = <<Closed>>
      BY SingleSeq
    <3> QED
      BY <3>2, <3>3
  <2>8. /\ \A n \in 1..Len(m.toUser) : m.toUser[n] \in {Error, Closed} /\ (n > 1 => m.toUser[n] = Closed)
        /\ \A n \in 1..Len(m.toDrone) : m.toDrone[n] = Closed
    <3>1. /\ \A n \in 1..Len(Append(<<Error>>, Closed)) :
               /\ Append(<<Error>>, Closed)[n] \in {Error, Closed}
               /\ n > 1 => Append(<<Error>>, Closed)[n] = Closed
          /\ \A n \in 1..Len(<<Closed>>) : <<Closed>>[n] = Closed
      OBVIOUS
    <3> QED
      BY <2>7, <3>1
  <2>9. Trailing(m, user[c]) /\ Genuine(c, m, user[c], userKey[c])
    BY <2>1, <2>8, Kinds DEF Trailing, Genuine
  <2>10. Sound(c, m, user[c], heard[c], userKey[c], drone[c], droneKey[c])
    BY <1>2, <2>7, <2>9 DEF Sound
  <2> QED
    BY <1>1, <2>10, LineOnly DEF m
<1> QED
  BY <1>4, <1>5

LEMMA AckSound ==
  ASSUME IInv, NEW c \in Conn, Ack(c)
  PROVE  IInv'
<1> DEFINE l == link[c]
           t == TakenByDrone(link[c])
<1>1. /\ Gets(c, "ack") /\ AckFits(c)
      /\ Puts(link, link', c, t) /\ Puts(drone, drone', c, "open")
      /\ UNCHANGED <<pins, user, heard, userKey, droneKey>>
  BY DEF Ack, Puts
<1>2. /\ Sound(c, l, user[c], heard[c], userKey[c], drone[c], droneKey[c])
      /\ l \in Line /\ l.toDrone # <<>>
      /\ 1 \in 1..Len(l.toDrone) /\ l.toDrone[1].kind = "ack"
  BY <1>1, Kept, Got
<1>3. t \in Line /\ t = [up |-> l.up, toDrone |-> Tail(l.toDrone), toUser |-> l.toUser]
  BY <1>2, Taking
<1>4. drone[c] = "pending" /\ user[c] = "open"
  BY <1>1, <1>2 DEF AckFits, Sound, Genuine
<1>5. Puts(droneKey, droneKey', c, droneKey[c])
  BY <1>1, Kept DEF Puts
<1>6. Assured(c, user[c], heard[c], userKey[c], "open", droneKey[c])
  BY <1>2, <1>4 DEF Sound, Assured
<1>7. CASE ~l.up
  <2>1. Sound(c, t, user[c], heard[c], userKey[c], drone[c], droneKey[c]) /\ ~t.up
    BY <1>2, <1>7, SoundTaken
  <2> HIDE DEF t
  <2>2. Sound(c, t, user[c], heard[c], userKey[c], "open", droneKey[c])
    BY <1>6, <2>1 DEF Sound
  <2> QED
    BY <1>1, <1>5, <2>2, DroneOnly DEF t
<1>8. CASE l.up
  <2>1. l.toUser = <<>> /\ l.toDrone = <<AckMsg(Key(c, Own))>>
    BY <1>1, <1>4, <1>8, GotAlive
  <2>2. t.up /\ t.toDrone = <<>> /\ t.toUser = <<>>
    BY <1>3, <1>8, <2>1, SingleSeq
  <2> HIDE DEF t
  <2>3. OnCourse(c, t, user[c], "open")
    BY <1>4, <2>2 DEF OnCourse
  <2>4. Genuine(c, t, user[c], userKey[c])
    BY <2>2, SingleSeq DEF Genuine
  <2>5. Sound(c, t, user[c], heard[c], userKey[c], "open", droneKey[c])
    BY <1>3, <1>6, <2>2, <2>3, <2>4 DEF Sound, t
  <2> QED
    BY <1>1, <1>5, <2>5, DroneOnly DEF t
<1> QED
  BY <1>7, <1>8

LEMMA AckRefusedSound ==
  ASSUME IInv, NEW c \in Conn, AckRefused(c)
  PROVE  IInv'
<1> DEFINE l == link[c]
           t == TakenByDrone(link[c])
           m == Aborted(TakenByDrone(link[c]))
<1>1. /\ Gets(c, "ack") /\ ~AckFits(c)
      /\ Puts(link, link', c, m) /\ UNCHANGED <<pins, user, heard, userKey>>
      /\ \/ Puts(drone, drone', c, "none") /\ Puts(droneKey, droneKey', c, NoKey)
         \/ UNCHANGED <<drone, droneKey>>
  BY DEF AckRefused, Wiped, droneVars, Puts
<1>2. ~l.up
  BY <1>1, GotAlive
<1>3. /\ Sound(c, l, user[c], heard[c], userKey[c], drone[c], droneKey[c])
      /\ l \in Line /\ l.toDrone # <<>>
  BY <1>1, Kept, Got
<1>4. Sound(c, t, user[c], heard[c], userKey[c], drone[c], droneKey[c]) /\ ~t.up /\ t \in Line
  BY <1>2, <1>3, SoundTaken, Taking
<1>5. m = Shut(t)
  BY <1>4, AbortedDead
<1>6. Sound(c, m, user[c], heard[c], userKey[c], drone[c], droneKey[c]) /\ ~m.up
  BY <1>4, <1>5, SoundShut
<1>7. Sound(c, m, user[c], heard[c], userKey[c], "none", NoKey)
  BY <1>6, SoundForgotten
<1>8. CASE UNCHANGED <<drone, droneKey>>
  BY <1>1, <1>6, <1>8, LineOnly
<1>9. CASE Puts(drone, drone', c, "none") /\ Puts(droneKey, droneKey', c, NoKey)
  BY <1>1, <1>7, <1>9, DroneOnly
<1> QED
  BY <1>1, <1>8, <1>9

LEMMA DisposeSound ==
  ASSUME IInv, NEW c \in Conn, Dispose(c)
  PROVE  IInv'
<1> DEFINE l == link[c]
           t == TakenByDrone(link[c])
<1>1. /\ Gets(c, "close")
      /\ Puts(link, link', c, t) /\ UNCHANGED <<pins, user, heard, userKey>>
      /\ Puts(drone, drone', c, "none") /\ Puts(droneKey, droneKey', c, NoKey)
  BY DEF Dispose, Wiped, Puts
<1>2. ~l.up
  BY <1>1, GotAlive
<1>3. /\ Sound(c, l, user[c], heard[c], userKey[c], drone[c], droneKey[c])
      /\ l \in Line /\ l.toDrone # <<>>
  BY <1>1, Kept, Got
<1>4. Sound(c, t, user[c], heard[c], userKey[c], drone[c], droneKey[c]) /\ ~t.up
  BY <1>2, <1>3, SoundTaken
<1>5. Sound(c, t, user[c], heard[c], userKey[c], "none", NoKey)
  BY <1>4, SoundForgotten
<1> QED
  BY <1>1, <1>5, DroneOnly

\* Accepting: the line answered and the handshake pending ...
LEMMA AnsweredSound ==
  ASSUME IInv, NEW c \in Conn, Accept(c),
         NEW l, l = Answered(c, link[c])
  PROVE  Sound(c, l, user[c], heard[c], userKey[c], "pending", Key(c, Own))
<1> DEFINE k == link[c]
           t == TakenByDrone(link[c])
           f == Finish(Key(c, Own))
<1>1. Gets(c, "hello") /\ c \in known
  BY DEF Accept, MayAccept
<1>2. /\ Sound(c, k, user[c], heard[c], userKey[c], drone[c], droneKey[c])
      /\ k \in Line /\ k.toDrone # <<>>
  BY <1>1, Kept, Got
<1>3. t \in Line /\ t = [up |-> k.up, toDrone |-> Tail(k.toDrone), toUser |-> k.toUser]
  BY <1>2, Taking
<1>4. Assured(c, user[c], heard[c], userKey[c], "pending", Key(c, Own))
  BY <1>1, <1>2 DEF Sound, Assured
<1>5. l \in Line /\ l = IF t.up THEN [up |-> TRUE, toDrone |-> t.toDrone,
                                      toUser |-> Append(t.toUser, f)] ELSE t
  BY <1>3, Sending, Events, OwnAssumption DEF Answered
<1>6. CASE ~k.up
  <2>1. Sound(c, t, user[c], heard[c], userKey[c], drone[c], droneKey[c]) /\ ~t.up
    BY <1>2, <1>6, SoundTaken
  <2> HIDE DEF t
  <2>2. l = t
    BY <1>5, <2>1
  <2> QED
    BY <1>4, <2>1, <2>2 DEF Sound
<1>7. CASE k.up
  <2>1. user[c] = "waiting" /\ k.toUser = <<>> /\ k.toDrone = <<HelloMsg>>
    BY <1>1, <1>7, GotAlive
  <2>2. t.up /\ t.toDrone = <<>> /\ t.toUser = <<>>
    BY <1>3, <1>7, <2>1, SingleSeq
  <2> HIDE DEF t
  <2>3. l.up /\ l.toDrone = <<>> /\ l.toUser = <<f>>
    BY <1>5, <2>2, SingleSeq
  <2>4. OnCourse(c, l, user[c], "pending")
    BY <2>1, <2>3 DEF OnCourse
  <2>5. Genuine(c, l, user[c], userKey[c])
    <3>1. \A n \in 1..Len(<<f>>) : <<f>>[n] = f
      BY SingleSeq
    <3>2. \A n \in 1..Len(l.toUser) : l.toUser[n].mac = Key(c, Own)
      BY <2>3, <3>1, Kinds
    <3>3. 1..Len(l.toDrone) = {}
      BY <2>3, SingleSeq
    <3> QED
      BY <3>2, <3>3 DEF Genuine
  <2> QED
    BY <1>4, <1>5, <2>3, <2>4, <2>5 DEF Sound
<1> QED
  BY <1>6, <1>7

\* ... while the evicted handshakes lose their links.
LEMMA AcceptSound ==
  ASSUME IInv, NEW c \in Conn, Accept(c)
  PROVE  IInv'
<1>1. /\ link' = [o \in Conn |-> IF o = c THEN Answered(c, link[c])
                                 ELSE IF o \in Victims THEN Evicted(link[o]) ELSE link[o]]
      /\ drone' = [o \in Conn |-> IF o = c THEN "pending"
                                  ELSE IF o \in Victims THEN "none" ELSE drone[o]]
      /\ droneKey' = [o \in Conn |-> IF o = c THEN Key(c, Own)
                                     ELSE IF o \in Victims THEN NoKey ELSE droneKey[o]]
      /\ UNCHANGED <<pins, user, heard, userKey>>
  BY DEF Accept
<1>2. Arrays'
  <2>1. IsArray(link)' /\ IsArray(drone)' /\ IsArray(droneKey)'
    BY <1>1 DEF IsArray
  <2>2. IsArray(user)' /\ IsArray(heard)' /\ IsArray(userKey)'
    BY <1>1 DEF IInv, Arrays, IsArray
  <2> QED
    BY <1>1, <2>1, <2>2 DEF IInv, Arrays, pins
<1>3. SoundAt(c)'
  <2>1. link'[c] = Answered(c, link[c]) /\ drone'[c] = "pending" /\ droneKey'[c] = Key(c, Own)
    <3>1. link'[c] = Answered(c, link[c])
      BY <1>1
    <3>2. drone'[c] = "pending"
      BY <1>1
    <3>3. droneKey'[c] = Key(c, Own)
      BY <1>1
    <3> QED
      BY <3>1, <3>2, <3>3
  <2>2. Sound(c, Answered(c, link[c]), user[c], heard[c], userKey[c], "pending", Key(c, Own))
    BY AnsweredSound
  <2>3. ASSUME NEW l, l = Answered(c, link[c]), NEW us, us = user[c], NEW he, he = heard[c],
               NEW uk, uk = userKey[c], NEW dk, dk = Key(c, Own)
        PROVE  SoundAt(c)'
    <3>1. Sound(c, l, us, he, uk, "pending", dk)'
      BY <1>1, <2>2, <2>3, Repinned
    <3>2. /\ link'[c] = l /\ drone'[c] = "pending" /\ droneKey'[c] = dk
          /\ user'[c] = us /\ heard'[c] = he /\ userKey'[c] = uk
      BY <1>1, <2>1, <2>3
    <3> QED
      BY <3>1, <3>2 DEF SoundAt
  <2> QED
    BY <2>3
<1>4. ASSUME NEW o \in Conn, o # c PROVE SoundAt(o)'
  <2>1. Sound(o, link[o], user[o], heard[o], userKey[o], drone[o], droneKey[o])
    BY Kept
  <2>2. CASE o \in Victims
    <3>1. link'[o] = Shut(link[o]) /\ drone'[o] = "none" /\ droneKey'[o] = NoKey
      BY <1>1, <1>4, <2>2 DEF Evicted
    <3>2. Sound(o, Shut(link[o]), user[o], heard[o], userKey[o], "none", NoKey)
      BY <2>1, SoundShut, SoundForgotten
    <3> QED
      BY <1>1, <3>1, <3>2, Repinned DEF SoundAt
  <2>3. CASE o \notin Victims
    <3>1. link'[o] = link[o] /\ drone'[o] = drone[o] /\ droneKey'[o] = droneKey[o]
      BY <1>1, <1>4, <2>3
    <3> QED
      BY <1>1, <2>1, <3>1, Repinned DEF SoundAt
  <2> QED
    BY <2>2, <2>3
<1> QED
  BY <1>2, <1>3, <1>4 DEF IInv

LEMMA NextSound == IInv /\ [Next]_vars => IInv'
<1> SUFFICES ASSUME IInv, [Next]_vars PROVE IInv'
  OBVIOUS
<1>1. CASE UNCHANGED vars
  <2>1. UNCHANGED <<pins, link, user, heard, userKey, drone, droneKey>>
    BY <1>1 DEF vars, droneVars
  <2>2. Arrays'
    BY <2>1 DEF IInv, Arrays, IsArray, pins
  <2>3. ASSUME NEW c \in Conn PROVE SoundAt(c)'
    <3>1. Sound(c, link[c], user[c], heard[c], userKey[c], drone[c], droneKey[c])
      BY Kept
    <3> QED
      BY <2>1, <3>1, Repinned DEF SoundAt
  <2> QED
    BY <2>2, <2>3 DEF IInv
<1>2. CASE Next
  BY <1>2, LoseSound, AppCloseSound, StartSound, BadTokenSound, HelloSound, UserReceiveSound,
     OpenSound, FailSound, RefuseSound, AcceptSound, AckSound, AckRefusedSound, DisposeSound
     DEF Next, Continue, DroneReceive
<1> QED
  BY <1>1, <1>2

LEMMA AlwaysSound == Spec => []IInv
  BY InitSound, NextSound, PTL DEF Spec

-----------------------------------------------------------------------------
\* runUserHandshake resolves only against a drone that holds the pinned key, and
\* handleAck opens a session only for a user who has one under the same keys.
THEOREM MutualAuthenticationHolds == Spec => []MutualAuthentication
<1>1. IInv => MutualAuthentication
  <2> SUFFICES ASSUME IInv, NEW c \in Conn
               PROVE  /\ user[c] = "open" => pin[c] = Own
                      /\ drone[c] = "open" => /\ c \in known /\ user[c] = "open"
                                              /\ droneKey[c] = userKey[c]
    BY DEF MutualAuthentication
  <2>1. Assured(c, user[c], heard[c], userKey[c], drone[c], droneKey[c])
    BY Kept DEF Sound
  <2> QED
    BY <2>1 DEF Assured
<1> QED
  BY <1>1, AlwaysSound, PTL

\* Whatever is evicted meanwhile, a user's session without its drone's is one on
\* a link that has been closed.
THEOREM AloneOnlyWhenClosedHolds == Spec => []AloneOnlyWhenClosed
<1>1. IInv => AloneOnlyWhenClosed
  <2> SUFFICES ASSUME IInv, NEW c \in Conn, user[c] = "open", link[c].up
               PROVE  /\ drone[c] # "none"
                      /\ link[c].toDrone = <<>> => drone[c] = "open"
    BY DEF AloneOnlyWhenClosed
  <2>1. OnCourse(c, link[c], "open", drone[c])
    BY Kept DEF Sound
  <2> QED
    BY <2>1, SingleSeq DEF OnCourse
<1> QED
  BY <1>1, AlwaysSound, PTL

\* No message of the drone falls between nextMessage()'s one-shot listener and
\* the session's own: after the settled waiter only a close event is under way.
THEOREM NothingUnheardHolds == Spec => []NothingUnheard
<1>1. IInv => NothingUnheard
  <2> SUFFICES ASSUME IInv, NEW c \in Conn, user[c] = "settled"
               PROVE  ToSet(link[c].toUser) \subseteq {Closed}
    BY DEF NothingUnheard
  <2> DEFINE l == link[c]
  <2>1. Sound(c, l, "settled", heard[c], userKey[c], drone[c], droneKey[c])
    BY Kept
  <2>2. l.toUser \in Seq(Event)
    BY <2>1, LineFields DEF Sound
  <2>3. \A n \in 1..Len(l.toUser) : l.toUser[n] = Closed
    <3>1. CASE l.up
      <4>1. l.toUser = <<>>
        BY <2>1, <3>1 DEF Sound, OnCourse
      <4> QED
        BY <4>1, SingleSeq
    <3>2. CASE ~l.up
      BY <2>1, <3>2 DEF Sound, Trailing
    <3> QED
      BY <3>1, <3>2
  <2> QED
    BY <2>2, <2>3 DEF ToSet
<1> QED
  BY <1>1, AlwaysSound, PTL

-----------------------------------------------------------------------------
(* Types.  The registry shrinks by one place at a time, so that it never holds *)
(* more than its bound.                                                        *)

Typed(l, u, h, uk, d, dk) ==
  /\ l \in [Conn -> Line]
  /\ u \in [Conn -> {"idle", "authorizing", "waiting", "settled", "open", "failed"}]
  /\ h \in [Conn -> Event] /\ uk \in [Conn -> Keys]
  /\ d \in [Conn -> {"none", "pending", "open"}] /\ dk \in [Conn -> Keys]

Registry(s) == s \in Seq(Conn) /\ Len(s) <= MaxPending

LEMMA Parts ==
  TypeOK <=> /\ pin \in [Conn -> Static] /\ record \in Static /\ known \subseteq Conn
             /\ Typed(link, user, heard, userKey, drone, droneKey) /\ Registry(halfOpen)
  BY DEF TypeOK, Typed, Registry, Line

LEMMA WithoutOne ==
  ASSUME NEW s \in Seq(Conn), NEW c \in Conn
  PROVE  /\ Without(s, c) \in Seq(Conn) /\ Len(Without(s, c)) <= Len(s)
         /\ Len(s) \in Nat
<1> DEFINE i == CHOOSE i \in DOMAIN s : s[i] = c
<1>1. CASE c \in ToSet(s)
  <2>1. i \in 1..Len(s)
    BY <1>1 DEF ToSet
  <2>2. Without(s, c) = SubSeq(s, 1, i - 1) \o SubSeq(s, i + 1, Len(s))
    BY <1>1 DEF Without, RemoveAt
  <2> HIDE DEF i
  <2>3. /\ SubSeq(s, 1, i - 1) \in Seq(Conn) /\ Len(SubSeq(s, 1, i - 1)) = i - 1
        /\ SubSeq(s, i + 1, Len(s)) \in Seq(Conn) /\ Len(SubSeq(s, i + 1, Len(s))) = Len(s) - i
    BY <2>1
  <2>4. ASSUME NEW a \in Seq(Conn), NEW b \in Seq(Conn)
        PROVE  a \o b \in Seq(Conn) /\ Len(a \o b) = Len(a) + Len(b)
    OBVIOUS
  <2>5. Without(s, c) \in Seq(Conn) /\ Len(Without(s, c)) = (i - 1) + (Len(s) - i)
    BY <2>2, <2>3, <2>4, Zenon
  <2> QED
    BY <2>1, <2>5
<1>2. CASE c \notin ToSet(s)
  BY <1>2 DEF Without
<1> QED
  BY <1>1, <1>2

LEMMA Admitting ==
  ASSUME Registry(halfOpen), NEW c \in Conn
  PROVE  Registry(Append(Evicting, c))
<1>1. halfOpen \in Seq(Conn) /\ Len(halfOpen) \in Nat /\ Len(halfOpen) <= MaxPending
      /\ MaxPending \in Nat \ {0}
  BY PendingAssumption DEF Registry
<1>2. CASE Len(halfOpen) >= MaxPending
  <2>1. halfOpen # <<>> /\ Evicting = Tail(halfOpen)
    BY <1>1, <1>2 DEF Evicting, Victims
  <2>2. Tail(halfOpen) \in Seq(Conn) /\ Len(Tail(halfOpen)) = Len(halfOpen) - 1
    BY <1>1, <2>1
  <2> QED
    BY <1>1, <2>1, <2>2 DEF Registry
<1>3. CASE ~(Len(halfOpen) >= MaxPending)
  <2>1. Evicting = halfOpen
    BY <1>3 DEF Evicting, Victims
  <2> QED
    BY <1>1, <1>3, <2>1 DEF Registry
<1> QED
  BY <1>2, <1>3

\* Every message there is, on every line it is put on, is an event.
LEMMA LineSteps ==
  ASSUME NEW l \in Line, NEW c \in Conn, NEW s \in Static
  PROVE  /\ Shut(l) \in Line /\ Evicted(l) \in Line /\ GivenUp(l) \in Line
         /\ Aborted(l) \in Line
         /\ ToDrone(l, HelloMsg) \in Line /\ ToDrone(l, AckMsg(Key(c, s))) \in Line
         /\ ToUser(l, Finish(Key(c, s))) \in Line
         /\ [up |-> FALSE, toDrone |-> <<Closed>>, toUser |-> <<Closed>>] \in Line
<1>1. /\ HelloMsg \in Event /\ Error \in Event /\ Closed \in Event
      /\ Finish(Key(c, s)) \in Event /\ AckMsg(Key(c, s)) \in Event
  BY Events
<1>2. ToUser(l, Error) \in Line
  BY <1>1, Sending
<1>3. Shut(l) \in Line /\ Shut(ToUser(l, Error)) \in Line
  BY <1>2, Shutting
<1>4. <<Closed>> \in Seq(Event)
  BY <1>1
<1>5. [up |-> FALSE, toDrone |-> <<Closed>>, toUser |-> <<Closed>>] \in Line
  BY <1>4, LineMade
<1>6. /\ ToDrone(l, HelloMsg) \in Line /\ ToDrone(l, AckMsg(Key(c, s))) \in Line
      /\ ToUser(l, Finish(Key(c, s))) \in Line
  BY <1>1, Sending
<1> QED
  BY <1>3, <1>5, <1>6 DEF Evicted, GivenUp, Aborted

LEMMA TypeInit == Init => TypeOK
<1> SUFFICES ASSUME Init PROVE TypeOK
  OBVIOUS
<1>1. <<>> \in Seq(Event) /\ <<>> \in Seq(Conn) /\ Len(<<>>) = 0
  OBVIOUS
<1>2. [up |-> TRUE, toDrone |-> <<>>, toUser |-> <<>>] \in Line
  BY <1>1, LineMade
<1>3. Closed \in Event /\ NoKey \in Keys
  BY DEF Event, Keys
<1>4. Typed(link, user, heard, userKey, drone, droneKey)
  BY <1>2, <1>3 DEF Init, Typed
<1>5. Registry(halfOpen)
  BY <1>1, PendingAssumption DEF Init, Registry
<1> QED
  BY <1>4, <1>5, Parts DEF Init

LEMMA TypeNext == TypeOK /\ [Next]_vars => TypeOK'
<1> SUFFICES ASSUME TypeOK, [Next]_vars PROVE TypeOK'
  OBVIOUS
<1> DEFINE T == Typed(link, user, heard, userKey, drone, droneKey)
<1>1. /\ pin \in [Conn -> Static] /\ record \in Static /\ known \subseteq Conn
      /\ T /\ Registry(halfOpen)
  BY Parts
<1>2. SUFFICES pins' = pins /\ T' /\ Registry(halfOpen)'
  BY <1>1 DEF pins, TypeOK, Typed, Registry, Line
<1>3. CASE UNCHANGED vars
  BY <1>1, <1>3 DEF vars, droneVars, Typed, Registry
<1>4. ASSUME NEW c \in Conn PROVE link[c] \in Line
  BY <1>1 DEF Typed
<1>5. ASSUME NEW c \in Conn
      PROVE  /\ link[c].toUser # <<>> => TakenByUser(link[c]) \in Line
             /\ link[c].toUser # <<>> => Head(link[c].toUser) \in Event
             /\ link[c].toDrone # <<>> => TakenByDrone(link[c]) \in Line
  BY <1>4, Taking, LineFields, TailOf
<1>6. ASSUME NEW c \in Conn, NEW s \in Static
      PROVE  Key(c, s) \in Keys /\ NoKey \in Keys
  BY DEF Key, Keys
<1>7. CASE Next
  <2> PICK c \in Conn :
        \/ Lose(c) \/ AppClose(c)
        \/ Start(c) \/ Rejected(c) \/ BadToken(c) \/ Hello(c)
        \/ UserReceive(c) \/ Open(c) \/ Fail(c)
        \/ Refuse(c) \/ Accept(c) \/ Ack(c) \/ AckRefused(c) \/ Dispose(c)
    BY <1>7 DEF Next, Continue, DroneReceive
  <2>0. pin[c] \in Static /\ Own \in Static /\ link[c] \in Line
    BY <1>1, <1>4, OwnAssumption
  <2>1. CASE Lose(c)
    BY <1>1, <2>0, <2>1, LineSteps DEF Lose, Typed, droneVars, Registry
  <2>2. CASE AppClose(c)
    BY <1>1, <2>0, <2>2, LineSteps DEF AppClose, Typed, droneVars, Registry
  <2>3. CASE Start(c) \/ Rejected(c)
    BY <1>1, <2>3 DEF Start, Rejected, Goes, Typed, droneVars, Registry
  <2>4. CASE BadToken(c)
    BY <1>1, <2>0, <2>4, LineSteps DEF BadToken, Goes, Typed, droneVars, Registry
  <2>5. CASE Hello(c)
    BY <1>1, <2>0, <2>5, LineSteps DEF Hello, Goes, Typed, droneVars, Registry
  <2>6. CASE UserReceive(c)
    BY <1>1, <1>5, <2>6 DEF UserReceive, Goes, Typed, droneVars, Registry
  <2>7. CASE Open(c)
    BY <1>1, <1>6, <2>0, <2>7, LineSteps DEF Open, Goes, Typed, droneVars, Registry
  <2>8. CASE Fail(c)
    BY <1>1, <2>0, <2>8, LineSteps DEF Fail, Goes, Typed, droneVars, Registry
  <2>9. ASSUME NEW kind, Gets(c, kind)
        PROVE  TakenByDrone(link[c]) \in Line /\ Aborted(TakenByDrone(link[c])) \in Line
               /\ Answered(c, link[c]) \in Line
    <3>1. TakenByDrone(link[c]) \in Line
      BY <1>5, <2>9 DEF Gets
    <3> QED
      BY <2>0, <3>1, LineSteps DEF Answered
  <2>10. CASE Refuse(c)
    BY <1>1, <2>9, <2>10 DEF Refuse, Typed, droneVars, Registry
  <2>11. Wiped(c) => /\ drone' \in [Conn -> {"none", "pending", "open"}]
                     /\ droneKey' \in [Conn -> Keys] /\ Registry(halfOpen)'
    <3>1. Registry(Without(halfOpen, c))
      BY <1>1, WithoutOne, PendingAssumption DEF Registry
    <3> QED
      BY <1>1, <1>6, <2>0, <3>1 DEF Wiped, Typed, Registry
  <2>12. CASE Accept(c)
    <3>1. Registry(halfOpen')
      BY <1>1, <2>12, Admitting DEF Accept
    <3>2. /\ Answered(c, link[c]) \in Line
          /\ \A o \in Conn : Evicted(link[o]) \in Line /\ link[o] \in Line
      BY <1>4, <2>0, <2>9, <2>12, LineSteps DEF Accept
    <3>3. link' \in [Conn -> Line]
      BY <2>12, <3>2 DEF Accept
    <3>4. /\ drone' \in [Conn -> {"none", "pending", "open"}]
          /\ droneKey' \in [Conn -> Keys]
      BY <1>1, <1>6, <2>0, <2>12 DEF Accept, Typed
    <3> QED
      BY <1>1, <2>12, <3>1, <3>3, <3>4 DEF Accept, Typed, Registry
  <2>13. CASE Ack(c)
    <3>1. Registry(Without(halfOpen, c))
      BY <1>1, WithoutOne, PendingAssumption DEF Registry
    <3> QED
      BY <1>1, <2>9, <2>13, <3>1 DEF Ack, Typed, Registry
  <2>14. CASE AckRefused(c)
    BY <1>1, <2>9, <2>11, <2>14 DEF AckRefused, Typed, droneVars, Registry
  <2>15. CASE Dispose(c)
    BY <1>1, <2>9, <2>11, <2>15 DEF Dispose, Typed, Registry
  <2> QED
    BY <2>1, <2>2, <2>3, <2>4, <2>5, <2>6, <2>7, <2>8, <2>10, <2>12, <2>13, <2>14, <2>15
<1> QED
  BY <1>3, <1>7

\* Every field holds what the code may put there, and the registry of half-open
\* handshakes never outgrows MAX_PENDING_HANDSHAKES.
THEOREM TypeCorrect == Spec => []TypeOK
  BY TypeInit, TypeNext, PTL DEF Spec
=============================================================================
