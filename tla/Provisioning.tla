---------------------------- MODULE Provisioning ----------------------------
(***************************************************************************)
(* Whose keys stand where.  A session needs the same user key at the cloud *)
(* (users), on the drone (authorizedUserKeys) and in the client's hands,   *)
(* the same drone key at the cloud (drones), sealed on the drone's board   *)
(* and pinned by the client, and the same cloud key pinned at both ends.   *)
(* The owner replaces a key in separate steps, in any order, while clients *)
(* with the old or the new key go on opening and refreshing sessions.      *)
(* One user and one drone: Authorization has several.                      *)
(***************************************************************************)
EXTENDS Puf

CONSTANTS Conn,          \* connections to the drone
          Id,            \* drone ids an enrolment can name
          Drone,         \* the id this drone runs under
          TTL,           \* AUTH_TOKEN_TTL_MS
          Skew,          \* the 10 s authorize allows between request and answer
          ReadNoise,     \* the noise stable reads can show
          Reference,     \* values of the random reference
          MaxTime,       \* bound: last instant
          MaxKeys,       \* bound: keys the user ever has
          MaxClouds,     \* bound: boots of the cloud
          MaxIncidents   \* bound: new keys, enrolments, restarts, mishaps

ASSUME NoiseAssumption == ReadNoise \subseteq Noise /\ Reference \subseteq Response
\* "A wrong die still fails deterministically" (config.ts).
ASSUME DiesApartAssumption ==
  \A d \in Die : \A e \in Die \ {d} : \A n \in Challenge, y \in ReadNoise, z \in ReadNoise :
    StableRead(Clean[d][n], y) # StableRead(Clean[e][n], z)
ASSUME ChallengeAssumption == Challenge \subseteq Nat /\ 1 \in Challenge
ASSUME TimeAssumption  == TTL \in Nat /\ Skew \in Nat /\ Skew <= TTL /\ MaxTime \in Nat \ {0}
ASSUME DroneAssumption == Drone \in Id
ASSUME BoundAssumption == /\ MaxKeys \in Nat \ {0} /\ MaxClouds \in Nat \ {0}
                          /\ MaxIncidents \in Nat

Time  == 1..MaxTime
\* key is history: the one the request for the token was signed with.
Token == [iat : Time, cloud : 1..MaxClouds, pub : Challenge, key : 1..MaxKeys]
NoToken == [iat |-> 0, cloud |-> 0, pub |-> 0, key |-> 0]

\* One enrolment: its challenge numbers it, its key pair and its public key.
\* "mild" is history: its one stable read was right.
Enrolment(die, id, n, reference, noise) ==
  LET helper == Helper(die, n, reference, noise)
  IN  [die |-> die, id |-> id, helper |-> helper, mild |-> Mild(noise),
       black |-> BlackKey(Kek(reference, n), id, n)]

VARIABLES now,           \* Date.now(), the cloud's and the drone's
          newest,        \* number of the user's newest signing key
          cloud,         \* number of the cloud's boot, and of its signing key
          users,         \* CloudService.users: the user's key, 0 when unknown
          drones,        \* CloudService.drones: the drone's public key, or 0
          userKey,       \* authorizedUserKeys: the user's key pinned on the drone
          pin,           \* pinnedDrones: the drone key the client pins
          cloudKey,      \* cloudVerifyKey the client pins
          enrolled,      \* every enrolment so far, by challenge
          board,         \* the drone process: die, black key, cloudVerifyKey, bootTimeMs
          spare,         \* a token that more clients than the one it was granted to hold
          conn,          \* per connection: the attempt or the session on it
          todo,          \* what the owner has still to bring up to date
          incidents,     \* how much of that there has been
          vouched        \* history: when each key was last the one at the cloud

owners == <<newest, cloud, users, drones, userKey, pin, cloudKey, enrolled, board>>
vars == <<now, owners, spare, conn, todo, incidents, vouched>>

Stage == {"idle", "asking", "granted", "half", "confirmed", "open", "refused"}
Idle == [stage |-> "idle", key |-> 0, ts |-> 0, token |-> NoToken, scalar |-> NoScalar,
         next |-> NoToken, excuse |-> FALSE, overtaken |-> FALSE]

Own == {n \in DOMAIN enrolled : enrolled[n].id = Drone}
Latest == CHOOSE n \in Own : \A m \in Own : m <= n

Init ==
  /\ now = 1 /\ newest = 1 /\ cloud = 1 /\ users = 1 /\ drones = 1
  /\ userKey = 1 /\ pin = 1 /\ cloudKey = 1
  /\ \E die \in Die, r \in Reference, noise \in ReadNoise :
       /\ enrolled = [n \in {1} |-> Enrolment(die, Drone, 1, r, noise)]
       /\ board = [die |-> die, key |-> 1, cloud |-> 1, boot |-> now]
  /\ spare = NoToken /\ conn = [c \in Conn |-> Idle]
  /\ todo = {} /\ incidents = 0
  /\ vouched = [k \in 1..MaxKeys |-> IF k = 1 THEN now ELSE 0]

Tick ==
  /\ now < MaxTime
  /\ now' = now + 1
  /\ vouched' = [k \in 1..MaxKeys |-> IF k = users THEN now' ELSE vouched[k]]
  /\ UNCHANGED <<owners, spare, conn, todo, incidents>>

-----------------------------------------------------------------------------
(* The owner.  Whatever he changes is an excuse for the attempts under way. *)

Disturb == conn' = [c \in Conn |-> IF conn[c].stage \in {"idle", "open"} THEN conn[c]
                                   ELSE [conn[c] EXCEPT !.excuse = TRUE]]
\* ... and a handshake or a session that is under another key than the new pin stays.
Seated == {"half", "confirmed", "open"}
Overtake == conn' = [c \in Conn |->
  [conn[c] EXCEPT !.excuse = @ \/ conn[c].stage \notin {"idle", "open"},
                  !.overtaken = conn[c].stage \in Seated /\ conn[c].key # newest]]
Hangup  == conn' = [c \in Conn |-> Idle]
Owes(steps)  == todo' = todo \cup steps
Incident(happens) == /\ happens => incidents < MaxIncidents
                     /\ incidents' = IF happens THEN incidents + 1 ELSE incidents
\* A step done with what is current is done; with anything else it must be
\* redone.  Uncalled for, it is a mishap: a repeated call, an older record
\* delivered late, a boot from an old image or on another die.
Done(step, current) ==
  /\ todo' = IF current THEN todo \ {step} ELSE todo \cup {step}
  /\ Incident(~current \/ step \notin todo)

\* generateSigningKey: the user gets a new key pair, after a compromise.
NewKey ==
  /\ newest < MaxKeys
  /\ newest' = newest + 1
  /\ Owes({"users", "userKey"}) /\ Disturb /\ Incident(TRUE)
  /\ UNCHANGED <<now, cloud, users, drones, userKey, pin, cloudKey, enrolled, board, spare, vouched>>

WrongRecorded(k) == IF users = 0 THEN k ELSE users
Recorded(k) == k

\* registerUser, rotateUser: the record is replaced, even by an older one that
\* was delayed; rotateUser throws for an unknown user, registerUser does not.
RegisterUser(k) ==
  /\ users' = Recorded(k)
  /\ Done("users", k = newest) /\ Disturb
  /\ vouched' = [vouched EXCEPT ![users'] = now]
  /\ UNCHANGED <<now, newest, cloud, drones, userKey, pin, cloudKey, enrolled, board, spare>>

\* reprovisionUserKey: sessions under the key it replaces are not touched.
ReprovisionUserKey ==
  /\ "userKey" \in todo
  /\ userKey' = newest
  /\ Done("userKey", TRUE) /\ Overtake
  /\ UNCHANGED <<now, newest, cloud, users, drones, pin, cloudKey, enrolled, board, spare, vouched>>

\* enrollDrone, for this drone or, on the same or another die, for another one.
EnrollDrone(die, id, n, r, noise) ==
  /\ n \notin DOMAIN enrolled /\ n - 1 \in DOMAIN enrolled
  /\ enrolled' = [m \in DOMAIN enrolled \cup {n} |->
                    IF m = n THEN Enrolment(die, id, n, r, noise) ELSE enrolled[m]]
  /\ Owes(IF id = Drone THEN {"board", "drones", "pin"} ELSE {}) /\ Disturb /\ Incident(TRUE)
  /\ UNCHANGED <<now, newest, cloud, users, drones, userKey, pin, cloudKey, board, spare, vouched>>

RegisterDrone(n) ==
  /\ n \in Own
  /\ drones' = n
  /\ Done("drones", n = Latest) /\ Disturb
  /\ UNCHANGED <<now, newest, cloud, users, userKey, pin, cloudKey, enrolled, board, spare, vouched>>

\* The client pins P_D, certified by the owner for this droneId.
PinDrone ==
  /\ "pin" \in todo
  /\ pin' = Latest
  /\ Done("pin", TRUE) /\ Disturb
  /\ UNCHANGED <<now, newest, cloud, users, drones, userKey, cloudKey, enrolled, board, spare, vouched>>

\* attachDrone: the drone starts, on some die, with some black key and its
\* helper data; every connection to its previous run is gone.
AttachDrone(die, n) ==
  /\ n \in DOMAIN enrolled
  /\ board' = [die |-> die, key |-> n, cloud |-> cloud, boot |-> now]
  /\ Done("board", n = Latest /\ die = enrolled[n].die) /\ Hangup
  /\ UNCHANGED <<now, newest, cloud, users, drones, userKey, pin, cloudKey, enrolled, spare, vouched>>

\* new CloudService(): nothing is persisted, and it signs with a new key.
CloudRestart ==
  /\ cloud < MaxClouds
  /\ cloud' = cloud + 1 /\ users' = 0 /\ drones' = 0
  /\ Owes({"users", "drones", "board", "cloudKey"}) /\ Disturb /\ Incident(TRUE)
  /\ UNCHANGED <<now, newest, userKey, pin, cloudKey, enrolled, board, spare, vouched>>

PinCloud ==
  /\ "cloudKey" \in todo
  /\ cloudKey' = cloud
  /\ Done("cloudKey", TRUE) /\ Disturb
  /\ UNCHANGED <<now, newest, cloud, users, drones, userKey, pin, enrolled, board, spare, vouched>>

-----------------------------------------------------------------------------
(* The clients, the cloud and the drone. *)

\* One step of connection c: by whichever of the two ends has the turn.
Becomes(c, r) ==
  /\ conn' = [conn EXCEPT ![c] = r]
  /\ UNCHANGED <<now, owners, spare, todo, incidents, vouched>>

\* A handshake goes on as r or ends here; bad luck and slowness excuse it.
Reaches(c, ok, r, unlucky) ==
  LET excuse == conn[c].excuse \/ unlucky \/ now > conn[c].ts + Skew
  IN  Becomes(c, IF ok THEN [r EXCEPT !.excuse = excuse]
                 ELSE [Idle EXCEPT !.stage = "refused", !.excuse = excuse])

\* runUserHandshake starts, with the newest key or one that has been replaced.
Ask(c, k) ==
  /\ conn[c].stage = "idle"
  /\ Becomes(c, [Idle EXCEPT !.stage = "asking", !.key = k, !.ts = now,
                             !.excuse = todo # {} \/ k # newest])

Granted(k) == [iat |-> now, cloud |-> cloud, pub |-> drones, key |-> k]

WrongAuthorizes(k, ts) == users # 0 /\ drones # 0 /\ now <= ts + Skew
Authorizes(k, ts) == users = k /\ drones # 0 /\ now <= ts + Skew

\* authorize answers, over HTTP or in process; the client checks sigma_C.
Answer(c) ==
  /\ conn[c].stage = "asking"
  /\ Reaches(c, Authorizes(conn[c].key, conn[c].ts) /\ cloud = cloudKey,
             [conn[c] EXCEPT !.stage = "granted", !.token = Granted(conn[c].key)], FALSE)

Live(token) == token.cloud = board.cloud /\ now <= token.iat + TTL

\* A token goes to and from the cloud in the clear: other clients of the user may come
\* to hold one that some client has been granted.
Spill ==
  /\ \E k \in 1..newest : Authorizes(k, now) /\ spare' = Granted(k)
  /\ Incident(TRUE)
  /\ UNCHANGED <<now, owners, conn, todo, vouched>>

\* It is good for the user and not for one key: whoever holds it can show it, in a hello
\* in the place of a token of his own, or in a session he has.  What the nonce cache
\* refuses of it is left to HelloGate and Authorization.
Borrow(c) ==
  /\ spare # NoToken
  /\ \/ /\ conn[c].stage = "asking"
        /\ conn' = [conn EXCEPT ![c] = [@ EXCEPT !.stage = "granted", !.token = spare,
                                                 !.excuse = TRUE]]
        /\ Incident(conn[c].key = newest)
     \/ /\ conn[c].stage = "open" /\ conn[c].next = NoToken
        /\ conn' = [conn EXCEPT ![c] = [@ EXCEPT !.next = spare]]
        /\ Incident(FALSE)
  /\ UNCHANGED <<now, owners, spare, todo, vouched>>

\* Or he spends it before the client it was granted to: to the drone that one is a replay.
Forestall(c) ==
  /\ \/ /\ conn[c].stage = "granted" /\ conn[c].token # NoToken
        /\ conn' = [conn EXCEPT ![c].token = NoToken, ![c].excuse = TRUE]
     \/ /\ conn[c].stage = "open" /\ conn[c].next # NoToken
        /\ conn' = [conn EXCEPT ![c].next = NoToken]
  /\ Incident(TRUE)
  /\ UNCHANGED <<now, owners, spare, todo, vouched>>

\* handleHello: sigma_C, expiry, the boot gate, sigma_U under the pinned key, then the unwrapping.
Hello(c, noise) ==
  LET e == enrolled[board.key]
      scalar == Unwrapped(board.die, Drone, e.helper, e.black, noise)
  IN  /\ conn[c].stage = "granted"
      /\ Reaches(c, Live(conn[c].token) /\ conn[c].token.iat >= board.boot
                    /\ userKey = conn[c].key /\ scalar # NoScalar,
                 [conn[c] EXCEPT !.stage = "half", !.scalar = scalar],
                 ~(Mild(noise) /\ e.mild))

\* The client compares the token's P_D with its pin; tau_D tells it whether
\* the drone's scalar belongs to the P_D it computed with.
WrongGenuine(token, scalar) == scalar = token.pub
Genuine(token, scalar) == token.pub = pin /\ scalar = pin

Finish(c) ==
  /\ conn[c].stage = "half"
  /\ Reaches(c, Genuine(conn[c].token, conn[c].scalar),
             [conn[c] EXCEPT !.stage = "confirmed"], FALSE)

\* handleAck: nothing but tau_U is checked any more.
Ack(c) ==
  /\ conn[c].stage = "confirmed"
  /\ Becomes(c, [conn[c] EXCEPT !.stage = "open", !.ts = 0, !.excuse = FALSE])

\* session.refresh(): the cloud checks the session's key anew, the drone does not.
Renew(c) ==
  /\ conn[c].stage = "open" /\ conn[c].next = NoToken
  /\ Authorizes(conn[c].key, now) /\ cloud = cloudKey
  /\ Becomes(c, [conn[c] EXCEPT !.next = Granted(conn[c].key)])

Refresh(c) ==
  /\ conn[c].stage = "open" /\ conn[c].next # NoToken
  /\ Becomes(c, [conn[c] EXCEPT !.next = NoToken,
                                !.token = IF Live(conn[c].next) THEN conn[c].next ELSE @])

\* The client gives up a refused attempt, or the link breaks.
Leave(c) ==
  /\ conn[c].stage # "idle"
  /\ Incident(conn[c].stage # "refused")
  /\ conn' = [conn EXCEPT ![c] = Idle]
  /\ UNCHANGED <<now, owners, spare, todo, vouched>>

Owner ==
  \/ NewKey \/ ReprovisionUserKey \/ PinDrone \/ PinCloud
  \/ \E k \in 1..newest : RegisterUser(k)
  \/ \E die \in Die, id \in Id, n \in Challenge, r \in Reference, noise \in ReadNoise :
       EnrollDrone(die, id, n, r, noise)
  \/ \E n \in Challenge : RegisterDrone(n)
  \/ \E die \in Die, n \in Challenge : AttachDrone(die, n)

Step(c) ==
  \/ \E k \in 1..newest : Ask(c, k)
  \/ \E noise \in ReadNoise : Hello(c, noise)
  \/ Borrow(c) \/ Forestall(c) \/ Answer(c) \/ Finish(c) \/ Ack(c) \/ Renew(c) \/ Refresh(c) \/ Leave(c)

Next == Tick \/ Spill \/ CloudRestart \/ Owner \/ \E c \in Conn : Step(c)

Spec == Init /\ [][Next]_vars

-----------------------------------------------------------------------------
(* Fairness: the owner ends what he began; a client with the newest key     *)
(* tries again; the cloud, the drone and the client answer; and the PUF is  *)
(* not read badly every time the newest key comes (PUF_NOISE_PROB is 0).    *)

OwnerFairness ==
  /\ WF_vars("users" \in todo /\ RegisterUser(newest))
  /\ WF_vars("drones" \in todo /\ RegisterDrone(Latest))
  /\ WF_vars("board" \in todo /\ AttachDrone(enrolled[Latest].die, Latest))
  /\ WF_vars(ReprovisionUserKey) /\ WF_vars(PinDrone) /\ WF_vars(PinCloud)

ConnFairness(c) ==
  /\ SF_vars(Ask(c, newest))
  /\ SF_vars(\E noise \in ReadNoise : Mild(noise) /\ conn[c].key = newest /\ Hello(c, noise))
  /\ WF_vars(\E noise \in ReadNoise : Hello(c, noise))
  /\ WF_vars(Answer(c)) /\ WF_vars(Finish(c)) /\ WF_vars(Ack(c))
  /\ WF_vars(conn[c].stage = "refused" /\ Leave(c))

FairSpec == Spec /\ OwnerFairness /\ \A c \in Conn : ConnFairness(c)

-----------------------------------------------------------------------------
TypeOK ==
  /\ now \in Time /\ newest \in 1..MaxKeys /\ cloud \in 1..MaxClouds
  /\ users \in 0..MaxKeys /\ userKey \in 1..MaxKeys /\ cloudKey \in 1..MaxClouds
  /\ drones \in DOMAIN enrolled \cup {0} /\ pin \in DOMAIN enrolled
  /\ DOMAIN enrolled \subseteq Challenge
  /\ board \in [die : Die, key : DOMAIN enrolled, cloud : 1..MaxClouds, boot : Time]
  /\ spare \in Token \cup {NoToken}
  /\ conn \in [Conn -> [stage : Stage, key : 0..newest, ts : 0..MaxTime,
                        token : Token \cup {NoToken}, next : Token \cup {NoToken},
                        scalar : DOMAIN enrolled \cup {NoScalar}, excuse : BOOLEAN,
                        overtaken : BOOLEAN]]
  /\ todo \subseteq {"users", "drones", "board", "userKey", "pin", "cloudKey"}
  /\ incidents \in 0..MaxIncidents /\ vouched \in [1..MaxKeys -> 0..MaxTime]

\* Whatever die an enrolment's helper data is tried on and however badly the
\* die is read, the KEK comes out as it was enrolled, or not at all.
KekExactOrRefused ==
  \A n \in DOMAIN enrolled, die \in Die, noise \in ReadNoise :
    Regenerated(die, enrolled[n].helper, noise) \in {enrolled[n].black.key, NoKek}

\* A black key opens only on the die and under the drone id it was made for,
\* and gives the scalar that was enrolled.
SealedToTheBoard ==
  \A n \in DOMAIN enrolled, die \in Die, id \in Id, noise \in ReadNoise :
    LET e == enrolled[n]
        scalar == Unwrapped(die, id, e.helper, e.black, noise)
    IN  scalar # NoScalar => scalar = n /\ die = e.die /\ id = e.id

MayCommand(c) == conn[c].stage = "open" /\ now <= conn[c].token.iat + TTL

\* Whoever commands the drone does so within one token lifetime of a moment when
\* the cloud had on record the key that the token was asked for with, on whatever
\* session, refreshed or still half open meanwhile, and with whoever's token; and
\* under the key the drone has pinned, unless the session had begun before the pin
\* was replaced.  So a replaced key is soon silent on tokens of its own, and once the
\* drone has the new pin it enters no more on anybody's.
RetiredKeyContained ==
  \A c \in Conn : MayCommand(c) =>
    /\ now <= vouched[conn[c].token.key] + TTL
    /\ conn[c].key = userKey \/ conn[c].overtaken

\* Once the client has pinned the newest enrolment, no handshake completes with
\* a drone booted from an older black key, whatever the cloud's record says.
RetiredBoardLockedOut ==
  [][\A c \in Conn : conn[c].stage = "half" /\ conn'[c].stage = "confirmed"
       => "pin" \in todo \/ conn[c].scalar = Latest]_vars

\* Whoever holds the newest key is never turned away without cause: the owner
\* owed a step or took one meanwhile, the attempt took longer than the clock
\* skew allows, somebody else had spent the token or the token shown was not its
\* own, or a majority of the PUF's reads was wrong.
NoFalseRefusal == \A c \in Conn : conn[c].stage = "refused" => conn[c].excuse

\* In whatever order the owner takes his steps, and whatever goes wrong on the
\* way a bounded number of times, the holder of the newest key gets a session
\* in the end, unless the enrolment was misread or an old session is kept.
KeyholderGetsIn ==
  \A c \in Conn :
    <>[](enrolled[Latest].mild /\ (conn[c].stage = "open" => conn[c].key = newest))
      => []<>(conn[c].stage = "open")
=============================================================================
