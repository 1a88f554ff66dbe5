------------------------- MODULE ProvisioningProofs -------------------------
(***************************************************************************)
(* The provisioning of keys, proved for every die, noise and token         *)
(* lifetime and any number of clients, key changes, enrolments, restarts   *)
(* and mishaps.                                                            *)
(***************************************************************************)
EXTENDS Provisioning, TLAPS

-----------------------------------------------------------------------------
(* The PUF. *)

\* A majority over mildly noisy reads gives the noiseless response.
LEMMA MildRead ==
  ASSUME NEW clean \in SUBSET Bit, NEW noise \in Noise, Mild(noise)
  PROVE  StableRead(clean, noise) = clean
<1>1. ASSUME NEW b \in Bit PROVE 2 * Ones(clean, noise, b) > Reads <=> b \in clean
  <2>1. /\ noise[b] \in Nat /\ noise[b] <= Reads /\ 2 * noise[b] < Reads /\ Reads \in Nat
    BY ReadsAssumption DEF Noise, Mild
  <2>2. CASE b \in clean
    <3>1. Ones(clean, noise, b) = Reads - noise[b]
      BY <2>2 DEF Ones
    <3> QED
      BY <2>1, <2>2, <3>1
  <2>3. CASE b \notin clean
    <3>1. Ones(clean, noise, b) = noise[b]
      BY <2>3 DEF Ones
    <3> QED
      BY <2>1, <2>3, <3>1
  <2> QED
    BY <2>2, <2>3
<1> QED
  BY <1>1 DEF StableRead

LEMMA XorBack ==
  ASSUME NEW x, NEW y, NEW r
  PROVE  /\ Xor(x, Xor(x, r)) = r
         /\ Xor(y, Xor(x, r)) = r => y = x
  BY DEF Xor

SameRead(die, z, other, y, n) == StableRead(Clean[other][n], y) = StableRead(Clean[die][n], z)

\* Helper data gives its KEK back on a read equal to the enrolled one, and only
\* then.
LEMMA Regeneration ==
  ASSUME NEW die, NEW n \in Challenge, NEW r, NEW z, NEW other, NEW y
  PROVE  /\ SameRead(die, z, other, y, n) => Regenerated(other, Helper(die, n, r, z), y) = Kek(r, n)
         /\ ~SameRead(die, z, other, y, n) => Regenerated(other, Helper(die, n, r, z), y) = NoKek
<1> DEFINE x == StableRead(Clean[die][n], z)
           w == StableRead(Clean[other][n], y)
           h == Helper(die, n, r, z)
<1>1. h = [challenge |-> n, sketch |-> Xor(x, r), tag |-> Tag(n, Xor(x, r), r)]
  BY DEF Helper
<1>2. Regenerated(other, h, y) =
        IF TagMatches(h, Xor(w, Xor(x, r))) THEN Kek(Xor(w, Xor(x, r)), n) ELSE NoKek
  BY <1>1 DEF Regenerated
<1> HIDE DEF x, w, h
<1>3. TagMatches(h, Xor(w, Xor(x, r))) <=> Xor(w, Xor(x, r)) = r
  BY <1>1 DEF TagMatches, Tag
<1>4. Xor(w, Xor(x, r)) = r <=> w = x
  BY XorBack
<1> QED
  BY <1>2, <1>3, <1>4 DEF SameRead, x, w, h

LEMMA KekIsNone ==
  ASSUME NEW n \in Challenge, NEW r
  PROVE  Kek(r, n) # NoKek
  BY NoKekAssumption DEF Kek, NoKek

Opened(die, id, n, r, z, other, oid, y) ==
  LET e == Enrolment(die, id, n, r, z) IN Unwrapped(other, oid, e.helper, e.black, y)

\* A black key opens for a read like the enrolled one and the same id, and only
\* then.
LEMMA Unwrapping ==
  ASSUME NEW die, NEW id, NEW n \in Challenge, NEW r, NEW z, NEW other, NEW oid, NEW y
  PROVE  /\ SameRead(die, z, other, y, n) /\ oid = id => Opened(die, id, n, r, z, other, oid, y) = n
         /\ ~(SameRead(die, z, other, y, n) /\ oid = id) =>
              Opened(die, id, n, r, z, other, oid, y) = NoScalar
<1> DEFINE e == Enrolment(die, id, n, r, z)
<1>1. e.helper = Helper(die, n, r, z) /\ e.black = BlackKey(Kek(r, n), id, n)
  BY DEF Enrolment
<1>2. /\ e.black.key = Kek(r, n) /\ e.black.aad = id /\ e.black.scalar = n
  BY <1>1 DEF BlackKey, BlackKeyAad
<1> DEFINE k == Regenerated(other, e.helper, y)
<1>3. /\ SameRead(die, z, other, y, n) => k = Kek(r, n)
      /\ ~SameRead(die, z, other, y, n) => k = NoKek
  BY <1>1, Regeneration
<1>4. Unwrapped(other, oid, e.helper, e.black, y) =
        IF k = NoKek THEN NoScalar ELSE Unsealed(e.black, k, oid)
  BY DEF Unwrapped, BlackKeyAad
<1>5. Kek(r, n) # NoKek
  BY KekIsNone
<1> HIDE DEF k
<1>6. Unsealed(e.black, Kek(r, n), oid) = IF oid = id THEN n ELSE NoScalar
  BY <1>2 DEF Unsealed
<1>7. Opened(die, id, n, r, z, other, oid, y) = Unwrapped(other, oid, e.helper, e.black, y)
  BY DEF Opened
<1> QED
  BY <1>3, <1>4, <1>5, <1>6, <1>7

-----------------------------------------------------------------------------
(* What stands where: types, the enrolments made, and that a step nobody owes *)
(* has been taken with what is current.                                      *)

Steps == {"users", "drones", "board", "userKey", "pin", "cloudKey"}

Placed ==
  /\ now \in Time /\ newest \in 1..MaxKeys /\ cloud \in 1..MaxClouds
  /\ users \in 0..newest /\ userKey \in 1..newest /\ cloudKey \in 1..cloud
  /\ drones \in DOMAIN enrolled \cup {0} /\ pin \in DOMAIN enrolled
  /\ board \in [die : Die, key : DOMAIN enrolled, cloud : 1..cloud, boot : Time]
  /\ board.boot <= now
  /\ todo \subseteq Steps
  /\ incidents \in 0..MaxIncidents

Made(n) == \E die \in Die, id \in Id, r \in Reference, noise \in ReadNoise :
             enrolled[n] = Enrolment(die, id, n, r, noise)

Enrolments ==
  /\ \E k \in Nat : DOMAIN enrolled = 1..k
  /\ DOMAIN enrolled \subseteq Challenge
  /\ \A n \in DOMAIN enrolled : Made(n)
  /\ \E m \in Own : \A n \in Own : n <= m

Current ==
  /\ "users" \notin todo => users = newest
  /\ "userKey" \notin todo => userKey = newest
  /\ "cloudKey" \notin todo => cloudKey = cloud
  /\ "drones" \notin todo => drones = Latest
  /\ "pin" \notin todo => pin = Latest
  /\ "board" \notin todo => /\ board.key = Latest /\ board.die = enrolled[Latest].die
                            /\ board.cloud = cloud

GInv == Placed /\ Enrolments /\ Current

LEMMA LatestIs ==
  ASSUME Enrolments
  PROVE  /\ Latest \in Own /\ Latest \in DOMAIN enrolled /\ Latest \in Nat /\ Latest >= 1
         /\ \A m \in Own : m <= Latest
<1>1. PICK k \in Nat : DOMAIN enrolled = 1..k
  BY DEF Enrolments
<1>2. Latest \in Own /\ \A m \in Own : m <= Latest
  BY DEF Latest, Enrolments
<1> QED
  BY <1>1, <1>2 DEF Own

\* Latest is the one enrolment of this drone that no other is later than.
LEMMA LatestUnique ==
  ASSUME Enrolments, NEW x \in Own, \A m \in Own : m <= x
  PROVE  Latest = x
<1>1. PICK k \in Nat : DOMAIN enrolled = 1..k
  BY DEF Enrolments
<1>2. Latest \in Own /\ Latest <= x /\ x <= Latest
  BY LatestIs
<1>3. x \in Nat /\ Latest \in Nat
  BY <1>1, <1>2 DEF Own
<1> QED
  BY <1>2, <1>3

LEMMA SameEnrolments ==
  ASSUME UNCHANGED enrolled, Enrolments
  PROVE  Enrolments' /\ Latest' = Latest /\ Own' = Own
<1>1. Own' = Own
  BY DEF Own
<1> QED
  BY <1>1 DEF Enrolments, Made, Latest

LEMMA InitPlaced == Init => GInv
<1> SUFFICES ASSUME Init PROVE GInv
  OBVIOUS
<1>1. PICK die \in Die, r \in Reference, noise \in ReadNoise :
        /\ enrolled = [n \in {1} |-> Enrolment(die, Drone, 1, r, noise)]
        /\ board = [die |-> die, key |-> 1, cloud |-> 1, boot |-> now]
  BY DEF Init
<1> DEFINE e == Enrolment(die, Drone, 1, r, noise)
<1>2. DOMAIN enrolled = {1} /\ enrolled[1] = e
  BY <1>1
<1>3. e.id = Drone /\ e.die = die
  BY DEF Enrolment
<1> HIDE DEF e
<1>4. Own = {1}
  BY <1>2, <1>3 DEF Own
<1>5. Enrolments
  <2>1. DOMAIN enrolled = 1..1
    BY <1>2
  <2>2. Made(1)
    BY <1>2, DroneAssumption DEF Made, e
  <2> QED
    BY <1>2, <1>4, <2>1, <2>2, ChallengeAssumption DEF Enrolments
<1>6. Latest = 1
  BY <1>4, <1>5, LatestUnique
<1>7. Placed
  BY <1>1, <1>2, TimeAssumption, BoundAssumption DEF Init, Placed, Time
<1>8. Current
  BY <1>1, <1>2, <1>3, <1>6 DEF Init, Current
<1> QED
  BY <1>5, <1>7, <1>8 DEF GInv

LEMMA IncidentTyped ==
  ASSUME incidents \in 0..MaxIncidents, NEW happens, Incident(happens)
  PROVE  incidents' \in 0..MaxIncidents
  BY BoundAssumption DEF Incident

LEMMA DoneTyped ==
  ASSUME incidents \in 0..MaxIncidents, todo \subseteq Steps,
         NEW step \in Steps, NEW current, Done(step, current)
  PROVE  /\ incidents' \in 0..MaxIncidents /\ todo' \subseteq Steps
         /\ step \notin todo' => current
         /\ \A other \in Steps \ {step} : other \in todo' <=> other \in todo
<1>1. incidents' \in 0..MaxIncidents
  BY IncidentTyped DEF Done
<1> QED
  BY <1>1 DEF Done

LEMMA NewKeyPlaced ==
  ASSUME GInv, NewKey
  PROVE  GInv'
<1>1. Placed'
  <2>1. incidents' \in 0..MaxIncidents
    BY IncidentTyped DEF GInv, Placed, NewKey
  <2>2. newest' \in 1..MaxKeys /\ users' \in 0..newest' /\ userKey' \in 1..newest'
    BY BoundAssumption DEF GInv, Placed, NewKey
  <2>3. UNCHANGED <<now, cloud, cloudKey, drones, pin, enrolled, board>> /\ todo' \subseteq Steps
    BY DEF GInv, Placed, NewKey, Owes, Steps
  <2> QED
    BY <2>1, <2>2, <2>3 DEF GInv, Placed
<1>2. Current'
  BY SameEnrolments DEF GInv, Current, NewKey, Owes
<1> QED
  BY <1>1, <1>2, SameEnrolments DEF GInv, NewKey

LEMMA RegisterUserPlaced ==
  ASSUME GInv, NEW k \in 1..newest, RegisterUser(k)
  PROVE  GInv'
<1>1. users' = k /\ Done("users", k = newest)
      /\ UNCHANGED <<now, newest, cloud, drones, userKey, pin, cloudKey, enrolled, board>>
  BY DEF RegisterUser, Recorded
<1>2. /\ incidents' \in 0..MaxIncidents /\ todo' \subseteq Steps
      /\ "users" \notin todo' => k = newest
      /\ \A other \in Steps \ {"users"} : other \in todo' <=> other \in todo
  BY <1>1, DoneTyped DEF GInv, Placed, Steps
<1>3. Placed'
  BY <1>1, <1>2 DEF GInv, Placed
<1>4. Current'
  BY <1>1, <1>2, SameEnrolments DEF GInv, Current, Steps
<1> QED
  BY <1>1, <1>3, <1>4, SameEnrolments DEF GInv

LEMMA ReprovisionUserKeyPlaced ==
  ASSUME GInv, ReprovisionUserKey
  PROVE  GInv'
<1>1. userKey' = newest /\ Done("userKey", TRUE)
      /\ UNCHANGED <<now, newest, cloud, users, drones, pin, cloudKey, enrolled, board>>
  BY DEF ReprovisionUserKey
<1>2. /\ incidents' \in 0..MaxIncidents /\ todo' \subseteq Steps
      /\ \A other \in Steps \ {"userKey"} : other \in todo' <=> other \in todo
  BY <1>1, DoneTyped DEF GInv, Placed, Steps
<1>3. Placed'
  BY <1>1, <1>2 DEF GInv, Placed
<1>4. Current'
  BY <1>1, <1>2, SameEnrolments DEF GInv, Current, Steps
<1> QED
  BY <1>1, <1>3, <1>4, SameEnrolments DEF GInv

LEMMA RegisterDronePlaced ==
  ASSUME GInv, NEW n, RegisterDrone(n)
  PROVE  GInv'
<1>1. n \in Own /\ drones' = n /\ Done("drones", n = Latest)
      /\ UNCHANGED <<now, newest, cloud, users, userKey, pin, cloudKey, enrolled, board>>
  BY DEF RegisterDrone
<1>2. /\ incidents' \in 0..MaxIncidents /\ todo' \subseteq Steps
      /\ "drones" \notin todo' => n = Latest
      /\ \A other \in Steps \ {"drones"} : other \in todo' <=> other \in todo
  BY <1>1, DoneTyped DEF GInv, Placed, Steps
<1>3. Placed'
  BY <1>1, <1>2 DEF GInv, Placed, Own
<1>4. Current'
  BY <1>1, <1>2, SameEnrolments DEF GInv, Current, Steps
<1> QED
  BY <1>1, <1>3, <1>4, SameEnrolments DEF GInv

LEMMA PinDronePlaced ==
  ASSUME GInv, PinDrone
  PROVE  GInv'
<1>1. pin' = Latest /\ Done("pin", TRUE)
      /\ UNCHANGED <<now, newest, cloud, users, drones, userKey, cloudKey, enrolled, board>>
  BY DEF PinDrone
<1>2. /\ incidents' \in 0..MaxIncidents /\ todo' \subseteq Steps
      /\ \A other \in Steps \ {"pin"} : other \in todo' <=> other \in todo
  BY <1>1, DoneTyped DEF GInv, Placed, Steps
<1>3. Placed'
  BY <1>1, <1>2, LatestIs DEF GInv, Placed
<1>4. Current'
  BY <1>1, <1>2, SameEnrolments DEF GInv, Current, Steps
<1> QED
  BY <1>1, <1>3, <1>4, SameEnrolments DEF GInv

LEMMA PinCloudPlaced ==
  ASSUME GInv, PinCloud
  PROVE  GInv'
<1>1. cloudKey' = cloud /\ Done("cloudKey", TRUE)
      /\ UNCHANGED <<now, newest, cloud, users, drones, userKey, pin, enrolled, board>>
  BY DEF PinCloud
<1>2. /\ incidents' \in 0..MaxIncidents /\ todo' \subseteq Steps
      /\ \A other \in Steps \ {"cloudKey"} : other \in todo' <=> other \in todo
  BY <1>1, DoneTyped DEF GInv, Placed, Steps
<1>3. Placed'
  BY <1>1, <1>2 DEF GInv, Placed
<1>4. Current'
  BY <1>1, <1>2, SameEnrolments DEF GInv, Current, Steps
<1> QED
  BY <1>1, <1>3, <1>4, SameEnrolments DEF GInv

LEMMA AttachDronePlaced ==
  ASSUME GInv, NEW die \in Die, NEW n, AttachDrone(die, n)
  PROVE  GInv'
<1>1. /\ n \in DOMAIN enrolled
      /\ board' = [die |-> die, key |-> n, cloud |-> cloud, boot |-> now]
      /\ Done("board", n = Latest /\ die = enrolled[n].die)
      /\ UNCHANGED <<now, newest, cloud, users, drones, userKey, pin, cloudKey, enrolled>>
  BY DEF AttachDrone
<1>2. /\ incidents' \in 0..MaxIncidents /\ todo' \subseteq Steps
      /\ "board" \notin todo' => n = Latest /\ die = enrolled[n].die
      /\ \A other \in Steps \ {"board"} : other \in todo' <=> other \in todo
  BY <1>1, DoneTyped DEF GInv, Placed, Steps
<1>3. Placed'
  BY <1>1, <1>2, TimeAssumption DEF GInv, Placed, Time
<1>4. Current'
  BY <1>1, <1>2, SameEnrolments DEF GInv, Current, Steps
<1> QED
  BY <1>1, <1>3, <1>4, SameEnrolments DEF GInv

LEMMA CloudRestartPlaced ==
  ASSUME GInv, CloudRestart
  PROVE  GInv'
<1>1. Placed'
  <2>1. incidents' \in 0..MaxIncidents
    BY IncidentTyped DEF GInv, Placed, CloudRestart
  <2>2. /\ cloud' \in 1..MaxClouds /\ cloudKey' \in 1..cloud'
        /\ board' \in [die : Die, key : DOMAIN enrolled', cloud : 1..cloud', boot : Time]
    <3>1. /\ cloud' = cloud + 1 /\ cloud < MaxClouds /\ UNCHANGED <<cloudKey, board, enrolled>>
          /\ cloud \in 1..MaxClouds /\ cloudKey \in 1..cloud /\ MaxClouds \in Nat
      BY BoundAssumption DEF GInv, Placed, CloudRestart
    <3>2. cloud' \in 1..MaxClouds /\ cloudKey' \in 1..cloud' /\ 1..cloud \subseteq 1..cloud'
      BY <3>1
    <3>3. board \in [die : Die, key : DOMAIN enrolled, cloud : 1..cloud, boot : Time]
      BY DEF GInv, Placed
    <3> QED
      BY <3>1, <3>2, <3>3
  <2>3. /\ UNCHANGED <<now, newest, userKey, pin, enrolled, board>> /\ todo' \subseteq Steps
        /\ users' = 0 /\ drones' = 0
    BY DEF GInv, Placed, CloudRestart, Owes, Steps
  <2>4. users' \in 0..newest'
    BY <2>3 DEF GInv, Placed
  <2> QED
    BY <2>1, <2>2, <2>3, <2>4 DEF GInv, Placed
<1>2. Current'
  BY SameEnrolments DEF GInv, Current, CloudRestart, Owes
<1> QED
  BY <1>1, <1>2, SameEnrolments DEF GInv, CloudRestart

LEMMA TickPlaced ==
  ASSUME GInv, Tick
  PROVE  GInv'
<1>1. Placed'
  BY TimeAssumption DEF GInv, Placed, Tick, Time, owners
<1>2. UNCHANGED <<newest, cloud, users, drones, userKey, pin, cloudKey, enrolled, board, todo>>
  BY DEF Tick, owners
<1>3. Current'
  BY <1>2, SameEnrolments DEF GInv, Current
<1> QED
  BY <1>1, <1>2, <1>3, SameEnrolments DEF GInv

\* An enrolment of this drone becomes the latest; another's changes nothing.
LEMMA EnrollDroneMade ==
  ASSUME Enrolments, NEW die \in Die, NEW id \in Id, NEW n \in Challenge,
         NEW r \in Reference, NEW noise \in ReadNoise, EnrollDrone(die, id, n, r, noise)
  PROVE  /\ Enrolments' /\ DOMAIN enrolled \subseteq DOMAIN enrolled'
         /\ \A m \in DOMAIN enrolled : enrolled'[m] = enrolled[m]
         /\ id # Drone => Latest' = Latest
<1>1. PICK k \in Nat : DOMAIN enrolled = 1..k
  BY DEF Enrolments
<1>2. /\ n \notin DOMAIN enrolled /\ n - 1 \in DOMAIN enrolled /\ n \in Nat
      /\ enrolled' = [m \in DOMAIN enrolled \cup {n} |->
                        IF m = n THEN Enrolment(die, id, n, r, noise) ELSE enrolled[m]]
  BY ChallengeAssumption DEF EnrollDrone
<1>3. n = k + 1
  BY <1>1, <1>2
<1>4. DOMAIN enrolled' = 1..(k + 1) /\ DOMAIN enrolled' = DOMAIN enrolled \cup {n}
  BY <1>1, <1>2, <1>3
<1>5. \A m \in DOMAIN enrolled : enrolled'[m] = enrolled[m]
  BY <1>2
<1>6. enrolled'[n] = Enrolment(die, id, n, r, noise)
  BY <1>2
<1>7. enrolled'[n].id = id
  BY <1>6 DEF Enrolment
<1>8. Own' = IF id = Drone THEN Own \cup {n} ELSE Own
  BY <1>2, <1>4, <1>5, <1>7 DEF Own
<1>9. \A m \in DOMAIN enrolled' : Made(m)'
  <2>1. Made(n)'
    BY <1>6 DEF Made
  <2>2. \A m \in DOMAIN enrolled : Made(m)'
    BY <1>5 DEF Enrolments, Made
  <2> QED
    BY <1>4, <2>1, <2>2
<1>10. \A m \in DOMAIN enrolled : m <= n
  BY <1>1, <1>3
<1>11. \E m \in Own' : \A o \in Own' : o <= m
  <2>1. CASE id = Drone
    <3>1. \A o \in Own' : o <= n
      BY <1>2, <1>8, <1>10, <2>1 DEF Own
    <3> QED
      BY <1>8, <2>1, <3>1
  <2>2. CASE id # Drone
    BY <1>8, <2>2 DEF Enrolments
  <2> QED
    BY <2>1, <2>2
<1>12. DOMAIN enrolled' \subseteq Challenge
  BY <1>4 DEF Enrolments
<1>13. Enrolments'
  BY <1>4, <1>9, <1>11, <1>12, <1>1 DEF Enrolments
<1>14. id # Drone => Latest' = Latest
  BY <1>8 DEF Latest
<1> QED
  BY <1>4, <1>5, <1>13, <1>14

LEMMA EnrollDronePlaced ==
  ASSUME GInv, NEW die \in Die, NEW id \in Id, NEW n \in Challenge,
         NEW r \in Reference, NEW noise \in ReadNoise, EnrollDrone(die, id, n, r, noise)
  PROVE  GInv'
<1>1. /\ Enrolments' /\ DOMAIN enrolled \subseteq DOMAIN enrolled'
      /\ \A m \in DOMAIN enrolled : enrolled'[m] = enrolled[m]
      /\ id # Drone => Latest' = Latest
  BY EnrollDroneMade DEF GInv
<1>2. /\ UNCHANGED <<now, newest, cloud, users, drones, userKey, pin, cloudKey, board>>
      /\ todo' = todo \cup (IF id = Drone THEN {"board", "drones", "pin"} ELSE {})
      /\ Incident(TRUE)
  BY DEF EnrollDrone, Owes
<1>3. Placed'
  BY <1>1, <1>2, IncidentTyped DEF GInv, Placed, Steps
<1>4. Current'
  <2>1. CASE id = Drone
    BY <1>2, <2>1 DEF GInv, Current
  <2>2. CASE id # Drone
    BY <1>1, <1>2, <2>2, LatestIs DEF GInv, Current
  <2> QED
    BY <2>1, <2>2
<1> QED
  BY <1>1, <1>3, <1>4 DEF GInv

-----------------------------------------------------------------------------
(* The attempts and sessions: what vouches for their tokens, and what follows *)
(* for one that nothing excuses.                                             *)

Attempt == [stage : Stage, key : 0..newest, ts : 0..now,
            token : Token \cup {NoToken}, next : Token \cup {NoToken},
            scalar : DOMAIN enrolled \cup {NoScalar}, excuse : BOOLEAN, overtaken : BOOLEAN]
Trying == {"asking", "granted", "half", "confirmed"}

Vouches ==
  /\ vouched \in [1..MaxKeys -> 0..now]
  /\ users # 0 => vouched[users] = now

\* A token was granted while the cloud had the key on record it was asked for with.
Funded(t) == t # NoToken => t.iat <= vouched[t.key]

Backed(r) ==
  /\ r.stage \in Trying \cup {"open"} => r.key \in 1..newest
  /\ r.stage # "open" => r.next = NoToken
  /\ r.stage \in Seated => r.token # NoToken
  /\ Funded(r.token) /\ Funded(r.next)

Pinned(r) == r.stage \in Seated => r.key = userKey \/ r.overtaken

Straight(r) ==
  /\ r.stage = "refused" => r.excuse
  /\ r.stage \in Trying /\ ~r.excuse =>
       /\ todo = {} /\ r.key = newest /\ board.boot <= r.ts
       /\ r.stage # "asking" =>
            r.ts <= r.token.iat /\ r.token.cloud = cloud /\ r.token.pub = Latest
       /\ r.stage \in {"half", "confirmed"} => r.scalar = Latest

Sound(r) == Backed(r) /\ Pinned(r) /\ Straight(r)

AInv ==
  /\ conn \in [Conn -> Attempt] /\ Vouches
  /\ spare \in Token \cup {NoToken} /\ Funded(spare)
  /\ \A c \in Conn : Sound(conn[c])

LEMMA IdleFields ==
  /\ Idle.stage = "idle" /\ Idle.key = 0 /\ Idle.ts = 0 /\ Idle.token = NoToken
  /\ Idle.scalar = NoScalar /\ Idle.next = NoToken /\ Idle.excuse = FALSE
  /\ Idle.overtaken = FALSE
  BY DEF Idle

LEMMA IdleSound ==
  ASSUME GInv
  PROVE  Idle \in Attempt /\ Sound(Idle)
<1>1. 0 \in 0..newest /\ 0 \in 0..now /\ "idle" \in Stage
  BY TimeAssumption, BoundAssumption DEF GInv, Placed, Time, Stage
<1>2. Idle \in Attempt
  BY <1>1 DEF Idle, Attempt
<1> QED
  BY <1>2, IdleFields DEF Sound, Backed, Pinned, Straight, Funded, Trying, Seated

LEMMA InitSound == Init => GInv /\ AInv
<1> SUFFICES ASSUME Init PROVE AInv
  BY InitPlaced
<1>1. GInv
  BY InitPlaced
<1>2. conn = [c \in Conn |-> Idle] /\ spare = NoToken
  BY DEF Init
<1>3. Vouches
  BY BoundAssumption DEF Init, Vouches
<1> QED
  BY <1>1, <1>2, <1>3, IdleSound DEF AInv, Funded

\* Nothing an attempt or a session rests on is taken back by a step of the owner.
Extends ==
  /\ newest <= newest' /\ now <= now' /\ DOMAIN enrolled \subseteq DOMAIN enrolled'
  /\ \A k \in 1..MaxKeys : vouched[k] <= vouched'[k]

LEMMA Extended ==
  ASSUME GInv, GInv', Vouches, Extends, Vouches'
  PROVE  /\ Attempt \subseteq Attempt'
         /\ \A t \in Token \cup {NoToken} : Funded(t) => Funded(t)'
         /\ \A r \in Attempt : Backed(r) => Backed(r)'
<1>1. /\ newest \in Nat /\ newest' \in Nat /\ now \in Nat /\ now' \in Nat /\ newest <= MaxKeys
      /\ MaxKeys \in Nat
  BY TimeAssumption, BoundAssumption DEF GInv, Placed, Time
<1>2. 0..newest \subseteq 0..newest' /\ 0..now \subseteq 0..now'
      /\ 1..newest \subseteq 1..newest'
  BY <1>1 DEF Extends
<1>3. Attempt \subseteq Attempt'
  BY <1>2 DEF Attempt, Extends
<1>4. ASSUME NEW t \in Token \cup {NoToken}, Funded(t) PROVE Funded(t)'
  <2>1. CASE t = NoToken
    BY <2>1 DEF Funded
  <2>2. CASE t # NoToken
    <3>1. t.iat \in Nat /\ t.key \in 1..MaxKeys
      BY <2>2 DEF Token, Time
    <3>2. vouched[t.key] \in Nat /\ vouched'[t.key] \in Nat /\ t.iat <= vouched[t.key]
      BY <1>1, <1>4, <2>2, <3>1 DEF Vouches, Funded
    <3> QED
      BY <3>1, <3>2 DEF Extends, Funded
  <2> QED
    BY <2>1, <2>2
<1>5. ASSUME NEW r \in Attempt, Backed(r) PROVE Backed(r)'
  <2>1. r.token \in Token \cup {NoToken} /\ r.next \in Token \cup {NoToken}
    BY DEF Attempt
  <2>2. Funded(r.token)' /\ Funded(r.next)'
    BY <1>4, <1>5, <2>1 DEF Backed
  <2> QED
    BY <1>2, <1>5, <2>2 DEF Backed
<1> QED
  BY <1>3, <1>4, <1>5

\* What a connection holds after a step that extends what there is, if it is in order.
LEMMA Renewed ==
  ASSUME GInv, GInv', AInv, Extends, Vouches', UNCHANGED spare, conn' \in [Conn -> Attempt'],
         \A c \in Conn : Sound(conn[c])'
  PROVE  AInv'
<1>1. Funded(spare)'
  <2>1. PICK t : t = spare
    OBVIOUS
  <2>2. Funded(t)'
    BY <2>1, Extended DEF AInv
  <2> QED
    BY <2>1, <2>2 DEF Funded
<1> QED
  BY <1>1 DEF AInv

LEMMA Disturbed ==
  ASSUME GInv, GInv', AInv, Extends, Vouches', UNCHANGED <<spare, userKey>>, Disturb
  PROVE  AInv'
<1>1. ASSUME NEW c \in Conn
      PROVE  conn'[c] \in Attempt' /\ Sound(conn[c])'
  <2>1. PICK r : r = conn[c]
    OBVIOUS
  <2>2. PICK q : q = conn'[c]
    OBVIOUS
  <2>3. r \in Attempt /\ r \in Attempt' /\ Backed(r) /\ Backed(r)' /\ Pinned(r)
    BY <2>1, Extended DEF AInv, Sound
  <2>4. q = IF r.stage \in {"idle", "open"} THEN r ELSE [r EXCEPT !.excuse = TRUE]
    BY <2>1, <2>2 DEF Disturb
  <2>5. /\ q \in Attempt' /\ q.stage = r.stage /\ q.key = r.key /\ q.token = r.token
        /\ q.next = r.next /\ q.overtaken = r.overtaken
    BY <2>3, <2>4 DEF Attempt
  <2>6. q.stage \notin {"idle", "open"} => q.excuse = TRUE
    BY <2>3, <2>4 DEF Attempt
  <2>7. Backed(q)' /\ Pinned(q)'
    BY <2>3, <2>5 DEF Backed, Pinned
  <2>8. Straight(q)'
    BY <2>6 DEF Straight, Trying
  <2> QED
    BY <2>2, <2>5, <2>7, <2>8 DEF Sound, Backed, Pinned, Straight, Funded
<1>2. conn' \in [Conn -> Attempt']
  BY <1>1 DEF Disturb
<1> QED
  BY <1>1, <1>2, Renewed

LEMMA HungUp ==
  ASSUME GInv, GInv', AInv, Extends, Vouches', UNCHANGED spare, Hangup
  PROVE  AInv'
<1>1. Idle \in Attempt' /\ Sound(Idle)'
  <2>1. Idle \in Attempt'
    <3>1. 0 \in 0..newest' /\ 0 \in 0..now' /\ "idle" \in Stage
      BY TimeAssumption, BoundAssumption DEF GInv, Placed, Time, Stage
    <3> QED
      BY <3>1 DEF Idle, Attempt
  <2> QED
    BY <2>1, IdleFields DEF Sound, Backed, Pinned, Straight, Funded, Trying, Seated
<1>2. conn' = [c \in Conn |-> Idle]
  BY DEF Hangup
<1>3. ASSUME NEW c \in Conn PROVE conn'[c] \in Attempt' /\ Sound(conn[c])'
  <2>1. conn'[c] = Idle
    BY <1>2
  <2> QED
    BY <1>1, <2>1 DEF Sound, Backed, Pinned, Straight, Funded
<1>4. conn' \in [Conn -> Attempt']
  BY <1>1, <1>2
<1> QED
  BY <1>3, <1>4, Renewed

\* A handshake or a session under another key than the new pin is overtaken by it.
LEMMA Overtaken ==
  ASSUME GInv, GInv', AInv, Extends, Vouches', UNCHANGED <<spare, newest>>, userKey' = newest,
         Overtake
  PROVE  AInv'
<1>1. ASSUME NEW c \in Conn
      PROVE  conn'[c] \in Attempt' /\ Sound(conn[c])'
  <2>1. PICK r : r = conn[c]
    OBVIOUS
  <2>2. PICK q : q = conn'[c]
    OBVIOUS
  <2>3. r \in Attempt /\ r \in Attempt' /\ Backed(r) /\ Backed(r)'
    BY <2>1, Extended DEF AInv, Sound
  <2>4. q = [r EXCEPT !.excuse = @ \/ r.stage \notin {"idle", "open"},
                      !.overtaken = r.stage \in Seated /\ r.key # newest]
    BY <2>1, <2>2 DEF Overtake
  <2>5. PICK x \in BOOLEAN, y \in BOOLEAN :
          /\ x = (r.excuse \/ r.stage \notin {"idle", "open"})
          /\ y = (r.stage \in Seated /\ r.key # newest)
    OBVIOUS
  <2>6. q = [r EXCEPT !.excuse = x, !.overtaken = y]
    BY <2>4, <2>5
  <2>7. /\ q \in Attempt' /\ q.stage = r.stage /\ q.key = r.key /\ q.token = r.token
        /\ q.next = r.next /\ q.excuse = x /\ q.overtaken = y
    BY <2>3, <2>6 DEF Attempt
  <2>8. Backed(q)'
    BY <2>3, <2>7 DEF Backed
  <2>9. Pinned(q)'
    BY <2>5, <2>7 DEF Pinned
  <2>10. Straight(q)'
    BY <2>5, <2>7 DEF Straight, Trying
  <2> QED
    BY <2>2, <2>7, <2>8, <2>9, <2>10 DEF Sound, Backed, Pinned, Straight, Funded
<1>2. conn' \in [Conn -> Attempt']
  BY <1>1 DEF Overtake
<1> QED
  BY <1>1, <1>2, Renewed

LEMMA VouchedNat ==
  ASSUME GInv, Vouches
  PROVE  /\ now \in Nat /\ newest \in Nat /\ MaxKeys \in Nat /\ newest <= MaxKeys
         /\ \A k \in 1..MaxKeys : vouched[k] \in Nat /\ vouched[k] <= now
  BY TimeAssumption, BoundAssumption DEF GInv, Placed, Time, Vouches

\* A step that leaves the clock and the cloud's record of the user alone.
LEMMA Untold ==
  ASSUME GInv, AInv, UNCHANGED <<now, vouched>>, users' \in {users, 0}, newest <= newest',
         DOMAIN enrolled \subseteq DOMAIN enrolled'
  PROVE  Extends /\ Vouches'
  BY VouchedNat DEF AInv, Extends, Vouches

LEMMA RegisterUserTold ==
  ASSUME GInv, AInv, NEW k \in 1..newest, RegisterUser(k)
  PROVE  Extends /\ Vouches'
<1>1. /\ users' = k /\ vouched' = [vouched EXCEPT ![k] = now]
      /\ UNCHANGED <<now, newest, enrolled>>
  BY DEF RegisterUser, Recorded
<1>2. /\ vouched \in [1..MaxKeys -> 0..now] /\ now \in Nat /\ k \in 1..MaxKeys /\ newest \in Nat
      /\ \A j \in 1..MaxKeys : vouched[j] \in Nat /\ vouched[j] <= now
  BY VouchedNat DEF AInv, Vouches
<1>3. /\ vouched' \in [1..MaxKeys -> 0..now] /\ vouched'[k] = now
      /\ \A j \in 1..MaxKeys : vouched[j] <= vouched'[j]
  BY <1>1, <1>2
<1> QED
  BY <1>1, <1>2, <1>3 DEF Extends, Vouches

LEMMA OwnerSound ==
  ASSUME GInv, AInv, Owner \/ CloudRestart
  PROVE  GInv' /\ AInv'
<1>1. CASE NewKey
  <2>1. UNCHANGED <<now, vouched, users, userKey, spare, enrolled>> /\ newest <= newest' /\ Disturb
    BY <1>1, VouchedNat DEF NewKey, AInv
  <2> QED
    BY <1>1, <2>1, NewKeyPlaced, Untold, Disturbed
<1>2. CASE ReprovisionUserKey
  <2>1. UNCHANGED <<now, newest, vouched, users, spare, enrolled>> /\ newest <= newest'
        /\ userKey' = newest /\ Overtake
    BY <1>2, VouchedNat DEF ReprovisionUserKey, AInv
  <2> QED
    BY <1>2, <2>1, ReprovisionUserKeyPlaced, Untold, Overtaken
<1>3. CASE PinDrone
  <2>1. UNCHANGED <<now, newest, vouched, users, userKey, spare, enrolled>> /\ newest <= newest' /\ Disturb
    BY <1>3, VouchedNat DEF PinDrone, AInv
  <2> QED
    BY <1>3, <2>1, PinDronePlaced, Untold, Disturbed
<1>4. CASE PinCloud
  <2>1. UNCHANGED <<now, newest, vouched, users, userKey, spare, enrolled>> /\ newest <= newest' /\ Disturb
    BY <1>4, VouchedNat DEF PinCloud, AInv
  <2> QED
    BY <1>4, <2>1, PinCloudPlaced, Untold, Disturbed
<1>5. ASSUME NEW k \in 1..newest, RegisterUser(k) PROVE GInv' /\ AInv'
  <2>1. Disturb /\ UNCHANGED <<spare, userKey>>
    BY <1>5 DEF RegisterUser
  <2> QED
    BY <1>5, <2>1, RegisterUserPlaced, RegisterUserTold, Disturbed
<1>6. ASSUME NEW die \in Die, NEW id \in Id, NEW n \in Challenge, NEW r \in Reference,
             NEW noise \in ReadNoise, EnrollDrone(die, id, n, r, noise)
      PROVE  GInv' /\ AInv'
  <2>1. UNCHANGED <<now, newest, vouched, users, userKey, spare>> /\ newest <= newest' /\ Disturb
    BY <1>6, VouchedNat DEF EnrollDrone, AInv
  <2>2. GInv' /\ DOMAIN enrolled \subseteq DOMAIN enrolled'
    BY <1>6, EnrollDronePlaced, EnrollDroneMade DEF GInv
  <2> QED
    BY <2>1, <2>2, Untold, Disturbed
<1>7. ASSUME NEW n, RegisterDrone(n) PROVE GInv' /\ AInv'
  <2>1. UNCHANGED <<now, newest, vouched, users, userKey, spare, enrolled>> /\ newest <= newest' /\ Disturb
    BY <1>7, VouchedNat DEF RegisterDrone, AInv
  <2> QED
    BY <1>7, <2>1, RegisterDronePlaced, Untold, Disturbed
<1>8. ASSUME NEW die \in Die, NEW n, AttachDrone(die, n) PROVE GInv' /\ AInv'
  <2>1. UNCHANGED <<now, newest, vouched, users, spare, enrolled>> /\ newest <= newest' /\ Hangup
    BY <1>8, VouchedNat DEF AttachDrone, AInv
  <2> QED
    BY <1>8, <2>1, AttachDronePlaced, Untold, HungUp
<1>9. CASE CloudRestart
  <2>1. UNCHANGED <<now, newest, vouched, userKey, spare, enrolled>> /\ users' = 0 /\ newest <= newest' /\ Disturb
    BY <1>9, VouchedNat DEF CloudRestart, AInv
  <2> QED
    BY <1>9, <2>1, CloudRestartPlaced, Untold, Disturbed
<1> QED
  BY <1>1, <1>2, <1>3, <1>4, <1>5, <1>6, <1>7, <1>8, <1>9 DEF Owner

LEMMA TickSound ==
  ASSUME GInv, AInv, Tick
  PROVE  GInv' /\ AInv'
<1>1. /\ now' = now + 1 /\ UNCHANGED <<owners, spare, conn, todo>>
      /\ vouched' = [k \in 1..MaxKeys |-> IF k = users THEN now' ELSE vouched[k]]
  BY DEF Tick
<1>2. GInv'
  BY TickPlaced
<1>3. /\ now \in Nat /\ users \in 0..MaxKeys /\ newest \in Nat
      /\ \A k \in 1..MaxKeys : vouched[k] \in Nat /\ vouched[k] <= now
  BY VouchedNat, BoundAssumption DEF AInv, GInv, Placed
<1>4. UNCHANGED <<newest, users, userKey, enrolled, cloud, board>>
  BY <1>1 DEF owners
<1>5. Extends /\ Vouches'
  <2>1. \A k \in 1..MaxKeys : vouched'[k] = IF k = users THEN now' ELSE vouched[k]
    BY <1>1
  <2>2. \A k \in 1..MaxKeys : vouched'[k] \in 0..now' /\ vouched[k] <= vouched'[k]
    BY <1>1, <1>3, <2>1
  <2>3. users # 0 => vouched'[users] = now'
    BY <1>3, <2>1
  <2> QED
    BY <1>1, <1>3, <1>4, <2>2, <2>3 DEF Extends, Vouches
<1>6. ASSUME NEW c \in Conn PROVE conn'[c] \in Attempt' /\ Sound(conn[c])'
  <2>1. PICK r : r = conn[c]
    OBVIOUS
  <2>2. r \in Attempt /\ r \in Attempt' /\ Sound(r) /\ Backed(r)'
    BY <1>2, <1>5, <2>1, Extended DEF AInv, Sound
  <2>3. Pinned(r)' /\ Straight(r)'
    BY <1>1, <1>4, <2>2, SameEnrolments DEF GInv, Sound, Pinned, Straight
  <2>4. conn'[c] = r
    BY <1>1, <2>1
  <2> QED
    BY <2>2, <2>3, <2>4 DEF Sound, Backed, Pinned, Straight, Funded
<1>7. conn' \in [Conn -> Attempt'] /\ UNCHANGED spare
  BY <1>1, <1>6 DEF AInv
<1> QED
  BY <1>2, <1>5, <1>6, <1>7, Renewed

-----------------------------------------------------------------------------
(* The steps of the clients, the cloud and the drone. *)

\* The owner's things, the clock and the record stay, and with them what is in order.
LEMMA Still ==
  ASSUME GInv, AInv, UNCHANGED <<now, owners, todo, vouched>>, incidents' \in 0..MaxIncidents
  PROVE  /\ GInv' /\ Attempt' = Attempt /\ (Vouches' <=> Vouches)
         /\ \A x : (Sound(x) => Sound(x)') /\ (Funded(x) => Funded(x)')
<1>1. UNCHANGED <<now, newest, cloud, users, drones, userKey, pin, cloudKey, enrolled, board,
                  todo, vouched>>
  BY DEF owners
<1>2. Enrolments' /\ Latest' = Latest
  BY <1>1, SameEnrolments DEF GInv
<1>3. GInv'
  BY <1>1, <1>2 DEF GInv, Placed, Current
<1>4. Attempt' = Attempt /\ (Vouches' <=> Vouches)
  BY <1>1 DEF Attempt, Vouches
<1>5. ASSUME NEW x, Sound(x) PROVE Sound(x)'
  BY <1>1, <1>2, <1>5 DEF Sound, Backed, Pinned, Straight, Funded
<1>6. ASSUME NEW x, Funded(x) PROVE Funded(x)'
  BY <1>1, <1>6 DEF Funded
<1> QED
  BY <1>3, <1>4, <1>5, <1>6

LEMMA Quietly ==
  ASSUME GInv, AInv, UNCHANGED <<now, owners, spare, todo, vouched>>,
         incidents' \in 0..MaxIncidents,
         NEW c \in Conn, NEW r, conn' = [conn EXCEPT ![c] = r], r \in Attempt, Sound(r)
  PROVE  GInv' /\ AInv'
<1>1. /\ GInv' /\ Attempt' = Attempt /\ (Vouches' <=> Vouches)
      /\ \A x : (Sound(x) => Sound(x)') /\ (Funded(x) => Funded(x)')
  BY Still
<1>2. \A o \in Conn : conn'[o] = IF o = c THEN r ELSE conn[o]
  BY DEF AInv
<1>3. conn' \in [Conn -> Attempt]
  BY DEF AInv
<1>4. ASSUME NEW o \in Conn PROVE Sound(conn[o])'
  <2>1. PICK x : x = conn'[o]
    OBVIOUS
  <2>2. Sound(x)
    BY <1>2, <2>1 DEF AInv
  <2> QED
    BY <1>1, <2>1, <2>2 DEF Sound, Backed, Pinned, Straight, Funded
<1>5. Funded(spare)'
  <2>1. PICK t : t = spare
    OBVIOUS
  <2>2. Funded(t)'
    BY <1>1, <2>1 DEF AInv
  <2> QED
    BY <2>1, <2>2 DEF Funded
<1> QED
  BY <1>1, <1>3, <1>4, <1>5 DEF AInv

LEMMA BecomesSound ==
  ASSUME GInv, AInv, NEW c \in Conn, NEW r, Becomes(c, r),
         r \in Attempt, Sound(r)
  PROVE  GInv' /\ AInv'
<1>1. conn' = [conn EXCEPT ![c] = r] /\ UNCHANGED <<now, owners, spare, todo, incidents, vouched>>
  BY DEF Becomes
<1>2. incidents' \in 0..MaxIncidents
  BY <1>1 DEF GInv, Placed
<1> QED
  BY <1>1, <1>2, Quietly

LEMMA LeaveSound ==
  ASSUME GInv, AInv, NEW c \in Conn, Leave(c)
  PROVE  GInv' /\ AInv'
<1>1. conn' = [conn EXCEPT ![c] = Idle] /\ UNCHANGED <<now, owners, spare, todo, vouched>>
  BY DEF Leave
<1>2. incidents' \in 0..MaxIncidents
  BY IncidentTyped DEF Leave, GInv, Placed
<1> QED
  BY <1>1, <1>2, Quietly, IdleSound

\* The fields of an attempt, one by one.
LEMMA AttemptFields ==
  ASSUME NEW r \in Attempt
  PROVE  /\ r.stage \in Stage /\ r.key \in 0..newest /\ r.ts \in 0..now
         /\ r.token \in Token \cup {NoToken} /\ r.next \in Token \cup {NoToken}
         /\ r.scalar \in DOMAIN enrolled \cup {NoScalar} /\ r.excuse \in BOOLEAN
         /\ r.overtaken \in BOOLEAN
  BY DEF Attempt

LEMMA AttemptOf ==
  ASSUME NEW stage \in Stage, NEW key \in 0..newest, NEW ts \in 0..now,
         NEW token \in Token \cup {NoToken}, NEW next \in Token \cup {NoToken},
         NEW scalar \in DOMAIN enrolled \cup {NoScalar}, NEW excuse \in BOOLEAN,
         NEW overtaken \in BOOLEAN
  PROVE  [stage |-> stage, key |-> key, ts |-> ts, token |-> token, scalar |-> scalar,
          next |-> next, excuse |-> excuse, overtaken |-> overtaken] \in Attempt
  BY DEF Attempt

\* A refusal is in order when it is excused.
LEMMA RefusedSound ==
  ASSUME GInv, NEW r, NEW x, x, x \in BOOLEAN,
         r = [Idle EXCEPT !.stage = "refused", !.excuse = x]
  PROVE  r \in Attempt /\ Sound(r)
<1> DEFINE q == [stage |-> "refused", key |-> 0, ts |-> 0, token |-> NoToken,
                 scalar |-> NoScalar, next |-> NoToken, excuse |-> x, overtaken |-> FALSE]
<1>1. r = q
  BY DEF Idle
<1>2. /\ 0 \in 0..newest /\ 0 \in 0..now /\ "refused" \in Stage
      /\ NoToken \in Token \cup {NoToken} /\ NoScalar \in DOMAIN enrolled \cup {NoScalar}
  BY TimeAssumption, BoundAssumption DEF GInv, Placed, Time, Stage
<1>3. q \in Attempt
  BY <1>2, AttemptOf
<1>4. q.stage = "refused" /\ q.token = NoToken /\ q.next = NoToken /\ q.excuse = x
  OBVIOUS
<1> HIDE DEF q
<1>5. Backed(q) /\ Pinned(q)
  BY <1>4 DEF Backed, Pinned, Funded, Trying, Seated
<1>6. Straight(q)
  BY <1>4 DEF Straight, Trying
<1> QED
  BY <1>1, <1>3, <1>5, <1>6 DEF Sound

\* A handshake step keeps the invariant if what it reaches is in order and it is
\* refused only with an excuse.
LEMMA ReachesSound ==
  ASSUME GInv, AInv, NEW c \in Conn, NEW ok, NEW r, NEW unlucky, Reaches(c, ok, r, unlucky),
         NEW x, x = (conn[c].excuse \/ unlucky \/ now > conn[c].ts + Skew),
         NEW s, s = [r EXCEPT !.excuse = x],
         ok => s \in Attempt /\ Sound(s),
         ~ok => x
  PROVE  GInv' /\ AInv'
<1>1. x \in BOOLEAN
  OBVIOUS
<1>2. CASE ok
  <2>1. Becomes(c, s)
    BY <1>2 DEF Reaches
  <2> QED
    BY <1>2, <2>1, BecomesSound
<1>3. CASE ~ok
  <2>1. Becomes(c, [Idle EXCEPT !.stage = "refused", !.excuse = x]) /\ x = TRUE
    BY <1>1, <1>3 DEF Reaches
  <2> QED
    BY <2>1, RefusedSound, BecomesSound
<1> QED
  BY <1>2, <1>3

LEMMA AskSound ==
  ASSUME GInv, AInv, NEW c \in Conn, NEW k \in 1..newest, Ask(c, k),
         NEW x, x = (todo # {} \/ k # newest),
         NEW r, r = [Idle EXCEPT !.stage = "asking", !.key = k, !.ts = now, !.excuse = x]
  PROVE  GInv' /\ AInv'
<1>1. Becomes(c, r)
  BY DEF Ask
<1>2. k \in 0..newest /\ now \in 0..now /\ "asking" \in Stage /\ x \in BOOLEAN
  BY VouchedNat DEF GInv, AInv, Stage
<1>3. Idle \in Attempt /\ Idle.next = NoToken /\ Idle.token = NoToken
  BY IdleSound, IdleFields
<1>4. /\ r \in Attempt /\ r.stage = "asking" /\ r.key = k /\ r.next = NoToken
      /\ r.token = NoToken /\ r.ts = now /\ r.excuse = x
  BY <1>2, <1>3 DEF Attempt
<1>5. Backed(r) /\ Pinned(r)
  BY <1>4 DEF Backed, Pinned, Funded, Trying, Seated
<1>6. Straight(r)
  BY <1>4 DEF Straight, Trying, GInv, Placed
<1> QED
  BY <1>1, <1>4, <1>5, <1>6, BecomesSound DEF Sound

\* What is known of connection c while its handshake is under way.
LEMMA UnderWay ==
  ASSUME GInv, AInv, NEW c \in Conn, conn[c].stage \in Trying
  PROVE  /\ conn[c] \in Attempt /\ Backed(conn[c]) /\ Pinned(conn[c]) /\ Straight(conn[c])
         /\ conn[c].key \in 1..newest /\ conn[c].key \in 1..MaxKeys /\ conn[c].next = NoToken
         /\ conn[c].ts \in 0..now /\ conn[c].ts \in Nat /\ now \in Nat /\ Skew \in Nat
         /\ conn[c].excuse \in BOOLEAN
<1>1. conn[c] \in Attempt /\ Backed(conn[c]) /\ Pinned(conn[c]) /\ Straight(conn[c])
  BY DEF AInv, Sound
<1>2. conn[c].ts \in 0..now /\ conn[c].excuse \in BOOLEAN
  BY <1>1, AttemptFields
<1>3. now \in Nat /\ newest \in Nat /\ newest <= MaxKeys /\ MaxKeys \in Nat /\ Skew \in Nat
  BY VouchedNat, TimeAssumption DEF AInv
<1>4. conn[c].key \in 1..newest /\ conn[c].next = NoToken
  BY <1>1 DEF Backed, Trying
<1> QED
  BY <1>1, <1>2, <1>3, <1>4

LEMMA Unexcused ==
  ASSUME GInv, AInv, NEW c \in Conn, conn[c].stage \in Trying, NEW unlucky,
         NEW x, x = (conn[c].excuse \/ unlucky \/ now > conn[c].ts + Skew), ~x
  PROVE  /\ ~conn[c].excuse /\ ~unlucky /\ now <= conn[c].ts + Skew
         /\ todo = {} /\ conn[c].key = newest /\ board.boot <= conn[c].ts
<1>1. ~conn[c].excuse /\ ~unlucky /\ ~(now > conn[c].ts + Skew)
  OBVIOUS
<1>2. now <= conn[c].ts + Skew
  <2>1. now \in Nat /\ conn[c].ts \in Nat /\ Skew \in Nat /\ ~(now > conn[c].ts + Skew)
    BY <1>1, UnderWay
  <2> QED
    BY <2>1
<1>3. todo = {} /\ conn[c].key = newest /\ board.boot <= conn[c].ts
  BY <1>1, UnderWay DEF Straight
<1> QED
  BY <1>1, <1>2, <1>3

LEMMA GrantedFields ==
  ASSUME GInv, AInv, NEW k \in 1..newest, users = k, drones # 0
  PROVE  /\ Granted(k) \in Token /\ Granted(k).iat = now /\ Granted(k).cloud = cloud
         /\ Granted(k).pub = drones /\ Funded(Granted(k))
<1>1. /\ drones \in Challenge /\ now \in Time /\ cloud \in 1..MaxClouds /\ k \in 1..MaxKeys
      /\ now \in Nat /\ k \in Nat /\ k # 0
  BY VouchedNat DEF GInv, Placed, Enrolments, AInv
<1>2. vouched[k] = now
  BY <1>1 DEF AInv, Vouches
<1> QED
  BY <1>1, <1>2 DEF Granted, Token, Funded

LEMMA AnswerSound ==
  ASSUME GInv, AInv, NEW c \in Conn, Answer(c),
         NEW ok, ok = (Authorizes(conn[c].key, conn[c].ts) /\ cloud = cloudKey),
         NEW x, x = (conn[c].excuse \/ FALSE \/ now > conn[c].ts + Skew),
         NEW t, t = Granted(conn[c].key),
         NEW r, r = [conn[c] EXCEPT !.stage = "granted", !.token = t],
         NEW s, s = [r EXCEPT !.excuse = x]
  PROVE  GInv' /\ AInv'
<1>1. Reaches(c, ok, r, FALSE) /\ conn[c].stage = "asking"
  BY DEF Answer
<1>2. conn[c].stage \in Trying
  BY <1>1 DEF Trying
<1>3. ~x => ok
  <2>1. ~x => todo = {} /\ conn[c].key = newest /\ now <= conn[c].ts + Skew
    BY <1>2, Unexcused
  <2>2. todo = {} => users = newest /\ drones = Latest /\ cloudKey = cloud
    BY DEF GInv, Current
  <2>3. Latest # 0
    BY LatestIs DEF GInv
  <2> QED
    BY <2>1, <2>2, <2>3 DEF Authorizes
<1>4. ASSUME ok PROVE s \in Attempt /\ Sound(s)
  <2>1. users = conn[c].key /\ drones # 0
    BY <1>4 DEF Authorizes
  <2>2. t \in Token /\ t.iat = now /\ t.cloud = cloud /\ t.pub = drones /\ Funded(t)
    BY <1>2, <2>1, UnderWay, GrantedFields
  <2>3. /\ s \in Attempt /\ s.stage = "granted" /\ s.token = t
        /\ s.key = conn[c].key /\ s.ts = conn[c].ts /\ s.next = NoToken /\ s.excuse = x
    <3>1. "granted" \in Stage /\ x \in BOOLEAN
      BY DEF Stage
    <3>2. /\ r \in Attempt /\ r.stage = "granted" /\ r.token = t
          /\ r.key = conn[c].key /\ r.ts = conn[c].ts /\ r.next = conn[c].next
      BY <1>2, <2>2, <3>1, UnderWay DEF Attempt
    <3> QED
      BY <1>2, <3>1, <3>2, UnderWay DEF Attempt
  <2>4. Backed(s) /\ Pinned(s)
    BY <1>2, <2>2, <2>3, UnderWay DEF Backed, Pinned, Funded, Seated
  <2>5. Straight(s)
    <3>1. ~x => todo = {} /\ conn[c].key = newest /\ board.boot <= conn[c].ts
      BY <1>2, Unexcused
    <3>2. todo = {} => drones = Latest
      BY DEF GInv, Current
    <3>3. conn[c].ts <= now
      BY <1>2, UnderWay
    <3> QED
      BY <2>2, <2>3, <3>1, <3>2, <3>3 DEF Straight
  <2> QED
    BY <2>3, <2>4, <2>5 DEF Sound
<1> QED
  BY <1>1, <1>3, <1>4, ReachesSound

\* What the drone's board yields: the scalar of its black key or nothing, and
\* with the latest black key on its own die and mild noise, the scalar.
LEMMA BoardYields ==
  ASSUME GInv, NEW noise \in ReadNoise, NEW e, e = enrolled[board.key],
         NEW scalar, scalar = Unwrapped(board.die, Drone, e.helper, e.black, noise)
  PROVE  /\ scalar \in {board.key, NoScalar} /\ board.key \in DOMAIN enrolled
         /\ todo = {} /\ Mild(noise) /\ e.mild => scalar = Latest /\ Latest # NoScalar
<1>1. board.key \in DOMAIN enrolled /\ board.key \in Challenge /\ board.die \in Die
  BY DEF GInv, Placed, Enrolments
<1>2. PICK die \in Die, id \in Id, r \in Reference, z \in ReadNoise :
        e = Enrolment(die, id, board.key, r, z)
  BY <1>1 DEF GInv, Enrolments, Made
<1>3. e.die = die /\ e.id = id /\ e.mild = Mild(z)
  BY <1>2 DEF Enrolment
<1>4. scalar = Opened(die, id, board.key, r, z, board.die, Drone, noise)
  BY <1>2 DEF Opened
<1> DEFINE same == SameRead(die, z, board.die, noise, board.key)
<1>5. /\ same /\ Drone = id => scalar = board.key
      /\ ~(same /\ Drone = id) => scalar = NoScalar
  BY <1>1, <1>4, Unwrapping
<1>6. ASSUME todo = {}, Mild(noise), e.mild PROVE scalar = Latest /\ Latest # NoScalar
  <2>1. board.key = Latest /\ board.die = enrolled[Latest].die
    BY <1>6 DEF GInv, Current
  <2>2. board.die = die
    BY <1>3, <2>1
  <2>3. id = Drone /\ Latest # NoScalar
    BY <1>3, <2>1, LatestIs DEF GInv, Own, NoScalar
  <2>4. Clean[die][board.key] \in SUBSET Bit /\ noise \in Noise /\ z \in Noise
    BY <1>1, CleanAssumption, NoiseAssumption
  <2>5. /\ StableRead(Clean[die][board.key], noise) = Clean[die][board.key]
        /\ StableRead(Clean[die][board.key], z) = Clean[die][board.key]
    BY <1>3, <1>6, <2>4, MildRead
  <2> QED
    BY <1>5, <2>1, <2>2, <2>3, <2>5 DEF SameRead
<1> QED
  BY <1>1, <1>5, <1>6

LEMMA HelloSound ==
  ASSUME GInv, AInv, NEW c \in Conn, NEW noise \in ReadNoise, Hello(c, noise),
         NEW e, e = enrolled[board.key],
         NEW scalar, scalar = Unwrapped(board.die, Drone, e.helper, e.black, noise),
         NEW ok, ok = (Live(conn[c].token) /\ conn[c].token.iat >= board.boot
                        /\ userKey = conn[c].key /\ scalar # NoScalar),
         NEW unlucky, unlucky = ~(Mild(noise) /\ e.mild),
         NEW x, x = (conn[c].excuse \/ unlucky \/ now > conn[c].ts + Skew),
         NEW r, r = [conn[c] EXCEPT !.stage = "half", !.scalar = scalar],
         NEW s, s = [r EXCEPT !.excuse = x]
  PROVE  GInv' /\ AInv'
<1>1. Reaches(c, ok, r, unlucky) /\ conn[c].stage = "granted"
  BY DEF Hello
<1>2. conn[c].stage \in Trying
  BY <1>1 DEF Trying
<1>3. ~x => /\ ~conn[c].excuse /\ todo = {} /\ conn[c].key = newest
            /\ now <= conn[c].ts + Skew /\ board.boot <= conn[c].ts /\ Mild(noise) /\ e.mild
  BY <1>2, Unexcused
<1>4. /\ scalar \in {board.key, NoScalar} /\ board.key \in DOMAIN enrolled
      /\ todo = {} /\ Mild(noise) /\ e.mild => scalar = Latest /\ Latest # NoScalar
  BY BoardYields
<1>5. ~x => /\ conn[c].ts <= conn[c].token.iat /\ conn[c].token.cloud = cloud
            /\ conn[c].token.pub = Latest
  BY <1>1, <1>2, <1>3, UnderWay DEF Straight
<1>6. conn[c].token.iat \in Nat
  <2>1. conn[c].token \in Token \cup {NoToken}
    BY <1>2, UnderWay, AttemptFields
  <2>2. \A t \in Token \cup {NoToken} : t.iat \in Nat
    BY DEF Token, NoToken, Time
  <2> QED
    BY <2>1, <2>2
<1>7. ~x => ok
  <2>1. todo = {} => board.cloud = cloud /\ userKey = newest
    BY DEF GInv, Current
  <2>2. ~x => now <= conn[c].token.iat + TTL
    BY <1>2, <1>3, <1>5, <1>6, UnderWay, TimeAssumption
  <2>3. board.boot \in Nat
    BY DEF GInv, Placed, Time
  <2>4. ~x => conn[c].token.iat >= board.boot
    BY <1>2, <1>3, <1>5, <1>6, <2>3, UnderWay
  <2> QED
    BY <1>3, <1>4, <1>5, <2>1, <2>2, <2>4 DEF Live
<1>8. ASSUME ok PROVE s \in Attempt /\ Sound(s)
  <2>1. "half" \in Stage /\ x \in BOOLEAN /\ scalar \in DOMAIN enrolled \cup {NoScalar}
    BY <1>4 DEF Stage
  <2>2. /\ r \in Attempt /\ r.stage = "half" /\ r.scalar = scalar /\ r.token = conn[c].token
        /\ r.key = conn[c].key /\ r.ts = conn[c].ts /\ r.next = conn[c].next
    BY <1>2, <2>1, UnderWay DEF Attempt
  <2>3. /\ s \in Attempt /\ s.stage = "half" /\ s.scalar = scalar /\ s.token = conn[c].token
        /\ s.key = conn[c].key /\ s.ts = conn[c].ts /\ s.next = conn[c].next /\ s.excuse = x
    BY <2>1, <2>2 DEF Attempt
  <2>4. conn[c].token # NoToken
    <3>1. conn[c].token.cloud = board.cloud
      BY <1>8 DEF Live
    <3>2. board.cloud # 0
      BY DEF GInv, Placed
    <3> QED
      BY <3>1, <3>2 DEF NoToken
  <2>5. Backed(s) /\ Pinned(s)
    BY <1>2, <1>8, <2>3, <2>4, UnderWay DEF Backed, Pinned
  <2>6. Straight(s)
    BY <1>3, <1>4, <1>5, <2>3 DEF Straight
  <2> QED
    BY <2>3, <2>5, <2>6 DEF Sound
<1> QED
  BY <1>1, <1>7, <1>8, ReachesSound

LEMMA FinishSound ==
  ASSUME GInv, AInv, NEW c \in Conn, Finish(c),
         NEW ok, ok = Genuine(conn[c].token, conn[c].scalar),
         NEW x, x = (conn[c].excuse \/ FALSE \/ now > conn[c].ts + Skew),
         NEW r, r = [conn[c] EXCEPT !.stage = "confirmed"],
         NEW s, s = [r EXCEPT !.excuse = x]
  PROVE  GInv' /\ AInv'
<1>1. Reaches(c, ok, r, FALSE) /\ conn[c].stage = "half"
  BY DEF Finish
<1>2. conn[c].stage \in Trying
  BY <1>1 DEF Trying
<1>3. ~x => /\ ~conn[c].excuse /\ todo = {} /\ conn[c].key = newest
            /\ board.boot <= conn[c].ts
  BY <1>2, Unexcused
<1>4. ~x => /\ conn[c].ts <= conn[c].token.iat /\ conn[c].token.cloud = cloud
            /\ conn[c].token.pub = Latest /\ conn[c].scalar = Latest
  BY <1>1, <1>2, <1>3, UnderWay DEF Straight
<1>5. ~x => ok
  <2>1. todo = {} => pin = Latest
    BY DEF GInv, Current
  <2> QED
    BY <1>3, <1>4, <2>1 DEF Genuine
<1>6. s \in Attempt /\ Sound(s)
  <2>1. "confirmed" \in Stage /\ x \in BOOLEAN
    BY DEF Stage
  <2>2. /\ r \in Attempt /\ r.stage = "confirmed" /\ r.scalar = conn[c].scalar
        /\ r.token = conn[c].token /\ r.key = conn[c].key /\ r.ts = conn[c].ts
        /\ r.next = conn[c].next /\ r.overtaken = conn[c].overtaken
    BY <1>2, <2>1, UnderWay DEF Attempt
  <2>3. /\ s \in Attempt /\ s.stage = "confirmed" /\ s.scalar = conn[c].scalar
        /\ s.token = conn[c].token /\ s.key = conn[c].key /\ s.ts = conn[c].ts
        /\ s.next = conn[c].next /\ s.excuse = x /\ s.overtaken = conn[c].overtaken
    BY <2>1, <2>2 DEF Attempt
  <2>4. Backed(s) /\ Pinned(s)
    BY <1>1, <1>2, <2>3, UnderWay DEF Backed, Pinned, Seated
  <2>5. Straight(s)
    BY <1>3, <1>4, <2>3 DEF Straight
  <2> QED
    BY <2>3, <2>4, <2>5 DEF Sound
<1> QED
  BY <1>1, <1>5, <1>6, ReachesSound

LEMMA AckSound ==
  ASSUME GInv, AInv, NEW c \in Conn, Ack(c),
         NEW r, r = [conn[c] EXCEPT !.stage = "open", !.ts = 0, !.excuse = FALSE]
  PROVE  GInv' /\ AInv'
<1>1. Becomes(c, r) /\ conn[c].stage = "confirmed"
  BY DEF Ack
<1>2. conn[c].stage \in Trying
  BY <1>1 DEF Trying
<1>3. "open" \in Stage /\ 0 \in 0..now
  BY <1>2, UnderWay DEF Stage
<1>4. /\ r \in Attempt /\ r.stage = "open" /\ r.token = conn[c].token
      /\ r.key = conn[c].key /\ r.next = conn[c].next /\ r.overtaken = conn[c].overtaken
  BY <1>2, <1>3, UnderWay DEF Attempt
<1>5. Backed(r) /\ Pinned(r)
  BY <1>1, <1>2, <1>4, UnderWay DEF Backed, Pinned, Seated
<1>6. Straight(r)
  BY <1>4 DEF Straight, Trying
<1> QED
  BY <1>1, <1>4, <1>5, <1>6, BecomesSound DEF Sound

\* What is known of connection c while it is a session.
LEMMA InSession ==
  ASSUME GInv, AInv, NEW c \in Conn, conn[c].stage = "open"
  PROVE  /\ conn[c] \in Attempt /\ Backed(conn[c]) /\ Pinned(conn[c])
         /\ conn[c].key \in 1..newest
         /\ conn[c].token \in Token /\ conn[c].next \in Token \cup {NoToken}
  BY AttemptFields DEF AInv, Sound, Backed, Seated

\* A session is in order with another token to come or in place of its own.
LEMMA SessionSound ==
  ASSUME GInv, AInv, NEW c \in Conn, conn[c].stage = "open",
         NEW t \in Token, Funded(t), NEW u \in Token \cup {NoToken}, Funded(u),
         NEW r, r = [conn[c] EXCEPT !.next = u, !.token = t]
  PROVE  r \in Attempt /\ Sound(r)
<1>1. /\ conn[c] \in Attempt /\ Backed(conn[c]) /\ Pinned(conn[c])
      /\ conn[c].key \in 1..newest
  BY InSession
<1>2. t # NoToken
  BY DEF Token, NoToken, Time
<1>3. /\ r \in Attempt /\ r.stage = "open" /\ r.token = t /\ r.next = u
      /\ r.key = conn[c].key /\ r.overtaken = conn[c].overtaken
  BY <1>1 DEF Attempt
<1>4. Backed(r) /\ Pinned(r)
  BY <1>1, <1>2, <1>3 DEF Backed, Pinned
<1>5. Straight(r)
  BY <1>3 DEF Straight, Trying
<1> QED
  BY <1>3, <1>4, <1>5 DEF Sound

LEMMA Unfunded == Funded(NoToken) /\ NoToken \notin Token
  BY DEF Funded, NoToken, Token, Time

LEMMA RenewSound ==
  ASSUME GInv, AInv, NEW c \in Conn, Renew(c), NEW u, u = Granted(conn[c].key),
         NEW r, r = [conn[c] EXCEPT !.next = u]
  PROVE  GInv' /\ AInv'
<1>1. /\ Becomes(c, r) /\ conn[c].stage = "open" /\ users = conn[c].key /\ drones # 0
  BY DEF Renew, Authorizes
<1>2. u \in Token /\ Funded(u)
  BY <1>1, InSession, GrantedFields
<1>3. PICK t : t = conn[c].token
  OBVIOUS
<1>4. t \in Token /\ Funded(t) /\ conn[c] \in Attempt
  BY <1>1, <1>3, InSession DEF Backed
<1>5. r = [conn[c] EXCEPT !.next = u, !.token = t]
  BY <1>3, <1>4 DEF Attempt
<1> QED
  BY <1>1, <1>2, <1>4, <1>5, SessionSound, BecomesSound

LEMMA RefreshSound ==
  ASSUME GInv, AInv, NEW c \in Conn, Refresh(c),
         NEW token, token = (IF Live(conn[c].next) THEN conn[c].next ELSE conn[c].token),
         NEW r, r = [conn[c] EXCEPT !.next = NoToken, !.token = token]
  PROVE  GInv' /\ AInv'
<1>1. Becomes(c, r) /\ conn[c].stage = "open" /\ conn[c].next # NoToken
  BY DEF Refresh
<1>2. token \in Token /\ Funded(token)
  BY <1>1, InSession DEF Backed
<1> QED
  BY <1>1, <1>2, Unfunded, SessionSound, BecomesSound

\* An attempt that waits for its token or has it is in order with another one, if it is excused.
LEMMA ShownSound ==
  ASSUME GInv, AInv, NEW c \in Conn, conn[c].stage \in {"asking", "granted"},
         NEW t \in Token \cup {NoToken}, Funded(t),
         NEW r, r = [conn[c] EXCEPT !.stage = "granted", !.token = t, !.excuse = TRUE]
  PROVE  r \in Attempt /\ Sound(r)
<1>1. conn[c] \in Attempt /\ Backed(conn[c]) /\ conn[c].key \in 1..newest /\ conn[c].next = NoToken
  BY UnderWay DEF Trying
<1>2. /\ r \in Attempt /\ r.stage = "granted" /\ r.token = t /\ r.next = NoToken
      /\ r.key = conn[c].key /\ r.excuse = TRUE
  BY <1>1 DEF Attempt, Stage
<1>3. Backed(r) /\ Pinned(r)
  BY <1>1, <1>2, Unfunded DEF Backed, Pinned, Seated
<1>4. Straight(r)
  BY <1>2 DEF Straight
<1> QED
  BY <1>2, <1>3, <1>4 DEF Sound

LEMMA BorrowSound ==
  ASSUME GInv, AInv, NEW c \in Conn, Borrow(c), NEW u, u = spare
  PROVE  GInv' /\ AInv'
<1>1. /\ u \in Token \cup {NoToken} /\ Funded(u) /\ u # NoToken
      /\ UNCHANGED <<now, owners, spare, todo, vouched>>
  BY DEF Borrow, AInv
<1>2. incidents' \in 0..MaxIncidents
  BY IncidentTyped DEF Borrow, GInv, Placed
<1>3. CASE /\ conn[c].stage = "asking"
           /\ conn' = [conn EXCEPT ![c] = [@ EXCEPT !.stage = "granted", !.token = spare,
                                                    !.excuse = TRUE]]
  <2>1. PICK r : r = [conn[c] EXCEPT !.stage = "granted", !.token = u, !.excuse = TRUE]
    OBVIOUS
  <2>2. conn' = [conn EXCEPT ![c] = r]
    BY <1>3, <2>1
  <2>3. r \in Attempt /\ Sound(r)
    BY <1>1, <1>3, <2>1, ShownSound
  <2> QED
    BY <1>1, <1>2, <2>2, <2>3, Quietly
<1>4. CASE /\ conn[c].stage = "open"
           /\ conn' = [conn EXCEPT ![c] = [@ EXCEPT !.next = spare]]
  <2>1. PICK t : t = conn[c].token
    OBVIOUS
  <2>2. PICK r : r = [conn[c] EXCEPT !.next = u, !.token = t]
    OBVIOUS
  <2>3. t \in Token /\ Funded(t) /\ conn[c] \in Attempt
    BY <1>4, <2>1, InSession DEF Backed
  <2>4. r = [conn[c] EXCEPT !.next = u]
    BY <2>1, <2>2, <2>3 DEF Attempt
  <2>5. conn' = [conn EXCEPT ![c] = r]
    BY <1>4, <2>4
  <2>6. r \in Attempt /\ Sound(r)
    BY <1>1, <1>4, <2>2, <2>3, SessionSound
  <2> QED
    BY <1>1, <1>2, <2>5, <2>6, Quietly
<1> QED
  BY <1>3, <1>4 DEF Borrow

LEMMA ForestallSound ==
  ASSUME GInv, AInv, NEW c \in Conn, Forestall(c)
  PROVE  GInv' /\ AInv'
<1>1. UNCHANGED <<now, owners, spare, todo, vouched>>
  BY DEF Forestall
<1>2. incidents' \in 0..MaxIncidents
  BY IncidentTyped DEF Forestall, GInv, Placed
<1>3. CASE /\ conn[c].stage = "granted"
           /\ conn' = [conn EXCEPT ![c].token = NoToken, ![c].excuse = TRUE]
  <2>1. PICK r : r = [conn[c] EXCEPT !.stage = "granted", !.token = NoToken, !.excuse = TRUE]
    OBVIOUS
  <2>2. conn[c] \in Attempt /\ conn \in [Conn -> Attempt]
    BY DEF AInv
  <2>3. r = [conn[c] EXCEPT !.token = NoToken, !.excuse = TRUE]
    BY <1>3, <2>1, <2>2 DEF Attempt
  <2>4. conn' = [conn EXCEPT ![c] = r]
    BY <1>3, <2>2, <2>3
  <2>5. r \in Attempt /\ Sound(r)
    BY <1>3, <2>1, Unfunded, ShownSound
  <2> QED
    BY <1>1, <1>2, <2>4, <2>5, Quietly
<1>4. CASE /\ conn[c].stage = "open"
           /\ conn' = [conn EXCEPT ![c].next = NoToken]
  <2>1. PICK t : t = conn[c].token
    OBVIOUS
  <2>2. PICK r : r = [conn[c] EXCEPT !.next = NoToken, !.token = t]
    OBVIOUS
  <2>3. t \in Token /\ Funded(t) /\ conn[c] \in Attempt
    BY <1>4, <2>1, InSession DEF Backed
  <2>4. r = [conn[c] EXCEPT !.next = NoToken]
    BY <2>1, <2>2, <2>3 DEF Attempt
  <2>5. conn' = [conn EXCEPT ![c] = r]
    BY <1>4, <2>4
  <2>6. r \in Attempt /\ Sound(r)
    BY <1>4, <2>2, <2>3, Unfunded, SessionSound
  <2> QED
    BY <1>1, <1>2, <2>5, <2>6, Quietly
<1> QED
  BY <1>3, <1>4 DEF Forestall

LEMMA SpillSound ==
  ASSUME GInv, AInv, Spill
  PROVE  GInv' /\ AInv'
<1>1. UNCHANGED <<now, owners, conn, todo, vouched>>
  BY DEF Spill
<1>2. incidents' \in 0..MaxIncidents
  BY IncidentTyped DEF Spill, GInv, Placed
<1>3. /\ GInv' /\ Attempt' = Attempt /\ (Vouches' <=> Vouches)
      /\ \A x : (Sound(x) => Sound(x)') /\ (Funded(x) => Funded(x)')
  BY <1>1, <1>2, Still
<1>4. PICK k \in 1..newest : Authorizes(k, now) /\ spare' = Granted(k)
  BY DEF Spill
<1>5. PICK t : t = spare'
  OBVIOUS
<1>6. t \in Token /\ Funded(t)
  BY <1>4, <1>5, GrantedFields DEF Authorizes
<1>7. spare' \in Token /\ Funded(spare)'
  BY <1>3, <1>5, <1>6 DEF Funded
<1>8. ASSUME NEW o \in Conn PROVE Sound(conn[o])'
  <2>1. PICK x : x = conn[o]
    OBVIOUS
  <2>2. Sound(x)' /\ conn'[o] = x
    BY <1>1, <1>3, <2>1 DEF AInv
  <2> QED
    BY <2>2 DEF Sound, Backed, Pinned, Straight, Funded
<1> QED
  BY <1>1, <1>3, <1>7, <1>8 DEF AInv

LEMMA StepSound ==
  ASSUME GInv, AInv, NEW c \in Conn, Step(c)
  PROVE  GInv' /\ AInv'
<1>1. ASSUME NEW k \in 1..newest, Ask(c, k) PROVE GInv' /\ AInv'
  <2>1. PICK x : x = (todo # {} \/ k # newest)
    OBVIOUS
  <2>2. PICK r : r = [Idle EXCEPT !.stage = "asking", !.key = k, !.ts = now, !.excuse = x]
    OBVIOUS
  <2> QED
    BY <1>1, <2>1, <2>2, AskSound
<1>2. ASSUME NEW noise \in ReadNoise, Hello(c, noise) PROVE GInv' /\ AInv'
  <2>1. PICK e : e = enrolled[board.key]
    OBVIOUS
  <2>2. PICK scalar : scalar = Unwrapped(board.die, Drone, e.helper, e.black, noise)
    OBVIOUS
  <2>3. PICK ok : ok = (Live(conn[c].token) /\ conn[c].token.iat >= board.boot
                          /\ userKey = conn[c].key /\ scalar # NoScalar)
    OBVIOUS
  <2>4. PICK unlucky : unlucky = ~(Mild(noise) /\ e.mild)
    OBVIOUS
  <2>5. PICK x : x = (conn[c].excuse \/ unlucky \/ now > conn[c].ts + Skew)
    OBVIOUS
  <2>6. PICK r : r = [conn[c] EXCEPT !.stage = "half", !.scalar = scalar]
    OBVIOUS
  <2>7. PICK s : s = [r EXCEPT !.excuse = x]
    OBVIOUS
  <2> QED
    BY <1>2, <2>1, <2>2, <2>3, <2>4, <2>5, <2>6, <2>7, HelloSound
<1>3. CASE Answer(c)
  <2>1. PICK ok : ok = (Authorizes(conn[c].key, conn[c].ts) /\ cloud = cloudKey)
    OBVIOUS
  <2>2. PICK x : x = (conn[c].excuse \/ FALSE \/ now > conn[c].ts + Skew)
    OBVIOUS
  <2>3. PICK t : t = Granted(conn[c].key)
    OBVIOUS
  <2>4. PICK r : r = [conn[c] EXCEPT !.stage = "granted", !.token = t]
    OBVIOUS
  <2>5. PICK s : s = [r EXCEPT !.excuse = x]
    OBVIOUS
  <2> QED
    BY <1>3, <2>1, <2>2, <2>3, <2>4, <2>5, AnswerSound
<1>4. CASE Finish(c)
  <2>1. PICK ok : ok = Genuine(conn[c].token, conn[c].scalar)
    OBVIOUS
  <2>2. PICK x : x = (conn[c].excuse \/ FALSE \/ now > conn[c].ts + Skew)
    OBVIOUS
  <2>3. PICK r : r = [conn[c] EXCEPT !.stage = "confirmed"]
    OBVIOUS
  <2>4. PICK s : s = [r EXCEPT !.excuse = x]
    OBVIOUS
  <2> QED
    BY <1>4, <2>1, <2>2, <2>3, <2>4, FinishSound
<1>5. CASE Ack(c)
  BY <1>5, AckSound
<1>6. CASE Renew(c)
  BY <1>6, RenewSound
<1>7. CASE Refresh(c)
  BY <1>7, RefreshSound
<1>8. CASE Leave(c)
  BY <1>8, LeaveSound
<1>9. CASE Borrow(c)
  BY <1>9, BorrowSound
<1>10. CASE Forestall(c)
  BY <1>10, ForestallSound
<1> QED
  BY <1>1, <1>2, <1>3, <1>4, <1>5, <1>6, <1>7, <1>8, <1>9, <1>10 DEF Step

LEMMA StutterSound ==
  ASSUME GInv, AInv, UNCHANGED vars
  PROVE  GInv' /\ AInv'
<1>1. UNCHANGED <<now, newest, cloud, users, drones, userKey, pin, cloudKey, enrolled, board,
                  spare, conn, todo, incidents, vouched>>
  BY DEF vars, owners
<1>2. Enrolments' /\ Latest' = Latest
  BY <1>1, SameEnrolments DEF GInv
<1>3. GInv'
  BY <1>1, <1>2 DEF GInv, Placed, Current
<1>4. AInv'
  BY <1>1, <1>2 DEF AInv, Attempt, Vouches, Sound, Backed, Pinned, Straight, Funded
<1> QED
  BY <1>3, <1>4

LEMMA NextSound == GInv /\ AInv /\ [Next]_vars => GInv' /\ AInv'
  BY TickSound, SpillSound, OwnerSound, StepSound, StutterSound DEF Next

LEMMA AlwaysSound == Spec => [](GInv /\ AInv)
<1>1. Init => GInv /\ AInv
  BY InitSound
<1>2. GInv /\ AInv /\ [Next]_vars => (GInv /\ AInv)'
  BY NextSound
<1> QED
  BY <1>1, <1>2, PTL DEF Spec

-----------------------------------------------------------------------------
(* The theorems. *)

\* Every variable has its type.
THEOREM TypeCorrect == Spec => []TypeOK
<1>1. GInv /\ AInv => TypeOK
  <2> SUFFICES ASSUME GInv, AInv PROVE TypeOK
    OBVIOUS
  <2>1. /\ newest \in Nat /\ newest <= MaxKeys /\ cloud \in Nat /\ cloud <= MaxClouds
        /\ now \in Nat /\ now <= MaxTime /\ MaxKeys \in Nat /\ MaxClouds \in Nat
        /\ MaxTime \in Nat
    BY TimeAssumption, BoundAssumption DEF GInv, Placed, Time
  <2>2. /\ 0..newest \subseteq 0..MaxKeys /\ 1..newest \subseteq 1..MaxKeys
        /\ 1..cloud \subseteq 1..MaxClouds /\ 0..now \subseteq 0..MaxTime
    BY <2>1
  <2>3. /\ users \in 0..MaxKeys /\ userKey \in 1..MaxKeys /\ cloudKey \in 1..MaxClouds
        /\ board \in [die : Die, key : DOMAIN enrolled, cloud : 1..MaxClouds, boot : Time]
    BY <2>2 DEF GInv, Placed
  <2>4. conn \in [Conn -> [stage : Stage, key : 0..newest, ts : 0..MaxTime,
                        token : Token \cup {NoToken}, next : Token \cup {NoToken},
                        scalar : DOMAIN enrolled \cup {NoScalar}, excuse : BOOLEAN,
                        overtaken : BOOLEAN]]
    BY <2>2 DEF AInv, Attempt
  <2>5. vouched \in [1..MaxKeys -> 0..MaxTime]
    BY <2>2 DEF AInv, Vouches
  <2> QED
    BY <2>3, <2>4, <2>5 DEF TypeOK, GInv, AInv, Placed, Enrolments, Steps
<1> QED
  BY <1>1, AlwaysSound, PTL

\* Whatever die is read, and however badly, the KEK enrolled comes out or none.
THEOREM KekExactOrRefusedHolds == Spec => []KekExactOrRefused
<1>1. GInv => KekExactOrRefused
  <2> SUFFICES ASSUME GInv, NEW n \in DOMAIN enrolled, NEW other \in Die, NEW y \in ReadNoise
               PROVE  Regenerated(other, enrolled[n].helper, y) \in {enrolled[n].black.key, NoKek}
    BY DEF KekExactOrRefused
  <2>1. PICK die \in Die, id \in Id, r \in Reference, z \in ReadNoise :
          enrolled[n] = Enrolment(die, id, n, r, z)
    BY DEF GInv, Enrolments, Made
  <2>2. enrolled[n].helper = Helper(die, n, r, z) /\ enrolled[n].black.key = Kek(r, n)
    BY <2>1 DEF Enrolment, BlackKey
  <2>3. n \in Challenge
    BY DEF GInv, Enrolments
  <2> QED
    BY <2>2, <2>3, Regeneration
<1> QED
  BY <1>1, AlwaysSound, PTL

\* A black key opens only on its die and under its drone id, and to its scalar.
THEOREM SealedToTheBoardHolds == Spec => []SealedToTheBoard
<1>1. GInv => SealedToTheBoard
  <2> SUFFICES ASSUME GInv, NEW n \in DOMAIN enrolled, NEW other \in Die, NEW oid \in Id,
                      NEW y \in ReadNoise, NEW e, e = enrolled[n],
                      NEW scalar, scalar = Unwrapped(other, oid, e.helper, e.black, y),
                      scalar # NoScalar
               PROVE  scalar = n /\ other = e.die /\ oid = e.id
    BY DEF SealedToTheBoard
  <2>1. PICK die \in Die, id \in Id, r \in Reference, z \in ReadNoise :
          e = Enrolment(die, id, n, r, z)
    BY DEF GInv, Enrolments, Made
  <2>2. e.die = die /\ e.id = id
    BY <2>1 DEF Enrolment
  <2>3. n \in Challenge
    BY DEF GInv, Enrolments
  <2>4. scalar = Opened(die, id, n, r, z, other, oid, y)
    BY <2>1 DEF Opened
  <2>5. SameRead(die, z, other, y, n) /\ oid = id /\ scalar = n
    BY <2>3, <2>4, Unwrapping
  <2>6. other = die
    BY <2>3, <2>5, DiesApartAssumption DEF SameRead
  <2> QED
    BY <2>2, <2>5, <2>6
<1> QED
  BY <1>1, AlwaysSound, PTL

\* Whoever commands does so within one token lifetime of a moment when the cloud had the
\* key on record that the token was asked for with, and under the key the drone has pinned
\* or, in a session older than that pin, had pinned.
THEOREM RetiredKeyContainedHolds == Spec => []RetiredKeyContained
<1>1. GInv /\ AInv => RetiredKeyContained
  <2> SUFFICES ASSUME GInv, AInv, NEW c \in Conn, MayCommand(c)
               PROVE  /\ now <= vouched[conn[c].token.key] + TTL
                      /\ conn[c].key = userKey \/ conn[c].overtaken
    BY DEF RetiredKeyContained
  <2>1. PICK t : t = conn[c].token
    OBVIOUS
  <2>2. /\ conn[c].stage = "open" /\ now <= t.iat + TTL
    BY <2>1 DEF MayCommand
  <2>3. t \in Token /\ Funded(t)
    BY <2>1, <2>2, InSession DEF Backed
  <2>4. t.iat \in Nat /\ t.key \in 1..MaxKeys
    BY <2>3 DEF Token, Time
  <2>5. t.iat <= vouched[t.key]
    BY <2>3, Unfunded DEF Funded
  <2>6. vouched[t.key] \in Nat /\ now \in Nat
    BY <2>4, VouchedNat DEF AInv
  <2>7. now <= vouched[t.key] + TTL
    BY <2>2, <2>4, <2>5, <2>6, TimeAssumption
  <2>8. conn[c].key = userKey \/ conn[c].overtaken
    BY <2>2, InSession DEF Pinned, Seated
  <2> QED
    BY <2>1, <2>7, <2>8
<1> QED
  BY <1>1, AlwaysSound, PTL

\* Nobody with the newest key is turned away without cause.
THEOREM NoFalseRefusalHolds == Spec => []NoFalseRefusal
<1>1. AInv => NoFalseRefusal
  BY DEF AInv, Sound, Straight, NoFalseRefusal
<1> QED
  BY <1>1, AlwaysSound, PTL

\* Only Finish confirms a handshake.
LEMMA OnlyFinishConfirms ==
  ASSUME AInv, [Next]_vars, NEW c \in Conn,
         conn[c].stage = "half", conn'[c].stage = "confirmed"
  PROVE  Finish(c)
<1>1. conn'[c] # conn[c]
  OBVIOUS
<1>2. conn'[c] # Idle
  BY IdleFields
<1>3. ~Disturb /\ ~Overtake
  <2>1. PICK r : r = conn[c]
    OBVIOUS
  <2>2. r \in Attempt
    BY <2>1 DEF AInv
  <2>3. ASSUME Disturb PROVE FALSE
    BY <2>1, <2>2, <2>3 DEF Disturb, Attempt
  <2>4. ASSUME Overtake PROVE FALSE
    <3>1. PICK x, y : conn'[c] = [r EXCEPT !.excuse = x, !.overtaken = y]
      BY <2>1, <2>4 DEF Overtake
    <3> QED
      BY <2>1, <2>2, <3>1 DEF Attempt
  <2> QED
    BY <2>3, <2>4
<1>4. ~Hangup
  BY <1>2 DEF Hangup
<1>5. ~Tick /\ ~Spill /\ ~CloudRestart /\ ~Owner /\ ~UNCHANGED vars
  <2>1. ~Tick /\ ~Spill /\ ~UNCHANGED vars
    BY <1>1 DEF Tick, Spill, vars
  <2>2. ~CloudRestart /\ ~Owner
    BY <1>3, <1>4
    DEF CloudRestart, Owner, NewKey, ReprovisionUserKey, PinDrone, PinCloud, RegisterUser,
        EnrollDrone, RegisterDrone, AttachDrone
  <2> QED
    BY <2>1, <2>2
<1>6. PICK o \in Conn : Step(o)
  BY <1>5 DEF Next
<1>7. ASSUME Borrow(o) \/ Forestall(o) PROVE FALSE
  <2>1. conn[o].stage \in {"asking", "granted", "open"}
    BY <1>7 DEF Borrow, Forestall
  <2>2. o # c
    BY <2>1
  <2>3. conn'[c] = conn[c]
    BY <1>7, <2>2 DEF Borrow, Forestall, AInv
  <2> QED
    BY <1>1, <2>3
<1>8. ~Leave(o)
  BY <1>1, <1>2 DEF Leave, AInv
<1>9. PICK r : Becomes(o, r)
  BY <1>6, <1>7, <1>8 DEF Step, Ask, Hello, Answer, Finish, Ack, Renew, Refresh, Reaches
<1>10. o = c
  BY <1>1, <1>9 DEF Becomes, AInv
<1> QED
  BY <1>6, <1>7, <1>8, <1>10 DEF Step, Ask, Hello, Answer, Ack, Renew, Refresh

\* With the newest enrolment pinned, no handshake completes with an older board.
THEOREM RetiredBoardLockedOutHolds == Spec => RetiredBoardLockedOut
<1>1. GInv /\ AInv /\ [Next]_vars =>
        [\A c \in Conn : conn[c].stage = "half" /\ conn'[c].stage = "confirmed"
           => "pin" \in todo \/ conn[c].scalar = Latest]_vars
  <2> SUFFICES ASSUME GInv, AInv, [Next]_vars, NEW c \in Conn,
                      conn[c].stage = "half", conn'[c].stage = "confirmed", "pin" \notin todo
               PROVE  conn[c].scalar = Latest
    OBVIOUS
  <2>1. Finish(c)
    BY OnlyFinishConfirms
  <2>2. pin = Latest
    BY DEF GInv, Current
  <2>3. Genuine(conn[c].token, conn[c].scalar)
    <3> SUFFICES ASSUME ~Genuine(conn[c].token, conn[c].scalar) PROVE FALSE
      OBVIOUS
    <3>1. PICK x : conn' = [conn EXCEPT ![c] = [Idle EXCEPT !.stage = "refused", !.excuse = x]]
      BY <2>1 DEF Finish, Reaches, Becomes
    <3>2. conn'[c].stage = "refused"
      BY <3>1 DEF AInv, Idle
    <3> QED
      BY <3>2
  <2> QED
    BY <2>2, <2>3 DEF Genuine
<1> QED
  BY <1>1, AlwaysSound, PTL DEF Spec, RetiredBoardLockedOut
=============================================================================
