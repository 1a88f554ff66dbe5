------------------------- MODULE AuthorizationProofs -------------------------
(***************************************************************************)
(* Authorization for any number of users, connections, tokens and policies. *)
(* Two chains carry it: a session's deadline is its grant's, and a grant    *)
(* was signed while its user was allowed; and a token that is held anywhere *)
(* is still in the cache or has expired, so it is not taken a second time   *)
(* but by a handler during which it expires.                                *)
(***************************************************************************)
EXTENDS Authorization, FiniteSetTheorems, TLAPS

\* The deadline of an open session is that of the token it lives off.
DeadlineIsGrants == \A s \in Sess : IsOpen(s) => sess[s].authExp = Exp(grant[s])

\* A token is dated no later than the last time its user was allowed.
SignedWhileAllowed ==
  /\ \A t \in tokens : t.iat <= lastAllowed[t.user]
  /\ \A u \in User : lastAllowed[u] <= now /\ (u \in allowed => lastAllowed[u] = now)

\* Pruning forgets no live token that is held or has carried a session.
Spent(t)    == t \in cache \/ Expired(t)
HeldIsSpent == /\ \A s \in Sess : \A t \in Holds(s) : Spent(t)
               /\ \A t \in lived : Spent(t)

\* A live token waiting for its ack has carried no session yet.
PendingIsNew == \A s \in Sess : \A t \in lived : pending[s] = t => Expired(t)

\* A command runs only on a session that is open and within its deadline.
RanIsPermitted == \A s \in ran : IsOpen(s) /\ now <= sess[s].authExp

\* No policy shown to a session is newer than its guard.
SeenIsGuarded == \A s \in Sess : IsOpen(s) => \A q \in seen[s] : q.ts <= sess[s].policyTs

IInv == /\ TypeOK /\ IsFiniteSet(tokens) /\ DeadlineIsGrants /\ SignedWhileAllowed
        /\ HeldIsSpent /\ PendingIsNew /\ GrantsNotShared /\ GrantIsOwn
        /\ RanIsPermitted /\ SeenIsGuarded

USE TimeAssumption, BoundAssumption

LEMMA TokenFields ==
  ASSUME TypeOK, NEW t \in tokens
  PROVE  /\ t # NoToken /\ t.user \in User /\ t.user # NoUser
         /\ t.iat \in Time /\ Exp(t) \in 0..(MaxTime + TTL) /\ Exp(t) \in Nat
<1>1. t.id \in 1..MaxTokens /\ t.user \in User /\ t.iat \in Time
  BY DEF TypeOK, Token
<1>2. t # NoToken
  BY <1>1 DEF NoToken
<1> QED
  BY <1>1, <1>2, NobodyAssumption DEF Exp, Time

\* Once expired, always expired.
LEMMA ExpiredStays ==
  ASSUME TypeOK, now' \in Time, now' >= now, NEW t \in tokens
  PROVE  Expired(t) => Expired(t)'
<1>1. now \in Nat /\ now' \in Nat /\ Exp(t) \in Nat
  BY TokenFields DEF TypeOK, Time
<1> QED
  BY <1>1 DEF Expired, Exp

LEMMA HoldsTyped ==
  ASSUME TypeOK, NEW s \in Sess
  PROVE  Holds(s) \subseteq tokens
  BY DEF TypeOK, Holds

LEMMA InitIInv == Init => IInv
<1> SUFFICES ASSUME Init PROVE IInv
  OBVIOUS
<1> USE DEF Init
<1>1. sess \in [Sess -> Session]
  BY DEF Closed, Session
<1>2. TypeOK
  BY <1>1 DEF TypeOK, Time
<1>3. \A s \in Sess : ~IsOpen(s) /\ Holds(s) = {} /\ grant[s] = NoToken
  BY DEF IsOpen, Closed, Holds
<1>4. SignedWhileAllowed
  BY DEF SignedWhileAllowed
<1>5. IsFiniteSet(tokens)
  BY FS_EmptySet
<1>6. GrantsNotShared /\ HeldIsSpent /\ PendingIsNew
  BY <1>3 DEF GrantsNotShared, HeldIsSpent, PendingIsNew
<1> QED
  BY <1>2, <1>3, <1>4, <1>5, <1>6
     DEF IInv, DeadlineIsGrants, GrantIsOwn, RanIsPermitted, SeenIsGuarded

\* Steps of the cloud and the clock leave every session alone; the cache loses
\* expired tokens at most.
LEMMA AsideStep ==
  ASSUME IInv, UNCHANGED held, ran' = {}, tokens \subseteq tokens',
         now' \in Time, now' >= now, cache \ cache' \subseteq {t \in tokens : Expired(t)'}
  PROVE  DeadlineIsGrants' /\ HeldIsSpent' /\ PendingIsNew' /\ GrantsNotShared' /\ GrantIsOwn'
         /\ RanIsPermitted' /\ SeenIsGuarded'
<1> USE DEF held
<1>1. \A s \in Sess : Holds(s)' = Holds(s) /\ IsOpen(s)' = IsOpen(s) /\ Holds(s) \subseteq tokens
  BY HoldsTyped DEF Holds, IsOpen, IInv
<1>2. DeadlineIsGrants'
  BY <1>1 DEF IInv, DeadlineIsGrants, Exp
<1>3. lived \subseteq tokens /\ \A t \in tokens : Expired(t) => Expired(t)'
  BY ExpiredStays DEF IInv, TypeOK
<1>4. \A t \in tokens : Spent(t) => Spent(t)'
  BY <1>3 DEF Spent
<1>5. HeldIsSpent'
  BY <1>1, <1>3, <1>4 DEF IInv, HeldIsSpent
<1>6. PendingIsNew'
  BY <1>3 DEF IInv, PendingIsNew
<1>7. GrantsNotShared'
  <2>1. \A s \in Sess : grant[s] # NoToken => grant[s] \in tokens
    BY DEF IInv, TypeOK
  <2> QED
    BY <1>1, <1>3, <2>1 DEF IInv, GrantsNotShared
<1>8. GrantIsOwn' /\ SeenIsGuarded'
  BY <1>1 DEF IInv, GrantIsOwn, SeenIsGuarded
<1>9. RanIsPermitted'
  BY DEF RanIsPermitted
<1> QED
  BY <1>2, <1>5, <1>6, <1>7, <1>8, <1>9

\* The clock keeps lastAllowed in step.
LEMMA PassStep ==
  ASSUME TypeOK, SignedWhileAllowed, NEW later \in Time, Pass(later), UNCHANGED <<allowed, tokens>>
  PROVE  /\ now' \in Time /\ now' >= now
         /\ lastAllowed' \in [User -> 0..MaxTime] /\ SignedWhileAllowed'
<1>1. now \in Nat /\ now' = later /\ later \in Nat /\ later >= now /\ later \in 0..MaxTime
  BY DEF Pass, TypeOK, Time
<1>2. lastAllowed' \in [User -> 0..MaxTime]
  BY <1>1 DEF Pass, TypeOK
<1>3. SignedWhileAllowed'
  <2>1. \A u \in User : lastAllowed[u] \in Nat /\ lastAllowed[u] <= now
    BY DEF TypeOK, SignedWhileAllowed
  <2>2. \A u \in User : lastAllowed'[u] >= lastAllowed[u] /\ lastAllowed'[u] <= now'
                        /\ (u \in allowed => lastAllowed'[u] = now')
    BY <1>1, <2>1 DEF Pass
  <2>3. \A t \in tokens : t.user \in User /\ t.iat \in Nat
    BY TokenFields DEF Time
  <2>4. \A u \in User : lastAllowed'[u] \in Nat
    BY <1>2
  <2> QED
    BY <2>1, <2>2, <2>3, <2>4 DEF SignedWhileAllowed
<1> QED
  BY <1>1, <1>2, <1>3

LEMMA TickStep == ASSUME IInv, Tick PROVE IInv'
<1> USE DEF Tick, attested, held
<1>1. now + 1 \in Time
  BY DEF IInv, TypeOK, Time
<1>2. now' \in Time /\ now' >= now /\ lastAllowed' \in [User -> 0..MaxTime] /\ SignedWhileAllowed'
  BY <1>1, PassStep DEF IInv
<1>3. TypeOK'
  BY <1>2 DEF IInv, TypeOK
<1> QED
  BY <1>2, <1>3, AsideStep DEF IInv

LEMMA RegisterStep == ASSUME IInv, NEW users \in SUBSET User, RegisterDrone(users) PROVE IInv'
<1> USE DEF RegisterDrone, attested, held
<1>1. now \in Nat /\ now \in 0..MaxTime /\ now \in Time
  BY DEF IInv, TypeOK, Time
<1>2. lastAllowed' \in [User -> 0..MaxTime]
  BY <1>1 DEF IInv, TypeOK
<1>3. TypeOK'
  BY <1>2 DEF IInv, TypeOK
<1>4. SignedWhileAllowed'
  <2>1. \A u \in User : lastAllowed[u] \in Nat /\ lastAllowed[u] <= now
    BY DEF IInv, TypeOK, SignedWhileAllowed
  <2>2. \A u \in User : lastAllowed'[u] >= lastAllowed[u] /\ lastAllowed'[u] <= now'
                        /\ (u \in users => lastAllowed'[u] = now)
    BY <1>1, <2>1
  <2>3. \A t \in tokens : t.user \in User /\ t.iat \in Nat
    BY TokenFields DEF IInv, Time
  <2>4. \A u \in User : lastAllowed'[u] \in Nat
    BY <1>2
  <2> QED
    BY <2>1, <2>2, <2>3, <2>4 DEF IInv, SignedWhileAllowed
<1> QED
  BY <1>1, <1>3, <1>4, AsideStep DEF IInv

LEMMA AuthorizeStep == ASSUME IInv, NEW u \in User, Authorize(u) PROVE IInv'
<1> DEFINE t == [id |-> Cardinality(tokens) + 1, user |-> u, iat |-> now]
<1> USE DEF Authorize, held
<1>1. Cardinality(tokens) \in Nat /\ now \in Nat
  BY FS_CardinalityType DEF IInv, TypeOK, Time
<1>2. t \in Token /\ t.user = u /\ t.iat = now
  BY <1>1 DEF Token, IInv, TypeOK
<1>3. IsFiniteSet(tokens')
  BY FS_AddElement DEF IInv
<1>4. TypeOK'
  BY <1>2 DEF IInv, TypeOK
<1>5. SignedWhileAllowed'
  BY <1>2 DEF IInv, SignedWhileAllowed, MayBeSigned
<1> QED
  BY <1>1, <1>3, <1>4, <1>5, AsideStep DEF IInv, TypeOK

LEMMA SignPolicyStep == ASSUME IInv, NEW control \in BOOLEAN, SignPolicy(control) PROVE IInv'
<1> USE DEF SignPolicy, held
<1>1. [ts |-> now, control |-> control] \in Policy /\ now \in Nat
  BY DEF IInv, TypeOK, Policy, Time
<1>2. TypeOK'
  BY <1>1 DEF IInv, TypeOK
<1>3. SignedWhileAllowed'
  BY DEF IInv, SignedWhileAllowed
<1> QED
  BY <1>1, <1>2, <1>3, AsideStep DEF IInv, TypeOK

LEMMA RefuseStep == ASSUME IInv, NEW later \in Time, Refuse(later) PROVE IInv'
<1> USE DEF Refuse, attested, held
<1>1. now' \in Time /\ now' >= now /\ lastAllowed' \in [User -> 0..MaxTime] /\ SignedWhileAllowed'
  BY PassStep DEF IInv
<1>2. TypeOK'
  BY <1>1 DEF IInv, TypeOK, Unexpired
<1>3. cache \ cache' \subseteq {t \in tokens : Expired(t)'}
  <2> SUFFICES ASSUME NEW t \in cache \ cache' PROVE t \in tokens /\ Expired(t)'
    OBVIOUS
  <2>1. t \in tokens /\ ~(later <= Exp(t)) /\ now' = later
    BY DEF Unexpired, IInv, TypeOK, Pass
  <2>2. Exp(t) \in Nat /\ later \in Nat
    BY <2>1, TokenFields DEF IInv, Time
  <2> QED
    BY <2>1, <2>2 DEF Expired, Exp
<1> QED
  BY <1>1, <1>2, <1>3, AsideStep DEF IInv

LEMMA RestartStep == ASSUME IInv, NEW later \in Time, Restart(later) PROVE IInv'
<1> USE DEF Restart, attested
<1>1. now' \in Time /\ now' >= now /\ lastAllowed' \in [User -> 0..MaxTime] /\ SignedWhileAllowed'
  BY PassStep DEF IInv
<1>2. Closed \in Session
  BY DEF Closed, Session
<1>3. TypeOK'
  BY <1>1, <1>2 DEF IInv, TypeOK
<1>4. \A s \in Sess : ~IsOpen(s)' /\ Holds(s)' = {} /\ grant'[s] = NoToken
  BY DEF IsOpen, Closed, Holds
<1>5. GrantsNotShared' /\ HeldIsSpent' /\ PendingIsNew'
  BY <1>4 DEF GrantsNotShared, HeldIsSpent, PendingIsNew
<1> QED
  BY <1>1, <1>3, <1>4, <1>5
     DEF IInv, DeadlineIsGrants, GrantIsOwn, RanIsPermitted, SeenIsGuarded

\* What a step of one connection c leaves of the other connections.
LEMMA OthersStep ==
  ASSUME IInv, NEW c \in Sess, NEW g, NEW h, NEW r, NEW w,
         grant' = [grant EXCEPT ![c] = g], pending' = [pending EXCEPT ![c] = h],
         sess' = [sess EXCEPT ![c] = r], seen' = [seen EXCEPT ![c] = w]
  PROVE  /\ grant'[c] = g /\ pending'[c] = h /\ sess'[c] = r /\ seen'[c] = w
         /\ \A s \in Sess \ {c} : /\ grant'[s] = grant[s] /\ pending'[s] = pending[s]
                                  /\ sess'[s] = sess[s] /\ seen'[s] = seen[s]
  BY DEF IInv, TypeOK

\* A step of connection c, of its four parts and of what it adds to the tokens
\* that have carried a session; no token is forgotten before it expires.
Moves(c, g, h, r, w) ==
  /\ grant' = [grant EXCEPT ![c] = g] /\ pending' = [pending EXCEPT ![c] = h]
  /\ sess' = [sess EXCEPT ![c] = r] /\ seen' = [seen EXCEPT ![c] = w]
  /\ UNCHANGED <<allowed, boot, tokens, policies>>
  /\ now' \in Time /\ now' >= now
  /\ lastAllowed' \in [User -> 0..MaxTime] /\ SignedWhileAllowed'
  /\ ran' = {} /\ cache' \subseteq tokens
  /\ \A t \in tokens : Spent(t) => Spent(t)'
  /\ lived \subseteq lived' /\ lived' \subseteq lived \cup ({g} \ {NoToken})

\* What c holds afterwards: nothing, what it held, or a token that was not spent
\* unless it expired meanwhile.
Ours(c, t) == t = NoToken \/ (t \in tokens /\ Spent(t)' /\ (t \in Holds(c) \/ (Spent(t) => Expired(t)')))

Sound(g, h, r, w) ==
  /\ r \in Session /\ w \subseteq policies
  /\ g = h /\ g # NoToken => Expired(g)'
  /\ h \in lived' => Expired(h)'
  /\ r.user # NoUser => /\ g \in lived' /\ g.user = r.user /\ r.authExp = Exp(g)
                        /\ \A q \in w : q.ts <= r.policyTs

LEMMA OwnStep ==
  ASSUME IInv, NEW c \in Sess, NEW g, NEW h, NEW r, NEW w,
         Moves(c, g, h, r, w), Ours(c, g), Ours(c, h), Sound(g, h, r, w)
  PROVE  IInv'
<1> USE DEF Moves, Ours, Sound
<1>0. g \in tokens \cup {NoToken} /\ h \in tokens \cup {NoToken} /\ NoToken \notin tokens
  BY TokenFields DEF IInv
<1>1. /\ grant'[c] = g /\ pending'[c] = h /\ sess'[c] = r /\ seen'[c] = w
      /\ \A s \in Sess \ {c} : /\ grant'[s] = grant[s] /\ pending'[s] = pending[s]
                               /\ sess'[s] = sess[s] /\ seen'[s] = seen[s]
  BY OthersStep
<1>2. TypeOK'
  <2>1. lived' \subseteq tokens
    BY <1>0 DEF IInv, TypeOK
  <2> QED
    BY <1>0, <2>1 DEF IInv, TypeOK
<1>3. \A s \in Sess \ {c} : Holds(s)' = Holds(s) /\ IsOpen(s)' = IsOpen(s)
  BY <1>1 DEF Holds, IsOpen
<1>4. Holds(c)' = {g, h} \ {NoToken} /\ (IsOpen(c)' <=> r.user # NoUser)
  BY <1>1 DEF Holds, IsOpen
<1>5. DeadlineIsGrants'
  BY <1>1, <1>3, <1>4 DEF IInv, DeadlineIsGrants, Exp
<1>a. \A s \in Sess : Holds(s) \subseteq tokens
  BY HoldsTyped DEF IInv
<1>b. \A t \in tokens : Expired(t) => Expired(t)'
  BY ExpiredStays DEF IInv
<1>6. HeldIsSpent'
  <2>1. \A s \in Sess : \A t \in Holds(s)' : Spent(t)'
    BY <1>3, <1>4, <1>a DEF IInv, HeldIsSpent
  <2>2. \A t \in lived' : Spent(t)'
    <3>1. \A t \in lived : Spent(t)'
      BY DEF IInv, HeldIsSpent, TypeOK
    <3>2. g \in lived' => g \in lived \/ Spent(g)'
      OBVIOUS
    <3> QED
      BY <3>1, <3>2
  <2> QED
    BY <2>1, <2>2 DEF HeldIsSpent
<1>7. GrantsNotShared'
  <2>1. ASSUME NEW o \in Sess \ {c}, NEW t \in Holds(o)', t \in Holds(c)' PROVE Expired(t)'
    <3>1. t \in Holds(o) /\ t \in tokens /\ t \in {g, h} /\ t # NoToken
      BY <1>3, <1>4, <1>a, <2>1
    <3>2. Spent(t)
      BY <3>1 DEF IInv, HeldIsSpent
    <3>3. t \in Holds(c) => Expired(t)
      BY <3>1, <2>1 DEF IInv, GrantsNotShared
    <3> QED
      BY <1>b, <3>1, <3>2, <3>3
  <2>2. ASSUME NEW s \in Sess, NEW u \in Sess, s # u, NEW t \in Holds(s)' \cap Holds(u)'
        PROVE  Expired(t)'
    <3>1. CASE s # c /\ u # c
      <4>1. t \in Holds(s) \cap Holds(u) /\ t \in tokens
        BY <1>3, <1>a, <2>2, <3>1
      <4> QED
        BY <1>b, <2>2, <4>1 DEF IInv, GrantsNotShared
    <3> QED
      BY <2>1, <2>2, <3>1
  <2>3. ASSUME NEW s \in Sess, grant'[s] = pending'[s], grant'[s] # NoToken
        PROVE  Expired(grant[s])'
    <3>1. CASE s = c
      <4>1. grant'[s] = g /\ Expired(g)'
        BY <1>1, <2>3, <3>1
      <4> QED
        BY <4>1 DEF Expired, Exp
    <3>2. CASE s # c
      <4> SUFFICES ASSUME NEW x, x = grant'[s] PROVE Expired(x)'
        BY DEF Expired, Exp
      <4>1. x = grant[s] /\ x = pending[s] /\ x \in tokens /\ x # NoToken
        BY <1>1, <2>3, <3>2 DEF IInv, TypeOK
      <4>2. Expired(x)
        BY <4>1 DEF IInv, GrantsNotShared
      <4> QED
        BY <1>b, <4>1, <4>2
    <3> QED
      BY <3>1, <3>2
  <2> QED
    BY <2>2, <2>3 DEF GrantsNotShared
<1>p. PendingIsNew'
  <2> SUFFICES ASSUME NEW s \in Sess, NEW t \in lived', pending'[s] = t PROVE Expired(t)'
    BY DEF PendingIsNew
  <2>1. CASE s = c
    BY <1>1, <2>1
  <2>2. CASE s # c /\ t \in lived
    BY <1>1, <1>b, <2>2 DEF IInv, PendingIsNew, TypeOK
  <2>3. CASE s # c /\ t \notin lived
    <3>1. t = g /\ g # NoToken /\ t \in Holds(s)' /\ t \in Holds(c)'
      BY <1>1, <1>4, <2>3 DEF Holds
    <3> QED
      BY <1>7, <2>3, <3>1 DEF GrantsNotShared
  <2> QED
    BY <2>1, <2>2, <2>3
<1>8. GrantIsOwn'
  <2>1. r.user # NoUser => g \in lived'
    OBVIOUS
  <2> QED
    BY <1>1, <1>3, <1>4, <2>1 DEF IInv, GrantIsOwn
<1>9. SeenIsGuarded'
  BY <1>1, <1>3, <1>4 DEF IInv, SeenIsGuarded
<1>10. RanIsPermitted' /\ IsFiniteSet(tokens')
  BY DEF IInv, RanIsPermitted
<1> QED
  BY <1>2, <1>5, <1>6, <1>p, <1>7, <1>8, <1>9, <1>10 DEF IInv

\* What a step that leaves the clock and the cache alone gives Moves.
LEMMA StillStep ==
  ASSUME IInv, UNCHANGED <<now, allowed, tokens, cache, lastAllowed>>
  PROVE  /\ now' \in Time /\ now' >= now /\ now \in Nat
         /\ lastAllowed' \in [User -> 0..MaxTime] /\ SignedWhileAllowed'
         /\ cache' \subseteq tokens
         /\ \A t \in tokens : (Spent(t) => Spent(t)') /\ (Expired(t) => Expired(t)')
<1>1. now \in Nat
  BY DEF IInv, TypeOK, Time
<1> QED
  BY <1>1 DEF IInv, TypeOK, SignedWhileAllowed, Spent, Expired, Exp

\* Accepting a token by hello or refresh: it was not spent, or it expired
\* between the two looks at the clock.
LEMMA SpendStep ==
  ASSUME IInv, NEW t \in tokens, NEW later \in Time, Spendable(t, later), Pass(later),
         cache' = Burned(t, later), UNCHANGED <<allowed, tokens>>
  PROVE  /\ now' \in Time /\ now' >= now
         /\ lastAllowed' \in [User -> 0..MaxTime] /\ SignedWhileAllowed'
         /\ cache' \subseteq tokens
         /\ \A x \in tokens : (Spent(x) => Spent(x)') /\ (Expired(x) => Expired(x)')
         /\ Spent(t)' /\ (Spent(t) => Expired(t)')
<1>1. /\ now' \in Time /\ now' >= now
      /\ lastAllowed' \in [User -> 0..MaxTime] /\ SignedWhileAllowed'
  BY PassStep DEF IInv
<1>2. \A x \in tokens : Expired(x) => Expired(x)'
  BY <1>1, ExpiredStays DEF IInv
<1>3. cache' \subseteq tokens /\ t \in cache'
  BY DEF Burned, Unexpired, IInv, TypeOK
<1>4. now' = later /\ later \in Nat /\ now \in Nat /\ \A x \in tokens : Exp(x) \in Nat
  BY TokenFields DEF Pass, IInv, TypeOK, Time
<1>5. \A x \in cache : x \in cache' \/ Expired(x)'
  BY <1>4 DEF Burned, Unexpired, Expired, Exp, IInv, TypeOK
<1>6. \A x \in tokens : Spent(x) => Spent(x)'
  BY <1>2, <1>5 DEF Spent
<1>7. Spent(t) => Expired(t)'
  BY <1>4 DEF Spent, Spendable, Unexpired, Expired, Exp
<1> QED
  BY <1>1, <1>2, <1>3, <1>6, <1>7 DEF Spent

LEMMA HelloStep ==
  ASSUME IInv, NEW c \in Sess, NEW t \in tokens, NEW later \in Time, Hello(c, t, later)
  PROVE  IInv'
<1> USE DEF Hello, attested
<1> SUFFICES ASSUME NEW g, g = grant[c] PROVE IInv'
  OBVIOUS
<1>1. t # NoToken
  BY TokenFields DEF IInv
<1>2. /\ g \in tokens \cup {NoToken} /\ sess[c] \in Session /\ seen[c] \in SUBSET policies
      /\ grant' = [grant EXCEPT ![c] = g] /\ sess' = [sess EXCEPT ![c] = sess[c]]
      /\ seen' = [seen EXCEPT ![c] = seen[c]]
  BY DEF IInv, TypeOK
<1>3. /\ now' \in Time /\ now' >= now
      /\ lastAllowed' \in [User -> 0..MaxTime] /\ SignedWhileAllowed'
      /\ cache' \subseteq tokens
      /\ \A x \in tokens : (Spent(x) => Spent(x)') /\ (Expired(x) => Expired(x)')
      /\ Spent(t)' /\ (Spent(t) => Expired(t)')
  BY SpendStep
<1>4. g # NoToken => Spent(g) /\ g \in Holds(c)
  BY DEF IInv, HeldIsSpent, Holds
<1>5. sess[c].user # NoUser => /\ g \in lived /\ g.user = sess[c].user
                               /\ sess[c].authExp = Exp(g)
                               /\ \A q \in seen[c] : q.ts <= sess[c].policyTs
  BY <1>2 DEF IInv, GrantIsOwn, DeadlineIsGrants, SeenIsGuarded, IsOpen
<1>6. Moves(c, g, t, sess[c], seen[c])
  BY <1>2, <1>3 DEF Moves
<1>7. Ours(c, g) /\ Ours(c, t)
  BY <1>2, <1>3, <1>4 DEF Ours
<1>8. t \in lived' => Expired(t)'
  BY <1>3 DEF IInv, HeldIsSpent
<1>9. g = t => Expired(t)'
  BY <1>1, <1>3, <1>4
<1>10. Sound(g, t, sess[c], seen[c])
  BY <1>2, <1>5, <1>8, <1>9 DEF Sound
<1> QED
  BY <1>6, <1>7, <1>10, OwnStep

LEMMA AckStep == ASSUME IInv, NEW c \in Sess, Ack(c) PROVE IInv'
<1> SUFFICES ASSUME NEW t, t = pending[c] PROVE IInv'
  OBVIOUS
<1> USE DEF Ack, attested
<1>1. t \in tokens /\ t # NoToken /\ t \in Holds(c) /\ Spent(t)
  BY DEF IInv, TypeOK, HeldIsSpent, Holds
<1>2. /\ t.user \in User /\ t.user # NoUser /\ Exp(t) \in 0..(MaxTime + TTL)
  BY <1>1, TokenFields DEF IInv
<1>3. /\ Opened(t) \in Session /\ Opened(t).user = t.user /\ Opened(t).authExp = Exp(t)
  BY <1>2 DEF Opened, Session
<1>4. /\ now' \in Time /\ now' >= now
      /\ lastAllowed' \in [User -> 0..MaxTime] /\ SignedWhileAllowed'
      /\ cache' \subseteq tokens /\ \A x \in tokens : Spent(x) => Spent(x)'
  BY StillStep
<1>5. Moves(c, t, NoToken, Opened(t), {})
  BY <1>1, <1>4 DEF Moves
<1>6. Ours(c, t) /\ Ours(c, NoToken)
  BY <1>1, <1>4 DEF Ours
<1>7. NoToken \notin lived'
  <2>1. \A x \in tokens : x # NoToken
    BY TokenFields DEF IInv
  <2> QED
    BY <1>1, <2>1 DEF IInv, TypeOK
<1>8. Sound(t, NoToken, Opened(t), {})
  BY <1>1, <1>3, <1>7 DEF Sound
<1> QED
  BY <1>5, <1>6, <1>8, OwnStep

LEMMA RefreshStep ==
  ASSUME IInv, NEW c \in Sess, NEW t \in tokens, NEW later \in Time, Refresh(c, t, later)
  PROVE  IInv'
<1> DEFINE r == [sess[c] EXCEPT !.authExp = Exp(t), !.control = TRUE]
<1> USE DEF Refresh, Refreshable, attested
<1> SUFFICES ASSUME NEW h, h = pending[c] PROVE IInv'
  OBVIOUS
<1>1. t # NoToken /\ Exp(t) \in 0..(MaxTime + TTL)
  BY TokenFields DEF IInv
<1>2. /\ h \in tokens \cup {NoToken} /\ sess[c] \in Session /\ seen[c] \in SUBSET policies
      /\ pending' = [pending EXCEPT ![c] = h]
      /\ seen' = [seen EXCEPT ![c] = seen[c]]
  BY DEF IInv, TypeOK
<1>3. r \in Session /\ r.user = sess[c].user /\ r.authExp = Exp(t) /\ r.policyTs = sess[c].policyTs
  BY <1>1, <1>2 DEF Session
<1>4. sess' = [sess EXCEPT ![c] = r]
  BY DEF IInv, TypeOK
<1>5. /\ now' \in Time /\ now' >= now
      /\ lastAllowed' \in [User -> 0..MaxTime] /\ SignedWhileAllowed'
      /\ cache' \subseteq tokens
      /\ \A x \in tokens : (Spent(x) => Spent(x)') /\ (Expired(x) => Expired(x)')
      /\ Spent(t)' /\ (Spent(t) => Expired(t)')
  BY SpendStep
<1>6. h # NoToken => Spent(h) /\ h \in Holds(c) /\ (h \in lived => Expired(h))
  BY DEF IInv, HeldIsSpent, Holds, PendingIsNew
<1>7. \A q \in seen[c] : q.ts <= r.policyTs
  BY <1>3 DEF IInv, SeenIsGuarded
<1>8. \A x \in tokens : x # NoToken
  BY TokenFields DEF IInv
<1> HIDE DEF r
<1>9. Moves(c, t, h, r, seen[c])
  BY <1>1, <1>2, <1>4, <1>5 DEF Moves
<1>10. Ours(c, t) /\ Ours(c, h)
  BY <1>2, <1>5, <1>6 DEF Ours
<1>11. h = t => Expired(t)'
  BY <1>1, <1>5, <1>6
<1>12. h \in lived' => Expired(h)'
  <2>1. lived \subseteq tokens
    BY DEF IInv, TypeOK
  <2> QED
    BY <1>5, <1>6, <1>8, <1>11, <2>1
<1>13. Sound(t, h, r, seen[c])
  BY <1>1, <1>2, <1>3, <1>7, <1>11, <1>12 DEF Sound
<1> QED
  BY <1>9, <1>10, <1>13, OwnStep

LEMMA PolicyStep == ASSUME IInv, NEW c \in Sess, NEW p \in policies, PolicyPush(c, p) PROVE IInv'
<1> DEFINE r == IF Stale(c, p) THEN sess[c]
                ELSE [sess[c] EXCEPT !.control = p.control, !.policyTs = p.ts]
           w == seen[c] \cup {p}
<1> USE DEF PolicyPush, attested
<1> SUFFICES ASSUME NEW g, g = grant[c], NEW h, h = pending[c] PROVE IInv'
  OBVIOUS
<1>1. p.ts \in Nat /\ p.ts \in 0..MaxTime /\ p.control \in BOOLEAN
  BY DEF IInv, TypeOK, Policy, Time
<1>2. /\ h \in tokens \cup {NoToken} /\ g \in tokens \cup {NoToken}
      /\ sess[c] \in Session /\ w \in SUBSET policies
      /\ pending' = [pending EXCEPT ![c] = h] /\ grant' = [grant EXCEPT ![c] = g]
      /\ seen' = [seen EXCEPT ![c] = w]
  BY DEF IInv, TypeOK
<1>3. r \in Session /\ r.user = sess[c].user /\ r.authExp = sess[c].authExp
  BY <1>1, <1>2 DEF Session
<1>4. sess' = [sess EXCEPT ![c] = r]
  BY DEF IInv, TypeOK
<1>5. /\ now' \in Time /\ now' >= now
      /\ lastAllowed' \in [User -> 0..MaxTime] /\ SignedWhileAllowed'
      /\ cache' \subseteq tokens
      /\ \A x \in tokens : (Spent(x) => Spent(x)') /\ (Expired(x) => Expired(x)')
  BY StillStep
<1>6. IsOpen(c) /\ g \in tokens /\ g \in lived /\ g.user = r.user
      /\ r.authExp = Exp(g)
  BY <1>2, <1>3 DEF IInv, TypeOK, GrantIsOwn, DeadlineIsGrants
<1>7. \A q \in w : q.ts <= r.policyTs
  <2>1. \A q \in seen[c] : q.ts <= sess[c].policyTs /\ q.ts \in Nat
    BY <1>2, <1>6 DEF IInv, TypeOK, SeenIsGuarded, Policy, Time
  <2>2. sess[c].policyTs \in Nat
    BY <1>2 DEF Session
  <2>3. CASE Stale(c, p)
    BY <2>1, <2>3 DEF Stale
  <2>4. CASE ~Stale(c, p)
    <3>1. r.policyTs = p.ts
      BY <1>2, <2>4 DEF Session
    <3> QED
      BY <1>1, <2>1, <2>2, <2>4, <3>1 DEF Stale
  <2> QED
    BY <2>3, <2>4
<1>8. \A t \in {g, h} \ {NoToken} : t \in tokens /\ Spent(t) /\ t \in Holds(c)
  BY <1>2 DEF IInv, HeldIsSpent, Holds
<1>9. /\ g = h /\ g # NoToken => Expired(g)'
      /\ h \in lived' => Expired(h)'
  <2>1. lived \subseteq tokens
    BY DEF IInv, TypeOK
  <2> QED
    BY <1>5, <1>6, <2>1 DEF IInv, GrantsNotShared, PendingIsNew
<1> HIDE DEF r, w
<1>10. Moves(c, g, h, r, w)
  BY <1>2, <1>4, <1>5 DEF Moves
<1>11. Ours(c, g) /\ Ours(c, h)
  BY <1>5, <1>8 DEF Ours
<1>12. Sound(g, h, r, w)
  BY <1>2, <1>3, <1>6, <1>7, <1>9 DEF Sound
<1> QED
  BY <1>10, <1>11, <1>12, OwnStep

LEMMA CloseStep == ASSUME IInv, NEW c \in Sess, Close(c) PROVE IInv'
<1> USE DEF Close, attested
<1>1. Closed \in Session /\ Closed.user = NoUser
  BY DEF Closed, Session
<1>2. /\ now' \in Time /\ now' >= now
      /\ lastAllowed' \in [User -> 0..MaxTime] /\ SignedWhileAllowed'
      /\ cache' \subseteq tokens /\ \A x \in tokens : Spent(x) => Spent(x)'
  BY StillStep
<1>3. NoToken \notin lived'
  <2>1. \A x \in tokens : x # NoToken
    BY TokenFields DEF IInv
  <2> QED
    BY <2>1 DEF IInv, TypeOK
<1>4. Moves(c, NoToken, NoToken, Closed, {})
  BY <1>2 DEF Moves
<1>5. Ours(c, NoToken)
  BY DEF Ours
<1>6. Sound(NoToken, NoToken, Closed, {})
  BY <1>1, <1>3 DEF Sound
<1> QED
  BY <1>4, <1>5, <1>6, OwnStep

LEMMA CommandStep == ASSUME IInv, NEW c \in Sess, Command(c) PROVE IInv'
<1> USE DEF Command, attested, held
<1>1. TypeOK'
  BY DEF IInv, TypeOK
<1>2. \A s \in Sess : Holds(s)' = Holds(s) /\ IsOpen(s)' = IsOpen(s)
  BY DEF Holds, IsOpen
<1>3. RanIsPermitted'
  BY <1>2 DEF RanIsPermitted, MayCommand
<1>4. \A t : (Expired(t)' <=> Expired(t)) /\ (Spent(t)' <=> Spent(t))
  BY DEF Spent, Expired, Exp
<1>5. GrantsNotShared' /\ HeldIsSpent' /\ PendingIsNew'
  BY <1>2, <1>4 DEF IInv, GrantsNotShared, HeldIsSpent, PendingIsNew
<1>6. DeadlineIsGrants'
  BY <1>2 DEF IInv, DeadlineIsGrants, Exp
<1>7. GrantIsOwn' /\ SeenIsGuarded'
  BY <1>2 DEF IInv, GrantIsOwn, SeenIsGuarded
<1> QED
  BY <1>1, <1>3, <1>5, <1>6, <1>7 DEF IInv, SignedWhileAllowed

LEMMA IInvStep == IInv /\ [Next]_vars => IInv'
<1> SUFFICES ASSUME IInv, [Next]_vars PROVE IInv'
  OBVIOUS
<1>1. CASE UNCHANGED vars
  <2> USE <1>1 DEF vars, attested, held
  <2>1. \A s \in Sess : Holds(s)' = Holds(s) /\ IsOpen(s)' = IsOpen(s)
    BY DEF Holds, IsOpen
  <2>2. \A t : (Expired(t)' <=> Expired(t)) /\ (Spent(t)' <=> Spent(t))
    BY DEF Spent, Expired, Exp
  <2>3. HeldIsSpent' /\ PendingIsNew' /\ GrantsNotShared'
    BY <2>1, <2>2 DEF IInv, HeldIsSpent, PendingIsNew, GrantsNotShared
  <2>4. DeadlineIsGrants' /\ GrantIsOwn' /\ SeenIsGuarded'
    BY <2>1 DEF IInv, DeadlineIsGrants, GrantIsOwn, SeenIsGuarded, Exp
  <2>5. RanIsPermitted'
    BY DEF IInv, RanIsPermitted, IsOpen
  <2>6. TypeOK' /\ SignedWhileAllowed' /\ IsFiniteSet(tokens')
    BY DEF IInv, TypeOK, SignedWhileAllowed
  <2> QED
    BY <2>3, <2>4, <2>5, <2>6 DEF IInv
<1>2. CASE Tick
  BY <1>2, TickStep
<1>3. ASSUME NEW users \in SUBSET User, RegisterDrone(users) PROVE IInv'
  BY <1>3, RegisterStep
<1>4. ASSUME NEW u \in User, Authorize(u) PROVE IInv'
  BY <1>4, AuthorizeStep
<1>5. ASSUME NEW control \in BOOLEAN, SignPolicy(control) PROVE IInv'
  BY <1>5, SignPolicyStep
<1>6. ASSUME NEW c \in Sess, NEW t \in tokens, NEW later \in Time,
             Hello(c, t, later) \/ Refresh(c, t, later)
      PROVE  IInv'
  BY <1>6, HelloStep, RefreshStep
<1>7. ASSUME NEW c \in Sess, NEW p \in policies, PolicyPush(c, p) PROVE IInv'
  BY <1>7, PolicyStep
<1>8. ASSUME NEW c \in Sess, Ack(c) \/ Command(c) \/ Close(c) PROVE IInv'
  BY <1>8, AckStep, CommandStep, CloseStep
<1>9. ASSUME NEW later \in Time, Refuse(later) \/ Restart(later) PROVE IInv'
  BY <1>9, RefuseStep, RestartStep
<1> QED
  BY <1>1, <1>2, <1>3, <1>4, <1>5, <1>6, <1>7, <1>8, <1>9 DEF Next

LEMMA Inductive == Spec => []IInv
  BY InitIInv, IInvStep, PTL DEF Spec

\* Every variable keeps its type.
THEOREM TypeCorrect == Spec => []TypeOK
<1>1. IInv => TypeOK
  BY DEF IInv
<1> QED
  BY <1>1, Inductive, PTL

\* A user taken off the list flies for at most one more token lifetime.
THEOREM RevocationBoundedHolds == Spec => []RevocationBounded
<1>1. IInv => RevocationBounded
  <2> SUFFICES ASSUME IInv, NEW s \in ran PROVE now <= lastAllowed[sess[s].user] + TTL
    BY DEF RevocationBounded
  <2>1. s \in Sess /\ IsOpen(s) /\ now <= sess[s].authExp /\ now \in Nat
    BY DEF IInv, TypeOK, RanIsPermitted, Time
  <2>2. grant[s] \in tokens /\ grant[s].user = sess[s].user /\ sess[s].authExp = Exp(grant[s])
    BY <2>1 DEF IInv, TypeOK, GrantIsOwn, DeadlineIsGrants
  <2>3. grant[s].iat \in Nat /\ grant[s].user \in User
    BY <2>2, TokenFields DEF IInv, Time
  <2>4. grant[s].iat <= lastAllowed[sess[s].user] /\ lastAllowed[sess[s].user] \in Nat
    BY <2>2, <2>3 DEF IInv, TypeOK, SignedWhileAllowed
  <2> QED
    BY <2>1, <2>2, <2>3, <2>4 DEF Exp
<1> QED
  BY <1>1, Inductive, PTL

\* However hellos, acks, refreshes, closes, prunings and restarts interleave, a
\* token held in two places has expired.
THEOREM GrantsNotSharedHolds == Spec => []GrantsNotShared
<1>1. IInv => GrantsNotShared
  BY DEF IInv
<1> QED
  BY <1>1, Inductive, PTL

\* Nobody flies on somebody else's token.
THEOREM GrantIsOwnHolds == Spec => []GrantIsOwn
<1>1. IInv => GrantIsOwn
  BY DEF IInv
<1> QED
  BY <1>1, Inductive, PTL

\* Replays never give back what a deadline or a policy has taken away.
THEOREM RegainNeedsNewWordHolds == Spec => RegainNeedsNewWord
<1>1. IInv /\ [Next]_vars
        => [\A s \in Sess : (IsOpen(s) /\ ~MayCommand(s) /\ MayCommand(s)')
              => \/ grant'[s] \notin lived
                 \/ \A q \in seen[s] : q.ts < sess'[s].policyTs]_vars
  <2> SUFFICES ASSUME IInv, Next, NEW s \in Sess, IsOpen(s), ~MayCommand(s),
                      MayCommand(s)', grant'[s] \in lived
               PROVE  \A q \in seen[s] : q.ts < sess'[s].policyTs
    BY DEF vars
  <2>0. /\ TypeOK /\ now \in Nat /\ sess[s].authExp \in Nat
        /\ \A t \in tokens : Exp(t) \in Nat /\ t # NoToken
    BY TokenFields DEF IInv, TypeOK, Session, Time
  <2>1. ~(sess'[s] = sess[s] /\ now' \in Nat /\ now' >= now)
    BY <2>0 DEF MayCommand
  <2>2. ASSUME NEW later \in Time, Pass(later), sess'[s] = sess[s] PROVE FALSE
    BY <2>0, <2>1, <2>2 DEF Pass, Time
  <2>3. CASE Tick
    <3>1. now' = now + 1 /\ sess' = sess
      BY <2>3 DEF Tick, Pass, held
    <3> QED
      BY <2>0, <2>1, <3>1
  <2>4. ASSUME now' = now, sess'[s] = sess[s] PROVE FALSE
    BY <2>0, <2>1, <2>4
  <2>5. ASSUME NEW users, RegisterDrone(users) PROVE FALSE
    BY <2>4, <2>5 DEF RegisterDrone, held
  <2>6. ASSUME NEW u, Authorize(u) PROVE FALSE
    BY <2>4, <2>6 DEF Authorize, held
  <2>7. ASSUME NEW control, SignPolicy(control) PROVE FALSE
    BY <2>4, <2>7 DEF SignPolicy, held
  <2>8. ASSUME NEW c \in Sess, NEW t \in tokens, NEW later \in Time, Hello(c, t, later)
        PROVE  FALSE
    BY <2>2, <2>8 DEF Hello
  <2>9. ASSUME NEW c \in Sess, NEW t \in tokens, NEW later \in Time, Refresh(c, t, later)
        PROVE  FALSE
    <3>1. c = s
      BY <2>0, <2>2, <2>9 DEF Refresh, TypeOK
    <3>2. grant'[s] = t /\ sess'[s].authExp = Exp(t)
      BY <2>0, <2>9, <3>1 DEF Refresh, TypeOK, Session
    <3>3. Spent(t) /\ (Spent(t) => Expired(t)')
      BY <2>9, <3>2, SpendStep DEF Refresh, Refreshable, IInv, HeldIsSpent, attested
    <3>4. now' > Exp(t) /\ now' <= Exp(t) /\ now' \in Nat
      BY <2>9, <3>2, <3>3 DEF Expired, Exp, MayCommand, Refresh, Pass, Time
    <3> QED
      BY <2>0, <3>4
  <2>10. ASSUME NEW c \in Sess, Ack(c) PROVE FALSE
    <3>1. c = s
      BY <2>0, <2>4, <2>10 DEF Ack, TypeOK
    <3>2. /\ grant'[s] = pending[s] /\ pending[s] \in tokens /\ now' = now
          /\ sess'[s].authExp = Exp(pending[s])
      BY <2>0, <2>10, <3>1 DEF Ack, TypeOK, Opened
    <3>3. now > Exp(pending[s]) /\ now <= Exp(pending[s])
      BY <3>2 DEF IInv, PendingIsNew, Expired, MayCommand
    <3> QED
      BY <2>0, <3>2, <3>3
  <2>11. ASSUME NEW c \in Sess, Command(c) PROVE FALSE
    BY <2>4, <2>11 DEF Command, held
  <2>12. ASSUME NEW c \in Sess, Close(c) PROVE FALSE
    BY <2>0, <2>4, <2>12 DEF Close, Closed, MayCommand, TypeOK
  <2>13. ASSUME NEW later \in Time, Refuse(later) PROVE FALSE
    BY <2>2, <2>13 DEF Refuse, held
  <2>14. ASSUME NEW later \in Time, Restart(later) PROVE FALSE
    BY <2>14 DEF Restart, Closed, MayCommand
  <2>15. ASSUME NEW c \in Sess, NEW p \in policies, PolicyPush(c, p)
         PROVE  \A q \in seen[s] : q.ts < sess'[s].policyTs
    <3>1. c = s /\ ~Stale(s, p)
      BY <2>0, <2>4, <2>15 DEF PolicyPush, TypeOK
    <3>2. sess'[s] = [sess[s] EXCEPT !.control = p.control, !.policyTs = p.ts]
      BY <2>0, <2>15, <3>1 DEF PolicyPush, TypeOK
    <3>3. sess[s] \in Session /\ sess'[s].policyTs = p.ts /\ p.ts \in Nat
      BY <2>0, <3>2 DEF TypeOK, Session, Policy, Time
    <3>4. \A q \in seen[s] : q.ts \in Nat /\ q.ts <= sess[s].policyTs
      BY <2>0 DEF IInv, TypeOK, SeenIsGuarded, Policy, Time
    <3> QED
      BY <3>1, <3>3, <3>4 DEF Stale, Session
  <2> QED
    BY <2>3, <2>5, <2>6, <2>7, <2>8, <2>9, <2>10, <2>11, <2>12, <2>13, <2>14, <2>15 DEF Next
<1> QED
  BY <1>1, Inductive, PTL DEF Spec, RegainNeedsNewWord
=============================================================================
