--------------------------- MODULE Authorization ---------------------------
(***************************************************************************)
(* Who may fly, and until when: tokens and policies the cloud signs, and   *)
(* what they do to the drone's sessions.  A token opens a session by       *)
(* hello and ack or extends one by refresh; a policy push replaces the     *)
(* scope; every command is checked when it is used.  Relays may hold a     *)
(* signed token or policy back and deliver it at any time, or again.  Each  *)
(* token has a nonce of its own, so the drone's nonce cache is a set of     *)
(* tokens; its capacity and validation order are HelloGate's subject.       *)
(***************************************************************************)
EXTENDS Naturals, FiniteSets

CONSTANTS User,          \* user ids
          Sess,          \* connections to the drone
          TTL,           \* AUTH_TOKEN_TTL_MS
          MaxTime,       \* bound: last instant
          MaxTokens,     \* bound: tokens the cloud signs
          MaxPolicies    \* bound: policies the cloud signs

ASSUME TimeAssumption  == TTL \in Nat /\ MaxTime \in Nat \ {0}
ASSUME BoundAssumption == MaxTokens \in Nat /\ MaxPolicies \in Nat

Time   == 1..MaxTime
Token  == [id : 1..MaxTokens, user : User, iat : Time]
Policy == [ts : Time, control : BOOLEAN]
NoToken == [id |-> 0]
NoUser  == "nobody"
ASSUME NobodyAssumption == NoUser \notin User

VARIABLES now,           \* Date.now(), the cloud's and the drone's
          allowed,       \* the drone record's allowedUsers
          tokens,        \* tokens signed, for this drone
          policies,      \* policies signed, for this drone
          boot,          \* the drone's bootTimeMs
          cache,         \* tokens whose nonces are in seenHelloNonces
          pending,       \* per connection: token of the half-open handshake
          sess,          \* per connection: user, authExp, control, policyTs
          ran,           \* the session whose command was just executed, if any
          grant,         \* history: the token each session lives off
          lived,         \* history: tokens that carried a session since boot
          seen,          \* history: policies delivered to each session
          lastAllowed    \* history: when each user was last in allowedUsers

attested == <<tokens, policies>>
held == <<pending, sess, grant, lived, seen>>
vars == <<now, allowed, attested, boot, cache, held, ran, lastAllowed>>

Session == [user : User \cup {NoUser}, authExp : 0..(MaxTime + TTL),
            control : BOOLEAN, policyTs : 0..MaxTime]
Closed  == [user |-> NoUser, authExp |-> 0, control |-> FALSE, policyTs |-> 0]
IsOpen(s) == sess[s].user # NoUser

Init ==
  /\ now = 1
  /\ allowed \in SUBSET User
  /\ tokens = {} /\ policies = {}
  /\ boot = now /\ cache = {}
  /\ pending = [s \in Sess |-> NoToken]
  /\ sess = [s \in Sess |-> Closed]
  /\ ran = {}
  /\ grant = [s \in Sess |-> NoToken]
  /\ lived = {}
  /\ seen = [s \in Sess |-> {}]
  /\ lastAllowed = [u \in User |-> IF u \in allowed THEN now ELSE 0]

-----------------------------------------------------------------------------
(* The cloud. *)

\* The clock has moved on to later.
Pass(later) ==
  /\ later >= now
  /\ now' = later
  /\ lastAllowed' = [u \in User |-> IF u \in allowed THEN later ELSE lastAllowed[u]]

Tick ==
  /\ now < MaxTime
  /\ Pass(now + 1)
  /\ ran' = {}
  /\ UNCHANGED <<allowed, attested, boot, cache, held>>

\* registerDrone: the owner changes who may fly.
RegisterDrone(users) ==
  /\ allowed' = users
  /\ lastAllowed' = [u \in User |-> IF u \in users THEN now ELSE lastAllowed[u]]
  /\ ran' = {}
  /\ UNCHANGED <<now, attested, boot, cache, held>>

MayBeSigned(u) == u \in allowed

Authorize(u) ==
  /\ MayBeSigned(u)
  /\ Cardinality(tokens) < MaxTokens
  /\ tokens' = tokens \cup {[id |-> Cardinality(tokens) + 1, user |-> u, iat |-> now]}
  /\ ran' = {}
  /\ UNCHANGED <<now, allowed, policies, boot, cache, held, lastAllowed>>

SignPolicy(control) ==
  /\ Cardinality(policies) < MaxPolicies
  /\ policies' = policies \cup {[ts |-> now, control |-> control]}
  /\ ran' = {}
  /\ UNCHANGED <<now, allowed, tokens, boot, cache, held, lastAllowed>>

-----------------------------------------------------------------------------
(* The drone. *)

Exp(t) == t.iat + TTL

\* pruneExpiredNonces, by the handler's second look at the clock.
Unexpired(later) == {t \in cache : later <= Exp(t)}

\* The first look finds the token fresh, the second prunes the cache, which must
\* not hold it then.
Spendable(t, later) == now <= Exp(t) /\ t \notin Unexpired(later)

WrongBurned(t, later) == Unexpired(later)
Burned(t, later) == Unexpired(later) \cup {t}

\* handleHello: the token goes with the half-open handshake.
Hello(s, t, later) ==
  /\ t.iat >= boot
  /\ Spendable(t, later)
  /\ Pass(later)
  /\ cache' = Burned(t, later)
  /\ pending' = [pending EXCEPT ![s] = t]
  /\ ran' = {}
  /\ UNCHANGED <<allowed, attested, boot, sess, grant, lived, seen>>

\* A token's scope always holds "control"; no policy has been applied yet.
Opened(t) == [user |-> t.user, authExp |-> Exp(t), control |-> TRUE, policyTs |-> 0]

\* handleAck: the session opens, or is replaced, without another look at the clock.
Ack(s) ==
  /\ pending[s] # NoToken
  /\ pending' = [pending EXCEPT ![s] = NoToken]
  /\ sess' = [sess EXCEPT ![s] = Opened(pending[s])]
  /\ grant' = [grant EXCEPT ![s] = pending[s]]
  /\ lived' = lived \cup {pending[s]}
  /\ seen' = [seen EXCEPT ![s] = {}]
  /\ ran' = {}
  /\ UNCHANGED <<now, allowed, attested, boot, cache, lastAllowed>>

\* A token that is spent, expired or somebody else's is ignored; one signed
\* before the drone's boot is not.
Refreshable(s, t, later) == Spendable(t, later) /\ t.user = sess[s].user

Refresh(s, t, later) ==
  /\ IsOpen(s) /\ Refreshable(s, t, later)
  /\ Pass(later)
  /\ cache' = Burned(t, later)
  /\ sess' = [sess EXCEPT ![s].authExp = Exp(t), ![s].control = TRUE]
  /\ grant' = [grant EXCEPT ![s] = t]
  /\ lived' = lived \cup {t}
  /\ ran' = {}
  /\ UNCHANGED <<allowed, attested, boot, pending, seen>>

\* A hello or refresh whose nonce is known has pruned the cache all the same.
Refuse(later) ==
  /\ Unexpired(later) # {}
  /\ Pass(later)
  /\ cache' = Unexpired(later)
  /\ ran' = {}
  /\ UNCHANGED <<allowed, attested, boot, held>>

\* The process dies and attachDrone runs again: cache and sessions are gone.
Restart(later) ==
  /\ Pass(later)
  /\ boot' = later /\ cache' = {}
  /\ pending' = [s \in Sess |-> NoToken]
  /\ sess' = [s \in Sess |-> Closed]
  /\ grant' = [s \in Sess |-> NoToken]
  /\ lived' = {}
  /\ seen' = [s \in Sess |-> {}]
  /\ ran' = {}
  /\ UNCHANGED <<allowed, attested>>

WrongStale(s, p) == p.ts < sess[s].policyTs
Stale(s, p) == p.ts <= sess[s].policyTs

PolicyPush(s, p) ==
  /\ IsOpen(s) /\ p \in policies
  /\ sess' = IF Stale(s, p) THEN sess
             ELSE [sess EXCEPT ![s].control = p.control, ![s].policyTs = p.ts]
  /\ seen' = [seen EXCEPT ![s] = @ \cup {p}]
  /\ ran' = {}
  /\ UNCHANGED <<now, allowed, attested, boot, cache, pending, grant, lived, lastAllowed>>

WrongMayCommand(s) == sess[s].control
MayCommand(s) == now <= sess[s].authExp /\ sess[s].control

\* handleData, channel "app": dropped without a word unless permitted now.
Command(s) ==
  /\ IsOpen(s) /\ MayCommand(s)
  /\ ran' = {s}
  /\ UNCHANGED <<now, allowed, attested, boot, cache, held, lastAllowed>>

\* dispose(), for whatever reason the connection ends.
Close(s) ==
  /\ pending' = [pending EXCEPT ![s] = NoToken]
  /\ sess' = [sess EXCEPT ![s] = Closed]
  /\ grant' = [grant EXCEPT ![s] = NoToken]
  /\ seen' = [seen EXCEPT ![s] = {}]
  /\ ran' = {}
  /\ UNCHANGED <<now, allowed, attested, boot, cache, lived, lastAllowed>>

Next ==
  \/ Tick
  \/ \E users \in SUBSET User : RegisterDrone(users)
  \/ \E u \in User : Authorize(u)
  \/ \E control \in BOOLEAN : SignPolicy(control)
  \/ \E s \in Sess :
       \/ \E t \in tokens, later \in Time : Hello(s, t, later) \/ Refresh(s, t, later)
       \/ \E p \in policies : PolicyPush(s, p)
       \/ Ack(s) \/ Command(s) \/ Close(s)
  \/ \E later \in Time : Refuse(later) \/ Restart(later)

Spec == Init /\ [][Next]_vars

-----------------------------------------------------------------------------
TypeOK ==
  /\ now \in Time /\ allowed \subseteq User /\ boot \in Time
  /\ tokens \subseteq Token /\ policies \subseteq Policy
  /\ cache \subseteq tokens /\ lived \subseteq tokens
  /\ pending \in [Sess -> tokens \cup {NoToken}]
  /\ sess \in [Sess -> Session] /\ ran \subseteq Sess
  /\ grant \in [Sess -> tokens \cup {NoToken}]
  /\ seen \in [Sess -> SUBSET policies]
  /\ lastAllowed \in [User -> 0..MaxTime]

\* Taking a user off the drone's list ends his flying within one token
\* lifetime, on every connection, whatever tokens and policies are held back
\* and replayed: nothing but a fresh token moves authExp.
RevocationBounded == \A s \in ran : now <= lastAllowed[sess[s].user] + TTL

\* A live token never carries two connections, nor a session and the handshake
\* that will replace it: only a token that has expired, while a handler was
\* between its two looks at the clock, can be held twice.
Holds(s)   == {grant[s], pending[s]} \ {NoToken}
Expired(t) == now > Exp(t)
GrantsNotShared ==
  \A s, r \in Sess :
    /\ s # r => \A t \in Holds(s) \cap Holds(r) : Expired(t)
    /\ grant[s] = pending[s] /\ grant[s] # NoToken => Expired(grant[s])

\* A session lives off a token of its own user.
GrantIsOwn == \A s \in Sess : IsOpen(s) => grant[s] \in lived /\ grant[s].user = sess[s].user

\* Once a session may not command, for its deadline or its scope, replaying
\* tokens or policies does not change that: it takes a token that has carried no
\* session yet, or a policy newer than every policy the session has been shown.
RegainNeedsNewWord ==
  [][\A s \in Sess : (IsOpen(s) /\ ~MayCommand(s) /\ MayCommand(s)')
       => \/ grant'[s] \notin lived
          \/ \A q \in seen[s] : q.ts < sess'[s].policyTs]_vars
=============================================================================
