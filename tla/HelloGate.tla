----------------------------- MODULE HelloGate -----------------------------
(***************************************************************************)
(* The drone's freshness gate: cloud-signed tokens with an expiry, the     *)
(* single-use nonce cache shared by every connection and by the in-band    *)
(* refresh, and the boot gate that stands in for the cache after a         *)
(* restart.  Anyone may present any minted token at any time, in any       *)
(* number of copies; the two clock reads of one handler may differ.        *)
(***************************************************************************)
EXTENDS Integers, FiniteSets

CONSTANTS Nonce,         \* values of nonceU
          TTL,           \* AUTH_TOKEN_TTL_MS
          MaxSeen,       \* MAX_SEEN_HELLO_NONCES
          Skew,          \* cloud clock minus drone clock
          Slack,         \* most the clock moves between a handler's two reads
          RestartTime,   \* least time a restart of the drone takes
          MaxTime,       \* bound: last instant
          MaxTokens      \* bound: tokens minted

ASSUME TimeAssumption == /\ TTL \in Nat /\ Slack \in Nat /\ RestartTime \in Nat
                         /\ Skew \in Int /\ MaxTime \in Nat
\* The boot gate compares the cloud's iat with the drone's boot time.
ASSUME ClocksAssumption == Skew < RestartTime
ASSUME SizeAssumption == MaxSeen \in Nat \ {0} /\ MaxTokens \in Nat

Token  == [nonce : Nonce, iat : Skew..(MaxTime + Skew)]
Exp(t) == t.iat + TTL
Verdict == {"none", "accepted", "refreshed", "replay", "full", "stale", "invalid"}

VARIABLES now,           \* the drone's Date.now()
          boot,          \* bootTimeMs
          minted,        \* tokens the cloud has signed
          cache,         \* seenHelloNonces: [nonce, exp] pairs
          session,       \* "none", "pending" (hello accepted) or "open" (acked)
          verdict,       \* outcome of the last hello or refresh handled
          bootUses,      \* history: acceptances of each token since boot
          uses           \* history: acceptances of each token in all boots

gateVars == <<now, boot, minted, cache, session, verdict, bootUses, uses>>

GateInit ==
  /\ now = 0 /\ boot = 0
  /\ minted = {} /\ cache = {}
  /\ session = "none" /\ verdict = "none"
  /\ bootUses = [t \in Token |-> 0]
  /\ uses = [t \in Token |-> 0]

-----------------------------------------------------------------------------
Tick ==
  /\ now < MaxTime
  /\ now' = now + 1
  /\ verdict' = "none"
  /\ UNCHANGED <<boot, minted, cache, session, bootUses, uses>>

\* CloudService.authorize: the nonce is whatever the requester sent.
Authorize(n) ==
  /\ Cardinality(minted) < MaxTokens
  /\ minted' = minted \cup {[nonce |-> n, iat |-> now + Skew]}
  /\ verdict' = "none"
  /\ UNCHANGED <<now, boot, cache, session, bootUses, uses>>

-----------------------------------------------------------------------------
\* pruneExpiredNonces
WrongLive(seen, time) == seen
EarlyLive(seen, time) == {x \in seen : time < x.exp}
Live(seen, time) == {x \in seen : time <= x.exp}
Knows(seen, n)   == \E x \in seen : x.nonce = n
Full(seen)       == Cardinality(seen) >= MaxSeen
Entry(t)         == [nonce |-> t.nonce, exp |-> Exp(t)]

\* What accepting a token leaves in the cache: its nonce, until its expiry.
WrongRemember(t, seen) == seen \cup {[nonce |-> t.nonce, exp |-> t.iat]}
Remember(t, seen)      == seen \cup {Entry(t)}

WrongPastBootGate(t) == Exp(t) >= boot
PastBootGate(t)  == t.iat >= boot
Fresh(t)         == now <= Exp(t)

\* Refused before the cache is looked at: nothing changes.
TurnAway(why) ==
  /\ verdict' = why
  /\ UNCHANGED <<boot, minted, cache, session, bootUses, uses>>

\* The cache is pruned by the second clock read, and refuses the nonce.
CacheRefuses(t, seen) ==
  /\ Knows(seen, t.nonce) \/ Full(seen)
  /\ cache' = seen
  /\ verdict' = IF Knows(seen, t.nonce) THEN "replay" ELSE "full"
  /\ UNCHANGED <<boot, minted, session, bootUses, uses>>

Use(t, how) ==
  /\ verdict' = how
  /\ bootUses' = [bootUses EXCEPT ![t] = @ + 1]
  /\ uses' = [uses EXCEPT ![t] = @ + 1]

WrongCacheAccepts(t, seen) == ~Full(seen)
CacheAccepts(t, seen) == ~Knows(seen, t.nonce) /\ ~Full(seen)

\* What a hello leaves in the cache when sigma_U, the pinned user or E_U fails.
AfterInvalid(t, seen) == seen

HelloInvalid(t, seen) ==
  /\ CacheAccepts(t, seen)
  /\ cache' = AfterInvalid(t, seen)
  /\ verdict' = "invalid"
  /\ UNCHANGED <<boot, minted, session, bootUses, uses>>

\* The nonce is burned first: it stays spent when the PUF unwrap then fails and
\* no handshake is left pending.
HelloAccepted(t, seen) ==
  /\ CacheAccepts(t, seen)
  /\ cache' = Remember(t, seen)
  /\ session' \in {session, IF session = "open" THEN "open" ELSE "pending"}
  /\ Use(t, "accepted")
  /\ UNCHANGED <<boot, minted>>

Admissible(t) == Fresh(t) /\ PastBootGate(t)

\* DroneSession.handleHello, d being the time between its two clock reads.  An
\* invalid hello fails before the cache (wrong drone, nonce not the token's)
\* or after it (user not pinned, sigma_U, E_U).
Hello(t, valid, d) ==
  LET seen == Live(cache, now + d)
  IN  /\ now' = now + d
      /\ \/ ~Admissible(t) /\ TurnAway("stale")
         \/ Admissible(t) /\ ~valid /\ TurnAway("invalid")
         \/ Admissible(t) /\ CacheRefuses(t, seen)
         \/ Admissible(t) /\ ~valid /\ HelloInvalid(t, seen)
         \/ Admissible(t) /\ valid /\ HelloAccepted(t, seen)

\* A good handleAck opens the session.
Ack ==
  /\ session = "pending"
  /\ session' = "open"
  /\ verdict' = "none"
  /\ UNCHANGED <<now, boot, minted, cache, bootUses, uses>>

RefreshAccepted(t, seen) ==
  /\ CacheAccepts(t, seen)
  /\ cache' = Remember(t, seen)
  /\ Use(t, "refreshed")
  /\ UNCHANGED <<boot, minted, session>>

\* handleControl, case "refresh": same cache and rules, but no boot gate.  A
\* token for another drone or user is dropped whatever its age.
Refresh(t, d) ==
  LET seen == Live(cache, now + d)
  IN  /\ session = "open"
      /\ now' = now + d
      /\ \/ TurnAway("invalid")
         \/ ~Fresh(t) /\ TurnAway("stale")
         \/ Fresh(t) /\ CacheRefuses(t, seen)
         \/ Fresh(t) /\ RefreshAccepted(t, seen)

\* The process dies and attachDrone runs again: the cache is empty.
BootTime(d)      == now + d

Restart(d) ==
  /\ now' = now + d
  /\ boot' = BootTime(d)
  /\ cache' = {}
  /\ session' = "none"
  /\ verdict' = "none"
  /\ bootUses' = [t \in Token |-> 0]
  /\ UNCHANGED <<minted, uses>>

GateNext ==
  \/ Tick \/ Ack
  \/ \E n \in Nonce : Authorize(n)
  \/ \E t \in minted, valid \in BOOLEAN, d \in 0..Slack :
       now + d <= MaxTime /\ Hello(t, valid, d)
  \/ \E t \in minted, d \in 0..Slack : now + d <= MaxTime /\ Refresh(t, d)
  \/ \E d \in RestartTime..MaxTime : now + d <= MaxTime /\ Restart(d)

GateSpec == GateInit /\ [][GateNext]_gateVars

-----------------------------------------------------------------------------
GateTypeOK ==
  /\ now \in 0..MaxTime /\ boot \in 0..now
  /\ minted \subseteq Token
  /\ cache \subseteq [nonce : Nonce, exp : Int]
  /\ session \in {"none", "pending", "open"} /\ verdict \in Verdict
  /\ bootUses \in [Token -> Nat] /\ uses \in [Token -> Nat]

Used(t) == bootUses[t] > 0

\* "The drone accepts a given nonceU at most once within its TTL": no token is
\* accepted twice between two boots, by hello or by refresh.
OncePerBoot == \A t \in Token : bootUses[t] <= 1

\* What is left of it when the clock moves between the two reads: a token is
\* accepted again only by a handler during which it expires.
ReuseOnlyAcrossExpiry ==
  [][\A t \in Token : (Used(t) /\ bootUses'[t] > bootUses[t])
                        => now <= Exp(t) /\ Exp(t) < now']_gateVars

\* A restart opens no replay window for hellos: an accepted hello spends a token
\* that no earlier boot has accepted, by hello or by refresh, although the cache
\* of that boot is gone (the boot gate, against a cloud whose clock is ahead).
NoHelloReplayAcrossRestart ==
  [][\A t \in Token : (verdict' = "accepted" /\ uses'[t] > uses[t])
                        => uses[t] = bootUses[t]]_gateVars

\* No unexpired nonce is ever forgotten while the drone stays up, whatever the
\* pruning and the capacity rule do.
LiveNonceRemembered ==
  \A t \in minted : (Used(t) /\ now <= Exp(t)) => Knows(cache, t.nonce)

\* Only accepted tokens take room in the cache: a hello that fails validation
\* cannot burn somebody's nonce.
OnlyUsedNoncesRemembered ==
  \A x \in cache : \E t \in minted : Used(t) /\ Entry(t) = x

\* A refusal is never due to an entry that has outlived its token: "replay"
\* needs a live accepted token with that very nonce, "full" needs MaxSeen live
\* accepted tokens with different nonces, at the time of the second clock read.
RefusalJustified ==
  \A d \in 0..Slack :
    LET seen == Live(cache, now + d)
        live == {t \in minted : Used(t) /\ now + d <= Exp(t)}
    IN  /\ \A n \in Nonce : Knows(seen, n) => \E t \in live : t.nonce = n
        /\ Full(seen) => Cardinality({t.nonce : t \in live}) >= MaxSeen

\* The cache never outgrows its bound.
CacheBounded == Cardinality(cache) <= MaxSeen

\* "Enforce single-use too" (refresh): no token is accepted twice at all.
SingleUse == \A t \in Token : uses[t] <= 1
=============================================================================
