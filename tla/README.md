# A TLA+ model of LiteZero

LiteZero connects a ground user to a drone.  A cloud service signs short-lived
authorization tokens; the user shows one in a `hello`, the two ends authenticate
each other and derive directional session keys, and from then on the session
carries AEAD frames: application commands and replies, and in-band control
messages that refresh the token, push a policy, or move to a new key epoch
(*rekey*).  Everything is TypeScript on one event loop per process, so a handler
runs to completion; what interleaves is connections, messages in flight,
continuations after an `await`, clock readings, closes and restarts.

The modules here are written from the code.  Cryptography is ideal in them: a tag
verifies exactly for what was sealed under the same key, a signature for what was
signed.  Model values stand for nonces, connections and keys.

## The system

Paths are relative to `src/src/`.

| part | state it keeps | operations | what makes it correct |
| --- | --- | --- | --- |
| cloud, `services/cloud.ts` | signing key, registry of users and drones | `registerUser`, `rotateUser`, `registerDrone`, `authorize`, `signPolicy` | a token is signed only for a registered user and drone, and expires |
| provisioning, `scenarios/bootstrap.ts`, `services/drone.ts` | the copies of each key: at the cloud, on the board, with the client | `enrollDrone`, `reprovisionUserKey`, `rotateUser`, pinning | a replaced key stops working, the new one works in the end |
| drone server, `attachDrone` in `services/drone.ts` | nonce cache `seenHelloNonces`, `bootTimeMs`, half-open registry, counters | accept a connection, evict the oldest handshake | a bounded registry that leaks no slot and starves nobody who is quick |
| drone session, `DroneSession` | `pendingSession`, `state`, `slotHeld` | `handleHello`, `handleAck`, `handleData`, `handleControl`, `handleRekeyInit`, `sendFrame`, `abort`, `dispose`, `evict` | single use of tokens, replay protection, budgets, key hygiene, authorization at use time |
| user, `services/user.ts` | handshake secrets, then sequence numbers, window, budgets, `pendingRekey` | `runUserHandshake`, `send`, `refresh`, `rekey`, `applyPolicy`, `close` | same keys as the drone, no reply lost, calls that finish |
| messages, `protocol/messages.ts`, `protocol/parser.ts` | none | `parseMessage`, `isAuthToken` | a message that parses has every field its handler reads |
| key schedule, `protocol/litezero.ts` | none | digests, MACs, key derivation | each digest covers what its receiver relies on |
| transports, `transport/*.ts` | receive buffer, open or closed | `send`, `close`, handlers | FIFO, whole messages, one close event |
| flight, `mavlink/*.ts` | armed, mode, position; parser buffer; sequence number | `push`, `encodeFrame`, `ingest` | every whole frame obeyed once, none made of two; telemetry that is true |
| PUF, `crypto/puf.ts` | a die's response, helper data | `pufEnroll`, `pufRegenerate` | the enrolled key from noisy reads, or none |
| generator, secret audit, `crypto/*.ts` | fallback state, tracked secrets | random bytes, `Zeroizable` | nothing in the program switches them on |

How the parts interact: the user asks the cloud over an asynchronous call
(`CloudClient.authorize`), then talks to the drone over a `Transport`.  The links of all
connections share the drone's nonce cache and its half-open registry, which is how
one connection can end another's handshake.  `Transport.close()` raises the close event
that runs `dispose()`: at once over WebSocket, behind the messages in flight over
the in-process transport.  The drone's application is called back (`onCommand`) with
a `reply` function it may call any number of times, also later.

The owner of a drone acts on it from outside the protocol: he registers keys at the
cloud, flashes the board and hands pins to the clients, in separate steps.  The demo
program feeds every session's payloads to one `FlightStack`, so stations share its
parser and its sequence numbers.

What is hard here, and where no unit test goes: two clock readings in one handler; a
restart that empties a cache or a registry; eviction between any two messages of a
handshake; messages handled after the drone has closed its end; a key switch that the
two ends make at different times; budgets that run out inside a handler; calls of
the application while `rekey()` is suspended; frames cut at any byte by a network
that knows nothing of frames; two stations' bytes in one parser; and a key that has
been replaced in one place and not yet in the others.  `PROJECT.json` lists each
hazard at its line with the properties that watch it.

## Modules

| module | models | extends / uses |
| --- | --- | --- |
| `OneShotDelivery` | what one direction of a session promises: sealed frames only, each at most once | |
| `ReplayWindow` | both ends' sequence numbers, window, epoch gate and AEAD budgets, over a network that repeats, reorders, alters | refines `OneShotDelivery` |
| `HelloGate` | token expiry, nonce cache, boot gate, in-band refresh, restarts | |
| `DroneServer` | connections, half-open registry, life of key material | |
| `Session` | one user and the drone over FIFO: commands, replies, rekey, send budgets, close | |
| `Authorization` | the cloud's tokens and policies, the drone's nonce cache and boots, and `authExp`, `scope`, `policyTs` of its sessions | leaves the cache's capacity and the order of validation to `HelloGate` |
| `Handshake` | `runUserHandshake` against the drone, over links that close or are lost | |
| `Transport` | what the protocol code may assume of a link: whole messages, in order, the close last | |
| `Transports` | the WebSocket connection byte by byte, and the in-process pair with its microtasks | refines `Transport` |
| `Mavlink` | frame codec, message definitions, streaming parser | |
| `Flight` | two ground stations, one flight stack | extends `Mavlink` |
| `Puf` | noisy reads, majority vote, code-offset sketch, black key | |
| `Provisioning` | the owner's steps, stale registrations, restarts, with handshakes and refreshes under way | extends `Puf` |
| `MC...` | the instances TLC checks | the module they are named after |
| `...Proofs` | invariants, lemmas, theorems | the module they are named after |
| `FreshnessProofs` | the same for both memories of what has been used | `ReplayWindow` and `HelloGate`, which share no name |

An operator whose name starts with `Wrong`, and `DroneIgnores`, is not part of the
model: each is the definition after it with a plausible programming error (a dropped
guard, an off-by-one, a missing reset).  Once, one operation of the model stands in for
another (an eviction that takes the `abort()` path).  `PROJECT.json` ("mutants") pairs
each with the property that must fail once it takes the place of the right one.

### `ReplayWindow`

The sender keeps `txEpoch`, `txSeq`, `epochTxCount`; the receiver `epoch`,
`rxLastSeq`, `rxWindow`, `epochRxAttempts`, all named as in the code.  `drone` says
which end receives, since they react differently: `handleData` answers a bad frame
with `abort()` (`closing`), while the user's `onMessage` drops it and goes on.  The
gates are in the code's order: epoch, `isValidSeq`, the attempt counter, window,
tag.  `sealed` is everything ever sealed, and the network may deliver any frame at
any time, so it contains reordering, duplication and loss; `Forged` is a frame whose
tag does not verify, which the code has by then already counted.  `SenderRekey` and
`ReceiverRekey` are the two ends' installs; `MaySwitch` is the order they come in
(the drone first, the user when the answer arrives).

Checked: `NoFalseReject`, `KeyBudget`, `BudgetIsPerEpoch`, and the refinement
`ImplementsOneShotDelivery`; proved besides: `AtMostOnce`, `WindowBounded`.
`NoFalseReject` is the other half of replay protection: a window that refused
everything would satisfy the first.

### `HelloGate`

`now` is the drone's clock; the cloud signs `iat = now + Skew`.  `Hello(t, valid, d)`
is one run of `handleHello` whose second `Date.now()` (the pruning) comes `d` after
the first (the expiry check): first the checks before the cache (`Admissible`, wrong
drone), then the cache after pruning, then the checks behind it (signatures), then
the burn.  `Refresh` is the `refresh` case of `handleControl`, which uses the cache
but not the boot gate.  `Restart` empties the cache and sets `bootTimeMs`.  `uses`
and `bootUses` are history.

Checked: `LiveNonceRemembered`, `RefusalJustified`, `ReuseOnlyAcrossExpiry` (a token
is accepted twice in one boot only by a handler during which it expires),
`NoHelloReplayAcrossRestart`; proved besides: `OnlyUsedNoncesRemembered`,
`CacheBounded`.

Because of the two clock readings the comment's "at most once" holds only up to
that last instant: `OncePerBoot` is a theorem when a handler's clock readings agree
(`Slack = 0`), and `ReuseOnlyAcrossExpiry` says exactly what is left otherwise.

### `DroneServer`

Per connection: the link's state, `pending` and `state` (which handshake's keys, 0
for null) and `slotHeld`; shared: the registry, as the ticket each member was
admitted with.  `km` and `keys` are the buffers not yet zeroized.  The actions are
`handleHello` in its three outcomes for the registry, `handleAck` good and bad,
every path to `abort()`, the attempt cap, and the close event.  `syncClose` is the
transport: over WebSocket `close()` raises the event itself, in-process it comes
behind the messages in flight, which are still handled.

Checked: `RegistryExact`, `NoUseAfterWipe`, `SecretsReachable`, `EvictionNeedsFlood`,
`SessionsIsolated`; proved besides: `ClosedIsEmpty`.

### `Session`

Both channels are FIFO, as both transports are.  A call of `rekey()` is `waiting`
from its init to the answer, `got` from the answer to the microtask that installs
the keys, then `done`; `threw` at the cap.  `pendingRekey` is the one awaiter slot a
second call overwrites.  Keys are the triple of epoch and the two contributions, so
that ends which combined different contributions hold different keys.  A command is
answered `n` times in the handler, and possibly later.  `note` stands for refresh
and policy frames, which touch no key.

`app` is chosen at the start: an application that waits for each `rekey()` and
answers promptly (`Sequential`), one that also answers commands late (`Belated`), or
one that calls on while a rekey is pending (`Overlapping`).

A spent budget ends a session in two ways.  In a handler, `sendFrame` disposes of the
session and throws up to the event loop, which nothing catches (`Crash`).  In a reply the
drone's application makes later, the throw is the application's own: it goes on, or its
process ends there (`LateReply`).  If it goes on, the link is open and the session gone,
and the next honest frame is refused with "no session" (`NoSession`).  `overlapped` and
`overdrawn` record that the user's application has called on during a rekey, and that the
drone's has used a kept reply at the cap.

Checked: `EpochsAgree` (without an overlapping call the ends' keys stay in step),
`NothingDropped` (without late replies either, no frame is dropped), `RefusalHasCause`
(the drone refuses an honest frame for its epoch or its tag only after an overlapping
call, and for want of a session only after a kept reply at the cap), and under fairness
`RekeySettles` and
`SplitIsTornDown` (ends that hold different keys do not stay so once anything is
said).

### `Authorization`

The owner's list (`allowed`), every token and policy signed so far (whoever relays
them may hold them back, and show them again), and per connection the pending token
and the session's `user`, `authExp`, `control` (is "control" in `scope`) and
`policyTs`.  The drone has a `boot` time and the `cache` of nonces it shares among its
connections, a set of tokens here, as each has a nonce of its own.  `Hello` and `Refresh`
look at the clock twice: `now` for the expiry check, `later` for the pruning, any number
of instants apart, and take the token if the cache does not hold it after the pruning.
One that is refused as known has pruned all the same (`Refuse`).  `Ack` opens with what
the hello brought, without another look at the clock; `Refresh` moves `authExp` and resets
the scope; `PolicyPush` replaces the scope if it is newer than the last one; `Command` is
an application frame that passes the use-time check.  `Restart` empties the cache, ends
the sessions and sets `boot`, which a hello is compared with and a refresh is not.
`grant`, `lived`, `seen` and `lastAllowed` are history.

Checked: `RevocationBounded` (a command is executed at most one token lifetime after
its user was last on the list: the cloud does not tell the drone about a
revocation, so this is what there is), `GrantsNotShared` (a token that two connections
hold, or a session and the handshake about to replace it, has expired: a handler that it
expires in may take it a second time, and such a session has no time left to command in),
`RegainNeedsNewWord` (nothing replayed gives back the control a policy or the deadline took:
it takes a token that has carried no session since boot, or a newer policy); proved
besides: `GrantIsOwn`.  Single use is nowhere assumed: it comes from the cache.

### `Handshake`

One link per attempt, one attempt per link.  The user goes from `idle` over
`authorizing` (awaiting the cloud), `waiting` (listeners registered) and `settled`
(the promise is resolved, its continuation not yet run) to `open` or `failed`.
`Shut` is `close()`: both ends get a close event behind what is in flight to them.
`Lose` is a broken socket, which drops what is in flight.  A key is the pair of the
connection, which stands for the transcript, and the static key in its second
branch; a MAC verifies under the key it was made with.  `pin`, `record` and `known`
are the three places where keys were copied to at provisioning, in any combination,
as a re-enrolment or a rotated user key may leave them.  The drone may refuse any
hello (expiry, nonce, PUF), and evicts as `DroneServer` does.

The close event of the drone's own `close()` is queued, as in-process; over WebSocket
it comes at once, which `DroneServer` covers and which makes no difference to the
user.

Checked: `MutualAuthentication`, `AloneOnlyWhenClosed`, `NothingUnheard`, and, under
fairness, `FailureFreesSlot` and `WaitEnds` (which excepts a link that closed while
the cloud was being asked).

### `Transport` and `Transports`

`Transport` is the interface of that name: per end what it `sent`, what was handed to
its callback (`got`), whether it `quit` and whether it was `told` of the close.
`Transports` is both classes behind it.  A WebSocket connection starts with the upgrade
(the server may write before the client's handler runs; bytes that came along with
the 101 are dropped there), then every frame is a sequence of bytes on `wire`, taken
off in pieces of any of the sizes `Cuts`, or all at once, and decoded by `Drain`, which
iterates `Pass`, one turn of the loop of `onData`, until no whole frame is left.  The three length formats are computed as in the code, with the
flag bit and the base as parameters: `Flag` 5 and `Base` 2 put their thresholds at
three and four bytes instead of 126 and 65536.  The in-process pair is one queue of
microtasks; `close()` closes the peer in the same call, and both close events are
queued behind what was sent.  `Break` kills a socket under both ends.

Checked, and proved as well: `ImplementsTransport`, the refinement (`INSTANCE Transport
WITH ...`).  Checked: `EverythingIsHeard`: what was sent, and a hang-up, reaches the other end unless the
connection breaks, so that no message is left in a buffer.

### `Mavlink` and `Flight`

`Mavlink` is the codec on bytes: little-endian fields and 32-bit floats cut to whole
numbers below 2^24, the five message definitions with their checksum
seeds, truncation of trailing zeros, the CRC, and `Push`, the parser: each turn of its
loop (`Pass`) drops the bytes up to a start byte (`Synced`), waits for a whole frame
(`Ready`), and takes it off whether or not the CRC was right.  `Push` takes as many turns
as frames could fit.  Recursion is by recursive functions over a length.

Whole numbers are an abstraction of the flight data.  The mission's GOTO 25.034,121.565
(`mavlink/flight.ts:55`) is 25,121 here; `Math.round` (`flight.ts:97-102`) has nothing to
round; and the threshold 0.5 of arming (`flight.ts:94`) is 1.  So `TelemetryTrue` speaks of
the code up to rounding.

In `Flight` each station has a script, sends the next message when the replies to the
last one are in (`Rested`), and may have its frames cut in two (`Feed` brings one
piece).  `Ingest` is `ingest` with all it calls: parse, obey every command in order,
answer each with three frames (`Serve`).  `Hear` is `describeFrame` on the other side.
`fed`, `applied` and `asked` are history.

Checked, and proved as well: `ChunkingInvisible` (cuts show nowhere: the drone did what
one look at all the bytes would have made it do), `GapsExplained` (a station misses
sequence numbers only where another was answered), `TelemetryTrue` (a station decodes what
the drone was after its command) and, for whole frames, `NoChimera` (no command made of two
stations' parts, none twice).  Checked: `NoChimera` for noise and cut frames as well, and,
if every station sends whole frames, `MissionCompletes`.

### `Puf` and `Provisioning`

A response is the set of its one bits; a read errs on each bit up to `Reads` times,
and `Mild` noise is a minority of the votes.  The sketch hides a random reference; the
tag tells whether regeneration found it again; the black key is the drone's static
scalar sealed under the result and bound to the drone's id.

`Provisioning` has one user and one drone, and every place a key is copied to:
`users` and `drones` at the cloud, `userKey` on the drone, the client's `pin` and
`cloudKey`, the board's black key and cloud key.  The owner's operations are separate
actions; `todo` is what he has begun and not carried through, and any step may also
happen uncalled for, with an old value (`registerUser` delayed, a board booted from an
old image or put on another die).  `incidents` bounds how often.  A connection goes
through `authorize`, `handleHello` with its boot gate and PUF read, the client's check of
the token against its pin, the ack, and refreshes.

A token is good for its user and drone and not for one key: the drone never compares the
key a token names with the one it verifies the hello under, and a refresh checks no key.
Tokens travel in the clear, so another client of the user may come to hold one (`spare`,
by `Spill`), and show it in a hello or in a session of its own, under whichever key
(`Borrow`), or spend it first, which makes the one it was granted to a replay
(`Forestall`).  `conn[c].key` is the key the client signs with; `token.key` the key the
token was asked for with, which no check reads.

`excuse`, `overtaken`, `token.key` and `vouched` are history: whether an attempt met
anything that may explain its failure, whether it had passed the hello when the drone's
pin of the user's key was replaced, and when each user key was last the one at the cloud.

Checked: `RetiredKeyContained` (whoever commands does so within one token lifetime of the
cloud having on record the key the token was asked for with, and under the key the drone
has pinned unless the session is older than the pin), `RetiredBoardLockedOut`, `SealedToTheBoard`, `NoFalseRefusal`,
and, under fairness, `KeyholderGetsIn`; proved besides: `KekExactOrRefused`.

## Runs and bounds

| run | bounds | states |
| --- | --- | --- |
| `ReplayWindow` | window 2, cap 3, five sequence numbers, two epochs | 6,743 |
| `HelloGate` | three nonces, three tokens, cache of 2, lifetime 2, time to 5, cloud 1 ahead, readings up to 1 apart, restart takes 2 | 89,404 |
| `HelloGate_reboot` | the same with exact clocks | violation |
| `DroneServer` | three connections, two slots, two hellos each | 17,668 |
| `DroneServer_keys` | the same | violation |
| `Session` | cap 3, three applications, 0 to 2 replies a command, two rekeys, three sends | 30,379 |
| `Session_crash` | cap 4, three replies a command | violation |
| `Authorization` | two users, two connections, two tokens, two policies, lifetime 1, time to 3 | 1,003,379 |
| `Handshake` | two links, one slot, two static keys | 50,115 |
| `Transports` | texts of two to four bytes, two from the client and one from the server, pieces of two bytes or all | 18,229 |
| `Flight` | two stations; one flies half the mission, the other one of ten scripts; sequence number 0 or 252 | 7,120 |
| `Provisioning` | one connection, two dies, three reads of two bits, lifetime 1, time to 3, up to two user keys, cloud boots and enrolments, two incidents | 312,328 |

A window of 2 has an entry that is inside, one at the edge and one that fell out,
and five sequence numbers let the window slide past its start; cap 3 is crossed
before and after the rekey.  In `HelloGate` three nonces against a cache of 2 fill
it, a lifetime of 2 within five ticks lets a token expire, its entry be pruned and
the room be used again, and there is time for two restarts.  In `DroneServer` the
third connection evicts, the evicted one can still speak, and two hellos give both a
repeated hello and a second handshake.  Two rekeys are the least that can overlap.
In `Authorization` two tokens and two policies can cross in either order, and a
lifetime of 1 within three instants lets a session outlive a revocation and then
expire, and a handler, or a restart, straddle a token's last instant.  In `Handshake` the second link evicts the first at any point of it.

In `Transports` the three lengths are one below the first threshold, one at it and
one at the second, so that all three header formats occur, and are cut within their
length bytes, their mask and their text and joined to the next frame; the server's
answer and the hang-ups cross them.  In `Flight` the ten scripts are: plain commands,
two in one payload with text before them, text, foreign messages, a command for another
system, a damaged frame, frames cut after 2, 20 and 43 bytes, and noise with a false
start byte; 252 lets the sequence number pass 256.  In `Provisioning` the two dies
answer with complementary bits, so that none can stand in for the other, and noise
is none, a minority or a majority of one bit's reads; two incidents are, for instance,
a new key and a token of it that the old key's holder comes by, a new key and a stale
registration, or a re-enrolment and a boot from the old image.

`CHECK_DEADLOCK FALSE` everywhere: every session may simply end, and the bounds
(`MaxSeq`, `MaxEpoch`, `MaxTime`, `MaxTokens`, `MaxPolicies`, `MaxHello`, `MaxSends`,
`MaxCalls`, `MaxKeys`, `MaxClouds`, `MaxIncidents`) and the scripts stop the rest.

Fairness:

* `Session`, `Handshake` (`FairSpec`): the event loops deliver queued messages and run
  continuations.  Nothing makes the application call or reply, the cloud answer, or a
  link close or break.
* `Transports` (`Spec`): the upgrade handlers and microtasks run, the socket brings
  what was written, a dead socket is noticed.  For `WsReceive` the conjunct is weak
  fairness with `Readable`, its guard, in place of `ENABLED`: a socket that can be read
  can be read whole, so the two are equal, and TLC need not try every decoding.
* `Flight` (`Spec`): a station that can go on does, and what is on its way arrives.  The
  conjuncts are weak fairness with each action's guard in place of `ENABLED`.
* `Provisioning` (`FairSpec`): the owner ends what he began, a client with the newest
  key tries again (strong, as other attempts take the connection in turn), each end
  answers (weak fairness of a hello with any noise), and the PUF is not misread every time
  the newest key comes (strong fairness of a mildly noisy hello of that key;
  `PUF_NOISE_PROB` is 0 by default).  Nothing forces an incident, the
  clock, a refresh or the end of a session.

## What is proved

`tlapm` checks the eight `...Proofs` modules, for every value of the constants that
satisfies the modules' assumptions.  Each names its inductive invariant and shows one
step per action.

* `FreshnessProofs`, replay window: all the properties above and the refinement.  The inductive
  invariant says that sequence numbers are never reused across epochs
  (`SealedOnce`), that the window set is exactly the delivered numbers still recent
  (`WindowExact`), that the newest number was delivered (`LastDelivered`) and that
  the attempt counter is the count for the live epoch (`AttemptsExact`).
  `AtMostOnce` alone is not inductive: a number pruned from the window is refused
  only because `rxLastSeq` has moved on.
* `FreshnessProofs`, freshness gate: the invariants, `RefusalJustified`, and the two action
  properties.  A token used in this boot and not expired is in the cache
  (`LiveTokenCached`), and one used in an earlier boot was issued before this boot
  (`UsedBeforeBootIsOld`).  The second rests on `ClocksAssumption`: the cloud's
  clock is ahead of the drone's by less than a restart takes.  `OncePerBootHolds`
  assumes `Slack = 0`.
* `DroneServerProofs`: all the properties above for any number of connections and
  slots.  Membership, slot flag and pending handshake agree (`SlotExact`), hellos
  number the handshakes of a connection in order (`InOrder`) so that a pending
  handshake never shares buffers with the open session, and admissions carry
  distinct tickets (`Dated`).
* `AuthorizationProofs`: all the properties above, for any number of users,
  connections, tokens and policies.  `RevocationBounded` needs that a session's
  deadline is exactly its grant's expiry (`DeadlineIsGrants`) and that a token was
  signed while its user was allowed (`SignedWhileAllowed`); `GrantsNotShared` needs
  that every token a connection holds, or that has carried a session since boot, is in the
  cache or has expired (`HeldIsSpent`): pruning forgets no live token, so a second use can
  only be of one that expires between a handler's two looks at the clock;
  `RegainNeedsNewWord` needs that a live token awaiting its ack has carried no session
  (`PendingIsNew`) and that `policyTs` is no less than any policy seen
  (`SeenIsGuarded`).  The steps on one connection share the lemma `OwnStep`.

* `SessionProofs`: type correctness, `EpochsAgree`, `NothingDropped`,
  `RefusalHasCause`, and `NoTearDown` (with one call at a time and at most one prompt
  reply to a command, nothing ends the session but a close), for any cap, any number of
  calls and any applications.  `EpochsAgree` says nothing of what is in flight; the
  invariant `InStep` does.  Unless the application has overlapped, either both ends hold the
  same keys (`Level`), or the drone is ahead by the answer to one call, which is queued
  (`Ahead`), and every frame in flight is sealed under the keys its receiver will hold
  when it arrives.  Besides, rekey calls begin in order (`Numbered`) and a drone that
  replies promptly and at most once spends no more of a budget than the user (`Frugal`).
  `RefusalHasCause` needs `InStep`, and that a session gone from under an open link was
  taken by a kept reply at the cap (`Accounted`).
* `HandshakeProofs`: type correctness, `MutualAuthentication`, `AloneOnlyWhenClosed`,
  `NothingUnheard`, for any number of connections and static keys.  Per connection, user,
  drone and the messages in flight are in one of the six combinations of an orderly
  handshake (`OnCourse`) or, once the line is dead, only close events follow what is in
  flight (`Trailing`); every MAC in flight was made by its sender (`Genuine`).
* `ProvisioningProofs`: type correctness and all the safety properties, for any PUF
  width and number of reads, any dies, keys and orders of steps.  A step the owner
  does not owe was last taken with what is current (`Current`); a token, held by a
  connection or passed around, was granted no later than the key it was asked for with was
  last vouched for (`Funded`); a session or a handshake past the hello is under the pinned
  key or older than the pin (`Pinned`); and an attempt without an excuse holds only current
  things and none of another client's (`Straight`).  Lemmas on the PUF: a mild read is the
  noiseless response, regeneration is exact if and only if the die is read as at
  enrolment.  `SealedToTheBoard` rests on
  `DiesApartAssumption`: no noise makes one die answer as another.  `TimeAssumption`
  has a request's allowance no longer than a token lives.
* `TransportProofs`: the refinement, `Spec => ImplementsTransport`, for any messages,
  masks, cuts of the byte stream, flag bit and base, and with it `InOrder`
  (`NothingMangled`) and `HeardAll` (`CloseIsLast`) of both transports, which are proved
  of every behaviour of `Transport` first.  The inductive invariant is `Holds`
  (`HeldUntilHeard`): what an end has said and the other has not been handed is, whole
  and in order, a sequence of frames that begins in the other's undecoded bytes, goes on
  upon the wire, and is closed by at most one close frame; in-process, it is a sequence of
  tasks in the queue.  A connection that broke may have lost the end of it.  `InOrder` by
  itself says nothing of bytes, so it is not inductive.  The lemmas below it are those of
  the codec: `k` digits say a number that needs no more (`NumberOfDigits`),
  masking twice is not masking (`Unmask`), what an encoder puts out the decoder reads
  back, whatever comes behind it (`FrameCarries`), and the loop takes off exactly the
  whole frames of any prefix of such a stream (`DrainStage`).  They rest on
  `WireAssumption` (a base above one, a flag bit above three), `TextAssumption` (messages
  and masks are bytes) and `LengthAssumption` (eight digits can say how long a message is).
  The recursive functions under them (`Quotient`, `Number`, `Drain`) are got hold of by
  the least number at which a claim fails (`LeastNumber`, `Induct`, `Recursion`), from the
  library's theorem that the naturals are well founded.

* `FlightProofs`: type correctness, `ChunkingInvisible`, `GapsExplained` and
  `TelemetryTrue`, for any stations, any scripts of messages (bytes of any kind, in any
  pieces) and any order in which the pieces arrive, and `NoChimera` for whole frames.  The
  inductive invariant is `FlightInv`: what the parser keeps is what a parser of all bytes
  so far would keep, and the commands done are those such a parser finds (`Parsing`); of
  each station, the replies heard and on their way are the drone's answers to the commands
  the station asked for, in order, and each command is recorded with the drone after it
  and the number that its place among all commands gives it (`Numbered`).  It speaks of
  replies not heard yet, and of which commands they answer, without which no step of
  `Hear` keeps `GapsExplained` or `TelemetryTrue`.

  The lemmas below it are those of the parser: looking for a start byte can wait for more
  bytes (`SyncedJoin`), what is whole stays whole (`ReadyJoin`), turns beyond those needed
  change nothing (`PassIdle`, `Enough`), a stream fed in two pieces gives the frames of the
  whole and keeps the same (`PushJoin`), what is kept is shorter than the longest frame
  (`PushKeeps`); and of the codec: a packed message is as long as its fields (`PackType`),
  an encoded frame is one frame, which a parser takes off whole (`EncodeAlone`,
  `PushAlone`), a number that fits into its field is read back from it, signed or not, even
  when trailing zeros were cut off (`WordBack`, `TakeBack`, `FieldBack`), and so is a whole
  number below 2^24 from a float's sign, exponent and fraction (`FloatBack`).  So each of
  the three answers decodes to what the drone wrote (`AnswersTell`), and `CommandArrives`:
  a command put into a frame is to the drone's parser that one command.  `TypeCorrect` says
  that the parser's buffer is bounded.

  `TelemetryTrueHolds` asks that every command done left the drone where the formats can
  hold it (`WithinWire`: 32 bits for latitude, longitude, altitude and the clock); beyond
  that the code keeps the lowest 32 bits (`| 0`), and telemetry is something else.

  `NoChimeraHolds` is for `tidy` runs and says more than its property: what the drone did
  for a station is the beginning of what that station has sent (`Unmixed`).  The parser is
  then empty between payloads, so that each payload's commands are its own.  When a frame
  is cut, the bytes of two stations do meet in one checksum.

  All rest on `ScriptAssumption`: payloads are bytes; `NoChimeraHolds` also on
  `WholeScripts`, which says what the scripts' flags mean: a parser keeps nothing of a
  whole message's pieces, and they ask for the message's commands.  It is a hypothesis of
  the theorem and not an assumption of `Flight`, since it is the parser itself that makes
  it true of a script.  `MissionsNotMixed` is the same without it, from `CommandArrives`: for
  stations that put each command into a frame of its own, as the mission in the code does,
  `NoChimera` follows from the packing itself.

Only model-checked: liveness and what depends on `ENABLED`, which are beyond the prover;
and `NoChimera` when frames are cut or noise comes in, where it says of a 16-bit checksum
that no mixture of two frames passes it, and so holds of given scripts and not of all.
Every other invariant and action property of a passing run has its theorem.

## Where code and comments disagree

* A refresh accepts a token spent before a restart (`HelloGate_reboot`).  The
  comments promise single use for refresh and no replay window after a restart; the
  boot gate is only in `handleHello`.
* A repeated hello, or a second handshake on an open session, drops session keys
  without zeroizing them, so that `dispose()` cannot (`DroneServer_keys`).
* The drone's `sendFrame` at the cap disposes of the session and throws; nothing
  above it catches (`Session_crash`).
Worth knowing, though no comment denies it:

* Policies are kept per session, so a new session starts from the token's scope
  whatever an earlier one was told, and a refresh restores that scope.  Of two
  refreshes whose answers cross the older one may shorten `authExp`.
* A user evicted between finish and ack holds a session on a closed link
  (`AloneOnlyWhenClosed`).  A link that closes while the cloud is being asked leaves
  `runUserHandshake` pending: its close listener is registered later, and a send on a
  closed link is silent.
* A `send()` while a `rekey()` is pending makes the drone abort the connection.  So does
  the user's next frame after the drone's application has used a kept reply at the cap:
  the session is disposed of and the link is not.  Nothing else between honest ends does
  (`RefusalHasCause`), a send budget that runs out inside a handler apart.  Two overlapping calls may leave
  the ends with different keys for one epoch, which the next frame reveals.
  `rekey()` at the cap throws, as its init counts against the spent budget, and leaves
  its awaiter installed.
* Stations that share the flight stack share its parser: a frame one of them leaves
  unfinished swallows the beginning of another's, and a start byte in noise whatever
  its length byte announces.  Commands are lost that way and none is invented
  (`NoChimera`); a sender notices by the missing replies.  Sequence numbers count all
  stations' replies, so each sees gaps (`GapsExplained`).
* A replaced user key is refused at the cloud at once, but a token it was
  given before is honoured for its lifetime, on an open session even after
  `reprovisionUserKey`: the drone looks at the pinned key in a hello only.  On tokens
  granted to the new key a session under the old one can go on for longer, since a refresh
  compares no key, and until `reprovisionUserKey` such a session can even begin.  After it,
  none does; a restart of the drone ends those that are left (`RetiredKeyContained`).
  A restart of the cloud loses its registry and its signing key; nobody gets in until both ends pin the new one.

## Not modelled

Partly:

* The wire messages are records of the fields their handlers read, and whatever does
  not parse is one refused message: which field an error names, and JSON itself, are
  left out.
* A digest, MAC or derived key is the tuple of what goes into it; its byte encoding is
  left out, and the primitives are ideal.  The upgrade's SHA-1 is left out too, and so
  are bytes that follow the upgrade request in the same packet on the server's side.
* `DroneServer` follows the session keys and handshake secrets; the key-encryption key
  that stays in memory when opening the black key throws is outside it.

Not at all:

* The deterministic generator and the secret audit (`setSeed`, `enableSecretAudit`,
  `Zeroizable`): nothing in the repository switches them on.
* The scripted demos, attack scenarios and capability tables: drivers of the parts
  above, read for what they expect of them.
* The dead-secret linter, a matcher of source text, and the authors' Verifpal models.
* A clock that is set back: `Date.now()` stands or advances in every module here, and
  a drone whose clock steps back would honour expired tokens again.

What could still be added: `parseMessage` and `isAuthToken` as functions of the fields
present, against what each handler reads.
