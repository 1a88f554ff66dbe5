-------------------------------- MODULE Puf --------------------------------
(***************************************************************************)
(* The simulated PUF and the black key it guards (crypto/puf.ts,           *)
(* enrollDrone).  A response is the set of its bits that are one; a hash,  *)
(* a derived key or a ciphertext is the tuple of what went into it.        *)
(***************************************************************************)
EXTENDS Naturals

CONSTANTS Bit,           \* positions 0 .. PUF_RESPONSE_BITS - 1
          Reads,         \* PUF_MAJORITY_READS
          Die,           \* the chips
          Challenge,     \* values of the 16-byte challenge
          Clean          \* a die's noiseless response to a challenge

ASSUME ReadsAssumption == Reads \in Nat \ {0}
ASSUME CleanAssumption == Clean \in [Die -> [Challenge -> SUBSET Bit]]

Response == SUBSET Bit

\* Noise of one stable read: how many of the raw reads get each bit wrong.
Noise == [Bit -> 0..Reads]
Mild(noise) == \A b \in Bit : 2 * noise[b] < Reads

Ones(clean, noise, b) == IF b \in clean THEN Reads - noise[b] ELSE noise[b]

WrongStableRead(clean, noise) == {b \in Bit : Ones(clean, noise, b) > 0}
StableRead(clean, noise) == {b \in Bit : 2 * Ones(clean, noise, b) > Reads}

Xor(x, y) == (x \ y) \cup (y \ x)

Kek(reference, challenge) == [reference |-> reference, challenge |-> challenge]
NoKek == [reference |-> {}, challenge |-> 0]
ASSUME NoKekAssumption == 0 \notin Challenge

Tag(challenge, sketch, reference) == <<challenge, sketch, reference>>

\* pufEnroll: code-offset sketch of a random reference.
Helper(die, challenge, reference, noise) ==
  LET sketch == Xor(StableRead(Clean[die][challenge], noise), reference)
  IN  [challenge |-> challenge, sketch |-> sketch,
       tag |-> Tag(challenge, sketch, reference)]

TagMatches(helper, reference) ==
  helper.tag = Tag(helper.challenge, helper.sketch, reference)

\* pufRegenerate: the KEK, or NoKek when it throws.
Regenerated(die, helper, noise) ==
  LET reference == Xor(StableRead(Clean[die][helper.challenge], noise), helper.sketch)
  IN  IF TagMatches(helper, reference) THEN Kek(reference, helper.challenge) ELSE NoKek

WrongBlackKeyAad(id) == "litezero/blackkey/v1"
BlackKeyAad(id) == id

\* enrollDrone: the static scalar, sealed to the die and to the drone's id.
BlackKey(kek, id, scalar) == [key |-> kek, aad |-> BlackKeyAad(id), scalar |-> scalar]

NoScalar == 0
Unsealed(black, kek, aad) == IF black.key = kek /\ black.aad = aad THEN black.scalar ELSE NoScalar

\* The unwrapping in handleHello: the scalar, or NoScalar when it aborts.
Unwrapped(die, id, helper, black, noise) ==
  LET kek == Regenerated(die, helper, noise)
  IN  IF kek = NoKek THEN NoScalar ELSE Unsealed(black, kek, BlackKeyAad(id))
=============================================================================
