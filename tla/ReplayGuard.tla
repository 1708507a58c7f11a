---------------------------- MODULE ReplayGuard ----------------------------
(***************************************************************************)
(* The hmac_sign engine's replay protection: the freshness test of         *)
(* hmacsign.Inspect and one shard of the cache of engine/auth/auth.go with *)
(* its two generations.  A verifier reads the clock for the test, again    *)
(* before it takes the shard's mutex, and can be delayed at each point.    *)
(*                                                                         *)
(* The clock counts ticks of which a second has TicksPerSecond; the        *)
(* freshness test works on whole seconds (Unix()), the cache on ticks.     *)
(***************************************************************************)
EXTENDS Integers, FiniteSets

CONSTANTS
    Nonces,           \* the replay keys that hash to the shard
    Verifiers,        \* the streams that run the engine
    TicksPerSecond,
    Window,           \* seconds
    TTL,              \* the life of an entry, in ticks
    Capacity,         \* maxKeysPerShard
    Stamp(_),         \* the timestamp each nonce is signed with, in seconds
    MaxTick           \* bound: the last tick of the clock

ASSUME ReplayAssumption ==
    /\ TicksPerSecond \in Nat \ {0} /\ Window \in Nat /\ TTL \in Nat \ {0}
    /\ Capacity \in Nat \ {0} /\ MaxTick \in Nat
    /\ \A x \in Nonces : Stamp(x) \in Nat

VARIABLES
    tick,       \* what time.Now returns
    verifier,   \* [at, nonce, checked, now] of each verifier
    cur, prev,  \* the two generations: the expiry of a nonce, 0 when it is not there
    accepted    \* history, for each nonce: how often it was accepted since it was last
                \* forgotten; of the last time, the expiry it was given, the rotations
                \* since then (2 for more), and, when it was not the first, the ticks
                \* between the verifier's two clock readings

rgvars == <<tick, verifier, cur, prev, accepted>>

Resting == [at |-> "rest", nonce |-> "", checked |-> 0, now |-> 0]

Unix(t) == t \div TicksPerSecond

(* Mutant of Fresh: a timestamp of the future is always fresh. *)
FreshNotOld(x, t) == Unix(t) - Stamp(x) <= Window

(* The test of Inspect: |now - ts| <= window, in whole seconds *)
Fresh(x, t) == Unix(t) - Stamp(x) \in -Window .. Window

RGInit ==
    /\ tick = 0 /\ verifier = [v \in Verifiers |-> Resting]
    /\ cur = [x \in Nonces |-> 0] /\ prev = [x \in Nonces |-> 0]
    /\ accepted = [x \in Nonces |-> [times |-> 0, exp |-> 0, age |-> 0, lag |-> 0]]

RGTick ==
    /\ tick < MaxTick /\ tick' = tick + 1
    /\ UNCHANGED <<verifier, cur, prev, accepted>>

(* Inspect up to SeenBefore, for a request whose signature verifies: a       *)
(* timestamp outside the window ends it.                                     *)
Verify(v, x) ==
    /\ verifier[v] = Resting /\ Fresh(x, tick)
    /\ verifier' = [verifier EXCEPT ![v] = [at |-> "verified", nonce |-> x, checked |-> tick, now |-> 0]]
    /\ UNCHANGED <<tick, cur, prev, accepted>>

(* SeenBefore up to the lock: now := c.now() *)
ReadTime(v) ==
    /\ verifier[v].at = "verified"
    /\ verifier' = [verifier EXCEPT ![v] = [@ EXCEPT !.at = "timed", !.now = tick]]
    /\ UNCHANGED <<tick, cur, prev, accepted>>

(* SeenBefore under the lock: the nonce is known, sig.replayed.  A hit in    *)
(* the previous generation is promoted, whatever the size of the current.    *)
Replayed(v) ==
    /\ verifier[v].at = "timed"
    /\ LET x == verifier[v].nonce
           now == verifier[v].now
       IN  /\ now < cur[x] \/ now < prev[x]
           /\ cur' = IF now < cur[x] THEN cur ELSE [cur EXCEPT ![x] = prev[x]]
    /\ verifier' = [verifier EXCEPT ![v] = Resting]
    /\ UNCHANGED <<tick, prev, accepted>>

IsFull == Cardinality({x \in Nonces : cur[x] # 0}) >= Capacity

(* Mutant of PrevAfterRotation: the current generation is dropped, not kept. *)
PrevWiped == [x \in Nonces |-> 0]

(* s.prev = s.cur *)
PrevAfterRotation == cur

(* Two rotations take the place of both generations that held the nonce. *)
Forgotten(x) == accepted[x].age = 2

(* SeenBefore under the lock: a fresh nonce is recorded, after a rotation    *)
(* when the generation is full, and the request passes.                      *)
Accepted(v) ==
    /\ verifier[v].at = "timed"
    /\ LET x == verifier[v].nonce
           now == verifier[v].now
           before == accepted[x]
           again == before.times > 0 /\ ~Forgotten(x)
       IN  /\ now >= cur[x] /\ now >= prev[x]
           /\ prev' = IF IsFull THEN PrevAfterRotation ELSE prev
           /\ cur' = [(IF IsFull THEN [y \in Nonces |-> 0] ELSE cur) EXCEPT ![x] = now + TTL]
           /\ accepted' =
                [y \in Nonces |->
                   IF y = x
                   THEN [times |-> IF again THEN 2 ELSE 1, exp |-> now + TTL, age |-> 0,
                         lag |-> IF again THEN now - verifier[v].checked ELSE 0]
                   ELSE [accepted[y] EXCEPT !.age = IF IsFull /\ @ < 2 THEN @ + 1 ELSE @]]
    /\ verifier' = [verifier EXCEPT ![v] = Resting]
    /\ UNCHANGED tick

RGNext ==
    \/ RGTick
    \/ \E v \in Verifiers : ReadTime(v) \/ Replayed(v) \/ Accepted(v) \/ \E x \in Nonces : Verify(v, x)

RGSpec == RGInit /\ [][RGNext]_rgvars

-----------------------------------------------------------------------------
(* A nonce that was accepted is accepted again only on a clock reading at    *)
(* least TTL later, or when two whole generations of other nonces came in    *)
(* between, however the verifiers are delayed between their clock readings   *)
(* and the mutex (SeenBefore: "a recorded nonce survives at least one full   *)
(* generation").                                                             *)
AcceptedApart ==
    [][\A x \in Nonces :
         accepted'[x].exp # accepted[x].exp /\ accepted[x].times > 0 =>
           accepted'[x].exp >= accepted[x].exp + TTL \/ Forgotten(x)]_rgvars

(* The ticks in which a signature can pass the freshness test. *)
Lifetime == (2 * Window + 1) * TicksPerSecond

(* A signed request is accepted once as long as its entry is kept: a second  *)
(* time takes a verifier that was held up, between the freshness test and    *)
(* the cache, for longer than what the entry's life exceeds the signature's  *)
(* (Inspect and SeenBefore together).                                        *)
AcceptedOnce ==
    \A x \in Nonces : accepted[x].times > 1 => accepted[x].lag > TTL - Lifetime
=============================================================================
