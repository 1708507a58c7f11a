----------------------------- MODULE RateLimit -----------------------------
(***************************************************************************)
(* One shard of the rate-limit engine (engine/ratelimit/ratelimit.go): a   *)
(* token bucket per key behind the shard's mutex, at most MaxKeys of them. *)
(* A caller reads the clock before it takes the mutex, so the times that   *)
(* reach a bucket need not be in order.                                    *)
(*                                                                         *)
(* Tokens are counted in units: a request costs Cost units, a tick of the  *)
(* clock adds Rate units, a bucket holds Burst units.                      *)
(***************************************************************************)
EXTENDS Integers, FiniteSets

CONSTANTS
    Keys,         \* the keys that hash to the shard
    Callers,      \* the streams that run the engine
    Cost, Rate, Burst,
    MaxKeys,      \* maxKeysPerShard
    MaxClock      \* bound: the last tick of the clock

ASSUME RateAssumption ==
    /\ Cost \in Nat \ {0} /\ Rate \in Nat \ {0} /\ Burst \in Nat /\ Burst >= Cost
    /\ MaxKeys \in Nat \ {0} /\ MaxClock \in Nat /\ IsFiniteSet(Keys)

VARIABLES
    clock,        \* what time.Now returns
    calls,        \* the call of allow a caller is in: [key, now], or Idle
    stored,       \* the keys that have a bucket
    tokens, last, \* the buckets
    born, spent   \* history: when the bucket was made, and the units it granted

bucketvars == <<tokens, last, born, spent>>

rlvars == <<clock, calls, stored, tokens, last, born, spent>>

Idle == [key |-> "", now |-> -1]

RLInit ==
    /\ clock = 0 /\ calls = [c \in Callers |-> Idle] /\ stored = {}
    /\ tokens = [k \in Keys |-> 0] /\ last = [k \in Keys |-> 0]
    /\ born = [k \in Keys |-> 0] /\ spent = [k \in Keys |-> 0]

RLTick ==
    /\ clock < MaxClock /\ clock' = clock + 1
    /\ UNCHANGED <<calls, stored, bucketvars>>

(* allow, up to the lock: now := e.now() *)
ReadClock(c, k) ==
    /\ calls[c] = Idle
    /\ calls' = [calls EXCEPT ![c] = [key |-> k, now |-> clock]]
    /\ UNCHANGED <<clock, stored, bucketvars>>

(* now.Sub(bk.last).Seconds() >= burst / rps *)
IsIdleAt(k, now) == Rate * (now - last[k]) >= Burst

(* Mutant of AfterEviction: a full shard is wiped. *)
WipedShard(now) == IF Cardinality(stored) >= MaxKeys THEN {} ELSE stored

(* The keys that are left when a new one comes to a full shard. *)
AfterEviction(now) ==
    IF Cardinality(stored) >= MaxKeys THEN {k \in stored : ~IsIdleAt(k, now)} ELSE stored

(* A field of the buckets when k gets a new bucket beside the kept ones. *)
Put(f, kept, k, v) == [x \in Keys |-> IF x = k THEN v ELSE IF x \in kept THEN f[x] ELSE 0]

(* allow, under the lock, for a key without a bucket *)
AllowNew(c) ==
    /\ calls[c] # Idle
    /\ LET k == calls[c].key
           now == calls[c].now
           kept == AfterEviction(now)
       IN  /\ k \notin stored
           /\ IF Cardinality(kept) >= MaxKeys
              THEN stored' = kept /\ UNCHANGED bucketvars
              ELSE /\ stored' = kept \union {k}
                   /\ tokens' = Put(tokens, kept, k, Burst - Cost)
                   /\ last' = Put(last, kept, k, now)
                   /\ born' = Put(born, kept, k, now)
                   /\ spent' = Put(spent, kept, k, Cost)
    /\ calls' = [calls EXCEPT ![c] = Idle]
    /\ UNCHANGED clock

(* Mutant of Refilled: the time that passed counts although it is negative   *)
(* or the bucket was refilled since.                                         *)
RefilledFromBirth(k, now) == IF now > born[k] THEN Burst ELSE tokens[k]

(* The refill: nothing when the caller's time is not after the bucket's. *)
Refilled(k, now) ==
    IF now > last[k]
    THEN IF tokens[k] + Rate * (now - last[k]) > Burst THEN Burst
         ELSE tokens[k] + Rate * (now - last[k])
    ELSE tokens[k]

(* allow, under the lock, for a key that has a bucket *)
AllowStored(c) ==
    /\ calls[c] # Idle
    /\ LET k == calls[c].key
           now == calls[c].now
           have == Refilled(k, now)
           granted == have >= Cost
       IN  /\ k \in stored
           /\ last' = [last EXCEPT ![k] = IF now > @ THEN now ELSE @]
           /\ tokens' = [tokens EXCEPT ![k] = IF granted THEN have - Cost ELSE have]
           /\ spent' = [spent EXCEPT ![k] = IF granted THEN @ + Cost ELSE @]
    /\ calls' = [calls EXCEPT ![c] = Idle]
    /\ UNCHANGED <<clock, stored, born>>

RLNext ==
    \/ RLTick
    \/ \E c \in Callers : AllowNew(c) \/ AllowStored(c) \/ \E k \in Keys : ReadClock(c, k)

RLSpec == RLInit /\ [][RLNext]_rlvars

-----------------------------------------------------------------------------
RateTypes ==
    /\ clock \in Nat /\ stored \subseteq Keys
    /\ calls \in [Callers -> {Idle} \union [key : Keys, now : Nat]]
    /\ tokens \in [Keys -> Nat] /\ last \in [Keys -> Nat]
    /\ born \in [Keys -> Nat] /\ spent \in [Keys -> Nat]

(* Whatever the order in which callers that read the clock earlier or later  *)
(* get the mutex, a bucket never grants more than the burst and the rate     *)
(* times the time it has lived, is never over its capacity, and the shard    *)
(* never holds more than MaxKeys buckets (allow).                            *)
GrantsBounded ==
    /\ \A k \in stored :
         /\ tokens[k] <= Burst /\ born[k] <= last[k] /\ last[k] <= clock
         /\ tokens[k] + spent[k] <= Burst + Rate * (last[k] - born[k])
    /\ Cardinality(stored) <= MaxKeys

(* A bucket that is dropped would be full by now, so that making it anew     *)
(* gives its key nothing: no key under its limit is forgotten to make room   *)
(* for another (allow, the eviction in a full shard).                        *)
ForgetsOnlyFull ==
    [][\A k \in stored \ stored' : tokens[k] + Rate * (clock - last[k]) >= Burst]_rlvars
=============================================================================
