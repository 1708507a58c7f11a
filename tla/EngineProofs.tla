---------------------------- MODULE EngineProofs ----------------------------
(***************************************************************************)
(* What the engines of a policy and the set that runs them decide, for any *)
(* engines and requests of the form JobsAssumption states.                 *)
(*                                                                         *)
(* The state is simple: what was asked and found is a function of the job  *)
(* (EVInv).  The work is in the loop of Set.inspect over its engines, an   *)
(* instance of Loops (FindingsSurface), and in one case per engine that    *)
(* answers for the caller (for CallerEntitled, in VerdictProofs).          *)
(***************************************************************************)
EXTENDS EngineVerdicts, RateLimit, ReplayGuard, FiniteSetTheorems, TLAPS

-----------------------------------------------------------------------------
(* RateLimit, for every number of keys and callers, every cost, rate, burst  *)
(* and size of the shard.                                                    *)
(*                                                                           *)
(* GrantsBounded alone is not inductive: a caller's clock reading must not be *)
(* in the future, or a refill would take last past the clock.                *)

(* A reading that waits for the mutex is not after the clock. *)
ReadingsPast == \A c \in Callers : calls[c] # Idle => calls[c].now <= clock

(* The four numbers of a bucket. *)
BucketOK(k) ==
    /\ tokens[k] <= Burst /\ born[k] <= last[k] /\ last[k] <= clock
    /\ tokens[k] + spent[k] <= Burst + Rate * (last[k] - born[k])

RLInv ==
    /\ RateTypes
    /\ ReadingsPast
    /\ \A k \in stored : BucketOK(k)
    /\ Cardinality(stored) <= MaxKeys

-----------------------------------------------------------------------------
(* Rate times a longer time is Rate times its two parts. *)
LEMMA RateOverTime ==
    ASSUME NEW r \in Nat, NEW a \in Int, NEW b \in Int, NEW c \in Int
    PROVE  r * (c - a) = r * (c - b) + r * (b - a)
  OBVIOUS

(* More time adds no less. *)
LEMMA RateMonotone ==
    ASSUME NEW r \in Nat, NEW a \in Nat, NEW b \in Nat, NEW c \in Nat, b <= c
    PROVE  r * (b - a) <= r * (c - a)
  <1>1. r * (c - a) = r * (c - b) + r * (b - a)
    BY RateOverTime
  <1>2. c - b \in Nat
    OBVIOUS
  <1>3. r * (c - b) >= 0
    BY <1>2
  <1>4. r * (c - b) \in Int /\ r * (b - a) \in Int
    OBVIOUS
  <1> QED
    BY <1>1, <1>3, <1>4

(* What is kept of a full shard is no more than there was. *)
LEMMA EvictionKeeps ==
    ASSUME NEW now, RateTypes
    PROVE  /\ AfterEviction(now) \subseteq stored
           /\ IsFiniteSet(stored)
           /\ IsFiniteSet(AfterEviction(now))
           /\ Cardinality(AfterEviction(now)) <= Cardinality(stored)
           /\ Cardinality(stored) \in Nat
           /\ Cardinality(AfterEviction(now)) \in Nat
  <1>1. AfterEviction(now) \subseteq stored
    BY Zenon DEF AfterEviction
  <1>2. IsFiniteSet(stored)
    BY Zenon, RateAssumption, FS_Subset DEF RateTypes
  <1> QED
    BY Zenon, <1>1, <1>2, FS_Subset, FS_CardinalityType

-----------------------------------------------------------------------------
(* The refill of a bucket leaves it within its capacity and adds no more     *)
(* than the rate for the time it moves last forward.                         *)
LEMMA RefillBound ==
    ASSUME NEW k \in Keys, NEW now \in Nat, RateTypes, tokens[k] <= Burst
    PROVE  LET fwd == IF now > last[k] THEN now ELSE last[k]
           IN  /\ Refilled(k, now) \in Nat
               /\ Refilled(k, now) <= Burst
               /\ Refilled(k, now) <= tokens[k] + Rate * (fwd - last[k])
  <1> DEFINE gain == Rate * (now - last[k])
  <1>1. tokens[k] \in Nat /\ last[k] \in Nat /\ Burst \in Nat /\ Rate \in Nat
    BY Zenon, RateAssumption DEF RateTypes
  <1>2. CASE now > last[k]
    <2>1. now - last[k] \in Nat
      BY <1>1, <1>2
    <2>2. gain \in Nat
      BY <1>1, <2>1
    <2>3. Refilled(k, now) = IF tokens[k] + gain > Burst THEN Burst ELSE tokens[k] + gain
      BY Zenon, <1>2 DEF Refilled
    <2> HIDE DEF gain
    <2>4. Refilled(k, now) \in Nat /\ Refilled(k, now) <= Burst /\ Refilled(k, now) <= tokens[k] + gain
      BY <1>1, <2>2, <2>3
    <2> QED
      BY Zenon, <1>2, <2>4 DEF gain
  <1>3. CASE ~(now > last[k])
    <2>1. Refilled(k, now) = tokens[k]
      BY Zenon, <1>3 DEF Refilled
    <2>2. last[k] - last[k] = 0 /\ Rate * 0 = 0
      BY <1>1
    <2> QED
      BY <1>1, <1>3, <2>1, <2>2
  <1> QED
    BY Zenon, <1>2, <1>3

-----------------------------------------------------------------------------
(* A step of the clock leaves every bucket and reading in the past. *)
LEMMA ClockKeeps ==
    ASSUME RLInv, RLTick
    PROVE  RLInv'
  <1>1. RateTypes'
    BY DEF RLInv, RLTick, RateTypes, bucketvars
  <1>2. clock <= clock' /\ clock \in Nat /\ clock' \in Nat
    BY DEF RLInv, RLTick, RateTypes
  <1>3. ReadingsPast'
    <2> SUFFICES ASSUME NEW c \in Callers, calls[c] # Idle
                 PROVE  calls[c].now <= clock'
      BY Zenon DEF ReadingsPast, RLTick, bucketvars, Idle
    <2>1. calls[c].now <= clock /\ calls[c].now \in Nat
      BY Zenon DEF RLInv, ReadingsPast, RateTypes
    <2> QED
      BY <1>2, <2>1
  <1>4. ASSUME NEW k \in stored' PROVE BucketOK(k)'
    <2>1. k \in stored /\ BucketOK(k) /\ last[k] \in Nat
      BY Zenon, <1>4 DEF RLInv, RLTick, RateTypes
    <2> QED
      BY <1>2, <2>1 DEF RLTick, bucketvars, BucketOK
  <1> QED
    BY Zenon, <1>1, <1>3, <1>4 DEF RLInv, RLTick

(* A caller that reads the clock reads the present. *)
LEMMA ReadKeeps ==
    ASSUME RLInv, NEW c \in Callers, NEW k \in Keys, ReadClock(c, k)
    PROVE  RLInv'
  <1>1. RateTypes'
    BY Zenon DEF RLInv, ReadClock, RateTypes, bucketvars
  <1>2. ReadingsPast'
    <2> SUFFICES ASSUME NEW d \in Callers, calls'[d] # Idle
                 PROVE  calls'[d].now <= clock
      BY Zenon DEF ReadingsPast, ReadClock, bucketvars, Idle
    <2>1. CASE d = c
      BY <2>1 DEF RLInv, RateTypes, ReadClock
    <2>2. CASE d # c
      BY Zenon, <2>2 DEF RLInv, RateTypes, ReadClock, ReadingsPast
    <2> QED
      BY Zenon, <2>1, <2>2
  <1>3. ASSUME NEW x \in stored' PROVE BucketOK(x)'
    BY Zenon, <1>3 DEF RLInv, ReadClock, bucketvars, BucketOK
  <1> QED
    BY Zenon, <1>1, <1>2, <1>3 DEF RLInv, ReadClock

(* The call a caller is in, and that its end leaves the other calls alone. *)
LEMMA CallEnds ==
    ASSUME RLInv, NEW c \in Callers, calls[c] # Idle,
           calls' = [calls EXCEPT ![c] = Idle], clock' = clock
    PROVE  /\ calls[c].key \in Keys /\ calls[c].now \in Nat /\ calls[c].now <= clock
           /\ calls' \in [Callers -> {Idle} \union [key : Keys, now : Nat]]
           /\ ReadingsPast'
  <1>1. calls[c].key \in Keys /\ calls[c].now \in Nat /\ calls[c].now <= clock
    BY Zenon DEF RLInv, RateTypes, ReadingsPast
  <1>2. calls' \in [Callers -> {Idle} \union [key : Keys, now : Nat]]
    BY Zenon DEF RLInv, RateTypes
  <1>3. ReadingsPast'
    <2> SUFFICES ASSUME NEW d \in Callers, calls'[d] # Idle
                 PROVE  calls'[d].now <= clock
      BY Zenon DEF ReadingsPast, Idle
    <2> QED
      BY Zenon DEF RLInv, RateTypes, ReadingsPast
  <1> QED
    BY Zenon, <1>1, <1>2, <1>3

-----------------------------------------------------------------------------
(* A call for a key without a bucket. *)
LEMMA NewKeeps ==
    ASSUME RLInv, NEW c \in Callers, AllowNew(c)
    PROVE  RLInv'
  <1> DEFINE k == calls[c].key
             now == calls[c].now
             kept == AfterEviction(now)
  <1>1. /\ k \in Keys /\ now \in Nat /\ now <= clock
        /\ calls' \in [Callers -> {Idle} \union [key : Keys, now : Nat]]
        /\ ReadingsPast'
    BY Zenon, CallEnds DEF AllowNew
  <1>2. /\ kept \subseteq stored /\ IsFiniteSet(kept) /\ Cardinality(kept) \in Nat
        /\ Cardinality(stored) \in Nat /\ Cardinality(kept) <= Cardinality(stored)
    BY Zenon, EvictionKeeps DEF RLInv
  <1>3. k \notin stored /\ clock' = clock
    BY Zenon DEF AllowNew
  <1>4. CASE Cardinality(kept) >= MaxKeys
    <2>1. stored' = kept /\ UNCHANGED bucketvars
      BY Zenon, <1>4 DEF AllowNew
    <2>2. RateTypes'
      BY Zenon, <1>1, <1>2, <1>3, <2>1 DEF RLInv, RateTypes, bucketvars
    <2>3. ASSUME NEW x \in stored' PROVE BucketOK(x)'
      BY Zenon, <1>2, <1>3, <2>1, <2>3 DEF RLInv, bucketvars, BucketOK
    <2>4. Cardinality(stored') <= MaxKeys
      BY <1>2, <2>1, RateAssumption DEF RLInv
    <2> QED
      BY Zenon, <1>1, <2>2, <2>3, <2>4 DEF RLInv
  <1>5. CASE ~(Cardinality(kept) >= MaxKeys)
    <2>1. /\ stored' = kept \union {k}
          /\ tokens' = Put(tokens, kept, k, Burst - Cost)
          /\ last' = Put(last, kept, k, now)
          /\ born' = Put(born, kept, k, now)
          /\ spent' = Put(spent, kept, k, Cost)
      BY Zenon, <1>5 DEF AllowNew
    <2> HIDE DEF k, now, kept
    <2>2. Burst - Cost \in Nat /\ Cost \in Nat /\ Burst \in Nat /\ Rate \in Nat /\ MaxKeys \in Nat
      BY RateAssumption
    <2>3. RateTypes'
      <3>1. stored' \subseteq Keys
        BY Zenon, <1>1, <1>2, <2>1 DEF RLInv, RateTypes
      <3>2. /\ tokens' \in [Keys -> Nat] /\ last' \in [Keys -> Nat]
            /\ born' \in [Keys -> Nat] /\ spent' \in [Keys -> Nat]
        BY Zenon, <1>1, <2>1, <2>2 DEF RLInv, RateTypes, Put
      <3> QED
        BY Zenon, <1>1, <1>3, <3>1, <3>2 DEF RLInv, RateTypes
    <2>4. ASSUME NEW x \in stored' PROVE BucketOK(x)'
      <3>1. CASE x = k
        <4>1. tokens'[x] = Burst - Cost /\ spent'[x] = Cost /\ last'[x] = now /\ born'[x] = now
          BY Zenon, <1>1, <2>1, <3>1 DEF Put
        <4>2. now - now = 0 /\ Rate * 0 = 0
          BY <1>1, <2>2
        <4> QED
          BY SMTT(30), <1>1, <1>3, <2>2, <4>1, <4>2 DEF BucketOK
      <3>2. CASE x # k
        <4>1. x \in kept /\ x \in stored /\ x \in Keys
          BY Zenon, <1>2, <2>1, <2>4, <3>2 DEF RLInv, RateTypes
        <4>2. tokens'[x] = tokens[x] /\ spent'[x] = spent[x] /\ last'[x] = last[x] /\ born'[x] = born[x]
          BY Zenon, <2>1, <3>2, <4>1 DEF Put
        <4> QED
          BY Zenon, <1>3, <4>1, <4>2 DEF RLInv, BucketOK
      <3> QED
        BY Zenon, <3>1, <3>2
    <2>5. Cardinality(stored') <= MaxKeys
      <3>1. k \notin kept
        BY Zenon, <1>2, <1>3
      <3>2. Cardinality(kept \union {k}) = Cardinality(kept) + 1
        BY Zenon, <1>2, <3>1, FS_AddElement
      <3> QED
        BY <1>2, <1>5, <2>1, <2>2, <3>2
    <2> QED
      BY Zenon, <1>1, <2>3, <2>4, <2>5 DEF RLInv
  <1> QED
    BY Zenon, <1>4, <1>5

(* A call for a key that has one. *)
LEMMA StoredKeeps ==
    ASSUME RLInv, NEW c \in Callers, AllowStored(c)
    PROVE  RLInv'
  <1> DEFINE k == calls[c].key
             now == calls[c].now
             have == Refilled(k, now)
             fwd == IF now > last[k] THEN now ELSE last[k]
  <1>1. /\ k \in Keys /\ now \in Nat /\ now <= clock
        /\ calls' \in [Callers -> {Idle} \union [key : Keys, now : Nat]]
        /\ ReadingsPast'
    BY Zenon, CallEnds DEF AllowStored
  <1>2. k \in stored /\ clock' = clock /\ stored' = stored /\ born' = born
    BY Zenon DEF AllowStored
  <1>3. BucketOK(k)
    BY Zenon, <1>2 DEF RLInv
  <1>4. have \in Nat /\ have <= Burst /\ have <= tokens[k] + Rate * (fwd - last[k])
    <2>1. RateTypes /\ tokens[k] <= Burst
      BY Zenon, <1>3 DEF RLInv, BucketOK
    <2> QED
      BY Zenon, <1>1, <2>1, RefillBound
  <1>5. /\ last' = [last EXCEPT ![k] = fwd]
        /\ tokens' = [tokens EXCEPT ![k] = IF have >= Cost THEN have - Cost ELSE have]
        /\ spent' = [spent EXCEPT ![k] = IF have >= Cost THEN @ + Cost ELSE @]
    BY Zenon DEF AllowStored
  <1>6. /\ tokens[k] \in Nat /\ last[k] \in Nat /\ born[k] \in Nat /\ spent[k] \in Nat
        /\ fwd \in Nat /\ last[k] <= fwd /\ clock \in Nat
    BY SMTT(30), <1>1 DEF RLInv, RateTypes
  <1>7. fwd <= clock
    BY Zenon, <1>1, <1>3 DEF BucketOK
  <1> HIDE DEF k, now, have, fwd
  <1>8. Cost \in Nat /\ Burst \in Nat /\ Rate \in Nat
    BY Zenon, RateAssumption
  <1>9. RateTypes'
    <2>1. last' \in [Keys -> Nat]
      BY Zenon, <1>1, <1>5, <1>6 DEF RLInv, RateTypes
    <2>2. tokens' \in [Keys -> Nat] /\ spent' \in [Keys -> Nat]
      BY SMTT(30), <1>1, <1>4, <1>5, <1>8 DEF RLInv, RateTypes
    <2> QED
      BY Zenon, <1>1, <1>2, <2>1, <2>2 DEF RLInv, RateTypes
  <1>10. ASSUME NEW x \in stored' PROVE BucketOK(x)'
    <2>1. CASE x = k
      <3>1. /\ last'[x] = fwd /\ born'[x] = born[k]
            /\ tokens'[x] = IF have >= Cost THEN have - Cost ELSE have
            /\ spent'[x] = IF have >= Cost THEN spent[k] + Cost ELSE spent[k]
        BY Zenon, <1>1, <1>2, <1>5, <2>1 DEF RLInv, RateTypes
      <3>2. tokens'[x] + spent'[x] = have + spent[k] /\ tokens'[x] <= Burst
        <4>1. have \in Nat /\ have <= Burst /\ spent[k] \in Nat
          BY Zenon, <1>4, <1>6
        <4> QED
          BY <1>8, <3>1, <4>1
      <3>3. Rate * (fwd - born[k]) = Rate * (fwd - last[k]) + Rate * (last[k] - born[k])
        BY <1>6, <1>8, RateOverTime
      <3>4. /\ Rate * (fwd - last[k]) \in Int /\ Rate * (last[k] - born[k]) \in Int
            /\ Rate * (fwd - born[k]) \in Int
        BY <1>6, <1>8
      <3>5. tokens[k] + spent[k] <= Burst + Rate * (last[k] - born[k]) /\ born[k] <= last[k]
        BY Zenon, <1>3 DEF BucketOK
      <3>6. have + spent[k] <= Burst + Rate * (fwd - born[k])
        BY SMTT(30), <1>4, <1>6, <1>8, <3>3, <3>4, <3>5
      <3> QED
        BY SMTT(30), <1>2, <1>6, <1>7, <3>1, <3>2, <3>5, <3>6 DEF BucketOK
    <2>2. CASE x # k
      <3>1. x \in Keys /\ BucketOK(x)
        BY Zenon, <1>2, <1>10 DEF RLInv, RateTypes
      <3>2. tokens'[x] = tokens[x] /\ spent'[x] = spent[x] /\ last'[x] = last[x] /\ born'[x] = born[x]
        BY Zenon, <1>2, <1>5, <2>2, <3>1 DEF RLInv, RateTypes
      <3> QED
        BY Zenon, <1>2, <3>1, <3>2 DEF BucketOK
    <2> QED
      BY Zenon, <2>1, <2>2
  <1> QED
    BY Zenon, <1>1, <1>2, <1>9, <1>10 DEF RLInv

-----------------------------------------------------------------------------
LEMMA RLInvInitially ==
    ASSUME RLInit
    PROVE  RLInv
  <1>1. Cardinality(stored) = 0
    BY Zenon, FS_EmptySet DEF RLInit
  <1>2. RateTypes /\ ReadingsPast /\ \A k \in stored : BucketOK(k)
    BY Zenon DEF RLInit, RateTypes, ReadingsPast
  <1> QED
    BY <1>1, <1>2, RateAssumption DEF RLInv

LEMMA RLInvKept ==
    ASSUME RLInv, [RLNext]_rlvars
    PROVE  RLInv'
  <1>1. CASE RLTick
    BY Zenon, <1>1, ClockKeeps
  <1>2. ASSUME NEW c \in Callers, AllowNew(c) PROVE RLInv'
    BY Zenon, <1>2, NewKeeps
  <1>3. ASSUME NEW c \in Callers, AllowStored(c) PROVE RLInv'
    BY Zenon, <1>3, StoredKeeps
  <1>4. ASSUME NEW c \in Callers, NEW k \in Keys, ReadClock(c, k) PROVE RLInv'
    BY Zenon, <1>4, ReadKeeps
  <1>5. CASE UNCHANGED rlvars
    <2>1. RateTypes'
      BY Zenon, <1>5 DEF RLInv, rlvars, RateTypes
    <2>2. ReadingsPast'
      BY Zenon, <1>5 DEF RLInv, rlvars, ReadingsPast, Idle
    <2>3. ASSUME NEW k \in stored' PROVE BucketOK(k)'
      BY Zenon, <1>5, <2>3 DEF RLInv, rlvars, BucketOK
    <2> QED
      BY Zenon, <1>5, <2>1, <2>2, <2>3 DEF RLInv, rlvars
  <1> QED
    BY Zenon, <1>1, <1>2, <1>3, <1>4, <1>5 DEF RLNext

(* A bucket grants no more than its burst and the rate for the time it has   *)
(* lived, and the shard is bounded, in whatever order its callers, each with *)
(* its own reading of the clock, get the mutex (allow).                      *)
THEOREM RateIsBounded == RLSpec => []GrantsBounded
  <1>1. RLInit => RLInv
    BY Zenon, RLInvInitially
  <1>2. RLInv /\ [RLNext]_rlvars => RLInv'
    BY Zenon, RLInvKept
  <1>3. RLInv => GrantsBounded
    BY Zenon DEF RLInv, GrantsBounded, BucketOK
  <1> QED
    BY <1>1, <1>2, <1>3, PTL DEF RLSpec

(* A full shard forgets only buckets that are full by then (allow).          *)
LEMMA EvictedIsFull ==
    ASSUME RLInv, [RLNext]_rlvars, NEW k \in stored \ stored'
    PROVE  tokens[k] + Rate * (clock - last[k]) >= Burst
  <1>1. PICK c \in Callers : AllowNew(c)
    BY Zenon DEF RLNext, RLTick, AllowStored, ReadClock, rlvars
  <1> DEFINE now == calls[c].now
  <1>2. now \in Nat /\ now <= clock
    BY Zenon, <1>1 DEF AllowNew, RLInv, RateTypes, ReadingsPast
  <1>3. k \notin AfterEviction(now)
    BY Zenon, <1>1 DEF AllowNew
  <1>4. Rate * (now - last[k]) >= Burst
    BY Zenon, <1>3 DEF AfterEviction, IsIdleAt
  <1>5. /\ k \in Keys /\ last[k] \in Nat /\ tokens[k] \in Nat /\ clock \in Nat
        /\ Rate \in Nat /\ Burst \in Nat
    BY Zenon, RateAssumption DEF RLInv, RateTypes
  <1> HIDE DEF now
  <1>6. Rate * (now - last[k]) <= Rate * (clock - last[k])
    BY Zenon, <1>2, <1>5, RateMonotone
  <1>7. Rate * (now - last[k]) \in Int /\ Rate * (clock - last[k]) \in Int
    BY <1>2, <1>5
  <1> QED
    BY SMTT(30), <1>4, <1>5, <1>6, <1>7

(* No key under its limit is forgotten to make room for another (allow's     *)
(* eviction): what a dropped bucket would have refilled to is its capacity.  *)
THEOREM EvictionIsHarmless == RLSpec => ForgetsOnlyFull
  <1>1. RLInit => RLInv
    BY Zenon, RLInvInitially
  <1>2. RLInv /\ [RLNext]_rlvars => RLInv'
    BY Zenon, RLInvKept
  <1>3. RLInv /\ [RLNext]_rlvars
          => [\A k \in stored \ stored' : tokens[k] + Rate * (clock - last[k]) >= Burst]_rlvars
    BY Zenon, EvictedIsFull
  <1> QED
    BY <1>1, <1>2, <1>3, PTL DEF RLSpec, ForgetsOnlyFull

-----------------------------------------------------------------------------
(* ReplayGuard, for every set of nonces and verifiers, every window, life of *)
(* an entry and capacity of the shard.                                       *)
(*                                                                           *)
(* The invariant says where the last acceptance of a nonce is recorded: in   *)
(* the current generation until the first rotation after it, in the previous *)
(* one until the second.  For AcceptedOnce it also carries the span in which *)
(* a nonce's timestamp is fresh.                                             *)

ReplayTypes ==
    /\ tick \in Nat
    /\ verifier \in [Verifiers -> [at : {"rest", "verified", "timed"}, nonce : Nonces \union {""},
                                   checked : Nat, now : Nat]]
    /\ cur \in [Nonces -> Nat] /\ prev \in [Nonces -> Nat]
    /\ accepted \in [Nonces -> [times : 0..2, exp : Nat, age : 0..2, lag : Int]]

(* The last acceptance of x is on record, and no older entry outlives it. *)
Recorded(x) ==
    /\ accepted[x].times > 0 =>
         /\ accepted[x].age = 0 => cur[x] = accepted[x].exp
         /\ accepted[x].age = 1 => prev[x] = accepted[x].exp
    /\ cur[x] <= accepted[x].exp /\ prev[x] <= accepted[x].exp

(* The first tick in which the timestamp of x is fresh, and the first after. *)
FreshFrom(x) == (Stamp(x) - Window) * TicksPerSecond
FreshUntil(x) == (Stamp(x) + Window + 1) * TicksPerSecond

(* A verifier past the freshness test read the clock in the span, and its    *)
(* second reading is no earlier.                                             *)
CheckedInSpan(v) ==
    verifier[v].at # "rest" =>
      /\ verifier[v].nonce \in Nonces
      /\ FreshFrom(verifier[v].nonce) <= verifier[v].checked
      /\ verifier[v].checked < FreshUntil(verifier[v].nonce)
      /\ verifier[v].checked <= tick
      /\ verifier[v].at = "timed" => verifier[v].checked <= verifier[v].now

(* An entry outlives the first fresh tick by TTL, and a second acceptance    *)
(* took a late verifier.                                                     *)
AcceptedLate(x) ==
    /\ accepted[x].times > 0 => accepted[x].exp >= FreshFrom(x) + TTL
    /\ accepted[x].times > 1 => accepted[x].lag > TTL - Lifetime

RGInv ==
    /\ ReplayTypes
    /\ \A x \in Nonces : Recorded(x) /\ AcceptedLate(x)
    /\ \A v \in Verifiers : CheckedInSpan(v)

-----------------------------------------------------------------------------
(* A second contains its ticks. *)
LEMMA SecondHoldsTick ==
    ASSUME NEW p \in Nat \ {0}, NEW t \in Nat
    PROVE  /\ t \div p \in Int
           /\ (t \div p) * p <= t
           /\ t < ((t \div p) + 1) * p
  OBVIOUS

LEMMA TimesMonotone ==
    ASSUME NEW p \in Nat, NEW a \in Int, NEW b \in Int, a <= b
    PROVE  a * p <= b * p
  <1>1. b * p = a * p + (b - a) * p
    OBVIOUS
  <1>2. b - a \in Nat
    OBVIOUS
  <1>3. (b - a) * p >= 0
    BY <1>2
  <1>4. a * p \in Int /\ b * p \in Int /\ (b - a) * p \in Int
    OBVIOUS
  <1> QED
    BY <1>1, <1>3, <1>4

(* The freshness test lets a tick pass only within the span. *)
LEMMA FreshIsInSpan ==
    ASSUME NEW x \in Nonces, NEW t \in Nat, Fresh(x, t)
    PROVE  FreshFrom(x) <= t /\ t < FreshUntil(x)
  <1> DEFINE p == TicksPerSecond
             u == t \div p
  <1>1. p \in Nat \ {0} /\ Window \in Nat /\ Stamp(x) \in Nat
    BY Zenon, ReplayAssumption
  <1>2. u \in Int /\ u * p <= t /\ t < (u + 1) * p
    BY Zenon, <1>1, SecondHoldsTick
  <1>3. u - Stamp(x) \in -Window .. Window
    BY Zenon DEF Fresh, Unix
  <1> HIDE DEF p, u
  <1>4. Stamp(x) - Window <= u /\ u + 1 <= Stamp(x) + Window + 1
    BY <1>1, <1>2, <1>3
  <1>5. (Stamp(x) - Window) * p <= u * p
    BY <1>1, <1>2, <1>4, TimesMonotone
  <1>6. (u + 1) * p <= (Stamp(x) + Window + 1) * p
    BY <1>1, <1>2, <1>4, TimesMonotone
  <1>7. /\ u * p \in Int /\ (u + 1) * p \in Int
        /\ (Stamp(x) - Window) * p \in Int /\ (Stamp(x) + Window + 1) * p \in Int
    BY <1>1, <1>2
  <1>8. (Stamp(x) - Window) * p <= t /\ t < (Stamp(x) + Window + 1) * p
    BY <1>2, <1>5, <1>6, <1>7
  <1> QED
    BY Zenon, <1>8 DEF FreshFrom, FreshUntil, p

(* The span has the length of a signature's life. *)
LEMMA SpanIsLifetime ==
    ASSUME NEW x \in Nonces
    PROVE  /\ FreshFrom(x) \in Int /\ FreshUntil(x) \in Int /\ Lifetime \in Int
           /\ FreshUntil(x) - FreshFrom(x) = Lifetime
  <1>1. TicksPerSecond \in Nat /\ Window \in Nat /\ Stamp(x) \in Nat
    BY Zenon, ReplayAssumption
  <1> QED
    BY <1>1 DEF FreshFrom, FreshUntil, Lifetime

-----------------------------------------------------------------------------
LEMMA RGInvInitially ==
    ASSUME RGInit
    PROVE  RGInv
  <1>1. ReplayTypes
    <2>1. verifier \in [Verifiers -> [at : {"rest", "verified", "timed"}, nonce : Nonces \union {""},
                                      checked : Nat, now : Nat]]
      BY Zenon DEF RGInit, Resting
    <2>2. cur \in [Nonces -> Nat] /\ prev \in [Nonces -> Nat] /\ tick \in Nat
      BY Zenon DEF RGInit
    <2>3. accepted \in [Nonces -> [times : 0..2, exp : Nat, age : 0..2, lag : Int]]
      BY DEF RGInit
    <2> QED
      BY Zenon, <2>1, <2>2, <2>3 DEF ReplayTypes
  <1>2. ASSUME NEW x \in Nonces PROVE Recorded(x) /\ AcceptedLate(x)
    BY DEF RGInit, Recorded, AcceptedLate
  <1>3. ASSUME NEW v \in Verifiers PROVE CheckedInSpan(v)
    BY Zenon DEF RGInit, CheckedInSpan, Resting
  <1> QED
    BY Zenon, <1>1, <1>2, <1>3 DEF RGInv

(* The clock, the freshness test and the second reading touch no entry. *)
LEMMA TickKeeps ==
    ASSUME RGInv, RGTick
    PROVE  RGInv'
  <1>1. tick <= tick' /\ tick \in Nat /\ tick' \in Nat
    <2>1. tick \in Nat
      BY Zenon DEF RGInv, ReplayTypes
    <2> QED
      BY <2>1 DEF RGTick
  <1>2. ASSUME NEW x \in Nonces PROVE Recorded(x)' /\ AcceptedLate(x)'
    BY Zenon DEF RGInv, RGTick, Recorded, AcceptedLate, FreshFrom, Lifetime
  <1>3. ASSUME NEW v \in Verifiers PROVE CheckedInSpan(v)'
    <2>1. CheckedInSpan(v) /\ verifier[v].checked \in Nat
      BY Zenon DEF RGInv, ReplayTypes
    <2> QED
      BY <1>1, <2>1 DEF RGTick, CheckedInSpan, FreshFrom, FreshUntil
  <1>4. ReplayTypes'
    BY Zenon, <1>1 DEF RGInv, ReplayTypes, RGTick
  <1> QED
    BY Zenon, <1>2, <1>3, <1>4 DEF RGInv

LEMMA VerifyKeeps ==
    ASSUME RGInv, NEW v \in Verifiers, NEW x \in Nonces, Verify(v, x)
    PROVE  RGInv'
  <1>1. ReplayTypes' /\ tick \in Nat
    BY ZenonT(30) DEF RGInv, ReplayTypes, Verify
  <1>2. ASSUME NEW y \in Nonces PROVE Recorded(y)' /\ AcceptedLate(y)'
    BY Zenon DEF RGInv, Verify, Recorded, AcceptedLate, FreshFrom, Lifetime
  <1>3. ASSUME NEW w \in Verifiers PROVE CheckedInSpan(w)'
    <2>1. CASE w = v
      <3>1. FreshFrom(x) <= tick /\ tick < FreshUntil(x)
        BY Zenon, <1>1, FreshIsInSpan DEF Verify
      <3>2. verifier'[w] = [at |-> "verified", nonce |-> x, checked |-> tick, now |-> 0] /\ tick' = tick
        BY ZenonT(30), <2>1 DEF RGInv, ReplayTypes, Verify
      <3>3. /\ verifier'[w].nonce = x /\ verifier'[w].at = "verified"
            /\ verifier'[w].checked = tick /\ tick <= tick'
        BY <1>1, <3>2
      <3>4. verifier'[w].at # "timed"
        BY Zenon, <3>3
      <3> QED
        BY Zenon, <3>1, <3>3, <3>4 DEF CheckedInSpan, FreshFrom, FreshUntil
    <2>2. CASE w # v
      <3>1. verifier'[w] = verifier[w] /\ tick' = tick /\ CheckedInSpan(w)
        BY Zenon, <2>2 DEF RGInv, ReplayTypes, Verify
      <3> QED
        BY Zenon, <3>1 DEF CheckedInSpan, FreshFrom, FreshUntil
    <2> QED
      BY Zenon, <2>1, <2>2
  <1> QED
    BY Zenon, <1>1, <1>2, <1>3 DEF RGInv

LEMMA ReadTimeKeeps ==
    ASSUME RGInv, NEW v \in Verifiers, ReadTime(v)
    PROVE  RGInv'
  <1>1. ReplayTypes'
    BY ZenonT(30) DEF RGInv, ReplayTypes, ReadTime
  <1>2. ASSUME NEW y \in Nonces PROVE Recorded(y)' /\ AcceptedLate(y)'
    BY Zenon DEF RGInv, ReadTime, Recorded, AcceptedLate, FreshFrom, Lifetime
  <1>3. ASSUME NEW w \in Verifiers PROVE CheckedInSpan(w)'
    <2>1. CheckedInSpan(w) /\ tick' = tick
      BY Zenon DEF RGInv, ReadTime
    <2>2. CASE w = v
      <3>1. /\ verifier[w].at = "verified" /\ verifier'[w].at = "timed" /\ verifier'[w].now = tick
            /\ verifier'[w].nonce = verifier[w].nonce /\ verifier'[w].checked = verifier[w].checked
        BY ZenonT(30), <2>2 DEF RGInv, ReplayTypes, ReadTime
      <3> QED
        BY Zenon, <2>1, <3>1 DEF CheckedInSpan, FreshFrom, FreshUntil
    <2>3. CASE w # v
      <3>1. verifier'[w] = verifier[w]
        BY Zenon, <2>3 DEF RGInv, ReplayTypes, ReadTime
      <3> QED
        BY Zenon, <2>1, <3>1 DEF CheckedInSpan, FreshFrom, FreshUntil
    <2> QED
      BY Zenon, <2>2, <2>3
  <1> QED
    BY Zenon, <1>1, <1>2, <1>3 DEF RGInv

(* A verifier that rests again leaves the others as they are. *)
LEMMA RestKeepsSpan ==
    ASSUME RGInv, NEW v \in Verifiers, verifier' = [verifier EXCEPT ![v] = Resting], tick' = tick
    PROVE  \A w \in Verifiers : CheckedInSpan(w)'
  <1> SUFFICES ASSUME NEW w \in Verifiers PROVE CheckedInSpan(w)'
    BY Zenon
  <1>1. CASE w = v
    BY Zenon, <1>1 DEF RGInv, ReplayTypes, CheckedInSpan, Resting
  <1>2. CASE w # v
    <2>1. verifier'[w] = verifier[w] /\ CheckedInSpan(w)
      BY Zenon, <1>2 DEF RGInv, ReplayTypes
    <2> QED
      BY Zenon, <2>1 DEF CheckedInSpan, FreshFrom, FreshUntil
  <1> QED
    BY Zenon, <1>1, <1>2

(* A promotion gives the current generation what the previous one holds. *)
LEMMA ReplayedKeeps ==
    ASSUME RGInv, NEW v \in Verifiers, Replayed(v)
    PROVE  RGInv'
  <1> DEFINE x == verifier[v].nonce
             now == verifier[v].now
  <1>1. x \in Nonces /\ now \in Nat
    BY ZenonT(30) DEF RGInv, CheckedInSpan, ReplayTypes, Replayed
  <1>2. /\ cur' = IF now < cur[x] THEN cur ELSE [cur EXCEPT ![x] = prev[x]]
        /\ now < cur[x] \/ now < prev[x]
        /\ prev' = prev /\ accepted' = accepted /\ tick' = tick
        /\ verifier' = [verifier EXCEPT ![v] = Resting]
    BY Zenon DEF Replayed
  <1> HIDE DEF x, now
  <1>3. ReplayTypes'
    <2>1. cur' \in [Nonces -> Nat]
      BY Zenon, <1>1, <1>2 DEF RGInv, ReplayTypes
    <2>2. verifier' \in [Verifiers -> [at : {"rest", "verified", "timed"}, nonce : Nonces \union {""},
                                       checked : Nat, now : Nat]]
      BY Zenon, <1>2 DEF RGInv, ReplayTypes, Resting
    <2> QED
      BY Zenon, <1>2, <2>1, <2>2 DEF RGInv, ReplayTypes
  <1>4. ASSUME NEW y \in Nonces PROVE Recorded(y)' /\ AcceptedLate(y)'
    <2>1. AcceptedLate(y)'
      BY ZenonT(30), <1>2 DEF RGInv, AcceptedLate, FreshFrom, Lifetime
    <2>2. Recorded(y)'
      <3>1. Recorded(y) /\ accepted[y].exp \in Nat
        BY Zenon DEF RGInv, ReplayTypes
      <3>2. cur \in [Nonces -> Nat] /\ prev \in [Nonces -> Nat]
        BY ZenonT(30) DEF RGInv, ReplayTypes
      <3>3. CASE cur'[y] = cur[y]
        BY ZenonT(30), <1>2, <3>1, <3>3 DEF Recorded
      <3>4. CASE cur'[y] # cur[y]
        <4>1. y = x /\ cur'[y] = prev[y] /\ cur[y] <= now /\ now < prev[y]
          BY SMTT(30), <1>1, <1>2, <3>2, <3>4
        <4>2. cur[y] # accepted[y].exp
          BY <1>1, <3>1, <3>2, <4>1 DEF Recorded
        <4> QED
          BY Zenon, <1>2, <3>1, <4>1, <4>2 DEF Recorded
      <3> QED
        BY Zenon, <3>3, <3>4
    <2> QED
      BY Zenon, <2>1, <2>2
  <1>5. \A w \in Verifiers : CheckedInSpan(w)'
    BY ZenonT(30), <1>2, RestKeepsSpan
  <1> QED
    BY Zenon, <1>3, <1>4, <1>5 DEF RGInv

-----------------------------------------------------------------------------
(* What the acceptance of a nonce does to the history. *)
LEMMA AcceptedFacts ==
    ASSUME RGInv, NEW v \in Verifiers, Accepted(v)
    PROVE  LET x == verifier[v].nonce
               now == verifier[v].now
           IN  /\ x \in Nonces /\ now \in Nat /\ verifier[v].checked \in Nat
               /\ FreshFrom(x) <= verifier[v].checked /\ verifier[v].checked < FreshUntil(x)
               /\ verifier[v].checked <= now
               /\ now >= cur[x] /\ now >= prev[x]
               /\ accepted'[x].exp = now + TTL /\ accepted'[x].age = 0
               /\ \/ accepted'[x].times = 1 /\ accepted'[x].lag = 0
                  \/ /\ accepted[x].times > 0 /\ accepted[x].age # 2
                     /\ accepted'[x].times = 2 /\ accepted'[x].lag = now - verifier[v].checked
               /\ cur'[x] = now + TTL
               /\ \A y \in Nonces \ {x} :
                    /\ accepted'[y].exp = accepted[y].exp /\ accepted'[y].times = accepted[y].times
                    /\ accepted'[y].lag = accepted[y].lag
                    /\ accepted'[y].age = IF IsFull /\ accepted[y].age < 2 THEN accepted[y].age + 1
                                          ELSE accepted[y].age
                    /\ cur'[y] = IF IsFull THEN 0 ELSE cur[y]
               /\ prev' = IF IsFull THEN cur ELSE prev
               /\ tick' = tick /\ verifier' = [verifier EXCEPT ![v] = Resting]
               /\ cur' \in [Nonces -> Nat] /\ prev' \in [Nonces -> Nat]
               /\ accepted' \in [Nonces -> [times : 0..2, exp : Nat, age : 0..2, lag : Int]]
  <1> DEFINE x == verifier[v].nonce
             now == verifier[v].now
             again == accepted[x].times > 0 /\ ~Forgotten(x)
             mine == [times |-> IF again THEN 2 ELSE 1, exp |-> now + TTL, age |-> 0,
                      lag |-> IF again THEN now - verifier[v].checked ELSE 0]
             other(y) == [accepted[y] EXCEPT !.age = IF IsFull /\ @ < 2 THEN @ + 1 ELSE @]
  <1>1. /\ x \in Nonces /\ now \in Nat /\ verifier[v].checked \in Nat
        /\ FreshFrom(x) <= verifier[v].checked /\ verifier[v].checked < FreshUntil(x)
        /\ verifier[v].checked <= now
    <2>1. CheckedInSpan(v) /\ verifier[v].at = "timed"
      BY Zenon DEF RGInv, Accepted
    <2>2. now \in Nat /\ verifier[v].checked \in Nat
      BY Zenon DEF RGInv, ReplayTypes
    <2> QED
      BY Zenon, <2>1, <2>2 DEF CheckedInSpan
  <1>2. /\ now >= cur[x] /\ now >= prev[x]
        /\ prev' = IF IsFull THEN cur ELSE prev
        /\ cur' = [(IF IsFull THEN [y \in Nonces |-> 0] ELSE cur) EXCEPT ![x] = now + TTL]
        /\ accepted' = [y \in Nonces |-> IF y = x THEN mine ELSE other(y)]
        /\ tick' = tick /\ verifier' = [verifier EXCEPT ![v] = Resting]
    BY Zenon DEF Accepted, PrevAfterRotation
  <1>3. cur \in [Nonces -> Nat] /\ prev \in [Nonces -> Nat]
    BY Zenon DEF RGInv, ReplayTypes
  <1>4. TTL \in Nat
    BY Zenon, ReplayAssumption
  <1>5. accepted \in [Nonces -> [times : 0..2, exp : Nat, age : 0..2, lag : Int]]
    BY Zenon DEF RGInv, ReplayTypes
  <1>6. mine \in [times : 0..2, exp : Nat, age : 0..2, lag : Int]
    <2> HIDE DEF again, x, now
    <2>1. now + TTL \in Nat /\ now - verifier[v].checked \in Int
      BY <1>1, <1>4
    <2> QED
      BY <2>1
  <1>7. ASSUME NEW y \in Nonces
        PROVE  /\ other(y) \in [times : 0..2, exp : Nat, age : 0..2, lag : Int]
               /\ other(y).exp = accepted[y].exp /\ other(y).times = accepted[y].times
               /\ other(y).lag = accepted[y].lag
               /\ other(y).age = IF IsFull /\ accepted[y].age < 2 THEN accepted[y].age + 1
                                 ELSE accepted[y].age
    <2>1. accepted[y] \in [times : 0..2, exp : Nat, age : 0..2, lag : Int]
      BY Zenon, <1>5
    <2> HIDE DEF x, now
    <2> QED
      BY <2>1
  <1>8. /\ mine.exp = now + TTL /\ mine.age = 0
        /\ \/ mine.times = 1 /\ mine.lag = 0
           \/ /\ accepted[x].times > 0 /\ accepted[x].age # 2
              /\ mine.times = 2 /\ mine.lag = now - verifier[v].checked
    BY Zenon DEF Forgotten
  <1> HIDE DEF x, now, mine, other, again
  <1>9. cur' \in [Nonces -> Nat] /\ prev' \in [Nonces -> Nat] /\ cur'[x] = now + TTL
    BY SMTT(30), <1>1, <1>2, <1>3, <1>4
  <1>10. ASSUME NEW y \in Nonces \ {x} PROVE cur'[y] = IF IsFull THEN 0 ELSE cur[y]
    BY Zenon, <1>1, <1>2, <1>3
  <1>11. accepted' \in [Nonces -> [times : 0..2, exp : Nat, age : 0..2, lag : Int]]
    BY Zenon, <1>2, <1>6, <1>7
  <1>12. accepted'[x] = mine /\ \A y \in Nonces \ {x} : accepted'[y] = other(y)
    BY Zenon, <1>1, <1>2
  <1> QED
    BY ZenonT(30), <1>1, <1>2, <1>7, <1>8, <1>9, <1>10, <1>11, <1>12 DEF x, now

(* An acceptance is recorded in the current generation, and moves every      *)
(* other record at most one generation on.                                   *)
LEMMA AcceptedKeeps ==
    ASSUME RGInv, NEW v \in Verifiers, Accepted(v)
    PROVE  RGInv'
  <1> DEFINE x == verifier[v].nonce
             now == verifier[v].now
             late == verifier[v].checked
  <1>1. /\ x \in Nonces /\ now \in Nat /\ late \in Nat
        /\ FreshFrom(x) <= late /\ late < FreshUntil(x) /\ late <= now
        /\ now >= cur[x] /\ now >= prev[x]
    BY ZenonT(30), AcceptedFacts
  <1>2. /\ accepted'[x].exp = now + TTL /\ accepted'[x].age = 0 /\ cur'[x] = now + TTL
        /\ \/ accepted'[x].times = 1 /\ accepted'[x].lag = 0
           \/ /\ accepted[x].times > 0 /\ accepted[x].age # 2
              /\ accepted'[x].times = 2 /\ accepted'[x].lag = now - late
    BY ZenonT(30), AcceptedFacts
  <1>3. ASSUME NEW y \in Nonces \ {x}
        PROVE  /\ accepted'[y].exp = accepted[y].exp /\ accepted'[y].times = accepted[y].times
               /\ accepted'[y].lag = accepted[y].lag
               /\ accepted'[y].age = IF IsFull /\ accepted[y].age < 2 THEN accepted[y].age + 1
                                     ELSE accepted[y].age
               /\ cur'[y] = IF IsFull THEN 0 ELSE cur[y]
    BY ZenonT(30), AcceptedFacts
  <1>4. prev' = IF IsFull THEN cur ELSE prev
    BY ZenonT(30), AcceptedFacts
  <1>5. tick' = tick /\ verifier' = [verifier EXCEPT ![v] = Resting]
    BY ZenonT(30), AcceptedFacts
  <1>6. /\ cur' \in [Nonces -> Nat] /\ prev' \in [Nonces -> Nat]
        /\ accepted' \in [Nonces -> [times : 0..2, exp : Nat, age : 0..2, lag : Int]]
    BY Zenon, AcceptedFacts
  <1> HIDE DEF x, now, late
  <1>7. ReplayTypes'
    <2>1. verifier' \in [Verifiers -> [at : {"rest", "verified", "timed"}, nonce : Nonces \union {""},
                                       checked : Nat, now : Nat]]
      BY Zenon, <1>5 DEF RGInv, ReplayTypes, Resting
    <2>2. tick' \in Nat
      BY Zenon, <1>5 DEF RGInv, ReplayTypes
    <2> QED
      BY Zenon, <1>6, <2>1, <2>2 DEF ReplayTypes
  <1>8. cur \in [Nonces -> Nat] /\ prev \in [Nonces -> Nat] /\ TTL \in Nat
    BY Zenon, ReplayAssumption DEF RGInv, ReplayTypes
  <1>9. ASSUME NEW y \in Nonces
        PROVE  accepted[y].times \in 0..2 /\ accepted[y].age \in 0..2 /\ accepted[y].exp \in Nat
    BY Zenon DEF RGInv, ReplayTypes
  <1>10. ASSUME NEW y \in Nonces PROVE Recorded(y)'
    <2>1. Recorded(y)
      BY Zenon DEF RGInv
    <2>2. CASE y = x
      <3>1. prev'[x] <= now
        BY Zenon, <1>1, <1>4
      <3> QED
        BY SMTT(30), <1>1, <1>2, <1>6, <1>8, <2>2, <3>1 DEF Recorded
    <2>3. CASE y # x
      <3>1. CASE IsFull
        <4>1. /\ accepted'[y].exp = accepted[y].exp /\ accepted'[y].times = accepted[y].times
              /\ accepted'[y].age = IF accepted[y].age < 2 THEN accepted[y].age + 1 ELSE accepted[y].age
              /\ cur'[y] = 0 /\ prev'[y] = cur[y]
          BY SMTT(30), <1>3, <1>4, <2>3, <3>1
        <4>2. accepted'[y].age # 0 /\ (accepted'[y].age = 1 => accepted[y].age = 0)
          BY SMTT(30), <1>9, <4>1
        <4> QED
          BY SMTT(30), <1>9, <2>1, <4>1, <4>2 DEF Recorded
      <3>2. CASE ~IsFull
        <4>1. /\ accepted'[y].exp = accepted[y].exp /\ accepted'[y].times = accepted[y].times
              /\ accepted'[y].age = accepted[y].age /\ cur'[y] = cur[y] /\ prev'[y] = prev[y]
          BY <1>3, <1>4, <2>3, <3>2
        <4> QED
          BY Zenon, <2>1, <4>1 DEF Recorded
      <3> QED
        BY Zenon, <3>1, <3>2
    <2> QED
      BY Zenon, <2>2, <2>3
  <1>11. ASSUME NEW y \in Nonces PROVE AcceptedLate(y)'
    <2>1. AcceptedLate(y) /\ Recorded(y)
      BY Zenon DEF RGInv
    <2>2. /\ FreshFrom(y) \in Int /\ FreshUntil(y) \in Int /\ Lifetime \in Int
          /\ FreshUntil(y) - FreshFrom(y) = Lifetime
      BY Zenon, SpanIsLifetime
    <2>3. CASE y = x
      <3>1. accepted'[y].exp >= FreshFrom(y) + TTL
        BY SMTT(30), <1>1, <1>2, <1>8, <2>2, <2>3
      <3>2. ASSUME accepted'[y].times > 1
            PROVE  accepted'[y].lag > TTL - Lifetime
        <4>1. /\ accepted[y].times > 0 /\ accepted[y].age # 2
              /\ accepted'[y].lag = now - late
          BY SMTT(30), <1>2, <2>3, <3>2
        <4>2. accepted[y].age \in {0, 1}
          BY SMTT(30), <1>9, <4>1
        <4>3. now >= accepted[y].exp
          BY SMTT(30), <1>1, <2>1, <2>3, <4>1, <4>2 DEF Recorded
        <4>4. accepted[y].exp >= FreshFrom(y) + TTL
          BY Zenon, <2>1, <4>1 DEF AcceptedLate
        <4>5. late < FreshUntil(y) /\ accepted[y].exp \in Nat
          BY Zenon, <1>1, <1>9, <2>3
        <4>6. now - late > TTL - Lifetime
          BY SMTT(30), <1>1, <1>8, <2>2, <4>3, <4>4, <4>5
        <4> QED
          BY ZenonT(30), <4>1, <4>6
      <3> QED
        BY Zenon, <3>1, <3>2 DEF AcceptedLate, FreshFrom, Lifetime
    <2>4. CASE y # x
      <3>1. /\ accepted'[y].exp = accepted[y].exp /\ accepted'[y].times = accepted[y].times
            /\ accepted'[y].lag = accepted[y].lag
        BY Zenon, <1>3, <2>4
      <3> QED
        BY Zenon, <2>1, <3>1 DEF AcceptedLate, FreshFrom, Lifetime
    <2> QED
      BY Zenon, <2>3, <2>4
  <1>12. \A w \in Verifiers : CheckedInSpan(w)'
    BY Zenon, <1>5, RestKeepsSpan
  <1> QED
    BY Zenon, <1>7, <1>10, <1>11, <1>12 DEF RGInv

-----------------------------------------------------------------------------
LEMMA RGInvKept ==
    ASSUME RGInv, [RGNext]_rgvars
    PROVE  RGInv'
  <1>1. CASE RGTick
    BY Zenon, <1>1, TickKeeps
  <1>2. ASSUME NEW v \in Verifiers, NEW x \in Nonces, Verify(v, x) PROVE RGInv'
    BY Zenon, <1>2, VerifyKeeps
  <1>3. ASSUME NEW v \in Verifiers, ReadTime(v) PROVE RGInv'
    BY Zenon, <1>3, ReadTimeKeeps
  <1>4. ASSUME NEW v \in Verifiers, Replayed(v) PROVE RGInv'
    BY Zenon, <1>4, ReplayedKeeps
  <1>5. ASSUME NEW v \in Verifiers, Accepted(v) PROVE RGInv'
    BY Zenon, <1>5, AcceptedKeeps
  <1>6. CASE UNCHANGED rgvars
    <2>1. ReplayTypes'
      BY ZenonT(30), <1>6 DEF RGInv, rgvars, ReplayTypes
    <2>2. ASSUME NEW x \in Nonces PROVE Recorded(x)' /\ AcceptedLate(x)'
      BY Zenon, <1>6 DEF RGInv, rgvars, Recorded, AcceptedLate, FreshFrom, Lifetime
    <2>3. ASSUME NEW v \in Verifiers PROVE CheckedInSpan(v)'
      BY ZenonT(30), <1>6 DEF RGInv, rgvars, CheckedInSpan, FreshFrom, FreshUntil
    <2> QED
      BY Zenon, <2>1, <2>2, <2>3 DEF RGInv
  <1> QED
    BY SMTT(30), <1>1, <1>2, <1>3, <1>4, <1>5, <1>6 DEF RGNext

(* A signed request is accepted a second time, while its entry is kept, only *)
(* by a verifier that was held up between the freshness test and the cache   *)
(* for longer than the entry's life exceeds the signature's (Inspect and     *)
(* SeenBefore).                                                              *)
THEOREM ReplayTakesADelay == RGSpec => []AcceptedOnce
  <1>1. RGInit => RGInv
    BY Zenon, RGInvInitially
  <1>2. RGInv /\ [RGNext]_rgvars => RGInv'
    BY Zenon, RGInvKept
  <1>3. RGInv => AcceptedOnce
    BY Zenon DEF RGInv, AcceptedLate, AcceptedOnce
  <1> QED
    BY <1>1, <1>2, <1>3, PTL DEF RGSpec

LEMMA AcceptanceIsApart ==
    ASSUME RGInv, [RGNext]_rgvars, NEW x \in Nonces,
           accepted'[x].exp # accepted[x].exp, accepted[x].times > 0
    PROVE  accepted'[x].exp >= accepted[x].exp + TTL \/ Forgotten(x)
  <1>1. PICK v \in Verifiers : Accepted(v)
    BY ZenonT(30) DEF RGNext, RGTick, Verify, ReadTime, Replayed, rgvars
  <1>2. x = verifier[v].nonce
    BY ZenonT(30), <1>1, AcceptedFacts
  <1>3. /\ verifier[v].now \in Nat /\ verifier[v].now >= cur[x] /\ verifier[v].now >= prev[x]
        /\ accepted'[x].exp = verifier[v].now + TTL
    BY Zenon, <1>1, <1>2, AcceptedFacts
  <1>4. accepted[x].age \in 0..2 /\ accepted[x].exp \in Nat /\ TTL \in Nat /\ Recorded(x)
    BY Zenon, ReplayAssumption DEF RGInv, ReplayTypes
  <1>5. CASE accepted[x].age = 2
    BY Zenon, <1>5 DEF Forgotten
  <1>6. CASE accepted[x].age # 2
    <2>1. verifier[v].now >= accepted[x].exp
      BY <1>3, <1>4, <1>6 DEF Recorded
    <2> QED
      BY SMTT(30), <1>3, <1>4, <2>1
  <1> QED
    BY Zenon, <1>5, <1>6

(* Two acceptances of a nonce are TTL apart on the clock, or two generations *)
(* of other nonces apart, however the verifiers are delayed (SeenBefore).    *)
THEOREM ReplaysAreApart == RGSpec => AcceptedApart
  <1>1. RGInit => RGInv
    BY Zenon, RGInvInitially
  <1>2. RGInv /\ [RGNext]_rgvars => RGInv'
    BY Zenon, RGInvKept
  <1>3. RGInv /\ [RGNext]_rgvars
          => [\A x \in Nonces :
                accepted'[x].exp # accepted[x].exp /\ accepted[x].times > 0 =>
                  accepted'[x].exp >= accepted[x].exp + TTL \/ Forgotten(x)]_rgvars
    BY Zenon, AcceptanceIsApart
  <1> QED
    BY <1>1, <1>2, <1>3, PTL DEF RGSpec, AcceptedApart


-----------------------------------------------------------------------------
(* Slices and induction.                                                     *)

(* Induction over the natural numbers, for the elements of a set. *)
LEMMA NatSetInduction ==
  ASSUME NEW S, 0 \in S, \A n \in Nat : n \in S => n + 1 \in S
  PROVE  Nat \subseteq S
<1> DEFINE T == {n \in Nat : n \notin S}
           R == OpToRel(<, Nat)
<1>1. SUFFICES ASSUME T # {} PROVE FALSE
  BY Zenon
<1>2. T \subseteq Nat
  BY Zenon
<1>3. IsWellFoundedOn(R, Nat)
  BY Zenon, NatLessThanWellFounded
<1>4. PICK x \in T : \A y \in T : ~(<<y, x>> \in R)
  <2> HIDE DEF T, R
  <2> QED BY Zenon, <1>1, <1>2, <1>3, WFMin
<1>5. x \in Nat /\ x # 0 /\ x \notin S
  BY Zenon
<1>6. x - 1 \in Nat /\ x - 1 \notin S
  BY <1>5
<1>7. <<x - 1, x>> \in R
  BY <1>5, <1>6 DEF OpToRel
<1> QED BY Zenon, <1>4, <1>6, <1>7

LEMMA SliceFacts ==
  ASSUME NEW s, IsSlice(s)
  PROVE  /\ s \in Seq(ToSet(s)) /\ Len(s) \in Nat /\ DOMAIN s = 1 .. Len(s)
         /\ \A i \in 1 .. Len(s) : s[i] \in ToSet(s)
         /\ \A x \in ToSet(s) : \E i \in 1 .. Len(s) : x = s[i]
BY DEF IsSlice, ToSet

LEMMA AppendPair ==
  ASSUME NEW a, NEW b
  PROVE  Append(<<a>>, b) = <<a, b>>
<1> DEFINE s == Append(<<a>>, b)
           t == <<a, b>>
<1>1. s \in Seq({a, b}) /\ Len(s) = 2 /\ s[1] = a /\ s[2] = b
  OBVIOUS
<1>2. t \in Seq({a, b}) /\ Len(t) = 2 /\ t[1] = a /\ t[2] = b
  OBVIOUS
<1> HIDE DEF s, t
<1>3. Len(s) = Len(t) /\ \A i \in 1 .. Len(s) : s[i] = t[i]
  BY <1>1, <1>2
<1>4. s = t
  BY SMTT(30), <1>1, <1>2, <1>3
<1> QED BY <1>4 DEF s, t

-----------------------------------------------------------------------------
(* What one engine answers.                                                  *)

IsVerdict(v) ==
  /\ v \in [action : {"pass", "block", "error"}, severity : Nat, score : Nat]
  /\ v.action # "block" => v.severity = 0
  /\ v.action = "error" <=> v = Failed

LEMMA PlainVerdicts ==
  /\ IsVerdict(Pass) /\ IsVerdict(Failed) /\ Pass.action = "pass" /\ Failed.action = "error"
  /\ Failed.score = 0 /\ Pass.severity = 0 /\ Pass.score = 0
  /\ \A s \in Nat : IsVerdict(Blocks(s)) /\ Blocks(s).action = "block"
  /\ \A s \in Nat : IsVerdict([Pass EXCEPT !.score = s])
  /\ Low \in Nat /\ Medium \in Nat /\ High \in Nat
BY DEF IsVerdict, Pass, Failed, Blocks, Low, Medium, High

LEMMA BotVerdict ==
  ASSUME NEW e, NEW req, e.kind = "bot", IsEngine(e)
  PROVE  IsVerdict(InspectBot(e, req))
<1>1. /\ e.scoreKnownBot \in Nat /\ e.headerScore \in Nat /\ IsFiniteSet(e.requireHeaders)
      /\ \A j \in DOMAIN e.scoreJA4 : e.scoreJA4[j] \in Nat
  BY Zenon DEF IsEngine
<1>2. BotScore(e, req) \in Nat
  <2> DEFINE c == Cardinality(e.requireHeaders \ req.present)
  <2>1. c \in Nat
    <3>1. e.requireHeaders \ req.present \in SUBSET e.requireHeaders
      OBVIOUS
    <3>2. IsFiniteSet(e.requireHeaders \ req.present)
      BY Zenon, <1>1, <3>1, FS_Subset
    <3> QED BY Zenon, <3>2, FS_CardinalityType
  <2> HIDE DEF c
  <2>2. e.headerScore * c \in Nat
    BY <1>1, <2>1
  <2> DEFINE k == IF IsBotUA(req.ua) THEN e.scoreKnownBot ELSE 0
             j == IF req.ja4 # "" /\ req.ja4 \in DOMAIN e.scoreJA4 THEN e.scoreJA4[req.ja4] ELSE 0
             h == e.headerScore * c
  <2>3. k \in Nat /\ j \in Nat
    BY <1>1
  <2>4. BotScore(e, req) = k + j + h
    BY Zenon DEF BotScore, c
  <2> HIDE DEF k, j, h
  <2>5. h \in Nat
    BY Zenon, <2>2 DEF h
  <2> QED BY <2>3, <2>4, <2>5
<1> QED BY Zenon, <1>2, PlainVerdicts DEF InspectBot

LEMMA GeoAnswers ==
  ASSUME NEW geo, NEW host
  PROVE  IsVerdict(GeoVerdict(geo, host))
BY Zenon, PlainVerdicts DEF GeoVerdict

(* Every engine answers with a pass, a block that has a severity, or an      *)
(* error that carries nothing.                                               *)
LEMMA InspectAnswers ==
  ASSUME NEW e, NEW req, IsEngine(e)
  PROVE  IsVerdict(Inspect(e, req))
<1>0. IsVerdict(Pass) /\ IsVerdict(Failed) /\ IsVerdict(Blocks(High)) /\ IsVerdict(Blocks(Medium))
  BY Zenon, PlainVerdicts
<1>1. CASE req.dir = "response" /\ e.kind # "coraza"
  BY Zenon, <1>0, <1>1 DEF Inspect
<1>2. CASE e.kind = "ip_reputation"
  <2>1. \A h \in DOMAIN e.feeds : e.feeds[h] \in Nat
    BY <1>2 DEF IsEngine
  <2>2. IsVerdict(InspectIPReputation(e, req))
    BY Zenon, <1>0, <2>1, PlainVerdicts, GeoAnswers DEF InspectIPReputation
  <2> QED BY <1>0, <1>2, <2>2 DEF Inspect
<1>3. CASE e.kind = "bot"
  <2>1. IsVerdict(InspectBot(e, req))
    BY Zenon, <1>3, BotVerdict
  <2> QED BY <1>0, <1>3, <2>1 DEF Inspect
<1>4. CASE ~(req.dir = "response" /\ e.kind # "coraza") /\ e.kind \notin {"ip_reputation", "bot"}
  <2>1. e.kind \in {"jwt", "jwks", "api_key", "hmac_sign", "http_signature", "xfcc", "coraza",
                    "openapi", "graphql"}
    BY <1>4 DEF IsEngine
  <2>2. IsVerdict(InspectJWT(e, req)) /\ IsVerdict(InspectJWKS(e, req)) /\ IsVerdict(InspectAPIKey(e, req))
    BY Zenon, <1>0 DEF InspectJWT, InspectJWKS, InspectAPIKey
  <2>3. IsVerdict(InspectHMACSign(e, req)) /\ IsVerdict(InspectHTTPSig(e, req)) /\ IsVerdict(InspectXFCC(e, req))
    BY Zenon, <1>0 DEF InspectHMACSign, InspectHTTPSig, InspectXFCC
  <2>4. IsVerdict(InspectCoraza(e, req)) /\ IsVerdict(InspectOpenAPI(e, req)) /\ IsVerdict(InspectGraphQL(e, req))
    BY Zenon, <1>0 DEF InspectCoraza, InspectOpenAPI, InspectGraphQL
  <2> QED BY <1>4, <2>1, <2>2, <2>3, <2>4 DEF Inspect
<1> QED BY Zenon, <1>1, <1>2, <1>3, <1>4

-----------------------------------------------------------------------------
(* The loop of Set.inspect.                                                  *)

AddStep(env, acc, c) == acc + c.verdict.score

AddInv(env, seq, n, acc) == acc \in Nat

ScoreLoop == INSTANCE Loops WITH Step <- AddStep, Inv <- AddInv

ScoreOf(seen) == ScoreLoop!Loop(0, 0, seen)

CallSet == [engine : Nat, verdict : [action : {"pass", "block", "error"}, severity : Nat, score : Nat]]

LEMMA ScoreFacts ==
  ASSUME NEW seen \in Seq(CallSet)
  PROVE  /\ ScoreOf(<<>>) = 0 /\ ScoreOf(seen) \in Nat
         /\ \A c \in CallSet : ScoreOf(Append(seen, c)) = ScoreOf(seen) + c.verdict.score
<1>1. ScoreLoop!Induction
  BY Zenon, NatSetInduction DEF ScoreLoop!Induction
<1>2. ScoreOf(<<>>) = 0
  BY Zenon, <1>1, ScoreLoop!LoopOnce DEF ScoreOf
<1>3. ScoreOf(seen) \in Nat
  <2>1. AddInv(0, seen, 0, 0)
    BY DEF AddInv
  <2>2. ASSUME NEW n \in 1 .. Len(seen), NEW acc, AddInv(0, seen, n - 1, acc)
        PROVE  AddInv(0, seen, n, AddStep(0, acc, seen[n]))
    <3>1. seen[n] \in CallSet
      OBVIOUS
    <3>2. seen[n].verdict.score \in Nat
      BY <3>1 DEF CallSet
    <3> QED BY <2>2, <3>2 DEF AddInv, AddStep
  <2>3. AddInv(0, seen, Len(seen), ScoreLoop!Loop(0, 0, seen))
    BY Zenon, <1>1, <2>1, <2>2, ScoreLoop!LoopInvariant
  <2> QED BY Zenon, <2>3 DEF AddInv, ScoreOf
<1>4. ASSUME NEW c \in CallSet PROVE ScoreOf(Append(seen, c)) = ScoreOf(seen) + c.verdict.score
  <2>0. \A X : \A s \in Seq(X) : \A x \in X :
          ScoreLoop!Loop(0, 0, Append(s, x)) = AddStep(0, ScoreLoop!Loop(0, 0, s), x)
    BY Zenon, <1>1, ScoreLoop!LoopAppend
  <2>1. ScoreLoop!Loop(0, 0, Append(seen, c)) = AddStep(0, ScoreLoop!Loop(0, 0, seen), c)
    BY Zenon, <2>0
  <2> QED BY Zenon, <2>1 DEF ScoreOf, AddStep
<1> QED BY Zenon, <1>2, <1>3, <1>4

Selected(set, i) == NeedsBody(set.engines[i]) = set.wantBody

(* Engines are called in their order, each once, in their own phase.         *)
CallsInv(set, n, seen) ==
  /\ seen \in Seq(CallSet)
  /\ \A m \in 1 .. Len(seen) :
       /\ seen[m].engine \in 1 .. n /\ Selected(set, seen[m].engine)
       /\ seen[m].verdict = Inspect(set.engines[seen[m].engine], set.req)
  /\ \A m, l \in 1 .. Len(seen) : m < l => seen[m].engine < seen[l].engine

(* worst is the worst block so far. *)
WorstInv(seen, worst) ==
  /\ IsVerdict(worst)
  /\ worst.action = "block" => \E m \in 1 .. Len(seen) : seen[m].verdict = worst
  /\ \A m \in 1 .. Len(seen) :
       seen[m].verdict.action = "block" =>
         worst.action = "block" /\ seen[m].verdict.severity <= worst.severity

SetInv(set, seq, n, a) ==
  /\ a = [calls |-> a.calls, worst |-> a.worst, score |-> a.score, err |-> a.err, broke |-> a.broke]
  /\ a.err \in BOOLEAN /\ a.broke \in BOOLEAN
  /\ CallsInv(set, n, a.calls) /\ WorstInv(a.calls, a.worst) /\ a.score = ScoreOf(a.calls)
  /\ a.broke => /\ a.err
                /\ \E i \in 1 .. n : Selected(set, i) /\ \A m \in 1 .. Len(a.calls) : a.calls[m].engine # i
  /\ ~a.broke => /\ a.err <=> \E m \in 1 .. Len(a.calls) : a.calls[m].verdict = Failed
                 /\ \A i \in 1 .. n : Selected(set, i) => \E m \in 1 .. Len(a.calls) : a.calls[m].engine = i

SetLoop == INSTANCE Loops WITH Step <- SetStep, Inv <- SetInv

(* A call more. *)
CallOf(set, n) == [engine |-> n, verdict |-> Inspect(set.engines[n], set.req)]

LEMMA CallAdded ==
  ASSUME NEW set, NEW n \in Nat \ {0}, NEW seen, CallsInv(set, n - 1, seen), Selected(set, n),
         IsEngine(set.engines[n]), NEW c, c = CallOf(set, n)
  PROVE  /\ CallsInv(set, n, Append(seen, c)) /\ c \in CallSet /\ seen \in Seq(CallSet)
         /\ Len(seen) \in Nat /\ Len(Append(seen, c)) = Len(seen) + 1
         /\ Append(seen, c)[Len(seen) + 1] = c
         /\ \A m \in 1 .. Len(seen) : Append(seen, c)[m] = seen[m]
         /\ IsVerdict(c.verdict)
<1>1. IsVerdict(c.verdict) /\ c.verdict = Inspect(set.engines[n], set.req) /\ c.engine = n
  BY Zenon, InspectAnswers DEF CallOf
<1>2. c \in CallSet
  <2>1. c = [engine |-> n, verdict |-> c.verdict]
    BY Zenon, <1>1 DEF CallOf
  <2> QED BY <1>1, <2>1 DEF IsVerdict, CallSet
<1> DEFINE new == Append(seen, c)
<1>3. seen \in Seq(CallSet)
  BY Zenon DEF CallsInv
<1>4. /\ Len(seen) \in Nat /\ Len(new) = Len(seen) + 1 /\ new[Len(seen) + 1] = c
      /\ \A m \in 1 .. Len(seen) : new[m] = seen[m]
      /\ new \in Seq(CallSet)
  BY <1>2, <1>3
<1> HIDE DEF new
<1>5. ASSUME NEW m \in 1 .. Len(new)
      PROVE  /\ new[m].engine \in 1 .. n /\ Selected(set, new[m].engine)
             /\ new[m].verdict = Inspect(set.engines[new[m].engine], set.req)
             /\ m <= Len(seen) => new[m].engine < n
  <2>1. CASE m = Len(seen) + 1
    BY <1>1, <1>4, <2>1
  <2>2. CASE m \in 1 .. Len(seen)
    <3>1. /\ seen[m].engine \in 1 .. n - 1 /\ Selected(set, seen[m].engine)
          /\ seen[m].verdict = Inspect(set.engines[seen[m].engine], set.req)
      BY Zenon, <2>2 DEF CallsInv
    <3>2. new[m] = seen[m]
      BY Zenon, <1>4, <2>2
    <3>3. seen[m].engine \in 1 .. n /\ seen[m].engine < n
      BY <3>1
    <3> QED BY Zenon, <3>1, <3>2, <3>3
  <2> QED BY <1>4, <2>1, <2>2
<1>6. ASSUME NEW m \in 1 .. Len(new), NEW l \in 1 .. Len(new), m < l
      PROVE  new[m].engine < new[l].engine
  <2>1. m \in 1 .. Len(seen) /\ (l = Len(seen) + 1 \/ l \in 1 .. Len(seen))
    BY <1>4, <1>6
  <2>2. CASE l = Len(seen) + 1
    BY <1>1, <1>4, <1>5, <2>1, <2>2
  <2>3. CASE l \in 1 .. Len(seen)
    BY Zenon, <1>4, <1>6, <2>1, <2>3 DEF CallsInv
  <2> QED BY Zenon, <2>1, <2>2, <2>3
<1>7. CallsInv(set, n, new)
  BY Zenon, <1>4, <1>5, <1>6 DEF CallsInv
<1> QED BY Zenon, <1>1, <1>2, <1>3, <1>4, <1>7 DEF new

(* WorseOf keeps the worst block, whatever the order of the verdicts. *)
LEMMA WorstKept ==
  ASSUME NEW seen \in Seq(CallSet), NEW new, NEW c, Len(seen) \in Nat, Len(new) = Len(seen) + 1,
         new[Len(seen) + 1] = c, \A m \in 1 .. Len(seen) : new[m] = seen[m],
         NEW worst, WorstInv(seen, worst), IsVerdict(c.verdict)
  PROVE  /\ WorstInv(new, WorseOf(worst, c.verdict))
         /\ c.verdict.action # "block" => WorstInv(new, worst)
<1> DEFINE v == c.verdict
<1>1. /\ v.severity \in Nat /\ worst.severity \in Nat /\ IsVerdict(worst)
      /\ v.action # "block" => v.severity = 0
      /\ worst.action # "block" => worst.severity = 0
  BY DEF WorstInv, IsVerdict
<1>2. \A m \in 1 .. Len(new) : new[m] = c \/ (m \in 1 .. Len(seen) /\ new[m] = seen[m])
  <2> SUFFICES ASSUME NEW m \in 1 .. Len(new) PROVE new[m] = c \/ (m \in 1 .. Len(seen) /\ new[m] = seen[m])
    BY Zenon
  <2>1. m = Len(seen) + 1 \/ m \in 1 .. Len(seen)
    OBVIOUS
  <2> QED BY Zenon, <2>1
<1>3. 1 .. Len(seen) \subseteq 1 .. Len(new) /\ Len(seen) + 1 \in 1 .. Len(new)
  OBVIOUS
<1>4. ASSUME v.action # "block" PROVE WorstInv(new, worst)
  <2>1. ASSUME NEW m \in 1 .. Len(new), new[m].verdict.action = "block"
        PROVE  worst.action = "block" /\ new[m].verdict.severity <= worst.severity
    <3>1. m \in 1 .. Len(seen) /\ new[m] = seen[m]
      BY Zenon, <1>2, <1>4, <2>1
    <3> QED BY Zenon, <2>1, <3>1 DEF WorstInv
  <2>2. ASSUME worst.action = "block" PROVE \E m \in 1 .. Len(new) : new[m].verdict = worst
    <3>1. PICK m \in 1 .. Len(seen) : seen[m].verdict = worst
      BY Zenon, <2>2 DEF WorstInv
    <3> QED BY Zenon, <1>3, <3>1
  <2> QED BY Zenon, <1>1, <2>1, <2>2 DEF WorstInv
<1>5. CASE v.action = "block" /\ (worst.action # "block" \/ v.severity >= worst.severity)
  <2>1. WorseOf(worst, v) = v
    BY Zenon, <1>5 DEF WorseOf
  <2>2. ASSUME NEW m \in 1 .. Len(new), new[m].verdict.action = "block"
        PROVE  v.action = "block" /\ new[m].verdict.severity <= v.severity
    <3>1. CASE new[m] = c
      BY <1>1, <1>5, <3>1
    <3>2. CASE m \in 1 .. Len(seen) /\ new[m] = seen[m]
      <4>1. worst.action = "block" /\ seen[m].verdict.severity <= worst.severity
        BY Zenon, <2>2, <3>2 DEF WorstInv
      <4>2. worst.severity <= v.severity
        BY <1>1, <1>5, <4>1
      <4>3. seen[m].verdict.severity \in Nat
        <5>1. seen[m] \in CallSet
          BY <3>2
        <5> QED BY <5>1 DEF CallSet
      <4> QED BY <1>1, <1>5, <3>2, <4>1, <4>2, <4>3
    <3> QED BY Zenon, <1>2, <3>1, <3>2
  <2>3. \E m \in 1 .. Len(new) : new[m].verdict = v
    BY Zenon, <1>3
  <2> QED BY Zenon, <1>5, <2>1, <2>2, <2>3 DEF WorstInv
<1>6. CASE v.action = "block" /\ worst.action = "block" /\ ~(v.severity >= worst.severity)
  <2>1. WorseOf(worst, v) = worst
    BY Zenon, <1>6 DEF WorseOf
  <2>2. ASSUME NEW m \in 1 .. Len(new), new[m].verdict.action = "block"
        PROVE  worst.action = "block" /\ new[m].verdict.severity <= worst.severity
    <3>1. CASE new[m] = c
      BY <1>1, <1>6, <3>1
    <3>2. CASE m \in 1 .. Len(seen) /\ new[m] = seen[m]
      BY Zenon, <2>2, <3>2 DEF WorstInv
    <3> QED BY Zenon, <1>2, <3>1, <3>2
  <2>3. \E m \in 1 .. Len(new) : new[m].verdict = worst
    <3>1. PICK m \in 1 .. Len(seen) : seen[m].verdict = worst
      BY Zenon, <1>6 DEF WorstInv
    <3> QED BY Zenon, <1>3, <3>1
  <2> QED BY Zenon, <1>1, <2>1, <2>2, <2>3 DEF WorstInv
<1>7. CASE v.action # "block"
  <2>1. WorseOf(worst, v) = worst
    BY <1>1, <1>7 DEF WorseOf
  <2> QED BY Zenon, <1>4, <1>7, <2>1
<1> QED BY Zenon, <1>4, <1>5, <1>6, <1>7

(* The record that starts the loop of Set.inspect. *)
SetStart == [calls |-> <<>>, worst |-> Pass, score |-> 0, err |-> FALSE, broke |-> FALSE]

LEMMA SetStepKeeps ==
  ASSUME NEW set, NEW seq, NEW n \in Nat \ {0}, IsEngine(set.engines[n]), NEW a, SetInv(set, seq, n - 1, a)
  PROVE  SetInv(set, seq, n, SetStep(set, a, n))
<1> DEFINE v == Inspect(set.engines[n], set.req)
           c == [engine |-> n, verdict |-> v]
           seen == Append(a.calls, c)
           b == [a EXCEPT !.calls = seen]
           new == SetStep(set, a, n)
<1>1. /\ a = [calls |-> a.calls, worst |-> a.worst, score |-> a.score, err |-> a.err, broke |-> a.broke]
      /\ a.err \in BOOLEAN /\ a.broke \in BOOLEAN
      /\ CallsInv(set, n - 1, a.calls) /\ WorstInv(a.calls, a.worst) /\ a.score = ScoreOf(a.calls)
  BY Zenon DEF SetInv
<1>2. 1 .. n - 1 \subseteq 1 .. n /\ n \in 1 .. n /\ \A i \in 1 .. n : i = n \/ i \in 1 .. n - 1
  OBVIOUS
<1>3. CallsInv(set, n, a.calls)
  BY Zenon, <1>1, <1>2 DEF CallsInv
<1>4. CASE a.broke
  <2>1. new = a
    BY Zenon, <1>4 DEF SetStep
  <2> QED BY Zenon, <1>1, <1>2, <1>3, <1>4, <2>1 DEF SetInv
<1>5. CASE ~a.broke /\ ~Selected(set, n)
  <2>1. new = a
    BY Zenon, <1>5 DEF SetStep, Selected
  <2>2. \A i \in 1 .. n : Selected(set, i) => i \in 1 .. n - 1
    BY Zenon, <1>2, <1>5
  <2> QED BY Zenon, <1>1, <1>3, <1>5, <2>1, <2>2 DEF SetInv
<1>6. CASE ~a.broke /\ Selected(set, n) /\ Len(a.calls) >= set.deadline
  <2>1. new = [a EXCEPT !.err = TRUE, !.broke = TRUE]
    BY Zenon, <1>6 DEF SetStep, Selected
  <2>2. new = [calls |-> a.calls, worst |-> a.worst, score |-> a.score, err |-> TRUE, broke |-> TRUE]
    BY <1>1, <2>1
  <2>3. \A m \in 1 .. Len(a.calls) : a.calls[m].engine # n
    <3>1. \A m \in 1 .. Len(a.calls) : a.calls[m].engine \in 1 .. n - 1
      BY Zenon, <1>1 DEF CallsInv
    <3>2. n \notin 1 .. n - 1
      OBVIOUS
    <3> QED BY Zenon, <3>1, <3>2
  <2> HIDE DEF new
  <2>4. new.calls = a.calls /\ new.worst = a.worst /\ new.score = a.score /\ new.err = TRUE /\ new.broke = TRUE
    BY <2>2
  <2>5. new = [calls |-> new.calls, worst |-> new.worst, score |-> new.score, err |-> new.err, broke |-> new.broke]
    BY Zenon, <2>2, <2>4
  <2>6. SetInv(set, seq, n, new)
    BY Zenon, <1>1, <1>2, <1>3, <1>6, <2>3, <2>4, <2>5 DEF SetInv
  <2> QED BY Zenon, <2>6 DEF new
<1>7. CASE ~a.broke /\ Selected(set, n) /\ ~(Len(a.calls) >= set.deadline)
  <2>1. /\ CallsInv(set, n, seen) /\ c \in CallSet /\ a.calls \in Seq(CallSet)
        /\ Len(a.calls) \in Nat /\ Len(seen) = Len(a.calls) + 1
        /\ seen[Len(a.calls) + 1] = c /\ \A m \in 1 .. Len(a.calls) : seen[m] = a.calls[m]
        /\ IsVerdict(c.verdict) /\ c.verdict = v /\ c.engine = n
    <3> DEFINE d == CallOf(set, n)
    <3>1. d = c /\ c.verdict = v /\ c.engine = n
      BY DEF CallOf
    <3> HIDE DEF c
    <3>2. /\ CallsInv(set, n, Append(a.calls, d)) /\ d \in CallSet /\ a.calls \in Seq(CallSet)
          /\ Len(a.calls) \in Nat /\ Len(Append(a.calls, d)) = Len(a.calls) + 1
          /\ Append(a.calls, d)[Len(a.calls) + 1] = d
          /\ \A m \in 1 .. Len(a.calls) : Append(a.calls, d)[m] = a.calls[m]
          /\ IsVerdict(d.verdict)
      BY Zenon, <1>1, <1>7, CallAdded
    <3> QED BY Zenon, <3>1, <3>2
  <2>2. /\ WorstInv(seen, WorseOf(a.worst, v))
        /\ v.action # "block" => WorstInv(seen, a.worst)
    <3> HIDE DEF seen, c, v
    <3>1. /\ WorstInv(seen, WorseOf(a.worst, c.verdict))
          /\ c.verdict.action # "block" => WorstInv(seen, a.worst)
      BY <1>1, <2>1, WorstKept
    <3> QED BY Zenon, <2>1, <3>1
  <2>3. ScoreOf(seen) = a.score + v.score /\ a.score \in Nat /\ v.score \in Nat
    <3>1. ScoreOf(Append(a.calls, c)) = ScoreOf(a.calls) + c.verdict.score /\ ScoreOf(a.calls) \in Nat
      <4> HIDE DEF c
      <4> QED BY Zenon, <2>1, ScoreFacts
    <3>2. v.score \in Nat
      <4> HIDE DEF v, c, seen
      <4> QED BY <2>1 DEF IsVerdict
    <3> QED BY Zenon, <1>1, <2>1, <3>1, <3>2
  <2>4. \A i \in 1 .. n : Selected(set, i) => \E m \in 1 .. Len(seen) : seen[m].engine = i
    <3> SUFFICES ASSUME NEW i \in 1 .. n, Selected(set, i) PROVE \E m \in 1 .. Len(seen) : seen[m].engine = i
      BY Zenon
    <3>1. CASE i = n
      <4> HIDE DEF seen, c
      <4>1. Len(a.calls) + 1 \in 1 .. Len(seen)
        BY <2>1
      <4> QED BY Zenon, <2>1, <3>1, <4>1
    <3>2. CASE i \in 1 .. n - 1
      <4>1. PICK m \in 1 .. Len(a.calls) : a.calls[m].engine = i
        BY Zenon, <1>7, <3>2 DEF SetInv
      <4> HIDE DEF seen, c
      <4>2. m \in 1 .. Len(seen)
        BY <2>1, <4>1
      <4> QED BY Zenon, <2>1, <4>1, <4>2
    <3> QED BY Zenon, <1>2, <3>1, <3>2
  <2>5. (\E m \in 1 .. Len(seen) : seen[m].verdict = Failed)
          <=> (v = Failed \/ \E m \in 1 .. Len(a.calls) : a.calls[m].verdict = Failed)
    <3> HIDE DEF seen, c, v
    <3>1. /\ 1 .. Len(a.calls) \subseteq 1 .. Len(seen) /\ Len(a.calls) + 1 \in 1 .. Len(seen)
          /\ \A m \in 1 .. Len(seen) : m = Len(a.calls) + 1 \/ m \in 1 .. Len(a.calls)
      BY <2>1
    <3> QED BY Zenon, <2>1, <3>1
  <2>6. v.action = "error" <=> v = Failed
    <3> HIDE DEF v, c, seen
    <3> QED BY Zenon, <2>1 DEF IsVerdict
  <2>7. a.err <=> \E m \in 1 .. Len(a.calls) : a.calls[m].verdict = Failed
    BY Zenon, <1>7 DEF SetInv
  <2> DEFINE err == a.err \/ v = Failed
             worst == IF v = Failed THEN a.worst ELSE WorseOf(a.worst, v)
  <2>8. new = [calls |-> seen, worst |-> worst, score |-> a.score + v.score, err |-> err, broke |-> FALSE]
    <3> HIDE DEF v, seen
    <3>1. b = [calls |-> seen, worst |-> a.worst, score |-> a.score, err |-> a.err, broke |-> FALSE]
      <4>1. a.broke = FALSE
        BY Zenon, <1>1, <1>7
      <4>2. a = [calls |-> a.calls, worst |-> a.worst, score |-> a.score, err |-> a.err, broke |-> a.broke]
        BY Zenon, <1>1
      <4>3. b = [calls |-> seen, worst |-> a.worst, score |-> a.score, err |-> a.err, broke |-> a.broke]
        BY <4>2
      <4> QED BY Zenon, <4>1, <4>3
    <3>2. CASE v = Failed
      <4>1. new = [b EXCEPT !.err = TRUE]
        BY Zenon, <1>7, <2>6, <3>2 DEF SetStep, Selected, v, seen
      <4>2. v.score = 0 /\ a.score + 0 = a.score
        BY <2>3, <3>2, PlainVerdicts
      <4> QED BY Zenon, <3>1, <3>2, <4>1, <4>2
    <3>3. CASE v # Failed
      <4>1. new = [b EXCEPT !.score = IF v.score > 0 THEN @ + v.score ELSE @, !.worst = WorseOf(@, v)]
        BY Zenon, <1>7, <2>6, <3>3 DEF SetStep, Selected, v, seen
      <4>2. (IF v.score > 0 THEN a.score + v.score ELSE a.score) = a.score + v.score
        BY <2>3
      <4> HIDE DEF b, new
      <4>3. b.score = a.score /\ b.worst = a.worst
        BY <3>1
      <4>4. new = [b EXCEPT !.score = a.score + v.score, !.worst = WorseOf(a.worst, v)]
        BY Zenon, <4>1, <4>2, <4>3
      <4>5. err = a.err /\ worst = WorseOf(a.worst, v)
        BY Zenon, <1>1, <3>3
      <4> HIDE DEF err, worst
      <4> QED BY <3>1, <4>4, <4>5
    <3> QED BY Zenon, <3>2, <3>3
  <2>9. WorstInv(seen, worst)
    <3>1. v = Failed => v.action # "block"
      BY Zenon, PlainVerdicts
    <3> QED BY Zenon, <2>2, <3>1
  <2> HIDE DEF new, err, worst, seen, v
  <2>10. /\ new.calls = seen /\ new.worst = worst /\ new.score = a.score + v.score
         /\ new.err = err /\ new.broke = FALSE
    BY <2>8
  <2>11. new = [calls |-> new.calls, worst |-> new.worst, score |-> new.score, err |-> new.err, broke |-> new.broke]
    BY Zenon, <2>8, <2>10
  <2>12. err \in BOOLEAN /\ (err <=> \E m \in 1 .. Len(seen) : seen[m].verdict = Failed)
    BY Zenon, <1>1, <2>5, <2>7 DEF err
  <2>13. SetInv(set, seq, n, new)
    BY Zenon, <2>1, <2>3, <2>4, <2>9, <2>10, <2>11, <2>12 DEF SetInv
  <2> QED BY Zenon, <2>13 DEF new
<1> QED BY Zenon, <1>4, <1>5, <1>6, <1>7

(* The loop of Set.inspect, for any engines. *)
LEMMA SetLoopFacts ==
  ASSUME NEW engines, IsSlice(engines), \A i \in DOMAIN engines : IsEngine(engines[i]),
         NEW req, NEW wantBody, NEW deadline
  PROVE  LET set == [engines |-> engines, req |-> req, wantBody |-> wantBody, deadline |-> deadline]
             seq == [i \in DOMAIN engines |-> i]
         IN  SetInv(set, seq, Len(engines), InspectSet(engines, req, wantBody, deadline))
<1> DEFINE set == [engines |-> engines, req |-> req, wantBody |-> wantBody, deadline |-> deadline]
           seq == [i \in DOMAIN engines |-> i]
<1>1. DOMAIN engines = 1 .. Len(engines) /\ Len(engines) \in Nat
  BY Zenon, SliceFacts
<1>2. seq \in Seq(Nat) /\ Len(seq) = Len(engines) /\ \A n \in 1 .. Len(seq) : seq[n] = n
  BY <1>1
<1>3. set.engines = engines
  BY Zenon
<1>4. InspectSet(engines, req, wantBody, deadline) = SetLoop!Loop(set, SetStart, seq)
  BY Zenon DEF InspectSet, SetLoop!Loop, FoldLeft, SetStart
<1> HIDE DEF set, seq
<1>5. SetInv(set, seq, 0, SetStart)
  <2>1. /\ SetStart.calls = <<>> /\ SetStart.worst = Pass /\ SetStart.score = 0
        /\ SetStart.err = FALSE /\ SetStart.broke = FALSE
    BY DEF SetStart
  <2>2. /\ <<>> \in Seq(CallSet) /\ 1 .. Len(<<>>) = {} /\ 1 .. 0 = {}
    OBVIOUS
  <2>3. CallsInv(set, 0, <<>>) /\ WorstInv(<<>>, Pass)
    BY Zenon, <2>2, PlainVerdicts DEF CallsInv, WorstInv
  <2>4. ScoreOf(<<>>) = 0
    BY Zenon, <2>2, ScoreFacts
  <2>5. SetStart = [calls |-> SetStart.calls, worst |-> SetStart.worst, score |-> SetStart.score,
                    err |-> SetStart.err, broke |-> SetStart.broke]
    BY DEF SetStart
  <2> QED BY Zenon, <2>1, <2>2, <2>3, <2>4, <2>5 DEF SetInv
<1>6. ASSUME NEW n \in 1 .. Len(seq), NEW acc, SetInv(set, seq, n - 1, acc)
      PROVE  SetInv(set, seq, n, SetStep(set, acc, seq[n]))
  <2>1. n \in Nat \ {0} /\ n \in DOMAIN engines /\ seq[n] = n
    BY <1>1, <1>2
  <2>2. IsEngine(set.engines[n])
    BY Zenon, <1>3, <2>1
  <2>3. SetInv(set, seq, n, SetStep(set, acc, n))
    BY Zenon, <1>6, <2>1, <2>2, SetStepKeeps
  <2> QED BY Zenon, <2>1, <2>3
<1>7. SetInv(set, seq, Len(seq), SetLoop!Loop(set, SetStart, seq))
  <2>1. SetLoop!Induction
    BY Zenon, NatSetInduction DEF SetLoop!Induction
  <2> QED BY Zenon, <1>2, <1>5, <1>6, <2>1, SetLoop!LoopInvariant
<1> QED BY Zenon, <1>2, <1>4, <1>7 DEF set, seq

(* As many engines as calls. *)
LEMMA CallsCounted ==
  ASSUME NEW set, NEW n \in Nat, NEW seen, CallsInv(set, n, seen)
  PROVE  Cardinality({seen[m].engine : m \in DOMAIN seen}) = Len(seen)
<1> DEFINE S == {seen[m].engine : m \in DOMAIN seen}
           f == [m \in 1 .. Len(seen) |-> seen[m].engine]
<1>1. Len(seen) \in Nat /\ DOMAIN seen = 1 .. Len(seen)
  <2>1. seen \in Seq(CallSet)
    BY Zenon DEF CallsInv
  <2> QED BY <2>1
<1>2. \A m, l \in 1 .. Len(seen) : m # l => seen[m].engine # seen[l].engine
  <2> SUFFICES ASSUME NEW m \in 1 .. Len(seen), NEW l \in 1 .. Len(seen), m # l
               PROVE  seen[m].engine # seen[l].engine
    BY Zenon
  <2>1. m < l \/ l < m
    BY <1>1
  <2>2. /\ m < l => seen[m].engine < seen[l].engine
        /\ l < m => seen[l].engine < seen[m].engine
        /\ seen[m].engine \in 1 .. n /\ seen[l].engine \in 1 .. n
    BY Zenon DEF CallsInv
  <2> QED BY <2>1, <2>2
<1>3. f \in Bijection(1 .. Len(seen), S)
  <2>1. f \in [1 .. Len(seen) -> S]
    BY Zenon, <1>1
  <2>2. \A m, l \in 1 .. Len(seen) : f[m] = f[l] => m = l
    BY Zenon, <1>2
  <2>3. \A s \in S : \E m \in 1 .. Len(seen) : f[m] = s
    BY Zenon, <1>1
  <2> QED BY Zenon, <2>1, <2>2, <2>3 DEF Bijection, Injection, Surjection, IsInjective
<1>4. ExistsBijection(1 .. Len(seen), S)
  BY Zenon, <1>3 DEF ExistsBijection
<1> QED BY Zenon, <1>1, <1>4, FS_CountingElements

-----------------------------------------------------------------------------
(* The two stages.                                                           *)

SetOf(b) == InspectSet(job.engines, job.req, b, job.deadline[b])

OfPhase(b) == {i \in DOMAIN job.engines : NeedsBody(job.engines[i]) = b}

LEMMA PhaseFacts ==
  ASSUME IsSetJob(job), NEW b
  PROVE  LET r == SetOf(b)
             seen == r.calls
             called == {seen[n].engine : n \in DOMAIN seen}
             verdicts == {seen[n].verdict : n \in DOMAIN seen}
             blocks == {v \in verdicts : v.action = "block"}
         IN  /\ r.worst.action = "block" <=> blocks # {}
             /\ r.worst.action = "block" => r.worst \in blocks
             /\ \A v \in blocks : v.severity <= r.worst.severity /\ v.severity \in Nat
             /\ r.err \in BOOLEAN /\ (r.err <=> (Failed \in verdicts \/ called # OfPhase(b)))
             /\ called \subseteq OfPhase(b) /\ Cardinality(called) = Len(seen)
             /\ r.score = ScoreOf(seen) /\ r.score \in Nat /\ r.worst.severity \in Nat
             /\ \A n \in DOMAIN seen :
                  /\ seen[n].engine \in DOMAIN job.engines
                  /\ seen[n].verdict = Inspect(job.engines[seen[n].engine], job.req)
<1> DEFINE r == SetOf(b)
           seen == r.calls
           called == {seen[n].engine : n \in DOMAIN seen}
           verdicts == {seen[n].verdict : n \in DOMAIN seen}
           blocks == {v \in verdicts : v.action = "block"}
           set == [engines |-> job.engines, req |-> job.req, wantBody |-> b, deadline |-> job.deadline[b]]
           seq == [i \in DOMAIN job.engines |-> i]
           size == Len(job.engines)
<1>1. IsSlice(job.engines) /\ \A i \in DOMAIN job.engines : IsEngine(job.engines[i])
  BY Zenon DEF IsSetJob
<1>2. SetInv(set, seq, size, r)
  BY Zenon, <1>1, SetLoopFacts DEF SetOf
<1>3. DOMAIN job.engines = 1 .. size /\ size \in Nat
  BY Zenon, <1>1, SliceFacts
<1>4. set.engines = job.engines /\ set.req = job.req /\ \A i : Selected(set, i) <=> NeedsBody(job.engines[i]) = b
  BY Zenon DEF Selected
<1> HIDE DEF set, seq, r, size
<1>5. CallsInv(set, size, seen) /\ WorstInv(seen, r.worst) /\ r.score = ScoreOf(seen) /\ r.err \in BOOLEAN
  BY Zenon, <1>2 DEF SetInv
<1>6. seen \in Seq(CallSet)
  BY Zenon, <1>5 DEF CallsInv
<1>7. DOMAIN seen = 1 .. Len(seen)
  BY <1>6
<1>8. r.score \in Nat
  BY Zenon, <1>5, <1>6, ScoreFacts
<1>9. Cardinality(called) = Len(seen)
  BY Zenon, <1>3, <1>5, CallsCounted
<1>10. \A n \in DOMAIN seen :
         /\ seen[n].engine \in OfPhase(b) /\ seen[n].engine \in DOMAIN job.engines
         /\ seen[n].verdict = Inspect(job.engines[seen[n].engine], job.req)
  BY Zenon, <1>3, <1>4, <1>5, <1>7 DEF CallsInv, OfPhase
<1>11. r.worst.action = "block" => r.worst \in blocks
  BY Zenon, <1>5, <1>7 DEF WorstInv
<1>12. \A v \in blocks : r.worst.action = "block" /\ v.severity <= r.worst.severity /\ v.severity \in Nat
  <2> SUFFICES ASSUME NEW v \in blocks
               PROVE  r.worst.action = "block" /\ v.severity <= r.worst.severity /\ v.severity \in Nat
    BY Zenon
  <2>1. PICK n \in DOMAIN seen : v = seen[n].verdict
    BY Zenon
  <2>2. v.action = "block"
    BY Zenon
  <2>3. r.worst.action = "block" /\ v.severity <= r.worst.severity
    BY Zenon, <1>5, <1>7, <2>1, <2>2 DEF WorstInv
  <2>4. v.severity \in Nat
    <3>1. seen[n] \in CallSet
      BY <1>6
    <3>2. seen[n].verdict.severity \in Nat
      BY <3>1 DEF CallSet
    <3> QED BY Zenon, <2>1, <3>2
  <2> QED BY Zenon, <2>3, <2>4
<1>13. r.err <=> (Failed \in verdicts \/ called # OfPhase(b))
  <2>1. CASE r.broke
    <3>1. r.err
      BY Zenon, <1>2, <2>1 DEF SetInv
    <3>2. PICK i \in 1 .. size : Selected(set, i) /\ \A m \in 1 .. Len(seen) : seen[m].engine # i
      BY Zenon, <1>2, <2>1 DEF SetInv
    <3>3. i \in OfPhase(b) /\ i \notin called
      BY Zenon, <1>3, <1>4, <1>7, <3>2 DEF OfPhase
    <3> QED BY Zenon, <3>1, <3>3
  <2>2. CASE ~r.broke
    <3>1. /\ r.err <=> \E m \in 1 .. Len(seen) : seen[m].verdict = Failed
          /\ \A i \in 1 .. size : Selected(set, i) => \E m \in 1 .. Len(seen) : seen[m].engine = i
      BY Zenon, <1>2, <2>2 DEF SetInv
    <3>2. called \subseteq OfPhase(b)
      BY Zenon, <1>10
    <3>3. OfPhase(b) \subseteq called
      BY Zenon, <1>3, <1>4, <1>7, <3>1 DEF OfPhase
    <3>4. r.err <=> Failed \in verdicts
      BY Zenon, <1>7, <3>1
    <3> QED BY Zenon, <3>2, <3>3, <3>4
  <2> QED BY Zenon, <2>1, <2>2
<1>14. r.worst.severity \in Nat
  <2>1. IsVerdict(r.worst)
    BY Zenon, <1>5 DEF WorstInv
  <2> QED BY <2>1 DEF IsVerdict
<1>15. called \subseteq OfPhase(b)
  BY Zenon, <1>10
<1>16. r.worst.action = "block" <=> blocks # {}
  BY Zenon, <1>11, <1>12
<1> HIDE DEF seen, called, verdicts, blocks
<1>17. \A v \in blocks : v.severity <= r.worst.severity /\ v.severity \in Nat
  BY Zenon, <1>12
<1>18. \A n \in DOMAIN seen :
         /\ seen[n].engine \in DOMAIN job.engines
         /\ seen[n].verdict = Inspect(job.engines[seen[n].engine], job.req)
  BY Zenon, <1>10
<1> USE DEF r, seen, called, verdicts, blocks
<1> QED BY Zenon, <1>5, <1>8, <1>9, <1>11, <1>13, <1>14, <1>15, <1>16, <1>17, <1>18

(* What Conclude makes of a set, given the score so far and whether it was   *)
(* reported.                                                                 *)
Outcome(r, sum, was) ==
  IF r.worst.action = "block" THEN [kind |-> "deny", severity |-> r.worst.severity]
  ELSE IF r.err THEN [kind |-> "fail", severity |-> 0]
  ELSE [kind |-> IF Crosses(sum + r.score) /\ ~was THEN "anomaly" ELSE "continue",
        severity |-> IF Crosses(sum + r.score) /\ ~was THEN Medium ELSE 0]

SumAfter(r, sum) == IF r.worst.action = "block" \/ r.err THEN sum ELSE sum + r.score

CrossedAfter(r, sum, was) ==
  IF r.worst.action = "block" \/ r.err THEN was ELSE was \/ (Crosses(sum + r.score) /\ ~was)

(* The header stage has run, and both have.                                  *)
First ==
  LET r == SetOf(FALSE) IN
  /\ asked = <<r.calls>> /\ results = <<Outcome(r, 0, FALSE)>>
  /\ total = SumAfter(r, 0) /\ crossed = CrossedAfter(r, 0, FALSE)

Second ==
  LET r == SetOf(FALSE)
      q == SetOf(TRUE)
  IN  /\ asked = <<r.calls, q.calls>>
      /\ results = <<Outcome(r, 0, FALSE), Outcome(q, SumAfter(r, 0), CrossedAfter(r, 0, FALSE))>>

(* The inductive invariant: what was asked and found is a function of the    *)
(* job.                                                                      *)
EVInv ==
  \/ /\ IsBodyJob(job) /\ asked = <<>> /\ at \in {"checks", "done"}
     /\ at = "done" => results = <<BodyChecks(job.policy, job.req)>>
  \/ /\ IsSetJob(job) /\ at \in {"headers", "body", "done"}
     /\ \/ /\ asked = <<>>
           /\ at = "headers" => results = <<>> /\ total = 0 /\ crossed = FALSE
           /\ at = "body" => job.policy.mode = "off" \/ job.engines = <<>>
        \/ at # "headers" /\ First
        \/ at = "done" /\ Second

LEMMA ConcludeFacts ==
  ASSUME NEW r, NEW next, Conclude(r, next)
  PROVE  /\ asked' = Append(asked, r.calls) /\ results' = Append(results, Outcome(r, total, crossed))
         /\ total' = SumAfter(r, total) /\ crossed' = CrossedAfter(r, total, crossed)
         /\ at' \in {"done", next}
<1>1. asked' = Append(asked, r.calls)
  BY Zenon DEF Conclude
<1>2. CASE r.worst.action = "block"
  <2>1. /\ results' = Append(results, [kind |-> "deny", severity |-> r.worst.severity])
        /\ total' = total /\ crossed' = crossed /\ at' \in {"done", next}
    BY Zenon, <1>2 DEF Conclude, Settle
  <2> QED BY Zenon, <1>1, <1>2, <2>1 DEF Outcome, SumAfter, CrossedAfter
<1>3. CASE r.worst.action # "block" /\ r.err
  <2>1. /\ results' = Append(results, [kind |-> "fail", severity |-> 0])
        /\ total' = total /\ crossed' = crossed /\ at' \in {"done", next}
    BY Zenon, <1>3 DEF Conclude, Settle
  <2> QED BY Zenon, <1>1, <1>3, <2>1 DEF Outcome, SumAfter, CrossedAfter
<1>4. CASE r.worst.action # "block" /\ ~r.err
  <2> DEFINE sum == total + r.score
             cross == job.policy.threshold > 0 /\ sum >= job.policy.threshold /\ ~crossed
  <2>1. AddScore(sum, next)
    BY Zenon, <1>4 DEF Conclude
  <2>2. cross <=> Crosses(sum) /\ ~crossed
    BY Zenon DEF Crosses
  <2> HIDE DEF sum
  <2>3. /\ total' = sum /\ crossed' = (crossed \/ cross) /\ at' \in {"done", next}
        /\ results' = Append(results, [kind |-> IF cross THEN "anomaly" ELSE "continue",
                                       severity |-> IF cross THEN Medium ELSE 0])
    BY Zenon, <2>1 DEF AddScore, Settle
  <2> HIDE DEF cross
  <2>4. crossed' = (crossed \/ (Crosses(sum) /\ ~crossed))
    BY Zenon, <2>2, <2>3
  <2>5. results' = Append(results, [kind |-> IF Crosses(sum) /\ ~crossed THEN "anomaly" ELSE "continue",
                                    severity |-> IF Crosses(sum) /\ ~crossed THEN Medium ELSE 0])
    BY Zenon, <2>2, <2>3
  <2> QED BY Zenon, <1>1, <1>4, <2>3, <2>4, <2>5 DEF Outcome, SumAfter, CrossedAfter, sum
<1> QED BY Zenon, <1>2, <1>3, <1>4

(* First and Second of the next state, read in this one. *)
LEMMA StagesPrimed ==
  ASSUME job' = job
  PROVE  LET r == SetOf(FALSE)
             q == SetOf(TRUE)
         IN  /\ (/\ asked' = <<r.calls>> /\ results' = <<Outcome(r, 0, FALSE)>>
                 /\ total' = SumAfter(r, 0) /\ crossed' = CrossedAfter(r, 0, FALSE)) => First'
             /\ (/\ asked' = <<r.calls, q.calls>>
                 /\ results' = <<Outcome(r, 0, FALSE), Outcome(q, SumAfter(r, 0), CrossedAfter(r, 0, FALSE))>>)
                => Second'
BY Zenon DEF First, Second, SetOf, Outcome, SumAfter, CrossedAfter, Crosses

LEMMA EVInvInitially == EVInit => EVInv
<1> SUFFICES ASSUME EVInit PROVE EVInv
  OBVIOUS
<1>1. CASE at = "headers" /\ \E s \in Shapes : job \in SetJobs(s)
  <2>1. IsSetJob(job)
    BY Zenon, <1>1, JobsAssumption
  <2> QED BY <1>1, <2>1 DEF EVInv, EVInit
<1>2. CASE at = "checks" /\ \E s \in BodyShapes : job \in BodyJobs(s)
  <2>1. IsBodyJob(job)
    BY Zenon, <1>2, JobsAssumption
  <2> QED BY <1>2, <2>1 DEF EVInv, EVInit
<1> QED BY Zenon, <1>1, <1>2 DEF EVInit

LEMMA EVInvKept == EVInv /\ [EVNext]_evvars => EVInv'
<1> SUFFICES ASSUME EVInv, [EVNext]_evvars PROVE EVInv'
  OBVIOUS
<1>1. ASSUME WAFHeaderStage PROVE EVInv'
  <2>1. at = "headers" /\ job' = job /\ RunEngines(FALSE, "body")
    BY Zenon, <1>1 DEF WAFHeaderStage
  <2>2. IsSetJob(job) /\ asked = <<>> /\ results = <<>> /\ total = 0 /\ crossed = FALSE
    BY <2>1 DEF EVInv
  <2>3. IsSetJob(job)'
    BY Zenon, <2>1, <2>2
  <2>4. CASE job.policy.mode = "off" \/ job.engines = <<>>
    <3>1. asked' = asked /\ at' \in {"done", "body"}
      BY Zenon, <2>1, <2>4 DEF RunEngines, Settle
    <3>2. at' \in {"headers", "body", "done"} /\ at' # "headers"
      BY <3>1
    <3>3. job'.policy.mode = "off" \/ job'.engines = <<>>
      BY Zenon, <2>1, <2>4
    <3>4. asked' = <<>>
      BY Zenon, <2>2, <3>1
    <3> QED BY Zenon, <2>3, <3>2, <3>3, <3>4 DEF EVInv
  <2>5. CASE ~(job.policy.mode = "off" \/ job.engines = <<>>)
    <3> DEFINE r == SetOf(FALSE)
    <3>1. Conclude(r, "body")
      BY Zenon, <2>1, <2>5 DEF RunEngines, SetOf
    <3> HIDE DEF r
    <3>2. /\ asked' = Append(asked, r.calls) /\ results' = Append(results, Outcome(r, total, crossed))
          /\ total' = SumAfter(r, total) /\ crossed' = CrossedAfter(r, total, crossed)
          /\ at' \in {"done", "body"}
      BY Zenon, <3>1, ConcludeFacts
    <3>3. /\ asked' = <<r.calls>> /\ results' = <<Outcome(r, 0, FALSE)>>
          /\ total' = SumAfter(r, 0) /\ crossed' = CrossedAfter(r, 0, FALSE)
      <4>1. \A x : Append(<<>>, x) = <<x>>
        OBVIOUS
      <4> QED BY Zenon, <2>2, <3>2, <4>1
    <3>4. First'
      BY Zenon, <2>1, <3>3, StagesPrimed DEF r
    <3>5. at' \in {"headers", "body", "done"} /\ at' # "headers"
      BY <3>2
    <3> QED BY Zenon, <2>3, <3>4, <3>5 DEF EVInv
  <2> QED BY Zenon, <2>4, <2>5
<1>2. ASSUME WAFStage PROVE EVInv'
  <2>1. at = "body" /\ job' = job /\ IsSetJob(job)
    BY <1>2 DEF WAFStage, EVInv
  <2>2. IsSetJob(job)'
    BY Zenon, <2>1
  <2>3. (asked = <<>> /\ (job.policy.mode = "off" \/ job.engines = <<>>)) \/ First
    BY <2>1 DEF EVInv
  <2>4. CASE ~(job.policy.mode # "off" /\ \E i \in DOMAIN job.engines : NeedsBody(job.engines[i]))
    <3>1. at' = "done" /\ asked' = asked /\ results' = results /\ total' = total /\ crossed' = crossed
      BY Zenon, <1>2, <2>4 DEF WAFStage
    <3>2. First => First'
      BY Zenon, <2>1, <3>1 DEF First, SetOf, Outcome, SumAfter, CrossedAfter, Crosses
    <3>3. at' \in {"headers", "body", "done"} /\ at' # "headers" /\ at' # "body"
      BY <3>1
    <3> QED BY Zenon, <2>2, <2>3, <3>1, <3>2, <3>3 DEF EVInv
  <2>5. CASE job.policy.mode # "off" /\ \E i \in DOMAIN job.engines : NeedsBody(job.engines[i])
    <3>1. job.engines # <<>>
      <4>1. DOMAIN <<>> = {}
        OBVIOUS
      <4> QED BY Zenon, <2>5, <4>1
    <3>2. First
      BY Zenon, <2>3, <2>5, <3>1
    <3> DEFINE r == SetOf(FALSE)
               q == SetOf(TRUE)
    <3>3. Conclude(q, "done")
      BY Zenon, <1>2, <2>5, <3>1 DEF WAFStage, RunEngines, SetOf
    <3>4. /\ asked = <<r.calls>> /\ results = <<Outcome(r, 0, FALSE)>>
          /\ total = SumAfter(r, 0) /\ crossed = CrossedAfter(r, 0, FALSE)
      BY Zenon, <3>2 DEF First
    <3> HIDE DEF r, q
    <3>5. /\ asked' = Append(asked, q.calls) /\ results' = Append(results, Outcome(q, total, crossed))
          /\ at' \in {"done", "done"}
      BY Zenon, <3>3, ConcludeFacts
    <3>6. \A x, y : Append(<<x>>, y) = <<x, y>>
      BY Zenon, AppendPair
    <3>7. Second'
      BY Zenon, <2>1, <3>4, <3>5, <3>6, StagesPrimed DEF r, q
    <3>8. at' = "done" /\ at' \in {"headers", "body", "done"}
      BY <3>5
    <3> QED BY Zenon, <2>2, <3>7, <3>8 DEF EVInv
  <2> QED BY Zenon, <2>4, <2>5
<1>3. ASSUME BodyChecksStage PROVE EVInv'
  <2>1. /\ at = "checks" /\ results' = <<BodyChecks(job.policy, job.req)>> /\ at' = "done"
        /\ job' = job /\ asked' = asked
    BY Zenon, <1>3 DEF BodyChecksStage
  <2>2. IsBodyJob(job) /\ asked = <<>>
    BY <2>1 DEF EVInv
  <2>3. IsBodyJob(job)' /\ asked' = <<>> /\ at' \in {"checks", "done"}
        /\ results' = <<BodyChecks(job.policy, job.req)'>>
    BY Zenon, <2>1, <2>2
  <2> QED BY Zenon, <2>3 DEF EVInv
<1>4. ASSUME UNCHANGED evvars PROVE EVInv'
  <2>1. /\ job' = job /\ at' = at /\ asked' = asked /\ results' = results /\ total' = total /\ crossed' = crossed
    BY <1>4 DEF evvars
  <2> QED BY Zenon, <2>1 DEF EVInv, First, Second, SetOf, Outcome, SumAfter, CrossedAfter, Crosses
<1> QED BY Zenon, <1>1, <1>2, <1>3, <1>4 DEF EVNext

(* What the stages have asked and found is at all times what the sets of the *)
(* job return, phase by phase.                                               *)
THEOREM EVInvHolds == EVSpec => []EVInv
BY EVInvInitially, EVInvKept, PTL DEF EVSpec

-----------------------------------------------------------------------------
(* FindingsSurface.                                                          *)

PlusStep(env, acc, x) == acc + x

PlusInv(env, seq, n, acc) == TRUE

SumLoop == INSTANCE Loops WITH Step <- PlusStep, Inv <- PlusInv

SumOf(s) == FoldLeft(LAMBDA a, x : a + x, 0, s)

LEMMA SumFacts ==
  ASSUME NEW s \in Seq(Nat)
  PROVE  /\ Len(s) = 1 => SumOf(s) = s[1]
         /\ Len(s) = 2 => SumOf(s) = s[1] + s[2]
<1>1. SumOf(s) = SumLoop!Loop(0, 0, s)
  BY Zenon DEF SumOf, FoldLeft, SumLoop!Loop, PlusStep
<1>2. SumLoop!Induction
  BY Zenon, NatSetInduction DEF SumLoop!Induction
<1>3. PICK acc : SumLoop!Steps(acc, 0, 0, s)
  BY Zenon, <1>2, SumLoop!LoopSteps
<1>4. /\ acc[0] = 0 /\ SumOf(s) = acc[Len(s)]
      /\ \A n \in 1 .. Len(s) : acc[n] = acc[n - 1] + s[n]
  BY Zenon, <1>1, <1>3 DEF SumLoop!Steps, PlusStep
<1>5. \A n \in 1 .. Len(s) : s[n] \in Nat
  OBVIOUS
<1>6. ASSUME Len(s) \in {1, 2} PROVE acc[1] = s[1] /\ s[1] \in Nat
  <2>1. 1 \in 1 .. Len(s) /\ 1 - 1 = 0
    BY <1>6
  <2>2. acc[1] = acc[0] + s[1] /\ s[1] \in Nat
    BY Zenon, <1>4, <1>5, <2>1
  <2> QED BY <1>4, <2>2
<1>7. ASSUME Len(s) = 2 PROVE acc[2] = s[1] + s[2]
  <2>1. 2 \in 1 .. Len(s) /\ 2 - 1 = 1
    BY <1>7
  <2>2. acc[2] = acc[1] + s[2]
    BY Zenon, <1>4, <2>1
  <2> QED BY <1>6, <1>7, <2>2
<1> QED BY <1>4, <1>6, <1>7

(* One phase, from the set it ran and the score it started with. *)
LEMMA PhaseSurfaces ==
  ASSUME IsSetJob(job), NEW b, NEW k \in Nat, NEW before \in Nat,
         asked[k] = SetOf(b).calls, results[k] = Outcome(SetOf(b), before, Crosses(before)),
         PhaseEngines(k) = OfPhase(b),
         SumOf([i \in 1 .. k |-> CountedIn(i)]) = before + CountedIn(k)
  PROVE  Surfaces(k) /\ CountedIn(k) \in Nat /\ before + CountedIn(k) = SumAfter(SetOf(b), before)
<1> DEFINE r == SetOf(b)
           seen == r.calls
           called == {seen[n].engine : n \in DOMAIN seen}
           verdicts == {seen[n].verdict : n \in DOMAIN seen}
           blocks == {v \in verdicts : v.action = "block"}
           kind == results[k].kind
<1>1. /\ r.worst.action = "block" <=> blocks # {}
      /\ r.worst.action = "block" => r.worst \in blocks
      /\ \A v \in blocks : v.severity <= r.worst.severity /\ v.severity \in Nat
      /\ r.err \in BOOLEAN /\ (r.err <=> (Failed \in verdicts \/ called # OfPhase(b)))
      /\ called \subseteq OfPhase(b) /\ Cardinality(called) = Len(seen)
      /\ r.score = ScoreOf(seen) /\ r.score \in Nat /\ r.worst.severity \in Nat
  BY Zenon, PhaseFacts
<1>2. seen = asked[k] /\ CalledIn(k) = called /\ VerdictsIn(k) = verdicts
  BY Zenon DEF CalledIn, VerdictsIn
<1>3. ScoreIn(k) = r.score
  <2>1. ScoreIn(k) = ScoreOf(asked[k])
    BY Zenon DEF ScoreIn, ScoreOf, ScoreLoop!Loop, FoldLeft, AddStep
  <2> QED BY Zenon, <1>1, <1>2, <2>1
<1> HIDE DEF called, verdicts, seen, r
<1>4. results[k] = Outcome(r, before, Crosses(before))
  BY Zenon DEF r
<1>5. \A v \in {x \in blocks : \A w \in blocks : w.severity <= x.severity} :
         r.worst.action = "block" /\ v.severity = r.worst.severity
  <2> SUFFICES ASSUME NEW v \in blocks, \A w \in blocks : w.severity <= v.severity
               PROVE  r.worst.action = "block" /\ v.severity = r.worst.severity
    BY Zenon
  <2>1. r.worst \in blocks /\ r.worst.action = "block"
    BY Zenon, <1>1
  <2>2. r.worst.severity <= v.severity /\ v.severity <= r.worst.severity /\ v.severity \in Nat
    BY Zenon, <1>1, <2>1
  <2> QED BY <1>1, <2>1, <2>2
<1>6. CASE r.worst.action = "block"
  <2>1. kind = "deny" /\ results[k].severity = r.worst.severity
    BY <1>4, <1>6 DEF Outcome
  <2>2. CountedIn(k) = 0
    BY <2>1 DEF CountedIn
  <2>3. blocks # {} /\ kind # "fail" /\ kind \in {"deny", "fail"}
    BY Zenon, <1>1, <1>6, <2>1
  <2>4. Surfaces(k)
    <3> HIDE DEF kind
    <3> QED BY Zenon, <1>1, <1>2, <1>5, <2>1, <2>3 DEF Surfaces, kind
  <2>5. before + CountedIn(k) = SumAfter(r, before)
    BY <1>6, <2>2 DEF SumAfter
  <2> QED BY <2>2, <2>4, <2>5 DEF r
<1>7. CASE r.worst.action # "block" /\ r.err
  <2>1. kind = "fail"
    BY <1>4, <1>7 DEF Outcome
  <2>2. CountedIn(k) = 0
    BY <2>1 DEF CountedIn
  <2>3. blocks = {} /\ kind # "deny" /\ kind \in {"deny", "fail"}
    BY Zenon, <1>1, <1>7, <2>1
  <2>4. Surfaces(k)
    <3> HIDE DEF kind
    <3> QED BY Zenon, <1>1, <1>2, <1>7, <2>1, <2>3 DEF Surfaces, kind
  <2>5. before + CountedIn(k) = SumAfter(r, before)
    BY <1>7, <2>2 DEF SumAfter
  <2> QED BY <2>2, <2>4, <2>5 DEF r
<1>8. CASE r.worst.action # "block" /\ ~r.err
  <2>1. kind = IF Crosses(before + r.score) /\ ~Crosses(before) THEN "anomaly" ELSE "continue"
    <3> DEFINE K == IF Crosses(before + r.score) /\ ~Crosses(before) THEN "anomaly" ELSE "continue"
               S == IF Crosses(before + r.score) /\ ~Crosses(before) THEN Medium ELSE 0
    <3>1. results[k] = [kind |-> K, severity |-> S]
      BY Zenon, <1>4, <1>8 DEF Outcome
    <3> HIDE DEF K, S
    <3>2. results[k].kind = K
      BY <3>1
    <3> QED BY Zenon, <3>2 DEF K
  <2>2. kind # "deny" /\ kind # "fail" /\ (kind = "anomaly" <=> Crosses(before + r.score) /\ ~Crosses(before))
    BY <2>1
  <2>3. CountedIn(k) = r.score
    BY Zenon, <1>3, <2>2 DEF CountedIn
  <2> DEFINE sum == SumOf([i \in 1 .. k |-> CountedIn(i)])
  <2>4. sum = before + r.score
    BY Zenon, <2>3
  <2> HIDE DEF sum
  <2>5. sum - CountedIn(k) = before
    BY <1>1, <2>3, <2>4
  <2>6. kind = "anomaly" <=> Crosses(sum) /\ ~Crosses(sum - CountedIn(k))
    BY Zenon, <2>2, <2>4, <2>5
  <2>7. blocks = {}
    BY Zenon, <1>1, <1>8
  <2>8. Surfaces(k)
    <3> HIDE DEF kind
    <3> QED BY Zenon, <1>1, <1>2, <1>8, <2>2, <2>6, <2>7 DEF Surfaces, kind, sum, SumOf
  <2>9. before + CountedIn(k) = SumAfter(r, before)
    BY Zenon, <1>8, <2>3 DEF SumAfter
  <2> QED BY Zenon, <1>1, <2>3, <2>8, <2>9 DEF r
<1> QED BY Zenon, <1>6, <1>7, <1>8

LEMMA EVInvSafe == EVInv => FindingsSurface
<1> SUFFICES ASSUME EVInv, NEW k \in DOMAIN asked PROVE Surfaces(k)
  BY Zenon DEF FindingsSurface
<1>1. CASE asked = <<>>
  BY <1>1
<1> DEFINE r == SetOf(FALSE)
           q == SetOf(TRUE)
<1>2. ASSUME IsSetJob(job), asked[1] = r.calls, results[1] = Outcome(r, 0, FALSE)
      PROVE  Surfaces(1) /\ CountedIn(1) \in Nat /\ CountedIn(1) = SumAfter(r, 0)
  <2>1. CountedIn(1) \in Nat
    <3>1. /\ r.score \in Nat /\ ScoreIn(1) = ScoreOf(asked[1]) /\ r.score = ScoreOf(r.calls)
      BY Zenon, <1>2, PhaseFacts DEF ScoreIn, ScoreOf, ScoreLoop!Loop, FoldLeft, AddStep
    <3> QED BY <1>2, <3>1 DEF CountedIn
  <2> DEFINE s == [i \in 1 .. 1 |-> CountedIn(i)]
  <2>2. s \in Seq(Nat) /\ Len(s) = 1 /\ s[1] = CountedIn(1)
    BY <2>1
  <2> HIDE DEF s
  <2>3. SumOf(s) = CountedIn(1)
    BY Zenon, <2>2, SumFacts
  <2>4. SumOf([i \in 1 .. 1 |-> CountedIn(i)]) = 0 + CountedIn(1)
    BY <2>1, <2>3 DEF s
  <2>5. PhaseEngines(1) = OfPhase(FALSE)
    <3>1. (1 = 2) = FALSE
      OBVIOUS
    <3> QED BY Zenon, <3>1 DEF PhaseEngines, OfPhase
  <2>6. results[1] = Outcome(r, 0, Crosses(0))
    <3>1. job.policy.threshold \in Nat
      BY Zenon, <1>2 DEF IsSetJob
    <3>2. ~Crosses(0)
      BY <3>1 DEF Crosses
    <3> HIDE DEF r
    <3> QED BY Zenon, <1>2, <3>2 DEF Outcome
  <2>7. Surfaces(1) /\ 0 + CountedIn(1) = SumAfter(r, 0)
    BY Zenon, <1>2, <2>4, <2>5, <2>6, 0 \in Nat, 1 \in Nat, PhaseSurfaces
  <2>8. 0 + CountedIn(1) = CountedIn(1)
    BY <2>1
  <2> QED BY Zenon, <2>1, <2>7, <2>8
<1>3. CASE IsSetJob(job) /\ First
  <2>1. k = 1 /\ asked[1] = r.calls /\ results[1] = Outcome(r, 0, FALSE)
    BY <1>3 DEF First
  <2> QED BY Zenon, <1>2, <1>3, <2>1
<1>4. CASE IsSetJob(job) /\ Second
  <2> DEFINE sum == SumAfter(r, 0)
             was == CrossedAfter(r, 0, FALSE)
  <2>1. /\ k \in {1, 2} /\ asked[1] = r.calls /\ results[1] = Outcome(r, 0, FALSE)
        /\ asked[2] = q.calls /\ results[2] = Outcome(q, sum, was)
    BY <1>4 DEF Second
  <2>2. Surfaces(1) /\ CountedIn(1) \in Nat /\ CountedIn(1) = sum
    BY Zenon, <1>2, <1>4, <2>1
  <2>3. was <=> Crosses(sum)
    <3>1. /\ r.score \in Nat /\ job.policy.threshold \in Nat
      BY Zenon, <1>4, PhaseFacts DEF IsSetJob
    <3>2. ~Crosses(0)
      BY <3>1 DEF Crosses
    <3> QED BY Zenon, <3>2 DEF SumAfter, CrossedAfter
  <2>4. CountedIn(2) \in Nat
    <3>1. /\ q.score \in Nat /\ ScoreIn(2) = ScoreOf(asked[2]) /\ q.score = ScoreOf(q.calls)
      BY Zenon, <1>4, PhaseFacts DEF ScoreIn, ScoreOf, ScoreLoop!Loop, FoldLeft, AddStep
    <3> QED BY <2>1, <3>1 DEF CountedIn
  <2> DEFINE s == [i \in 1 .. 2 |-> CountedIn(i)]
  <2>5. s \in Seq(Nat) /\ Len(s) = 2 /\ s[1] = CountedIn(1) /\ s[2] = CountedIn(2)
    <3>1. \A i \in 1 .. 2 : CountedIn(i) \in Nat
      BY <2>2, <2>4
    <3> QED BY <3>1
  <2> HIDE DEF s
  <2>6. SumOf(s) = sum + CountedIn(2)
    BY Zenon, <2>2, <2>5, SumFacts
  <2>7. SumOf([i \in 1 .. 2 |-> CountedIn(i)]) = sum + CountedIn(2)
    BY Zenon, <2>6 DEF s
  <2>8. PhaseEngines(2) = OfPhase(TRUE)
    BY Zenon DEF PhaseEngines, OfPhase
  <2> HIDE DEF was, sum, q
  <2>9. Surfaces(2)
    <3>1. sum \in Nat
      BY Zenon, <2>2
    <3>2. results[2] = Outcome(q, sum, Crosses(sum))
      BY Zenon, <2>1, <2>3 DEF Outcome
    <3>4. asked[2] = SetOf(TRUE).calls /\ results[2] = Outcome(SetOf(TRUE), sum, Crosses(sum))
      BY Zenon, <2>1, <3>2 DEF q
    <3>3. IsSetJob(job) /\ 2 \in Nat
      BY Zenon, <1>4
    <3> HIDE DEF r
    <3> QED BY Zenon, <2>7, <2>8, <3>1, <3>3, <3>4, PhaseSurfaces
  <2> QED BY Zenon, <2>1, <2>2, <2>9
<1> QED BY Zenon, <1>1, <1>3, <1>4 DEF EVInv

(* The header and body stages surface what the engines of a policy find:     *)
(* the worst blocking verdict decides, an engine that fails or is never      *)
(* reached is an error, each engine of the phase is asked at most once, and  *)
(* the anomaly threshold trips exactly when the scores of the two stages     *)
(* first cross it.                                                           *)
THEOREM FindingsAlwaysSurface == EVSpec => []FindingsSurface
BY EVInvHolds, EVInvSafe, PTL

-----------------------------------------------------------------------------
(* Each credential engine passes a request of its caller and no other.       *)

LEMMA PassOrBlock ==
  /\ Pass # Blocks(High) /\ Pass # Blocks(Low) /\ Pass # Blocks(Medium)
  /\ Pass # Failed /\ Failed.action = "error"
  /\ \A s : Pass # Blocks(s)
<1>1. Pass.action = "pass" /\ Failed.action = "error" /\ \A s : Blocks(s).action = "block"
  BY DEF Pass, Failed, Blocks
<1>2. "pass" # "block" /\ "pass" # "error"
  OBVIOUS
<1> QED BY Zenon, <1>1, <1>2

LEMMA ClaimsAgree ==
  ASSUME NEW t, NEW required, IsToken(t), t \notin {NoValue, Garbage}
  PROVE  ClaimsPresent(required, t.claims)
           <=> \A c \in required : c \in DOMAIN t.claims /\ t.claims[c] \in {"zero", "value"}
<1>1. \A c \in DOMAIN t.claims : t.claims[c] \in {"null", "emptyString", "emptyArray", "zero", "value"}
  BY Zenon DEF IsToken
<1>2. \A v \in {"null", "emptyString", "emptyArray", "zero", "value"} : ~IsEmptyClaim(v) <=> v \in {"zero", "value"}
  BY DEF IsEmptyClaim
<1> QED BY Zenon, <1>1, <1>2 DEF ClaimsPresent

LEMMA JWTEntitled ==
  ASSUME NEW e, NEW req, NEW truth, IsEngine(e), IsToken(req.token), e.kind = "jwt"
  PROVE  InspectJWT(e, req) = Pass <=> Entitled(e, req, truth)
<1> DEFINE t == req.token
<1>1. /\ e.algs \subseteq {"HS256", "RS256"}
      /\ e.secret \in SharedSecrets \union {NoValue} /\ e.pubKey \in PublicKeys \union {NoValue}
  BY DEF IsEngine
<1>2. Entitled(e, req, truth) <=>
        /\ Genuine(t) /\ t.alg \in e.algs /\ t.by \in {e.secret, e.pubKey}
        /\ \A c \in e.required : c \in DOMAIN t.claims /\ t.claims[c] \in {"zero", "value"}
  BY DEF Entitled
<1>3. InspectJWT(e, req) = Pass <=>
        /\ t # NoValue /\ ParseWithClaims(t, e.algs, JWTKey(e, t)) /\ ClaimsPresent(e.required, t.claims)
  BY Zenon, PassOrBlock DEF InspectJWT
<1> HIDE DEF t
<1>4. "HS256" # "RS256" /\ "HS256" # "none" /\ "RS256" # "none"
  OBVIOUS
<1>5. ASSUME t \notin {NoValue, Garbage}, t.alg \in e.algs
      PROVE  JWTKey(e, t) # NoValue /\ t.by = JWTKey(e, t) /\ ~t.expired
               <=> Genuine(t) /\ t.by \in {e.secret, e.pubKey}
  <2>1. CASE t.alg = "HS256"
    <3>1. JWTKey(e, t) = e.secret
      BY Zenon, <1>4, <1>5, <2>1 DEF JWTKey, IsHMAC
    <3>2. Genuine(t) <=> ~t.expired /\ t.by \in SharedSecrets
      BY Zenon, <1>4, <1>5, <2>1 DEF Genuine
    <3> QED BY Zenon, <1>1, <3>1, <3>2, KeysAssumption
  <2>2. CASE t.alg = "RS256"
    <3>1. JWTKey(e, t) = e.pubKey
      BY Zenon, <1>4, <1>5, <2>2 DEF JWTKey, IsHMAC
    <3>2. Genuine(t) <=> ~t.expired /\ t.by \in PublicKeys
      BY Zenon, <1>4, <1>5, <2>2 DEF Genuine
    <3> QED BY Zenon, <1>1, <3>1, <3>2, KeysAssumption
  <2> QED BY Zenon, <1>1, <1>5, <2>1, <2>2
<1>6. t \notin {NoValue, Garbage} =>
        (ClaimsPresent(e.required, t.claims)
           <=> \A c \in e.required : c \in DOMAIN t.claims /\ t.claims[c] \in {"zero", "value"})
  BY Zenon, ClaimsAgree DEF t
<1>7. Genuine(t) => t \notin {NoValue, Garbage}
  BY Zenon DEF Genuine
<1> QED BY Zenon, <1>2, <1>3, <1>5, <1>6, <1>7 DEF ParseWithClaims

LEMMA JWKSEntitled ==
  ASSUME NEW e, NEW req, NEW truth, IsEngine(e), IsToken(req.token), e.kind = "jwks"
  PROVE  InspectJWKS(e, req) = Pass <=> Entitled(e, req, truth)
<1> DEFINE t == req.token
           D == DOMAIN e.keys
           Named == \E k \in D : t.by = e.keys[k] /\ (t.kid = k \/ (t.kid = "" /\ Cardinality(D) = 1))
<1>1. e.algs \subseteq {"HS256", "RS256"} /\ IsFiniteSet(D) /\ \A k \in D : e.keys[k] \in PublicKeys
  BY DEF IsEngine
<1>2. Entitled(e, req, truth) <=>
        /\ Genuine(t) /\ t.alg \in e.algs /\ Named
        /\ \A c \in e.required : c \in DOMAIN t.claims /\ t.claims[c] \in {"zero", "value"}
  BY DEF Entitled
<1>3. InspectJWKS(e, req) = Pass <=>
        /\ t # NoValue /\ ParseWithClaims(t, e.algs, JWKSKey(e, t)) /\ ClaimsPresent(e.required, t.claims)
  BY Zenon, PassOrBlock DEF InspectJWKS
<1> HIDE DEF t
<1>4. "HS256" # "RS256" /\ "HS256" # "none" /\ "RS256" # "none"
  OBVIOUS
<1>5. ASSUME t \notin {NoValue, Garbage}, t.alg \in e.algs
      PROVE  JWKSKey(e, t) # NoValue /\ t.by = JWKSKey(e, t) /\ ~t.expired <=> Genuine(t) /\ Named
  <2>1. CASE t.alg = "HS256"
    <3>1. JWKSKey(e, t) = NoValue
      BY Zenon, <1>5, <2>1 DEF JWKSKey, IsHMAC
    <3>2. Genuine(t) => t.by \in SharedSecrets
      BY Zenon, <1>4, <2>1 DEF Genuine
    <3>3. Named => t.by \in PublicKeys
      BY Zenon, <1>1
    <3> QED BY Zenon, <3>1, <3>2, <3>3, KeysAssumption
  <2>2. CASE t.alg = "RS256"
    <3>1. Genuine(t) <=> ~t.expired /\ t.by \in PublicKeys
      BY Zenon, <1>4, <1>5, <2>2 DEF Genuine
    <3>2. Cardinality(D) = 1 <=> \E k : D = {k}
      BY Zenon, <1>1, FS_Singleton
    <3>3. ASSUME t.kid \in D
          PROVE  /\ JWKSKey(e, t) = e.keys[t.kid] /\ JWKSKey(e, t) # NoValue /\ JWKSKey(e, t) \in PublicKeys
                 /\ Named <=> t.by = e.keys[t.kid]
      <4>1. JWKSKey(e, t) = e.keys[t.kid]
        BY Zenon, <1>4, <1>5, <2>2, <3>3 DEF JWKSKey, IsHMAC
      <4>2. Named <=> t.by = e.keys[t.kid]
        BY Zenon, <3>2, <3>3
      <4> QED BY Zenon, <1>1, <3>3, <4>1, <4>2, KeysAssumption
    <3>4. ASSUME t.kid \notin D, t.kid = "", NEW k, D = {k}
          PROVE  /\ JWKSKey(e, t) = e.keys[k] /\ JWKSKey(e, t) # NoValue /\ JWKSKey(e, t) \in PublicKeys
                 /\ Named <=> t.by = e.keys[k]
      <4>1. (CHOOSE x \in D : TRUE) = k
        BY <3>4
      <4>2. JWKSKey(e, t) = e.keys[CHOOSE x \in D : TRUE]
        BY Zenon, <1>4, <1>5, <2>2, <3>4 DEF JWKSKey, IsHMAC
      <4>3. Named <=> t.by = e.keys[k]
        BY Zenon, <3>2, <3>4
      <4>4. e.keys[k] \in PublicKeys
        BY Zenon, <1>1, <3>4
      <4> QED BY Zenon, <4>1, <4>2, <4>3, <4>4, KeysAssumption
    <3>5. ASSUME t.kid \notin D, ~(t.kid = "" /\ \E k : D = {k})
          PROVE  JWKSKey(e, t) = NoValue /\ ~Named
      <4>1. JWKSKey(e, t) = NoValue
        BY Zenon, <1>4, <1>5, <2>2, <3>5 DEF JWKSKey, IsHMAC
      <4>2. ~Named
        BY Zenon, <3>2, <3>5
      <4> QED BY Zenon, <4>1, <4>2
    <3> HIDE DEF Named, D
    <3> QED BY Zenon, <3>1, <3>3, <3>4, <3>5
  <2> QED BY Zenon, <1>1, <1>5, <2>1, <2>2
<1>6. t \notin {NoValue, Garbage} =>
        (ClaimsPresent(e.required, t.claims)
           <=> \A c \in e.required : c \in DOMAIN t.claims /\ t.claims[c] \in {"zero", "value"})
  BY Zenon, ClaimsAgree DEF t
<1>7. Genuine(t) => t \notin {NoValue, Garbage}
  BY Zenon DEF Genuine
<1> HIDE DEF Named
<1> QED BY Zenon, <1>2, <1>3, <1>5, <1>6, <1>7 DEF ParseWithClaims

LEMMA APIKeyEntitled ==
  ASSUME NEW e, NEW req, NEW truth, IsEngine(e), NormalizePath(req.path) = truth.path, e.kind = "api_key"
  PROVE  InspectAPIKey(e, req) = Pass <=> Entitled(e, req, truth)
<1> DEFINE bound == {x \in e.bindings : IsPrefix(x.prefix, truth.path)}
<1>1. NoValue \notin DOMAIN e.keys
  BY DEF IsEngine
<1>2. Entitled(e, req, truth) <=> req.key \in DOMAIN e.keys /\ {b.scope : b \in bound} \subseteq e.keys[req.key]
  BY DEF Entitled
<1>3. InspectAPIKey(e, req) = Pass <=>
        /\ req.key # NoValue /\ req.key \in DOMAIN e.keys
        /\ \A b \in e.bindings : IsPrefix(b.prefix, truth.path) => b.scope \in e.keys[req.key]
  BY Zenon, PassOrBlock DEF InspectAPIKey
<1> QED BY Zenon, <1>1, <1>2, <1>3

LEMMA MACsEqual ==
  ASSUME NEW k, NEW p, NEW t, NEW n, NEW d, NEW k1, NEW p1, NEW t1, NEW n1, NEW d1
  PROVE  [key |-> k, over |-> [path |-> p, ts |-> t, nonce |-> n, digest |-> d]]
           = [key |-> k1, over |-> [path |-> p1, ts |-> t1, nonce |-> n1, digest |-> d1]]
           <=> k = k1 /\ p = p1 /\ t = t1 /\ n = n1 /\ d = d1
OBVIOUS

LEMMA HMACEntitled ==
  ASSUME NEW e, NEW req, NEW truth, IsEngine(e), IsMAC(req.sig), req.now \in Int, e.kind = "hmac_sign"
  PROVE  InspectHMACSign(e, req) = Pass <=> Entitled(e, req, truth)
<1> DEFINE sig == req.sig
           m == sig.mac
           digest == IF e.requireBody THEN req.content ELSE ""
           canonical == [path |-> req.path, ts |-> sig.ts, nonce |-> sig.nonce, digest |-> digest]
           secret == SecretFor(e, sig)
           Timely == sig.ts <= req.now + SetWindow /\ req.now <= sig.ts + SetWindow
           Keyed == IF DOMAIN e.secrets = {} THEN m.key = e.secret
                    ELSE sig.keyID \in DOMAIN e.secrets /\ m.key = e.secrets[sig.keyID]
<1>1. (DOMAIN e.secrets = {} => e.secret # NoValue) /\ \A k \in DOMAIN e.secrets : e.secrets[k] # NoValue
  BY DEF IsEngine
<1>2. Entitled(e, req, truth) <=>
        /\ sig # NoValue /\ sig.hex /\ ~sig.seen
        /\ m.over.path = req.path /\ m.over.ts = sig.ts /\ m.over.nonce = sig.nonce
        /\ e.requireNonce => m.over.nonce # ""
        /\ m.over.digest = digest /\ Keyed /\ sig.ts # NoValue /\ Timely
  BY DEF Entitled
<1>3. InspectHMACSign(e, req) = Pass <=>
        /\ sig # NoValue /\ sig.hex
        /\ sig.ts # NoValue /\ req.now - sig.ts \in (- SetWindow) .. SetWindow
        /\ e.requireNonce => sig.nonce # ""
        /\ secret # NoValue /\ m = [key |-> secret, over |-> canonical]
        /\ ~sig.seen
  BY Zenon, PassOrBlock DEF InspectHMACSign
<1>4. sig # NoValue =>
        /\ sig.ts # NoValue => sig.ts \in Int
        /\ m = [key |-> m.key, over |-> [path |-> m.over.path, ts |-> m.over.ts,
                                         nonce |-> m.over.nonce, digest |-> m.over.digest]]
  BY Zenon DEF IsMAC
<1>5. (secret # NoValue /\ m.key = secret) <=> Keyed
  BY Zenon, <1>1 DEF SecretFor
<1>6. ASSUME sig # NoValue, sig.ts # NoValue
      PROVE  req.now - sig.ts \in (- SetWindow) .. SetWindow <=> Timely
  <2> DEFINE a == req.now
             b == sig.ts
  <2>1. a \in Int /\ b \in Int /\ SetWindow \in Nat
    BY Zenon, <1>4, <1>6, KeysAssumption
  <2> HIDE DEF a, b
  <2>2. a - b \in (- SetWindow) .. SetWindow <=> b <= a + SetWindow /\ a <= b + SetWindow
    BY <2>1
  <2> QED BY Zenon, <2>2 DEF a, b
<1> HIDE DEF Timely, Keyed, digest, secret
<1>7. ASSUME sig # NoValue
      PROVE  m = [key |-> secret, over |-> canonical] <=>
               /\ m.key = secret /\ m.over.path = req.path /\ m.over.ts = sig.ts
               /\ m.over.nonce = sig.nonce /\ m.over.digest = digest
  <2> DEFINE k == m.key
             p == m.over.path
             t == m.over.ts
             n == m.over.nonce
             d == m.over.digest
             path == req.path
             ts == sig.ts
             nonce == sig.nonce
  <2>1. m = [key |-> k, over |-> [path |-> p, ts |-> t, nonce |-> n, digest |-> d]]
    BY Zenon, <1>4, <1>7
  <2>2. canonical = [path |-> path, ts |-> ts, nonce |-> nonce, digest |-> digest]
    BY Zenon
  <2> HIDE DEF k, p, t, n, d, path, ts, nonce, m, canonical
  <2>3. [key |-> k, over |-> [path |-> p, ts |-> t, nonce |-> n, digest |-> d]]
          = [key |-> secret, over |-> [path |-> path, ts |-> ts, nonce |-> nonce, digest |-> digest]]
          <=> k = secret /\ p = path /\ t = ts /\ n = nonce /\ d = digest
    BY MACsEqual
  <2>4. m = [key |-> secret, over |-> canonical]
          <=> k = secret /\ p = path /\ t = ts /\ n = nonce /\ d = digest
    BY Zenon, <2>1, <2>2, <2>3
  <2> QED BY Zenon, <2>4 DEF k, p, t, n, d, path, ts, nonce
<1> HIDE DEF canonical, m
<1>8. (secret # NoValue /\ m.key = secret) <=> Keyed
  BY Zenon, <1>5 DEF m
<1> QED BY Zenon, <1>2, <1>3, <1>6, <1>7, <1>8

LEMMA HTTPSigEntitled ==
  ASSUME NEW e, NEW req, NEW truth, IsEngine(e), req.content # NoValue, e.kind = "http_signature"
  PROVE  InspectHTTPSig(e, req) = Pass <=> Entitled(e, req, truth)
<1> DEFINE sig == req.hsig
<1>1. e.covered \subseteq {"path", "digest"}
  BY DEF IsEngine
<1>2. Entitled(e, req, truth) <=>
        /\ sig # NoValue /\ sig.key = e.key
        /\ e.covered \subseteq DOMAIN sig.over
        /\ "path" \in e.covered => sig.over["path"] = req.path
        /\ "digest" \in e.covered => sig.over["digest"] = req.content /\ req.digest = req.content
  BY DEF Entitled
<1>3. InspectHTTPSig(e, req) = Pass <=>
        /\ sig # NoValue /\ sig.key = e.key
        /\ \A c \in e.covered : c \in DOMAIN sig.over /\ sig.over[c] = Component(req, c)
        /\ "digest" \in e.covered => req.digest # NoValue /\ req.digest = req.content
  BY Zenon, PassOrBlock DEF InspectHTTPSig
<1>4. Component(req, "path") = req.path /\ Component(req, "digest") = req.digest
  BY DEF Component
<1> QED BY Zenon, <1>1, <1>2, <1>3, <1>4

LEMMA IPEntitled ==
  ASSUME NEW e, NEW req, NEW truth, e.kind = "ip_reputation"
  PROVE  InspectIPReputation(e, req).action # "error" =>
           (InspectIPReputation(e, req) = Pass <=> Entitled(e, req, truth))
<1> DEFINE host == req.ip.host
           geo == e.geo
           rec == geo.lookup[host]
           v == InspectIPReputation(e, req)
<1>1. Entitled(e, req, truth) <=>
        IF req.ip = NoValue THEN e.allow = {}
        ELSE /\ host \notin e.deny
             /\ e.allow # {} => host \in e.allow
             /\ e.allow = {} => host \notin DOMAIN e.feeds /\ (e.geo # NoValue => GeoAdmits(e.geo, host))
  BY DEF Entitled
<1>2. GeoVerdict(geo, host).action # "error" => (GeoVerdict(geo, host) = Pass <=> GeoAdmits(geo, host))
  <2> DEFINE g == GeoVerdict(geo, host)
  <2>1. CASE rec = NoValue
    <3>1. g = Failed
      BY Zenon, <2>1 DEF GeoVerdict
    <3> QED BY Zenon, <3>1, PassOrBlock
  <2>2. CASE rec # NoValue /\ rec.country = "" /\ rec.asn = 0
    <3>1. g = Pass <=> ~geo.blockOnMissing /\ geo.allow = {}
      BY Zenon, <2>2, PassOrBlock DEF GeoVerdict
    <3>2. GeoAdmits(geo, host) <=> geo.allow = {} /\ ~geo.blockOnMissing
      BY Zenon, <2>2 DEF GeoAdmits
    <3> QED BY Zenon, <3>1, <3>2
  <2>3. CASE rec # NoValue /\ ~(rec.country = "" /\ rec.asn = 0)
    <3>1. g = Pass <=> ~(\/ rec.country # "" /\ rec.country \in geo.block
                         \/ geo.allow # {} /\ (rec.country = "" \/ rec.country \notin geo.allow)
                         \/ rec.asn # 0 /\ rec.asn \in geo.blockASN)
      BY Zenon, <2>3, PassOrBlock DEF GeoVerdict
    <3>2. GeoAdmits(geo, host) <=>
            /\ geo.allow # {} => rec.country # "" /\ rec.country \in geo.allow
            /\ rec.country # "" => rec.country \notin geo.block
            /\ rec.asn # 0 => rec.asn \notin geo.blockASN
      BY Zenon, <2>3 DEF GeoAdmits
    <3> QED BY Zenon, <3>1, <3>2
  <2> QED BY Zenon, <2>1, <2>2, <2>3
<1>3. CASE req.ip = NoValue
  BY Zenon, <1>1, <1>3, PassOrBlock DEF InspectIPReputation
<1>4. CASE req.ip # NoValue /\ (host \in e.deny \/ e.allow # {})
  BY Zenon, <1>1, <1>4, PassOrBlock DEF InspectIPReputation
<1>5. CASE req.ip # NoValue /\ host \notin e.deny /\ e.allow = {} /\ host \in DOMAIN e.feeds
  BY Zenon, <1>1, <1>5, PassOrBlock DEF InspectIPReputation
<1>6. CASE req.ip # NoValue /\ host \notin e.deny /\ e.allow = {} /\ host \notin DOMAIN e.feeds
  <2>1. v = IF geo # NoValue THEN GeoVerdict(geo, host) ELSE Pass
    BY Zenon, <1>6 DEF InspectIPReputation
  <2> QED BY Zenon, <1>1, <1>2, <1>6, <2>1
<1> QED BY Zenon, <1>3, <1>4, <1>5, <1>6
=============================================================================
