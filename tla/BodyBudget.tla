----------------------------- MODULE BodyBudget -----------------------------
(***************************************************************************)
(* The process-wide body budget of internal/server/extproc/budget.go, and  *)
(* everything the streams do to it: buffering a chunk (appendBody), the    *)
(* decode stage's charge (Transaction.ReserveBody), DLP redaction, the     *)
(* release when the response begins and the release when a stream ends.    *)
(*                                                                         *)
(* Acquire is a compare-and-swap loop, so its load and its swap are two    *)
(* steps other streams interleave with.  Everything else a handler does    *)
(* between two accesses to the shared counter is local to the stream and   *)
(* belongs to the step of that access.  Bodies are their lengths.          *)
(***************************************************************************)
EXTENDS Integers, FiniteSets

CONSTANTS Streams,      \* the ext_proc streams (goroutines) of the process
          Limit,        \* --max-inflight-body-bytes; <= 0 disables the budget
          MaxBody,      \* the per-request cap bodyLimit returns
          MaxDecoded,   \* maxDecodedBodyBytes, and the bound on a redacted body
          ChunkLens,    \* lengths a body message may have
          MaxReceived   \* bound: body bytes received per direction of a stream

ASSUME BudgetAssumption ==
  /\ IsFiniteSet(Streams)
  /\ Limit \in Int
  /\ MaxBody \in Nat \ {0}
  /\ MaxDecoded \in Nat
  /\ ChunkLens \subseteq Nat \ {0}
  /\ MaxReceived \in Nat

VARIABLES inUse,     \* bodyBudget.inUse
          pc,        \* where the stream's goroutine is
          purpose,   \* what the pending Acquire is for: a chunk, or decoded bytes
          want,      \* the pending Acquire's n
          loaded,    \* its copy of inUse (cur in Acquire)
          grant,     \* bytes it was granted and has not yet booked
          reserved,  \* Transaction.bodyReserved
          body,      \* len(Transaction.body)
          truncated, \* Transaction.bodyTruncated
          received,  \* bytes the peer sent in this direction (history)
          rewritten  \* body replaced since: "no", "decoded", "redacted" (history)

txVars == <<reserved, body, truncated, received, rewritten>>
acqVars == <<purpose, want, loaded, grant>>
vars == <<inUse, pc, acqVars, txVars>>

Enabled == Limit > 0

Least(a, b) == IF a <= b THEN a ELSE b

(* Mutant of AfterRelease: the refund is forgotten. *)
LostRelease(n) == inUse

(* What Release(n) leaves in the counter: nothing changes when disabled. *)
AfterRelease(n) == IF Enabled THEN inUse - n ELSE inUse

Init ==
  /\ inUse = 0
  /\ pc = [s \in Streams |-> "idle"]
  /\ purpose = [s \in Streams |-> "chunk"]
  /\ want = [s \in Streams |-> 0]
  /\ loaded = [s \in Streams |-> 0]
  /\ grant = [s \in Streams |-> 0]
  /\ reserved = [s \in Streams |-> 0]
  /\ body = [s \in Streams |-> 0]
  /\ truncated = [s \in Streams |-> FALSE]
  /\ received = [s \in Streams |-> 0]
  /\ rewritten = [s \in Streams |-> "no"]

-----------------------------------------------------------------------------
(* Process: a stream takes a clean Transaction from the pool. *)
Open(s) ==
  /\ pc[s] = "idle"
  /\ pc' = [pc EXCEPT ![s] = "open"]
  /\ UNCHANGED <<inUse, acqVars, txVars>>

(* A handler calls Acquire(n). *)
CallAcquire(s, n, why) ==
  /\ pc[s] = "open"
  /\ pc' = [pc EXCEPT ![s] = "load"]
  /\ purpose' = [purpose EXCEPT ![s] = why]
  /\ want' = [want EXCEPT ![s] = n]
  /\ UNCHANGED <<inUse, loaded, grant>>

(* appendBody is entered with a non-empty chunk. *)
BodyMessage(s, n) ==
  /\ received[s] + n <= MaxReceived
  /\ CallAcquire(s, n, "chunk")
  /\ received' = [received EXCEPT ![s] = @ + n]
  /\ UNCHANGED <<reserved, body, truncated, rewritten>>

(* bodyContentDecode decoded the buffer to `len` bytes: growth is charged    *)
(* first, anything else replaces the buffer at once.                         *)
DecodeBody(s, len) ==
  /\ body[s] > 0
  /\ \/ /\ len > body[s]
        /\ CallAcquire(s, len - body[s], "decoded")
        /\ UNCHANGED txVars
     \/ /\ len <= body[s]
        /\ pc[s] = "open"
        /\ body' = [body EXCEPT ![s] = len]
        /\ rewritten' = [rewritten EXCEPT ![s] = IF @ = "redacted" THEN @ ELSE "decoded"]
        /\ UNCHANGED <<inUse, pc, acqVars, reserved, truncated, received>>

(* Acquire: load the counter and compute what is available.  A disabled      *)
(* budget grants everything, an exhausted one nothing.                       *)
Load(s) ==
  /\ pc[s] = "load"
  /\ IF Enabled /\ inUse < Limit
       THEN /\ loaded' = [loaded EXCEPT ![s] = inUse]
            /\ pc' = [pc EXCEPT ![s] = "cas"]
            /\ UNCHANGED grant
       ELSE /\ grant' = [grant EXCEPT ![s] = IF Enabled THEN 0 ELSE want[s]]
            /\ pc' = [pc EXCEPT ![s] = "granted"]
            /\ UNCHANGED loaded
  /\ UNCHANGED <<inUse, purpose, want, txVars>>

(* Mutant of Unchanged: a plain store for the swap. *)
BlindStore(s) == TRUE

(* The compare of CompareAndSwap: nobody changed the counter since the load. *)
Unchanged(s) == inUse = loaded[s]

(* Mutant of CompareAndSwap: an atomic add of a grant computed earlier. *)
BlindAdd(s) ==
  /\ pc[s] = "cas"
  /\ grant' = [grant EXCEPT ![s] = Least(want[s], Limit - loaded[s])]
  /\ inUse' = inUse + grant'[s]
  /\ pc' = [pc EXCEPT ![s] = "granted"]
  /\ UNCHANGED <<purpose, want, loaded, txVars>>

(* Mutant of CompareAndSwap: the load is hoisted out of the loop, so a failed *)
(* swap is retried with the stale value.                                     *)
StaleRetry(s) ==
  /\ pc[s] = "cas"
  /\ IF Unchanged(s)
       THEN /\ grant' = [grant EXCEPT ![s] = Least(want[s], Limit - loaded[s])]
            /\ inUse' = loaded[s] + grant'[s]
            /\ pc' = [pc EXCEPT ![s] = "granted"]
       ELSE UNCHANGED <<inUse, grant, pc>>
  /\ UNCHANGED <<purpose, want, loaded, txVars>>

(* Acquire: swap in the loaded value plus the grant, or go round again. *)
CompareAndSwap(s) ==
  /\ pc[s] = "cas"
  /\ IF Unchanged(s)
       THEN /\ grant' = [grant EXCEPT ![s] = Least(want[s], Limit - loaded[s])]
            /\ inUse' = loaded[s] + grant'[s]
            /\ pc' = [pc EXCEPT ![s] = "granted"]
       ELSE /\ pc' = [pc EXCEPT ![s] = "load"]
            /\ UNCHANGED <<inUse, grant>>
  /\ UNCHANGED <<purpose, want, loaded, txVars>>

(* Back in the stream's message loop: Acquire's locals are gone. *)
Return(s) ==
  /\ pc' = [pc EXCEPT ![s] = "open"]
  /\ purpose' = [purpose EXCEPT ![s] = "chunk"]
  /\ want' = [want EXCEPT ![s] = 0]
  /\ loaded' = [loaded EXCEPT ![s] = 0]
  /\ grant' = [grant EXCEPT ![s] = 0]

(* The bytes AppendBody takes of a grant under the per-request cap. *)
Stored(s) == Least(grant[s], IF body[s] < MaxBody THEN MaxBody - body[s] ELSE 0)

(* Mutant of CutShort: only the per-request cap marks a body truncated. *)
CutByCap(s) == Stored(s) < grant[s]

(* The cap took less than was granted, or the budget granted less than asked. *)
CutShort(s) == Stored(s) < grant[s] \/ grant[s] < want[s]

(* appendBody after Acquire: store, book what was stored, return the rest,   *)
(* and mark the body truncated when the cap or the budget cut it short.      *)
AppendBody(s) ==
  /\ pc[s] = "granted" /\ purpose[s] = "chunk"
  /\ body' = [body EXCEPT ![s] = @ + Stored(s)]
  /\ reserved' = [reserved EXCEPT ![s] = @ + Stored(s)]
  /\ inUse' = AfterRelease(grant[s] - Stored(s))
  /\ truncated' = [truncated EXCEPT ![s] = @ \/ CutShort(s)]
  /\ Return(s)
  /\ UNCHANGED <<received, rewritten>>

(* Mutant of FullyGranted: the decode stage ignores ReserveBody's result. *)
AnyGrant(s) == TRUE

(* ReserveBody's result: the whole growth was granted. *)
FullyGranted(s) == grant[s] = want[s]

(* ReserveBody after Acquire: book the grant; only a full one lets the       *)
(* decoded bytes replace the buffer.                                         *)
ReplaceBody(s) ==
  /\ pc[s] = "granted" /\ purpose[s] = "decoded"
  /\ reserved' = [reserved EXCEPT ![s] = @ + grant[s]]
  /\ IF FullyGranted(s)
       THEN /\ body' = [body EXCEPT ![s] = @ + want[s]]
            /\ rewritten' = [rewritten EXCEPT ![s] = IF @ = "redacted" THEN @ ELSE "decoded"]
       ELSE UNCHANGED <<body, rewritten>>
  /\ Return(s)
  /\ UNCHANGED <<inUse, truncated, received>>

(* MutateBody: DLP redaction swaps the buffer for one of another length. *)
MutateBody(s, len) ==
  /\ pc[s] = "open"
  /\ body[s] > 0
  /\ body' = [body EXCEPT ![s] = len]
  /\ rewritten' = [rewritten EXCEPT ![s] = "redacted"]
  /\ UNCHANGED <<inUse, pc, acqVars, reserved, truncated, received>>

(* Mutant of ClearBody: the reservation survives its release. *)
KeepReservation(s) ==
  /\ body' = [body EXCEPT ![s] = 0]
  /\ truncated' = [truncated EXCEPT ![s] = FALSE]
  /\ received' = [received EXCEPT ![s] = 0]
  /\ rewritten' = [rewritten EXCEPT ![s] = "no"]
  /\ UNCHANGED reserved

(* The per-direction state both BeginResponse and Reset clear. *)
ClearBody(s) ==
  /\ reserved' = [reserved EXCEPT ![s] = 0]
  /\ body' = [body EXCEPT ![s] = 0]
  /\ truncated' = [truncated EXCEPT ![s] = FALSE]
  /\ received' = [received EXCEPT ![s] = 0]
  /\ rewritten' = [rewritten EXCEPT ![s] = "no"]

(* Response headers: the request body's reservation is returned. *)
BeginResponse(s) ==
  /\ pc[s] = "open"
  /\ inUse' = AfterRelease(reserved[s])
  /\ ClearBody(s)
  /\ UNCHANGED <<pc, acqVars>>

(* Process returns: the deferred Release runs before pool.Release resets tx. *)
EndStream(s) ==
  /\ pc[s] = "open"
  /\ inUse' = AfterRelease(reserved[s])
  /\ ClearBody(s)
  /\ pc' = [pc EXCEPT ![s] = "idle"]
  /\ UNCHANGED acqVars

Acquire(s) == Load(s) \/ CompareAndSwap(s)

Next ==
  \E s \in Streams :
    \/ Open(s)
    \/ \E n \in ChunkLens : BodyMessage(s, n)
    \/ \E len \in 0..MaxDecoded : DecodeBody(s, len)
    \/ Acquire(s)
    \/ AppendBody(s)
    \/ ReplaceBody(s)
    \/ \E len \in 0..MaxDecoded : MutateBody(s, len)
    \/ BeginResponse(s)
    \/ EndStream(s)

(* Goroutines inside Acquire keep being scheduled; what the peer sends, and  *)
(* when it ends a stream, is up to the peer.                                 *)
Spec == Init /\ [][Next]_vars /\ \A s \in Streams : WF_vars(Acquire(s))

-----------------------------------------------------------------------------
(* One pair per byte a stream has booked or was just granted. *)
Held(s) == reserved[s] + grant[s]
ChargedBytes == UNION {{s} \X (1..Held(s)) : s \in Streams}

(* Types of the shared counter and of the per-stream bookkeeping. *)
TypeOK ==
  /\ inUse \in Nat
  /\ pc \in [Streams -> {"idle", "open", "load", "cas", "granted"}]
  /\ purpose \in [Streams -> {"chunk", "decoded"}]
  /\ want \in [Streams -> Nat]
  /\ loaded \in [Streams -> Nat]
  /\ grant \in [Streams -> Nat]
  /\ reserved \in [Streams -> Nat]
  /\ body \in [Streams -> Nat]
  /\ truncated \in [Streams -> BOOLEAN]
  /\ received \in [Streams -> Nat]
  /\ rewritten \in [Streams -> {"no", "decoded", "redacted"}]

(* Where a stream stands between two accesses to the counter: what a grant   *)
(* may be, what is booked for the buffer, and which received bytes are still *)
(* on their way into it.                                                     *)
StreamInv(s) ==
  /\ pc[s] # "granted" => grant[s] = 0
  /\ pc[s] \in {"idle", "open"} => purpose[s] = "chunk" /\ want[s] = 0
  /\ pc[s] = "cas" => Enabled /\ loaded[s] < Limit
  /\ pc[s] = "granted" => grant[s] <= want[s]
  /\ rewritten[s] # "redacted" => body[s] <= reserved[s]
  /\ ~truncated[s] /\ rewritten[s] = "no" =>
       received[s] = body[s] + (IF purpose[s] = "chunk" THEN want[s] ELSE 0)

(* Whatever the interleaving of CAS loops, refunds and stream ends, the      *)
(* counter is exactly the bytes the streams hold: no release is lost, done   *)
(* twice or done for bytes that were never acquired (budget.go Acquire and   *)
(* Release, appendBody's refund, BeginResponse, the deferred release).       *)
Accounted == Enabled => inUse = Cardinality(ChargedBytes)

(* The inductive invariant behind the safety properties. *)
IInv ==
  /\ TypeOK
  /\ \A s \in Streams : StreamInv(s)
  /\ IsFiniteSet(ChargedBytes)
  /\ Accounted
  /\ Enabled => inUse <= Limit

(* The bytes all streams hold together never exceed the configured limit     *)
(* (budget.go: "bounds the total request/response body bytes").              *)
WithinLimit == Enabled => Cardinality(ChargedBytes) <= Limit

(* A buffer that was not redacted is never larger than what its stream has   *)
(* booked, so the bound above really bounds resident bodies (appendBody and  *)
(* the decode stage charge before they store).                               *)
ResidentIsCharged ==
  \A s \in Streams : rewritten[s] # "redacted" => body[s] <= reserved[s]

(* A body that is neither marked truncated nor rewritten holds every byte    *)
(* the peer sent: a short grant never passes for a complete body             *)
(* (appendBody's two SetBodyTruncated calls).                                *)
NoSilentTruncation ==
  \A s \in Streams :
    pc[s] = "open" /\ ~truncated[s] /\ rewritten[s] = "no" => body[s] = received[s]

(* Lock freedom of the CAS loop: while reservations are pending, one of them *)
(* completes, because every failed swap means another stream got through.    *)
AcquireLockFree ==
  (\E s \in Streams : pc[s] \in {"load", "cas"}) ~> (\E s \in Streams : pc[s] = "granted")

(* The CAS loop and all its callers do no more than an atomic allocator      *)
(* would: bytes are granted only out of what is free at that instant and     *)
(* returned only by their holder.                                            *)
Atomic == INSTANCE AtomicBudget WITH held <- [s \in Streams |-> Held(s)]
ImplementsAtomic == Atomic!Spec
=============================================================================
