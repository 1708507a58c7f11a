--------------------------- MODULE ResourceProofs ---------------------------
(***************************************************************************)
(* What the process holds and gives back: the events on their way to the   *)
(* sink (AuditTrail), the snapshots of the configuration                   *)
(* (SnapshotLifecycle) and the memory for bodies (BodyBudget).             *)
(***************************************************************************)
EXTENDS AuditTrail, SnapshotLifecycle, BodyBudget, FiniteSetTheorems, TLAPS

-----------------------------------------------------------------------------
(* AuditTrail: the books balance, for every number of events and workers,    *)
(* every queue capacity and every batch size.                                *)
(*                                                                           *)
(* Conserved is a sum, so it is kept only if every step moves exactly as     *)
(* much as it says.  That needs two more facts: an event is in one place     *)
(* at a time (Once), so that sets grow by what is added to them, and a       *)
(* goroutine starts a send only with nothing left to send (Hands), so that   *)
(* a detached batch never replaces another.                                  *)

(* An event is in the queue once, or with one worker, or staged, or in one   *)
(* detached batch, or saved, and only after its Export call returned.       *)
Once ==
  /\ \A e \in Events : InTransit(e) \/ e \in saved => call[e] = "over"
  /\ \A i, j \in 1..Len(queue) : queue[i] = queue[j] => i = j
  /\ \A i \in 1..Len(queue) :
       /\ queue[i] \notin Rows /\ queue[i] \notin saved
       /\ \A w \in Workers : ev[w] # queue[i]
       /\ \A g \in Goroutines : queue[i] \notin out[g]
  /\ \A w \in Workers : ev[w] # None =>
       /\ ev[w] \notin Rows /\ ev[w] \notin saved
       /\ \A x \in Workers : x # w => ev[x] # ev[w]
       /\ \A g \in Goroutines : ev[w] \notin out[g]
  /\ \A g \in Goroutines : \A e \in out[g] :
       /\ e \notin Rows /\ e \notin saved
       /\ \A h \in Goroutines : h # g => e \notin out[h]
  /\ \A e \in Rows : e \notin saved

(* e.pending counts the staged rows; who exports or flushes sends nothing. *)
Hands ==
  /\ pending = Cardinality(Rows)
  /\ \A w \in Workers : ev[w] # None => out[w] = {}
  /\ main \in {"serving", "draining", "stopping"} => out[Main] = {}

(* Conserved, with a name for each number of events. *)
nOver == Cardinality(Over)
nStored == Cardinality(saved)
nQueue == Len(queue)
nHeld == Cardinality(InHand)
nRows == Cardinality(Rows)
nOut == Cardinality(InFlight)

Ledger == nOver = nStored + dropped + failed + rowsDropped + nQueue + nHeld + nRows + nOut

ATInv == ATTypeOK /\ Once /\ Hands /\ Ledger

-----------------------------------------------------------------------------
(* Every sum is over finite sets. *)
LEMMA Parts ==
  ASSUME ATTypeOK
  PROVE  /\ IsFiniteSet(Over) /\ IsFiniteSet(InHand) /\ IsFiniteSet(Rows) /\ IsFiniteSet(InFlight)
         /\ IsFiniteSet(saved)
         /\ Cardinality(Over) \in Nat /\ Cardinality(InHand) \in Nat /\ Cardinality(Rows) \in Nat
         /\ Cardinality(InFlight) \in Nat /\ Cardinality(saved) \in Nat
         /\ Len(queue) \in Nat /\ dropped \in Nat /\ failed \in Nat /\ rowsDropped \in Nat
         /\ pending \in Nat
         /\ Rows \subseteq Events
  <1>1. IsFiniteSet(Events) /\ IsFiniteSet(Workers) /\ None \notin Events
    BY Zenon, AuditAssumption
  <1>2. IsFiniteSet(Goroutines)
    <2>1. IsFiniteSet(Workers \cup {Ticker})
      BY Zenon, <1>1, FS_AddElement
    <2>2. IsFiniteSet((Workers \cup {Ticker}) \cup {Main})
      BY Zenon, <2>1, FS_AddElement
    <2>3. Goroutines = (Workers \cup {Ticker}) \cup {Main}
      BY Zenon DEF Goroutines
    <2> QED
      BY Zenon, <2>2, <2>3
  <1>3. IsFiniteSet(Goroutines \X Events)
    BY Zenon, <1>1, <1>2, FS_Product
  <1>4. Rows \subseteq Events
    BY Zenon DEF ATTypeOK, Rows, NoBatch
  <1>5. Over \in SUBSET Events /\ InHand \in SUBSET Workers /\ InFlight \in SUBSET (Goroutines \X Events)
    BY Zenon DEF Over, InHand, InFlight
  <1>6. saved \in SUBSET Events /\ Rows \in SUBSET Events
    BY Zenon, <1>4 DEF ATTypeOK
  <1>7. /\ IsFiniteSet(Over) /\ IsFiniteSet(InHand) /\ IsFiniteSet(Rows) /\ IsFiniteSet(InFlight)
        /\ IsFiniteSet(saved)
    BY Zenon, <1>1, <1>3, <1>5, <1>6, FS_Subset
  <1>8. queue \in Seq(Events) /\ dropped \in Nat /\ failed \in Nat /\ rowsDropped \in Nat
    BY Zenon DEF ATTypeOK
  <1>9. pending \in Nat
    BY AuditAssumption DEF ATTypeOK
  <1> QED
    BY <1>4, <1>7, <1>8, <1>9, FS_CardinalityType

LEMMA Sums ==
  ASSUME ATInv
  PROVE  /\ nOver \in Nat /\ nStored \in Nat /\ nQueue \in Nat /\ nHeld \in Nat /\ nRows \in Nat
         /\ nOut \in Nat /\ dropped \in Nat /\ failed \in Nat /\ rowsDropped \in Nat
         /\ nOver = nStored + dropped + failed + rowsDropped + nQueue + nHeld + nRows + nOut
  <1>1. Ledger /\ ATTypeOK
    BY Zenon DEF ATInv
  <1>2. /\ nOver \in Nat /\ nStored \in Nat /\ nQueue \in Nat /\ nHeld \in Nat /\ nRows \in Nat
        /\ nOut \in Nat /\ dropped \in Nat /\ failed \in Nat /\ rowsDropped \in Nat
    BY Zenon, <1>1, Parts DEF nOver, nStored, nQueue, nHeld, nRows, nOut
  <1> QED
    BY Zenon, <1>1, <1>2 DEF Ledger

(* An event whose Export returns. *)
LEMMA OverGains ==
  ASSUME ATTypeOK, NEW e \in Events, call[e] # "over", call' = [call EXCEPT ![e] = "over"]
  PROVE  nOver' = nOver + 1
  <1>1. Over' = Over \cup {e} /\ e \notin Over
    BY Zenon DEF ATTypeOK, Over
  <1>2. Cardinality(Over \cup {e}) = Cardinality(Over) + 1
    BY Zenon, <1>1, Parts, FS_AddElement
  <1> QED
    BY Zenon, <1>1, <1>2 DEF nOver

(* A worker that takes an event, and one that is done with its event. *)
LEMMA HeldGains ==
  ASSUME ATTypeOK, NEW w \in Workers, ev[w] = None, NEW e \in Events, ev' = [ev EXCEPT ![w] = e]
  PROVE  nHeld' = nHeld + 1
  <1>1. InHand' = InHand \cup {w} /\ w \notin InHand
    BY AuditAssumption DEF ATTypeOK, InHand
  <1>2. Cardinality(InHand \cup {w}) = Cardinality(InHand) + 1
    BY Zenon, <1>1, Parts, FS_AddElement
  <1> QED
    BY Zenon, <1>1, <1>2 DEF nHeld

LEMMA HeldLoses ==
  ASSUME ATTypeOK, NEW w \in Workers, ev[w] # None, ev' = [ev EXCEPT ![w] = None]
  PROVE  nHeld' = nHeld - 1
  <1>1. InHand' = InHand \ {w} /\ w \in InHand
    BY Zenon DEF ATTypeOK, InHand
  <1>2. Cardinality(InHand \ {w}) = Cardinality(InHand) - 1
    BY Zenon, <1>1, Parts, FS_RemoveElement
  <1> QED
    BY Zenon, <1>1, <1>2 DEF nHeld

(* A goroutine whose detached batch changes from nothing, or to nothing. *)
LEMMA Alone ==
  ASSUME NEW g, NEW S \in SUBSET Events
  PROVE  IsFiniteSet({g} \X S) /\ Cardinality({g} \X S) = Cardinality(S) /\ Cardinality(S) \in Nat
  <1>1. IsFiniteSet(S)
    BY Zenon, AuditAssumption, FS_Subset
  <1>2. IsFiniteSet({g}) /\ Cardinality({g}) = 1
    BY Zenon, FS_Singleton
  <1>3. IsFiniteSet({g} \X S) /\ Cardinality({g} \X S) = Cardinality({g}) * Cardinality(S)
    BY Zenon, <1>1, <1>2, FS_Product
  <1>4. Cardinality(S) \in Nat
    BY Zenon, <1>1, FS_CardinalityType
  <1> QED
    BY <1>2, <1>3, <1>4

LEMMA OutGains ==
  ASSUME ATTypeOK, NEW g \in Goroutines, out[g] = {}, NEW S \in SUBSET Events,
         out' = [out EXCEPT ![g] = S]
  PROVE  nOut' = nOut + Cardinality(S)
  <1>1. InFlight' = InFlight \cup ({g} \X S) /\ InFlight \cap ({g} \X S) = {}
    BY DEF ATTypeOK, InFlight
  <1>2. /\ IsFiniteSet({g} \X S) /\ Cardinality({g} \X S) = Cardinality(S) /\ Cardinality(S) \in Nat
        /\ IsFiniteSet(InFlight) /\ Cardinality(InFlight) \in Nat
    BY Zenon, Alone, Parts
  <1>3. Cardinality(InFlight \cup ({g} \X S)) =
          Cardinality(InFlight) + Cardinality({g} \X S) - Cardinality(InFlight \cap ({g} \X S))
    BY Zenon, <1>2, FS_Union
  <1>4. Cardinality(InFlight \cap ({g} \X S)) = 0
    BY Zenon, <1>1, FS_EmptySet
  <1> QED
    BY <1>1, <1>2, <1>3, <1>4 DEF nOut

LEMMA OutLoses ==
  ASSUME ATTypeOK, NEW g \in Goroutines, out' = [out EXCEPT ![g] = {}]
  PROVE  nOut' = nOut - Cardinality(out[g])
  <1>0. out[g] \in SUBSET Events
    BY Zenon DEF ATTypeOK
  <1>1. InFlight = InFlight' \cup ({g} \X out[g]) /\ InFlight' \cap ({g} \X out[g]) = {}
    BY Zenon DEF ATTypeOK, InFlight
  <1>2. /\ IsFiniteSet({g} \X out[g]) /\ Cardinality({g} \X out[g]) = Cardinality(out[g])
        /\ Cardinality(out[g]) \in Nat /\ IsFiniteSet(InFlight)
    BY Zenon, <1>0, Alone, Parts
  <1>3. InFlight' \in SUBSET InFlight
    BY Zenon, <1>1
  <1>4. IsFiniteSet(InFlight')
    BY Zenon, <1>2, <1>3, FS_Subset
  <1>5. Cardinality(InFlight') \in Nat
    BY Zenon, <1>4, FS_CardinalityType
  <1>6. Cardinality(InFlight' \cup ({g} \X out[g])) =
          Cardinality(InFlight') + Cardinality({g} \X out[g]) - Cardinality(InFlight' \cap ({g} \X out[g]))
    BY Zenon, <1>2, <1>4, FS_Union
  <1>7. Cardinality(InFlight' \cap ({g} \X out[g])) = 0
    BY Zenon, <1>1, FS_EmptySet
  <1> QED
    BY <1>1, <1>2, <1>5, <1>6, <1>7 DEF nOut

-----------------------------------------------------------------------------
LEMMA ATInvInitially ==
  ASSUME ATInit
  PROVE  ATInv
  <1>1. ATTypeOK
    <2>1. 0 \in 0..BatchSize-1
      BY AuditAssumption
    <2>2. queue \in Seq(Events) /\ Len(queue) = 0 /\ 0 <= QueueCap
      BY AuditAssumption DEF ATInit
    <2> QED
      BY Zenon, <2>1, <2>2 DEF ATInit, ATTypeOK
  <1>2. Rows = {} /\ InHand = {} /\ InFlight = {} /\ Over = {} /\ saved = {}
    BY Zenon DEF ATInit, Rows, NoBatch, InHand, InFlight, Over
  <1>3. Once
    <2>1. 1..Len(queue) = {}
      BY DEF ATInit
    <2>2. (\A w \in Workers : ev[w] = None) /\ (\A g \in Goroutines : out[g] = {})
      BY Zenon DEF ATInit
    <2>3. \A e \in Events : ~InTransit(e) /\ e \notin saved
      BY Zenon, <1>2, <2>1, <2>2, AuditAssumption DEF InTransit, Queued
    <2> QED
      BY Zenon, <1>2, <2>1, <2>2, <2>3 DEF Once
  <1>4. Hands
    <2>1. pending = Cardinality(Rows)
      BY Zenon, <1>2, FS_EmptySet DEF ATInit
    <2>2. Main \in Goroutines /\ \A w \in Workers : w \in Goroutines
      BY Zenon DEF Goroutines
    <2> QED
      BY Zenon, <2>1, <2>2 DEF ATInit, Hands
  <1>5. Ledger
    <2>1. /\ nOver = 0 /\ nStored = 0 /\ nQueue = 0 /\ nHeld = 0 /\ nRows = 0 /\ nOut = 0
          /\ dropped = 0 /\ failed = 0 /\ rowsDropped = 0
      BY Zenon, <1>2, FS_EmptySet DEF ATInit, nOver, nStored, nQueue, nHeld, nRows, nOut
    <2> QED
      BY <2>1 DEF Ledger
  <1> QED
    BY Zenon, <1>1, <1>3, <1>4, <1>5 DEF ATInv

(* The steps that only move a goroutine through its own control flow. *)
LEMMA ControlKeeps ==
  ASSUME ATInv,
         \/ \E w \in Workers : SeeDone(w) \/ Exit(w)
         \/ FlushLoopStops \/ CloseBuffer \/ StopFlushLoop \/ UNCHANGED atvars
  PROVE  ATInv'
  <1>1. UNCHANGED <<call, queue, ev, batch, pending, stuck, out, saved, dropped, failed, rowsDropped>>
    BY Zenon DEF SeeDone, Exit, FlushLoopStops, CloseBuffer, StopFlushLoop, atvars, inVars, sinkVars, counters
  <1>2. ATTypeOK'
    <2>1. done' \in BOOLEAN /\ ticker' \in BOOLEAN
      BY Zenon DEF ATInv, ATTypeOK, SeeDone, Exit, FlushLoopStops, CloseBuffer, StopFlushLoop, atvars, inVars
    <2>2. main' \in {"serving", "flushed", "draining", "stopping", "closed"}
      BY Zenon DEF ATInv, ATTypeOK, SeeDone, Exit, FlushLoopStops, CloseBuffer, StopFlushLoop, atvars
    <2>3. mode' \in [Workers -> {"run", "drain", "gone"}]
      BY Zenon DEF ATInv, ATTypeOK, SeeDone, Exit, FlushLoopStops, CloseBuffer, StopFlushLoop, atvars
    <2> QED
      BY Zenon, <1>1, <2>1, <2>2, <2>3 DEF ATInv, ATTypeOK
  <1>3. Over' = Over /\ InHand' = InHand /\ Rows' = Rows /\ InFlight' = InFlight
    BY Zenon, <1>1 DEF Over, InHand, Rows, InFlight
  <1>7. UNCHANGED <<nOver, nStored, nQueue, nHeld, nRows, nOut>>
    BY Zenon, <1>1, <1>3 DEF nOver, nStored, nQueue, nHeld, nRows, nOut
  <1>4. Once'
    BY <1>1, <1>3 DEF ATInv, Once, InTransit, Queued
  <1>5. Hands'
    <2>1. main' \in {"serving", "draining", "stopping"} => out'[Main] = {}
      BY Zenon, <1>1 DEF ATInv, Hands, SeeDone, Exit, FlushLoopStops, CloseBuffer, StopFlushLoop, atvars, Sending
    <2> QED
      BY Zenon, <1>1, <1>3, <2>1 DEF ATInv, Hands
  <1>6. Ledger'
    BY Zenon, <1>1, <1>7 DEF ATInv, Ledger
  <1> QED
    BY Zenon, <1>2, <1>4, <1>5, <1>6 DEF ATInv

(* Export's first select counts the event it turns away. *)
LEMMA EmitKeeps ==
  ASSUME ATInv, NEW e \in Events, Emit(e)
  PROVE  ATInv'
  <1>1. UNCHANGED <<queue, done, mode, ev, batch, pending, stuck, out, ticker, main, saved, failed, rowsDropped>>
    BY Zenon DEF Emit, sinkVars
  <1>2. ATTypeOK'
    BY <1>1 DEF ATInv, ATTypeOK, Emit
  <1>3. InHand' = InHand /\ Rows' = Rows /\ InFlight' = InFlight
    BY Zenon, <1>1 DEF InHand, Rows, InFlight
  <1>4. Once'
    <2>1. \A x \in Events : call[x] = "over" => call'[x] = "over"
      BY Zenon DEF ATInv, ATTypeOK, Emit
    <2> QED
      BY <1>1, <1>3, <2>1 DEF ATInv, Once, InTransit, Queued
  <1>5. Hands'
    BY Zenon, <1>1, <1>3 DEF ATInv, Hands
  <1>6. Ledger'
    <2>0. UNCHANGED <<nStored, nQueue, nHeld, nRows, nOut, failed, rowsDropped>>
      BY Zenon, <1>1, <1>3 DEF nStored, nQueue, nHeld, nRows, nOut
    <2>1. CASE ~done
      <3>1. Over' = Over /\ dropped' = dropped
        BY Zenon, <2>1 DEF ATInv, ATTypeOK, Emit, Over
      <3>2. nOver' = nOver
        BY Zenon, <3>1 DEF nOver
      <3> QED
        BY Zenon, <2>0, <3>1, <3>2 DEF ATInv, Ledger
    <2>2. CASE done
      <3>1. nOver' = nOver + 1 /\ dropped' = dropped + 1
        BY Zenon, <2>2, OverGains DEF ATInv, Emit
      <3> QED
        BY <2>0, <3>1, Sums DEF Ledger
    <2> QED
      BY Zenon, <2>1, <2>2
  <1> QED
    BY Zenon, <1>2, <1>4, <1>5, <1>6 DEF ATInv

(* The second select queues the event or counts it. *)
LEMMA EnqueueKeeps ==
  ASSUME ATInv, NEW e \in Events, Enqueue(e)
  PROVE  ATInv'
  <1>1. UNCHANGED <<done, mode, ev, batch, pending, stuck, out, ticker, main, saved, failed, rowsDropped>>
    BY Zenon DEF Enqueue, sinkVars
  <1>2. /\ queue \in Seq(Events) /\ call[e] # "over" /\ call' = [call EXCEPT ![e] = "over"]
        /\ Len(queue) \in Nat /\ QueueCap \in Nat
    BY AuditAssumption DEF ATInv, ATTypeOK, Enqueue
  <1>3. InHand' = InHand /\ Rows' = Rows /\ InFlight' = InFlight
    BY Zenon, <1>1 DEF InHand, Rows, InFlight
  <1>4. Hands'
    BY Zenon, <1>1, <1>3 DEF ATInv, Hands
  <1>5. nOver' = nOver + 1
    BY Zenon, <1>2, OverGains DEF ATInv
  <1>6. /\ call' \in [Events -> {"new", "checked", "over"}] /\ call'[e] = "over"
        /\ \A x \in Events : call[x] = "over" => call'[x] = "over"
    BY Zenon, <1>2 DEF ATInv, ATTypeOK
  <1>7. CASE Len(queue) < QueueCap /\ queue' = Append(queue, e) /\ dropped' = dropped
    <2>1. /\ queue' \in Seq(Events) /\ Len(queue') = Len(queue) + 1 /\ Len(queue') <= QueueCap
          /\ \A i \in 1..Len(queue) : queue'[i] = queue[i]
          /\ queue'[Len(queue) + 1] = e
      BY <1>2, <1>7
    <2>2. ATTypeOK'
      BY Zenon, <1>1, <1>6, <1>7, <2>1 DEF ATInv, ATTypeOK
    <2>3. \A i \in 1..Len(queue') : i \in 1..Len(queue) \/ i = Len(queue) + 1
      BY <1>2, <2>1
    <2>4. ~InTransit(e) /\ e \notin saved
      BY Zenon, <1>2 DEF ATInv, Once
    <2>5. \A i \in 1..Len(queue) : queue[i] # e
      BY Zenon, <2>4 DEF InTransit, Queued
    <2>6. \A i \in 1..Len(queue) : i # Len(queue) + 1
      BY <1>2
    <2>7. Once'
      <3>1. \A x \in Events : InTransit(x)' => InTransit(x) \/ x = e
        BY Zenon, <1>1, <1>3, <2>1, <2>3 DEF InTransit, Queued
      <3>2. \A x \in Events : (InTransit(x) \/ x \in saved)' => call'[x] = "over"
        BY Zenon, <1>1, <1>6, <3>1 DEF ATInv, Once
      <3>3. \A i, j \in 1..Len(queue') : queue'[i] = queue'[j] => i = j
        BY <2>1, <2>3, <2>5, <2>6 DEF ATInv, Once
      <3>4. \A i \in 1..Len(queue') :
              /\ queue'[i] \notin Rows' /\ queue'[i] \notin saved'
              /\ \A w \in Workers : ev'[w] # queue'[i]
              /\ \A g \in Goroutines : queue'[i] \notin out'[g]
        BY Zenon, <1>1, <1>3, <2>1, <2>3, <2>4 DEF ATInv, Once, InTransit
      <3> QED
        BY Zenon, <1>1, <1>3, <3>2, <3>3, <3>4 DEF ATInv, Once
    <2>8. Ledger'
      <3>1. UNCHANGED <<nStored, nHeld, nRows, nOut, failed, rowsDropped, dropped>> /\ nQueue' = nQueue + 1
        BY Zenon, <1>1, <1>3, <1>7, <2>1 DEF nStored, nQueue, nHeld, nRows, nOut
      <3> QED
        BY <1>5, <3>1, Sums DEF Ledger
    <2> QED
      BY Zenon, <1>4, <2>2, <2>7, <2>8 DEF ATInv
  <1>8. CASE queue' = queue /\ dropped' = dropped + 1
    <2>1. ATTypeOK'
      BY <1>1, <1>6, <1>8 DEF ATInv, ATTypeOK
    <2>2. Once'
      BY <1>1, <1>3, <1>6, <1>8 DEF ATInv, Once, InTransit, Queued
    <2>3. Ledger'
      <3>1. UNCHANGED <<nStored, nQueue, nHeld, nRows, nOut, failed, rowsDropped>> /\ dropped' = dropped + 1
        BY Zenon, <1>1, <1>3, <1>8 DEF nStored, nQueue, nHeld, nRows, nOut
      <3> QED
        BY <1>5, <3>1, Sums DEF Ledger
    <2> QED
      BY Zenon, <1>4, <2>1, <2>2, <2>3 DEF ATInv
  <1> QED
    BY Zenon, <1>7, <1>8 DEF Enqueue

(* A worker receives the head of the queue. *)
LEMMA ReceiveKeeps ==
  ASSUME ATInv, NEW w \in Workers, Receive(w)
  PROVE  ATInv'
  <1>1. UNCHANGED <<call, done, mode, batch, pending, stuck, out, ticker, main, saved, dropped, failed, rowsDropped>>
    BY Zenon DEF Receive, sinkVars, counters
  <1>2. queue \in Seq(Events) /\ queue # <<>> /\ queue' = Tail(queue) /\ ev[w] = None /\ out[w] = {}
    BY Zenon DEF ATInv, ATTypeOK, Receive, Free, Sending
  <1>3. /\ Len(queue) \in Nat \ {0} /\ queue' \in Seq(Events) /\ Len(queue') = Len(queue) - 1
        /\ \A i \in 1..Len(queue') : i + 1 \in 1..Len(queue) /\ queue'[i] = queue[i + 1] /\ i + 1 # 1
        /\ \A i, j \in 1..Len(queue') : i + 1 = j + 1 => i = j
        /\ 1 \in 1..Len(queue) /\ Head(queue) = queue[1] /\ queue[1] \in Events
    BY <1>2
  <1>4. ev' = [ev EXCEPT ![w] = queue[1]] /\ ev'[w] = queue[1] /\ \A x \in Workers : x # w => ev'[x] = ev[x]
    BY Zenon, <1>3 DEF ATInv, ATTypeOK, Receive
  <1>5. ATTypeOK'
    <2>1. ev' \in [Workers -> Events \cup {None}]
      BY Zenon, <1>3, <1>4 DEF ATInv, ATTypeOK
    <2>2. Len(queue') <= QueueCap
      BY <1>3, AuditAssumption DEF ATInv, ATTypeOK
    <2> QED
      BY Zenon, <1>1, <1>3, <2>1, <2>2 DEF ATInv, ATTypeOK
  <1>6. Over' = Over /\ Rows' = Rows /\ InFlight' = InFlight
    BY Zenon, <1>1 DEF Over, Rows, InFlight
  <1>7. Once'
    <2>1. \A x \in Events : InTransit(x)' => InTransit(x)
      BY ZenonT(30), <1>1, <1>3, <1>4, <1>6 DEF InTransit, Queued
    <2>2. \A x \in Events : (InTransit(x) \/ x \in saved)' => call'[x] = "over"
      BY Zenon, <1>1, <2>1 DEF ATInv, Once
    <2>3. \A i, j \in 1..Len(queue') : queue'[i] = queue'[j] => i = j
      BY <1>3 DEF ATInv, Once
    <2>4. \A i \in 1..Len(queue') :
            /\ queue'[i] \notin Rows' /\ queue'[i] \notin saved'
            /\ \A x \in Workers : ev'[x] # queue'[i]
            /\ \A g \in Goroutines : queue'[i] \notin out'[g]
      BY <1>1, <1>3, <1>4, <1>6 DEF ATInv, Once
    <2>5. \A x \in Workers : ev'[x] # None =>
            /\ ev'[x] \notin Rows' /\ ev'[x] \notin saved'
            /\ \A y \in Workers : y # x => ev'[y] # ev'[x]
            /\ \A g \in Goroutines : ev'[x] \notin out'[g]
      BY SMTT(30), <1>1, <1>3, <1>4, <1>6 DEF ATInv, Once
    <2> QED
      BY Zenon, <1>1, <1>6, <2>2, <2>3, <2>4, <2>5 DEF ATInv, Once
  <1>8. Hands'
    BY Zenon, <1>1, <1>2, <1>4, <1>6 DEF ATInv, Hands
  <1>9. Ledger'
    <2>1. nHeld' = nHeld + 1
      BY Zenon, <1>2, <1>3, <1>4, HeldGains DEF ATInv
    <2>2. /\ UNCHANGED <<nOver, nStored, nRows, nOut, dropped, failed, rowsDropped>>
          /\ nQueue' = nQueue - 1
      BY Zenon, <1>1, <1>3, <1>6 DEF nOver, nStored, nQueue, nRows, nOut
    <2> QED
      BY <2>1, <2>2, Sums DEF Ledger
  <1> QED
    BY Zenon, <1>5, <1>7, <1>8, <1>9 DEF ATInv

-----------------------------------------------------------------------------
(* What all the steps that end a worker's hold on its event share. *)
LEMMA LetGo ==
  ASSUME ATInv, NEW w \in Workers, ev[w] # None, ev' = [ev EXCEPT ![w] = None]
  PROVE  /\ ev[w] \in Events /\ ev' \in [Workers -> Events \cup {None}] /\ ev'[w] = None
         /\ \A x \in Workers : ev'[x] # None => x # w /\ ev'[x] = ev[x]
         /\ nHeld' = nHeld - 1
         /\ out[w] = {} /\ w \in Goroutines
  <1>1. nHeld' = nHeld - 1
    BY Zenon, HeldLoses DEF ATInv
  <1>2. /\ ev[w] \in Events /\ ev' \in [Workers -> Events \cup {None}] /\ ev'[w] = None
        /\ \A x \in Workers : ev'[x] # None => x # w /\ ev'[x] = ev[x]
    BY Zenon DEF ATInv, ATTypeOK
  <1>3. out[w] = {} /\ w \in Goroutines
    BY Zenon DEF ATInv, Hands, Goroutines
  <1> QED
    BY Zenon, <1>1, <1>2, <1>3

(* The limiter, a sink without a batch and a panic each count one event. *)
LEMMA LoseKeeps ==
  ASSUME ATInv, NEW w \in Workers, Shed(w) \/ NoBatchToAppend(w) \/ AppendPanics(w)
  PROVE  ATInv'
  <1>1. /\ UNCHANGED <<call, queue, done, mode, batch, pending, out, ticker, main, saved>>
        /\ ev[w] # None /\ ev' = [ev EXCEPT ![w] = None] /\ stuck' \in BOOLEAN
    BY Zenon DEF ATInv, ATTypeOK, Shed, NoBatchToAppend, AppendPanics, inVars, sinkVars
  <1>2. \/ dropped' = dropped + 1 /\ UNCHANGED <<failed, rowsDropped>>
        \/ failed' = failed + 1 /\ UNCHANGED <<dropped, rowsDropped>>
        \/ rowsDropped' = rowsDropped + 1 /\ UNCHANGED <<dropped, failed>>
    BY Zenon DEF Shed, NoBatchToAppend, AppendPanics
  <1>3. /\ ev' \in [Workers -> Events \cup {None}]
        /\ \A x \in Workers : ev'[x] # None => x # w /\ ev'[x] = ev[x]
        /\ nHeld' = nHeld - 1
    BY Zenon, <1>1, LetGo
  <1>4. ATTypeOK'
    BY <1>1, <1>2, <1>3 DEF ATInv, ATTypeOK
  <1>5. Over' = Over /\ Rows' = Rows /\ InFlight' = InFlight
    BY Zenon, <1>1 DEF Over, Rows, InFlight
  <1>6. Once'
    <2>1. \A x \in Events : InTransit(x)' => InTransit(x)
      BY Zenon, <1>1, <1>3, <1>5, AuditAssumption DEF InTransit, Queued
    <2>2. \A x \in Events : (InTransit(x) \/ x \in saved)' => call'[x] = "over"
      BY Zenon, <1>1, <2>1 DEF ATInv, Once
    <2>3. \A i \in 1..Len(queue) : queue[i] # None
      BY AuditAssumption DEF ATInv, ATTypeOK
    <2>4. \A i \in 1..Len(queue) : \A x \in Workers : ev'[x] # queue[i]
      BY Zenon, <1>3, <2>3 DEF ATInv, Once
    <2> QED
      BY <1>1, <1>3, <1>5, <2>2, <2>4 DEF ATInv, Once
  <1>7. Hands'
    BY Zenon, <1>1, <1>3, <1>5 DEF ATInv, Hands
  <1>8. Ledger'
    <2>1. UNCHANGED <<nOver, nStored, nQueue, nRows, nOut>>
      BY Zenon, <1>1, <1>5 DEF nOver, nStored, nQueue, nRows, nOut
    <2> QED
      BY <1>2, <1>3, <2>1, Sums DEF Ledger
  <1> QED
    BY Zenon, <1>4, <1>6, <1>7, <1>8 DEF ATInv

(* A fresh batch, or none, holds no rows. *)
LEMMA Renewed ==
  ASSUME RenewBatch
  PROVE  /\ Rows' = {} /\ nRows' = 0 /\ pending' = 0
         /\ batch' \in (SUBSET Events) \cup {NoBatch} /\ pending' \in 0..BatchSize-1
  <1>1. Rows' = {} /\ pending' = 0 /\ batch' \in (SUBSET Events) \cup {NoBatch}
    BY Zenon DEF RenewBatch, Rows, NoBatch
  <1>2. nRows' = 0
    BY Zenon, <1>1, FS_EmptySet DEF nRows
  <1>3. 0 \in 0..BatchSize-1
    BY AuditAssumption
  <1> QED
    BY Zenon, <1>1, <1>2, <1>3

(* A failed Append counts its row and the rows staged before it. *)
LEMMA AppendFailsKeeps ==
  ASSUME ATInv, NEW w \in Workers, AppendFails(w)
  PROVE  ATInv'
  <1>1. /\ UNCHANGED <<call, queue, done, mode, stuck, out, ticker, main, saved, dropped, failed>>
        /\ ev[w] # None /\ ev' = [ev EXCEPT ![w] = None] /\ RenewBatch
        /\ rowsDropped' = rowsDropped + (pending + 1)
    BY Zenon DEF AppendFails, inVars, Poisoned
  <1>2. /\ ev' \in [Workers -> Events \cup {None}]
        /\ \A x \in Workers : ev'[x] # None => x # w /\ ev'[x] = ev[x]
        /\ nHeld' = nHeld - 1
    BY Zenon, <1>1, LetGo
  <1>3. /\ Rows' = {} /\ nRows' = 0 /\ pending' = 0
        /\ batch' \in (SUBSET Events) \cup {NoBatch} /\ pending' \in 0..BatchSize-1
    BY Zenon, <1>1, Renewed
  <1>4. pending = nRows
    BY Zenon DEF ATInv, Hands, nRows
  <1>5. ATTypeOK'
    <2>1. rowsDropped' \in Nat
      BY SMTT(30), <1>1, <1>4, Sums
    <2> QED
      BY Zenon, <1>1, <1>2, <1>3, <2>1 DEF ATInv, ATTypeOK
  <1>6. Once'
    <2>1. \A x \in Events : InTransit(x)' => InTransit(x)
      BY Zenon, <1>1, <1>2, <1>3, AuditAssumption DEF InTransit, Queued
    <2>2. \A x \in Events : (InTransit(x) \/ x \in saved)' => call'[x] = "over"
      BY Zenon, <1>1, <2>1 DEF ATInv, Once
    <2>3. \A i \in 1..Len(queue) : queue[i] # None
      BY AuditAssumption DEF ATInv, ATTypeOK
    <2>4. \A i \in 1..Len(queue) : \A x \in Workers : ev'[x] # queue[i]
      BY Zenon, <1>2, <2>3 DEF ATInv, Once
    <2> QED
      BY <1>1, <1>2, <1>3, <2>2, <2>4 DEF ATInv, Once
  <1>7. Hands'
    <2>1. pending' = Cardinality(Rows')
      BY Zenon, <1>3 DEF nRows
    <2> QED
      BY Zenon, <1>1, <1>2, <2>1 DEF ATInv, Hands
  <1>8. Ledger'
    <2>1. Over' = Over /\ InFlight' = InFlight
      BY Zenon, <1>1 DEF Over, InFlight
    <2>2. UNCHANGED <<nOver, nStored, nQueue, nOut, dropped, failed>>
      BY Zenon, <1>1, <2>1 DEF nOver, nStored, nQueue, nOut
    <2>3. rowsDropped' = rowsDropped + (nRows + 1)
      BY Zenon, <1>1, <1>4
    <2> QED
      BY <1>2, <1>3, <2>2, <2>3, Sums DEF Ledger
  <1> QED
    BY Zenon, <1>5, <1>6, <1>7, <1>8 DEF ATInv

(* A row is staged, or fills the batch and goes out with the staged ones. *)
LEMMA AppendRowKeeps ==
  ASSUME ATInv, NEW w \in Workers, AppendRow(w)
  PROVE  ATInv'
  <1>1. /\ UNCHANGED <<call, queue, done, mode, stuck, ticker, main, saved, dropped, failed, rowsDropped>>
        /\ ev[w] # None /\ ev' = [ev EXCEPT ![w] = None]
    BY Zenon DEF AppendRow, inVars, counters
  <1>2. /\ ev[w] \in Events /\ ev' \in [Workers -> Events \cup {None}]
        /\ \A x \in Workers : ev'[x] # None => x # w /\ ev'[x] = ev[x]
        /\ nHeld' = nHeld - 1 /\ out[w] = {} /\ w \in Goroutines
    BY Zenon, <1>1, LetGo
  <1>3. Rows \subseteq Events /\ IsFiniteSet(Rows) /\ pending \in Nat /\ pending = nRows /\ nRows = Cardinality(Rows)
    BY Zenon, Parts DEF ATInv, Hands, nRows
  <1>4. ev[w] \notin Rows
    BY Zenon, <1>1 DEF ATInv, Once
  <1>5. /\ IsFiniteSet(Rows \cup {ev[w]}) /\ Cardinality(Rows \cup {ev[w]}) = nRows + 1
        /\ Rows \cup {ev[w]} \in SUBSET Events
    BY Zenon, <1>2, <1>3, <1>4, FS_AddElement
  <1>6. \A i \in 1..Len(queue) : queue[i] # None
    BY AuditAssumption DEF ATInv, ATTypeOK
  <1>7. \A i \in 1..Len(queue) : queue[i] # ev[w] /\ \A x \in Workers : ev'[x] # queue[i]
    BY <1>2, <1>6 DEF ATInv, Once
  <1>8. Over' = Over
    BY Zenon, <1>1 DEF Over
  <1>9. CASE ~Full /\ batch' = Rows \cup {ev[w]} /\ pending' = pending + 1 /\ out' = out
    <2>1. Rows' = Rows \cup {ev[w]}
      BY Zenon, <1>2, <1>3, <1>9, AuditAssumption DEF Rows, NoBatch
    <2>2. pending' \in 0..BatchSize-1
      BY SMTT(30), <1>3, <1>9, AuditAssumption DEF Full
    <2>3. ATTypeOK'
      BY Zenon, <1>1, <1>2, <1>5, <1>9, <2>2 DEF ATInv, ATTypeOK
    <2>4. Once'
      <3>1. \A x \in Events : InTransit(x)' => InTransit(x)
        BY Zenon, <1>1, <1>2, <1>9, <2>1, AuditAssumption DEF InTransit, Queued
      <3>2. \A x \in Events : (InTransit(x) \/ x \in saved)' => call'[x] = "over"
        BY Zenon, <1>1, <3>1 DEF ATInv, Once
      <3> QED
        BY SMTT(30), <1>1, <1>2, <1>7, <1>9, <2>1, <3>2 DEF ATInv, Once
    <2>5. Hands'
      BY Zenon, <1>1, <1>2, <1>3, <1>5, <1>9, <2>1 DEF ATInv, Hands
    <2>6. Ledger'
      <3>1. InFlight' = InFlight
        BY Zenon, <1>9 DEF InFlight
      <3>2. UNCHANGED <<nOver, nStored, nQueue, nOut, dropped, failed, rowsDropped>> /\ nRows' = nRows + 1
        BY Zenon, <1>1, <1>5, <1>8, <2>1, <3>1 DEF nOver, nStored, nQueue, nOut, nRows
      <3> QED
        BY <1>2, <3>2, Sums DEF Ledger
    <2> QED
      BY Zenon, <2>3, <2>4, <2>5, <2>6 DEF ATInv
  <1>10. CASE out' = [out EXCEPT ![w] = Rows \cup {ev[w]}] /\ RenewBatch
    <2>1. /\ Rows' = {} /\ nRows' = 0 /\ pending' = 0
          /\ batch' \in (SUBSET Events) \cup {NoBatch} /\ pending' \in 0..BatchSize-1
      BY Zenon, <1>10, Renewed
    <2>2. /\ out' \in [Goroutines -> SUBSET Events] /\ out'[w] = Rows \cup {ev[w]}
          /\ \A g \in Goroutines : g # w => out'[g] = out[g]
      BY Zenon, <1>2, <1>5, <1>10 DEF ATInv, ATTypeOK
    <2>3. ATTypeOK'
      BY Zenon, <1>1, <1>2, <2>1, <2>2 DEF ATInv, ATTypeOK
    <2>4. Once'
      <3>1. \A x \in Events : InTransit(x)' => InTransit(x)
        BY Zenon, <1>1, <1>2, <2>1, <2>2, AuditAssumption DEF InTransit, Queued
      <3>2. \A x \in Events : (InTransit(x) \/ x \in saved)' => call'[x] = "over"
        BY Zenon, <1>1, <3>1 DEF ATInv, Once
      <3>3. \A i \in 1..Len(queue) : \A g \in Goroutines : queue[i] \notin out'[g]
        BY <1>7, <2>2 DEF ATInv, Once
      <3>4. ASSUME NEW x \in Workers, ev'[x] # None, NEW g \in Goroutines PROVE ev'[x] \notin out'[g]
        <4>1. x # w /\ ev'[x] = ev[x] /\ ev[x] # None
          BY Zenon, <1>2, <3>4
        <4>2. ev[x] \notin Rows /\ ev[x] # ev[w] /\ ev[x] \notin out[g]
          BY Zenon, <1>1, <4>1 DEF ATInv, Once
        <4> QED
          BY Zenon, <2>2, <4>1, <4>2
      <3>5. \A g \in Goroutines : \A e \in out'[g] :
              e \notin saved /\ \A h \in Goroutines : h # g => e \notin out'[h]
        BY SMTT(30), <1>1, <1>2, <2>2 DEF ATInv, Once
      <3> QED
        BY ZenonT(30), <1>1, <1>2, <1>7, <2>1, <3>2, <3>3, <3>4, <3>5 DEF ATInv, Once
    <2>5. Hands'
      <3>1. pending' = Cardinality(Rows')
        BY Zenon, <2>1 DEF nRows
      <3>2. Main # w /\ Main \in Goroutines /\ \A x \in Workers : x \in Goroutines
        BY Zenon, AuditAssumption DEF Goroutines
      <3> QED
        BY Zenon, <1>1, <1>2, <2>2, <3>1, <3>2 DEF ATInv, Hands
    <2>6. Ledger'
      <3>1. nOut' = nOut + Cardinality(Rows \cup {ev[w]})
        BY Zenon, <1>2, <1>5, <1>10, OutGains DEF ATInv
      <3>2. UNCHANGED <<nOver, nStored, nQueue, dropped, failed, rowsDropped>>
        BY Zenon, <1>1, <1>8 DEF nOver, nStored, nQueue
      <3>3. nOut' = nOut + (nRows + 1)
        BY Zenon, <1>5, <3>1
      <3> QED
        BY <1>2, <2>1, <3>2, <3>3, Sums DEF Ledger
    <2> QED
      BY Zenon, <2>3, <2>4, <2>5, <2>6 DEF ATInv
  <1> QED
    BY Zenon, <1>9, <1>10 DEF AppendRow

(* The server takes a detached batch, or its rows are counted. *)
LEMMA SendKeeps ==
  ASSUME ATInv, NEW g \in Goroutines, SendBatch(g)
  PROVE  ATInv'
  <1>1. /\ UNCHANGED <<call, queue, done, mode, ev, batch, pending, stuck, ticker, main, dropped, failed>>
        /\ out' = [out EXCEPT ![g] = {}]
    BY Zenon DEF SendBatch, inVars, sinkVars
  <1>2. /\ out[g] \in SUBSET Events /\ out' \in [Goroutines -> SUBSET Events] /\ out'[g] = {}
        /\ \A h \in Goroutines : h # g => out'[h] = out[h]
        /\ saved \in SUBSET Events
    BY Zenon, <1>1 DEF ATInv, ATTypeOK
  <1>3. /\ IsFiniteSet(out[g]) /\ Cardinality(out[g]) \in Nat /\ IsFiniteSet(saved)
    BY Zenon, <1>2, AuditAssumption, FS_Subset, FS_CardinalityType
  <1>4. nOut' = nOut - Cardinality(out[g])
    BY Zenon, <1>1, OutLoses DEF ATInv
  <1>5. Over' = Over /\ InHand' = InHand /\ Rows' = Rows
    BY Zenon, <1>1 DEF Over, InHand, Rows
  <1>6. UNCHANGED <<nOver, nQueue, nHeld, nRows, dropped, failed>>
    BY Zenon, <1>1, <1>5 DEF nOver, nQueue, nHeld, nRows
  <1>7. Hands'
    <2>1. Main \in Goroutines /\ \A x \in Workers : x \in Goroutines
      BY Zenon DEF Goroutines
    <2> QED
      BY Zenon, <1>1, <1>2, <1>5, <2>1 DEF ATInv, Hands
  <1>8. CASE saved' = saved \cup out[g] /\ rowsDropped' = rowsDropped
    <2>1. ATTypeOK'
      BY Zenon, <1>1, <1>2, <1>8 DEF ATInv, ATTypeOK
    <2>2. Once'
      <3>1. \A x \in Events : (InTransit(x) \/ x \in saved)' => InTransit(x) \/ x \in saved
        BY ZenonT(30), <1>1, <1>2, <1>5, <1>8 DEF InTransit, Queued
      <3>2. \A x \in Events : (InTransit(x) \/ x \in saved)' => call'[x] = "over"
        BY ZenonT(30), <1>1, <3>1 DEF ATInv, Once
      <3>3. \A i \in 1..Len(queue) : queue[i] \notin saved' /\ \A h \in Goroutines : queue[i] \notin out'[h]
        BY Zenon, <1>2, <1>8 DEF ATInv, Once
      <3>4. \A x \in Workers : ev[x] # None =>
              ev[x] \notin saved' /\ \A h \in Goroutines : ev[x] \notin out'[h]
        BY Zenon, <1>2, <1>8 DEF ATInv, Once
      <3>5. \A h \in Goroutines : \A e \in out'[h] :
              e \notin Rows /\ e \notin saved' /\ \A k \in Goroutines : k # h => e \notin out'[k]
        BY Zenon, <1>2, <1>8 DEF ATInv, Once
      <3>6. \A e \in Rows : e \notin saved'
        BY Zenon, <1>8 DEF ATInv, Once
      <3> QED
        BY ZenonT(30), <1>1, <1>5, <3>2, <3>3, <3>4, <3>5, <3>6 DEF ATInv, Once
    <2>3. nStored' = nStored + Cardinality(out[g])
      <3>1. saved \cap out[g] = {}
        BY Zenon DEF ATInv, Once
      <3>2. Cardinality(saved \cap out[g]) = 0
        BY Zenon, <3>1, FS_EmptySet
      <3>3. Cardinality(saved \cup out[g]) =
              Cardinality(saved) + Cardinality(out[g]) - Cardinality(saved \cap out[g])
        BY Zenon, <1>3, FS_Union
      <3>4. Cardinality(saved) \in Nat
        BY Zenon, <1>3, FS_CardinalityType
      <3> QED
        BY SMTT(30), <1>3, <1>8, <3>2, <3>3, <3>4 DEF nStored
    <2>4. Ledger'
      BY SMTT(30), <1>3, <1>4, <1>6, <1>8, <2>3, Sums DEF Ledger
    <2> QED
      BY Zenon, <1>7, <2>1, <2>2, <2>4 DEF ATInv
  <1>9. CASE rowsDropped' = rowsDropped + Cardinality(out[g]) /\ saved' = saved
    <2>1. ATTypeOK'
      BY SMTT(30), <1>1, <1>2, <1>3, <1>9 DEF ATInv, ATTypeOK
    <2>2. Once'
      <3>1. \A x \in Events : (InTransit(x) \/ x \in saved)' => InTransit(x) \/ x \in saved
        BY Zenon, <1>1, <1>2, <1>5, <1>9 DEF InTransit, Queued
      <3>2. \A x \in Events : (InTransit(x) \/ x \in saved)' => call'[x] = "over"
        BY Zenon, <1>1, <3>1 DEF ATInv, Once
      <3> QED
        BY Zenon, <1>1, <1>2, <1>5, <1>9, <3>2 DEF ATInv, Once
    <2>3. nStored' = nStored
      BY Zenon, <1>9 DEF nStored
    <2>4. Ledger'
      BY <1>3, <1>4, <1>6, <1>9, <2>3, Sums DEF Ledger
    <2> QED
      BY Zenon, <1>7, <2>1, <2>2, <2>4 DEF ATInv
  <1> QED
    BY Zenon, <1>8, <1>9 DEF SendBatch

(* A flush moves the staged rows, all of them, into an empty hand. *)
LEMMA DetachKeeps ==
  ASSUME ATInv, FlushTick \/ ShutdownFlush \/ CloseSink
  PROVE  ATInv'
  <1>1. /\ UNCHANGED <<call, queue, done, mode, ev, stuck, ticker, saved, dropped, failed, rowsDropped>>
        /\ main' \in {"serving", "flushed", "draining", "stopping", "closed"}
    BY Zenon DEF ATInv, ATTypeOK, FlushTick, ShutdownFlush, CloseSink, Detach, inVars, counters
  <1>2. Rows \in SUBSET Events /\ pending = Cardinality(Rows) /\ IsFiniteSet(Rows)
    BY Zenon, Parts DEF ATInv, Hands
  <1>3. PICK g \in {Ticker, Main} :
          /\ out[g] = {} /\ out' = [out EXCEPT ![g] = Rows]
          /\ g = Main => main' \notin {"serving", "draining", "stopping"}
          /\ g = Ticker => main' = main
    <2>0. Ticker # Main
      BY Zenon, AuditAssumption
    <2>1. CASE FlushTick
      BY Zenon, <2>0, <2>1 DEF FlushTick, Detach, Sending
    <2>2. CASE ShutdownFlush
      BY ZenonT(30), <2>0, <2>2 DEF ATInv, Hands, ShutdownFlush, Detach
    <2>3. CASE CloseSink
      BY Zenon, <2>0, <2>3 DEF ATInv, Hands, CloseSink
    <2> QED
      BY Zenon, <2>1, <2>2, <2>3
  <1>4. g \in Goroutines /\ g \notin Workers /\ Ticker # Main /\ Main \in Goroutines /\ Workers \subseteq Goroutines
    BY Zenon, AuditAssumption DEF Goroutines
  <1>5. /\ Rows' = {} /\ nRows' = 0 /\ pending' = 0
        /\ batch' \in (SUBSET Events) \cup {NoBatch} /\ pending' \in 0..BatchSize-1
    <2>1. CASE RenewBatch
      BY Zenon, <2>1, Renewed
    <2>2. CASE pending = 0 /\ UNCHANGED <<batch, pending>>
      <3>1. Rows = {}
        BY Zenon, <1>2, <2>2, FS_EmptySet
      <3>2. Rows' = {} /\ pending' = 0 /\ nRows' = 0
        BY Zenon, <2>2, <3>1, FS_EmptySet DEF Rows, nRows
      <3> QED
        BY Zenon, <2>2, <3>2 DEF ATInv, ATTypeOK
    <2>3. CASE batch' = NoBatch /\ pending' = 0
      BY Zenon, <2>3, Renewed DEF RenewBatch
    <2> QED
      BY Zenon, <2>1, <2>2, <2>3 DEF FlushTick, ShutdownFlush, CloseSink, Detach
  <1>6. /\ out' \in [Goroutines -> SUBSET Events] /\ out'[g] = Rows
        /\ \A h \in Goroutines : h # g => out'[h] = out[h]
    BY Zenon, <1>2, <1>3, <1>4 DEF ATInv, ATTypeOK
  <1>7. ATTypeOK'
    BY Zenon, <1>1, <1>5, <1>6 DEF ATInv, ATTypeOK
  <1>8. Once'
    <2>1. \A x \in Events : InTransit(x)' => InTransit(x)
      BY Zenon, <1>1, <1>5, <1>6 DEF InTransit, Queued
    <2>2. \A x \in Events : (InTransit(x) \/ x \in saved)' => call'[x] = "over"
      BY Zenon, <1>1, <2>1 DEF ATInv, Once
    <2>3. \A i \in 1..Len(queue) : \A h \in Goroutines : queue[i] \notin out'[h]
      BY Zenon, <1>6 DEF ATInv, Once
    <2>4. \A x \in Workers : ev[x] # None => \A h \in Goroutines : ev[x] \notin out'[h]
      BY Zenon, <1>6 DEF ATInv, Once
    <2>5. \A h \in Goroutines : \A e \in out'[h] :
            e \notin saved /\ \A k \in Goroutines : k # h => e \notin out'[k]
      BY Zenon, <1>4, <1>6 DEF ATInv, Once
    <2> QED
      BY SMTT(30), <1>1, <1>5, <2>2, <2>3, <2>4, <2>5 DEF ATInv, Once
  <1>9. Hands'
    <2>1. pending' = Cardinality(Rows')
      BY Zenon, <1>5 DEF nRows
    <2>2. \A w \in Workers : ev'[w] # None => out'[w] = {}
      BY Zenon, <1>1, <1>4, <1>6 DEF ATInv, Hands
    <2>3. main' \in {"serving", "draining", "stopping"} => out'[Main] = {}
      BY Zenon, <1>3, <1>4, <1>6 DEF ATInv, Hands
    <2> QED
      BY Zenon, <2>1, <2>2, <2>3 DEF Hands
  <1>10. Ledger'
    <2>1. nOut' = nOut + nRows
      BY Zenon, <1>2, <1>3, <1>4, OutGains DEF ATInv, nRows
    <2>2. Over' = Over /\ InHand' = InHand
      BY Zenon, <1>1 DEF Over, InHand
    <2>3. UNCHANGED <<nOver, nStored, nQueue, nHeld, dropped, failed, rowsDropped>>
      BY Zenon, <1>1, <2>2 DEF nOver, nStored, nQueue, nHeld
    <2> QED
      BY <1>5, <2>1, <2>3, Sums DEF Ledger
  <1> QED
    BY Zenon, <1>7, <1>8, <1>9, <1>10 DEF ATInv

-----------------------------------------------------------------------------
LEMMA ATInvKept ==
  ASSUME ATInv, [ATNext]_atvars
  PROVE  ATInv'
  <1>1. CASE \/ \E w \in Workers : SeeDone(w) \/ Exit(w)
             \/ FlushLoopStops \/ CloseBuffer \/ StopFlushLoop \/ UNCHANGED atvars
    BY Zenon, <1>1, ControlKeeps
  <1>2. CASE \E e \in Events : Emit(e) \/ Enqueue(e)
    BY Zenon, <1>2, EmitKeeps, EnqueueKeeps
  <1>3. CASE \E w \in Workers : Receive(w)
    BY Zenon, <1>3, ReceiveKeeps
  <1>4. CASE \E w \in Workers : Shed(w) \/ NoBatchToAppend(w) \/ AppendPanics(w)
    BY Zenon, <1>4, LoseKeeps
  <1>5. CASE \E w \in Workers : AppendFails(w) \/ AppendRow(w)
    BY Zenon, <1>5, AppendFailsKeeps, AppendRowKeeps
  <1>6. CASE \E g \in Goroutines : SendBatch(g)
    BY Zenon, <1>6, SendKeeps
  <1>7. CASE FlushTick \/ ShutdownFlush \/ CloseSink
    BY Zenon, <1>7, DetachKeeps
  <1> QED
    BY Zenon, <1>1, <1>2, <1>3, <1>4, <1>5, <1>6, <1>7 DEF ATNext, Worker, SinkExport, Shutdown

LEMMA ATInvHolds == ATSpec => []ATInv
  <1>1. ATInit => ATInv
    BY Zenon, ATInvInitially
  <1>2. ATInv /\ [ATNext]_atvars => ATInv'
    BY Zenon, ATInvKept
  <1> QED
    BY <1>1, <1>2, PTL DEF ATSpec

(* The queue never exceeds its capacity, nor a staged batch its size, and    *)
(* every variable keeps its type through Export, the workers and Close.      *)
THEOREM AuditTypes == ATSpec => []ATTypeOK
  <1>1. ATInv => ATTypeOK
    BY Zenon DEF ATInv
  <1> QED
    BY <1>1, ATInvHolds, PTL

(* Every event whose Export returned is saved once, counted once by the     *)
(* exporter or the sink, or still on its way: the counters account for every *)
(* loss of a full queue, a shed, a failed Append, Send or a panic.           *)
THEOREM NothingUncounted == ATSpec => []Conserved
  <1>1. ATInv => Conserved
    BY Zenon DEF ATInv, Ledger, Conserved, nOver, nStored, nQueue, nHeld, nRows, nOut
  <1> QED
    BY <1>1, ATInvHolds, PTL

-----------------------------------------------------------------------------
(* SnapshotLifecycle, for every set of streams, every number of reloads and  *)
(* every grace that exceeds the load->acquire window: reference counts are   *)
(* exact, no snapshot is forgotten, and engines are closed under a stream    *)
(* only after the capped wait.                                               *)

USE DEF EmptySnapshot, NoSnap, Snaps, Retired

(* The holders of a snapshot are finitely many, so their number is a natural. *)
LEMMA HoldersFinite ==
  ASSUME NEW v
  PROVE  IsFiniteSet(Holders(v)) /\ Cardinality(Holders(v)) \in Nat
<1>1. IsFiniteSet(PinStreams)
  BY Zenon, SnapshotAssumption
<1>2. Holders(v) \in SUBSET PinStreams
  BY Zenon DEF Holders
<1>3. IsFiniteSet(Holders(v))
  BY Zenon, <1>1, <1>2, FS_Subset
<1> QED
  BY Zenon, <1>3, FS_CardinalityType

(* A step that leaves the streams and the counts alone keeps the counts      *)
(* exact: every step of the reload and of the retirer.                       *)
LEMMA HoldersUnchanged ==
  ASSUME RefsAreHolders, UNCHANGED <<refs, pin, snap>>
  PROVE  RefsAreHolders'
<1>1. \A v : Holders(v)' = Holders(v)
  BY Zenon DEF Holders
<1>2. \A v : Cardinality(Holders(v)') = Cardinality(Holders(v))
  BY <1>1, Zenon
<1> QED
  BY Zenon, <1>2 DEF RefsAreHolders

(* Pin's increment counts the stream that makes it. *)
LEMMA AcquireCounts ==
  ASSUME SLInv, NEW s \in PinStreams, PinAcquire(s)
  PROVE  RefsAreHolders'
<1> SUFFICES ASSUME NEW v \in Snaps
             PROVE  refs'[v] = Cardinality(Holders(v)')
  BY Zenon DEF RefsAreHolders
<1>1. refs \in [Snaps -> Nat] /\ snap[s] \in Snaps /\ refs[v] = Cardinality(Holders(v))
  BY Zenon DEF SLInv, SLTypeOK, StoreTypes, CountTypes, StreamTypes, RefsAreHolders
<1>2. CASE v = snap[s]
  <2>1. s \notin Holders(v)
    BY Zenon DEF PinAcquire, Holders
  <2>2. Holders(v)' = Holders(v) \cup {s}
    BY Zenon, <1>2 DEF SLInv, SLTypeOK, StoreTypes, CountTypes, StreamTypes, PinAcquire, Holders
  <2>3. Cardinality(Holders(v) \cup {s}) = Cardinality(Holders(v)) + 1
    BY Zenon, <2>1, HoldersFinite, FS_AddElement
  <2>4. Cardinality(Holders(v)') = Cardinality(Holders(v) \cup {s})
    BY ZenonT(30), <2>2
  <2> QED
    BY Zenon, <1>1, <1>2, <2>3, <2>4 DEF PinAcquire
<1>3. CASE v # snap[s]
  <2>1. Holders(v)' = Holders(v)
    BY Zenon, <1>3 DEF SLInv, SLTypeOK, StoreTypes, CountTypes, StreamTypes, PinAcquire, Holders
  <2>2. Cardinality(Holders(v)') = Cardinality(Holders(v))
    BY <2>1, Zenon
  <2> QED
    BY Zenon, <1>1, <1>3, <2>2 DEF PinAcquire
<1> QED
  BY Zenon, <1>2, <1>3

(* The deferred release gives back one reference, which was there. *)
LEMMA ReleaseCounts ==
  ASSUME SLInv, NEW s \in PinStreams, Release(s)
  PROVE  RefsAreHolders' /\ refs[snap[s]] > 0
<1>1. PICK u \in Snaps : u = snap[s]
  BY Zenon DEF SLInv, SLTypeOK, StoreTypes, CountTypes, StreamTypes
<1>2. /\ refs \in [Snaps -> Nat]
      /\ \A v \in Snaps : refs[v] = Cardinality(Holders(v))
  BY Zenon DEF SLInv, SLTypeOK, StoreTypes, CountTypes, StreamTypes, RefsAreHolders
<1>3. Holders(u)' = Holders(u) \ {s} /\ s \in Holders(u)
  BY Zenon, <1>1 DEF SLInv, SLTypeOK, StoreTypes, CountTypes, StreamTypes, Release, Holders
<1>4. Cardinality(Holders(u) \ {s}) = Cardinality(Holders(u)) - 1
  BY Zenon, <1>3, HoldersFinite, FS_RemoveElement
<1>5. refs[u] > 0
  <2>1. Holders(u) # {}
    BY Zenon, <1>3
  <2>2. Cardinality(Holders(u)) # 0
    BY Zenon, <2>1, HoldersFinite, FS_EmptySet
  <2> QED
    BY <1>2, <2>2
<1>6. ASSUME NEW v \in Snaps
      PROVE  refs'[v] = Cardinality(Holders(v)')
  <2>1. CASE v = u
    <3>1. Cardinality(Holders(u)') = Cardinality(Holders(u) \ {s})
      BY <1>3, Zenon
    <3> QED
      BY Zenon, <1>1, <1>2, <1>4, <2>1, <3>1 DEF Release
  <2>2. CASE v # u
    <3>1. Holders(v)' = Holders(v)
      BY Zenon, <1>1, <2>2 DEF SLInv, SLTypeOK, StoreTypes, CountTypes, StreamTypes, Release, Holders
    <3>2. Cardinality(Holders(v)') = Cardinality(Holders(v))
      BY <3>1, Zenon
    <3> QED
      BY Zenon, <1>1, <1>2, <2>2, <3>2 DEF Release
  <2> QED
    BY Zenon, <2>1, <2>2
<1> QED
  BY Zenon, <1>1, <1>5, <1>6 DEF RefsAreHolders

-----------------------------------------------------------------------------
(* The initial state satisfies the inductive invariant. *)
LEMMA SLInvInitially == SLInit => SLInv
<1> SUFFICES ASSUME SLInit
             PROVE  SLInv
  BY Zenon
<1>0. 0 \in Snaps
  BY SnapshotAssumption DEF Snaps
<1>1. SLTypeOK
  BY <1>0, SnapshotAssumption DEF SLInit, SLTypeOK, StoreTypes, CountTypes, StreamTypes
<1>2. RefsAreHolders
  <2> SUFFICES ASSUME NEW v \in Snaps
               PROVE  refs[v] = Cardinality(Holders(v))
    BY Zenon DEF RefsAreHolders
  <2>1. Holders(v) = {}
    BY Zenon DEF SLInit, Holders
  <2>2. Cardinality(Holders(v)) = 0
    BY Zenon, <2>1, FS_EmptySet
  <2> QED
    BY Zenon, <2>2 DEF SLInit
<1>3. NoneForgotten
  BY <1>0 DEF SLInit, NoneForgotten
<1>4. ReloadInv
  BY <1>0 DEF SLInit, ReloadInv
<1>5. GraceInv
  BY Zenon DEF SLInit, GraceInv
<1> QED
  BY Zenon, <1>1, <1>2, <1>3, <1>4, <1>5 DEF SLInv

(* Every step preserves the inductive invariant. *)
LEMMA SLInvKept == SLInv /\ [SLNext]_slvars => SLInv'
<1> SUFFICES ASSUME SLInv, [SLNext]_slvars
             PROVE  SLInv'
  BY Zenon
<1> USE SnapshotAssumption DEF SLInv
<1>1. ASSUME NEW s \in PinStreams, PinLoad(s)
      PROVE  SLInv'
  <2>1. SLTypeOK'
    <3>1. StoreTypes'
      BY Zenon, <1>1 DEF PinLoad, SLTypeOK, StoreTypes
    <3>2. CountTypes'
      BY Zenon, <1>1 DEF PinLoad, SLTypeOK, CountTypes
    <3>3. StreamTypes'
      BY <1>1 DEF PinLoad, SLTypeOK, StoreTypes, StreamTypes
    <3> QED
      BY Zenon, <3>1, <3>2, <3>3 DEF SLTypeOK
  <2>2. RefsAreHolders'
    <3>1. \A v : Holders(v)' = Holders(v)
      BY Zenon, <1>1 DEF PinLoad, Holders, SLTypeOK, StoreTypes, CountTypes, StreamTypes
    <3>2. \A v : Cardinality(Holders(v)') = Cardinality(Holders(v))
      BY <3>1, Zenon
    <3> QED
      BY Zenon, <1>1, <3>2 DEF PinLoad, RefsAreHolders
  <2>3. NoneForgotten' /\ ReloadInv'
    BY <1>1 DEF PinLoad, NoneForgotten, ReloadInv
  <2>4. GraceInv'
    <3>1. graceLeft[ptr] = Grace
      BY ZenonT(30) DEF SLTypeOK, StoreTypes, CountTypes, StreamTypes, NoneForgotten, GraceInv
    <3> QED
      BY Zenon, <1>1, <3>1 DEF PinLoad, GraceInv, SLTypeOK, StoreTypes, CountTypes, StreamTypes
  <2> QED
    BY Zenon, <2>1, <2>2, <2>3, <2>4
<1>2. ASSUME NEW s \in PinStreams, PinAcquire(s)
      PROVE  SLInv'
  <2>1. SLTypeOK'
    <3>1. StoreTypes'
      BY Zenon, <1>2 DEF PinAcquire, SLTypeOK, StoreTypes
    <3>2. CountTypes'
      <4>1. snap[s] \in Snaps /\ refs \in [Snaps -> Nat]
        BY Zenon DEF SLTypeOK, StreamTypes, CountTypes
      <4>2. refs' \in [Snaps -> Nat]
        BY <1>2, <4>1 DEF PinAcquire
      <4> QED
        BY Zenon, <1>2, <4>2 DEF PinAcquire, SLTypeOK, CountTypes
    <3>3. StreamTypes'
      BY <1>2 DEF PinAcquire, SLTypeOK, StreamTypes
    <3> QED
      BY Zenon, <3>1, <3>2, <3>3 DEF SLTypeOK
  <2>2. RefsAreHolders'
    BY Zenon, <1>2, AcquireCounts
  <2>3. NoneForgotten' /\ ReloadInv'
    BY <1>2 DEF PinAcquire, NoneForgotten, ReloadInv
  <2>4. GraceInv'
    <3>1. stage[snap[s]] \notin {"closing", "closed"}
      BY SMTT(30), <1>2 DEF PinAcquire, GraceInv, SLTypeOK, StoreTypes, CountTypes, StreamTypes
    <3> QED
      BY ZenonT(30), <1>2, <3>1 DEF PinAcquire, GraceInv, SLTypeOK, StoreTypes, CountTypes, StreamTypes
  <2> QED
    BY Zenon, <2>1, <2>2, <2>3, <2>4
<1>3. ASSUME NEW s \in PinStreams, Release(s)
      PROVE  SLInv'
  <2>0. RefsAreHolders' /\ refs[snap[s]] > 0
    BY Zenon, <1>3, ReleaseCounts
  <2>1. SLTypeOK'
    <3>1. StoreTypes'
      BY Zenon, <1>3, <2>0 DEF Release, SLTypeOK, StoreTypes
    <3>2. CountTypes'
      <4>1. snap[s] \in Snaps /\ refs \in [Snaps -> Nat]
        BY Zenon DEF SLTypeOK, StreamTypes, CountTypes
      <4>2. refs' \in [Snaps -> Nat]
        BY SMTT(30), <1>3, <2>0, <4>1 DEF Release
      <4> QED
        BY Zenon, <1>3, <4>2 DEF Release, SLTypeOK, CountTypes
    <3>3. StreamTypes'
      BY SMTT(30), <1>3, <2>0 DEF Release, SLTypeOK, StreamTypes
    <3> QED
      BY Zenon, <3>1, <3>2, <3>3 DEF SLTypeOK
  <2>3. NoneForgotten' /\ ReloadInv'
    BY SMTT(30), <1>3 DEF Release, NoneForgotten, ReloadInv
  <2>4. GraceInv'
    <3>1. snap[s] \in Snaps /\ refs \in [Snaps -> Nat]
      BY Zenon DEF SLTypeOK, StreamTypes, CountTypes
    <3>2. \A v \in Snaps : refs[v] = 0 => refs'[v] = 0
      BY SMTT(30), <1>3, <2>0, <3>1 DEF Release
    <3>3. \A r \in PinStreams : pin'[r] = "loaded" => pin[r] = "loaded" /\ snap'[r] = snap[r]
      BY Zenon, <1>3 DEF Release, SLTypeOK, StreamTypes
    <3> QED
      BY Zenon, <1>3, <3>2, <3>3 DEF Release, GraceInv
  <2> QED
    BY Zenon, <2>0, <2>1, <2>3, <2>4
<1>4. ASSUME SetActive
      PROVE  SLInv'
  <2>0. built + 1 \in Snaps /\ stage[built + 1] = "unbuilt"
    BY <1>4 DEF SetActive, SLTypeOK, StoreTypes, CountTypes, StreamTypes, ReloadInv
  <2>1. SLTypeOK'
    <3>1. StoreTypes'
      BY Zenon, <1>4, <2>0 DEF SetActive, SLTypeOK, StoreTypes
    <3>2. CountTypes'
      BY Zenon, <1>4, <2>0 DEF SetActive, SLTypeOK, CountTypes
    <3>3. StreamTypes'
      BY Zenon, <1>4 DEF SetActive, streamVars, SLTypeOK, StreamTypes
    <3> QED
      BY Zenon, <3>1, <3>2, <3>3 DEF SLTypeOK
  <2>2. RefsAreHolders'
    BY Zenon, <1>4, HoldersUnchanged DEF SetActive, streamVars
  <2>3. NoneForgotten'
    <3>1. stage \in [Snaps -> Retired \cup {"unbuilt", "live"}]
      BY Zenon DEF SLTypeOK, StoreTypes
    <3>2. \A v \in Snaps : v # built + 1 => stage'[v] = stage[v]
      BY Zenon, <1>4, <3>1 DEF SetActive
    <3>3. stage'[built + 1] = "live"
      BY Zenon, <1>4, <2>0, <3>1 DEF SetActive
    <3>4. built \in Snaps /\ ptr = built
      BY Zenon DEF SLTypeOK, StoreTypes, ReloadInv
    <3>5. \A v \in 1..built' : v = ptr' \/ v = old' \/ stage'[v] \in Retired
      BY <1>4, <2>0, <3>2, <3>4 DEF SetActive, NoneForgotten
    <3>6. \A v \in Snaps : stage'[v] = "queued" <=> stage[v] = "queued"
      BY Zenon, <2>0, <3>2, <3>3
    <3> QED
      BY <1>4, <3>3, <3>5, <3>6 DEF SetActive, NoneForgotten
  <2>4. ReloadInv'
    BY <1>4, <2>0 DEF SetActive, SLTypeOK, StoreTypes, CountTypes, StreamTypes, ReloadInv, NoneForgotten
  <2>5. GraceInv'
    BY ZenonT(30), <1>4, <2>0 DEF SetActive, SLTypeOK, StoreTypes, CountTypes, StreamTypes, GraceInv, streamVars
  <2> QED
    BY Zenon, <2>1, <2>2, <2>3, <2>4, <2>5
<1>5. ASSUME RetireOld
      PROVE  SLInv'
  <2>1. SLTypeOK'
    <3>1. StoreTypes'
      <4>1. old \in Snaps /\ retireCh \in Seq(Snaps)
        BY Zenon, <1>5 DEF RetireOld, SLTypeOK, StoreTypes
      <4>2. retireCh' \in Seq(Snaps)
        <5>1. Append(retireCh, old) \in Seq(Snaps)
          BY <4>1
        <5>2. retireCh' = retireCh \/ retireCh' = Append(retireCh, old)
          BY Zenon, <1>5 DEF RetireOld
        <5> QED
          BY <4>1, <5>1, <5>2, Zenon
      <4>3. stage' \in [Snaps -> Retired \cup {"unbuilt", "live"}]
        BY Zenon, <1>5, <4>1 DEF RetireOld, SLTypeOK, StoreTypes
      <4> QED
        BY Zenon, <1>5, <4>2, <4>3 DEF RetireOld, SLTypeOK, StoreTypes
    <3>2. CountTypes'
      BY Zenon, <1>5 DEF RetireOld, SLTypeOK, CountTypes
    <3>3. StreamTypes'
      BY Zenon, <1>5 DEF RetireOld, streamVars, SLTypeOK, StreamTypes
    <3> QED
      BY Zenon, <3>1, <3>2, <3>3 DEF SLTypeOK
  <2>2. RefsAreHolders'
    BY Zenon, <1>5, HoldersUnchanged DEF RetireOld, streamVars
  <2>3. NoneForgotten'
    <3>1. /\ old \in Snaps /\ old # ptr /\ stage[old] = "live"
          /\ stage \in [Snaps -> Retired \cup {"unbuilt", "live"}]
          /\ ptr \in Snaps /\ built \in Snaps /\ retireCh \in Seq(Snaps)
      BY Zenon, <1>5 DEF RetireOld, SLTypeOK, StoreTypes, ReloadInv
    <3>2. CASE old = EmptySnapshot /\ UNCHANGED <<stage, retireCh>>
      BY <1>5, <3>1, <3>2 DEF RetireOld, NoneForgotten
    <3>3. CASE /\ old # EmptySnapshot
               /\ retireCh' = Append(retireCh, old)
               /\ stage' = [stage EXCEPT ![old] = "queued"]
      <4>1. stage'[old] = "queued" /\ \A v \in Snaps : v # old => stage'[v] = stage[v]
        BY Zenon, <3>1, <3>3
      <4>2. /\ Len(retireCh) \in Nat /\ Len(retireCh') = Len(retireCh) + 1
            /\ retireCh'[Len(retireCh) + 1] = old
            /\ \A i \in 1..Len(retireCh) : retireCh'[i] = retireCh[i] /\ retireCh[i] \in Snaps
        BY <3>1, <3>3
      <4>3. \A i \in 1..Len(retireCh) : retireCh[i] # old
        BY Zenon, <3>1 DEF NoneForgotten
      <4>4. stage'[ptr'] = "live"
        BY Zenon, <1>5, <3>1, <4>1 DEF RetireOld, NoneForgotten
      <4>5. \A v \in 1..built' : v = ptr' \/ v = old' \/ stage'[v] \in Retired
        BY <1>5, <3>1, <4>1 DEF RetireOld, NoneForgotten
      <4>6. \A v \in Snaps : stage'[v] = "queued" <=> \E i \in 1..Len(retireCh') : retireCh'[i] = v
        <5> SUFFICES ASSUME NEW v \in Snaps
                     PROVE  stage'[v] = "queued" <=> \E i \in 1..Len(retireCh') : retireCh'[i] = v
          BY Zenon
        <5>1. CASE v = old
          BY <4>1, <4>2, <5>1
        <5>2. CASE v # old
          BY <4>1, <4>2, <5>2 DEF NoneForgotten
        <5> QED
          BY Zenon, <5>1, <5>2
      <4>7. \A i, j \in 1..Len(retireCh') : retireCh'[i] = retireCh'[j] => i = j
        BY <4>2, <4>3 DEF NoneForgotten
      <4> QED
        BY Zenon, <4>4, <4>5, <4>6, <4>7 DEF NoneForgotten
    <3>4. CASE /\ old # EmptySnapshot
               /\ stage' = [stage EXCEPT ![old] = "grace"]
               /\ UNCHANGED retireCh
      <4>1. stage'[old] = "grace" /\ \A v \in Snaps : v # old => stage'[v] = stage[v]
        BY Zenon, <3>1, <3>4
      <4>2. stage'[ptr'] = "live"
        BY Zenon, <1>5, <3>1, <4>1 DEF RetireOld, NoneForgotten
      <4>3. \A v \in 1..built' : v = ptr' \/ v = old' \/ stage'[v] \in Retired
        BY <1>5, <3>1, <4>1 DEF RetireOld, NoneForgotten
      <4>4. \A v \in Snaps : stage'[v] = "queued" <=> stage[v] = "queued"
        BY Zenon, <3>1, <4>1
      <4> QED
        BY <3>4, <4>2, <4>3, <4>4 DEF NoneForgotten
    <3> QED
      BY Zenon, <1>5, <3>2, <3>3, <3>4 DEF RetireOld
  <2>4. ReloadInv'
    BY Zenon, <1>5 DEF RetireOld, SLTypeOK, StoreTypes, CountTypes, StreamTypes, ReloadInv
  <2>5. GraceInv'
    BY Zenon, <1>5 DEF RetireOld, SLTypeOK, StoreTypes, CountTypes, StreamTypes, ReloadInv, GraceInv, streamVars
  <2> QED
    BY Zenon, <2>1, <2>2, <2>3, <2>4, <2>5
<1>6. ASSUME TakeNext
      PROVE  SLInv'
  <2>0. /\ Head(retireCh) = retireCh[1] /\ retireCh[1] \in Snaps /\ stage[retireCh[1]] = "queued"
        /\ Len(retireCh) \in Nat \ {0}
    <3>1. retireCh \in Seq(Snaps) /\ retireCh # <<>>
      BY Zenon, <1>6 DEF TakeNext, SLTypeOK, StoreTypes
    <3>2. Head(retireCh) = retireCh[1] /\ retireCh[1] \in Snaps /\ Len(retireCh) \in Nat \ {0}
      BY SMTT(30), <3>1
    <3> QED
      BY <3>2 DEF NoneForgotten
  <2>1. SLTypeOK'
    <3>1. StoreTypes'
      BY <1>6, <2>0 DEF TakeNext, SLTypeOK, StoreTypes
    <3>2. CountTypes'
      BY Zenon, <1>6, <2>0 DEF TakeNext, SLTypeOK, CountTypes
    <3>3. StreamTypes'
      BY Zenon, <1>6, <2>0 DEF TakeNext, streamVars, SLTypeOK, StreamTypes
    <3> QED
      BY Zenon, <3>1, <3>2, <3>3 DEF SLTypeOK
  <2>2. RefsAreHolders'
    BY Zenon, <1>6, HoldersUnchanged DEF TakeNext, streamVars
  <2>3. NoneForgotten'
    <3>1. /\ stage \in [Snaps -> Retired \cup {"unbuilt", "live"}]
          /\ ptr \in Snaps /\ built \in Snaps /\ retireCh \in Seq(Snaps)
      BY Zenon DEF SLTypeOK, StoreTypes
    <3>2. /\ stage'[retireCh[1]] = "grace"
          /\ \A v \in Snaps : v # retireCh[1] => stage'[v] = stage[v]
      BY Zenon, <1>6, <2>0, <3>1 DEF TakeNext
    <3>3. /\ Len(retireCh') = Len(retireCh) - 1
          /\ \A i \in 1..Len(retireCh') : retireCh'[i] = retireCh[i + 1]
      BY SMTT(30), <1>6, <2>0, <3>1 DEF TakeNext
    <3>4. stage'[ptr'] = "live"
      BY SMTT(30), <1>6, <2>0, <3>1, <3>2 DEF TakeNext, NoneForgotten
    <3>5. \A v \in 1..built' : v = ptr' \/ v = old' \/ stage'[v] \in Retired
      BY <1>6, <3>1, <3>2 DEF TakeNext, NoneForgotten
    <3>6. \A v \in Snaps : stage'[v] = "queued" <=> \E i \in 1..Len(retireCh') : retireCh'[i] = v
      <4> SUFFICES ASSUME NEW v \in Snaps
                   PROVE  stage'[v] = "queued" <=> \E i \in 1..Len(retireCh') : retireCh'[i] = v
        BY Zenon
      <4>1. CASE v = retireCh[1]
        BY <2>0, <3>2, <3>3, <4>1 DEF NoneForgotten
      <4>2. CASE v # retireCh[1]
        <5>1. ASSUME stage'[v] = "queued"
              PROVE  \E i \in 1..Len(retireCh') : retireCh'[i] = v
          <6>1. PICK i \in 1..Len(retireCh) : retireCh[i] = v
            BY Zenon, <3>2, <4>2, <5>1 DEF NoneForgotten
          <6>2. i - 1 \in 1..Len(retireCh') /\ retireCh'[i - 1] = v
            BY <2>0, <3>3, <4>2, <6>1
          <6> QED
            BY Zenon, <6>2
        <5>2. ASSUME NEW i \in 1..Len(retireCh'), retireCh'[i] = v
              PROVE  stage'[v] = "queued"
          <6>1. i + 1 \in 1..Len(retireCh) /\ retireCh[i + 1] = v
            BY <2>0, <3>3, <5>2
          <6> QED
            BY Zenon, <3>2, <4>2, <6>1 DEF NoneForgotten
        <5> QED
          BY Zenon, <5>1, <5>2
      <4> QED
        BY Zenon, <4>1, <4>2
    <3>7. \A i, j \in 1..Len(retireCh') : retireCh'[i] = retireCh'[j] => i = j
      BY SMTT(30), <2>0, <3>3 DEF NoneForgotten
    <3> QED
      BY Zenon, <3>4, <3>5, <3>6, <3>7 DEF NoneForgotten
  <2>4. ReloadInv'
    BY Zenon, <1>6, <2>0 DEF TakeNext, SLTypeOK, StoreTypes, CountTypes, StreamTypes, ReloadInv
  <2>5. GraceInv'
    BY Zenon, <1>6, <2>0 DEF TakeNext, SLTypeOK, StoreTypes, CountTypes, StreamTypes, GraceInv, streamVars
  <2> QED
    BY Zenon, <2>1, <2>2, <2>3, <2>4, <2>5
<1>7. ASSUME NEW v \in Snaps, CloseRetired(v)
      PROVE  SLInv'
  <2>1. SLTypeOK'
    <3>1. StoreTypes'
      BY Zenon, <1>7 DEF CloseRetired, GraceOver, StreamsGone, Close, SLTypeOK, StoreTypes
    <3>2. CountTypes'
      BY Zenon, <1>7 DEF CloseRetired, GraceOver, StreamsGone, Close, SLTypeOK, CountTypes
    <3>3. StreamTypes'
      BY Zenon, <1>7 DEF CloseRetired, GraceOver, StreamsGone, Close, streamVars, SLTypeOK, StreamTypes
    <3> QED
      BY Zenon, <3>1, <3>2, <3>3 DEF SLTypeOK
  <2>2. RefsAreHolders'
    BY Zenon, <1>7, HoldersUnchanged DEF CloseRetired, GraceOver, StreamsGone, Close, streamVars
  <2>3. NoneForgotten'
    <3>1. /\ stage \in [Snaps -> Retired \cup {"unbuilt", "live"}]
          /\ ptr \in Snaps /\ built \in Snaps
      BY Zenon DEF SLTypeOK, StoreTypes
    <3>2. /\ stage[v] \in {"grace", "draining", "closing"}
          /\ stage'[v] \in {"draining", "closing", "closed"}
          /\ \A u \in Snaps : u # v => stage'[u] = stage[u]
          /\ UNCHANGED <<ptr, built, old, retireCh>>
      BY Zenon, <1>7, <3>1 DEF CloseRetired, GraceOver, StreamsGone, Close
    <3>3. stage'[ptr'] = "live"
      BY Zenon, <3>1, <3>2 DEF NoneForgotten
    <3>4. \A u \in 1..built' : u = ptr' \/ u = old' \/ stage'[u] \in Retired
      BY <3>1, <3>2 DEF NoneForgotten
    <3>5. \A u \in Snaps : stage'[u] = "queued" <=> stage[u] = "queued"
      BY Zenon, <3>2
    <3> QED
      BY <3>2, <3>3, <3>4, <3>5 DEF NoneForgotten
  <2>4. ReloadInv'
    BY Zenon, <1>7 DEF CloseRetired, GraceOver, StreamsGone, Close, SLTypeOK, StoreTypes, ReloadInv
  <2>5. GraceInv'
    BY Zenon, <1>7 DEF CloseRetired, GraceOver, StreamsGone, Close, SleptGrace, DoneWaiting,
                SLTypeOK, StoreTypes, CountTypes, StreamTypes, GraceInv, streamVars
  <2> QED
    BY Zenon, <2>1, <2>2, <2>3, <2>4, <2>5
<1>8. ASSUME Tick
      PROVE  SLInv'
  <2>1. SLTypeOK'
    <3>1. StoreTypes'
      BY Zenon, <1>8 DEF Tick, SLTypeOK, StoreTypes
    <3>2. CountTypes'
      <4>1. \A m \in Nat : \A n \in 0..m : CountDown(n) \in 0..m
        BY SMTT(30) DEF CountDown
      <4>2. graceLeft' \in [Snaps -> 0..Grace]
        BY Zenon, <1>8, <4>1 DEF Tick, SLTypeOK, CountTypes
      <4>3. waitLeft' \in [Snaps -> 0..MaxWait]
        BY Zenon, <1>8, <4>1 DEF Tick, SLTypeOK, CountTypes
      <4> QED
        BY Zenon, <1>8, <4>2, <4>3 DEF Tick, SLTypeOK, CountTypes
    <3>3. StreamTypes'
      BY SMTT(30), <1>8 DEF Tick, CountDown, SLTypeOK, StreamTypes
    <3> QED
      BY Zenon, <3>1, <3>2, <3>3 DEF SLTypeOK
  <2>2. RefsAreHolders'
    BY Zenon, <1>8, HoldersUnchanged DEF Tick
  <2>3. NoneForgotten' /\ ReloadInv'
    BY ZenonT(30), <1>8 DEF Tick, NoneForgotten, ReloadInv
  <2>4. GraceInv'
    BY SMTT(30), <1>8 DEF Tick, SLTypeOK, StoreTypes, CountTypes, StreamTypes, GraceInv, CountDown
  <2> QED
    BY Zenon, <2>1, <2>2, <2>3, <2>4
<1>9. CASE UNCHANGED slvars
  <2>1. RefsAreHolders'
    BY Zenon, <1>9, HoldersUnchanged DEF slvars, streamVars
  <2>2. SLTypeOK'
    <3>1. StoreTypes'
      BY Zenon, <1>9 DEF slvars, SLTypeOK, StoreTypes
    <3>2. CountTypes'
      BY Zenon, <1>9 DEF slvars, SLTypeOK, CountTypes
    <3>3. StreamTypes'
      BY Zenon, <1>9 DEF slvars, streamVars, SLTypeOK, StreamTypes
    <3> QED
      BY Zenon, <3>1, <3>2, <3>3 DEF SLTypeOK
  <2>3. NoneForgotten' /\ ReloadInv'
    BY Zenon, <1>9 DEF slvars, NoneForgotten, ReloadInv
  <2>4. GraceInv'
    BY ZenonT(30), <1>9 DEF slvars, streamVars, GraceInv
  <2> QED
    BY Zenon, <2>1, <2>2, <2>3, <2>4
<1> QED
  BY Zenon, <1>1, <1>2, <1>3, <1>4, <1>5, <1>6, <1>7, <1>8, <1>9 DEF SLNext

(* What the invariant says of a snapshot that is closed under a stream. *)
LEMMA SLInvSafe == SLInv => CloseOnlyDrainedOrCapped
<1> SUFFICES ASSUME SLInv, NEW s \in PinStreams,
                    pin[s] \in {"loaded", "pinned"}, stage[snap[s]] = "closed"
             PROVE  pin[s] = "pinned" /\ waitLeft[snap[s]] = 0
  BY Zenon DEF CloseOnlyDrainedOrCapped
<1>1. PICK u \in Snaps : u = snap[s]
  BY Zenon DEF SLInv, SLTypeOK, StoreTypes, CountTypes, StreamTypes
<1>2. pin[s] = "pinned"
  BY SMTT(30), <1>1, SnapshotAssumption DEF SLInv, SLTypeOK, StoreTypes, CountTypes, StreamTypes, GraceInv
<1>3. refs[u] # 0
  <2>1. Holders(u) # {}
    BY Zenon, <1>1, <1>2 DEF Holders
  <2>2. Cardinality(Holders(u)) # 0
    BY Zenon, <2>1, HoldersFinite, FS_EmptySet
  <2> QED
    BY Zenon, <2>2 DEF SLInv, RefsAreHolders
<1> QED
  BY ZenonT(30), <1>1, <1>2, <1>3 DEF SLInv, GraceInv

-----------------------------------------------------------------------------
(* The inductive invariant holds throughout. *)
LEMMA SLInvHolds == SLSpec => []SLInv
  BY SLInvInitially, SLInvKept, PTL DEF SLSpec

(* The store, the counts, the queue and the streams keep their types: no     *)
(* Release takes a count below zero, and no timer leaves its range.          *)
THEOREM SnapshotsTyped == SLSpec => []SLTypeOK
<1>1. SLInv => SLTypeOK
  BY Zenon DEF SLInv
<1> QED
  BY SLInvHolds, <1>1, PTL

(* A snapshot's count is the number of streams between Acquire and Release,  *)
(* for any interleaving of Pin, the deferred release and reloads.            *)
THEOREM CountsExact == SLSpec => []RefsAreHolders
<1>1. SLInv => RefsAreHolders
  BY Zenon DEF SLInv
<1> QED
  BY SLInvHolds, <1>1, PTL

(* Reload's retire callback and the retirer lose no snapshot and never touch *)
(* the ptr one, however many reloads there are and however small the      *)
(* queue is.                                                                 *)
THEOREM SnapshotsTracked == SLSpec => []NoneForgotten
<1>1. SLInv => NoneForgotten
  BY Zenon DEF SLInv
<1> QED
  BY SLInvHolds, <1>1, PTL

(* closeRetired closes the engines under a stream only after the capped      *)
(* wait, also under one that had loaded the pointer but not yet taken its    *)
(* reference: for every grace longer than that window.                       *)
THEOREM GraceCoversPin == SLSpec => []CloseOnlyDrainedOrCapped
  BY SLInvHolds, SLInvSafe, PTL

-----------------------------------------------------------------------------
(* BodyBudget, for every set of streams, every limit and every cap: the      *)
(* counter is exactly what the streams hold, the limit holds, no truncation  *)
(* is silent, and BodyBudget implements AtomicBudget.                        *)

(* The bytes a holding function stands for, as in ChargedBytes. *)
Bytes(h) == UNION {{s} \X (1..h[s]) : s \in Streams}

(* One stream's share of n bytes has n elements. *)
LEMMA ShareCardinality ==
  ASSUME NEW s, NEW n \in Nat
  PROVE  IsFiniteSet({s} \X (1..n)) /\ Cardinality({s} \X (1..n)) = n
<1>1. IsFiniteSet(1..n) /\ Cardinality(1..n) = n
  BY FS_Interval
<1>2. IsFiniteSet({s}) /\ Cardinality({s}) = 1
  BY Zenon, FS_Singleton
<1>3. /\ IsFiniteSet({s} \X (1..n))
      /\ Cardinality({s} \X (1..n)) = Cardinality({s}) * Cardinality(1..n)
  BY <1>1, <1>2, FS_Product, Zenon
<1> QED
  BY <1>1, <1>2, <1>3

(* Changing one stream's holding changes the total by the difference: the    *)
(* step every Acquire and Release takes on the counter.                      *)
LEMMA BytesUpdate ==
  ASSUME NEW h \in [Streams -> Nat], IsFiniteSet(Bytes(h)),
         NEW s \in Streams, NEW n \in Nat,
         NEW g \in [Streams -> Nat], g[s] = n, \A t \in Streams : t # s => g[t] = h[t]
  PROVE  /\ IsFiniteSet(Bytes(g))
         /\ Cardinality(Bytes(h)) \in Nat
         /\ h[s] <= Cardinality(Bytes(h))
         /\ Cardinality(Bytes(g)) = Cardinality(Bytes(h)) - h[s] + n
<1> DEFINE Old == {s} \X (1..h[s])
           New == {s} \X (1..n)
           Rest == Bytes(h) \ Old
<1>1. IsFiniteSet(Old) /\ Cardinality(Old) = h[s] /\ h[s] \in Nat
  BY Zenon, ShareCardinality
<1>2. IsFiniteSet(New) /\ Cardinality(New) = n
  BY Zenon, ShareCardinality
<1>3. Old \subseteq Bytes(h)
  BY Zenon DEF Bytes
<1>4. /\ IsFiniteSet(Rest)
      /\ Cardinality(Rest) = Cardinality(Bytes(h)) - Cardinality(Bytes(h) \cap Old)
  BY Zenon, FS_Difference
<1>5. Bytes(h) \cap Old = Old
  BY Zenon, <1>3
<1>6. Bytes(g) = Rest \cup New
  <2>2. \A x : x \in Bytes(g) <=> \E t \in Streams : x \in {t} \X (1..g[t])
    BY Zenon DEF Bytes
  <2>3. \A x : x \in Bytes(h) <=> \E t \in Streams : x \in {t} \X (1..h[t])
    BY Zenon DEF Bytes
  <2>4. \A x : x \in Old <=> x \in {s} \X (1..h[s])
    BY Zenon
  <2>5. \A x, t : t # s => ~(x \in {t} \X (1..g[t]) /\ x \in Old)
    BY Zenon
  <2>6. \A x : x \in Bytes(g) => x \in Rest \cup New
    BY Zenon, <2>2, <2>3, <2>5
  <2>7. \A x : x \in New => x \in Bytes(g)
    BY Zenon, <2>2
  <2>8. \A x : x \in Rest => x \in Bytes(g)
    BY Zenon, <2>2, <2>3
  <2> QED
    BY Zenon, <2>6, <2>7, <2>8
<1>7. Rest \cap New = {}
  <2>1. SUFFICES ASSUME NEW x, x \in Rest, x \in New
                 PROVE  FALSE
    BY Zenon
  <2>2. PICK t \in Streams : x \in {t} \X (1..h[t])
    BY <2>1 DEF Bytes
  <2>3. t = s
    BY Zenon, <2>1, <2>2
  <2> QED
    BY Zenon, <2>1, <2>2, <2>3
<1>8. /\ IsFiniteSet(Rest \cup New)
      /\ Cardinality(Rest \cup New) = Cardinality(Rest) + Cardinality(New) - Cardinality(Rest \cap New)
  <2> HIDE DEF Rest, New
  <2> QED
    BY <1>2, <1>4, FS_Union, Zenon
<1>9. Cardinality(Rest \cap New) = 0
  BY Zenon, <1>7, FS_EmptySet
<1>10. Cardinality(Bytes(h)) \in Nat /\ Cardinality(Rest) \in Nat
  BY Zenon, <1>4, FS_CardinalityType
<1>11. Cardinality(Rest) = Cardinality(Bytes(h)) - h[s]
  BY Zenon, <1>1, <1>4, <1>5
<1>12. Cardinality(Bytes(g)) = Cardinality(Rest) + n
  <2>1. Cardinality(Bytes(g)) = Cardinality(Rest \cup New)
    BY <1>6, Zenon
  <2> HIDE DEF Rest, New
  <2> QED
    BY <2>1, <1>2, <1>8, <1>9, <1>10
<1>13. IsFiniteSet(Bytes(g))
  BY Zenon, <1>6, <1>8
<1> HIDE DEF Rest
<1> QED
  BY <1>1, <1>10, <1>11, <1>12, <1>13

-----------------------------------------------------------------------------
(* The same fact about the model's own total, for a step that changes the    *)
(* reservation and the pending grant of one stream only.                     *)
LEMMA ChargedUpdate ==
  ASSUME TypeOK, IsFiniteSet(ChargedBytes),
         NEW s \in Streams, NEW r \in Nat, NEW g \in Nat,
         reserved' = [reserved EXCEPT ![s] = r],
         grant' = [grant EXCEPT ![s] = g]
  PROVE  /\ IsFiniteSet(ChargedBytes')
         /\ Cardinality(ChargedBytes) \in Nat
         /\ Held(s) \in Nat
         /\ Held(s) <= Cardinality(ChargedBytes)
         /\ Cardinality(ChargedBytes') = Cardinality(ChargedBytes) - Held(s) + r + g
<1> DEFINE h == [t \in Streams |-> Held(t)]
           k == [t \in Streams |-> reserved'[t] + grant'[t]]
<1>1. h \in [Streams -> Nat] /\ h[s] = Held(s)
  BY DEF TypeOK, Held
<1>2. /\ k \in [Streams -> Nat]
      /\ k[s] = r + g
      /\ \A t \in Streams : t # s => k[t] = h[t]
  BY DEF TypeOK, Held
<1>3. ChargedBytes = Bytes(h)
  BY Zenon DEF ChargedBytes, Bytes
<1>4. ChargedBytes' = Bytes(k)
  BY Zenon DEF ChargedBytes, Bytes, Held
<1>5. r + g \in Nat
  OBVIOUS
<1>6. IsFiniteSet(Bytes(h))
  BY <1>3, Zenon
<1> HIDE DEF h, k
<1>7. /\ IsFiniteSet(Bytes(k))
      /\ Cardinality(Bytes(h)) \in Nat
      /\ h[s] <= Cardinality(Bytes(h))
      /\ Cardinality(Bytes(k)) = Cardinality(Bytes(h)) - h[s] + (r + g)
  BY ZenonT(30), <1>1, <1>2, <1>5, <1>6, BytesUpdate
<1>8. /\ Cardinality(ChargedBytes) = Cardinality(Bytes(h))
      /\ Cardinality(ChargedBytes') = Cardinality(Bytes(k))
      /\ IsFiniteSet(ChargedBytes')
  BY <1>3, <1>4, <1>7, Zenon
<1> QED
  BY <1>1, <1>7, <1>8

-----------------------------------------------------------------------------
(* The initial state: every Transaction clean, nothing charged. *)
LEMMA InitInv == Init => IInv
<1> SUFFICES ASSUME Init PROVE IInv
  BY Zenon
<1> USE BudgetAssumption
<1>1. TypeOK
  BY Zenon DEF Init, TypeOK
<1>2. \A s \in Streams : StreamInv(s)
  BY DEF Init, StreamInv
<1>3. ChargedBytes = {}
  <2>1. \A s \in Streams : Held(s) = 0
    BY DEF Init, Held
  <2>2. \A s \in Streams : {s} \X (1..Held(s)) = {}
    BY <2>1
  <2> QED
    BY Zenon, <2>2 DEF ChargedBytes
<1>4. IsFiniteSet(ChargedBytes) /\ Cardinality(ChargedBytes) = 0
  BY Zenon, <1>3, FS_EmptySet
<1> QED
  BY <1>1, <1>2, <1>4 DEF Init, IInv, Accounted, Enabled

(* A step that leaves reservations and grants alone leaves the total alone. *)
LEMMA ChargedUnchanged ==
  ASSUME UNCHANGED <<reserved, grant>>
  PROVE  ChargedBytes' = ChargedBytes
BY Zenon DEF ChargedBytes, Held

(* Steps that do not touch the counter, the reservations or the grants keep  *)
(* the accounting.                                                           *)
LEMMA QuietStep ==
  ASSUME IInv, UNCHANGED <<inUse, reserved, grant>>
  PROVE  IsFiniteSet(ChargedBytes') /\ Accounted' /\ (Enabled => inUse' <= Limit)
<1>1. ChargedBytes' = ChargedBytes
  BY Zenon, ChargedUnchanged
<1>2. IsFiniteSet(ChargedBytes') /\ Cardinality(ChargedBytes') = Cardinality(ChargedBytes)
  BY <1>1, Zenon DEF IInv
<1> QED
  BY Zenon, <1>2 DEF IInv, Accounted, Enabled

(* A step of one stream that moves the counter by as much as it moves that   *)
(* stream's holding keeps the accounting, and the counter a natural number.  *)
LEMMA ChargingStep ==
  ASSUME IInv, NEW s \in Streams, NEW r \in Nat, NEW g \in Nat,
         reserved' = [reserved EXCEPT ![s] = r],
         grant' = [grant EXCEPT ![s] = g],
         Enabled => inUse' = inUse - Held(s) + r + g,
         ~Enabled => inUse' = inUse
  PROVE  /\ inUse' \in Nat
         /\ IsFiniteSet(ChargedBytes')
         /\ Accounted'
         /\ Enabled => Held(s) <= inUse /\ Held(s) \in Nat
<1>1. /\ IsFiniteSet(ChargedBytes')
      /\ Cardinality(ChargedBytes) \in Nat
      /\ Held(s) \in Nat
      /\ Held(s) <= Cardinality(ChargedBytes)
      /\ Cardinality(ChargedBytes') = Cardinality(ChargedBytes) - Held(s) + r + g
  BY Zenon, ChargedUpdate DEF IInv
<1>2. inUse \in Nat /\ (Enabled => inUse = Cardinality(ChargedBytes))
  BY Zenon DEF IInv, TypeOK, Accounted
<1>3. Accounted' <=> (Enabled => inUse' = Cardinality(ChargedBytes'))
  BY Zenon DEF Accounted, Enabled
<1> QED
  BY <1>1, <1>2, <1>3

-----------------------------------------------------------------------------
(* Every step of every handler preserves the inductive invariant. *)
LEMMA NextInv ==
  ASSUME IInv, [Next]_vars
  PROVE  IInv'
<1> USE BudgetAssumption
<1>0. TypeOK /\ (\A t \in Streams : StreamInv(t)) /\ (Enabled => inUse <= Limit)
  BY Zenon DEF IInv
<1> USE <1>0 DEF TypeOK
<1>1. ASSUME NEW s \in Streams, Open(s) PROVE IInv'
  <2> USE <1>1
  <2>1. TypeOK'
    BY Zenon DEF Open, txVars, acqVars
  <2>2. \A t \in Streams : StreamInv(t)'
    BY Zenon DEF Open, txVars, acqVars, StreamInv, Enabled
  <2>3. IsFiniteSet(ChargedBytes') /\ Accounted' /\ (Enabled => inUse' <= Limit)
    BY Zenon, QuietStep DEF Open, txVars, acqVars
  <2> QED
    BY Zenon, <2>1, <2>2, <2>3 DEF IInv, Enabled
<1>2. ASSUME NEW s \in Streams, NEW n \in ChunkLens, BodyMessage(s, n) PROVE IInv'
  <2> USE <1>2
  <2>1. TypeOK'
    BY DEF BodyMessage, CallAcquire
  <2>2. \A t \in Streams : StreamInv(t)'
    BY DEF BodyMessage, CallAcquire, StreamInv, Enabled
  <2>3. IsFiniteSet(ChargedBytes') /\ Accounted' /\ (Enabled => inUse' <= Limit)
    BY Zenon, QuietStep DEF BodyMessage, CallAcquire
  <2> QED
    BY Zenon, <2>1, <2>2, <2>3 DEF IInv, Enabled
<1>3. ASSUME NEW s \in Streams, NEW len \in 0..MaxDecoded, DecodeBody(s, len) PROVE IInv'
  <2> USE <1>3
  <2>1. TypeOK'
    BY DEF DecodeBody, CallAcquire, txVars, acqVars
  <2>2. \A t \in Streams : StreamInv(t)'
    BY DEF DecodeBody, CallAcquire, txVars, acqVars, StreamInv, Enabled
  <2>3. IsFiniteSet(ChargedBytes') /\ Accounted' /\ (Enabled => inUse' <= Limit)
    BY Zenon, QuietStep DEF DecodeBody, CallAcquire, txVars, acqVars
  <2> QED
    BY Zenon, <2>1, <2>2, <2>3 DEF IInv, Enabled
<1>4. ASSUME NEW s \in Streams, NEW len \in 0..MaxDecoded, MutateBody(s, len) PROVE IInv'
  <2> USE <1>4
  <2>1. TypeOK'
    BY DEF MutateBody, acqVars
  <2>2. \A t \in Streams : StreamInv(t)'
    BY Zenon DEF MutateBody, acqVars, StreamInv, Enabled
  <2>3. IsFiniteSet(ChargedBytes') /\ Accounted' /\ (Enabled => inUse' <= Limit)
    BY Zenon, QuietStep DEF MutateBody, acqVars
  <2> QED
    BY Zenon, <2>1, <2>2, <2>3 DEF IInv, Enabled
<1>5. ASSUME NEW s \in Streams, Load(s) PROVE IInv'
  <2> USE <1>5
  <2> DEFINE r == reserved[s]
             g == grant'[s]
  <2>1. r \in Nat /\ g \in Nat /\ Held(s) = reserved[s] + grant[s]
    BY DEF Held, Load, txVars
  <2>2. /\ reserved' = [reserved EXCEPT ![s] = r]
        /\ grant' = [grant EXCEPT ![s] = g]
    BY DEF StreamInv, Load, txVars
  <2>3. /\ Enabled => inUse' = inUse - Held(s) + r + g
        /\ ~Enabled => inUse' = inUse
    BY <2>1 DEF StreamInv, Load, txVars
  <2> HIDE DEF r, g
  <2>4. /\ inUse' \in Nat
        /\ IsFiniteSet(ChargedBytes')
        /\ Accounted'
        /\ Enabled => Held(s) <= inUse /\ Held(s) \in Nat
    BY Zenon, <2>1, <2>2, <2>3, ChargingStep
  <2> USE DEF r, g
  <2>5. TypeOK'
    BY <2>1, <2>2, <2>4 DEF Load, txVars
  <2>6. \A t \in Streams : StreamInv(t)'
    BY <2>1 DEF StreamInv, Enabled, Load, txVars
  <2>7. Enabled => inUse' <= Limit
    BY Zenon, <2>1, <2>3, <2>4 DEF StreamInv, Load, txVars
  <2> QED
    BY Zenon, <2>4, <2>5, <2>6, <2>7 DEF IInv, Enabled
<1>6. ASSUME NEW s \in Streams, CompareAndSwap(s) PROVE IInv'
  <2> USE <1>6
  <2> DEFINE r == reserved[s]
             g == grant'[s]
  <2>1. r \in Nat /\ g \in Nat /\ Held(s) = reserved[s] + grant[s]
    BY DEF Held, StreamInv, CompareAndSwap, Unchanged, Least, Enabled, txVars
  <2>2. /\ reserved' = [reserved EXCEPT ![s] = r]
        /\ grant' = [grant EXCEPT ![s] = g]
    BY Zenon DEF StreamInv, CompareAndSwap, Unchanged, Least, Enabled, txVars
  <2>3. /\ Enabled => inUse' = inUse - Held(s) + r + g
        /\ ~Enabled => inUse' = inUse
    BY <2>1 DEF StreamInv, CompareAndSwap, Unchanged, Least, Enabled, txVars
  <2> HIDE DEF r, g
  <2>4. /\ inUse' \in Nat
        /\ IsFiniteSet(ChargedBytes')
        /\ Accounted'
        /\ Enabled => Held(s) <= inUse /\ Held(s) \in Nat
    BY Zenon, <2>1, <2>2, <2>3, ChargingStep
  <2> USE DEF r, g
  <2>5. TypeOK'
    BY ZenonT(30), <2>1, <2>2, <2>4 DEF CompareAndSwap, Unchanged, Least, Enabled, txVars
  <2>6. \A t \in Streams : StreamInv(t)'
    BY <2>1 DEF StreamInv, Enabled, CompareAndSwap, Unchanged, Least, Enabled, txVars
  <2>7. Enabled => inUse' <= Limit
    BY <2>1, <2>3, <2>4 DEF StreamInv, CompareAndSwap, Unchanged, Least, Enabled, txVars
  <2> QED
    BY Zenon, <2>4, <2>5, <2>6, <2>7 DEF IInv, Enabled
<1>7. ASSUME NEW s \in Streams, AppendBody(s) PROVE IInv'
  <2> USE <1>7
  <2> DEFINE r == reserved[s] + Stored(s)
             g == 0
  <2>0. Stored(s) \in Nat /\ Stored(s) <= grant[s]
    BY DEF Stored, Least
  <2>1. r \in Nat /\ g \in Nat /\ Held(s) = reserved[s] + grant[s]
    BY <2>0 DEF Held, AppendBody, CutShort, Return, AfterRelease
  <2>2. /\ reserved' = [reserved EXCEPT ![s] = r]
        /\ grant' = [grant EXCEPT ![s] = g]
    BY Zenon DEF StreamInv, AppendBody, CutShort, Return, AfterRelease
  <2>3. /\ Enabled => inUse' = inUse - Held(s) + r + g
        /\ ~Enabled => inUse' = inUse
    BY <2>0, <2>1 DEF StreamInv, AppendBody, CutShort, Return, AfterRelease
  <2> HIDE DEF r, g
  <2>4. /\ inUse' \in Nat
        /\ IsFiniteSet(ChargedBytes')
        /\ Accounted'
        /\ Enabled => Held(s) <= inUse /\ Held(s) \in Nat
    BY Zenon, <2>1, <2>2, <2>3, ChargingStep
  <2> USE DEF r, g
  <2>5. TypeOK'
    BY <2>0, <2>1, <2>2, <2>4 DEF AppendBody, CutShort, Return, AfterRelease
  <2>6. \A t \in Streams : StreamInv(t)'
    <3>1. StreamInv(s)'
      <4>1. /\ pc'[s] = "open" /\ purpose'[s] = "chunk" /\ want'[s] = 0 /\ grant'[s] = 0
            /\ body'[s] = body[s] + Stored(s) /\ reserved'[s] = reserved[s] + Stored(s)
            /\ received'[s] = received[s] /\ rewritten'[s] = rewritten[s]
        BY Zenon DEF AppendBody, CutShort, Return
      <4>2. truncated'[s] = (truncated[s] \/ Stored(s) < grant[s] \/ grant[s] < want[s])
        BY Zenon DEF AppendBody, CutShort
      <4>3. ~truncated'[s] => ~truncated[s] /\ ~(Stored(s) < grant[s]) /\ ~(grant[s] < want[s])
        BY Zenon, <4>2
      <4>4. pc[s] = "granted" /\ purpose[s] = "chunk" /\ StreamInv(s)
        BY Zenon DEF AppendBody, CutShort
      <4>5. ~truncated'[s] /\ rewritten[s] = "no" => received[s] = body[s] + Stored(s)
        BY <2>0, <4>3, <4>4 DEF StreamInv
      <4> QED
        BY <2>0, <4>1, <4>4, <4>5 DEF StreamInv
    <3>2. \A t \in Streams : t # s => StreamInv(t)'
      BY DEF StreamInv, Enabled, AppendBody, CutShort, Return
    <3> QED
      BY Zenon, <3>1, <3>2
  <2>7. Enabled => inUse' <= Limit
    BY <2>0, <2>1, <2>3, <2>4 DEF StreamInv, AppendBody, CutShort, Return, AfterRelease
  <2> QED
    BY Zenon, <2>4, <2>5, <2>6, <2>7 DEF IInv, Enabled
<1>8. ASSUME NEW s \in Streams, ReplaceBody(s) PROVE IInv'
  <2> USE <1>8
  <2> DEFINE r == reserved[s] + grant[s]
             g == 0
  <2>1. r \in Nat /\ g \in Nat /\ Held(s) = reserved[s] + grant[s]
    BY DEF Held, ReplaceBody, FullyGranted, Return
  <2>2. /\ reserved' = [reserved EXCEPT ![s] = r]
        /\ grant' = [grant EXCEPT ![s] = g]
    BY Zenon DEF StreamInv, ReplaceBody, FullyGranted, Return
  <2>3. /\ Enabled => inUse' = inUse - Held(s) + r + g
        /\ ~Enabled => inUse' = inUse
    BY <2>1 DEF StreamInv, ReplaceBody, FullyGranted, Return
  <2> HIDE DEF r, g
  <2>4. /\ inUse' \in Nat
        /\ IsFiniteSet(ChargedBytes')
        /\ Accounted'
        /\ Enabled => Held(s) <= inUse /\ Held(s) \in Nat
    BY Zenon, <2>1, <2>2, <2>3, ChargingStep
  <2> USE DEF r, g
  <2>5. TypeOK'
    BY <2>1, <2>2, <2>4 DEF ReplaceBody, FullyGranted, Return
  <2>6. \A t \in Streams : StreamInv(t)'
    BY <2>1 DEF StreamInv, Enabled, ReplaceBody, FullyGranted, Return
  <2>7. Enabled => inUse' <= Limit
    BY Zenon, <2>1, <2>3, <2>4 DEF StreamInv, ReplaceBody, FullyGranted, Return
  <2> QED
    BY Zenon, <2>4, <2>5, <2>6, <2>7 DEF IInv, Enabled
<1>9. ASSUME NEW s \in Streams, BeginResponse(s) PROVE IInv'
  <2> USE <1>9
  <2> DEFINE r == 0
             g == 0
  <2>1. r \in Nat /\ g \in Nat /\ Held(s) = reserved[s] + grant[s]
    BY Zenon DEF Held, BeginResponse, ClearBody, AfterRelease, acqVars
  <2>2. /\ reserved' = [reserved EXCEPT ![s] = r]
        /\ grant' = [grant EXCEPT ![s] = g]
    BY Zenon DEF StreamInv, BeginResponse, ClearBody, AfterRelease, acqVars
  <2>3. /\ Enabled => inUse' = inUse - Held(s) + r + g
        /\ ~Enabled => inUse' = inUse
    BY <2>1 DEF StreamInv, BeginResponse, ClearBody, AfterRelease, acqVars
  <2> HIDE DEF r, g
  <2>4. /\ inUse' \in Nat
        /\ IsFiniteSet(ChargedBytes')
        /\ Accounted'
        /\ Enabled => Held(s) <= inUse /\ Held(s) \in Nat
    BY Zenon, <2>1, <2>2, <2>3, ChargingStep
  <2> USE DEF r, g
  <2>5. TypeOK'
    BY <2>1, <2>2, <2>4 DEF BeginResponse, ClearBody, AfterRelease, acqVars
  <2>6. \A t \in Streams : StreamInv(t)'
    BY <2>1 DEF StreamInv, Enabled, BeginResponse, ClearBody, AfterRelease, acqVars
  <2>7. Enabled => inUse' <= Limit
    BY <2>1, <2>3, <2>4 DEF StreamInv, BeginResponse, ClearBody, AfterRelease, acqVars
  <2> QED
    BY Zenon, <2>4, <2>5, <2>6, <2>7 DEF IInv, Enabled
<1>10. ASSUME NEW s \in Streams, EndStream(s) PROVE IInv'
  <2> USE <1>10
  <2> DEFINE r == 0
             g == 0
  <2>1. r \in Nat /\ g \in Nat /\ Held(s) = reserved[s] + grant[s]
    BY Zenon DEF Held, EndStream, ClearBody, AfterRelease, acqVars
  <2>2. /\ reserved' = [reserved EXCEPT ![s] = r]
        /\ grant' = [grant EXCEPT ![s] = g]
    BY Zenon DEF StreamInv, EndStream, ClearBody, AfterRelease, acqVars
  <2>3. /\ Enabled => inUse' = inUse - Held(s) + r + g
        /\ ~Enabled => inUse' = inUse
    BY <2>1 DEF StreamInv, EndStream, ClearBody, AfterRelease, acqVars
  <2> HIDE DEF r, g
  <2>4. /\ inUse' \in Nat
        /\ IsFiniteSet(ChargedBytes')
        /\ Accounted'
        /\ Enabled => Held(s) <= inUse /\ Held(s) \in Nat
    BY Zenon, <2>1, <2>2, <2>3, ChargingStep
  <2> USE DEF r, g
  <2>5. TypeOK'
    BY <2>1, <2>2, <2>4 DEF EndStream, ClearBody, AfterRelease, acqVars
  <2>6. \A t \in Streams : StreamInv(t)'
    BY <2>1 DEF StreamInv, Enabled, EndStream, ClearBody, AfterRelease, acqVars
  <2>7. Enabled => inUse' <= Limit
    BY <2>1, <2>3, <2>4 DEF StreamInv, EndStream, ClearBody, AfterRelease, acqVars
  <2> QED
    BY Zenon, <2>4, <2>5, <2>6, <2>7 DEF IInv, Enabled
<1>11. ASSUME UNCHANGED vars PROVE IInv'
  <2> USE <1>11
  <2>1. TypeOK'
    BY Zenon DEF vars, txVars, acqVars
  <2>2. \A t \in Streams : StreamInv(t)'
    BY Zenon DEF vars, txVars, acqVars, StreamInv, Enabled
  <2>3. IsFiniteSet(ChargedBytes') /\ Accounted' /\ (Enabled => inUse' <= Limit)
    BY Zenon, QuietStep DEF vars, txVars, acqVars
  <2> QED
    BY Zenon, <2>1, <2>2, <2>3 DEF IInv, Enabled
<1> QED
  BY Zenon, <1>1, <1>2, <1>3, <1>4, <1>5, <1>6, <1>7, <1>8, <1>9, <1>10, <1>11
     DEF Next, Acquire

-----------------------------------------------------------------------------
(* The inductive invariant holds throughout. *)
LEMMA Invariance == Spec => []IInv
BY InitInv, NextInv, PTL DEF Spec

(* No subtraction of Acquire, Release or the handlers goes below zero: the   *)
(* counter, the reservations and the buffers are natural numbers throughout. *)
THEOREM BudgetTyped == Spec => []TypeOK
<1>1. IInv => TypeOK
  BY Zenon DEF IInv
<1> QED
  BY <1>1, Invariance, PTL

(* The counter of budget.go is at all times exactly the bytes its streams    *)
(* hold: no release is lost, repeated or made for bytes never acquired.      *)
THEOREM BudgetAccounted == Spec => []Accounted
<1>1. IInv => Accounted
  BY Zenon DEF IInv
<1> QED
  BY <1>1, Invariance, PTL

(* The streams together never hold more than the limit. *)
THEOREM BudgetWithinLimit == Spec => []WithinLimit
<1>1. IInv => WithinLimit
  BY Zenon DEF IInv, Accounted, WithinLimit
<1> QED
  BY <1>1, Invariance, PTL

(* Every buffer that DLP did not rewrite is covered by its own reservation. *)
THEOREM BuffersCharged == Spec => []ResidentIsCharged
<1>1. IInv => ResidentIsCharged
  BY Zenon DEF IInv, StreamInv, ResidentIsCharged
<1> QED
  BY <1>1, Invariance, PTL

(* A body that reaches inspection unmarked and as received is complete. *)
THEOREM TruncationMarked == Spec => []NoSilentTruncation
<1>1. IInv => NoSilentTruncation
  BY DEF IInv, TypeOK, StreamInv, NoSilentTruncation
<1> QED
  BY <1>1, Invariance, PTL

-----------------------------------------------------------------------------
(* Each step of the implementation changes the holding of one stream only. *)
LEMMA OneHolder ==
  ASSUME TypeOK, [Next]_vars
  PROVE  \/ UNCHANGED <<reserved, grant>>
         \/ \E s \in Streams : \A t \in Streams :
              t # s => reserved'[t] = reserved[t] /\ grant'[t] = grant[t]
<1> USE DEF TypeOK
<1>1. ASSUME NEW s \in Streams,
             \/ Open(s) \/ \E n \in ChunkLens : BodyMessage(s, n)
             \/ \E len \in 0..MaxDecoded : DecodeBody(s, len) \/ MutateBody(s, len)
      PROVE  UNCHANGED <<reserved, grant>>
  BY Zenon, <1>1 DEF Open, BodyMessage, DecodeBody, MutateBody, CallAcquire, txVars, acqVars
<1>2. ASSUME NEW s \in Streams, NEW t \in Streams, t # s,
             \/ Load(s) \/ CompareAndSwap(s) \/ AppendBody(s) \/ ReplaceBody(s)
             \/ BeginResponse(s) \/ EndStream(s)
      PROVE  reserved'[t] = reserved[t] /\ grant'[t] = grant[t]
  BY <1>2 DEF Load, CompareAndSwap, Unchanged, AppendBody, CutShort, ReplaceBody, FullyGranted, BeginResponse, EndStream,
              Return, ClearBody, txVars, acqVars
<1>3. UNCHANGED vars => UNCHANGED <<reserved, grant>>
  BY Zenon DEF vars, txVars, acqVars
<1> QED
  BY Zenon, <1>1, <1>2, <1>3 DEF Next, Acquire

(* A step is a Take or a GiveBack of the atomic allocator, or a stutter. *)
LEMMA AtomicStep ==
  ASSUME IInv, IInv', [Next]_vars
  PROVE  [Atomic!Next]_([s \in Streams |-> Held(s)])
<1> DEFINE h == [s \in Streams |-> Held(s)]
<1>1. /\ h \in [Streams -> Nat] /\ h' \in [Streams -> Nat]
      /\ \A t \in Streams : /\ h[t] = reserved[t] + grant[t]
                            /\ h'[t] = reserved'[t] + grant'[t]
  BY DEF IInv, TypeOK, Held
<1>2. Limit > 0 => Cardinality(ChargedBytes') <= Limit
  BY Zenon DEF IInv, Accounted, Enabled
<1>3. Atomic!Taken' = ChargedBytes'
  BY Zenon DEF Atomic!Taken, ChargedBytes
<1>4. CASE UNCHANGED <<reserved, grant>>
  <2>1. h' = h
    BY Zenon, <1>4 DEF Held
  <2> QED
    BY Zenon, <2>1
<1>5. ASSUME NEW s \in Streams,
             \A t \in Streams : t # s => reserved'[t] = reserved[t] /\ grant'[t] = grant[t]
      PROVE  Atomic!Next
  <2>1. h' = [h EXCEPT ![s] = h'[s]]
    <3>1. \A t \in Streams : t # s => h'[t] = h[t]
      BY <1>1, <1>5
    <3> HIDE DEF h
    <3> QED
      BY Zenon, <1>1, <3>1
  <2>2. h'[s] > h[s] \/ h'[s] \in 0..h[s]
    BY <1>1
  <2>3. Limit > 0 => Atomic!Cardinality(Atomic!Taken') <= Limit
    <3>1. Atomic!Cardinality(ChargedBytes') = Cardinality(ChargedBytes')
      BY Zenon DEF Atomic!Cardinality, Cardinality
    <3>2. Atomic!Cardinality(Atomic!Taken') = Cardinality(ChargedBytes')
      BY <3>1, <1>3, Zenon
    <3> QED
      BY Zenon, <1>2, <3>2
  <2>4. Atomic!Holds(s, h'[s])
    BY Zenon, <2>1 DEF Atomic!Holds
  <2>5. CASE h'[s] > h[s]
    BY Zenon, <2>3, <2>4, <2>5 DEF Atomic!Take, Atomic!Next
  <2>6. CASE h'[s] \in 0..h[s]
    BY Zenon, <2>4, <2>6 DEF Atomic!GiveBack, Atomic!Next
  <2> QED
    BY Zenon, <2>2, <2>5, <2>6
<1>6. TypeOK
  BY Zenon DEF IInv
<1> QED
  BY Zenon, <1>4, <1>5, <1>6, OneHolder

(* Every behaviour of the compare-and-swap budget and of the handlers that   *)
(* use it is a behaviour of an atomic allocator of Limit bytes.              *)
THEOREM BudgetRefinement == Spec => ImplementsAtomic
<1>1. Init => Atomic!Init
  BY DEF Init, Atomic!Init, Held
<1> QED
  BY <1>1, AtomicStep, Invariance, PTL DEF Spec, ImplementsAtomic, Atomic!Spec
=============================================================================
