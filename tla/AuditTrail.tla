----------------------------- MODULE AuditTrail -----------------------------
(***************************************************************************)
(* An audit event's way out of the process: BufferedExporter's bounded     *)
(* queue and drain workers (internal/audit/exporters.go) in front of the   *)
(* batching ClickHouse sink (internal/audit/clickhouse/clickhouse.go), up  *)
(* to the Flush and Close of a shutdown (cmd/elchi-shield/main.go).        *)
(*                                                                         *)
(* Export's two selects, the receive, the work under the batch mutex and   *)
(* the Send outside it are separate steps.  The limiter may refuse any     *)
(* event that is not a finding, and the server any call.                   *)
(***************************************************************************)
EXTENDS Naturals, Sequences, FiniteSets

CONSTANTS Events,       \* events the request path emits
          Findings,     \* those whose action is block, detect or shadow
          Workers,      \* drain workers (auditWorkers)
          QueueCap,     \* capacity of BufferedExporter.queue
          BatchSize,    \* rows per ClickHouse batch
          Ticker, Main, \* the periodic flusher and the main goroutine
          None          \* no event

ASSUME AuditAssumption ==
  /\ IsFiniteSet(Events) /\ Findings \subseteq Events /\ None \notin Events
  /\ IsFiniteSet(Workers) /\ Ticker \notin Workers /\ Main \notin Workers \cup {Ticker}
  /\ QueueCap \in Nat \ {0} /\ BatchSize \in Nat \ {0}

Goroutines == Workers \cup {Ticker, Main}

VARIABLES call,      \* an event's Export call: before, between its selects, over
          queue, done,
          mode,      \* a worker's loop: run, drain (done seen), gone
          ev,        \* the event a worker is exporting
          batch,     \* rows staged in e.batch; NoBatch when it is nil
          pending,   \* e.pending
          stuck,     \* e.mu was left locked
          out,       \* rows of the detached batch a goroutine is sending
          ticker,    \* flushLoop is running
          main,      \* the shutdown sequence
          saved,    \* rows the server accepted
          dropped, failed,   \* BufferedExporter's counters
          rowsDropped        \* Exporter.dropped

inVars == <<call, queue, done>>
sinkVars == <<batch, pending, stuck>>
counters == <<saved, dropped, failed, rowsDropped>>
atvars == <<inVars, mode, ev, sinkVars, out, ticker, main, counters>>

NoBatch == {None}
Rows == batch \ NoBatch
Sending(g) == out[g] # {}

ATInit ==
  /\ call = [e \in Events |-> "new"]
  /\ queue = <<>> /\ done = FALSE
  /\ mode = [w \in Workers |-> "run"] /\ ev = [w \in Workers |-> None]
  /\ batch = {} /\ pending = 0 /\ stuck = FALSE
  /\ out = [g \in Goroutines |-> {}]
  /\ ticker = TRUE /\ main = "serving"
  /\ saved = {} /\ dropped = 0 /\ failed = 0 /\ rowsDropped = 0

-----------------------------------------------------------------------------
(* BufferedExporter.Export, first select: is the exporter closing? *)
Emit(e) ==
  /\ call[e] = "new"
  /\ \/ ~done /\ call' = [call EXCEPT ![e] = "checked"] /\ UNCHANGED dropped
     \/ done /\ call' = [call EXCEPT ![e] = "over"] /\ dropped' = dropped + 1
  /\ UNCHANGED <<queue, done, mode, ev, sinkVars, out, ticker, main, saved, failed, rowsDropped>>

(* Second select: send, or see done, or find neither possible.  Ready cases  *)
(* are picked at random.                                                     *)
Enqueue(e) ==
  /\ call[e] = "checked"
  /\ call' = [call EXCEPT ![e] = "over"]
  /\ \/ Len(queue) < QueueCap /\ queue' = Append(queue, e) /\ UNCHANGED dropped
     \/ (done \/ Len(queue) >= QueueCap) /\ dropped' = dropped + 1 /\ UNCHANGED queue
  /\ UNCHANGED <<done, mode, ev, sinkVars, out, ticker, main, saved, failed, rowsDropped>>

-----------------------------------------------------------------------------
(* BufferedExporter.run *)
Free(w) == ev[w] = None /\ ~Sending(w)

Receive(w) ==
  /\ mode[w] \in {"run", "drain"} /\ Free(w) /\ queue # <<>>
  /\ ev' = [ev EXCEPT ![w] = Head(queue)]
  /\ queue' = Tail(queue)
  /\ UNCHANGED <<call, done, mode, sinkVars, out, ticker, main, counters>>

(* Mutant of SeeDone: the worker returns without draining. *)
LeaveAtOnce(w) ==
  /\ mode[w] = "run" /\ Free(w) /\ done
  /\ mode' = [mode EXCEPT ![w] = "gone"]
  /\ UNCHANGED <<inVars, ev, sinkVars, out, ticker, main, counters>>

SeeDone(w) ==
  /\ mode[w] = "run" /\ Free(w) /\ done
  /\ mode' = [mode EXCEPT ![w] = "drain"]
  /\ UNCHANGED <<inVars, ev, sinkVars, out, ticker, main, counters>>

Exit(w) ==
  /\ mode[w] = "drain" /\ Free(w) /\ queue = <<>>
  /\ mode' = [mode EXCEPT ![w] = "gone"]
  /\ UNCHANGED <<inVars, ev, sinkVars, out, ticker, main, counters>>

(* export: the limiter sheds an event that is not a finding. *)
Shed(w) ==
  /\ ev[w] # None /\ ev[w] \notin Findings
  /\ ev' = [ev EXCEPT ![w] = None]
  /\ dropped' = dropped + 1
  /\ UNCHANGED <<inVars, mode, sinkVars, out, ticker, main, saved, failed, rowsDropped>>

-----------------------------------------------------------------------------
(* clickhouse.Exporter.  renewBatch: a fresh batch, or nil if the server     *)
(* refuses to prepare one.                                                   *)
RenewBatch == batch' \in {{}, NoBatch} /\ pending' = 0

(* Export when there is no batch and none can be prepared. *)
NoBatchToAppend(w) ==
  /\ ev[w] # None /\ ~stuck
  /\ batch = NoBatch
  /\ rowsDropped' = rowsDropped + 1
  /\ ev' = [ev EXCEPT ![w] = None]
  /\ UNCHANGED <<inVars, mode, sinkVars, out, ticker, main, saved, dropped, failed>>

(* Mutant of Poisoned: only the failed row is counted. *)
OnlyFailedRow == 1

(* The rows a failed Append takes with it. *)
Poisoned == pending + 1

(* Export when Append fails: the whole batch is discarded. *)
AppendFails(w) ==
  /\ ev[w] # None /\ ~stuck
  /\ rowsDropped' = rowsDropped + Poisoned
  /\ RenewBatch
  /\ ev' = [ev EXCEPT ![w] = None]
  /\ UNCHANGED <<inVars, mode, stuck, out, ticker, main, saved, dropped, failed>>

(* Mutant of Full: compared before the new row is counted. *)
FullLate == pending >= BatchSize

(* The row being appended fills the batch. *)
Full == pending + 1 >= BatchSize

(* Export stages the row, and detaches the batch when that fills it. *)
AppendRow(w) ==
  /\ ev[w] # None /\ ~stuck
  /\ \/ /\ ~Full
        /\ batch' = Rows \cup {ev[w]} /\ pending' = pending + 1
        /\ UNCHANGED out
     \/ /\ Full
        /\ out' = [out EXCEPT ![w] = Rows \cup {ev[w]}]
        /\ RenewBatch
  /\ ev' = [ev EXCEPT ![w] = None]
  /\ UNCHANGED <<inVars, mode, stuck, ticker, main, counters>>

(* Append panics: export's recover counts the event, nothing unlocks e.mu. *)
AppendPanics(w) ==
  /\ ev[w] # None /\ ~stuck
  /\ stuck' = TRUE
  /\ failed' = failed + 1
  /\ ev' = [ev EXCEPT ![w] = None]
  /\ UNCHANGED <<inVars, mode, batch, pending, out, ticker, main, saved, dropped, rowsDropped>>

(* send, outside the mutex: the server takes the batch or all is lost. *)
SendBatch(g) ==
  /\ Sending(g)
  /\ out' = [out EXCEPT ![g] = {}]
  /\ \/ saved' = saved \cup out[g] /\ UNCHANGED rowsDropped
     \/ rowsDropped' = rowsDropped + Cardinality(out[g]) /\ UNCHANGED saved
  /\ UNCHANGED <<inVars, mode, ev, sinkVars, ticker, main, dropped, failed>>

(* Flush: detach what is staged; with nothing pending there is nothing to do. *)
Detach(g) ==
  /\ ~stuck
  /\ out' = [out EXCEPT ![g] = Rows]
  /\ IF pending = 0 THEN UNCHANGED <<batch, pending>> ELSE RenewBatch
  /\ UNCHANGED stuck

(* flushLoop: a tick flushes, stop ends it. *)
FlushTick ==
  /\ ticker /\ ~Sending(Ticker) /\ pending > 0
  /\ Detach(Ticker)
  /\ UNCHANGED <<inVars, mode, ev, ticker, main, counters>>

FlushLoopStops ==
  /\ ticker /\ ~Sending(Ticker) /\ main = "stopping"
  /\ ticker' = FALSE
  /\ UNCHANGED <<inVars, mode, ev, sinkVars, out, main, counters>>

-----------------------------------------------------------------------------
(* The shutdown sequence of main: auditor.Flush waits for an empty queue or  *)
(* the deadline and flushes the sink, ...                                    *)
ShutdownFlush ==
  /\ main = "serving" /\ main' = "flushed"
  /\ Detach(Main)
  /\ UNCHANGED <<inVars, mode, ev, ticker, counters>>

(* ... the deferred auditor.Close signals the workers, ... *)
CloseBuffer ==
  /\ main = "flushed" /\ ~Sending(Main) /\ main' = "draining"
  /\ done' = TRUE
  /\ UNCHANGED <<call, queue, mode, ev, sinkVars, out, ticker, counters>>

(* ... waits for them and stops the flush loop, ... *)
StopFlushLoop ==
  /\ main = "draining" /\ \A w \in Workers : mode[w] = "gone"
  /\ main' = "stopping"
  /\ UNCHANGED <<inVars, mode, ev, sinkVars, out, ticker, counters>>

(* ... takes the last rows for a final send and closes the connection. *)
CloseSink ==
  /\ main = "stopping" /\ ~ticker /\ ~stuck
  /\ out' = [out EXCEPT ![Main] = Rows]
  /\ batch' = NoBatch /\ pending' = 0
  /\ main' = "closed"
  /\ UNCHANGED <<inVars, mode, ev, stuck, ticker, counters>>

-----------------------------------------------------------------------------
SinkExport(w) == NoBatchToAppend(w) \/ AppendFails(w) \/ AppendRow(w) \/ AppendPanics(w)
Worker(w) == Receive(w) \/ SeeDone(w) \/ Exit(w) \/ Shed(w) \/ SinkExport(w)
Shutdown == CloseBuffer \/ StopFlushLoop \/ CloseSink

ATNext ==
  \/ \E e \in Events : Emit(e) \/ Enqueue(e)
  \/ \E w \in Workers : Worker(w)
  \/ \E g \in Goroutines : SendBatch(g)
  \/ FlushTick \/ FlushLoopStops
  \/ ShutdownFlush \/ Shutdown

(* Workers, the flush loop and a begun shutdown are scheduled, and a Send    *)
(* returns; emitting and the shutdown signal are up to the environment.      *)
ATFairness ==
  /\ \A w \in Workers : WF_atvars(Worker(w))
  /\ \A g \in Goroutines : WF_atvars(SendBatch(g))
  /\ WF_atvars(FlushTick) /\ WF_atvars(FlushLoopStops) /\ WF_atvars(Shutdown)

ATSpec == ATInit /\ [][ATNext]_atvars /\ ATFairness

-----------------------------------------------------------------------------
Queued(e) == \E i \in 1..Len(queue) : queue[i] = e
InHand == {w \in Workers : ev[w] # None}
InFlight == {p \in Goroutines \X Events : p[2] \in out[p[1]]}
Over == {e \in Events : call[e] = "over"}

(* Types of the queue, the workers, the batch and the counters. *)
ATTypeOK ==
  /\ call \in [Events -> {"new", "checked", "over"}]
  /\ queue \in Seq(Events) /\ Len(queue) <= QueueCap /\ done \in BOOLEAN
  /\ mode \in [Workers -> {"run", "drain", "gone"}]
  /\ ev \in [Workers -> Events \cup {None}]
  /\ batch \in (SUBSET Events) \cup {NoBatch}
  /\ pending \in 0..BatchSize-1 /\ stuck \in BOOLEAN
  /\ out \in [Goroutines -> SUBSET Events]
  /\ ticker \in BOOLEAN
  /\ main \in {"serving", "flushed", "draining", "stopping", "closed"}
  /\ saved \subseteq Events
  /\ dropped \in Nat /\ failed \in Nat /\ rowsDropped \in Nat

(* No loss goes uncounted and nothing is saved twice: the events whose      *)
(* Export has returned are those saved, those the three counters report,    *)
(* and those still queued, held by a worker, staged or being sent (Dropped,  *)
(* Failed and FailedWrites are what an operator sees of a degraded sink).    *)
Conserved ==
  Cardinality(Over) =
    Cardinality(saved) + dropped + failed + rowsDropped
    + Len(queue) + Cardinality(InHand) + Cardinality(Rows) + Cardinality(InFlight)

(* An event is being exported, staged or sent. *)
InTransit(e) ==
  Queued(e) \/ (\E w \in Workers : ev[w] = e) \/ e \in Rows \/ (\E g \in Goroutines : e \in out[g])

(* An event that was queued before the exporter began to close reaches the   *)
(* server or a counter, whatever the shutdown and the sink do meanwhile: the *)
(* workers drain before they leave and the sink flushes before it closes.    *)
(* The exception is a sink whose mutex a panic has left locked.              *)
SettledUnlessStuck ==
  \A e \in Events : (Queued(e) /\ ~done) ~> (~InTransit(e) \/ stuck)

(* exporters.go, export: "a panic from a third-party sink dependency must    *)
(* not kill the drain goroutine (which would silently stop ALL audit)": the  *)
(* events queued after it are drained all the same.                          *)
QueuedIsSettled ==
  \A e \in Events : (Queued(e) /\ ~done) ~> ~InTransit(e)
=============================================================================
