------------------------- MODULE SnapshotLifecycle -------------------------
(***************************************************************************)
(* The life of a configuration snapshot: built and installed by a reload,  *)
(* pinned by streams, replaced, retired and closed.  internal/runtime      *)
(* (Store, Snapshot, the swap and retire of Reloader.Reload) and the       *)
(* retirer of cmd/elchi-shield/main.go.                                    *)
(*                                                                         *)
(* Store.Pin is two steps, a load and a reference-count increment, and a   *)
(* reload may run between them.  Time is counted down in ticks: what is    *)
(* left of a snapshot's grace, of the wait for its streams, and of the     *)
(* window a stream may spend between load and increment.                   *)
(***************************************************************************)
EXTENDS Integers, Sequences, FiniteSets

CONSTANTS PinStreams,  \* ext_proc streams
          MaxSnaps,    \* bound: snapshots built after the empty one
          RetireCap,   \* capacity of retireCh
          Grace,       \* snapshotRetireGrace, in ticks
          MaxWait,     \* snapshotRetireMaxWait, in ticks
          PinWindow    \* ticks a stream may take from load to Acquire

(* "The tiny load->acquire window is covered by the retirer's grace". *)
ASSUME SnapshotAssumption ==
  /\ IsFiniteSet(PinStreams)
  /\ MaxSnaps \in Nat /\ RetireCap \in Nat
  /\ Grace \in Nat /\ MaxWait \in Nat /\ PinWindow \in Nat
  /\ PinWindow < Grace

EmptySnapshot == 0      \* never retired
Snaps == 0..MaxSnaps
NoSnap == -1

VARIABLES ptr,        \* Store.ptr
          built,      \* snapshots built so far
          old,        \* Reload's prev between Set and retire, or NoSnap
          stage,      \* where a snapshot is between NewSnapshot and Close
          refs,       \* Snapshot.refs
          retireCh,   \* retired snapshots the goroutine has yet to take
          worker,     \* snapshot the retirer goroutine is busy with, or NoSnap
          graceLeft,  \* until retiredAt + snapshotRetireGrace
          waitLeft,   \* until closeRetired's deadline
          pin, snap,  \* a stream: before, inside or after Pin, and of what
          pinLeft     \* what is left of its load->acquire window

streamVars == <<pin, snap, pinLeft>>
slvars == <<ptr, built, old, stage, refs, retireCh, worker, graceLeft, waitLeft, streamVars>>

SLInit ==
  /\ ptr = EmptySnapshot /\ built = 0 /\ old = NoSnap
  /\ stage = [v \in Snaps |-> IF v = EmptySnapshot THEN "live" ELSE "unbuilt"]
  /\ refs = [v \in Snaps |-> 0]
  /\ retireCh = <<>> /\ worker = NoSnap
  /\ graceLeft = [v \in Snaps |-> Grace]
  /\ waitLeft = [v \in Snaps |-> MaxWait]
  /\ pin = [s \in PinStreams |-> "idle"]
  /\ snap = [s \in PinStreams |-> EmptySnapshot]
  /\ pinLeft = [s \in PinStreams |-> 0]

-----------------------------------------------------------------------------
(* Store.Pin: load the pointer, ... *)
PinLoad(s) ==
  /\ pin[s] = "idle"
  /\ pin' = [pin EXCEPT ![s] = "loaded"]
  /\ snap' = [snap EXCEPT ![s] = ptr]
  /\ pinLeft' = [pinLeft EXCEPT ![s] = PinWindow]
  /\ UNCHANGED <<ptr, built, old, stage, refs, retireCh, worker, graceLeft, waitLeft>>

(* Mutant of PinAcquire: the stream only loads the pointer. *)
NoAcquire(s) ==
  /\ pin[s] = "loaded"
  /\ pin' = [pin EXCEPT ![s] = "pinned"]
  /\ pinLeft' = [pinLeft EXCEPT ![s] = 0]
  /\ UNCHANGED <<ptr, built, old, stage, refs, retireCh, worker, graceLeft, waitLeft, snap>>

(* ... then Acquire whatever it pointed to. *)
PinAcquire(s) ==
  /\ pin[s] = "loaded"
  /\ refs' = [refs EXCEPT ![snap[s]] = @ + 1]
  /\ pin' = [pin EXCEPT ![s] = "pinned"]
  /\ pinLeft' = [pinLeft EXCEPT ![s] = 0]
  /\ UNCHANGED <<ptr, built, old, stage, retireCh, worker, graceLeft, waitLeft, snap>>

(* Mutant of Release: the stream returns without its deferred release. *)
NoRelease(s) ==
  /\ pin[s] = "pinned"
  /\ pin' = [pin EXCEPT ![s] = "idle"]
  /\ snap' = [snap EXCEPT ![s] = EmptySnapshot]
  /\ UNCHANGED <<ptr, built, old, stage, refs, retireCh, worker, graceLeft, waitLeft, pinLeft>>

(* The stream ends: the deferred snap.Release(). *)
Release(s) ==
  /\ pin[s] = "pinned"
  /\ refs' = [refs EXCEPT ![snap[s]] = @ - 1]
  /\ pin' = [pin EXCEPT ![s] = "idle"]
  /\ snap' = [snap EXCEPT ![s] = EmptySnapshot]
  /\ UNCHANGED <<ptr, built, old, stage, retireCh, worker, graceLeft, waitLeft, pinLeft>>

(* Reload, outcome applied: Set the new snapshot, remembering the old one.   *)
(* One goroutine reloads, so the next reload starts after retire.            *)
SetActive ==
  /\ old = NoSnap /\ built < MaxSnaps
  /\ built' = built + 1
  /\ ptr' = built + 1
  /\ old' = ptr
  /\ stage' = [stage EXCEPT ![built + 1] = "live"]
  /\ UNCHANGED <<refs, retireCh, worker, graceLeft, waitLeft, streamVars>>

(* Mutant of RetireOld: a snapshot that finds the queue full is dropped. *)
DropWhenFull ==
  /\ old # NoSnap
  /\ old' = NoSnap
  /\ IF old # EmptySnapshot /\ Len(retireCh) < RetireCap
       THEN /\ retireCh' = Append(retireCh, old)
            /\ stage' = [stage EXCEPT ![old] = "queued"]
       ELSE UNCHANGED <<stage, retireCh>>
  /\ UNCHANGED <<ptr, built, refs, worker, graceLeft, waitLeft, streamVars>>

(* Reload's retire callback: queue the old snapshot, or hand it to a one-off *)
(* goroutine when the queue is full.  The empty snapshot is not retired.     *)
RetireOld ==
  /\ old # NoSnap
  /\ old' = NoSnap
  /\ \/ old = EmptySnapshot /\ UNCHANGED <<stage, retireCh>>
     \/ /\ old # EmptySnapshot /\ Len(retireCh) < RetireCap
        /\ retireCh' = Append(retireCh, old)
        /\ stage' = [stage EXCEPT ![old] = "queued"]
     \/ /\ old # EmptySnapshot /\ Len(retireCh) >= RetireCap
        /\ stage' = [stage EXCEPT ![old] = "grace"]
        /\ UNCHANGED retireCh
  /\ UNCHANGED <<ptr, built, refs, worker, graceLeft, waitLeft, streamVars>>

(* The retirer goroutine takes the next snapshot off its queue. *)
TakeNext ==
  /\ worker = NoSnap /\ retireCh # <<>>
  /\ worker' = Head(retireCh)
  /\ retireCh' = Tail(retireCh)
  /\ stage' = [stage EXCEPT ![Head(retireCh)] = "grace"]
  /\ UNCHANGED <<ptr, built, old, refs, graceLeft, waitLeft, streamVars>>

(* Mutant of SleptGrace: closeRetired looks at the count at once. *)
NoGrace(v) == TRUE

(* time.Until(retiredAt + grace) is not positive any more. *)
SleptGrace(v) == graceLeft[v] = 0

(* closeRetired, run for snapshot v by the worker or a one-off goroutine:    *)
(* sleep out the grace, ...                                                  *)
GraceOver(v) ==
  /\ stage[v] = "grace" /\ SleptGrace(v)
  /\ stage' = [stage EXCEPT ![v] = "draining"]
  /\ UNCHANGED <<ptr, built, old, refs, retireCh, worker, graceLeft, waitLeft, streamVars>>

(* Mutant of DoneWaiting: the wait has no cap. *)
WaitUncapped(v) == refs[v] = 0

(* The poll loop ends: no holder, or the deadline has passed. *)
DoneWaiting(v) == refs[v] = 0 \/ waitLeft[v] = 0

(* ... poll until no stream holds it or the deadline has passed, ... *)
StreamsGone(v) ==
  /\ stage[v] = "draining" /\ DoneWaiting(v)
  /\ stage' = [stage EXCEPT ![v] = "closing"]
  /\ UNCHANGED <<ptr, built, old, refs, retireCh, worker, graceLeft, waitLeft, streamVars>>

(* ... and close its engines. *)
Close(v) ==
  /\ stage[v] = "closing"
  /\ stage' = [stage EXCEPT ![v] = "closed"]
  /\ worker' = IF worker = v THEN NoSnap ELSE worker
  /\ UNCHANGED <<ptr, built, old, refs, retireCh, graceLeft, waitLeft, streamVars>>

(* retiredAt is set when the snapshot is retired, the deadline when its      *)
(* grace is over: only from there on do the countdowns run.                  *)
Retired == {"queued", "grace", "draining", "closing", "closed"}
CountDown(n) == IF n > 0 THEN n - 1 ELSE 0

(* Time passes; no stream stays longer than PinWindow inside Pin. *)
Tick ==
  /\ \A s \in PinStreams : pin[s] = "loaded" => pinLeft[s] > 0
  /\ graceLeft' = [v \in Snaps |-> IF stage[v] \in Retired THEN CountDown(graceLeft[v]) ELSE graceLeft[v]]
  /\ waitLeft' = [v \in Snaps |-> IF stage[v] = "draining" THEN CountDown(waitLeft[v]) ELSE waitLeft[v]]
  /\ pinLeft' = [s \in PinStreams |-> CountDown(pinLeft[s])]
  /\ UNCHANGED <<ptr, built, old, stage, refs, retireCh, worker, pin, snap>>

CloseRetired(v) == GraceOver(v) \/ StreamsGone(v) \/ Close(v)

SLNext ==
  \/ \E s \in PinStreams : PinLoad(s) \/ PinAcquire(s) \/ Release(s)
  \/ SetActive \/ RetireOld \/ TakeNext
  \/ \E v \in Snaps : CloseRetired(v)
  \/ Tick

(* The reload and retirer goroutines are scheduled, streams get through Pin, *)
(* and time passes.  Nothing makes a stream end.                             *)
SLFairness ==
  /\ WF_slvars(RetireOld) /\ WF_slvars(TakeNext) /\ WF_slvars(Tick)
  /\ \A v \in Snaps : WF_slvars(CloseRetired(v))
  /\ \A s \in PinStreams : WF_slvars(PinAcquire(s))

SLSpec == SLInit /\ [][SLNext]_slvars /\ SLFairness

-----------------------------------------------------------------------------
Holders(v) == {s \in PinStreams : pin[s] = "pinned" /\ snap[s] = v}

StoreTypes ==
  /\ ptr \in Snaps /\ built \in Snaps /\ old \in Snaps \cup {NoSnap}
  /\ stage \in [Snaps -> Retired \cup {"unbuilt", "live"}]
  /\ retireCh \in Seq(Snaps) /\ worker \in Snaps \cup {NoSnap}

CountTypes ==
  /\ refs \in [Snaps -> Nat]
  /\ graceLeft \in [Snaps -> 0..Grace]
  /\ waitLeft \in [Snaps -> 0..MaxWait]

StreamTypes ==
  /\ pin \in [PinStreams -> {"idle", "loaded", "pinned"}]
  /\ snap \in [PinStreams -> Snaps]
  /\ pinLeft \in [PinStreams -> 0..PinWindow]

(* Types of the store and the retirer, of the snapshots' counts (none goes   *)
(* below zero) and of the streams.                                           *)
SLTypeOK == StoreTypes /\ CountTypes /\ StreamTypes

(* The reference count is the number of streams between Acquire and Release, *)
(* although the pointer is loaded before the count is taken.                 *)
RefsAreHolders == \A v \in Snaps : refs[v] = Cardinality(Holders(v))

(* What the retirer guarantees: the engines of a snapshot some stream has    *)
(* pinned, or is about to pin, are closed only after the capped wait has run *)
(* out (closeRetired in main.go).                                            *)
CloseOnlyDrainedOrCapped ==
  \A s \in PinStreams :
    pin[s] \in {"loaded", "pinned"} /\ stage[snap[s]] = "closed" =>
      pin[s] = "pinned" /\ waitLeft[snap[s]] = 0

(* The snapshot new streams load is never retired or closed, and no built    *)
(* snapshot is forgotten: one that is not ptr, not the empty one and not  *)
(* in the reload's hands is queued, in closeRetired or closed; the queue     *)
(* holds each snapshot at most once.                                         *)
NoneForgotten ==
  /\ stage[ptr] = "live"
  /\ \A v \in 1..built : v = ptr \/ v = old \/ stage[v] \in Retired
  /\ \A v \in Snaps : stage[v] = "queued" <=> \E i \in 1..Len(retireCh) : retireCh[i] = v
  /\ \A i, j \in 1..Len(retireCh) : retireCh[i] = retireCh[j] => i = j

(* How far the reload goroutine is: the last snapshot built is the ptr     *)
(* one, and the one it is about to retire is still live.                     *)
ReloadInv ==
  /\ ptr = built
  /\ \A v \in Snaps : v > built => stage[v] = "unbuilt"
  /\ old # NoSnap => old # ptr /\ stage[old] = "live"

(* Why the grace covers the load->acquire window: a stream inside Pin has    *)
(* less of its window left than its snapshot has of its grace.               *)
GraceInv ==
  /\ \A v \in Snaps : stage[v] \notin Retired => graceLeft[v] = Grace
  /\ \A v \in Snaps : stage[v] \in {"draining", "closing", "closed"} => graceLeft[v] = 0
  /\ \A v \in Snaps : stage[v] \in {"closing", "closed"} => refs[v] = 0 \/ waitLeft[v] = 0
  /\ \A s \in PinStreams : pin[s] = "loaded" => pinLeft[s] < graceLeft[snap[s]]

(* The inductive invariant behind the safety properties. *)
SLInv == SLTypeOK /\ RefsAreHolders /\ NoneForgotten /\ ReloadInv /\ GraceInv

(* Every replaced snapshot is closed eventually, even if the streams that    *)
(* pinned it, or a snapshot before it in the queue, never end.               *)
ReplacedIsClosed ==
  \A v \in Snaps : v # EmptySnapshot /\ v < ptr ~> stage[v] = "closed"
=============================================================================
