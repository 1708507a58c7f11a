--------------------------- MODULE ExtProcStream ---------------------------
(***************************************************************************)
(* One ext_proc stream: the message handlers of                            *)
(* internal/server/extproc/processor.go, the pipeline executor they call   *)
(* (internal/pipeline/pipeline.go) and the stages of the catalog           *)
(* (internal/pipeline/stages), on the pooled Transaction.                  *)
(*                                                                         *)
(* A handler runs a pipeline stage by stage and then acts on its decision. *)
(* What an inspector finds is a choice among the results it can return; a  *)
(* panic of a stage is its error result, and the structural stages (policy *)
(* resolution, early decision, gate, guard) have none.  A body is the      *)
(* number of its bytes.  The peer is Envoy with a buffered body, which     *)
(* sends what the replies ask for and always ends a body, if need be with  *)
(* trailers; or any peer, which sends any message at any time.             *)
(***************************************************************************)
EXTENDS Naturals, Sequences

Peers == {"envoy", "any"}

(* By peer: what a stream meets and how long it may be. *)
CONSTANTS Policies,      \* compiled policies a request may resolve to
          NoPolicy,      \* no policy matched
          DefaultAllow,  \* EarlyDecision's posture when none matches
          BodyLens,      \* lengths of a body message
          MaxMessages    \* bound: messages per stream

Modes == {"block", "detect", "shadow", "off"}
Inspectors == {"fast_pre_checks", "body_checks", "waf_engine"}

PolicyType ==
  [mode : Modes, failOpen : BOOLEAN, builds : BOOLEAN,
   inspectBody : [{"request", "response"} -> BOOLEAN],
   redacts : [{"request", "response"} -> BOOLEAN],
   order : [{"request", "response"} -> Seq(Inspectors)],
   engines : BOOLEAN, bodyEngines : BOOLEAN, respEngines : BOOLEAN]

ASSUME StreamAssumption ==
  /\ \A p \in Peers : Policies[p] \subseteq PolicyType
  /\ NoPolicy \notin PolicyType
  /\ DefaultAllow \in [Peers -> BOOLEAN] /\ MaxMessages \in [Peers -> Nat]
  /\ BodyLens \subseteq Nat

VARIABLES peer,     \* who is at the other end, for the whole stream
          pc,       \* recv: in stream.Recv; run: in Pipeline.Run; ended: Run returned
          msg,      \* the message being handled, or handled last
          tx,       \* the Transaction
          phase,    \* the pipeline that runs: prelude, headers or body
          stages,   \* its stages still to run
          verdict,  \* the action of the decision Run returned
          reply,    \* the reply to msg
          may,      \* messages a conforming peer may send next
          count,    \* messages received
          seen      \* what happened so far (history)

vars == <<peer, pc, msg, tx, phase, stages, verdict, reply, may, count, seen>>

Directions == {"request", "response"}
FreshTx ==
  [dir |-> "request", policy |-> NoPolicy, bodyRequired |-> FALSE, wafEnabled |-> FALSE,
   body |-> 0, truncated |-> FALSE, inspected |-> FALSE, mutated |-> FALSE,
   settled |-> FALSE, result |-> "allow", findings |-> 0]

(* recorded, audited: findings of the prelude and of the inspect pipelines,  *)
(* and their audit events; blocked, blocksAudited: block decisions and their *)
(* events; finished: terminal decisions by direction; unseen: body bytes no  *)
(* body pipeline has run on; mismatch: Host and :authority disagree;         *)
(* cancelled: the stream's context is, so its reply cannot be sent;          *)
(* reordered: request headers were taken up after the response had begun.    *)
FreshSeen ==
  [recorded |-> [prelude |-> 0, inspect |-> 0], audited |-> [prelude |-> 0, inspect |-> 0],
   blocked |-> 0, blocksAudited |-> 0,
   finished |-> [d \in Directions |-> 0], unseen |-> 0, mismatch |-> FALSE,
   failedOpen |-> FALSE, failedClosed |-> FALSE, cancelled |-> FALSE, reordered |-> FALSE]

Source == IF phase = "prelude" THEN "prelude" ELSE "inspect"

NoMsg == [kind |-> "none", eos |-> FALSE]
NoReply == [act |-> "none", body |-> FALSE, skip |-> FALSE]

Init ==
  /\ peer \in Peers
  /\ pc = "recv" /\ msg = NoMsg /\ tx = FreshTx
  /\ phase = "prelude" /\ stages = <<>> /\ verdict = "allow"
  /\ reply = NoReply /\ may = {"reqHeaders"} /\ count = 0
  /\ seen = FreshSeen

-----------------------------------------------------------------------------
(* policy.go *)
Enforcing(p) == p # NoPolicy /\ p.mode # "off"
Blocking(p) == p # NoPolicy /\ p.mode = "block"
FailOpen(p) == p = NoPolicy \/ p.failOpen
NeedsResponse(p) == Enforcing(p) /\ (p.inspectBody["response"] \/ p.respEngines)
DenyAll ==
  [mode |-> "block", failOpen |-> FALSE, builds |-> TRUE,
   inspectBody |-> [d \in Directions |-> FALSE], redacts |-> [d \in Directions |-> FALSE],
   order |-> [d \in Directions |-> <<>>],
   engines |-> FALSE, bodyEngines |-> FALSE, respEngines |-> FALSE]

(* Catalog.split: waf_engine is a header and a body stage; the gate ends the *)
(* header pipeline, the guard and the decoder begin the body pipeline.       *)
Those(order, inspectors) ==
  LET sts[n \in 0 .. Len(order)] ==
        IF n = 0 THEN <<>>
        ELSE IF order[n] \in inspectors THEN Append(sts[n - 1], order[n]) ELSE sts[n - 1]
  IN  sts[Len(order)]

HeaderStages(order) == Those(order, {"fast_pre_checks", "waf_engine"}) \o <<"body_gate">>

BodyStages(order) == <<"guard", "decode">> \o Those(order, {"body_checks", "waf_engine"})

-----------------------------------------------------------------------------
(* What a conforming Envoy sends after reply r to message m: the body if it  *)
(* was asked for, and the response unless that was skipped; a local reply    *)
(* may bring the response before the request is complete.                    *)
ToCome(m, r) ==
  IF r.act = "immediate" THEN {} ELSE
  CASE m.kind = "reqHeaders" -> IF r.body THEN {"reqBody", "respHeaders"} ELSE {"respHeaders"}
    [] m.kind = "reqBody" -> IF m.eos THEN {"respHeaders"} ELSE {"reqTrailers", "respHeaders"}
    [] m.kind = "reqTrailers" -> {"respHeaders"}
    [] m.kind = "respHeaders" -> IF r.body THEN {"respBody"} ELSE {}
    [] m.kind = "respBody" -> IF m.eos THEN {} ELSE {"respTrailers"}
    [] OTHER -> {}

(* The handler of m returns, leaving transaction t and history h. *)
Reply(m, t, h, act, body, skip) ==
  LET r == [act |-> act, body |-> body, skip |-> skip \/ reply.skip]
  IN /\ pc' = "recv" /\ tx' = t /\ seen' = h
     /\ reply' = r
     /\ may' = ToCome(m, r) \ (IF r.skip THEN {"respHeaders"} ELSE {})
     /\ UNCHANGED <<phase, stages, verdict>>

(* Pipeline.Run begins: a fresh decision, no findings. *)
Run(t, h, ph, sts) ==
  /\ pc' = "run" /\ phase' = ph /\ stages' = sts
  /\ tx' = [t EXCEPT !.result = "allow", !.findings = 0]
  /\ seen' = h
  /\ UNCHANGED <<verdict, reply, may>>

Blocks(d) == IF d = "block" THEN 1 ELSE 0

(* emitAudit: one event per finding of the last Run, or else one event of    *)
(* the decision.                                                             *)
Audited(t, h, d) ==
  [h EXCEPT !.audited[Source] = @ + t.findings,
            !.blocksAudited = @ + (IF t.findings = 0 THEN Blocks(d) ELSE 0)]

(* finish: the request is settled, the decision counted and audited. *)
Finish(t, h, d) ==
  [Audited(t, h, d) EXCEPT !.finished[t.dir] = @ + 1, !.blocked = @ + Blocks(d)]
Settled(t) == [t EXCEPT !.settled = @ \/ t.dir = "request"]

(* The body handlers' reply to a decision. *)
BodyAct(m, t, d) ==
  IF d = "block" THEN "immediate"
  ELSE IF t.mutated /\ m.kind \in {"reqBody", "respBody"} THEN "mutation"
  ELSE "continue"

(* failBuild: the policy's pipelines cannot be built. *)
FailBuild(m, t, h) ==
  LET d == IF FailOpen(t.policy) THEN "allow" ELSE "block"
      k == IF d = "block" THEN [h EXCEPT !.failedClosed = TRUE] ELSE [h EXCEPT !.failedOpen = TRUE]
  IN Reply(m, Settled(t), Finish(t, k, d), BodyAct(m, t, d), FALSE, FALSE)

(* The inspect pipeline of a header message. *)
InspectHeaders(m, t, h) ==
  IF t.policy.builds
    THEN Run(t, h, "headers", HeaderStages(t.policy.order[t.dir]))
    ELSE FailBuild(m, t, h)

(* Mutant of BodyPhase: the once-latch is not looked at. *)
InspectAgain(t) == Enforcing(t.policy) /\ (t.bodyRequired \/ t.wafEnabled)

(* inspectBufferedBody: at most once per direction, and only if the header   *)
(* phase asked for the body.                                                 *)
BodyPhase(t) ==
  /\ Enforcing(t.policy) /\ ~t.inspected
  /\ t.bodyRequired \/ t.wafEnabled

InspectBufferedBody(m, t, h, skip) ==
  IF BodyPhase(t)
    THEN LET i == [t EXCEPT !.inspected = TRUE]
         IN IF t.policy.builds
              THEN Run(i, [h EXCEPT !.unseen = 0], "body", BodyStages(t.policy.order[t.dir]))
              ELSE FailBuild(m, i, h)
    ELSE Reply(m, t, h, BodyAct(m, t, "allow"), FALSE, skip)

-----------------------------------------------------------------------------
(* The peer's next message. *)
Receive(m) ==
  /\ pc = "recv" /\ count < MaxMessages[peer] /\ ~seen.cancelled
  /\ peer = "any" \/ m.kind \in may
  /\ msg' = m /\ count' = count + 1

(* onRequestHeaders, up to the prelude; ignored once the request is settled. *)
RequestHeaders(eos, mismatch) ==
  LET m == [kind |-> "reqHeaders", eos |-> eos]
  IN /\ Receive(m)
     /\ \/ tx.settled /\ Reply(m, tx, seen, "continue", FALSE, FALSE)
        \/ ~tx.settled /\ Run([tx EXCEPT !.dir = "request"],
                              [seen EXCEPT !.mismatch = mismatch, !.reordered = @ \/ tx.dir = "response"],
                              "prelude", <<"policy_resolve", "early_decision">>)

(* onResponseHeaders, up to the inspect pipeline: BeginResponse, a prelude   *)
(* that only derives the content type, no inspection without a policy.       *)
ResponseHeaders(eos) ==
  LET m == [kind |-> "respHeaders", eos |-> eos]
      t == [tx EXCEPT !.dir = "response", !.bodyRequired = FALSE, !.wafEnabled = FALSE,
                      !.body = 0, !.truncated = FALSE, !.inspected = FALSE, !.mutated = FALSE,
                      !.result = "allow", !.findings = 0]
      h == [seen EXCEPT !.unseen = 0, !.failedOpen = FALSE]
  IN /\ Receive(m)
     /\ \/ Enforcing(tx.policy) /\ InspectHeaders(m, t, h)
        \/ ~Enforcing(tx.policy) /\ Reply(m, t, Finish(t, h, "allow"), "continue", FALSE, FALSE)

(* Mutant of Reopened: the once-latch stays shut for late bytes. *)
StayInspected(t, len) == t

(* Bytes that arrive after the inspection open it again. *)
Reopened(t, len) == [t EXCEPT !.inspected = @ /\ len = 0]

(* onRequestBody and onResponseBody: append what the caps let in, and        *)
(* inspect at the end of the stream, or at once if the policy redacts.       *)
BodyChunk(dir, len, stored, eos) ==
  LET m == [kind |-> IF dir = "request" THEN "reqBody" ELSE "respBody", eos |-> eos]
      r == Reopened(tx, len)
      t == [r EXCEPT !.body = @ + stored, !.truncated = @ \/ stored < len]
      h == [seen EXCEPT !.unseen = @ + len]
  IN /\ Receive(m)
     /\ \/ tx.policy = NoPolicy /\ Reply(m, tx, seen, "continue", FALSE, FALSE)
        \/ /\ tx.policy # NoPolicy
           /\ \/ ~eos /\ ~tx.policy.redacts[dir] /\ Reply(m, t, h, "continue", FALSE, FALSE)
              \/ (eos \/ tx.policy.redacts[dir]) /\ InspectBufferedBody(m, t, h, FALSE)

(* onRequestTrailers and onResponseTrailers. *)
Trailers(dir) ==
  LET m == [kind |-> IF dir = "request" THEN "reqTrailers" ELSE "respTrailers", eos |-> TRUE]
  IN Receive(m) /\ InspectBufferedBody(m, tx, seen, FALSE)

(* Process returns; the Transaction goes back to the pool clean. *)
EndStream ==
  /\ pc = "recv" /\ count > 0
  /\ msg' = NoMsg /\ tx' = FreshTx /\ reply' = NoReply
  /\ may' = {"reqHeaders"} /\ count' = 0 /\ seen' = FreshSeen
  /\ UNCHANGED <<pc, phase, stages, verdict>>

-----------------------------------------------------------------------------
(* Pipeline.Run, one stage at a time. *)
Proceed(t, h) ==
  /\ stages' = Tail(stages) /\ tx' = t /\ seen' = h
  /\ UNCHANGED <<pc, msg, phase, verdict, reply, may, count>>

Return(d, t, h) ==
  /\ pc' = "ended" /\ verdict' = d /\ stages' = <<>> /\ tx' = t /\ seen' = h
  /\ UNCHANGED <<msg, phase, reply, may, count>>

(* Mutant of Recorded: the result takes the action of the deny itself. *)
RecordedAsBlock(t) == [t EXCEPT !.findings = @ + 1, !.result = "block"]

(* record: the finding of a mode that does not block. *)
Recorded(t) ==
  [t EXCEPT !.findings = @ + 1,
            !.result = IF @ # "allow" THEN @
                       ELSE IF t.policy # NoPolicy /\ t.policy.mode = "shadow" THEN "shadow"
                       ELSE "detect"]

(* Mutant of ApplyDeny: only shadow mode keeps a deny from being enforced. *)
DenyInDetect(t) ==
  IF t.policy # NoPolicy /\ t.policy.mode \in {"block", "detect"}
    THEN Return("block", t, seen)
    ELSE Proceed(Recorded(t), [seen EXCEPT !.recorded[Source] = @ + 1])

(* applyDeny: block mode enforces, every other mode records and goes on. *)
ApplyDeny(t) ==
  IF Blocking(t.policy)
    THEN Return("block", t, seen)
    ELSE Proceed(Recorded(t), [seen EXCEPT !.recorded[Source] = @ + 1])

(* failPosture: the running decision, or a block whatever the mode. *)
FailPosture(h) ==
  IF FailOpen(tx.policy)
    THEN Return(tx.result, tx, [h EXCEPT !.failedOpen = TRUE])
    ELSE Return("block", tx, [h EXCEPT !.failedClosed = TRUE])

(* gated: body stages run only if the gate asked for the body. *)
Gated(s) ==
  \/ s \in {"guard", "decode", "body_checks"} /\ ~tx.bodyRequired
  \/ s = "waf_engine" /\ phase = "body" /\ ~tx.wafEnabled

Running(s) == pc = "run" /\ stages # <<>> /\ Head(stages) = s /\ ~Gated(s)

SkipStage ==
  /\ pc = "run" /\ stages # <<>> /\ Gated(Head(stages))
  /\ Proceed(tx, seen)

(* The context has expired when a stage is about to run: runInspect's policy *)
(* timeout, which the prelude does not have, or the stream's cancellation.   *)
Deadline(cancelled) ==
  /\ pc = "run" /\ stages # <<>> /\ ~Gated(Head(stages))
  /\ phase = "prelude" => cancelled
  /\ FailPosture([seen EXCEPT !.cancelled = cancelled])

RunEnds ==
  /\ pc = "run" /\ stages = <<>>
  /\ Return(tx.result, tx, seen)

(* policy_resolve, the first stage of the prelude. *)
PolicyResolve(p) ==
  /\ phase = "prelude" /\ Running("policy_resolve")
  /\ Proceed([tx EXCEPT !.policy = p], seen)

(* early_decision: host integrity, then the cases without inspection. *)
EarlyDecision ==
  /\ Running("early_decision")
  /\ \/ seen.mismatch /\ ApplyDeny(tx)
     \/ ~seen.mismatch /\ tx.policy = NoPolicy /\ DefaultAllow[peer] /\ Return(tx.result, tx, seen)
     \/ ~seen.mismatch /\ tx.policy = NoPolicy /\ ~DefaultAllow[peer]
          /\ ApplyDeny([tx EXCEPT !.policy = DenyAll])
     \/ ~seen.mismatch /\ tx.policy # NoPolicy /\ ~Enforcing(tx.policy) /\ Return(tx.result, tx, seen)
     \/ ~seen.mismatch /\ Enforcing(tx.policy) /\ Proceed(tx, seen)

BodyGate ==
  /\ Running("body_gate")
  /\ Proceed([tx EXCEPT !.bodyRequired = tx.policy.inspectBody[tx.dir] \/ tx.policy.bodyEngines,
                        !.wafEnabled = tx.policy.bodyEngines], seen)

(* What the other stages may return; deny stands for every rule they check.  *)
FastPreChecks == {"continue", "error"} \cup (IF tx.dir = "request" THEN {"deny"} ELSE {})
Guard == IF tx.truncated THEN {"deny"} ELSE {"continue"}
Decode == {"continue", "deny", "error"}
WafEngine == {"continue"} \cup (IF tx.policy.engines THEN {"deny", "error"} ELSE {})

(* bodyChecks: a redaction rewrites the body only in block mode. *)
BodyChecks ==
  {"continue", "error"}
    \cup (IF tx.body > 0 THEN {"deny"} ELSE {})
    \cup (IF tx.body > 0 /\ tx.policy.redacts[tx.dir] /\ Blocking(tx.policy) THEN {"redact"} ELSE {})

Results(s) ==
  CASE s = "fast_pre_checks" -> FastPreChecks
    [] s = "guard" -> Guard
    [] s = "decode" -> Decode
    [] s = "body_checks" -> BodyChecks
    [] s = "waf_engine" -> WafEngine

(* runStage and the executor's switch on the result. *)
Inspect(s, res) ==
  /\ Running(s) /\ res \in Results(s)
  /\ \/ res = "continue" /\ Proceed(tx, seen)
     \/ res = "redact" /\ Proceed([tx EXCEPT !.mutated = TRUE], seen)
     \/ res = "deny" /\ ApplyDeny(tx)
     \/ res = "error" /\ FailPosture(seen)

-----------------------------------------------------------------------------
(* The handlers after Run has returned its decision. *)
Ended(ph) == pc = "ended" /\ phase = ph /\ UNCHANGED <<msg, count>>

(* requestMode: the response is skipped if the policy does not inspect it. *)
Skip == msg.kind = "reqHeaders" /\ ~NeedsResponse(tx.policy)

Terminal(act) == Reply(msg, Settled(tx), Finish(tx, seen, verdict), act, FALSE, act = "continue" /\ Skip)

AfterPrelude ==
  /\ Ended("prelude")
  /\ \/ verdict = "block" /\ Terminal("immediate")
     \/ verdict # "block" /\ ~Enforcing(tx.policy) /\ Terminal("continue")
     \/ verdict # "block" /\ Enforcing(tx.policy) /\ InspectHeaders(msg, tx, seen)

(* Mutant of PhaseFindings: a header finding waits for the terminal phase. *)
LeaveToTerminal(t, h) == h

(* emitPhaseFindings: a body phase follows whose Run resets the findings. *)
PhaseFindings(t, h) == IF verdict \in {"detect", "shadow"} THEN Audited(t, h, verdict) ELSE h

AfterHeaders ==
  /\ Ended("headers")
  /\ \/ verdict = "block" /\ Terminal("immediate")
     \/ /\ verdict # "block" /\ (tx.bodyRequired \/ tx.wafEnabled)
        /\ \/ msg.eos /\ InspectBufferedBody(msg, tx, PhaseFindings(tx, seen), Skip)
           \/ ~msg.eos /\ Reply(msg, tx, PhaseFindings(tx, seen), "continue", TRUE, Skip)
     \/ verdict # "block" /\ ~tx.bodyRequired /\ ~tx.wafEnabled /\ Terminal("continue")

AfterBody ==
  /\ Ended("body")
  /\ Reply(msg, Settled(tx), Finish(tx, seen, verdict), BodyAct(msg, tx, verdict), FALSE,
           verdict # "block" /\ Skip)

-----------------------------------------------------------------------------
PeerStep ==
  \/ \E eos, mismatch \in BOOLEAN : RequestHeaders(eos, mismatch)
  \/ \E eos \in BOOLEAN : ResponseHeaders(eos)
  \/ \E dir \in Directions, len \in BodyLens, eos \in BOOLEAN :
       \E stored \in 0..len : BodyChunk(dir, len, stored, eos)
  \/ \E dir \in Directions : Trailers(dir)
  \/ EndStream

StageStep ==
  \/ SkipStage \/ RunEnds \/ \E cancelled \in BOOLEAN : Deadline(cancelled)
  \/ \E p \in Policies[peer] \cup {NoPolicy} : PolicyResolve(p)
  \/ EarlyDecision \/ BodyGate
  \/ \E s \in Inspectors \cup {"guard", "decode"}, res \in {"continue", "redact", "deny", "error"} :
       Inspect(s, res)

Next == (PeerStep \/ StageStep \/ AfterPrelude \/ AfterHeaders \/ AfterBody) /\ UNCHANGED peer

Spec == Init /\ [][Next]_vars

-----------------------------------------------------------------------------
Stages == Inspectors \cup {"policy_resolve", "early_decision", "body_gate", "guard", "decode"}
RequestKinds == {"reqHeaders", "reqBody", "reqTrailers"}
Kinds == RequestKinds \cup {"respHeaders", "respBody", "respTrailers"}

(* Types of the stream, its transaction and its history. *)
TypeOK ==
  /\ peer \in Peers
  /\ pc \in {"recv", "run", "ended"}
  /\ msg \in [kind : Kinds \cup {"none"}, eos : BOOLEAN]
  /\ tx \in [dir : Directions, policy : Policies[peer] \cup {NoPolicy, DenyAll},
             bodyRequired : BOOLEAN, wafEnabled : BOOLEAN, body : Nat, truncated : BOOLEAN,
             inspected : BOOLEAN, mutated : BOOLEAN, settled : BOOLEAN,
             result : {"allow", "detect", "shadow"}, findings : Nat]
  /\ phase \in {"prelude", "headers", "body"} /\ stages \in Seq(Stages)
  /\ verdict \in {"allow", "detect", "shadow", "block"}
  /\ reply \in [act : {"none", "continue", "mutation", "immediate"}, body : BOOLEAN, skip : BOOLEAN]
  /\ may \subseteq Kinds /\ count \in 0..MaxMessages[peer]

(* Under a blocking policy that asked for the body, the message that ends a  *)
(* direction is let through only if a body pipeline has run on every byte    *)
(* received and none was cut off, unless the policy fails open on an error:  *)
(* wherever the end falls (headers, body or trailers) and whatever the peer  *)
(* sends after an inspection (inspectBufferedBody, the re-opened latch and   *)
(* the truncation guard).  Repeated request headers end nothing, a stream    *)
(* answered with a block is over, and the request comes before the response  *)
(* (request headers taken up after it find the response's latch shut).       *)
ForwardedIsInspected ==
  pc = "recv" /\ msg.eos /\ (msg.kind = "reqHeaders" => count = 1)
    /\ reply.act \in {"continue", "mutation"} /\ seen.blocked = 0 /\ ~seen.reordered
    /\ Blocking(tx.policy) /\ tx.bodyRequired /\ ~seen.failedOpen
  => tx.inspected /\ seen.unseen = 0 /\ ~tx.truncated

(* Following the protocol, a request or response reaches one terminal        *)
(* decision (requests_total, audit), whichever message brings it, and has    *)
(* it by the time its last message is answered.                              *)
DecidedOnce ==
  peer = "envoy" =>
    /\ \A d \in Directions : seen.finished[d] <= 1
    /\ pc = "recv" /\ msg.kind \in RequestKinds /\ may \cap RequestKinds = {} =>
         seen.finished["request"] = 1
    /\ pc = "recv" /\ msg.kind \notin RequestKinds \cup {"none"} /\ may = {} =>
         seen.finished["response"] = 1

(* Between messages every finding the inspect pipelines recorded has been    *)
(* audited, and once: a body phase's Run does not wipe those of the header   *)
(* phase (emitPhaseFindings, emitAudit).  Every block has its own event      *)
(* unless a policy that had recorded findings failed closed.                 *)
InspectFindingsAudited ==
  pc = "recv" => /\ seen.audited.inspect = seen.recorded.inspect
                 /\ ~seen.failedClosed => seen.blocksAudited = seen.blocked

(* A policy that only observes (detect, shadow) blocks in one case: it fails *)
(* closed on an error or a timeout; it never rewrites a body.  (Envoy sends  *)
(* the request headers once, so a stream has one policy.)                    *)
ObserveOnly ==
  peer = "envoy" /\ pc = "recv" /\ tx.policy # NoPolicy /\ tx.policy.mode \in {"detect", "shadow"} =>
    /\ reply.act = "immediate" => seen.failedClosed
    /\ ~tx.mutated

(* precheck.go: a host mismatch "must be rejected before any mode-based      *)
(* short-circuit below, so an off/excluded policy cannot bypass it".         *)
MismatchRejected ==
  pc = "recv" /\ msg.kind = "reqHeaders" /\ seen.mismatch /\ ~seen.cancelled =>
    reply.act = "immediate"
=============================================================================
