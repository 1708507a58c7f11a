--------------------------- MODULE ServiceProofs ----------------------------
(***************************************************************************)
(* What the service promises: a stream and its decisions (ExtProcStream),  *)
(* the process from start to exit (Lifecycle) and the changes of the       *)
(* configuration directory (ConfigReload).                                 *)
(***************************************************************************)
EXTENDS ExtProcStream, Lifecycle, ConfigReload, WellFoundedInduction, TLAPS

-----------------------------------------------------------------------------
(* ExtProcStream: what holds of a stream for every set of policies, every    *)
(* order of inspectors, every length of stream and every body: each finding  *)
(* of an inspect pipeline is audited exactly once, a policy that observes    *)
(* never blocks but by failing closed, a direction is decided once, and      *)
(* under a policy that blocks no uninspected byte is let through.            *)
(*                                                                           *)
(* The invariant follows the findings: while a pipeline runs, what it        *)
(* recorded and did not audit yet is what the Transaction holds; a running   *)
(* decision other than allow, and only that, has findings; and a policy that *)
(* enforces its denies has none to hold.  At rest nothing is owed.           *)

Verdicts == {"allow", "detect", "shadow", "block"}

TxType ==
  [dir : Directions, policy : PolicyType \cup {NoPolicy}, bodyRequired : BOOLEAN, wafEnabled : BOOLEAN,
   body : Nat, truncated : BOOLEAN, inspected : BOOLEAN, mutated : BOOLEAN, settled : BOOLEAN,
   result : {"allow", "detect", "shadow"}, findings : Nat]

SeenType ==
  [recorded : [{"prelude", "inspect"} -> Nat], audited : [{"prelude", "inspect"} -> Nat],
   blocked : Nat, blocksAudited : Nat, finished : [Directions -> Nat], unseen : Nat,
   mismatch : BOOLEAN, failedOpen : BOOLEAN, failedClosed : BOOLEAN, cancelled : BOOLEAN,
   reordered : BOOLEAN]

Types ==
  /\ pc \in {"recv", "run", "ended"} /\ phase \in {"prelude", "headers", "body"}
  /\ verdict \in Verdicts /\ tx \in TxType /\ seen \in SeenType

(* Nothing recorded is left to audit, and every block has its event. *)
BlocksSquare(h) == h.failedClosed \/ h.blocksAudited = h.blocked
Square(h) == h.audited["inspect"] = h.recorded["inspect"] /\ BlocksSquare(h)

(* Findings of an inspect pipeline belong to a policy that could build it. *)
BuiltBy(t, ph) == ph # "prelude" /\ t.findings > 0 => t.policy # NoPolicy /\ t.policy.builds

AtRest == pc = "recv" => Square(seen) /\ BuiltBy(tx, phase)

(* What a pipeline recorded and its handler has not audited is in tx. *)
Owed(t, h, ph) == h.recorded["inspect"] = h.audited["inspect"] + (IF ph = "prelude" THEN 0 ELSE t.findings)

InHandler ==
  pc # "recv" => /\ BlocksSquare(seen) /\ Owed(tx, seen, phase)
                 /\ phase # "prelude" => tx.policy # NoPolicy /\ tx.policy.builds

Unfound(t) == t.findings = 0

(* An enforced deny ends the Run, so a policy that enforces records none. *)
RunOK(t) == (Unfound(t) \/ ~Blocking(t.policy)) /\ (t.result = "allow" => Unfound(t))

PreludeOK ==
  \/ stages = <<"policy_resolve", "early_decision">> /\ Unfound(tx)
  \/ stages = <<"early_decision">> /\ Unfound(tx)
  \/ stages = <<>>

InRun == pc = "run" => RunOK(tx) /\ (phase = "prelude" => PreludeOK)

Decided == pc = "ended" => /\ verdict = "block" => Unfound(tx) \/ seen.failedClosed
                           /\ verdict = "allow" => Unfound(tx)

SInv == Types /\ AtRest /\ InHandler /\ InRun /\ Decided

-----------------------------------------------------------------------------
LEMMA Fresh ==
  FreshTx \in TxType /\ FreshSeen \in SeenType /\ Square(FreshSeen) /\ FreshTx.findings = 0
  BY DEF FreshTx, FreshSeen, TxType, SeenType, Directions, Square, BlocksSquare

LEMMA DenyAllType == DenyAll \in PolicyType /\ DenyAll.mode = "block" /\ DenyAll.builds
  BY DEF DenyAll, PolicyType, Directions, Modes

LEMMA SInvInitially ==
  ASSUME Init
  PROVE  SInv
  BY Zenon, Fresh DEF Init, SInv, Types, Verdicts, AtRest, InHandler, InRun, Decided, BuiltBy

(* How the four ways to leave a step establish the invariant again. *)
LEMMA ReplyRests ==
  ASSUME Types, NEW m, NEW t \in TxType, NEW h \in SeenType, NEW act, NEW body, NEW skip,
         Reply(m, t, h, act, body, skip), Square(h), BuiltBy(t, phase)
  PROVE  SInv'
  <1>1. pc' = "recv" /\ tx' = t /\ seen' = h /\ phase' = phase /\ verdict' = verdict
    BY Zenon DEF Reply
  <1> QED
    BY Zenon, <1>1 DEF SInv, Types, AtRest, InHandler, InRun, Decided

LEMMA RunStarts ==
  ASSUME Types, NEW t \in TxType, NEW h \in SeenType, NEW ph \in {"prelude", "headers", "body"}, NEW sts,
         Run(t, h, ph, sts), Square(h),
         ph # "prelude" => t.policy # NoPolicy /\ t.policy.builds,
         ph = "prelude" => sts = <<"policy_resolve", "early_decision">>
  PROVE  SInv'
  <1>1. /\ pc' = "run" /\ phase' = ph /\ stages' = sts /\ verdict' = verdict /\ seen' = h
        /\ tx' = [t EXCEPT !.result = "allow", !.findings = 0]
    BY Zenon DEF Run
  <1>2. tx' \in TxType /\ tx'.findings = 0 /\ tx'.policy = t.policy
    BY Zenon, <1>1 DEF TxType
  <1>3. h.audited["inspect"] \in Nat
    BY Zenon DEF SeenType
  <1>4. Owed(tx', h, ph)
    BY <1>2, <1>3 DEF Owed, Square
  <1> QED
    BY Zenon, <1>1, <1>2, <1>4 DEF SInv, Types, AtRest, InHandler, InRun, Decided, RunOK, PreludeOK, Unfound, Square

LEMMA ProceedKeeps ==
  ASSUME SInv, pc = "run", NEW t \in TxType, NEW h \in SeenType, Proceed(t, h),
         BlocksSquare(h), Owed(t, h, phase), RunOK(t),
         phase # "prelude" => t.policy # NoPolicy /\ t.policy.builds,
         phase = "prelude" => \/ Tail(stages) = <<"early_decision">> /\ Unfound(t)
                              \/ Tail(stages) = <<>>
  PROVE  SInv'
  <1>1. pc' = pc /\ phase' = phase /\ stages' = Tail(stages) /\ verdict' = verdict /\ seen' = h /\ tx' = t
    BY Zenon DEF Proceed
  <1> QED
    BY Zenon, <1>1 DEF SInv, Types, AtRest, InHandler, InRun, Decided, PreludeOK

LEMMA ReturnKeeps ==
  ASSUME SInv, pc = "run", NEW d \in Verdicts, NEW t \in TxType, NEW h \in SeenType, Return(d, t, h),
         BlocksSquare(h), Owed(t, h, phase),
         phase # "prelude" => t.policy # NoPolicy /\ t.policy.builds,
         d = "block" => Unfound(t) \/ h.failedClosed,
         d = "allow" => Unfound(t)
  PROVE  SInv'
  <1>1. pc' = "ended" /\ phase' = phase /\ verdict' = d /\ seen' = h /\ tx' = t
    BY Zenon DEF Return
  <1> QED
    BY Zenon, <1>1 DEF SInv, Types, AtRest, InHandler, InRun, Decided

(* What finish and emitPhaseFindings add to the books. *)
LEMMA AuditedFacts ==
  ASSUME NEW t \in TxType, NEW h \in SeenType, NEW d \in Verdicts
  PROVE  /\ Audited(t, h, d) \in SeenType
         /\ Audited(t, h, d).recorded = h.recorded
         /\ Audited(t, h, d).failedClosed = h.failedClosed
         /\ Audited(t, h, d).blocked = h.blocked
         /\ Audited(t, h, d).audited["inspect"]
              = h.audited["inspect"] + (IF phase = "prelude" THEN 0 ELSE t.findings)
         /\ Audited(t, h, d).blocksAudited = h.blocksAudited + (IF Unfound(t) THEN Blocks(d) ELSE 0)
  <1>1. t.findings \in Nat /\ h.blocksAudited \in Nat /\ h.audited \in [{"prelude", "inspect"} -> Nat]
    BY Zenon DEF TxType, SeenType
  <1>2. Source \in {"prelude", "inspect"} /\ (Source = "inspect" <=> phase # "prelude")
    BY Zenon DEF Source
  <1>3. Blocks(d) \in Nat
    BY Zenon DEF Blocks
  <1> DEFINE b == h.blocksAudited + (IF t.findings = 0 THEN Blocks(d) ELSE 0)
             e == [h.audited EXCEPT ![Source] = @ + t.findings]
  <1>4. e \in [{"prelude", "inspect"} -> Nat] /\ b \in Nat
    BY <1>1, <1>2, <1>3
  <1>5. Audited(t, h, d) = [h EXCEPT !.audited = e, !.blocksAudited = b]
    BY Zenon DEF Audited, SeenType
  <1>6. h.audited["inspect"] \in Nat /\ e["inspect"] = h.audited["inspect"] + (IF phase = "prelude" THEN 0 ELSE t.findings)
    BY <1>1, <1>2
  <1>7. b = h.blocksAudited + (IF Unfound(t) THEN Blocks(d) ELSE 0)
    BY Zenon DEF Unfound
  <1> HIDE DEF b, e
  <1>8. /\ Audited(t, h, d) \in SeenType
        /\ Audited(t, h, d).recorded = h.recorded /\ Audited(t, h, d).failedClosed = h.failedClosed
        /\ Audited(t, h, d).blocked = h.blocked
        /\ Audited(t, h, d).audited = e /\ Audited(t, h, d).blocksAudited = b
    BY Zenon, <1>4, <1>5 DEF SeenType
  <1> QED
    BY Zenon, <1>6, <1>7, <1>8

LEMMA FinishFacts ==
  ASSUME NEW t \in TxType, NEW h \in SeenType, NEW d \in Verdicts
  PROVE  /\ Finish(t, h, d) \in SeenType
         /\ Finish(t, h, d).recorded = h.recorded
         /\ Finish(t, h, d).failedClosed = h.failedClosed
         /\ Finish(t, h, d).blocked = h.blocked + Blocks(d)
         /\ Finish(t, h, d).audited["inspect"]
              = h.audited["inspect"] + (IF phase = "prelude" THEN 0 ELSE t.findings)
         /\ Finish(t, h, d).blocksAudited = h.blocksAudited + (IF Unfound(t) THEN Blocks(d) ELSE 0)
  <1> DEFINE a == Audited(t, h, d)
  <1>1. a \in SeenType
    BY Zenon, AuditedFacts
  <1>2. a.finished \in [Directions -> Nat] /\ a.blocked \in Nat /\ t.dir \in Directions /\ Blocks(d) \in Nat
    BY Zenon, <1>1 DEF SeenType, TxType, Blocks
  <1> DEFINE f == [a.finished EXCEPT ![t.dir] = @ + 1]
             b == a.blocked + Blocks(d)
  <1>3. f \in [Directions -> Nat] /\ b \in Nat
    BY <1>2
  <1>4. Finish(t, h, d) = [a EXCEPT !.finished = f, !.blocked = b]
    BY Zenon, <1>1 DEF Finish, SeenType
  <1>5. b = h.blocked + Blocks(d)
    BY Zenon, AuditedFacts
  <1> HIDE DEF a, b, f
  <1>6. /\ Finish(t, h, d) \in SeenType
        /\ Finish(t, h, d).recorded = a.recorded /\ Finish(t, h, d).failedClosed = a.failedClosed
        /\ Finish(t, h, d).blocked = b /\ Finish(t, h, d).audited = a.audited
        /\ Finish(t, h, d).blocksAudited = a.blocksAudited
    BY Zenon, <1>1, <1>3, <1>4 DEF SeenType
  <1> QED
    BY <1>5, <1>6, AuditedFacts DEF a

LEMMA SettledFacts ==
  ASSUME NEW t \in TxType
  PROVE  /\ Settled(t) \in TxType /\ Settled(t).findings = t.findings /\ Settled(t).policy = t.policy
         /\ Settled(t).mutated = t.mutated
  BY Zenon DEF Settled, TxType

(* A terminal decision squares the books. *)
LEMMA FinishSquares ==
  ASSUME NEW t \in TxType, NEW h \in SeenType, NEW d \in Verdicts,
         BlocksSquare(h), Owed(t, h, phase),
         d = "block" => Unfound(t) \/ h.failedClosed
  PROVE  Finish(t, h, d) \in SeenType /\ Square(Finish(t, h, d))
  <1>1. d # "block" => Blocks(d) = 0
    BY Zenon DEF Blocks
  <1>2. h.blocked \in Nat /\ h.blocksAudited \in Nat /\ Blocks(d) \in Nat
    BY Zenon DEF SeenType, Blocks
  <1>3. BlocksSquare(Finish(t, h, d))
    BY <1>1, <1>2, FinishFacts DEF BlocksSquare, Unfound
  <1>4. Finish(t, h, d).audited["inspect"] = Finish(t, h, d).recorded["inspect"]
    BY Zenon, FinishFacts DEF Owed
  <1> QED
    BY Zenon, <1>3, <1>4, FinishFacts DEF Square

LEMMA FailBuildRests ==
  ASSUME Types, NEW m, NEW t \in TxType, NEW h \in SeenType, FailBuild(m, t, h),
         Square(h), BuiltBy(t, phase), phase = "prelude" \/ t.findings = 0
  PROVE  SInv'
  <1> DEFINE d == IF FailOpen(t.policy) THEN "allow" ELSE "block"
             k == IF d = "block" THEN [h EXCEPT !.failedClosed = TRUE] ELSE [h EXCEPT !.failedOpen = TRUE]
  <1>1. Reply(m, Settled(t), Finish(t, k, d), BodyAct(m, t, d), FALSE, FALSE)
    BY Zenon DEF FailBuild
  <1>2. d \in Verdicts /\ k \in SeenType /\ (d = "block" => k.failedClosed)
    BY Zenon DEF Verdicts, SeenType
  <1>3. k.audited = h.audited /\ k.recorded = h.recorded /\ BlocksSquare(k)
    BY Zenon DEF SeenType, Square, BlocksSquare
  <1>4. h.audited["inspect"] \in Nat /\ h.recorded["inspect"] \in Nat
    BY Zenon DEF SeenType
  <1>5. Owed(t, k, phase)
    BY <1>3, <1>4 DEF Owed, Square
  <1> HIDE DEF d, k
  <1>6. Finish(t, k, d) \in SeenType /\ Square(Finish(t, k, d))
    BY Zenon, <1>2, <1>3, <1>5, FinishSquares
  <1>7. BuiltBy(Settled(t), phase)
    BY Zenon, SettledFacts DEF BuiltBy
  <1> QED
    BY Zenon, <1>1, <1>6, <1>7, SettledFacts, ReplyRests

LEMMA InspectHeadersKeeps ==
  ASSUME Types, NEW m, NEW t \in TxType, NEW h \in SeenType, InspectHeaders(m, t, h),
         Square(h), Enforcing(t.policy), phase = "prelude" \/ t.findings = 0
  PROVE  SInv'
  <1>1. CASE t.policy.builds
    BY Zenon, <1>1, RunStarts DEF InspectHeaders, Enforcing
  <1>2. CASE ~t.policy.builds
    <2>1. BuiltBy(t, phase)
      BY DEF BuiltBy
    <2> QED
      BY Zenon, <1>2, <2>1, FailBuildRests DEF InspectHeaders
  <1> QED
    BY Zenon, <1>1, <1>2

LEMMA InspectBodyKeeps ==
  ASSUME Types, NEW m, NEW t \in TxType, NEW h \in SeenType, NEW skip,
         InspectBufferedBody(m, t, h, skip), Square(h), BuiltBy(t, phase)
  PROVE  SInv'
  <1> DEFINE i == [t EXCEPT !.inspected = TRUE]
             u == [h EXCEPT !.unseen = 0]
  <1>1. i \in TxType /\ i.policy = t.policy /\ i.findings = t.findings
    BY Zenon DEF TxType
  <1>2. u \in SeenType /\ Square(u)
    BY Zenon DEF SeenType, Square, BlocksSquare
  <1>3. CASE BodyPhase(t) /\ t.policy.builds
    <2>1. Run(i, u, "body", BodyStages(t.policy.order[t.dir])) /\ t.policy # NoPolicy
      BY Zenon, <1>3 DEF InspectBufferedBody, BodyPhase, Enforcing
    <2> HIDE DEF i, u
    <2> QED
      BY Zenon, <1>1, <1>2, <1>3, <2>1, RunStarts
  <1>4. CASE BodyPhase(t) /\ ~t.policy.builds
    <2>1. FailBuild(m, i, h)
      BY Zenon, <1>4 DEF InspectBufferedBody
    <2>2. phase = "prelude" \/ t.findings = 0
      BY <1>4 DEF BuiltBy, TxType
    <2>3. BuiltBy(i, phase)
      BY Zenon, <1>1 DEF BuiltBy
    <2> HIDE DEF i
    <2> QED
      BY Zenon, <1>1, <2>1, <2>2, <2>3, FailBuildRests
  <1>5. CASE ~BodyPhase(t)
    BY Zenon, <1>5, ReplyRests DEF InspectBufferedBody
  <1> QED
    BY Zenon, <1>3, <1>4, <1>5

-----------------------------------------------------------------------------
(* The actions of the peer. *)
LEMMA RequestHeadersKeeps ==
  ASSUME SInv, NEW eos \in BOOLEAN, NEW mismatch \in BOOLEAN, RequestHeaders(eos, mismatch)
  PROVE  SInv'
  <1> DEFINE m == [kind |-> "reqHeaders", eos |-> eos]
             t == [tx EXCEPT !.dir = "request"]
             o == seen.reordered \/ tx.dir = "response"
             h == [seen EXCEPT !.mismatch = mismatch, !.reordered = o]
  <1>1. Types /\ tx \in TxType /\ seen \in SeenType /\ Square(seen) /\ BuiltBy(tx, phase)
    BY Zenon DEF SInv, Types, AtRest, RequestHeaders, Receive
  <1>3. \/ Reply(m, tx, seen, "continue", FALSE, FALSE)
        \/ Run(t, h, "prelude", <<"policy_resolve", "early_decision">>)
    BY Zenon DEF RequestHeaders
  <1>2. t \in TxType /\ h \in SeenType /\ Square(h)
    <2>1. o \in BOOLEAN
      BY Zenon
    <2> HIDE DEF o
    <2>2. h \in SeenType /\ Square(h)
      BY Zenon, <1>1, <2>1 DEF SeenType, Square, BlocksSquare
    <2> QED
      BY Zenon, <1>1, <2>2 DEF TxType, Directions
  <1> HIDE DEF m, t, h
  <1>4. CASE Reply(m, tx, seen, "continue", FALSE, FALSE)
    BY Zenon, <1>1, <1>4, ReplyRests
  <1>5. CASE Run(t, h, "prelude", <<"policy_resolve", "early_decision">>)
    BY Zenon, <1>1, <1>2, <1>5, RunStarts
  <1> QED
    BY Zenon, <1>3, <1>4, <1>5

LEMMA ResponseHeadersKeeps ==
  ASSUME SInv, NEW eos \in BOOLEAN, ResponseHeaders(eos)
  PROVE  SInv'
  <1> DEFINE m == [kind |-> "respHeaders", eos |-> eos]
             t == [tx EXCEPT !.dir = "response", !.bodyRequired = FALSE, !.wafEnabled = FALSE,
                             !.body = 0, !.truncated = FALSE, !.inspected = FALSE, !.mutated = FALSE,
                             !.result = "allow", !.findings = 0]
             h == [seen EXCEPT !.unseen = 0, !.failedOpen = FALSE]
  <1>1. Types /\ tx \in TxType /\ seen \in SeenType /\ Square(seen)
    BY Zenon DEF SInv, Types, AtRest, ResponseHeaders, Receive
  <1>2. t \in TxType /\ t.findings = 0 /\ t.policy = tx.policy
    BY Zenon, <1>1 DEF TxType, Directions
  <1>3. h \in SeenType /\ Square(h)
    BY Zenon, <1>1 DEF SeenType, Square, BlocksSquare
  <1>4. \/ Enforcing(tx.policy) /\ InspectHeaders(m, t, h)
        \/ Reply(m, t, Finish(t, h, "allow"), "continue", FALSE, FALSE)
    BY Zenon DEF ResponseHeaders
  <1> HIDE DEF m, t, h
  <1>5. CASE Enforcing(tx.policy) /\ InspectHeaders(m, t, h)
    BY Zenon, <1>1, <1>2, <1>3, <1>5, InspectHeadersKeeps
  <1>6. CASE Reply(m, t, Finish(t, h, "allow"), "continue", FALSE, FALSE)
    <2>1. h.audited["inspect"] \in Nat /\ "allow" \in Verdicts
      BY Zenon, <1>3 DEF SeenType, Verdicts
    <2>2. Owed(t, h, phase) /\ BlocksSquare(h) /\ BuiltBy(t, phase)
      BY <1>2, <1>3, <2>1 DEF Owed, Square, BuiltBy
    <2>3. Finish(t, h, "allow") \in SeenType /\ Square(Finish(t, h, "allow"))
      BY Zenon, <1>2, <1>3, <2>1, <2>2, FinishSquares
    <2> QED
      BY Zenon, <1>1, <1>2, <1>6, <2>2, <2>3, ReplyRests
  <1> QED
    BY Zenon, <1>4, <1>5, <1>6

LEMMA BodyChunkKeeps ==
  ASSUME SInv, NEW dir \in Directions, NEW len \in Nat, NEW eos \in BOOLEAN, NEW stored \in 0..len,
         BodyChunk(dir, len, stored, eos)
  PROVE  SInv'
  <1> DEFINE m == [kind |-> IF dir = "request" THEN "reqBody" ELSE "respBody", eos |-> eos]
             r == Reopened(tx, len)
             t == [r EXCEPT !.body = @ + stored, !.truncated = @ \/ stored < len]
             h == [seen EXCEPT !.unseen = @ + len]
  <1>1. Types /\ tx \in TxType /\ seen \in SeenType /\ Square(seen) /\ BuiltBy(tx, phase)
    BY Zenon DEF SInv, Types, AtRest, BodyChunk, Receive
  <1>2. r \in TxType /\ r.findings = tx.findings /\ r.policy = tx.policy
    BY Zenon, <1>1 DEF TxType, Reopened
  <1>3. h \in SeenType /\ Square(h)
    BY <1>1 DEF SeenType, Square, BlocksSquare
  <1>4. \/ Reply(m, tx, seen, "continue", FALSE, FALSE)
        \/ Reply(m, t, h, "continue", FALSE, FALSE)
        \/ InspectBufferedBody(m, t, h, FALSE)
    BY Zenon DEF BodyChunk
  <1> HIDE DEF m, r, h
  <1>5. t \in TxType /\ t.findings = tx.findings /\ t.policy = tx.policy
    <2> DEFINE b == r.body + stored
               c == r.truncated \/ stored < len
    <2>1. b \in Nat
      BY <1>2 DEF TxType
    <2>2. c \in BOOLEAN
      BY Zenon
    <2>3. t = [r EXCEPT !.body = b, !.truncated = c]
      BY Zenon
    <2> HIDE DEF b, c, t
    <2> QED
      BY Zenon, <1>2, <2>1, <2>2, <2>3 DEF TxType
  <1> HIDE DEF t
  <1>6. BuiltBy(t, phase)
    BY Zenon, <1>1, <1>5 DEF BuiltBy
  <1>7. CASE Reply(m, tx, seen, "continue", FALSE, FALSE)
    BY Zenon, <1>1, <1>7, ReplyRests
  <1>8. CASE Reply(m, t, h, "continue", FALSE, FALSE)
    BY Zenon, <1>1, <1>3, <1>5, <1>6, <1>8, ReplyRests
  <1>9. CASE InspectBufferedBody(m, t, h, FALSE)
    BY Zenon, <1>1, <1>3, <1>5, <1>6, <1>9, InspectBodyKeeps
  <1> QED
    BY Zenon, <1>4, <1>7, <1>8, <1>9

LEMMA PeerKeeps ==
  ASSUME SInv, PeerStep
  PROVE  SInv'
  <1>1. CASE \E eos, mismatch \in BOOLEAN : RequestHeaders(eos, mismatch)
    BY Zenon, <1>1, RequestHeadersKeeps
  <1>2. CASE \E eos \in BOOLEAN : ResponseHeaders(eos)
    BY Zenon, <1>2, ResponseHeadersKeeps
  <1>3. CASE \E dir \in Directions, len \in BodyLens, eos \in BOOLEAN :
               \E stored \in 0..len : BodyChunk(dir, len, stored, eos)
    <2>1. BodyLens \subseteq Nat
      BY Zenon, StreamAssumption
    <2> QED
      BY Zenon, <1>3, <2>1, BodyChunkKeeps
  <1>4. CASE \E dir \in Directions : Trailers(dir)
    <2>1. Types /\ tx \in TxType /\ seen \in SeenType /\ Square(seen) /\ BuiltBy(tx, phase)
      BY Zenon, <1>4 DEF SInv, Types, AtRest, Trailers, Receive
    <2>2. \E m : InspectBufferedBody(m, tx, seen, FALSE)
      BY Zenon, <1>4 DEF Trailers
    <2> QED
      BY Zenon, <2>1, <2>2, InspectBodyKeeps
  <1>5. CASE EndStream
    BY <1>5, Fresh DEF EndStream, SInv, Types, AtRest, InHandler, InRun, Decided, BuiltBy
  <1> QED
    BY Zenon, <1>1, <1>2, <1>3, <1>4, <1>5 DEF PeerStep

-----------------------------------------------------------------------------
(* The stages.  A deny needs its findings to be those of tx, and none of     *)
(* them if the policy it is decided under enforces.                          *)
LEMMA InRunFacts ==
  ASSUME SInv, pc = "run"
  PROVE  /\ tx \in TxType /\ seen \in SeenType /\ phase \in {"prelude", "headers", "body"}
         /\ BlocksSquare(seen) /\ Owed(tx, seen, phase) /\ RunOK(tx)
         /\ phase # "prelude" => tx.policy # NoPolicy /\ tx.policy.builds
         /\ phase = "prelude" => PreludeOK
  BY Zenon DEF SInv, Types, InHandler, InRun

LEMMA RecordedFacts ==
  ASSUME NEW t \in TxType
  PROVE  /\ Recorded(t) \in TxType /\ Recorded(t).findings = t.findings + 1
         /\ Recorded(t).policy = t.policy /\ Recorded(t).result # "allow"
         /\ Recorded(t).mutated = t.mutated
  <1>1. t.findings + 1 \in Nat
    BY DEF TxType
  <1> QED
    BY Zenon, <1>1 DEF Recorded, TxType

LEMMA ApplyDenyKeeps ==
  ASSUME SInv, pc = "run", NEW t \in TxType, ApplyDeny(t),
         t.findings = tx.findings, Blocking(t.policy) => Unfound(t),
         phase # "prelude" => t.policy # NoPolicy /\ t.policy.builds,
         phase = "prelude" => Tail(stages) = <<>>
  PROVE  SInv'
  <1> DEFINE s == Source
             h == [seen EXCEPT !.recorded[s] = @ + 1]
             q == [seen.recorded EXCEPT ![s] = @ + 1]
  <1>1. /\ tx \in TxType /\ seen \in SeenType /\ BlocksSquare(seen) /\ Owed(tx, seen, phase)
        /\ seen.recorded \in [{"prelude", "inspect"} -> Nat] /\ t.findings \in Nat
    BY Zenon, InRunFacts DEF SeenType, TxType
  <1>2. Owed(t, seen, phase)
    BY Zenon, <1>1 DEF Owed
  <1>3. CASE Blocking(t.policy)
    BY Zenon, <1>1, <1>2, <1>3, ReturnKeeps DEF ApplyDeny, Verdicts
  <1>4. CASE ~Blocking(t.policy)
    <2>1. Proceed(Recorded(t), h)
      BY Zenon, <1>4 DEF ApplyDeny
    <2>2. s \in {"prelude", "inspect"} /\ (s = "inspect" <=> phase # "prelude")
      BY Zenon DEF Source
    <2> HIDE DEF s
    <2>3. q \in [{"prelude", "inspect"} -> Nat]
          /\ q["inspect"] = seen.recorded["inspect"] + (IF phase = "prelude" THEN 0 ELSE 1)
      BY <1>1, <2>2
    <2>4. h = [seen EXCEPT !.recorded = q]
      BY Zenon, <1>1 DEF SeenType
    <2> HIDE DEF q, h
    <2>5. h \in SeenType /\ h.audited = seen.audited /\ h.recorded = q /\ BlocksSquare(h)
      BY Zenon, <1>1, <2>3, <2>4 DEF SeenType, BlocksSquare
    <2>6. seen.audited["inspect"] \in Nat /\ seen.recorded["inspect"] \in Nat
      BY Zenon, <1>1 DEF SeenType
    <2>7. Recorded(t) \in TxType /\ Recorded(t).policy = t.policy /\ Recorded(t).findings = t.findings + 1
      BY Zenon, RecordedFacts
    <2>8. Owed(Recorded(t), h, phase)
      BY <1>1, <1>2, <2>3, <2>5, <2>6, <2>7 DEF Owed
    <2>9. RunOK(Recorded(t))
      BY Zenon, <1>4, RecordedFacts DEF RunOK
    <2> QED
      BY Zenon, <2>1, <2>5, <2>7, <2>8, <2>9, ProceedKeeps
  <1> QED
    BY Zenon, <1>3, <1>4

LEMMA FailPostureKeeps ==
  ASSUME SInv, pc = "run", NEW c \in BOOLEAN, FailPosture([seen EXCEPT !.cancelled = c])
  PROVE  SInv'
  <1> DEFINE k == [seen EXCEPT !.cancelled = c]
             o == [k EXCEPT !.failedOpen = TRUE]
             f == [k EXCEPT !.failedClosed = TRUE]
  <1>1. /\ tx \in TxType /\ seen \in SeenType /\ BlocksSquare(seen) /\ Owed(tx, seen, phase)
        /\ tx.result \in Verdicts /\ (tx.result = "allow" => Unfound(tx)) /\ tx.result # "block"
    BY Zenon, InRunFacts DEF TxType, Verdicts, RunOK
  <1>2. o \in SeenType /\ o.audited = seen.audited /\ o.recorded = seen.recorded /\ BlocksSquare(o)
    BY Zenon, <1>1 DEF SeenType, BlocksSquare
  <1>3. f \in SeenType /\ f.audited = seen.audited /\ f.recorded = seen.recorded /\ f.failedClosed
    BY Zenon, <1>1 DEF SeenType
  <1>4. Return(tx.result, tx, o) \/ Return("block", tx, f)
    BY Zenon DEF FailPosture
  <1> HIDE DEF o, f
  <1>5. Owed(tx, o, phase) /\ Owed(tx, f, phase) /\ BlocksSquare(f) /\ "block" \in Verdicts
    BY Zenon, <1>1, <1>2, <1>3 DEF Owed, BlocksSquare, Verdicts
  <1>6. CASE Return(tx.result, tx, o)
    BY Zenon, <1>1, <1>2, <1>5, <1>6, InRunFacts, ReturnKeeps
  <1>7. CASE Return("block", tx, f)
    BY Zenon, <1>1, <1>3, <1>5, <1>7, InRunFacts, ReturnKeeps
  <1> QED
    BY Zenon, <1>4, <1>6, <1>7

(* The prelude's stages, one by one. *)
LEMMA PreludeTails ==
  /\ Head(<<"policy_resolve", "early_decision">>) = "policy_resolve"
  /\ Tail(<<"policy_resolve", "early_decision">>) = <<"early_decision">>
  /\ Head(<<"early_decision">>) = "early_decision" /\ Tail(<<"early_decision">>) = <<>>
  OBVIOUS

LEMMA InPrelude ==
  ASSUME PreludeOK, stages # <<>>
  PROVE  /\ Head(stages) \in {"policy_resolve", "early_decision"} /\ Unfound(tx)
         /\ Head(stages) = "policy_resolve" => Tail(stages) = <<"early_decision">>
         /\ Head(stages) = "early_decision" => Tail(stages) = <<>>
  BY Zenon, PreludeTails DEF PreludeOK

LEMMA EarlyDecisionKeeps ==
  ASSUME SInv, EarlyDecision
  PROVE  SInv'
  <1>1. pc = "run" /\ stages # <<>> /\ Head(stages) = "early_decision"
    BY Zenon DEF EarlyDecision, Running
  <1>2. /\ tx \in TxType /\ seen \in SeenType /\ BlocksSquare(seen) /\ Owed(tx, seen, phase) /\ RunOK(tx)
        /\ phase # "prelude" => tx.policy # NoPolicy /\ tx.policy.builds
        /\ phase = "prelude" => Tail(stages) = <<>> /\ Unfound(tx)
        /\ tx.result \in Verdicts /\ tx.result # "block"
    BY Zenon, <1>1, InRunFacts, InPrelude DEF TxType, Verdicts
  <1>3. CASE ApplyDeny(tx)
    BY Zenon, <1>1, <1>2, <1>3, ApplyDenyKeeps DEF RunOK
  <1>4. CASE Return(tx.result, tx, seen)
    BY Zenon, <1>1, <1>2, <1>4, ReturnKeeps DEF RunOK
  <1>5. CASE tx.policy = NoPolicy /\ ApplyDeny([tx EXCEPT !.policy = DenyAll])
    <2> DEFINE t == [tx EXCEPT !.policy = DenyAll]
    <2>1. t \in TxType /\ t.findings = tx.findings
      BY Zenon, <1>2, DenyAllType DEF TxType
    <2>2. phase = "prelude" /\ Unfound(t)
      BY Zenon, <1>2, <1>5, <2>1 DEF Unfound
    <2> HIDE DEF t
    <2> QED
      BY Zenon, <1>1, <1>2, <1>5, <2>1, <2>2, ApplyDenyKeeps DEF t
  <1>6. CASE Proceed(tx, seen)
    BY Zenon, <1>1, <1>2, <1>6, ProceedKeeps
  <1> QED
    BY Zenon, <1>3, <1>4, <1>5, <1>6 DEF EarlyDecision

LEMMA InspectKeeps ==
  ASSUME SInv, NEW s \in Inspectors \cup {"guard", "decode"},
         NEW res \in {"continue", "redact", "deny", "error"}, Inspect(s, res)
  PROVE  SInv'
  <1>1. pc = "run" /\ stages # <<>> /\ Head(stages) = s
    BY Zenon DEF Inspect, Running
  <1>2. phase # "prelude"
    BY Zenon, <1>1, InRunFacts, InPrelude DEF Inspectors
  <1>3. /\ tx \in TxType /\ seen \in SeenType /\ BlocksSquare(seen) /\ Owed(tx, seen, phase) /\ RunOK(tx)
        /\ tx.policy # NoPolicy /\ tx.policy.builds
    BY Zenon, <1>1, <1>2, InRunFacts
  <1>4. CASE Proceed(tx, seen)
    BY Zenon, <1>1, <1>2, <1>3, <1>4, ProceedKeeps
  <1>5. CASE Proceed([tx EXCEPT !.mutated = TRUE], seen)
    <2> DEFINE t == [tx EXCEPT !.mutated = TRUE]
    <2>1. t \in TxType /\ t.findings = tx.findings /\ t.policy = tx.policy /\ t.result = tx.result
      BY Zenon, <1>3 DEF TxType
    <2>2. Owed(t, seen, phase) /\ RunOK(t)
      BY Zenon, <1>3, <2>1 DEF Owed, RunOK, Unfound
    <2> HIDE DEF t
    <2> QED
      BY Zenon, <1>1, <1>2, <1>3, <1>5, <2>1, <2>2, ProceedKeeps DEF t
  <1>6. CASE ApplyDeny(tx)
    BY Zenon, <1>1, <1>2, <1>3, <1>6, ApplyDenyKeeps DEF RunOK
  <1>7. CASE FailPosture(seen)
    <2>1. seen = [seen EXCEPT !.cancelled = seen.cancelled] /\ seen.cancelled \in BOOLEAN
      BY Zenon, <1>3 DEF SeenType
    <2> QED
      BY Zenon, <1>1, <1>7, <2>1, FailPostureKeeps
  <1> QED
    BY Zenon, <1>4, <1>5, <1>6, <1>7 DEF Inspect

LEMMA StageKeeps ==
  ASSUME SInv, peer \in Peers, StageStep
  PROVE  SInv'
  <1>1. CASE SkipStage
    <2>1. pc = "run" /\ stages # <<>> /\ Gated(Head(stages)) /\ Proceed(tx, seen)
      BY Zenon, <1>1 DEF SkipStage
    <2>2. phase # "prelude"
      BY Zenon, <2>1, InRunFacts, InPrelude DEF Gated
    <2> QED
      BY Zenon, <2>1, <2>2, InRunFacts, ProceedKeeps
  <1>2. CASE RunEnds
    <2>1. pc = "run" /\ Return(tx.result, tx, seen)
      BY Zenon, <1>2 DEF RunEnds
    <2>2. tx.result \in Verdicts /\ tx.result # "block" /\ (tx.result = "allow" => Unfound(tx))
      BY Zenon, <2>1, InRunFacts DEF TxType, Verdicts, RunOK
    <2> QED
      BY Zenon, <2>1, <2>2, InRunFacts, ReturnKeeps
  <1>3. CASE \E cancelled \in BOOLEAN : Deadline(cancelled)
    BY Zenon, <1>3, FailPostureKeeps DEF Deadline
  <1>4. CASE \E p \in Policies[peer] \cup {NoPolicy} : PolicyResolve(p)
    <2>1. PICK p \in Policies[peer] \cup {NoPolicy} : PolicyResolve(p)
      BY Zenon, <1>4
    <2>2. p \in PolicyType \cup {NoPolicy}
      BY Zenon, StreamAssumption
    <2> DEFINE t == [tx EXCEPT !.policy = p]
    <2>3. pc = "run" /\ phase = "prelude" /\ stages # <<>> /\ Head(stages) = "policy_resolve"
          /\ Proceed(t, seen)
      BY Zenon, <2>1 DEF PolicyResolve, Running
    <2>4. Tail(stages) = <<"early_decision">> /\ Unfound(tx)
      BY Zenon, <2>3, InRunFacts, InPrelude
    <2>5. t \in TxType /\ t.findings = tx.findings /\ t.result = tx.result
      BY Zenon, <2>2, <2>3, InRunFacts DEF TxType
    <2>6. Owed(t, seen, phase) /\ RunOK(t) /\ Unfound(t)
      BY Zenon, <2>3, <2>4, <2>5, InRunFacts DEF Owed, RunOK, Unfound
    <2> HIDE DEF t
    <2> QED
      BY Zenon, <2>3, <2>4, <2>5, <2>6, InRunFacts, ProceedKeeps
  <1>5. CASE EarlyDecision
    BY Zenon, <1>5, EarlyDecisionKeeps
  <1>6. CASE BodyGate
    <2> DEFINE w == tx.policy.bodyEngines
               b == tx.policy.inspectBody[tx.dir] \/ w
               t == [tx EXCEPT !.bodyRequired = b, !.wafEnabled = w]
    <2>1. pc = "run" /\ stages # <<>> /\ Head(stages) = "body_gate" /\ Proceed(t, seen)
      BY Zenon, <1>6 DEF BodyGate, Running
    <2>2. phase # "prelude"
      BY Zenon, <2>1, InRunFacts, InPrelude
    <2>3. tx.policy \in PolicyType
      BY Zenon, <2>1, <2>2, InRunFacts DEF TxType
    <2>4. w \in BOOLEAN
      BY Zenon, <2>3 DEF PolicyType
    <2>5. b \in BOOLEAN
      BY Zenon
    <2> HIDE DEF b, w
    <2>6. t \in TxType /\ t.findings = tx.findings /\ t.result = tx.result /\ t.policy = tx.policy
      BY Zenon, <2>1, <2>4, <2>5, InRunFacts DEF TxType
    <2>7. Owed(t, seen, phase) /\ RunOK(t)
      BY Zenon, <2>1, <2>6, InRunFacts DEF Owed, RunOK, Unfound
    <2> HIDE DEF t
    <2> QED
      BY Zenon, <2>1, <2>2, <2>6, <2>7, InRunFacts, ProceedKeeps
  <1>7. CASE \E s \in Inspectors \cup {"guard", "decode"}, res \in {"continue", "redact", "deny", "error"} :
               Inspect(s, res)
    BY Zenon, <1>7, InspectKeeps
  <1> QED
    BY Zenon, <1>1, <1>2, <1>3, <1>4, <1>5, <1>6, <1>7 DEF StageStep

-----------------------------------------------------------------------------
(* The handlers after Run. *)
LEMMA EndedFacts ==
  ASSUME SInv, pc = "ended"
  PROVE  /\ Types /\ tx \in TxType /\ seen \in SeenType /\ verdict \in Verdicts
         /\ BlocksSquare(seen) /\ Owed(tx, seen, phase)
         /\ phase # "prelude" => tx.policy # NoPolicy /\ tx.policy.builds
         /\ verdict = "block" => Unfound(tx) \/ seen.failedClosed
         /\ verdict = "allow" => Unfound(tx)
  BY Zenon DEF SInv, Types, InHandler, Decided

LEMMA TerminalRests ==
  ASSUME SInv, pc = "ended", NEW act, NEW skip,
         Reply(msg, Settled(tx), Finish(tx, seen, verdict), act, FALSE, skip)
  PROVE  SInv'
  <1>1. Finish(tx, seen, verdict) \in SeenType /\ Square(Finish(tx, seen, verdict))
    BY Zenon, EndedFacts, FinishSquares
  <1>2. Settled(tx) \in TxType /\ BuiltBy(Settled(tx), phase)
    BY Zenon, EndedFacts, SettledFacts DEF BuiltBy
  <1> QED
    BY Zenon, <1>1, <1>2, EndedFacts, ReplyRests

LEMMA AfterPreludeKeeps ==
  ASSUME SInv, AfterPrelude
  PROVE  SInv'
  <1>1. pc = "ended" /\ phase = "prelude"
    BY Zenon DEF AfterPrelude, Ended
  <1>2. CASE \E act : Terminal(act)
    BY Zenon, <1>1, <1>2, TerminalRests DEF Terminal
  <1>3. CASE Enforcing(tx.policy) /\ InspectHeaders(msg, tx, seen)
    <2>1. seen.audited["inspect"] \in Nat
      BY Zenon, <1>1, EndedFacts DEF SeenType
    <2>2. Square(seen)
      BY <1>1, <2>1, EndedFacts DEF Owed, Square
    <2> QED
      BY Zenon, <1>1, <1>3, <2>2, EndedFacts, InspectHeadersKeeps
  <1> QED
    BY Zenon, <1>2, <1>3 DEF AfterPrelude

LEMMA AfterHeadersKeeps ==
  ASSUME SInv, AfterHeaders
  PROVE  SInv'
  <1> DEFINE h == PhaseFindings(tx, seen)
  <1>1. pc = "ended" /\ phase = "headers"
    BY Zenon DEF AfterHeaders, Ended
  <1>2. CASE \E act : Terminal(act)
    BY Zenon, <1>1, <1>2, TerminalRests DEF Terminal
  <1>3. CASE verdict # "block" /\ \/ InspectBufferedBody(msg, tx, h, Skip)
                                  \/ Reply(msg, tx, h, "continue", TRUE, Skip)
    <2>1. BuiltBy(tx, phase)
      BY Zenon, <1>1, EndedFacts DEF BuiltBy
    <2>2. h \in SeenType /\ Square(h)
      <3>1. CASE verdict = "allow"
        <4>1. h = seen /\ seen.audited["inspect"] \in Nat
          BY Zenon, <1>1, <3>1, EndedFacts DEF PhaseFindings, SeenType
        <4> QED
          BY <1>1, <3>1, <4>1, EndedFacts DEF Owed, Square, Unfound
      <3>2. CASE verdict \in {"detect", "shadow"}
        <4>1. h = Audited(tx, seen, verdict) /\ Blocks(verdict) = 0 /\ seen.blocksAudited \in Nat
          BY Zenon, <1>1, <3>2, EndedFacts DEF PhaseFindings, Blocks, SeenType
        <4>2. BlocksSquare(h)
          BY <1>1, <4>1, EndedFacts, AuditedFacts DEF BlocksSquare
        <4>3. h \in SeenType /\ h.audited["inspect"] = h.recorded["inspect"]
          BY <1>1, <4>1, EndedFacts, AuditedFacts DEF Owed
        <4> QED
          BY Zenon, <4>2, <4>3 DEF Square
      <3> QED
        BY Zenon, <1>1, <1>3, <3>1, <3>2, EndedFacts DEF Verdicts
    <2> HIDE DEF h
    <2>3. CASE InspectBufferedBody(msg, tx, h, Skip)
      BY Zenon, <1>1, <2>1, <2>2, <2>3, EndedFacts, InspectBodyKeeps
    <2>4. CASE Reply(msg, tx, h, "continue", TRUE, Skip)
      BY Zenon, <1>1, <2>1, <2>2, <2>4, EndedFacts, ReplyRests
    <2> QED
      BY Zenon, <1>3, <2>3, <2>4
  <1> QED
    BY Zenon, <1>2, <1>3 DEF AfterHeaders

LEMMA SInvStep ==
  ASSUME SInv, peer \in Peers, [Next]_vars
  PROVE  SInv' /\ peer' \in Peers
  <1>0. peer' = peer
    BY Zenon DEF Next, vars
  <1>1. CASE PeerStep
    BY Zenon, <1>0, <1>1, PeerKeeps
  <1>2. CASE StageStep
    BY Zenon, <1>0, <1>2, StageKeeps
  <1>3. CASE AfterPrelude
    BY Zenon, <1>0, <1>3, AfterPreludeKeeps
  <1>4. CASE AfterHeaders
    BY Zenon, <1>0, <1>4, AfterHeadersKeeps
  <1>5. CASE AfterBody
    BY Zenon, <1>0, <1>5, TerminalRests DEF AfterBody, Ended
  <1>6. CASE UNCHANGED vars
    BY Zenon, <1>0, <1>6 DEF vars, SInv, Types, AtRest, InHandler, InRun, Decided, PreludeOK
  <1> QED
    BY Zenon, <1>1, <1>2, <1>3, <1>4, <1>5, <1>6 DEF Next

LEMMA SInvAlways == Spec => [](SInv /\ peer \in Peers)
  <1>1. Init => SInv /\ peer \in Peers
    BY Zenon, SInvInitially DEF Init
  <1>2. SInv /\ peer \in Peers /\ [Next]_vars => (SInv /\ peer \in Peers)'
    BY Zenon, SInvStep
  <1> QED
    BY <1>1, <1>2, PTL DEF Spec

(* For any policies and any stream, whoever is at the other end: between two *)
(* messages every finding the inspect pipelines recorded has been audited    *)
(* once (emitPhaseFindings, emitAudit), and every block has its event unless *)
(* a policy that held findings failed closed.                                *)
THEOREM FindingsAudited == Spec => []InspectFindingsAudited
  <1>1. SInv => InspectFindingsAudited
    BY Zenon DEF SInv, AtRest, Square, BlocksSquare, InspectFindingsAudited
  <1> QED
    BY <1>1, SInvAlways, PTL

-----------------------------------------------------------------------------
(* A stream has one policy because Envoy sends the request headers once; so  *)
(* what the policy of the moment did is what the policy that answers did.    *)
Observes(p) == p # NoPolicy /\ p.mode \in {"detect", "shadow"}

Intact(t) == Observes(t.policy) => ~t.mutated

Obs ==
  /\ Intact(tx)
  /\ pc = "recv" /\ "reqHeaders" \in may => ~tx.mutated
  /\ pc # "recv" /\ phase = "prelude" => ~tx.mutated
  /\ Observes(tx.policy) /\ pc = "recv" /\ reply.act = "immediate" => seen.failedClosed
  /\ Observes(tx.policy) /\ pc = "ended" /\ verdict = "block" => seen.failedClosed

LEMMA ReplyObs ==
  ASSUME NEW m, NEW t, NEW h, NEW act, NEW body, NEW skip, Reply(m, t, h, act, body, skip),
         Intact(t), Observes(t.policy) /\ act = "immediate" => h.failedClosed
  PROVE  Obs'
  <1> DEFINE r == [act |-> act, body |-> body, skip |-> skip \/ reply.skip]
  <1>1. /\ pc' = "recv" /\ tx' = t /\ seen' = h /\ reply' = r
        /\ may' = ToCome(m, r) \ (IF r.skip THEN {"respHeaders"} ELSE {})
    BY Zenon DEF Reply
  <1>2. r.act = act
    BY Zenon
  <1> HIDE DEF r
  <1>3. "reqHeaders" \notin ToCome(m, r)
    BY Zenon DEF ToCome
  <1>4. "reqHeaders" \notin may'
    BY Zenon, <1>1, <1>3
  <1> QED
    BY Zenon, <1>1, <1>2, <1>4 DEF Obs, Intact

LEMMA RunObs ==
  ASSUME NEW t \in TxType, NEW h, NEW ph, NEW sts, Run(t, h, ph, sts),
         Intact(t), ph = "prelude" => ~t.mutated
  PROVE  Obs'
  <1>1. pc' = "run" /\ phase' = ph /\ tx' = [t EXCEPT !.result = "allow", !.findings = 0]
    BY Zenon DEF Run
  <1>2. tx'.policy = t.policy /\ tx'.mutated = t.mutated
    BY Zenon, <1>1 DEF TxType
  <1> QED
    BY Zenon, <1>1, <1>2 DEF Obs, Intact

LEMMA ProceedObs ==
  ASSUME pc = "run", NEW t, NEW h, Proceed(t, h), Intact(t), phase = "prelude" => ~t.mutated
  PROVE  Obs'
  <1>1. pc' = pc /\ phase' = phase /\ tx' = t /\ seen' = h
    BY Zenon DEF Proceed
  <1> QED
    BY Zenon, <1>1 DEF Obs, Intact

LEMMA ReturnObs ==
  ASSUME NEW d, NEW t, NEW h, Return(d, t, h), Intact(t), phase = "prelude" => ~t.mutated,
         Observes(t.policy) /\ d = "block" => h.failedClosed
  PROVE  Obs'
  <1>1. pc' = "ended" /\ phase' = phase /\ tx' = t /\ seen' = h /\ verdict' = d
    BY Zenon DEF Return
  <1> QED
    BY Zenon, <1>1 DEF Obs, Intact

LEMMA FailBuildObs ==
  ASSUME NEW m, NEW t \in TxType, NEW h \in SeenType, FailBuild(m, t, h), Intact(t)
  PROVE  Obs'
  <1> DEFINE d == IF FailOpen(t.policy) THEN "allow" ELSE "block"
             k == IF d = "block" THEN [h EXCEPT !.failedClosed = TRUE] ELSE [h EXCEPT !.failedOpen = TRUE]
  <1>1. Reply(m, Settled(t), Finish(t, k, d), BodyAct(m, t, d), FALSE, FALSE)
    BY Zenon DEF FailBuild
  <1>2. d \in Verdicts /\ k \in SeenType /\ (d = "block" => k.failedClosed)
    BY Zenon DEF Verdicts, SeenType
  <1>3. BodyAct(m, t, d) = "immediate" => d = "block"
    BY Zenon DEF BodyAct
  <1> HIDE DEF d, k
  <1>4. Finish(t, k, d).failedClosed = k.failedClosed
    BY Zenon, <1>2, FinishFacts
  <1>5. Intact(Settled(t))
    BY Zenon, SettledFacts DEF Intact
  <1> QED
    BY Zenon, <1>1, <1>2, <1>3, <1>4, <1>5, ReplyObs

LEMMA InspectHeadersObs ==
  ASSUME NEW m, NEW t \in TxType, NEW h \in SeenType, InspectHeaders(m, t, h), Intact(t)
  PROVE  Obs'
  BY RunObs, FailBuildObs DEF InspectHeaders

LEMMA InspectBodyObs ==
  ASSUME NEW m, NEW t \in TxType, NEW h \in SeenType, NEW skip,
         InspectBufferedBody(m, t, h, skip), Intact(t)
  PROVE  Obs'
  <1> DEFINE i == [t EXCEPT !.inspected = TRUE]
             u == [h EXCEPT !.unseen = 0]
  <1>1. i \in TxType /\ Intact(i)
    BY Zenon DEF TxType, Intact
  <1>2. BodyAct(m, t, "allow") # "immediate"
    BY Zenon DEF BodyAct
  <1>3. \/ Run(i, u, "body", BodyStages(t.policy.order[t.dir]))
        \/ FailBuild(m, i, h)
        \/ Reply(m, t, h, BodyAct(m, t, "allow"), FALSE, skip)
    BY Zenon DEF InspectBufferedBody
  <1> HIDE DEF i, u
  <1>4. CASE Run(i, u, "body", BodyStages(t.policy.order[t.dir]))
    BY <1>1, <1>4, RunObs
  <1>5. CASE FailBuild(m, i, h)
    BY Zenon, <1>1, <1>5, FailBuildObs
  <1>6. CASE Reply(m, t, h, BodyAct(m, t, "allow"), FALSE, skip)
    BY Zenon, <1>2, <1>6, ReplyObs
  <1> QED
    BY Zenon, <1>3, <1>4, <1>5, <1>6

LEMMA PeerObs ==
  ASSUME SInv, Obs, peer = "envoy", PeerStep
  PROVE  Obs'
  <1>1. tx \in TxType /\ seen \in SeenType /\ Intact(tx)
    BY Zenon DEF SInv, Types, Obs
  <1>2. ASSUME NEW eos \in BOOLEAN, NEW mismatch \in BOOLEAN, RequestHeaders(eos, mismatch)
        PROVE  Obs'
    <2> DEFINE m == [kind |-> "reqHeaders", eos |-> eos]
               t == [tx EXCEPT !.dir = "request"]
               h == [seen EXCEPT !.mismatch = mismatch, !.reordered = @ \/ tx.dir = "response"]
    <2>1. pc = "recv" /\ m.kind \in may
      BY Zenon, <1>2 DEF RequestHeaders, Receive
    <2>2. t \in TxType /\ ~t.mutated
      BY Zenon, <1>1, <2>1 DEF Obs, TxType, Directions
    <2>3. \/ Reply(m, tx, seen, "continue", FALSE, FALSE)
          \/ Run(t, h, "prelude", <<"policy_resolve", "early_decision">>)
      BY Zenon, <1>2 DEF RequestHeaders
    <2> HIDE DEF m, t, h
    <2> QED
      BY Zenon, <1>1, <2>2, <2>3, ReplyObs, RunObs DEF Intact
  <1>3. ASSUME NEW eos \in BOOLEAN, ResponseHeaders(eos)
        PROVE  Obs'
    <2> DEFINE m == [kind |-> "respHeaders", eos |-> eos]
               t == [tx EXCEPT !.dir = "response", !.bodyRequired = FALSE, !.wafEnabled = FALSE,
                               !.body = 0, !.truncated = FALSE, !.inspected = FALSE, !.mutated = FALSE,
                               !.result = "allow", !.findings = 0]
               h == [seen EXCEPT !.unseen = 0, !.failedOpen = FALSE]
    <2>1. t \in TxType /\ ~t.mutated
      BY Zenon, <1>1 DEF TxType, Directions
    <2>2. h \in SeenType
      BY Zenon, <1>1 DEF SeenType
    <2>3. InspectHeaders(m, t, h) \/ Reply(m, t, Finish(t, h, "allow"), "continue", FALSE, FALSE)
      BY Zenon, <1>3 DEF ResponseHeaders
    <2> HIDE DEF m, t, h
    <2> QED
      BY Zenon, <2>1, <2>2, <2>3, InspectHeadersObs, ReplyObs DEF Intact
  <1>4. ASSUME NEW dir \in Directions, NEW len \in Nat, NEW eos \in BOOLEAN, NEW stored \in 0..len,
               BodyChunk(dir, len, stored, eos)
        PROVE  Obs'
    <2> DEFINE m == [kind |-> IF dir = "request" THEN "reqBody" ELSE "respBody", eos |-> eos]
               r == Reopened(tx, len)
               b == r.body + stored
               c == r.truncated \/ stored < len
               t == [r EXCEPT !.body = b, !.truncated = c]
               h == [seen EXCEPT !.unseen = @ + len]
    <2>1. r \in TxType /\ Intact(r)
      BY Zenon, <1>1 DEF TxType, Reopened, Intact
    <2>2. h \in SeenType
      BY <1>1 DEF SeenType
    <2>3. \/ Reply(m, tx, seen, "continue", FALSE, FALSE)
          \/ Reply(m, t, h, "continue", FALSE, FALSE)
          \/ InspectBufferedBody(m, t, h, FALSE)
      BY Zenon, <1>4 DEF BodyChunk
    <2> HIDE DEF m, r, h
    <2>4. b \in Nat
      BY <2>1 DEF TxType
    <2>5. c \in BOOLEAN
      BY Zenon
    <2> HIDE DEF b, c
    <2>6. t \in TxType /\ Intact(t)
      BY Zenon, <2>1, <2>4, <2>5 DEF TxType, Intact
    <2> HIDE DEF t
    <2> QED
      BY Zenon, <1>1, <2>2, <2>3, <2>6, ReplyObs, InspectBodyObs
  <1>5. CASE \E dir \in Directions : Trailers(dir)
    BY Zenon, <1>1, <1>5, InspectBodyObs DEF Trailers
  <1>6. CASE EndStream
    BY Zenon, <1>6 DEF EndStream, Obs, Intact, Observes, FreshTx
  <1>7. BodyLens \subseteq Nat
    BY Zenon, StreamAssumption
  <1> QED
    BY Zenon, <1>2, <1>3, <1>4, <1>5, <1>6, <1>7 DEF PeerStep

LEMMA ApplyDenyObs ==
  ASSUME pc = "run", NEW t \in TxType, ApplyDeny(t), Intact(t), phase = "prelude" => ~t.mutated
  PROVE  Obs'
  <1>1. CASE Blocking(t.policy)
    <2>1. ~Observes(t.policy)
      BY Zenon, <1>1 DEF Blocking, Observes
    <2> QED
      BY Zenon, <1>1, <2>1, ReturnObs DEF ApplyDeny
  <1>2. CASE ~Blocking(t.policy)
    <2>1. Intact(Recorded(t)) /\ (phase = "prelude" => ~Recorded(t).mutated)
      BY Zenon, RecordedFacts DEF Intact
    <2> QED
      BY Zenon, <1>2, <2>1, ProceedObs DEF ApplyDeny
  <1> QED
    BY Zenon, <1>1, <1>2

LEMMA FailPostureObs ==
  ASSUME NEW h \in SeenType, tx \in TxType, FailPosture(h), Intact(tx), phase = "prelude" => ~tx.mutated
  PROVE  Obs'
  <1>1. CASE FailOpen(tx.policy)
    <2>1. tx.result # "block"
      BY Zenon DEF TxType
    <2> QED
      BY Zenon, <1>1, <2>1, ReturnObs DEF FailPosture
  <1>2. CASE ~FailOpen(tx.policy)
    <2>1. [h EXCEPT !.failedClosed = TRUE].failedClosed
      BY Zenon DEF SeenType
    <2> QED
      BY Zenon, <1>2, <2>1, ReturnObs DEF FailPosture
  <1> QED
    BY Zenon, <1>1, <1>2

(* Only a blocking policy's body_checks rewrites the body. *)
LEMMA RedactBlocks ==
  ASSUME NEW s \in Inspectors \cup {"guard", "decode"}, "redact" \in Results(s)
  PROVE  Blocking(tx.policy)
  BY Zenon DEF Results, Inspectors, FastPreChecks, Guard, Decode, WafEngine, BodyChecks

LEMMA StageObs ==
  ASSUME SInv, Obs, StageStep
  PROVE  Obs'
  <1>1. tx \in TxType /\ seen \in SeenType /\ Intact(tx) /\ tx.result # "block"
    BY Zenon DEF SInv, Types, Obs, TxType
  <1>2. pc = "run" => (phase = "prelude" => ~tx.mutated)
    BY Zenon DEF Obs
  <1>3. CASE SkipStage
    BY Zenon, <1>1, <1>2, <1>3, ProceedObs DEF SkipStage
  <1>4. CASE RunEnds
    BY Zenon, <1>1, <1>2, <1>4, ReturnObs DEF RunEnds
  <1>5. CASE \E cancelled \in BOOLEAN : Deadline(cancelled)
    <2>1. PICK c \in BOOLEAN : Deadline(c)
      BY Zenon, <1>5
    <2>2. pc = "run" /\ FailPosture([seen EXCEPT !.cancelled = c])
      BY Zenon, <2>1 DEF Deadline
    <2>3. [seen EXCEPT !.cancelled = c] \in SeenType
      BY Zenon, <1>1 DEF SeenType
    <2> QED
      BY Zenon, <1>1, <1>2, <2>2, <2>3, FailPostureObs
  <1>6. CASE \E p \in Policies[peer] \cup {NoPolicy} : PolicyResolve(p)
    <2>1. PICK p \in Policies[peer] \cup {NoPolicy} : PolicyResolve(p)
      BY Zenon, <1>6
    <2>2. pc = "run" /\ phase = "prelude" /\ Proceed([tx EXCEPT !.policy = p], seen)
      BY Zenon, <2>1 DEF PolicyResolve, Running
    <2>3. ~[tx EXCEPT !.policy = p].mutated
      BY Zenon, <1>1, <1>2, <2>2 DEF TxType
    <2> QED
      BY Zenon, <2>2, <2>3, ProceedObs DEF Intact
  <1>7. CASE EarlyDecision
    <2> DEFINE t == [tx EXCEPT !.policy = DenyAll]
    <2>1. t \in TxType /\ t.policy = DenyAll /\ t.mutated = tx.mutated
      BY Zenon, <1>1, DenyAllType DEF TxType
    <2>2. Intact(t)
      BY Zenon, <2>1, DenyAllType DEF Intact, Observes
    <2>3. pc = "run" /\ (ApplyDeny(tx) \/ Return(tx.result, tx, seen) \/ ApplyDeny(t) \/ Proceed(tx, seen))
      BY Zenon, <1>7 DEF EarlyDecision, Running
    <2> HIDE DEF t
    <2> QED
      BY Zenon, <1>1, <1>2, <2>1, <2>2, <2>3, ApplyDenyObs, ReturnObs, ProceedObs
  <1>8. CASE BodyGate
    <2> DEFINE t == [tx EXCEPT !.bodyRequired = tx.policy.inspectBody[tx.dir] \/ tx.policy.bodyEngines,
                               !.wafEnabled = tx.policy.bodyEngines]
    <2>1. pc = "run" /\ Proceed(t, seen)
      BY Zenon, <1>8 DEF BodyGate, Running
    <2>2. t.policy = tx.policy /\ t.mutated = tx.mutated
      BY Zenon, <1>1 DEF TxType
    <2> HIDE DEF t
    <2> QED
      BY Zenon, <1>1, <1>2, <2>1, <2>2, ProceedObs DEF Intact
  <1>9. ASSUME NEW s \in Inspectors \cup {"guard", "decode"},
               NEW res \in {"continue", "redact", "deny", "error"}, Inspect(s, res)
        PROVE  Obs'
    <2>1. pc = "run" /\ stages # <<>> /\ Head(stages) = s
      BY Zenon, <1>9 DEF Inspect, Running
    <2>2. phase # "prelude"
      BY Zenon, <2>1, InRunFacts, InPrelude DEF Inspectors
    <2>3. CASE res = "redact" /\ Proceed([tx EXCEPT !.mutated = TRUE], seen)
      <3>1. Blocking(tx.policy) /\ [tx EXCEPT !.mutated = TRUE].policy = tx.policy
        BY Zenon, <1>1, <1>9, <2>3, RedactBlocks DEF Inspect, TxType
      <3>2. Intact([tx EXCEPT !.mutated = TRUE])
        BY Zenon, <3>1 DEF Intact, Observes, Blocking
      <3> QED
        BY Zenon, <2>1, <2>2, <2>3, <3>2, ProceedObs
    <2>4. CASE Proceed(tx, seen) \/ ApplyDeny(tx) \/ FailPosture(seen)
      BY Zenon, <1>1, <2>1, <2>2, <2>4, ProceedObs, ApplyDenyObs, FailPostureObs
    <2> QED
      BY Zenon, <1>9, <2>3, <2>4 DEF Inspect
  <1> QED
    BY Zenon, <1>3, <1>4, <1>5, <1>6, <1>7, <1>8, <1>9 DEF StageStep

LEMMA AfterObs ==
  ASSUME SInv, Obs, AfterPrelude \/ AfterHeaders \/ AfterBody
  PROVE  Obs'
  <1>1. pc = "ended"
    BY Zenon DEF AfterPrelude, AfterHeaders, AfterBody, Ended
  <1>2. /\ tx \in TxType /\ seen \in SeenType /\ verdict \in Verdicts /\ Intact(tx)
        /\ Observes(tx.policy) /\ verdict = "block" => seen.failedClosed
    BY Zenon, <1>1, EndedFacts DEF Obs
  <1>3. /\ Finish(tx, seen, verdict).failedClosed = seen.failedClosed
        /\ Intact(Settled(tx)) /\ Settled(tx).policy = tx.policy
    BY Zenon, <1>2, FinishFacts, SettledFacts DEF Intact
  <1>4. ASSUME NEW act, NEW skip, act = "immediate" => verdict = "block",
               Reply(msg, Settled(tx), Finish(tx, seen, verdict), act, FALSE, skip)
        PROVE  Obs'
    BY Zenon, <1>2, <1>3, <1>4, ReplyObs
  <1>t. ASSUME NEW act, Terminal(act), act = "immediate" => verdict = "block"
        PROVE  Obs'
    <2> DEFINE skip == act = "continue" /\ Skip
    <2>1. Reply(msg, Settled(tx), Finish(tx, seen, verdict), act, FALSE, skip)
      BY Zenon, <1>t DEF Terminal
    <2> HIDE DEF skip
    <2> QED
      BY Zenon, <1>4, <1>t, <2>1
  <1>5. CASE AfterPrelude
    <2>1. \/ verdict = "block" /\ Terminal("immediate")
          \/ Terminal("continue")
          \/ InspectHeaders(msg, tx, seen)
      BY Zenon, <1>5 DEF AfterPrelude
    <2>2. CASE verdict = "block" /\ Terminal("immediate")
      BY Zenon, <1>4, <2>2 DEF Terminal
    <2>3. CASE Terminal("continue")
      BY Zenon, <1>t, <2>3
    <2>4. CASE InspectHeaders(msg, tx, seen)
      BY Zenon, <1>2, <2>4, InspectHeadersObs
    <2> QED
      BY Zenon, <2>1, <2>2, <2>3, <2>4
  <1>6. CASE AfterHeaders
    <2> DEFINE h == PhaseFindings(tx, seen)
    <2>1. h \in SeenType
      BY Zenon, <1>2, AuditedFacts DEF PhaseFindings
    <2>2. \/ verdict = "block" /\ Terminal("immediate")
          \/ Terminal("continue")
          \/ InspectBufferedBody(msg, tx, h, Skip)
          \/ Reply(msg, tx, h, "continue", TRUE, Skip)
      BY Zenon, <1>6 DEF AfterHeaders
    <2> HIDE DEF h
    <2>3. CASE verdict = "block" /\ Terminal("immediate")
      BY Zenon, <1>4, <2>3 DEF Terminal
    <2>4. CASE Terminal("continue")
      BY Zenon, <1>t, <2>4
    <2>5. CASE InspectBufferedBody(msg, tx, h, Skip)
      BY Zenon, <1>2, <2>1, <2>5, InspectBodyObs
    <2>6. CASE Reply(msg, tx, h, "continue", TRUE, Skip)
      BY Zenon, <1>2, <2>6, ReplyObs
    <2> QED
      BY Zenon, <2>2, <2>3, <2>4, <2>5, <2>6
  <1>7. CASE AfterBody
    <2>1. BodyAct(msg, tx, verdict) = "immediate" => verdict = "block"
      BY Zenon DEF BodyAct
    <2> QED
      BY Zenon, <1>4, <1>7, <2>1 DEF AfterBody
  <1> QED
    BY Zenon, <1>5, <1>6, <1>7

(* For any policies and any stream with Envoy at the other end: a policy in  *)
(* detect or shadow mode blocks only by failing closed, and never rewrites a *)
(* body (applyDeny, bodyChecks, failPosture, failBuild).                     *)
THEOREM ObserversObserve == Spec => []ObserveOnly
  <1> DEFINE EInv == peer = "envoy" => Obs
  <1>1. Init => EInv
    BY DEF Init, Obs, Intact, Observes, FreshTx, NoReply
  <1>2. SInv /\ EInv /\ [Next]_vars => EInv'
    <2> SUFFICES ASSUME SInv, EInv, [Next]_vars, peer' = "envoy" PROVE Obs'
      BY Zenon
    <2>1. peer = "envoy" /\ Obs
      BY Zenon DEF Next, vars
    <2>2. CASE UNCHANGED vars
      BY Zenon, <2>1, <2>2 DEF vars, Obs, Intact
    <2> QED
      BY Zenon, <2>1, <2>2, PeerObs, StageObs, AfterObs DEF Next
  <1>3. EInv => ObserveOnly
    BY Zenon DEF Obs, Intact, Observes, ObserveOnly
  <1> QED
    BY <1>1, <1>2, <1>3, SInvAlways, PTL DEF Spec

-----------------------------------------------------------------------------
(* One terminal decision a direction.  Between messages a direction is       *)
(* decided, or its body is still to come and BodyPhase stands ready for it;  *)
(* trailers may follow a decision, and then the once-latch is shut.          *)
Side(k) == IF k \in RequestKinds THEN "request" ELSE "response"
Open(k) == IF k \in RequestKinds THEN {"reqBody", "reqTrailers"} ELSE {"respBody", "respTrailers"}
Bodies == {"reqBody", "respBody"}
Headers == {"reqHeaders", "respHeaders"}

CountsOK(k, h) ==
  /\ h.finished["request"] \in {0, 1} /\ h.finished["response"] \in {0, 1}
  /\ k \in RequestKinds => h.finished["response"] = 0

RestOK(k, t, h, ms) ==
  /\ k \in Kinds /\ t.dir = Side(k) /\ CountsOK(k, h)
  /\ ms \subseteq Open(k) \cup {"respHeaders"} /\ ("respHeaders" \in ms => k \in RequestKinds)
  /\ ms \cap Open(k) \cap Bodies # {} => h.finished[Side(k)] = 0 /\ BodyPhase(t)
  /\ ms \cap Open(k) # {} => \/ h.finished[Side(k)] = 0 /\ BodyPhase(t)
                             \/ h.finished[Side(k)] = 1 /\ t.inspected
  /\ ms \cap Open(k) = {} => h.finished[Side(k)] = 1

HandlerOK(k, t, h, ph) ==
  /\ k \in Kinds /\ t.dir = Side(k) /\ CountsOK(k, h) /\ h.finished[Side(k)] = 0
  /\ ph = "prelude" => k = "reqHeaders" /\ ~t.inspected
  /\ ph = "headers" => k \in Headers /\ ~t.inspected /\ Enforcing(t.policy)
  /\ ph = "body" => t.inspected

StartOK(t, h, ms) ==
  /\ ms = {"reqHeaders"} /\ ~t.inspected /\ ~t.settled
  /\ h.finished["request"] = 0 /\ h.finished["response"] = 0

Once ==
  /\ pc = "recv" /\ msg.kind = "none" => StartOK(tx, seen, may)
  /\ pc = "recv" /\ msg.kind # "none" => RestOK(msg.kind, tx, seen, may)
  /\ pc # "recv" => HandlerOK(msg.kind, tx, seen, phase)

(* finish counts one decision of the direction t is in. *)
LEMMA FinishCounts ==
  ASSUME NEW k \in Kinds, NEW t \in TxType, NEW h \in SeenType, NEW d,
         t.dir = Side(k), CountsOK(k, h), h.finished[Side(k)] = 0
  PROVE  CountsOK(k, Finish(t, h, d)) /\ Finish(t, h, d).finished[Side(k)] = 1
  <1>1. Audited(t, h, d).finished = h.finished /\ "finished" \in DOMAIN Audited(t, h, d)
    BY Zenon DEF Audited, SeenType
  <1>2. Finish(t, h, d).finished = [h.finished EXCEPT ![t.dir] = h.finished[t.dir] + 1]
    BY Zenon, <1>1 DEF Finish
  <1>3. h.finished \in [Directions -> Nat]
    BY Zenon DEF SeenType
  <1>4. Finish(t, h, d).finished = [h.finished EXCEPT ![Side(k)] = 1]
    BY <1>2, <1>3
  <1> QED
    BY Zenon, <1>3, <1>4 DEF CountsOK, Side, Directions

(* What Envoy may send after a reply, and what it then finds. *)
LEMMA ReplyFinal ==
  ASSUME NEW m, m.kind \in Kinds, msg' = m, NEW t, NEW h, NEW act, NEW skip,
         Reply(m, t, h, act, FALSE, skip), t.dir = Side(m.kind),
         CountsOK(m.kind, h), h.finished[Side(m.kind)] = 1,
         act # "immediate" /\ m.kind \in Bodies /\ ~m.eos => t.inspected
  PROVE  Once'
  <1> DEFINE r == [act |-> act, body |-> FALSE, skip |-> skip \/ reply.skip]
  <1>1. /\ pc' = "recv" /\ tx' = t /\ seen' = h /\ may' \subseteq ToCome(m, r)
    BY Zenon DEF Reply
  <1>2. r.act = act /\ r.body = FALSE
    BY Zenon
  <1> HIDE DEF r
  <1>3. /\ ToCome(m, r) \subseteq Open(m.kind) \cup {"respHeaders"}
        /\ "respHeaders" \in ToCome(m, r) => m.kind \in RequestKinds
        /\ ToCome(m, r) \cap Bodies = {}
        /\ ToCome(m, r) \cap Open(m.kind) # {} => act # "immediate" /\ m.kind \in Bodies /\ ~m.eos
    <2>1. \/ ToCome(m, r) = {}
          \/ m.kind \in RequestKinds /\ ToCome(m, r) = {"respHeaders"}
          \/ m.kind = "reqBody" /\ ~m.eos /\ act # "immediate" /\ ToCome(m, r) = {"reqTrailers", "respHeaders"}
          \/ m.kind = "respBody" /\ ~m.eos /\ act # "immediate" /\ ToCome(m, r) = {"respTrailers"}
      <3>1. CASE act = "immediate"
        BY Zenon, <1>2, <3>1 DEF ToCome
      <3>2. CASE act # "immediate" /\ m.kind \in {"reqHeaders", "reqTrailers"}
        BY Zenon, <1>2, <3>2 DEF ToCome, RequestKinds
      <3>3. CASE act # "immediate" /\ m.kind = "reqBody"
        BY Zenon, <1>2, <3>3 DEF ToCome, RequestKinds
      <3>4. CASE act # "immediate" /\ m.kind = "respBody"
        BY Zenon, <1>2, <3>4 DEF ToCome
      <3>5. CASE act # "immediate" /\ m.kind \in {"respHeaders", "respTrailers"}
        BY Zenon, <1>2, <3>5 DEF ToCome
      <3> QED
        BY Zenon, <3>1, <3>2, <3>3, <3>4, <3>5 DEF Kinds, RequestKinds
    <2> QED
      BY Zenon, <2>1 DEF Open, Bodies, RequestKinds
  <1>4. RestOK(m.kind, t, h, may')
    BY Zenon, <1>1, <1>3 DEF RestOK
  <1>5. m.kind # "none"
    BY Zenon DEF Kinds, RequestKinds
  <1> QED
    BY Zenon, <1>1, <1>4, <1>5 DEF Once

LEMMA ReplyPending ==
  ASSUME NEW m, m.kind \in Kinds, msg' = m, NEW t, NEW h, NEW body, NEW skip,
         Reply(m, t, h, "continue", body, skip), t.dir = Side(m.kind),
         CountsOK(m.kind, h), h.finished[Side(m.kind)] = 0, BodyPhase(t),
         (m.kind \in Headers /\ body = TRUE) \/ (m.kind \in Bodies /\ ~m.eos)
  PROVE  Once'
  <1> DEFINE r == [act |-> "continue", body |-> body, skip |-> skip \/ reply.skip]
  <1>1. /\ pc' = "recv" /\ tx' = t /\ seen' = h
        /\ may' \subseteq ToCome(m, r) /\ ToCome(m, r) \subseteq may' \cup {"respHeaders"}
    BY Zenon DEF Reply
  <1>2. r.act = "continue" /\ r.body = body
    BY Zenon
  <1> HIDE DEF r
  <1>3. /\ ToCome(m, r) \subseteq Open(m.kind) \cup {"respHeaders"}
        /\ "respHeaders" \in ToCome(m, r) => m.kind \in RequestKinds
        /\ ToCome(m, r) \cap Open(m.kind) # {}
    BY Zenon, <1>2 DEF ToCome, Open, Bodies, Headers, Kinds, RequestKinds
  <1>4. "respHeaders" \notin Open(m.kind)
    BY Zenon DEF Open
  <1>5. may' \cap Open(m.kind) # {}
    BY Zenon, <1>1, <1>3, <1>4
  <1>6. RestOK(m.kind, t, h, may')
    BY Zenon, <1>1, <1>3, <1>5 DEF RestOK
  <1>7. m.kind # "none"
    BY Zenon DEF Kinds, RequestKinds
  <1> QED
    BY Zenon, <1>1, <1>6, <1>7 DEF Once

LEMMA RunOnce ==
  ASSUME NEW k, msg'.kind = k, NEW t \in TxType, NEW h, NEW ph, NEW sts,
         Run(t, h, ph, sts), HandlerOK(k, t, h, ph)
  PROVE  Once'
  <1>1. pc' = "run" /\ phase' = ph /\ seen' = h /\ tx' = [t EXCEPT !.result = "allow", !.findings = 0]
    BY Zenon DEF Run
  <1>2. tx'.policy = t.policy /\ tx'.inspected = t.inspected /\ tx'.dir = t.dir
    BY Zenon, <1>1 DEF TxType
  <1>3. HandlerOK(k, tx', h, ph)
    BY Zenon, <1>2 DEF HandlerOK
  <1> QED
    BY Zenon, <1>1, <1>3 DEF Once

LEMMA FailBuildOnce ==
  ASSUME NEW m, m.kind \in Kinds, msg' = m, NEW t \in TxType, NEW h \in SeenType, FailBuild(m, t, h),
         t.dir = Side(m.kind), CountsOK(m.kind, h), h.finished[Side(m.kind)] = 0,
         m.kind \in Bodies => t.inspected
  PROVE  Once'
  <1> DEFINE d == IF FailOpen(t.policy) THEN "allow" ELSE "block"
             k == IF d = "block" THEN [h EXCEPT !.failedClosed = TRUE] ELSE [h EXCEPT !.failedOpen = TRUE]
  <1>1. Reply(m, Settled(t), Finish(t, k, d), BodyAct(m, t, d), FALSE, FALSE)
    BY Zenon DEF FailBuild
  <1>2. k \in SeenType /\ k.finished = h.finished
    BY Zenon DEF SeenType
  <1>3. Settled(t).dir = t.dir /\ Settled(t).inspected = t.inspected
    BY Zenon DEF Settled, TxType
  <1> HIDE DEF d, k
  <1>4. CountsOK(m.kind, Finish(t, k, d)) /\ Finish(t, k, d).finished[Side(m.kind)] = 1
    BY <1>2, FinishCounts DEF CountsOK
  <1> QED
    BY Zenon, <1>1, <1>3, <1>4, ReplyFinal

LEMMA InspectHeadersOnce ==
  ASSUME NEW m, m.kind \in Headers, msg' = m, NEW t \in TxType, NEW h \in SeenType, InspectHeaders(m, t, h),
         Enforcing(t.policy), ~t.inspected,
         t.dir = Side(m.kind), CountsOK(m.kind, h), h.finished[Side(m.kind)] = 0
  PROVE  Once'
  <1>1. m.kind \in Kinds /\ m.kind \notin Bodies
    BY Zenon DEF Headers, Kinds, RequestKinds, Bodies
  <1>2. HandlerOK(m.kind, t, h, "headers")
    BY Zenon, <1>1 DEF HandlerOK
  <1>3. CASE Run(t, h, "headers", HeaderStages(t.policy.order[t.dir]))
    BY Zenon, <1>2, <1>3, RunOnce
  <1>4. CASE FailBuild(m, t, h)
    BY Zenon, <1>1, <1>4, FailBuildOnce
  <1> QED
    BY Zenon, <1>3, <1>4 DEF InspectHeaders

(* The body pipeline is due, or the direction is decided already. *)
LEMMA InspectBodyOnce ==
  ASSUME NEW m, m.kind \in Kinds, msg' = m, NEW t \in TxType, NEW h \in SeenType, NEW skip,
         InspectBufferedBody(m, t, h, skip), t.dir = Side(m.kind), CountsOK(m.kind, h),
         \/ h.finished[Side(m.kind)] = 0 /\ BodyPhase(t)
         \/ h.finished[Side(m.kind)] = 1 /\ t.inspected
  PROVE  Once'
  <1>1. CASE h.finished[Side(m.kind)] = 0 /\ BodyPhase(t)
    <2> DEFINE i == [t EXCEPT !.inspected = TRUE]
               u == [h EXCEPT !.unseen = 0]
    <2>1. i \in TxType /\ i.dir = t.dir /\ i.inspected
      BY Zenon DEF TxType
    <2>2. u.finished = h.finished
      BY Zenon DEF SeenType
    <2>3. Run(i, u, "body", BodyStages(t.policy.order[t.dir])) \/ FailBuild(m, i, h)
      BY Zenon, <1>1 DEF InspectBufferedBody
    <2> HIDE DEF i, u
    <2>4. HandlerOK(m.kind, i, u, "body")
      BY Zenon, <1>1, <2>1, <2>2 DEF HandlerOK, CountsOK
    <2>5. CASE Run(i, u, "body", BodyStages(t.policy.order[t.dir]))
      BY Zenon, <2>1, <2>4, <2>5, RunOnce
    <2>6. CASE FailBuild(m, i, h)
      BY Zenon, <1>1, <2>1, <2>6, FailBuildOnce
    <2> QED
      BY Zenon, <2>3, <2>5, <2>6
  <1>2. CASE h.finished[Side(m.kind)] = 1 /\ t.inspected
    <2>1. Reply(m, t, h, BodyAct(m, t, "allow"), FALSE, skip)
      BY Zenon, <1>2 DEF InspectBufferedBody, BodyPhase
    <2> QED
      BY Zenon, <1>2, <2>1, ReplyFinal
  <1> QED
    BY Zenon, <1>1, <1>2

(* What a message of Envoy finds. *)
LEMMA Arrival ==
  ASSUME SInv, Once, peer = "envoy", NEW m, Receive(m)
  PROVE  /\ pc = "recv" /\ msg' = m /\ tx \in TxType /\ seen \in SeenType
         /\ m.kind = "reqHeaders" => StartOK(tx, seen, may)
         /\ m.kind \notin Headers => /\ m.kind \in Kinds /\ tx.dir = Side(m.kind) /\ CountsOK(m.kind, seen)
                                     /\ \/ seen.finished[Side(m.kind)] = 0 /\ BodyPhase(tx)
                                        \/ /\ seen.finished[Side(m.kind)] = 1 /\ tx.inspected
                                           /\ m.kind \notin Bodies
         /\ m.kind = "respHeaders" => CountsOK("respHeaders", seen) /\ seen.finished["response"] = 0
  <1>1. pc = "recv" /\ msg' = m /\ m.kind \in may /\ tx \in TxType /\ seen \in SeenType
    BY Zenon DEF Receive, SInv, Types
  <1>2. CASE msg.kind = "none"
    BY Zenon, <1>1, <1>2 DEF Once, StartOK, Headers
  <1>3. CASE msg.kind # "none"
    <2>1. RestOK(msg.kind, tx, seen, may)
      BY Zenon, <1>1, <1>3 DEF Once
    <2>2. CASE m.kind = "respHeaders"
      BY Zenon, <1>1, <2>1, <2>2 DEF RestOK, CountsOK, RequestKinds, Headers
    <2>3. CASE m.kind # "respHeaders"
      <3>1. m.kind \in Open(msg.kind) /\ m.kind \in may
        BY Zenon, <1>1, <2>1, <2>3 DEF RestOK
      <3>2. m.kind \in Kinds /\ m.kind \notin Headers /\ Side(m.kind) = Side(msg.kind)
            /\ (m.kind \in RequestKinds <=> msg.kind \in RequestKinds)
        BY Zenon, <3>1 DEF Open, Kinds, RequestKinds, Headers, Side
      <3>3. CountsOK(m.kind, seen) /\ tx.dir = Side(m.kind)
        BY Zenon, <2>1, <3>2 DEF RestOK, CountsOK
      <3>4. CASE m.kind \in Bodies
        <4>1. seen.finished[Side(msg.kind)] = 0 /\ BodyPhase(tx)
          BY Zenon, <2>1, <3>1, <3>4 DEF RestOK
        <4> QED
          BY Zenon, <1>1, <2>3, <3>2, <3>3, <4>1 DEF Headers
      <3>5. CASE m.kind \notin Bodies
        <4>1. \/ seen.finished[Side(msg.kind)] = 0 /\ BodyPhase(tx)
              \/ seen.finished[Side(msg.kind)] = 1 /\ tx.inspected
          BY Zenon, <2>1, <3>1 DEF RestOK
        <4> QED
          BY Zenon, <1>1, <2>3, <3>2, <3>3, <3>5, <4>1 DEF Headers
      <3> QED
        BY Zenon, <3>4, <3>5
    <2> QED
      BY Zenon, <2>2, <2>3
  <1> QED
    BY Zenon, <1>2, <1>3

LEMMA PeerOnce ==
  ASSUME SInv, Once, peer = "envoy", PeerStep
  PROVE  Once'
  <1>1. ASSUME NEW eos \in BOOLEAN, NEW mismatch \in BOOLEAN, RequestHeaders(eos, mismatch)
        PROVE  Once'
    <2> DEFINE m == [kind |-> "reqHeaders", eos |-> eos]
               t == [tx EXCEPT !.dir = "request"]
               h == [seen EXCEPT !.mismatch = mismatch, !.reordered = @ \/ tx.dir = "response"]
    <2>1. Receive(m) /\ m.kind = "reqHeaders"
      BY Zenon, <1>1 DEF RequestHeaders
    <2>2. StartOK(tx, seen, may) /\ msg' = m /\ tx \in TxType /\ seen \in SeenType
      BY Zenon, <2>1, Arrival
    <2>3. Run(t, h, "prelude", <<"policy_resolve", "early_decision">>)
      BY Zenon, <1>1, <2>2 DEF RequestHeaders, StartOK
    <2>4. t \in TxType /\ t.dir = "request" /\ t.inspected = tx.inspected /\ h.finished = seen.finished
      BY Zenon, <2>2 DEF TxType, SeenType, Directions
    <2> HIDE DEF m, t, h
    <2>5. HandlerOK("reqHeaders", t, h, "prelude")
      BY Zenon, <2>2, <2>4 DEF HandlerOK, StartOK, CountsOK, Side, Kinds, RequestKinds
    <2> QED
      BY Zenon, <2>1, <2>2, <2>3, <2>4, <2>5, RunOnce
  <1>2. ASSUME NEW eos \in BOOLEAN, ResponseHeaders(eos)
        PROVE  Once'
    <2> DEFINE m == [kind |-> "respHeaders", eos |-> eos]
               t == [tx EXCEPT !.dir = "response", !.bodyRequired = FALSE, !.wafEnabled = FALSE,
                               !.body = 0, !.truncated = FALSE, !.inspected = FALSE, !.mutated = FALSE,
                               !.result = "allow", !.findings = 0]
               h == [seen EXCEPT !.unseen = 0, !.failedOpen = FALSE]
    <2>1. Receive(m) /\ m.kind = "respHeaders"
      BY Zenon, <1>2 DEF ResponseHeaders
    <2>2. /\ CountsOK("respHeaders", seen) /\ seen.finished["response"] = 0
          /\ msg' = m /\ tx \in TxType /\ seen \in SeenType
      BY Zenon, <2>1, Arrival
    <2>3. t \in TxType /\ t.dir = "response" /\ ~t.inspected /\ t.policy = tx.policy
      BY Zenon, <2>2 DEF TxType, Directions
    <2>4. h \in SeenType /\ h.finished = seen.finished
      BY Zenon, <2>2 DEF SeenType
    <2>5. \/ Enforcing(tx.policy) /\ InspectHeaders(m, t, h)
          \/ Reply(m, t, Finish(t, h, "allow"), "continue", FALSE, FALSE)
      BY Zenon, <1>2 DEF ResponseHeaders
    <2> HIDE DEF m, t, h
    <2>6. /\ m.kind \in Headers /\ m.kind \in Kinds /\ m.kind \notin Bodies /\ Side(m.kind) = "response"
          /\ CountsOK(m.kind, h) /\ h.finished[Side(m.kind)] = 0
      BY Zenon, <2>1, <2>2, <2>4 DEF Headers, Kinds, Bodies, Side, RequestKinds, CountsOK
    <2>7. CASE Enforcing(tx.policy) /\ InspectHeaders(m, t, h)
      BY Zenon, <2>2, <2>3, <2>4, <2>6, <2>7, InspectHeadersOnce
    <2>8. CASE Reply(m, t, Finish(t, h, "allow"), "continue", FALSE, FALSE)
      <3>1. CountsOK(m.kind, Finish(t, h, "allow")) /\ Finish(t, h, "allow").finished[Side(m.kind)] = 1
        BY <2>3, <2>4, <2>6, FinishCounts
      <3> QED
        BY Zenon, <2>2, <2>3, <2>6, <2>8, <3>1, ReplyFinal
    <2> QED
      BY Zenon, <2>5, <2>7, <2>8
  <1>3. ASSUME NEW dir \in Directions, NEW len \in Nat, NEW eos \in BOOLEAN, NEW stored \in 0..len,
               BodyChunk(dir, len, stored, eos)
        PROVE  Once'
    <2> DEFINE m == [kind |-> IF dir = "request" THEN "reqBody" ELSE "respBody", eos |-> eos]
               r == Reopened(tx, len)
               b == r.body + stored
               c == r.truncated \/ stored < len
               t == [r EXCEPT !.body = b, !.truncated = c]
               h == [seen EXCEPT !.unseen = @ + len]
    <2>1. Receive(m) /\ m.kind \in Bodies /\ m.kind \notin Headers /\ m.eos = eos
      BY Zenon, <1>3 DEF BodyChunk, Bodies, Headers
    <2>2. /\ m.kind \in Kinds /\ tx.dir = Side(m.kind) /\ CountsOK(m.kind, seen)
          /\ seen.finished[Side(m.kind)] = 0 /\ BodyPhase(tx)
          /\ msg' = m /\ tx \in TxType /\ seen \in SeenType
      BY Zenon, <2>1, Arrival
    <2>3. /\ r \in TxType /\ ~r.inspected /\ r.dir = tx.dir /\ r.policy = tx.policy
          /\ r.bodyRequired = tx.bodyRequired /\ r.wafEnabled = tx.wafEnabled
      BY Zenon, <2>2 DEF TxType, Reopened, BodyPhase
    <2>4. h \in SeenType /\ h.finished = seen.finished
      BY <2>2 DEF SeenType
    <2>5. \/ ~eos /\ Reply(m, t, h, "continue", FALSE, FALSE)
          \/ InspectBufferedBody(m, t, h, FALSE)
      BY Zenon, <1>3, <2>2 DEF BodyChunk, BodyPhase, Enforcing
    <2> HIDE DEF m, r, h
    <2>6. b \in Nat
      BY <2>3 DEF TxType
    <2>7. c \in BOOLEAN
      BY Zenon
    <2> HIDE DEF b, c
    <2>8. /\ t \in TxType /\ ~t.inspected /\ t.dir = tx.dir /\ t.policy = tx.policy
          /\ t.bodyRequired = tx.bodyRequired /\ t.wafEnabled = tx.wafEnabled
      BY Zenon, <2>3, <2>6, <2>7 DEF TxType
    <2> HIDE DEF t
    <2>9. BodyPhase(t) /\ CountsOK(m.kind, h) /\ h.finished[Side(m.kind)] = 0
      BY Zenon, <2>2, <2>4, <2>8 DEF BodyPhase, CountsOK
    <2>10. CASE ~eos /\ Reply(m, t, h, "continue", FALSE, FALSE)
      BY Zenon, <2>1, <2>2, <2>8, <2>9, <2>10, ReplyPending
    <2>11. CASE InspectBufferedBody(m, t, h, FALSE)
      BY Zenon, <2>2, <2>4, <2>8, <2>9, <2>11, InspectBodyOnce
    <2> QED
      BY Zenon, <2>5, <2>10, <2>11
  <1>4. ASSUME NEW dir \in Directions, Trailers(dir)
        PROVE  Once'
    <2> DEFINE m == [kind |-> IF dir = "request" THEN "reqTrailers" ELSE "respTrailers", eos |-> TRUE]
    <2>1. Receive(m) /\ m.kind \notin Headers /\ InspectBufferedBody(m, tx, seen, FALSE)
      BY Zenon, <1>4 DEF Trailers, Headers
    <2> HIDE DEF m
    <2> QED
      BY Zenon, <2>1, Arrival, InspectBodyOnce
  <1>5. CASE EndStream
    BY Zenon, <1>5 DEF EndStream, Once, StartOK, FreshTx, FreshSeen, NoMsg, Directions
  <1>6. BodyLens \subseteq Nat
    BY Zenon, StreamAssumption
  <1> QED
    BY Zenon, <1>1, <1>2, <1>3, <1>4, <1>5, <1>6 DEF PeerStep

(* A stage leaves alone what the count of decisions rests on. *)
Still(t, h) ==
  /\ t.dir = tx.dir /\ t.inspected = tx.inspected /\ h.finished = seen.finished
  /\ phase # "prelude" /\ Enforcing(tx.policy) => Enforcing(t.policy)

LEMMA StillOnce ==
  ASSUME Once, pc = "run", NEW t, NEW h, Still(t, h), Proceed(t, h) \/ \E d : Return(d, t, h)
  PROVE  Once'
  <1>1. pc' # "recv" /\ phase' = phase /\ msg' = msg /\ tx' = t /\ seen' = h
    BY Zenon DEF Proceed, Return
  <1>2. HandlerOK(msg.kind, tx, seen, phase)
    BY Zenon DEF Once
  <1>3. HandlerOK(msg.kind, t, h, phase)
    BY Zenon, <1>2 DEF HandlerOK, Still, CountsOK
  <1> QED
    BY Zenon, <1>1, <1>3 DEF Once

LEMMA ApplyDenyOnce ==
  ASSUME Once, pc = "run", seen \in SeenType, NEW t \in TxType, Still(t, seen), ApplyDeny(t)
  PROVE  Once'
  <1> DEFINE h == [seen EXCEPT !.recorded[Source] = @ + 1]
  <1>1. h.finished = seen.finished
    BY Zenon DEF SeenType
  <1>2. Recorded(t).dir = t.dir /\ Recorded(t).inspected = t.inspected /\ Recorded(t).policy = t.policy
    BY Zenon DEF Recorded, TxType
  <1>3. Return("block", t, seen) \/ Proceed(Recorded(t), h)
    BY Zenon DEF ApplyDeny
  <1> HIDE DEF h
  <1>4. Still(Recorded(t), h)
    BY Zenon, <1>1, <1>2 DEF Still
  <1> QED
    BY Zenon, <1>3, <1>4, StillOnce

LEMMA FailPostureOnce ==
  ASSUME Once, pc = "run", NEW k \in SeenType, k.finished = seen.finished, FailPosture(k)
  PROVE  Once'
  <1> DEFINE o == [k EXCEPT !.failedOpen = TRUE]
             f == [k EXCEPT !.failedClosed = TRUE]
  <1>1. o.finished = seen.finished /\ f.finished = seen.finished
    BY Zenon DEF SeenType
  <1>2. Return(tx.result, tx, o) \/ Return("block", tx, f)
    BY Zenon DEF FailPosture
  <1> HIDE DEF o, f
  <1>3. Still(tx, o) /\ Still(tx, f)
    BY Zenon, <1>1 DEF Still
  <1> QED
    BY Zenon, <1>2, <1>3, StillOnce

LEMMA StageOnce ==
  ASSUME SInv, Once, StageStep
  PROVE  Once'
  <1>1. tx \in TxType /\ seen \in SeenType /\ Still(tx, seen)
    BY Zenon DEF SInv, Types, Still
  <1>2. CASE SkipStage
    BY Zenon, <1>1, <1>2, StillOnce DEF SkipStage
  <1>3. CASE RunEnds
    BY Zenon, <1>1, <1>3, StillOnce DEF RunEnds
  <1>4. CASE \E cancelled \in BOOLEAN : Deadline(cancelled)
    <2>1. PICK c \in BOOLEAN : Deadline(c)
      BY Zenon, <1>4
    <2> DEFINE k == [seen EXCEPT !.cancelled = c]
    <2>2. pc = "run" /\ FailPosture(k)
      BY Zenon, <2>1 DEF Deadline
    <2>3. k \in SeenType /\ k.finished = seen.finished
      BY Zenon, <1>1 DEF SeenType
    <2> HIDE DEF k
    <2> QED
      BY Zenon, <2>2, <2>3, FailPostureOnce
  <1>5. CASE \E p \in Policies[peer] \cup {NoPolicy} : PolicyResolve(p)
    <2>1. PICK p \in Policies[peer] \cup {NoPolicy} : PolicyResolve(p)
      BY Zenon, <1>5
    <2> DEFINE t == [tx EXCEPT !.policy = p]
    <2>2. pc = "run" /\ phase = "prelude" /\ Proceed(t, seen)
      BY Zenon, <2>1 DEF PolicyResolve, Running
    <2>3. t.dir = tx.dir /\ t.inspected = tx.inspected
      BY Zenon, <1>1 DEF TxType
    <2> HIDE DEF t
    <2> QED
      BY Zenon, <2>2, <2>3, StillOnce DEF Still
  <1>6. CASE EarlyDecision
    <2> DEFINE t == [tx EXCEPT !.policy = DenyAll]
    <2>1. t \in TxType /\ t.policy = DenyAll /\ t.dir = tx.dir /\ t.inspected = tx.inspected
      BY Zenon, <1>1, DenyAllType DEF TxType
    <2>2. Enforcing(DenyAll)
      BY Zenon, DenyAllType, StreamAssumption DEF Enforcing
    <2>3. pc = "run" /\ (ApplyDeny(tx) \/ Return(tx.result, tx, seen) \/ ApplyDeny(t) \/ Proceed(tx, seen))
      BY Zenon, <1>6 DEF EarlyDecision, Running
    <2> HIDE DEF t
    <2>4. Still(t, seen)
      BY Zenon, <2>1, <2>2 DEF Still
    <2> QED
      BY Zenon, <1>1, <2>1, <2>3, <2>4, ApplyDenyOnce, StillOnce
  <1>7. CASE BodyGate
    <2> DEFINE t == [tx EXCEPT !.bodyRequired = tx.policy.inspectBody[tx.dir] \/ tx.policy.bodyEngines,
                               !.wafEnabled = tx.policy.bodyEngines]
    <2>1. pc = "run" /\ Proceed(t, seen)
      BY Zenon, <1>7 DEF BodyGate, Running
    <2>2. t.dir = tx.dir /\ t.inspected = tx.inspected /\ t.policy = tx.policy
      BY Zenon, <1>1 DEF TxType
    <2> HIDE DEF t
    <2> QED
      BY Zenon, <2>1, <2>2, StillOnce DEF Still
  <1>8. ASSUME NEW s \in Inspectors \cup {"guard", "decode"},
               NEW res \in {"continue", "redact", "deny", "error"}, Inspect(s, res)
        PROVE  Once'
    <2> DEFINE t == [tx EXCEPT !.mutated = TRUE]
    <2>1. t.dir = tx.dir /\ t.inspected = tx.inspected /\ t.policy = tx.policy
      BY Zenon, <1>1 DEF TxType
    <2>2. pc = "run" /\ (Proceed(tx, seen) \/ Proceed(t, seen) \/ ApplyDeny(tx) \/ FailPosture(seen))
      BY Zenon, <1>8 DEF Inspect, Running
    <2> HIDE DEF t
    <2>3. Still(t, seen)
      BY Zenon, <2>1 DEF Still
    <2> QED
      BY Zenon, <1>1, <2>2, <2>3, StillOnce, ApplyDenyOnce, FailPostureOnce
  <1> QED
    BY Zenon, <1>2, <1>3, <1>4, <1>5, <1>6, <1>7, <1>8 DEF StageStep

LEMMA AfterOnce ==
  ASSUME SInv, Once, AfterPrelude \/ AfterHeaders \/ AfterBody
  PROVE  Once'
  <1>1. pc = "ended" /\ msg' = msg
    BY Zenon DEF AfterPrelude, AfterHeaders, AfterBody, Ended
  <1>2. /\ tx \in TxType /\ seen \in SeenType /\ verdict \in Verdicts
        /\ HandlerOK(msg.kind, tx, seen, phase)
    BY Zenon, <1>1, EndedFacts DEF Once
  <1>3. /\ CountsOK(msg.kind, Finish(tx, seen, verdict))
        /\ Finish(tx, seen, verdict).finished[Side(msg.kind)] = 1
    BY Zenon, <1>2, FinishCounts DEF HandlerOK
  <1>4. Settled(tx).dir = tx.dir /\ Settled(tx).inspected = tx.inspected
    BY Zenon, <1>2 DEF Settled, TxType
  <1>5. ASSUME NEW act, NEW skip, msg.kind \in Bodies => tx.inspected,
               Reply(msg, Settled(tx), Finish(tx, seen, verdict), act, FALSE, skip)
        PROVE  Once'
    BY Zenon, <1>1, <1>2, <1>3, <1>4, <1>5, ReplyFinal DEF HandlerOK
  <1>6. ASSUME NEW act, Terminal(act), msg.kind \in Headers
        PROVE  Once'
    <2> DEFINE skip == act = "continue" /\ Skip
    <2>1. Reply(msg, Settled(tx), Finish(tx, seen, verdict), act, FALSE, skip)
      BY Zenon, <1>6 DEF Terminal
    <2>2. msg.kind \notin Bodies
      BY Zenon, <1>6 DEF Headers, Bodies
    <2> HIDE DEF skip
    <2> QED
      BY Zenon, <1>5, <2>1, <2>2
  <1>7. CASE AfterPrelude
    <2>1. phase = "prelude" /\ msg.kind \in Headers
      BY Zenon, <1>2, <1>7 DEF AfterPrelude, Ended, HandlerOK, Headers
    <2>2. \/ Terminal("immediate") \/ Terminal("continue")
          \/ Enforcing(tx.policy) /\ InspectHeaders(msg, tx, seen)
      BY Zenon, <1>7 DEF AfterPrelude
    <2>3. CASE Enforcing(tx.policy) /\ InspectHeaders(msg, tx, seen)
      BY Zenon, <1>1, <1>2, <2>1, <2>3, InspectHeadersOnce DEF HandlerOK
    <2> QED
      BY Zenon, <1>6, <2>1, <2>2, <2>3
  <1>8. CASE AfterHeaders
    <2> DEFINE h == PhaseFindings(tx, seen)
    <2>1. phase = "headers" /\ msg.kind \in Headers
      BY Zenon, <1>2, <1>8 DEF AfterHeaders, Ended, HandlerOK
    <2>2. h \in SeenType
      BY Zenon, <1>2, AuditedFacts DEF PhaseFindings
    <2>3. h.finished = seen.finished
      BY Zenon, <1>2 DEF PhaseFindings, Audited, SeenType
    <2>4. \/ Terminal("immediate") \/ Terminal("continue")
          \/ /\ tx.bodyRequired \/ tx.wafEnabled
             /\ \/ InspectBufferedBody(msg, tx, h, Skip)
                \/ Reply(msg, tx, h, "continue", TRUE, Skip)
      BY Zenon, <1>8 DEF AfterHeaders
    <2> HIDE DEF h
    <2>5. CASE /\ tx.bodyRequired \/ tx.wafEnabled
               /\ \/ InspectBufferedBody(msg, tx, h, Skip)
                  \/ Reply(msg, tx, h, "continue", TRUE, Skip)
      <3>1. /\ BodyPhase(tx) /\ msg.kind \in Kinds /\ tx.dir = Side(msg.kind)
            /\ CountsOK(msg.kind, h) /\ h.finished[Side(msg.kind)] = 0
        BY Zenon, <1>2, <2>1, <2>3, <2>5 DEF HandlerOK, BodyPhase, CountsOK
      <3>2. CASE InspectBufferedBody(msg, tx, h, Skip)
        BY Zenon, <1>1, <1>2, <2>2, <3>1, <3>2, InspectBodyOnce
      <3>3. CASE Reply(msg, tx, h, "continue", TRUE, Skip)
        BY Zenon, <1>1, <2>1, <3>1, <3>3, ReplyPending
      <3> QED
        BY Zenon, <2>5, <3>2, <3>3
    <2> QED
      BY Zenon, <1>6, <2>1, <2>4, <2>5
  <1>9. CASE AfterBody
    <2>1. tx.inspected
      BY Zenon, <1>2, <1>9 DEF AfterBody, Ended, HandlerOK
    <2> DEFINE skip == verdict # "block" /\ Skip
    <2>2. Reply(msg, Settled(tx), Finish(tx, seen, verdict), BodyAct(msg, tx, verdict), FALSE, skip)
      BY Zenon, <1>9 DEF AfterBody
    <2> HIDE DEF skip
    <2> QED
      BY Zenon, <1>5, <2>1, <2>2
  <1> QED
    BY Zenon, <1>7, <1>8, <1>9

(* For any policies and any stream with Envoy at the other end: a request or *)
(* response gets one terminal decision (finish), whichever message brings    *)
(* it, and has it when its last message is answered.                         *)
THEOREM OneDecision == Spec => []DecidedOnce
  <1> DEFINE EInv == peer = "envoy" => Once
  <1>1. Init => EInv
    BY DEF Init, Once, StartOK, FreshTx, FreshSeen, NoMsg, Directions
  <1>2. SInv /\ EInv /\ [Next]_vars => EInv'
    <2> SUFFICES ASSUME SInv, EInv, [Next]_vars, peer' = "envoy" PROVE Once'
      BY Zenon
    <2>1. peer = "envoy" /\ Once
      BY Zenon DEF Next, vars
    <2>2. CASE UNCHANGED vars
      BY Zenon, <2>1, <2>2 DEF vars, Once
    <2> QED
      BY Zenon, <2>1, <2>2, PeerOnce, StageOnce, AfterOnce DEF Next
  <1>3. EInv => DecidedOnce
    <2> SUFFICES ASSUME peer = "envoy", Once PROVE DecidedOnce
      BY Zenon DEF DecidedOnce
    <2>1. seen.finished["request"] \in {0, 1} /\ seen.finished["response"] \in {0, 1}
      BY Zenon DEF Once, StartOK, RestOK, HandlerOK, CountsOK
    <2>2. ASSUME pc = "recv", msg.kind \in RequestKinds, may \cap RequestKinds = {}
          PROVE  seen.finished["request"] = 1
      <3>1. msg.kind # "none" /\ Side(msg.kind) = "request" /\ Open(msg.kind) \subseteq RequestKinds
        BY Zenon, <2>2 DEF RequestKinds, Side, Open
      <3> QED
        BY Zenon, <2>2, <3>1 DEF Once, RestOK
    <2>3. ASSUME pc = "recv", msg.kind \notin RequestKinds \cup {"none"}, may = {}
          PROVE  seen.finished["response"] = 1
      <3>1. Side(msg.kind) = "response"
        BY Zenon, <2>3 DEF Side
      <3> QED
        BY Zenon, <2>3, <3>1 DEF Once, RestOK
    <2> QED
      BY <2>1, <2>2, <2>3 DEF DecidedOnce, Directions
  <1> QED
    BY <1>1, <1>2, <1>3, SInvAlways, PTL DEF Spec

-----------------------------------------------------------------------------
(* Catalog.split: whatever the configured order, a pipeline is a sequence of *)
(* stages, the body pipeline begins with the guard and the header pipeline   *)
(* ends with the gate.                                                       *)

(* Induction over the natural numbers, for the elements of a set. *)
LEMMA NatSetInduction ==
  ASSUME NEW S, 0 \in S, \A n \in Nat : n \in S => n + 1 \in S
  PROVE  Nat \subseteq S
  <1> DEFINE T == {n \in Nat : n \notin S}
             R == OpToRel(<, Nat)
  <1>1. SUFFICES ASSUME T # {} PROVE FALSE
    BY Zenon
  <1>2. PICK x \in T : \A y \in T : ~(<<y, x>> \in R)
    <2>1. T \subseteq Nat /\ IsWellFoundedOn(R, Nat)
      BY Zenon, NatLessThanWellFounded
    <2> HIDE DEF T, R
    <2> QED
      BY Zenon, <1>1, <2>1, WFMin
  <1>3. x \in Nat /\ x - 1 \in Nat /\ x - 1 \in T
    OBVIOUS
  <1>4. <<x - 1, x>> \in R
    BY <1>3 DEF OpToRel
  <1> QED
    BY Zenon, <1>2, <1>3, <1>4

(* f is the function Those defines, on the first n inspectors. *)
SplitTo(f, order, inspectors, n) ==
  f = [k \in 0 .. n |->
         IF k = 0 THEN <<>>
         ELSE IF order[k] \in inspectors THEN Append(f[k - 1], order[k]) ELSE f[k - 1]]

LEMMA SplitExists ==
  ASSUME NEW order, NEW inspectors
  PROVE  \A n \in Nat : \E f : SplitTo(f, order, inspectors, n)
  <1> DEFINE S == {n \in Nat : \E f : SplitTo(f, order, inspectors, n)}
  <1>1. 0 \in S
    <2>1. SplitTo([k \in 0 .. 0 |-> <<>>], order, inspectors, 0)
      BY DEF SplitTo
    <2> QED
      BY Zenon, <2>1
  <1>2. ASSUME NEW n \in Nat, n \in S PROVE n + 1 \in S
    <2>1. PICK f : SplitTo(f, order, inspectors, n)
      BY Zenon, <1>2
    <2> DEFINE g == [k \in 0 .. n + 1 |->
                       IF k <= n THEN f[k]
                       ELSE IF order[n + 1] \in inspectors THEN Append(f[n], order[n + 1]) ELSE f[n]]
    <2>2. \A k \in 0 .. n : g[k] = f[k]
      OBVIOUS
    <2>3. ASSUME NEW k \in 0 .. n + 1
          PROVE  g[k] = IF k = 0 THEN <<>>
                        ELSE IF order[k] \in inspectors THEN Append(g[k - 1], order[k]) ELSE g[k - 1]
      <3>1. CASE k = n + 1
        <4>1. g[n + 1] = IF order[n + 1] \in inspectors THEN Append(f[n], order[n + 1]) ELSE f[n]
          OBVIOUS
        <4> HIDE DEF g
        <4> QED
          BY <2>2, <3>1, <4>1
      <3>2. CASE k \in 0 .. n
        <4>1. f[k] = IF k = 0 THEN <<>>
                     ELSE IF order[k] \in inspectors THEN Append(f[k - 1], order[k]) ELSE f[k - 1]
          BY Zenon, <2>1, <3>2 DEF SplitTo
        <4> HIDE DEF g
        <4> QED
          BY <2>2, <3>2, <4>1
      <3> QED
        BY <3>1, <3>2
    <2>4. g = [k \in 0 .. n + 1 |-> g[k]]
      BY Zenon
    <2> HIDE DEF g
    <2>5. SplitTo(g, order, inspectors, n + 1)
      BY Zenon, <2>3, <2>4 DEF SplitTo
    <2> QED
      BY <2>5
  <1> HIDE DEF S
  <1>3. Nat \subseteq S
    BY Zenon, <1>1, <1>2, NatSetInduction
  <1> QED
    BY Zenon, <1>3 DEF S

LEMMA ThoseType ==
  ASSUME NEW X, NEW order \in Seq(X), NEW inspectors
  PROVE  Those(order, inspectors) \in Seq(inspectors)
  <1> DEFINE f == CHOOSE f : SplitTo(f, order, inspectors, Len(order))
             S == {n \in Nat : n <= Len(order) => f[n] \in Seq(inspectors)}
  <1>0. Len(order) \in Nat
    OBVIOUS
  <1>1. SplitTo(f, order, inspectors, Len(order))
    BY Zenon, <1>0, SplitExists
  <1>2. Those(order, inspectors) = f[Len(order)]
    BY Zenon DEF Those, SplitTo
  <1> HIDE DEF f
  <1>3. 0 \in S
    BY <1>0, <1>1 DEF SplitTo
  <1>4. ASSUME NEW n \in Nat, n \in S PROVE n + 1 \in S
    <2> SUFFICES ASSUME n + 1 <= Len(order) PROVE f[n + 1] \in Seq(inspectors)
      OBVIOUS
    <2>1. f[n] \in Seq(inspectors)
      BY <1>0, <1>4
    <2>2. f[n + 1] = IF order[n + 1] \in inspectors THEN Append(f[n], order[n + 1]) ELSE f[n]
      <3>1. n + 1 \in 0 .. Len(order) /\ n + 1 # 0 /\ (n + 1) - 1 = n
        BY <1>0
      <3> QED
        BY Zenon, <1>1, <3>1 DEF SplitTo
    <2>3. order[n + 1] \in inspectors => Append(f[n], order[n + 1]) \in Seq(inspectors)
      BY <2>1
    <2> QED
      BY Zenon, <2>1, <2>2, <2>3
  <1> HIDE DEF S
  <1>5. Nat \subseteq S
    BY Zenon, <1>3, <1>4, NatSetInduction
  <1> QED
    BY <1>0, <1>2, <1>5 DEF S

BodyStageSet == {"guard", "decode", "body_checks", "waf_engine"}

LEMMA PipelineTypes ==
  ASSUME NEW order \in Seq(Inspectors)
  PROVE  /\ HeaderStages(order) \in Seq(Stages)
         /\ BodyStages(order) \in Seq(BodyStageSet)
         /\ BodyStages(order) # <<>> /\ Head(BodyStages(order)) = "guard"
  <1> DEFINE h == Those(order, {"fast_pre_checks", "waf_engine"})
             b == Those(order, {"body_checks", "waf_engine"})
  <1>1. h \in Seq(Stages) /\ b \in Seq(BodyStageSet)
    <2>1. h \in Seq({"fast_pre_checks", "waf_engine"}) /\ b \in Seq({"body_checks", "waf_engine"})
      BY Zenon, ThoseType
    <2> HIDE DEF h, b
    <2> QED
      BY <2>1 DEF Stages, Inspectors, BodyStageSet
  <1> HIDE DEF h, b
  <1>2. <<"body_gate">> \in Seq(Stages) /\ <<"guard", "decode">> \in Seq(BodyStageSet)
    BY DEF Stages, BodyStageSet
  <1>3. h \o <<"body_gate">> \in Seq(Stages) /\ <<"guard", "decode">> \o b \in Seq(BodyStageSet)
    BY <1>1, <1>2
  <1>4. <<"guard", "decode">> \o b # <<>> /\ Head(<<"guard", "decode">> \o b) = "guard"
    BY <1>1, <1>2
  <1> QED
    BY Zenon, <1>3, <1>4 DEF HeaderStages, BodyStages, h, b
-----------------------------------------------------------------------------
(* What is let through.  A message that ends a direction is forwarded        *)
(* uninspected only if the latch says the body was inspected; so the latch   *)
(* must not outlive the bytes it stands for, and a cut body must not get     *)
(* past the guard, the first stage of the body pipeline.                     *)
Strict(t, h) ==
  Blocking(t.policy) /\ t.bodyRequired /\ ~h.failedOpen /\ h.blocked = 0 /\ ~h.reordered

(* The guard has to deny. *)
Cut(t) == Blocking(t.policy) /\ t.bodyRequired /\ t.truncated

(* An inspected request is a decided one: its headers are not taken up again. *)
Latched(t, h) == ~h.reordered /\ t.dir = "request" /\ t.inspected => t.settled

Passes(m, n, act) ==
  m.eos /\ (m.kind = "reqHeaders" => n = 1) /\ act \in {"continue", "mutation"}

Acts == {"none", "continue", "mutation", "immediate"}
MsgType == [kind : Kinds \cup {"none"}, eos : BOOLEAN]
ReplyType == [act : Acts, body : BOOLEAN, skip : BOOLEAN]
Known(t) == t.policy \in Policies[peer] \cup {NoPolicy, DenyAll}

Shapes ==
  /\ Known(tx) /\ stages \in Seq(Stages) /\ reply \in ReplyType /\ may \subseteq Kinds
  /\ msg \in MsgType /\ count \in 0..MaxMessages[peer]

Fwd ==
  /\ pc = "recv" => /\ Strict(tx, seen) /\ tx.inspected => seen.unseen = 0 /\ ~tx.truncated
                    /\ Strict(tx, seen) /\ Passes(msg, count, reply.act) => tx.inspected
                    /\ Latched(tx, seen)
                    /\ count = 0 => ~tx.settled
  /\ pc # "recv" => count > 0
  /\ pc # "recv" /\ phase # "body" => seen.reordered \/ ~tx.inspected
  /\ pc # "recv" /\ phase = "body" => tx.inspected /\ seen.unseen = 0
  /\ pc = "run" /\ phase = "body" =>
       /\ stages \in Seq(BodyStageSet)
       /\ Cut(tx) => stages # <<>> /\ Head(stages) = "guard"
  /\ pc = "ended" /\ phase = "body" /\ Cut(tx) => seen.failedOpen \/ verdict = "block"

FInv == Shapes /\ Fwd

(* The message being answered, the first of its stream or a later one. *)
Taken(m) == peer' = peer /\ m \in MsgType /\ msg' = m /\ count' \in 1..MaxMessages[peer]

LEMMA ReplyFwd ==
  ASSUME Shapes, NEW m, NEW t, NEW h, NEW act \in Acts, NEW body \in BOOLEAN, NEW skip \in BOOLEAN,
         Reply(m, t, h, act, body, skip), Taken(m), Known(t), Latched(t, h),
         Strict(t, h) /\ t.inspected => h.unseen = 0 /\ ~t.truncated,
         Strict(t, h) /\ Passes(m, count', act) => t.inspected
  PROVE  FInv'
  <1> DEFINE k == skip \/ reply.skip
             r == [act |-> act, body |-> body, skip |-> k]
  <1>1. /\ pc' = "recv" /\ tx' = t /\ seen' = h /\ reply' = r /\ stages' = stages
        /\ may' = ToCome(m, r) \ (IF r.skip THEN {"respHeaders"} ELSE {})
    BY Zenon DEF Reply
  <1>2. k \in BOOLEAN
    BY Zenon
  <1> HIDE DEF k
  <1>3. r \in ReplyType /\ r.act = act
    BY Zenon, <1>2 DEF ReplyType
  <1> HIDE DEF r
  <1>4. ToCome(m, r) \subseteq Kinds
    BY Zenon DEF ToCome, Kinds, RequestKinds
  <1>5. Shapes'
    BY <1>1, <1>3, <1>4 DEF Shapes, Known, Taken
  <1>6. Fwd'
    BY <1>1, <1>3 DEF Fwd, Taken, Latched, Strict
  <1> QED
    BY Zenon, <1>5, <1>6 DEF FInv

LEMMA RunFwd ==
  ASSUME Shapes, NEW m, NEW t \in TxType, NEW h, NEW ph, NEW sts \in Seq(Stages),
         Run(t, h, ph, sts), Taken(m), Known(t),
         ph # "body" => h.reordered \/ ~t.inspected,
         ph = "body" => /\ t.inspected /\ h.unseen = 0
                        /\ sts \in Seq(BodyStageSet) /\ sts # <<>> /\ Head(sts) = "guard"
  PROVE  FInv'
  <1>1. /\ pc' = "run" /\ phase' = ph /\ stages' = sts /\ seen' = h /\ reply' = reply /\ may' = may
        /\ tx' = [t EXCEPT !.result = "allow", !.findings = 0]
    BY Zenon DEF Run
  <1>2. tx'.policy = t.policy /\ tx'.inspected = t.inspected
    BY Zenon, <1>1 DEF TxType
  <1>3. Shapes'
    BY <1>1, <1>2 DEF Shapes, Known, Taken
  <1>4. Fwd'
    BY <1>1, <1>2 DEF Fwd, Taken
  <1> QED
    BY Zenon, <1>3, <1>4 DEF FInv

(* Along a Run the latch and the history of the bytes stay as they are. *)
Alike(t, h) == Known(t) /\ t.inspected = tx.inspected /\ h.reordered = seen.reordered /\ h.unseen = seen.unseen

LEMMA ProceedFwd ==
  ASSUME FInv, pc = "run", stages # <<>>, peer' = peer, NEW t, NEW h, Proceed(t, h), Alike(t, h),
         phase = "body" => ~Cut(t)
  PROVE  FInv'
  <1>1. /\ pc' = pc /\ phase' = phase /\ stages' = Tail(stages) /\ seen' = h /\ tx' = t
        /\ reply' = reply /\ may' = may /\ msg' = msg /\ count' = count
    BY Zenon DEF Proceed
  <1>2. Shapes'
    BY <1>1 DEF FInv, Shapes, Known, Alike
  <1>3. Fwd'
    BY <1>1 DEF FInv, Fwd, Alike
  <1> QED
    BY Zenon, <1>2, <1>3 DEF FInv

LEMMA ReturnFwd ==
  ASSUME FInv, pc = "run", peer' = peer, NEW d, NEW t, NEW h, Return(d, t, h), Alike(t, h),
         phase = "body" /\ Cut(t) => h.failedOpen \/ d = "block"
  PROVE  FInv'
  <1>1. /\ pc' = "ended" /\ phase' = phase /\ stages' = <<>> /\ seen' = h /\ tx' = t /\ verdict' = d
        /\ reply' = reply /\ may' = may /\ msg' = msg /\ count' = count
    BY Zenon DEF Return
  <1>2. Shapes'
    BY <1>1 DEF FInv, Shapes, Known, Alike
  <1>3. Fwd'
    BY Zenon, <1>1 DEF FInv, Fwd, Alike
  <1> QED
    BY Zenon, <1>2, <1>3 DEF FInv

(* What a terminal decision leaves alone, and what it settles. *)
LEMMA FinishLeaves ==
  ASSUME NEW t \in TxType, NEW h \in SeenType, NEW d \in Verdicts
  PROVE  /\ Finish(t, h, d).failedOpen = h.failedOpen
         /\ Finish(t, h, d).reordered = h.reordered
         /\ Finish(t, h, d).unseen = h.unseen
         /\ Audited(t, h, d).failedOpen = h.failedOpen
         /\ Audited(t, h, d).reordered = h.reordered
         /\ Audited(t, h, d).unseen = h.unseen
  <1> DEFINE a == Audited(t, h, d)
  <1>1. a.failedOpen = h.failedOpen /\ a.reordered = h.reordered /\ a.unseen = h.unseen
    BY Zenon DEF Audited, SeenType
  <1>2. a \in SeenType
    BY Zenon, AuditedFacts
  <1>3. Finish(t, h, d) = [a EXCEPT !.finished[t.dir] = @ + 1, !.blocked = @ + Blocks(d)]
    BY Zenon DEF Finish
  <1> HIDE DEF a
  <1>4. /\ Finish(t, h, d).failedOpen = a.failedOpen /\ Finish(t, h, d).reordered = a.reordered
        /\ Finish(t, h, d).unseen = a.unseen
    BY Zenon, <1>2, <1>3 DEF SeenType
  <1> QED
    BY Zenon, <1>1, <1>4 DEF a

LEMMA SettledLatches ==
  ASSUME NEW t \in TxType, NEW h
  PROVE  /\ Settled(t).inspected = t.inspected /\ Settled(t).truncated = t.truncated
         /\ Settled(t).bodyRequired = t.bodyRequired /\ Settled(t).policy = t.policy
         /\ Latched(Settled(t), h)
  <1>1. /\ Settled(t).inspected = t.inspected /\ Settled(t).truncated = t.truncated
        /\ Settled(t).bodyRequired = t.bodyRequired /\ Settled(t).policy = t.policy
        /\ Settled(t).dir = t.dir /\ (t.dir = "request" => Settled(t).settled)
    BY Zenon DEF Settled, TxType
  <1> QED
    BY Zenon, <1>1 DEF Latched

LEMMA BodyActs ==
  ASSUME NEW m, NEW t, NEW d
  PROVE  BodyAct(m, t, d) \in Acts
  BY Zenon DEF BodyAct, Acts

(* A decision ends the message m: it blocks, or it vouches for the body. *)
LEMMA DecidedFwd ==
  ASSUME Shapes, NEW m, NEW t \in TxType, NEW h \in SeenType, NEW d \in Verdicts,
         NEW act \in Acts, NEW skip \in BOOLEAN,
         Reply(m, Settled(t), Finish(t, h, d), act, FALSE, skip), Taken(m), Known(t),
         Strict(t, h) /\ d # "block" => t.inspected /\ h.unseen = 0 /\ ~t.truncated
  PROVE  FInv'
  <1> DEFINE s == Settled(t)
             f == Finish(t, h, d)
  <1>1. /\ s.inspected = t.inspected /\ s.truncated = t.truncated
        /\ s.bodyRequired = t.bodyRequired /\ s.policy = t.policy /\ Latched(s, f)
    BY Zenon, SettledLatches
  <1>2. /\ f.failedOpen = h.failedOpen /\ f.reordered = h.reordered /\ f.unseen = h.unseen
        /\ f.blocked = h.blocked + Blocks(d)
    BY Zenon, FinishLeaves, FinishFacts
  <1>3. Reply(m, s, f, act, FALSE, skip)
    BY Zenon
  <1> HIDE DEF s, f
  <1>4. f.blocked = 0 => h.blocked = 0 /\ d # "block"
    <2>1. h.blocked \in Nat /\ Blocks(d) \in Nat /\ (d = "block" => Blocks(d) = 1)
      BY Zenon DEF SeenType, Blocks
    <2>2. \A x, y \in Nat : x + y = 0 => x = 0 /\ y # 1
      OBVIOUS
    <2> QED
      BY Zenon, <1>2, <2>1, <2>2
  <1>5. Strict(s, f) => t.inspected /\ h.unseen = 0 /\ ~t.truncated
    BY Zenon, <1>1, <1>2, <1>4 DEF Strict
  <1>6. Known(s)
    BY Zenon, <1>1 DEF Known
  <1>7. FALSE \in BOOLEAN
    BY Zenon
  <1> QED
    BY Zenon, <1>1, <1>2, <1>3, <1>5, <1>6, <1>7, ReplyFwd

LEMMA FailBuildFwd ==
  ASSUME Shapes, NEW m, NEW t \in TxType, NEW h \in SeenType, FailBuild(m, t, h), Taken(m), Known(t)
  PROVE  FInv'
  <1> DEFINE d == IF FailOpen(t.policy) THEN "allow" ELSE "block"
             k == IF d = "block" THEN [h EXCEPT !.failedClosed = TRUE] ELSE [h EXCEPT !.failedOpen = TRUE]
  <1>1. Reply(m, Settled(t), Finish(t, k, d), BodyAct(m, t, d), FALSE, FALSE)
    BY Zenon DEF FailBuild
  <1>2. d \in Verdicts /\ k \in SeenType /\ (d # "block" => k.failedOpen)
    BY Zenon DEF Verdicts, SeenType
  <1>3. BodyAct(m, t, d) \in Acts /\ FALSE \in BOOLEAN
    BY Zenon, BodyActs
  <1> HIDE DEF d, k
  <1>4. Strict(t, k) /\ d # "block" => FALSE
    BY Zenon, <1>2 DEF Strict
  <1> QED
    BY Zenon, <1>1, <1>2, <1>3, <1>4, DecidedFwd

LEMMA KnownPolicy ==
  ASSUME NEW t \in TxType, Enforcing(t.policy)
  PROVE  t.policy \in PolicyType /\ t.policy.order[t.dir] \in Seq(Inspectors)
  <1>1. t.policy \in PolicyType /\ t.dir \in Directions
    BY Zenon DEF Enforcing, TxType
  <1> QED
    BY Zenon, <1>1 DEF PolicyType, Directions

LEMMA InspectHeadersFwd ==
  ASSUME Shapes, NEW m, NEW t \in TxType, NEW h \in SeenType, InspectHeaders(m, t, h), Taken(m),
         Known(t), Enforcing(t.policy), h.reordered \/ ~t.inspected
  PROVE  FInv'
  <1> DEFINE sts == HeaderStages(t.policy.order[t.dir])
  <1>1. sts \in Seq(Stages)
    BY Zenon, KnownPolicy, PipelineTypes
  <1>2. Run(t, h, "headers", sts) \/ FailBuild(m, t, h)
    BY Zenon DEF InspectHeaders
  <1> HIDE DEF sts
  <1> QED
    BY Zenon, <1>1, <1>2, RunFwd, FailBuildFwd

LEMMA InspectBodyFwd ==
  ASSUME Shapes, NEW m, NEW t \in TxType, NEW h \in SeenType, NEW skip \in BOOLEAN,
         InspectBufferedBody(m, t, h, skip), Taken(m), Known(t), Latched(t, h),
         Strict(t, h) /\ t.inspected => h.unseen = 0 /\ ~t.truncated
  PROVE  FInv'
  <1> DEFINE i == [t EXCEPT !.inspected = TRUE]
             u == [h EXCEPT !.unseen = 0]
             sts == BodyStages(t.policy.order[t.dir])
  <1>1. i \in TxType /\ i.inspected /\ i.policy = t.policy /\ u.unseen = 0
    BY Zenon DEF TxType, SeenType
  <1>2. Known(i)
    BY Zenon, <1>1 DEF Known
  <1>3. CASE BodyPhase(t)
    <2>1. /\ sts \in Seq(BodyStageSet) /\ sts # <<>> /\ Head(sts) = "guard"
          /\ BodyStageSet \subseteq Stages
      BY Zenon, <1>3, KnownPolicy, PipelineTypes DEF BodyPhase, BodyStageSet, Stages, Inspectors
    <2>2. Run(i, u, "body", sts) \/ FailBuild(m, i, h)
      BY Zenon, <1>3 DEF InspectBufferedBody
    <2> HIDE DEF sts, i, u
    <2>3. sts \in Seq(Stages)
      BY <2>1
    <2>4. CASE Run(i, u, "body", sts)
      BY Zenon, <1>1, <1>2, <2>1, <2>3, <2>4, RunFwd
    <2>5. CASE FailBuild(m, i, h)
      BY Zenon, <1>1, <1>2, <2>5, FailBuildFwd
    <2> QED
      BY Zenon, <2>2, <2>4, <2>5
  <1>4. CASE ~BodyPhase(t)
    <2>1. Reply(m, t, h, BodyAct(m, t, "allow"), FALSE, skip)
      BY Zenon, <1>4 DEF InspectBufferedBody
    <2>2. Strict(t, h) => t.inspected
      BY Zenon, <1>4 DEF Strict, BodyPhase, Blocking, Enforcing
    <2>3. BodyAct(m, t, "allow") \in Acts /\ FALSE \in BOOLEAN
      BY Zenon, BodyActs
    <2> QED
      BY Zenon, <2>1, <2>2, <2>3, ReplyFwd
  <1> QED
    BY Zenon, <1>3, <1>4

LEMMA TakenFacts ==
  ASSUME Shapes, peer \in Peers, peer' = peer, NEW m \in MsgType, Receive(m)
  PROVE  Taken(m) /\ pc = "recv" /\ count' = count + 1 /\ count \in Nat
  <1>1. MaxMessages[peer] \in Nat
    BY Zenon, StreamAssumption
  <1> QED
    BY <1>1 DEF Receive, Taken, Shapes

(* At rest. *)
LEMMA RestFacts ==
  ASSUME SInv, FInv, pc = "recv"
  PROVE  /\ Shapes /\ tx \in TxType /\ seen \in SeenType /\ Known(tx) /\ Latched(tx, seen)
         /\ Strict(tx, seen) /\ tx.inspected => seen.unseen = 0 /\ ~tx.truncated
         /\ count = 0 => ~tx.settled
  BY Zenon DEF SInv, Types, FInv, Fwd, Shapes

LEMMA RequestHeadersFwd ==
  ASSUME SInv, FInv, peer \in Peers, peer' = peer,
         NEW eos \in BOOLEAN, NEW mismatch \in BOOLEAN, RequestHeaders(eos, mismatch)
  PROVE  FInv'
  <1> DEFINE m == [kind |-> "reqHeaders", eos |-> eos]
             t == [tx EXCEPT !.dir = "request"]
             o == seen.reordered \/ tx.dir = "response"
             h == [seen EXCEPT !.mismatch = mismatch, !.reordered = o]
             sts == <<"policy_resolve", "early_decision">>
  <1>1. m \in MsgType /\ m.kind = "reqHeaders" /\ Receive(m)
    BY Zenon DEF MsgType, Kinds, RequestKinds, RequestHeaders
  <1>2. \/ tx.settled /\ Reply(m, tx, seen, "continue", FALSE, FALSE)
        \/ ~tx.settled /\ Run(t, h, "prelude", sts)
    BY Zenon DEF RequestHeaders
  <1> HIDE DEF m
  <1>3. Shapes /\ Taken(m) /\ pc = "recv" /\ count' = count + 1 /\ count \in Nat
    BY Zenon, <1>1, TakenFacts DEF FInv
  <1>4. CASE tx.settled /\ Reply(m, tx, seen, "continue", FALSE, FALSE)
    <2>1. ~Passes(m, count', "continue")
      BY <1>1, <1>3, <1>4, RestFacts DEF Passes
    <2>2. "continue" \in Acts /\ FALSE \in BOOLEAN
      BY Zenon DEF Acts
    <2> QED
      BY Zenon, <1>3, <1>4, <2>1, <2>2, RestFacts, ReplyFwd
  <1>5. CASE ~tx.settled /\ Run(t, h, "prelude", sts)
    <2>1. t \in TxType /\ t.policy = tx.policy /\ t.inspected = tx.inspected
      BY Zenon, <1>3, RestFacts DEF TxType, Directions
    <2>2. o \in BOOLEAN
      BY Zenon
    <2>3. ~o => ~tx.inspected
      BY Zenon, <1>3, <1>5, RestFacts DEF Latched, TxType, Directions
    <2> HIDE DEF o, t
    <2>4. h.reordered = o
      BY Zenon, <1>3, RestFacts DEF SeenType
    <2>5. Known(t) /\ sts \in Seq(Stages)
      BY <1>3, <2>1, RestFacts DEF Known, Stages
    <2> HIDE DEF h, sts
    <2> QED
      BY <1>3, <1>5, <2>1, <2>2, <2>3, <2>4, <2>5, RunFwd
  <1> QED
    BY Zenon, <1>2, <1>4, <1>5

LEMMA ResponseHeadersFwd ==
  ASSUME SInv, FInv, peer \in Peers, peer' = peer, NEW eos \in BOOLEAN, ResponseHeaders(eos)
  PROVE  FInv'
  <1> DEFINE m == [kind |-> "respHeaders", eos |-> eos]
             t == [tx EXCEPT !.dir = "response", !.bodyRequired = FALSE, !.wafEnabled = FALSE,
                             !.body = 0, !.truncated = FALSE, !.inspected = FALSE, !.mutated = FALSE,
                             !.result = "allow", !.findings = 0]
             h == [seen EXCEPT !.unseen = 0, !.failedOpen = FALSE]
             f == Finish(t, h, "allow")
  <1>1. m \in MsgType /\ Receive(m)
    BY Zenon DEF MsgType, Kinds, ResponseHeaders
  <1>2. \/ Enforcing(tx.policy) /\ InspectHeaders(m, t, h)
        \/ ~Enforcing(tx.policy) /\ Reply(m, t, f, "continue", FALSE, FALSE)
    BY Zenon DEF ResponseHeaders
  <1> HIDE DEF m
  <1>3. Shapes /\ Taken(m) /\ tx \in TxType /\ seen \in SeenType /\ Known(tx)
    BY Zenon, <1>1, TakenFacts, RestFacts DEF FInv
  <1>4. t \in TxType /\ t.policy = tx.policy /\ ~t.inspected
    BY Zenon, <1>3 DEF TxType, Directions
  <1>5. h \in SeenType
    BY Zenon, <1>3 DEF SeenType
  <1> HIDE DEF t, h, f
  <1>6. Known(t)
    BY Zenon, <1>3, <1>4 DEF Known
  <1>7. CASE Enforcing(tx.policy) /\ InspectHeaders(m, t, h)
    BY Zenon, <1>3, <1>4, <1>5, <1>6, <1>7, InspectHeadersFwd
  <1>8. CASE ~Enforcing(tx.policy) /\ Reply(m, t, f, "continue", FALSE, FALSE)
    <2>1. ~Strict(t, f) /\ Latched(t, f)
      BY Zenon, <1>4, <1>8 DEF Strict, Latched, Enforcing, Blocking
    <2>2. "continue" \in Acts /\ FALSE \in BOOLEAN
      BY Zenon DEF Acts
    <2> QED
      BY Zenon, <1>3, <1>6, <1>8, <2>1, <2>2, ReplyFwd
  <1> QED
    BY Zenon, <1>2, <1>7, <1>8

LEMMA BodyChunkFwd ==
  ASSUME SInv, FInv, peer \in Peers, peer' = peer, NEW dir \in Directions, NEW len \in Nat,
         NEW eos \in BOOLEAN, NEW stored \in 0..len, BodyChunk(dir, len, stored, eos)
  PROVE  FInv'
  <1> DEFINE m == [kind |-> IF dir = "request" THEN "reqBody" ELSE "respBody", eos |-> eos]
             n == tx.inspected /\ len = 0
             r == [tx EXCEPT !.inspected = n]
             b == r.body + stored
             c == r.truncated \/ stored < len
             t == [r EXCEPT !.body = b, !.truncated = c]
             h == [seen EXCEPT !.unseen = @ + len]
  <1>1. m \in MsgType /\ m.eos = eos /\ Receive(m)
    BY Zenon DEF MsgType, Kinds, RequestKinds, BodyChunk
  <1>2. \/ tx.policy = NoPolicy /\ Reply(m, tx, seen, "continue", FALSE, FALSE)
        \/ ~eos /\ Reply(m, t, h, "continue", FALSE, FALSE)
        \/ InspectBufferedBody(m, t, h, FALSE)
    BY Zenon DEF BodyChunk, Reopened
  <1> HIDE DEF m
  <1>3. /\ Shapes /\ Taken(m) /\ tx \in TxType /\ seen \in SeenType /\ Known(tx) /\ Latched(tx, seen)
        /\ Strict(tx, seen) /\ tx.inspected => seen.unseen = 0 /\ ~tx.truncated
    BY Zenon, <1>1, TakenFacts, RestFacts DEF FInv
  <1>4. n \in BOOLEAN /\ c \in BOOLEAN
    BY Zenon
  <1>5. n => tx.inspected /\ len = 0 /\ stored = 0
    OBVIOUS
  <1> HIDE DEF n
  <1>6. r \in TxType /\ r.truncated = tx.truncated /\ r.inspected = n /\ r.policy = tx.policy
        /\ r.bodyRequired = tx.bodyRequired /\ r.dir = tx.dir /\ r.settled = tx.settled
    BY Zenon, <1>3, <1>4 DEF TxType
  <1>7. b \in Nat /\ (c => tx.truncated \/ stored < len)
    BY <1>6 DEF TxType
  <1> HIDE DEF r, b, c
  <1>8. /\ t \in TxType /\ t.inspected = n /\ t.truncated = c /\ t.policy = tx.policy
        /\ t.bodyRequired = tx.bodyRequired /\ t.dir = tx.dir /\ t.settled = tx.settled
    BY Zenon, <1>4, <1>6, <1>7 DEF TxType
  <1>9. /\ h \in SeenType /\ h.unseen = seen.unseen + len /\ h.failedOpen = seen.failedOpen
        /\ h.blocked = seen.blocked /\ h.reordered = seen.reordered /\ seen.unseen \in Nat
    BY <1>3 DEF SeenType
  <1> HIDE DEF t, h
  <1>10. Known(t) /\ Latched(t, h)
    BY Zenon, <1>3, <1>5, <1>8, <1>9 DEF Known, Latched
  <1>11. Strict(t, h) /\ t.inspected => h.unseen = 0 /\ ~t.truncated
    BY <1>3, <1>5, <1>7, <1>8, <1>9 DEF Strict
  <1>12. "continue" \in Acts /\ FALSE \in BOOLEAN
    BY Zenon DEF Acts
  <1>13. CASE tx.policy = NoPolicy /\ Reply(m, tx, seen, "continue", FALSE, FALSE)
    <2>1. ~Strict(tx, seen)
      BY Zenon, <1>13 DEF Strict, Blocking
    <2> QED
      BY Zenon, <1>3, <1>12, <1>13, <2>1, ReplyFwd
  <1>14. CASE ~eos /\ Reply(m, t, h, "continue", FALSE, FALSE)
    <2>1. ~Passes(m, count', "continue")
      BY Zenon, <1>1, <1>14 DEF Passes
    <2> QED
      BY Zenon, <1>3, <1>10, <1>11, <1>12, <1>14, <2>1, ReplyFwd
  <1>15. CASE InspectBufferedBody(m, t, h, FALSE)
    BY Zenon, <1>3, <1>8, <1>9, <1>10, <1>11, <1>15, InspectBodyFwd
  <1> QED
    BY Zenon, <1>2, <1>13, <1>14, <1>15

LEMMA NothingYet ==
  NoMsg \in MsgType /\ NoReply \in ReplyType /\ {"reqHeaders"} \subseteq Kinds /\ FreshTx.policy = NoPolicy
  BY Zenon DEF NoMsg, NoReply, FreshTx, MsgType, ReplyType, Acts, Kinds, RequestKinds

LEMMA FreshFwd ==
  ASSUME pc = "recv", stages \in Seq(Stages), msg = NoMsg, tx = FreshTx, reply = NoReply,
         may = {"reqHeaders"}, count = 0, seen = FreshSeen, peer \in Peers
  PROVE  FInv
  <1>1. MaxMessages[peer] \in Nat
    BY Zenon, StreamAssumption
  <1>2. Shapes
    BY <1>1, NothingYet DEF Shapes, Known
  <1>3. Fwd
    BY Zenon DEF Fwd, FreshTx, Strict, Latched, Passes, NoMsg
  <1> QED
    BY Zenon, <1>2, <1>3 DEF FInv

LEMMA PeerFwd ==
  ASSUME SInv, FInv, peer \in Peers, peer' = peer, PeerStep
  PROVE  FInv'
  <1>1. CASE \E eos, mismatch \in BOOLEAN : RequestHeaders(eos, mismatch)
    BY Zenon, <1>1, RequestHeadersFwd
  <1>2. CASE \E eos \in BOOLEAN : ResponseHeaders(eos)
    BY Zenon, <1>2, ResponseHeadersFwd
  <1>3. CASE \E dir \in Directions, len \in BodyLens, eos \in BOOLEAN :
               \E stored \in 0..len : BodyChunk(dir, len, stored, eos)
    <2>1. BodyLens \subseteq Nat
      BY Zenon, StreamAssumption
    <2> QED
      BY Zenon, <1>3, <2>1, BodyChunkFwd
  <1>4. ASSUME NEW dir \in Directions, Trailers(dir)
        PROVE  FInv'
    <2> DEFINE m == [kind |-> IF dir = "request" THEN "reqTrailers" ELSE "respTrailers", eos |-> TRUE]
    <2>1. m \in MsgType /\ Receive(m) /\ InspectBufferedBody(m, tx, seen, FALSE)
      BY Zenon, <1>4 DEF MsgType, Kinds, RequestKinds, Trailers
    <2> HIDE DEF m
    <2>2. /\ Shapes /\ Taken(m) /\ tx \in TxType /\ seen \in SeenType /\ Known(tx) /\ Latched(tx, seen)
          /\ Strict(tx, seen) /\ tx.inspected => seen.unseen = 0 /\ ~tx.truncated
      BY Zenon, <2>1, TakenFacts, RestFacts DEF FInv
    <2> QED
      BY Zenon, <2>1, <2>2, InspectBodyFwd
  <1>5. CASE EndStream
    <2>1. /\ pc' = "recv" /\ stages' \in Seq(Stages) /\ msg' = NoMsg /\ tx' = FreshTx /\ reply' = NoReply
          /\ may' = {"reqHeaders"} /\ count' = 0 /\ seen' = FreshSeen /\ peer' \in Peers
      BY Zenon, <1>5 DEF EndStream, FInv, Shapes
    <2>2. MaxMessages[peer'] \in Nat
      BY Zenon, <2>1, StreamAssumption
    <2>3. Shapes'
      BY <2>1, <2>2, NothingYet DEF Shapes, Known
    <2>4. Fwd'
      BY Zenon, <2>1 DEF Fwd, FreshTx, Strict, Latched, Passes, NoMsg
    <2> QED
      BY Zenon, <2>3, <2>4 DEF FInv
  <1> QED
    BY Zenon, <1>1, <1>2, <1>3, <1>4, <1>5 DEF PeerStep

(* The stages. *)
LEMMA RunFacts ==
  ASSUME SInv, FInv, pc = "run"
  PROVE  /\ tx \in TxType /\ seen \in SeenType /\ Known(tx) /\ Alike(tx, seen)
         /\ phase = "body" => /\ stages \in Seq(BodyStageSet)
                              /\ Cut(tx) => stages # <<>> /\ Head(stages) = "guard"
         /\ phase # "prelude" => tx.policy # NoPolicy
         /\ stages # <<>> /\ phase = "body" => Head(stages) \in BodyStageSet
         /\ stages # <<>> /\ phase = "prelude" => Head(stages) \in {"policy_resolve", "early_decision"}
  <1>1. /\ tx \in TxType /\ seen \in SeenType /\ Known(tx) /\ Alike(tx, seen)
        /\ phase = "body" => /\ stages \in Seq(BodyStageSet)
                             /\ Cut(tx) => stages # <<>> /\ Head(stages) = "guard"
        /\ phase # "prelude" => tx.policy # NoPolicy
    BY Zenon, InRunFacts DEF FInv, Fwd, Shapes, Alike
  <1>2. stages # <<>> /\ phase = "body" => Head(stages) \in BodyStageSet
    BY <1>1
  <1>3. stages # <<>> /\ phase = "prelude" => Head(stages) \in {"policy_resolve", "early_decision"}
    BY Zenon, InRunFacts, InPrelude
  <1> QED
    BY Zenon, <1>1, <1>2, <1>3

LEMMA ApplyDenyFwd ==
  ASSUME SInv, FInv, pc = "run", stages # <<>>, peer' = peer, NEW t \in TxType, ApplyDeny(t), Alike(t, seen)
  PROVE  FInv'
  <1>1. CASE Blocking(t.policy)
    BY Zenon, <1>1, ReturnFwd DEF ApplyDeny
  <1>2. CASE ~Blocking(t.policy)
    <2> DEFINE s == Source
               h == [seen EXCEPT !.recorded[s] = @ + 1]
               r == Recorded(t)
    <2>1. Proceed(r, h)
      BY Zenon, <1>2 DEF ApplyDeny
    <2>2. r.inspected = t.inspected /\ r.policy = t.policy
      BY Zenon DEF Recorded, TxType
    <2>3. h.reordered = seen.reordered /\ h.unseen = seen.unseen
      BY Zenon, RunFacts DEF SeenType
    <2> HIDE DEF r, h
    <2>4. Alike(r, h) /\ ~Cut(r)
      BY Zenon, <1>2, <2>2, <2>3 DEF Alike, Known, Cut
    <2> QED
      BY Zenon, <2>1, <2>4, ProceedFwd
  <1> QED
    BY Zenon, <1>1, <1>2

LEMMA FailPostureFwd ==
  ASSUME SInv, FInv, pc = "run", peer' = peer, NEW c \in BOOLEAN,
         FailPosture([seen EXCEPT !.cancelled = c])
  PROVE  FInv'
  <1> DEFINE k == [seen EXCEPT !.cancelled = c]
             o == [k EXCEPT !.failedOpen = TRUE]
             f == [k EXCEPT !.failedClosed = TRUE]
  <1>1. tx \in TxType /\ seen \in SeenType /\ Alike(tx, seen)
    BY Zenon, RunFacts
  <1>2. o.failedOpen /\ o.reordered = seen.reordered /\ o.unseen = seen.unseen
    BY Zenon, <1>1 DEF SeenType
  <1>3. f.reordered = seen.reordered /\ f.unseen = seen.unseen
    BY Zenon, <1>1 DEF SeenType
  <1>4. Return(tx.result, tx, o) \/ Return("block", tx, f)
    BY Zenon DEF FailPosture
  <1> HIDE DEF o, f
  <1>5. Alike(tx, o) /\ Alike(tx, f)
    BY Zenon, <1>1, <1>2, <1>3 DEF Alike
  <1> QED
    BY Zenon, <1>2, <1>4, <1>5, ReturnFwd

LEMMA EarlyDecisionFwd ==
  ASSUME SInv, FInv, peer' = peer, EarlyDecision
  PROVE  FInv'
  <1>1. pc = "run" /\ stages # <<>> /\ Head(stages) = "early_decision"
    BY Zenon DEF EarlyDecision, Running
  <1>2. tx \in TxType /\ Alike(tx, seen) /\ phase # "body"
    BY Zenon, <1>1, RunFacts DEF BodyStageSet
  <1>3. CASE ApplyDeny(tx)
    BY Zenon, <1>1, <1>2, <1>3, ApplyDenyFwd
  <1>4. CASE Return(tx.result, tx, seen)
    BY Zenon, <1>1, <1>2, <1>4, ReturnFwd
  <1>5. CASE ApplyDeny([tx EXCEPT !.policy = DenyAll])
    <2> DEFINE t == [tx EXCEPT !.policy = DenyAll]
    <2>1. t \in TxType /\ t.inspected = tx.inspected /\ t.policy = DenyAll
      BY Zenon, <1>2, DenyAllType DEF TxType
    <2> HIDE DEF t
    <2>2. Alike(t, seen)
      BY Zenon, <2>1 DEF Alike, Known
    <2> QED
      BY Zenon, <1>1, <1>5, <2>1, <2>2, ApplyDenyFwd DEF t
  <1>6. CASE Proceed(tx, seen)
    BY Zenon, <1>1, <1>2, <1>6, ProceedFwd
  <1> QED
    BY Zenon, <1>3, <1>4, <1>5, <1>6 DEF EarlyDecision

(* A cut body does not get past the guard. *)
LEMMA InspectFwd ==
  ASSUME SInv, FInv, peer' = peer, NEW s \in Inspectors \cup {"guard", "decode"},
         NEW res \in {"continue", "redact", "deny", "error"}, Inspect(s, res)
  PROVE  FInv'
  <1>1. pc = "run" /\ stages # <<>> /\ Head(stages) = s
    BY Zenon DEF Inspect, Running
  <1>2. tx \in TxType /\ seen \in SeenType /\ Alike(tx, seen)
    BY Zenon, <1>1, RunFacts
  <1>3. phase = "body" /\ Cut(tx) => res = "deny"
    <2> SUFFICES ASSUME phase = "body", Cut(tx) PROVE res = "deny"
      BY Zenon
    <2>1. s = "guard"
      BY Zenon, <1>1, RunFacts
    <2>2. res \in Guard
      BY Zenon, <2>1 DEF Inspect, Results
    <2> QED
      BY Zenon, <2>2 DEF Guard, Cut
  <1>4. CASE res = "continue" /\ Proceed(tx, seen)
    BY Zenon, <1>1, <1>2, <1>3, <1>4, ProceedFwd
  <1>5. CASE res = "redact" /\ Proceed([tx EXCEPT !.mutated = TRUE], seen)
    <2> DEFINE t == [tx EXCEPT !.mutated = TRUE]
    <2>1. /\ t.policy = tx.policy /\ t.inspected = tx.inspected
          /\ t.bodyRequired = tx.bodyRequired /\ t.truncated = tx.truncated
      BY Zenon, <1>2 DEF TxType
    <2> HIDE DEF t
    <2>2. Alike(t, seen) /\ (phase = "body" => ~Cut(t))
      BY Zenon, <1>2, <1>3, <1>5, <2>1 DEF Alike, Known, Cut
    <2> QED
      BY Zenon, <1>1, <1>5, <2>2, ProceedFwd DEF t
  <1>6. CASE ApplyDeny(tx)
    BY Zenon, <1>1, <1>2, <1>6, ApplyDenyFwd
  <1>7. CASE FailPosture(seen)
    <2>1. seen = [seen EXCEPT !.cancelled = seen.cancelled] /\ seen.cancelled \in BOOLEAN
      BY Zenon, <1>2 DEF SeenType
    <2> QED
      BY Zenon, <1>1, <1>7, <2>1, FailPostureFwd
  <1> QED
    BY Zenon, <1>4, <1>5, <1>6, <1>7 DEF Inspect

LEMMA StageFwd ==
  ASSUME SInv, FInv, peer' = peer, StageStep
  PROVE  FInv'
  <1>1. CASE SkipStage
    <2>1. pc = "run" /\ stages # <<>> /\ Gated(Head(stages)) /\ Proceed(tx, seen)
      BY Zenon, <1>1 DEF SkipStage
    <2>2. phase = "body" => ~Cut(tx)
      BY Zenon, <2>1, RunFacts DEF Gated, Cut
    <2> QED
      BY Zenon, <2>1, <2>2, RunFacts, ProceedFwd
  <1>2. CASE RunEnds
    <2>1. pc = "run" /\ stages = <<>> /\ Return(tx.result, tx, seen)
      BY Zenon, <1>2 DEF RunEnds
    <2> QED
      BY Zenon, <2>1, RunFacts, ReturnFwd
  <1>3. CASE \E cancelled \in BOOLEAN : Deadline(cancelled)
    BY Zenon, <1>3, FailPostureFwd DEF Deadline
  <1>4. ASSUME NEW p \in Policies[peer] \cup {NoPolicy}, PolicyResolve(p)
        PROVE  FInv'
    <2> DEFINE t == [tx EXCEPT !.policy = p]
    <2>1. pc = "run" /\ phase = "prelude" /\ stages # <<>> /\ Proceed(t, seen)
      BY Zenon, <1>4 DEF PolicyResolve, Running
    <2>2. t.policy = p /\ t.inspected = tx.inspected
      BY Zenon, <2>1, RunFacts DEF TxType
    <2> HIDE DEF t
    <2>3. Alike(t, seen)
      BY Zenon, <2>2 DEF Alike, Known
    <2> QED
      BY Zenon, <2>1, <2>3, ProceedFwd
  <1>5. CASE EarlyDecision
    BY Zenon, <1>5, EarlyDecisionFwd
  <1>6. CASE BodyGate
    <2> DEFINE w == tx.policy.bodyEngines
               b == tx.policy.inspectBody[tx.dir] \/ w
               t == [tx EXCEPT !.bodyRequired = b, !.wafEnabled = w]
    <2>1. pc = "run" /\ stages # <<>> /\ Head(stages) = "body_gate" /\ Proceed(t, seen)
      BY Zenon, <1>6 DEF BodyGate, Running
    <2>2. phase # "body"
      BY Zenon, <2>1, RunFacts DEF BodyStageSet
    <2> HIDE DEF b, w
    <2>3. t.policy = tx.policy /\ t.inspected = tx.inspected
      BY Zenon, <2>1, RunFacts DEF TxType
    <2> HIDE DEF t
    <2>4. Alike(t, seen)
      BY Zenon, <2>1, <2>3, RunFacts DEF Alike, Known
    <2> QED
      BY Zenon, <2>1, <2>2, <2>4, ProceedFwd
  <1>7. CASE \E s \in Inspectors \cup {"guard", "decode"}, res \in {"continue", "redact", "deny", "error"} :
               Inspect(s, res)
    BY Zenon, <1>7, InspectFwd
  <1> QED
    BY <1>1, <1>2, <1>3, <1>4, <1>5, <1>6, <1>7 DEF StageStep

(* The handlers after Run. *)
LEMMA AfterFacts ==
  ASSUME SInv, FInv, pc = "ended", peer' = peer, UNCHANGED <<msg, count>>
  PROVE  /\ Shapes /\ tx \in TxType /\ seen \in SeenType /\ verdict \in Verdicts
         /\ Taken(msg) /\ Known(tx)
         /\ phase # "body" => seen.reordered \/ ~tx.inspected
         /\ phase = "body" => /\ tx.inspected /\ seen.unseen = 0
                              /\ Cut(tx) => seen.failedOpen \/ verdict = "block"
  BY DEF SInv, Types, FInv, Fwd, Shapes, Taken

LEMMA AfterPreludeFwd ==
  ASSUME SInv, FInv, peer' = peer, AfterPrelude
  PROVE  FInv'
  <1>1. pc = "ended" /\ phase = "prelude" /\ UNCHANGED <<msg, count>>
    BY Zenon DEF AfterPrelude, Ended
  <1>2. ASSUME NEW act \in {"immediate", "continue"}, Terminal(act),
               verdict = "block" \/ ~Enforcing(tx.policy)
        PROVE  FInv'
    <2> DEFINE skip == act = "continue" /\ Skip
    <2>1. act \in Acts /\ skip \in BOOLEAN
      BY Zenon DEF Acts
    <2>2. Reply(msg, Settled(tx), Finish(tx, seen, verdict), act, FALSE, skip)
      BY Zenon, <1>2 DEF Terminal
    <2>3. ~(Strict(tx, seen) /\ verdict # "block")
      BY Zenon, <1>2 DEF Strict, Blocking, Enforcing
    <2> HIDE DEF skip
    <2> QED
      BY Zenon, <1>1, <2>1, <2>2, <2>3, AfterFacts, DecidedFwd
  <1>3. CASE Enforcing(tx.policy) /\ InspectHeaders(msg, tx, seen)
    BY Zenon, <1>1, <1>3, AfterFacts, InspectHeadersFwd
  <1> QED
    BY Zenon, <1>2, <1>3 DEF AfterPrelude

LEMMA AfterHeadersFwd ==
  ASSUME SInv, FInv, peer' = peer, AfterHeaders
  PROVE  FInv'
  <1> DEFINE h == PhaseFindings(tx, seen)
  <1>1. pc = "ended" /\ phase = "headers" /\ UNCHANGED <<msg, count>>
    BY Zenon DEF AfterHeaders, Ended
  <1>2. /\ h \in SeenType /\ h.failedOpen = seen.failedOpen /\ h.reordered = seen.reordered
        /\ h.unseen = seen.unseen
    <2>1. h = seen \/ h = Audited(tx, seen, verdict)
      BY Zenon DEF PhaseFindings
    <2>2. tx \in TxType /\ seen \in SeenType /\ verdict \in Verdicts
      BY Zenon, <1>1, AfterFacts
    <2> HIDE DEF h
    <2>3. CASE h = seen
      BY Zenon, <2>2, <2>3
    <2>4. CASE h = Audited(tx, seen, verdict)
      BY Zenon, <2>2, <2>4, AuditedFacts, FinishLeaves
    <2> QED
      BY Zenon, <2>1, <2>3, <2>4
  <1>3. ASSUME NEW act \in {"immediate", "continue"}, Terminal(act),
               verdict = "block" \/ ~tx.bodyRequired
        PROVE  FInv'
    <2> DEFINE skip == act = "continue" /\ Skip
    <2>1. act \in Acts /\ skip \in BOOLEAN
      BY Zenon DEF Acts
    <2>2. Reply(msg, Settled(tx), Finish(tx, seen, verdict), act, FALSE, skip)
      BY Zenon, <1>3 DEF Terminal
    <2>3. ~(Strict(tx, seen) /\ verdict # "block")
      BY Zenon, <1>3 DEF Strict
    <2> HIDE DEF skip
    <2> QED
      BY Zenon, <1>1, <2>1, <2>2, <2>3, AfterFacts, DecidedFwd
  <1>4. \/ InspectBufferedBody(msg, tx, h, Skip)
        \/ ~msg.eos /\ Reply(msg, tx, h, "continue", TRUE, Skip)
        \/ verdict = "block" /\ Terminal("immediate")
        \/ ~tx.bodyRequired /\ Terminal("continue")
    BY Zenon DEF AfterHeaders
  <1> HIDE DEF h
  <1>5. Latched(tx, h) /\ (Strict(tx, h) => ~tx.inspected)
    BY Zenon, <1>1, <1>2, AfterFacts DEF Latched, Strict
  <1>6. Skip \in BOOLEAN /\ TRUE \in BOOLEAN /\ "continue" \in Acts
    BY Zenon DEF Skip, Acts
  <1>7. CASE InspectBufferedBody(msg, tx, h, Skip)
    BY Zenon, <1>1, <1>2, <1>5, <1>6, <1>7, AfterFacts, InspectBodyFwd
  <1>8. CASE ~msg.eos /\ Reply(msg, tx, h, "continue", TRUE, Skip)
    <2>1. ~Passes(msg, count', "continue")
      BY Zenon, <1>8 DEF Passes
    <2> QED
      BY Zenon, <1>1, <1>5, <1>6, <1>8, <2>1, AfterFacts, ReplyFwd
  <1> QED
    BY Zenon, <1>3, <1>4, <1>7, <1>8

LEMMA AfterBodyFwd ==
  ASSUME SInv, FInv, peer' = peer, AfterBody
  PROVE  FInv'
  <1> DEFINE act == BodyAct(msg, tx, verdict)
             skip == verdict # "block" /\ Skip
  <1>1. pc = "ended" /\ phase = "body" /\ UNCHANGED <<msg, count>>
    BY Zenon DEF AfterBody, Ended
  <1>2. act \in Acts /\ skip \in BOOLEAN
    BY Zenon, BodyActs
  <1>3. Reply(msg, Settled(tx), Finish(tx, seen, verdict), act, FALSE, skip)
    BY Zenon DEF AfterBody
  <1>4. Strict(tx, seen) /\ verdict # "block" => tx.inspected /\ seen.unseen = 0 /\ ~tx.truncated
    BY Zenon, <1>1, AfterFacts DEF Strict, Cut
  <1> HIDE DEF act, skip
  <1> QED
    BY Zenon, <1>1, <1>2, <1>3, <1>4, AfterFacts, DecidedFwd

LEMMA FInvStep ==
  ASSUME SInv, FInv, peer \in Peers, [Next]_vars
  PROVE  FInv'
  <1>1. CASE UNCHANGED vars
    BY Zenon, <1>1 DEF vars, FInv, Shapes, Known, Fwd, Strict, Cut, Latched, Passes
  <1>2. CASE Next
    BY Zenon, <1>2, PeerFwd, StageFwd, AfterPreludeFwd, AfterHeadersFwd, AfterBodyFwd DEF Next
  <1> QED
    BY Zenon, <1>1, <1>2

LEMMA FInvAlways == Spec => [](SInv /\ FInv /\ peer \in Peers)
  <1>1. Init => SInv /\ FInv /\ peer \in Peers
    <2> SUFFICES ASSUME Init PROVE SInv /\ FInv /\ peer \in Peers
      BY Zenon
    <2>1. stages \in Seq(Stages)
      BY DEF Init
    <2> QED
      BY Zenon, <2>1, SInvInitially, FreshFwd DEF Init
  <1>2. SInv /\ FInv /\ peer \in Peers /\ [Next]_vars => (SInv /\ FInv /\ peer \in Peers)'
    BY Zenon, SInvStep, FInvStep
  <1> QED
    BY <1>1, <1>2, PTL DEF Spec

(* Whatever the policies, the bodies and the peer: the stream, its           *)
(* transaction and its replies keep their types; in particular a pipeline    *)
(* runs only stages of the catalog, and the transaction only ever carries a  *)
(* policy of the snapshot, none, or the deny-all one.                        *)
THEOREM StreamTyped == Spec => []TypeOK
  <1>1. SInv /\ FInv /\ peer \in Peers => TypeOK
    BY Zenon DEF SInv, Types, TxType, Verdicts, FInv, Shapes, Known, MsgType, ReplyType, Acts, TypeOK
  <1> QED
    BY <1>1, FInvAlways, PTL

(* Whatever the policies, the bodies and the peer: under a blocking policy   *)
(* that asked for the body, the message that ends a direction is let through *)
(* only after a body pipeline ran on every byte received, none of them cut   *)
(* off (inspectBufferedBody, the re-opened latch, the truncation guard).     *)
THEOREM NothingSlipsBy == Spec => []ForwardedIsInspected
  <1>1. FInv => ForwardedIsInspected
    BY Zenon DEF FInv, Fwd, Strict, Passes, ForwardedIsInspected
  <1> QED
    BY <1>1, FInvAlways, PTL

-----------------------------------------------------------------------------
(* Lifecycle, for every number of listeners, streams and reloads, every set  *)
(* of configs and every answer of the key servers.                           *)
(*                                                                           *)
(* The invariant has a part for each owner of state: the snapshots, the      *)
(* engine sets with their refreshers and keys, the servers, the streams.     *)
(* The parts hang together through closed: how a snapshot was closed tells   *)
(* what its refreshers, and what the streams that pinned it, can still be.   *)

Closings == {"open", "drained", "capped", "shutdown"}

(* The snapshot being built is the newest and in nobody's hands. *)
BuildOK ==
  \/ build = NoBuild
  \/ /\ build \in [v : Attempts, next : Nat \ {0}]
     /\ build.v = attempts /\ build.v # active /\ build.v \notin retiring
     /\ closed[build.v] = "open" /\ config[build.v] \in Configs

SnapOK ==
  /\ attempts \in Nat /\ attempts <= MaxReloads
  /\ active \in Nat /\ active <= attempts
  /\ closed \in [Attempts -> Closings] /\ DOMAIN config = Attempts
  /\ \A v \in retiring : v \in Attempts /\ v <= attempts /\ v # active
  /\ \A v \in Attempts : v > attempts => closed[v] = "open"
  /\ active # Empty => closed[active] \in {"open", "shutdown"}
  /\ BuildOK

(* The engine set id was built for a policy of its snapshot, its keys are    *)
(* usable, and its refresher runs until the snapshot is closed.              *)
SetOK(id) ==
  /\ id[1] \in Attempts /\ id[1] <= attempts /\ id \in SetsOf(id[1])
  /\ keys[id] # {}
  /\ id \in running \/ closed[id[1]] # "open"

SetsOK ==
  /\ running \subseteq DOMAIN keys /\ keys = [id \in DOMAIN keys |-> keys[id]]
  /\ \A id \in DOMAIN keys : SetOK(id)
  /\ \A id \in running : Owned(id) \/ id[1] \in failed

(* Where run() is tells the state of the servers. *)
NetOK ==
  /\ main \in {"boot", "http", "serving", "drain", "flush", "returning", "exited"}
  /\ DOMAIN server = Listeners
  /\ main = "boot" => ~health
  /\ main \in {"http", "serving"} => \A l \in Listeners : server[l] = "bound"
  /\ main = "flush" => \A l \in Listeners : server[l] = "down"
  /\ \A v \in Attempts : closed[v] = "shutdown" =>
       main \in {"returning", "exited"} /\ \A l \in Listeners : server[l] = "down"

(* A stream is on a server that is up or was stopped under it, and on a      *)
(* snapshot that was not closed as drained.                                  *)
StreamOK(s) ==
  /\ stream[s] \in [on : Listeners \cup {0}, snap : Nat]
  /\ stream[s].snap <= attempts
  /\ stream[s].snap # Empty => Busy(s) /\ closed[stream[s].snap] # "drained" /\ stream[s].snap # build.v
  /\ Busy(s) => server[stream[s].on] # "down" \/ forced

StreamsOK == DOMAIN stream = Streams /\ \A s \in Streams : StreamOK(s)

LCInv == SnapOK /\ SetsOK /\ NetOK /\ StreamsOK

-----------------------------------------------------------------------------
LEMMA LCInvInitially ==
  ASSUME LCInit
  PROVE  LCInv
  <1>1. SnapOK
    BY LifecycleAssumption DEF LCInit, SnapOK, BuildOK, Closings, Empty
  <1>2. SetsOK
    BY DEF LCInit, SetsOK
  <1>3. NetOK
    BY Zenon DEF LCInit, NetOK
  <1>4. StreamsOK
    BY DEF LCInit, StreamsOK, StreamOK, Idle, Busy, Empty
  <1> QED
    BY Zenon, <1>1, <1>2, <1>3, <1>4 DEF LCInv

(* A snapshot's name is not Empty. *)
LEMMA AttemptsPositive ==
  ASSUME NEW v \in Attempts
  PROVE  v \in Nat /\ v # 0 /\ v # Empty /\ v >= 1 /\ v <= MaxReloads
  BY LifecycleAssumption DEF Attempts, Empty

-----------------------------------------------------------------------------
(* Steps that leave the snapshots alone leave the engine sets alone. *)
LEMMA SnapUnchanged ==
  ASSUME SnapOK, SetsOK, UNCHANGED snapVars
  PROVE  SnapOK' /\ SetsOK'
  <1>1. SnapOK'
    BY Zenon DEF SnapOK, BuildOK, snapVars
  <1>2. SetsOK'
    BY Zenon DEF SetsOK, SetOK, SetsOf, Owned, snapVars
  <1> QED
    BY Zenon, <1>1, <1>2

(* A step that changes no stream and no snapshot keeps the streams sound if  *)
(* a server that goes down has no stream, or is stopped by force.            *)
LEMMA StreamsUnchanged ==
  ASSUME StreamsOK, UNCHANGED <<snapVars, stream>>,
         \A l \in Listeners : server'[l] = "down" =>
           server[l] = "down" \/ forced' \/ \A s \in Streams : stream[s].on # l,
         forced => forced'
  PROVE  StreamsOK'
  <1> SUFFICES ASSUME NEW s \in Streams PROVE StreamOK(s)'
    BY Zenon DEF StreamsOK
  <1>1. StreamOK(s)
    BY Zenon DEF StreamsOK
  <1>2. stream[s].on \in Listeners \cup {0} /\ (Busy(s) => stream[s].on \in Listeners)
    BY Zenon, <1>1 DEF StreamOK, Busy
  <1>3. Busy(s) => server'[stream[s].on] # "down" \/ forced'
    BY Zenon, <1>1, <1>2 DEF StreamOK, Busy
  <1> QED
    BY Zenon, <1>1, <1>3 DEF StreamOK, Busy, snapVars

(* run() up to serving, and the servers on the way down. *)
LEMMA StartKeeps ==
  ASSUME LCInv, Bind \/ StartHTTP \/ StartWatcher
  PROVE  LCInv'
  <1>1. SnapOK' /\ SetsOK'
    BY Zenon, SnapUnchanged DEF LCInv, Bind, StartHTTP, StartWatcher
  <1>2. closed' = closed
    BY Zenon DEF Bind, StartHTTP, StartWatcher, snapVars
  <1>3. NetOK'
    <2>1. CASE Bind
      <3>1. \A v \in Attempts : closed[v] # "shutdown"
        BY Zenon, <2>1 DEF LCInv, NetOK, Bind
      <3>2. DOMAIN server' = Listeners /\ main' \in {"boot", "returning"}
        BY Zenon, <2>1 DEF LCInv, NetOK, Bind
      <3>3. ~health'
        BY Zenon, <2>1 DEF LCInv, NetOK, Bind
      <3> QED
        BY Zenon, <1>2, <3>1, <3>2, <3>3 DEF NetOK
    <2>2. CASE StartHTTP
      BY Zenon, <1>2, <2>2 DEF LCInv, NetOK, StartHTTP, Started
    <2>3. CASE StartWatcher
      BY Zenon, <1>2, <2>3 DEF LCInv, NetOK, StartWatcher, srvVars
    <2> QED
      BY Zenon, <2>1, <2>2, <2>3
  <1>4. StreamsOK'
    <2>1. \A l \in Listeners : server'[l] = "down" => server[l] = "down" \/ forced'
      BY Zenon DEF LCInv, NetOK, Bind, StartHTTP, StartWatcher, srvVars
    <2>2. forced => forced'
      BY Zenon DEF Bind, StartHTTP, StartWatcher, srvVars
    <2>3. UNCHANGED <<snapVars, stream>>
      BY Zenon DEF Bind, StartHTTP, StartWatcher
    <2> QED
      BY Zenon, <2>1, <2>2, <2>3, StreamsUnchanged DEF LCInv
  <1> QED
    BY Zenon, <1>1, <1>3, <1>4 DEF LCInv

LEMMA StopKeeps ==
  ASSUME LCInv, \/ Signal \/ WatcherStops \/ BeginShutdown \/ DrainDeadline \/ StopHTTP \/ Exit
                \/ \E l \in Listeners : ServerDown(l)
  PROVE  LCInv'
  <1>1. UNCHANGED <<snapVars, stream>>
    BY Zenon DEF Signal, WatcherStops, BeginShutdown, DrainDeadline, StopHTTP, Exit, ServerDown
  <1>2. SnapOK' /\ SetsOK' /\ closed' = closed
    BY Zenon, <1>1, SnapUnchanged DEF LCInv, snapVars
  <1>3. NetOK'
    <2>1. CASE Signal \/ WatcherStops \/ DrainDeadline
      BY <1>2, <2>1 DEF LCInv, NetOK, Signal, WatcherStops, DrainDeadline, srvVars
    <2>2. CASE BeginShutdown
      <3>1. \A v \in Attempts : closed[v] # "shutdown"
        BY Zenon, <2>2 DEF LCInv, NetOK, BeginShutdown
      <3> QED
        BY Zenon, <1>2, <2>2, <3>1 DEF NetOK, BeginShutdown
    <2>3. CASE StopHTTP
      BY Zenon, <1>2, <2>3 DEF LCInv, NetOK, StopHTTP, Drained
    <2>4. CASE Exit
      BY Zenon, <1>2, <2>4 DEF LCInv, NetOK, Exit, srvVars
    <2>5. ASSUME NEW l \in Listeners, ServerDown(l) PROVE NetOK'
      BY Zenon, <1>2, <2>5 DEF LCInv, NetOK, ServerDown
    <2> QED
      BY Zenon, <2>1, <2>2, <2>3, <2>4, <2>5
  <1>4. StreamsOK'
    <2>1. \A l \in Listeners : server'[l] = "down" =>
            server[l] = "down" \/ forced' \/ \A s \in Streams : stream[s].on # l
      BY Zenon DEF LCInv, NetOK, Signal, WatcherStops, BeginShutdown, DrainDeadline, StopHTTP, Exit, ServerDown, srvVars
    <2>2. forced => forced'
      BY Zenon DEF Signal, WatcherStops, BeginShutdown, DrainDeadline, StopHTTP, Exit, ServerDown, srvVars
    <2> QED
      BY Zenon, <1>1, <2>1, <2>2, StreamsUnchanged DEF LCInv
  <1> QED
    BY Zenon, <1>2, <1>3, <1>4 DEF LCInv

(* A stream comes and goes. *)
LEMMA StreamKeeps ==
  ASSUME LCInv, NEW s \in Streams, Accept(s) \/ StreamReturns(s)
  PROVE  LCInv'
  <1>1. UNCHANGED <<main, srvVars, snapVars>>
    BY Zenon DEF Accept, StreamReturns
  <1>2. SnapOK' /\ SetsOK'
    BY Zenon, <1>1, SnapUnchanged DEF LCInv
  <1>3. NetOK'
    BY Zenon, <1>1 DEF LCInv, NetOK, srvVars, snapVars
  <1>4. DOMAIN stream' = Streams
    BY Zenon DEF LCInv, StreamsOK, Accept, StreamReturns
  <1>5. ASSUME NEW t \in Streams PROVE StreamOK(t)'
    <2>1. StreamOK(t)
      BY Zenon DEF LCInv, StreamsOK
    <2>2. CASE stream'[t] = stream[t]
      BY Zenon, <1>1, <2>1, <2>2 DEF StreamOK, Busy, srvVars, snapVars
    <2>3. CASE stream'[t] = Idle
      BY <1>1, <2>3, LifecycleAssumption DEF LCInv, SnapOK, StreamOK, Busy, Idle, Empty, srvVars, snapVars
    <2>4. ASSUME NEW l \in Listeners, server[l] = "bound", stream'[t] = [on |-> l, snap |-> active]
          PROVE  StreamOK(t)'
      <3>1. active \in Nat /\ active <= attempts /\ (active # Empty => closed[active] # "drained")
        BY Zenon DEF LCInv, SnapOK
      <3>2. active # Empty => active # build.v
        BY DEF LCInv, SnapOK, BuildOK, NoBuild
      <3>3. stream'[t].on = l /\ stream'[t].snap = active /\ l # 0
        BY <2>4, LifecycleAssumption
      <3> QED
        BY Zenon, <1>1, <2>4, <3>1, <3>2, <3>3 DEF StreamOK, Busy, srvVars, snapVars
    <2> QED
      BY Zenon, <2>2, <2>3, <2>4 DEF LCInv, StreamsOK, Accept, StreamReturns
  <1> QED
    BY Zenon, <1>2, <1>3, <1>4, <1>5 DEF LCInv, StreamsOK

-----------------------------------------------------------------------------
(* A reload takes the next name, which nothing else knows yet. *)
LEMMA StartReloadKeeps ==
  ASSUME LCInv, StartReload
  PROVE  LCInv'
  <1> DEFINE n == attempts + 1
  <1>1. PICK c \in Configs : config' = [config EXCEPT ![n] = c]
    BY Zenon DEF StartReload
  <1>2. /\ attempts' = n /\ build' = [v |-> n, next |-> 1] /\ build = NoBuild /\ attempts < MaxReloads
        /\ UNCHANGED <<main, srvVars, active, failed, retiring, closed, sets, running, keys, stream>>
    BY Zenon DEF StartReload
  <1>3. attempts \in Nat /\ n \in Attempts /\ n # 0
    BY <1>2, LifecycleAssumption DEF LCInv, SnapOK, Attempts
  <1>4. DOMAIN config = Attempts /\ config'[n] = c /\ \A v \in Attempts : v # n => config'[v] = config[v]
    BY Zenon, <1>1, <1>3 DEF LCInv, SnapOK
  <1>5. SnapOK'
    <2>1. closed[n] = "open" /\ n # active /\ n \notin retiring
      BY <1>3 DEF LCInv, SnapOK
    <2>2. BuildOK'
      BY <1>2, <1>3, <1>4, <2>1 DEF BuildOK
    <2>3. attempts' \in Nat /\ attempts' <= MaxReloads /\ active' <= attempts'
      BY <1>2, <1>3, LifecycleAssumption DEF LCInv, SnapOK
    <2>4. DOMAIN config' = Attempts
      BY Zenon, <1>1, <1>4
    <2>5. \A v \in retiring : v \in Attempts /\ v <= attempts' /\ v # active
      BY <1>2, <1>3, AttemptsPositive DEF LCInv, SnapOK
    <2>6. \A v \in Attempts : v > attempts' => closed[v] = "open"
      BY <1>2, <1>3, AttemptsPositive DEF LCInv, SnapOK
    <2> QED
      BY Zenon, <1>2, <2>2, <2>3, <2>4, <2>5, <2>6 DEF LCInv, SnapOK
  <1>6. ASSUME NEW id \in DOMAIN keys
        PROVE  SetOK(id)' /\ id[1] \in Attempts /\ id[1] # n
    <2>1. SetOK(id)
      BY Zenon DEF LCInv, SetsOK
    <2>2. id[1] \in Attempts /\ id[1] \in Nat /\ id[1] <= attempts
      BY Zenon, <2>1, AttemptsPositive DEF SetOK
    <2>3. id[1] # n /\ id[1] <= n
      BY <1>3, <2>2
    <2>4. config'[id[1]] = config[id[1]]
      BY Zenon, <1>4, <2>2, <2>3
    <2> QED
      BY Zenon, <1>2, <2>1, <2>3, <2>2, <2>4 DEF SetOK, SetsOf
  <1>7. SetsOK'
    <2>1. ASSUME NEW id \in running PROVE Owned(id)' \/ id[1] \in failed
      <3>1. id \in DOMAIN keys /\ (Owned(id) \/ id[1] \in failed)
        BY Zenon DEF LCInv, SetsOK
      <3>2. id[1] # build.v
        BY Zenon, <1>2, <1>6, <3>1, AttemptsPositive DEF NoBuild, Empty
      <3> QED
        BY Zenon, <1>2, <3>1, <3>2 DEF Owned
    <2> QED
      BY Zenon, <1>2, <1>6, <2>1 DEF LCInv, SetsOK
  <1>8. NetOK'
    BY Zenon, <1>2 DEF LCInv, NetOK, srvVars
  <1>9. StreamsOK'
    <2> SUFFICES ASSUME NEW s \in Streams PROVE StreamOK(s)'
      BY Zenon, <1>2 DEF LCInv, StreamsOK
    <2>1. StreamOK(s)
      BY Zenon DEF LCInv, StreamsOK
    <2>2. stream[s].snap \in Nat /\ stream[s].snap <= n /\ stream[s].snap # n
      BY <1>3, <2>1 DEF StreamOK
    <2> QED
      BY Zenon, <1>2, <2>1, <2>2 DEF StreamOK, Busy, srvVars
  <1> QED
    BY Zenon, <1>5, <1>7, <1>8, <1>9 DEF LCInv

(* What one step of a compile can do to the engine sets. *)
LEMMA CompileFacts ==
  ASSUME LCInv, CompileNext
  PROVE  /\ build \in [v : Attempts, next : Nat \ {0}] /\ build.v = attempts
         /\ closed[build.v] = "open" /\ build.v # active /\ build.v \notin retiring
         /\ UNCHANGED <<main, srvVars, attempts, active, config, retiring, closed, stream>>
         /\ \/ build' = [build EXCEPT !.next = @ + 1] /\ failed' = failed
            \/ build' = NoBuild /\ failed' = failed \cup {build.v}
         /\ \/ running' = running /\ keys' = keys
            \/ \E id, loaded :
                 /\ id[1] = build.v /\ id \in SetsOf(build.v) /\ loaded # {}
                 /\ running' = running \cup {id}
                 /\ keys' = [x \in DOMAIN keys \cup {id} |-> IF x = id THEN loaded ELSE keys[x]]
  <1> DEFINE c == config[build.v]
             sp == c.policies[build.next]
             id == <<build.v, sp>>
  <1>1. /\ build \in [v : Attempts, next : Nat \ {0}] /\ build.v = attempts
        /\ closed[build.v] = "open" /\ build.v # active /\ build.v \notin retiring
        /\ c \in Configs
    BY Zenon DEF LCInv, SnapOK, BuildOK, CompileNext
  <1>2. UNCHANGED <<main, srvVars, attempts, active, config, retiring, closed, stream>>
    BY Zenon DEF CompileNext
  <1>3. build.next <= Len(c.policies)
    BY Zenon DEF CompileNext
  <1>4. sp \in Range(c.policies)
    <2>1. Len(c.policies) \in Nat /\ DOMAIN c.policies = 1..Len(c.policies)
      BY Zenon, <1>1, LifecycleAssumption
    <2>2. build.next \in Nat \ {0}
      BY Zenon, <1>1
    <2>3. build.next \in DOMAIN c.policies
      BY <1>3, <2>1, <2>2
    <2> QED
      BY Zenon, <2>3 DEF Range
  <1>5. CASE sp = NoSpec \/ id \in sets
    BY Zenon, <1>1, <1>2, <1>5 DEF CompileNext
  <1>6. CASE sp # NoSpec /\ id \notin sets
    <2>1. id \in SetsOf(build.v) /\ id[1] = build.v
      BY Zenon, <1>4, <1>6 DEF SetsOf
    <2> DEFINE es == c.engines[sp]
               refresher(loaded) == \E i \in Built(es, loaded) : es[i] = "jwks"
    <2>2. PICK doc \in Documents :
            LET loaded == LoadKeys(doc)
            IN  /\ running' = IF refresher(loaded) THEN running \cup {id} ELSE running
                /\ keys' = IF refresher(loaded)
                             THEN [x \in DOMAIN keys \cup {id} |-> IF x = id THEN loaded ELSE keys[x]]
                             ELSE keys
                /\ \/ build' = [build EXCEPT !.next = @ + 1] /\ failed' = failed
                   \/ build' = NoBuild /\ failed' = failed \cup {build.v}
      BY Zenon, <1>6 DEF CompileNext, EndReload
    <2> DEFINE loaded == LoadKeys(doc)
    <2>3. refresher(loaded) => loaded # {}
      <3> SUFFICES ASSUME NEW i \in Built(es, loaded), es[i] = "jwks", loaded = {} PROVE FALSE
        BY Zenon
      <3>1. \A j \in 1..i : ~Fails(es[j], loaded)
        BY Zenon DEF Built
      <3>2. i \in 1..i
        <4>1. DOMAIN es \subseteq Nat \ {0}
          BY Zenon, <1>1, <1>4, <1>6, LifecycleAssumption
        <4>2. i \in DOMAIN es
          BY Zenon DEF Built
        <4> HIDE DEF es
        <4>3. i \in Nat /\ i # 0
          BY Zenon, <4>1, <4>2
        <4> QED
          BY <4>3
      <3> QED
        BY Zenon, <3>1, <3>2 DEF Fails
    <2> QED
      BY Zenon, <1>1, <1>2, <2>1, <2>2, <2>3
  <1> QED
    BY Zenon, <1>5, <1>6

LEMMA CompileKeeps ==
  ASSUME LCInv, CompileNext
  PROVE  LCInv'
  <1>1. /\ build \in [v : Attempts, next : Nat \ {0}] /\ build.v = attempts
        /\ closed[build.v] = "open" /\ build.v # active /\ build.v \notin retiring
    BY Zenon, CompileFacts
  <1>2. UNCHANGED <<main, srvVars, attempts, active, config, retiring, closed, stream>>
    BY Zenon, CompileFacts
  <1>3. \/ build' = [build EXCEPT !.next = @ + 1] /\ failed' = failed
        \/ build' = NoBuild /\ failed' = failed \cup {build.v}
    BY Zenon, CompileFacts
  <1>4. \/ running' = running /\ keys' = keys
        \/ \E id, loaded :
             /\ id[1] = build.v /\ id \in SetsOf(build.v) /\ loaded # {}
             /\ running' = running \cup {id}
             /\ keys' = [x \in DOMAIN keys \cup {id} |-> IF x = id THEN loaded ELSE keys[x]]
    BY Zenon, CompileFacts
  <1>5. \/ build' \in [v : Attempts, next : Nat \ {0}] /\ build'.v = build.v /\ failed' = failed
        \/ build' = NoBuild /\ failed' = failed \cup {build.v}
    BY <1>1, <1>3
  <1>6. SnapOK'
    <2>1. BuildOK
      BY Zenon DEF LCInv, SnapOK
    <2>2. build # NoBuild
      BY <1>1, AttemptsPositive DEF NoBuild, Empty
    <2>3. BuildOK'
      BY Zenon, <1>2, <1>5, <2>1, <2>2 DEF BuildOK
    <2> QED
      BY Zenon, <1>2, <2>3 DEF LCInv, SnapOK
  <1>7. ASSUME NEW x \in DOMAIN keys, x \in DOMAIN keys', keys'[x] = keys[x], running \subseteq running'
        PROVE  SetOK(x)'
    <2>1. SetOK(x)
      BY Zenon DEF LCInv, SetsOK
    <2> QED
      BY Zenon, <1>2, <1>7, <2>1 DEF SetOK, SetsOf
  <1>8. ASSUME NEW x \in running' , x \in running \/ x[1] = build.v
        PROVE  Owned(x)' \/ x[1] \in failed'
    <2>1. CASE x[1] = build.v
      BY Zenon, <1>5, <2>1 DEF Owned
    <2>2. CASE x \in running /\ x[1] # build.v
      <3>1. Owned(x) \/ x[1] \in failed
        BY Zenon, <2>2 DEF LCInv, SetsOK
      <3> QED
        BY Zenon, <1>2, <1>5, <2>2, <3>1 DEF Owned
    <2> QED
      BY Zenon, <1>8, <2>1, <2>2
  <1>9. SetsOK'
    <2>1. CASE running' = running /\ keys' = keys
      <3>1. \A x \in DOMAIN keys' : SetOK(x)'
        BY Zenon, <1>7, <2>1
      <3>2. \A x \in running' : Owned(x)' \/ x[1] \in failed'
        BY Zenon, <1>8, <2>1
      <3> QED
        BY Zenon, <2>1, <3>1, <3>2 DEF LCInv, SetsOK
    <2>2. ASSUME NEW id, NEW loaded,
                 id[1] = build.v, id \in SetsOf(build.v), loaded # {},
                 running' = running \cup {id},
                 keys' = [x \in DOMAIN keys \cup {id} |-> IF x = id THEN loaded ELSE keys[x]]
          PROVE  SetsOK'
      <3>1. DOMAIN keys' = DOMAIN keys \cup {id} /\ keys'[id] = loaded
        BY Zenon, <2>2
      <3>2. SetOK(id)'
        BY <1>1, <1>2, <2>2, <3>1, AttemptsPositive DEF SetOK, SetsOf
      <3>3. ASSUME NEW x \in DOMAIN keys' PROVE SetOK(x)'
        <4>1. CASE x = id
          BY Zenon, <3>2, <4>1
        <4>2. CASE x # id
          BY Zenon, <1>7, <2>2, <3>1, <4>2
        <4> QED
          BY Zenon, <4>1, <4>2
      <3>4. \A x \in running' : Owned(x)' \/ x[1] \in failed'
        BY Zenon, <1>8, <2>2
      <3>5. running' \subseteq DOMAIN keys'
        BY Zenon, <2>2, <3>1 DEF LCInv, SetsOK
      <3>6. keys' = [x \in DOMAIN keys' |-> keys'[x]]
        BY Zenon, <2>2
      <3> QED
        BY Zenon, <3>3, <3>4, <3>5, <3>6 DEF SetsOK
    <2> QED
      BY Zenon, <1>4, <2>1, <2>2
  <1>10. NetOK'
    BY Zenon, <1>2 DEF LCInv, NetOK, srvVars
  <1>11. StreamsOK'
    <2> SUFFICES ASSUME NEW s \in Streams PROVE StreamOK(s)'
      BY Zenon, <1>2 DEF LCInv, StreamsOK
    <2>1. StreamOK(s)
      BY Zenon DEF LCInv, StreamsOK
    <2>2. build'.v = build.v \/ build'.v = Empty
      BY <1>5 DEF NoBuild
    <2> QED
      BY Zenon, <1>2, <2>1, <2>2 DEF StreamOK, Busy, srvVars
  <1> QED
    BY Zenon, <1>6, <1>9, <1>10, <1>11 DEF LCInv

(* The compiled snapshot becomes active and the old one is retired. *)
LEMMA SwapKeeps ==
  ASSUME LCInv, Swap
  PROVE  LCInv'
  <1>1. /\ build \in [v : Attempts, next : Nat \ {0}] /\ build.v = attempts
        /\ closed[build.v] = "open" /\ build.v # active /\ build.v \notin retiring
    BY Zenon DEF LCInv, SnapOK, BuildOK, Swap
  <1>2. /\ active' = build.v /\ build' = NoBuild
        /\ retiring' = IF active = Empty THEN retiring ELSE retiring \cup {active}
        /\ UNCHANGED <<main, srvVars, attempts, config, failed, closed, sets, running, keys, stream>>
    BY Zenon DEF Swap, EndReload
  <1>3. build.v \in Attempts /\ build.v \in Nat /\ build.v # 0
    BY Zenon, <1>1, AttemptsPositive
  <1>4. SnapOK'
    <2>1. active # Empty => active \in Attempts
      BY LifecycleAssumption DEF LCInv, SnapOK, Attempts, Empty
    <2>2. \A v \in retiring' : v \in Attempts /\ v <= attempts /\ v # active'
      BY Zenon, <1>1, <1>2, <2>1 DEF LCInv, SnapOK
    <2>3. active' \in Nat /\ active' <= attempts
      BY <1>1, <1>2, <1>3
    <2> QED
      BY Zenon, <1>1, <1>2, <2>2, <2>3 DEF LCInv, SnapOK, BuildOK
  <1>5. SetsOK'
    <2>1. ASSUME NEW id \in DOMAIN keys PROVE SetOK(id)'
      BY Zenon, <1>2 DEF LCInv, SetsOK, SetOK, SetsOf
    <2>2. ASSUME NEW id \in running PROVE Owned(id)' \/ id[1] \in failed
      <3>1. id[1] \in Attempts /\ id[1] # Empty
        BY Zenon, AttemptsPositive DEF LCInv, SetsOK, SetOK
      <3>2. Owned(id) \/ id[1] \in failed
        BY Zenon DEF LCInv, SetsOK
      <3> QED
        BY Zenon, <1>1, <1>2, <3>1, <3>2 DEF Owned
    <2> QED
      BY Zenon, <1>2, <2>1, <2>2 DEF LCInv, SetsOK
  <1>6. NetOK'
    BY Zenon, <1>2 DEF LCInv, NetOK, srvVars
  <1>7. StreamsOK'
    <2> SUFFICES ASSUME NEW s \in Streams PROVE StreamOK(s)'
      BY Zenon, <1>2 DEF LCInv, StreamsOK
    <2>1. StreamOK(s)
      BY Zenon DEF LCInv, StreamsOK
    <2> QED
      BY Zenon, <1>2, <2>1 DEF StreamOK, Busy, NoBuild, srvVars
  <1> QED
    BY Zenon, <1>4, <1>5, <1>6, <1>7 DEF LCInv

(* A refresh never leaves an engine without keys. *)
LEMMA RefreshKeeps ==
  ASSUME LCInv, NEW id \in running, Refresh(id)
  PROVE  LCInv'
  <1>1. /\ UNCHANGED <<main, srvVars, attempts, build, active, config, failed, retiring, closed, sets,
                       running, stream>>
    BY Zenon DEF Refresh
  <1>2. PICK loaded : keys' = Refreshed(id, loaded)
    BY Zenon DEF Refresh
  <1>3. /\ DOMAIN keys' = DOMAIN keys /\ keys' = [x \in DOMAIN keys' |-> keys'[x]]
        /\ \A x \in DOMAIN keys : keys'[x] = keys[x] \/ keys'[x] # {}
    BY Zenon, <1>2 DEF Refreshed, LCInv, SetsOK
  <1>4. SnapOK'
    BY Zenon, <1>1 DEF LCInv, SnapOK, BuildOK
  <1>5. SetsOK'
    <2>1. ASSUME NEW x \in DOMAIN keys PROVE SetOK(x)'
      BY Zenon, <1>1, <1>3 DEF LCInv, SetsOK, SetOK, SetsOf
    <2>2. \A x \in running : Owned(x)' \/ x[1] \in failed
      BY Zenon, <1>1 DEF LCInv, SetsOK, Owned
    <2> QED
      BY Zenon, <1>1, <1>3, <2>1, <2>2 DEF LCInv, SetsOK
  <1>6. NetOK'
    BY Zenon, <1>1 DEF LCInv, NetOK, srvVars
  <1>7. StreamsOK'
    BY Zenon, <1>1 DEF LCInv, StreamsOK, StreamOK, Busy, srvVars
  <1> QED
    BY Zenon, <1>4, <1>5, <1>6, <1>7 DEF LCInv

-----------------------------------------------------------------------------
(* Closing a snapshot ends all of its refreshers and no other. *)
LEMMA CloseKeepsSets ==
  ASSUME LCInv, NEW v \in Attempts, NEW how \in {"drained", "capped", "shutdown"},
         CloseSnapshot(v, how), retiring \ {v} \subseteq retiring',
         UNCHANGED <<attempts, build, active, config, failed, keys>>
  PROVE  SetsOK'
  <1>1. /\ DOMAIN closed' = Attempts /\ closed'[v] # "open"
        /\ \A w \in Attempts : w # v => closed'[w] = closed[w]
    BY Zenon DEF CloseSnapshot, LCInv, SnapOK
  <1>2. running' = running \ SetsOf(v)
    BY Zenon DEF CloseSnapshot, SetsClosed
  <1>3. ASSUME NEW id \in DOMAIN keys
        PROVE  /\ id[1] \in Attempts /\ (id \in SetsOf(v) => id[1] = v)
               /\ (id[1] = v => id \in SetsOf(v)) /\ SetOK(id)'
    <2>1. SetOK(id)
      BY Zenon DEF LCInv, SetsOK
    <2>2. id \in SetsOf(v) => id[1] = v
      BY DEF SetsOf
    <2>3. id[1] \in Attempts /\ (id[1] = v => id \in SetsOf(v))
      BY Zenon, <2>1 DEF SetOK
    <2>4. id \in running' \/ closed'[id[1]] # "open"
      BY Zenon, <1>1, <1>2, <2>1, <2>2, <2>3 DEF SetOK
    <2> QED
      BY Zenon, <2>1, <2>2, <2>3, <2>4 DEF SetOK, SetsOf
  <1>4. ASSUME NEW id \in running' PROVE Owned(id)' \/ id[1] \in failed
    <2>1. id \in running /\ id \in DOMAIN keys /\ id[1] # v /\ id[1] \in Attempts
      BY Zenon, <1>2, <1>3, <1>4 DEF LCInv, SetsOK
    <2>2. Owned(id) \/ id[1] \in failed
      BY Zenon, <2>1 DEF LCInv, SetsOK
    <2> QED
      BY Zenon, <1>1, <2>1, <2>2 DEF Owned
  <1>5. running' \subseteq DOMAIN keys'
    BY Zenon, <1>2 DEF LCInv, SetsOK
  <1> QED
    BY Zenon, <1>3, <1>4, <1>5 DEF LCInv, SetsOK

(* The retirer closes what no stream holds, or gives up waiting. *)
LEMMA RetireKeeps ==
  ASSUME LCInv, NEW v \in Attempts, Retire(v)
  PROVE  LCInv'
  <1>1. /\ v \in retiring /\ retiring' = retiring \ {v}
        /\ UNCHANGED <<main, srvVars, attempts, build, active, config, failed, sets, keys, stream>>
    BY Zenon DEF Retire
  <1>2. PICK how \in {"drained", "capped"} :
          CloseSnapshot(v, how) /\ (how = "drained" => \A s \in Streams : stream[s].snap # v)
    BY Zenon DEF Retire
  <1>3. SetsOK'
    BY Zenon, <1>1, <1>2, CloseKeepsSets
  <1>4. v # active /\ v <= attempts /\ v \in Nat
    BY Zenon, <1>1, AttemptsPositive DEF LCInv, SnapOK
  <1>5. closed' = [closed EXCEPT ![v] = IF @ = "open" THEN how ELSE @]
    BY Zenon, <1>2 DEF CloseSnapshot
  <1>6. /\ closed' \in [Attempts -> Closings] /\ \A w \in Attempts : w # v => closed'[w] = closed[w]
        /\ (closed'[v] = "drained" => closed[v] = "drained" \/ how = "drained")
        /\ (closed'[v] = "shutdown" => closed[v] = "shutdown")
    BY Zenon, <1>5 DEF LCInv, SnapOK, Closings
  <1>7. build # NoBuild => build.v # v /\ build.v \in Attempts
    BY Zenon, <1>1 DEF LCInv, SnapOK, BuildOK
  <1>8. SnapOK'
    <2>1. BuildOK'
      BY Zenon, <1>1, <1>6, <1>7 DEF LCInv, SnapOK, BuildOK
    <2>2. \A w \in Attempts : w > attempts => closed'[w] = "open"
      BY <1>4, <1>6 DEF LCInv, SnapOK
    <2>3. active # Empty => closed'[active] \in {"open", "shutdown"}
      <3>1. active # Empty => active \in Attempts
        BY LifecycleAssumption DEF LCInv, SnapOK, Attempts, Empty
      <3> QED
        BY Zenon, <1>4, <1>6, <3>1 DEF LCInv, SnapOK
    <2> QED
      BY Zenon, <1>1, <1>6, <2>1, <2>2, <2>3 DEF LCInv, SnapOK
  <1>9. NetOK'
    BY Zenon, <1>1, <1>6 DEF LCInv, NetOK, srvVars
  <1>10. StreamsOK'
    <2> SUFFICES ASSUME NEW s \in Streams PROVE StreamOK(s)'
      BY Zenon, <1>1 DEF LCInv, StreamsOK
    <2>1. StreamOK(s)
      BY Zenon DEF LCInv, StreamsOK
    <2>2. stream[s].snap # Empty => stream[s].snap \in Attempts
      BY <2>1, LifecycleAssumption DEF StreamOK, LCInv, SnapOK, Attempts, Empty
    <2>3. stream[s].snap # Empty => closed'[stream[s].snap] # "drained"
      BY Zenon, <1>2, <1>6, <2>1, <2>2 DEF StreamOK
    <2> QED
      BY Zenon, <1>1, <2>1, <2>3 DEF StreamOK, Busy, srvVars
  <1> QED
    BY Zenon, <1>3, <1>8, <1>9, <1>10 DEF LCInv

(* At shutdown run() closes the active snapshot, its servers down. *)
LEMMA CloseActiveKeeps ==
  ASSUME LCInv, CloseActive
  PROVE  LCInv'
  <1>1. /\ main = "flush" /\ main' = "returning"
        /\ UNCHANGED <<srvVars, attempts, build, active, config, failed, retiring, sets, keys, stream>>
    BY Zenon DEF CloseActive
  <1>2. \A l \in Listeners : server'[l] = "down"
    BY Zenon, <1>1 DEF LCInv, NetOK, srvVars
  <1>3. CASE active = Empty
    <2>1. UNCHANGED <<closed, running>>
      BY Zenon, <1>3 DEF CloseActive
    <2>2. SnapOK' /\ SetsOK'
      BY Zenon, <1>1, <2>1, SnapUnchanged DEF LCInv, snapVars
    <2>3. NetOK'
      BY Zenon, <1>1, <1>2, <2>1 DEF LCInv, NetOK, srvVars
    <2>4. StreamsOK'
      BY Zenon, <1>1, <2>1 DEF LCInv, StreamsOK, StreamOK, Busy, srvVars
    <2> QED
      BY Zenon, <2>2, <2>3, <2>4 DEF LCInv
  <1>4. CASE active # Empty
    <2>1. active \in Attempts /\ active <= attempts
      BY <1>4, LifecycleAssumption DEF LCInv, SnapOK, Attempts, Empty
    <2>2. CloseSnapshot(active, "shutdown")
      BY Zenon, <1>4 DEF CloseActive
    <2>3. PICK v \in Attempts : v = active
      BY Zenon, <2>1
    <2>4. CloseSnapshot(v, "shutdown")
      BY Zenon, <2>2, <2>3
    <2>5. SetsOK'
      BY Zenon, <1>1, <2>4, CloseKeepsSets
    <2>6. /\ closed' \in [Attempts -> Closings] /\ \A w \in Attempts : w # v => closed'[w] = closed[w]
          /\ closed'[v] = "shutdown"
      BY Zenon, <1>4, <2>3, <2>4 DEF CloseSnapshot, LCInv, SnapOK, Closings
    <2>7. build # NoBuild => build.v # v /\ build.v \in Attempts
      BY Zenon, <2>3 DEF LCInv, SnapOK, BuildOK
    <2>8. SnapOK'
      <3>1. BuildOK'
        BY Zenon, <1>1, <2>6, <2>7 DEF LCInv, SnapOK, BuildOK
      <3>2. \A w \in Attempts : w > attempts => closed'[w] = "open"
        BY <2>1, <2>3, <2>6, AttemptsPositive DEF LCInv, SnapOK
      <3> QED
        BY Zenon, <1>1, <2>3, <2>6, <3>1, <3>2 DEF LCInv, SnapOK
    <2>9. NetOK'
      BY Zenon, <1>1, <1>2, <2>6 DEF LCInv, NetOK, srvVars
    <2>10. StreamsOK'
      <3> SUFFICES ASSUME NEW s \in Streams PROVE StreamOK(s)'
        BY Zenon, <1>1 DEF LCInv, StreamsOK
      <3>1. StreamOK(s)
        BY Zenon DEF LCInv, StreamsOK
      <3>2. stream[s].snap # Empty => stream[s].snap \in Attempts
        BY <3>1, LifecycleAssumption DEF StreamOK, LCInv, SnapOK, Attempts, Empty
      <3>3. stream[s].snap # Empty => closed'[stream[s].snap] # "drained"
        BY Zenon, <2>6, <3>1, <3>2 DEF StreamOK
      <3> QED
        BY Zenon, <1>1, <3>1, <3>3 DEF StreamOK, Busy, srvVars
    <2> QED
      BY Zenon, <2>5, <2>8, <2>9, <2>10 DEF LCInv
  <1> QED
    BY Zenon, <1>3, <1>4

-----------------------------------------------------------------------------
LEMMA LCInvKept ==
  ASSUME LCInv, [LCNext]_lcvars
  PROVE  LCInv'
  <1>1. CASE UNCHANGED lcvars
    <2>1. UNCHANGED <<main, srvVars, snapVars, stream>>
      BY Zenon, <1>1 DEF lcvars
    <2>2. SnapOK' /\ SetsOK'
      BY Zenon, <2>1, SnapUnchanged DEF LCInv
    <2>3. NetOK' /\ StreamsOK'
      BY Zenon, <2>1 DEF LCInv, NetOK, StreamsOK, StreamOK, Busy, srvVars, snapVars
    <2> QED
      BY Zenon, <2>2, <2>3 DEF LCInv
  <1>2. CASE Bind \/ StartHTTP \/ StartWatcher
    BY Zenon, <1>2, StartKeeps
  <1>3. CASE StartReload
    BY Zenon, <1>3, StartReloadKeeps
  <1>4. CASE CompileNext
    BY Zenon, <1>4, CompileKeeps
  <1>5. CASE Swap
    BY Zenon, <1>5, SwapKeeps
  <1>6. CASE \/ Signal \/ WatcherStops \/ BeginShutdown \/ DrainDeadline \/ StopHTTP \/ Exit
             \/ \E l \in Listeners : ServerDown(l)
    BY Zenon, <1>6, StopKeeps
  <1>7. CASE CloseActive
    BY Zenon, <1>7, CloseActiveKeeps
  <1>8. CASE \E v \in Attempts : Retire(v)
    BY Zenon, <1>8, RetireKeeps
  <1>9. CASE \E id \in running : Refresh(id)
    BY Zenon, <1>9, RefreshKeeps
  <1>10. CASE \E s \in Streams : Accept(s) \/ StreamReturns(s)
    BY Zenon, <1>10, StreamKeeps
  <1> QED
    BY Zenon, <1>1, <1>2, <1>3, <1>4, <1>5, <1>6, <1>7, <1>8, <1>9, <1>10 DEF LCNext, MainStep, ReloadStep

LEMMA LCInvHolds == LCSpec => []LCInv
  <1>1. LCInit => LCInv
    BY Zenon, LCInvInitially
  <1>2. LCInv /\ [LCNext]_lcvars => LCInv'
    BY Zenon, LCInvKept
  <1> QED
    BY <1>1, <1>2, PTL DEF LCSpec

(* Nothing takes the engines away under a stream except the retirer's cap    *)
(* and, at shutdown, a drain that ran out of time: Manager.Shutdown returns  *)
(* before store.Load().Close(), and Server.Shutdown waits or forces.         *)
THEOREM EnginesServe == LCSpec => []EnginesServeStreams
  <1>1. LCInv => EnginesServeStreams
    <2> SUFFICES ASSUME LCInv, NEW s \in Streams, Busy(s), stream[s].snap # Empty,
                        NEW id \in SetsOf(stream[s].snap) \cap DOMAIN keys
                 PROVE  /\ keys[id] # {}
                        /\ \/ id \in running
                           \/ closed[stream[s].snap] = "capped"
                           \/ closed[stream[s].snap] = "shutdown" /\ forced
      BY Zenon DEF EnginesServeStreams
    <2>1. id[1] = stream[s].snap
      BY DEF SetsOf
    <2>2. SetOK(id) /\ StreamOK(s)
      BY Zenon DEF LCInv, SetsOK, StreamsOK
    <2>3. closed[id[1]] \in Closings /\ id[1] \in Attempts
      BY Zenon, <2>2 DEF LCInv, SnapOK, SetOK
    <2>4. closed[id[1]] # "drained"
      BY Zenon, <2>1, <2>2 DEF StreamOK
    <2>5. closed[id[1]] = "shutdown" => forced
      <3>1. stream[s].on \in Listeners
        BY Zenon, <2>2 DEF StreamOK, Busy
      <3>2. closed[id[1]] = "shutdown" => server[stream[s].on] = "down"
        BY Zenon, <2>3, <3>1 DEF LCInv, NetOK
      <3> QED
        BY Zenon, <2>2, <3>2 DEF StreamOK
    <2> QED
      BY Zenon, <2>1, <2>2, <2>3, <2>4, <2>5 DEF SetOK, Closings
  <1> QED
    BY <1>1, LCInvHolds, PTL

(* A refresher that runs belongs to an open snapshot, to the compile in      *)
(* progress, or to a compile that failed half-way: Resolver.Close reaches    *)
(* every engine set its policies share.                                      *)
THEOREM RefreshersHaveOwners == LCSpec => []RefreshersOwned
  <1>1. LCInv => RefreshersOwned
    BY Zenon DEF LCInv, SetsOK, RefreshersOwned
  <1> QED
    BY <1>1, LCInvHolds, PTL

(* /readyz says ready only with every listener bound, or on the way out:     *)
(* main starts the health server after Manager.Start succeeded.              *)
THEOREM ReadyMeansServing == LCSpec => []ReadyIsServing
  <1>1. LCInv => ReadyIsServing
    BY Zenon DEF LCInv, NetOK, ReadyIsServing, Alive
  <1> QED
    BY <1>1, LCInvHolds, PTL

-----------------------------------------------------------------------------
(* ConfigReload, for every number of files, every set of hosts and any number *)
(* of changes by the agent.  Type correctness, the validity of what is served *)
(* and the watcher's bookkeeping are inductive together; that the directory  *)
(* is served in the end is a liveness property and left to the model checker. *)

(* The types, in three parts. *)
AgentTypes ==
  /\ disk \in Scans /\ dirUp \in BOOLEAN /\ changes \in 0..MaxChanges
  /\ watched \in BOOLEAN /\ fileEv \in BOOLEAN /\ dirEv \in BOOLEAN

WatchTypes ==
  /\ due \in BOOLEAN /\ pending \in BOOLEAN
  /\ timer \in {"off", "armed", "fired"}
  /\ at \in {"ensure", "rewatch", "select", "list", "read"} /\ booted \in BOOLEAN

ScanTypes ==
  /\ todo \subseteq Files /\ got \in Scans
  /\ activeConfig \in Scans \cup {NoConfig} /\ lastError \in BOOLEAN

LEMMA TypesSplit == CRTypeOK <=> AgentTypes /\ WatchTypes /\ ScanTypes
  BY Zenon DEF CRTypeOK, AgentTypes, WatchTypes, ScanTypes

LEMMA NoFilesIsScan == NoFiles \in Scans
  BY Zenon DEF NoFiles, Scans, Contents

-----------------------------------------------------------------------------
LEMMA TypesInitially ==
  ASSUME CRInit
  PROVE  CRTypeOK
  <1>1. AgentTypes
    <2>1. 0 \in 0..MaxChanges
      BY ReloadAssumption
    <2> QED
      BY Zenon, <2>1 DEF CRInit, AgentTypes
  <1>2. WatchTypes
    BY Zenon DEF CRInit, WatchTypes
  <1>3. ScanTypes
    BY Zenon, NoFilesIsScan DEF CRInit, ScanTypes
  <1> QED
    BY Zenon, <1>1, <1>2, <1>3, TypesSplit

(* The agent counts its steps, and changes nothing of the process. *)
LEMMA ChangeTypes ==
  ASSUME CRTypeOK, Change
  PROVE  changes' \in 0..MaxChanges /\ WatchTypes' /\ ScanTypes'
  <1>1. changes \in 0..MaxChanges /\ MaxChanges \in Nat
    BY Zenon, ReloadAssumption DEF CRTypeOK
  <1>2. changes' \in 0..MaxChanges
    BY <1>1 DEF Change
  <1>3. WatchTypes /\ ScanTypes
    BY Zenon, TypesSplit
  <1>4. WatchTypes'
    BY Zenon, <1>3 DEF Change, watchVars, WatchTypes
  <1>5. ScanTypes'
    BY Zenon, <1>3 DEF Change, scanVars, servedVars, ScanTypes
  <1> QED
    BY Zenon, <1>2, <1>4, <1>5

LEMMA AgentKeepsTypes ==
  ASSUME CRTypeOK, Agent
  PROVE  CRTypeOK'
  <1>1. Change
    BY Zenon DEF Agent, WriteFile, RemoveDir, CreateDir
  <1>2. changes' \in 0..MaxChanges /\ WatchTypes' /\ ScanTypes'
    BY Zenon, <1>1, ChangeTypes
  <1>3. disk \in Scans /\ dirUp \in BOOLEAN /\ watched \in BOOLEAN /\ fileEv \in BOOLEAN /\ dirEv \in BOOLEAN
    BY Zenon DEF CRTypeOK
  <1>4. disk' \in Scans /\ dirUp' \in BOOLEAN /\ watched' \in BOOLEAN
    <2>1. ASSUME NEW f \in Files, NEW c \in Contents, WriteFile(f, c)
          PROVE  disk' \in Scans /\ dirUp' \in BOOLEAN /\ watched' \in BOOLEAN
      BY Zenon, <1>3, <2>1 DEF WriteFile, Scans
    <2>2. CASE RemoveDir
      BY Zenon, <2>2, NoFilesIsScan DEF RemoveDir
    <2>3. CASE CreateDir
      BY Zenon, <1>3, <2>3 DEF CreateDir
    <2> QED
      BY Zenon, <2>1, <2>2, <2>3 DEF Agent
  <1>5. fileEv' \in BOOLEAN /\ dirEv' \in BOOLEAN
    <2>1. ASSUME NEW f \in Files, NEW c \in Contents, WriteFile(f, c)
          PROVE  fileEv' \in BOOLEAN /\ dirEv' \in BOOLEAN
      BY Zenon, <1>3, <2>1 DEF WriteFile
    <2>2. CASE RemoveDir
      BY Zenon, <1>3, <2>2 DEF RemoveDir
    <2>3. CASE CreateDir
      BY Zenon, <1>3, <2>3 DEF CreateDir
    <2> QED
      BY Zenon, <2>1, <2>2, <2>3 DEF Agent
  <1>6. AgentTypes'
    BY Zenon, <1>2, <1>4, <1>5 DEF AgentTypes
  <1> QED
    BY <1>2, <1>6, Zenon DEF CRTypeOK, AgentTypes, WatchTypes, ScanTypes

(* The steps of Run leave the scan and what is served alone. *)
LEMMA WatcherKeepsTypes ==
  ASSUME CRTypeOK,
         EnsureWatch \/ FileEvent \/ DirEvent \/ TimerFires \/ TimerCase \/ BackstopTick \/ BackstopCase
  PROVE  CRTypeOK'
  <1>1. AgentTypes /\ WatchTypes /\ ScanTypes
    BY Zenon, TypesSplit
  <1>2. ScanTypes'
    BY Zenon, <1>1 DEF EnsureWatch, FileEvent, DirEvent, TimerFires, TimerCase, BackstopTick, BackstopCase,
                ScanTypes, scanVars, servedVars
  <1>3. AgentTypes'
    BY Zenon, <1>1 DEF EnsureWatch, FileEvent, DirEvent, TimerFires, TimerCase, BackstopTick, BackstopCase,
                AgentTypes, agentVars
  <1>4. WatchTypes'
    BY Zenon, <1>1 DEF EnsureWatch, FileEvent, DirEvent, TimerFires, TimerCase, BackstopTick, BackstopCase,
                WatchTypes, watchVars
  <1> QED
    BY <1>2, <1>3, <1>4, Zenon DEF CRTypeOK, AgentTypes, WatchTypes, ScanTypes

(* A reload writes the scan, what is served and its place in the loop. *)
LEMMA ReloadKeepsTypes ==
  ASSUME CRTypeOK, List \/ (\E f \in Files : ReadFile(f)) \/ Reload
  PROVE  CRTypeOK'
  <1>1. AgentTypes /\ WatchTypes /\ ScanTypes
    BY Zenon, TypesSplit
  <1>2. AgentTypes'
    BY Zenon, <1>1 DEF List, ReadFile, Reload, AgentTypes, agentVars
  <1>3. WatchTypes'
    BY Zenon, <1>1 DEF List, ReadFile, Reload, Finished, WatchTypes, watchVars
  <1>4. ScanTypes'
    <2>1. CASE List
      BY Zenon, <1>1, <2>1, NoFilesIsScan DEF List, Finished, ScanTypes, servedVars
    <2>2. ASSUME NEW f \in Files, ReadFile(f) PROVE ScanTypes'
      <3>1. disk[f] \in Contents
        BY Zenon, <1>1 DEF AgentTypes, Scans
      <3> QED
        BY Zenon, <1>1, <2>2, <3>1 DEF ReadFile, ScanTypes, Scans, servedVars
    <2>3. CASE Reload
      <3>1. activeConfig' \in Scans \cup {NoConfig} /\ lastError' \in BOOLEAN
        BY Zenon, <1>1, <2>3 DEF Reload, Apply, ScanTypes
      <3>2. todo' \subseteq Files /\ got' \in Scans
        BY Zenon, <2>3, NoFilesIsScan DEF Reload, Finished
      <3> QED
        BY Zenon, <3>1, <3>2 DEF ScanTypes
    <2> QED
      BY Zenon, <2>1, <2>2, <2>3
  <1> QED
    BY <1>2, <1>3, <1>4, Zenon DEF CRTypeOK, AgentTypes, WatchTypes, ScanTypes

LEMMA TypesKept ==
  ASSUME CRTypeOK, [CRNext]_crvars
  PROVE  CRTypeOK'
  <1>1. CASE UNCHANGED crvars
    <2>1. AgentTypes /\ WatchTypes /\ ScanTypes
      BY Zenon, TypesSplit
    <2>2. AgentTypes'
      BY Zenon, <1>1, <2>1 DEF crvars, agentVars, AgentTypes
    <2>3. WatchTypes'
      BY Zenon, <1>1, <2>1 DEF crvars, watchVars, WatchTypes
    <2>4. ScanTypes'
      BY Zenon, <1>1, <2>1 DEF crvars, scanVars, servedVars, ScanTypes
    <2> QED
      BY <2>2, <2>3, <2>4, Zenon DEF CRTypeOK, AgentTypes, WatchTypes, ScanTypes
  <1> QED
    BY Zenon, <1>1, AgentKeepsTypes, WatcherKeepsTypes, ReloadKeepsTypes DEF CRNext

(* Types of the directory, the watcher, the scan and what is served          *)
(* (Watcher.Run, ReadDir, Reloader.Reload).                                  *)
THEOREM TypesHold == CRSpec => []CRTypeOK
  <1>1. CRInit => CRTypeOK
    BY Zenon, TypesInitially
  <1>2. CRTypeOK /\ [CRNext]_crvars => CRTypeOK'
    BY Zenon, TypesKept
  <1> QED
    BY <1>1, <1>2, PTL DEF CRSpec

-----------------------------------------------------------------------------
(* Only Reload writes what is served. *)
LEMMA ServedKept ==
  ASSUME ServedIsValid, [CRNext]_crvars
  PROVE  ServedIsValid'
  <1>1. CASE Reload
    <2>1. activeConfig' = IF Valid(got) THEN got ELSE activeConfig
      BY Zenon, <1>1 DEF Reload, Apply
    <2>2. CASE Valid(got)
      <3>1. activeConfig' = got
        BY Zenon, <2>1, <2>2
      <3> QED
        BY Zenon, <2>2, <3>1 DEF ServedIsValid, Valid, Files
    <2>3. CASE ~Valid(got)
      <3>1. activeConfig' = activeConfig
        BY Zenon, <2>1, <2>3
      <3> QED
        BY Zenon, <3>1 DEF ServedIsValid, Valid, Files
    <2> QED
      BY Zenon, <2>2, <2>3
  <1>2. CASE activeConfig' = activeConfig
    BY Zenon, <1>2 DEF ServedIsValid, Valid, Files
  <1>3. Reload \/ activeConfig' = activeConfig
    BY Zenon DEF CRNext, Agent, WriteFile, RemoveDir, CreateDir, Change, EnsureWatch, FileEvent, DirEvent,
           TimerFires, TimerCase, BackstopTick, BackstopCase, List, ReadFile, servedVars, crvars
  <1> QED
    BY Zenon, <1>1, <1>2, <1>3

(* Whatever the agent does to the directory while it is scanned, what is     *)
(* served is the empty snapshot or a configuration that validates as a whole *)
(* (Reloader.Reload).                                                        *)
THEOREM ServedValid == CRSpec => []ServedIsValid
  <1>1. CRInit => ServedIsValid
    BY Zenon DEF CRInit, ServedIsValid
  <1>2. ServedIsValid /\ [CRNext]_crvars => ServedIsValid'
    BY Zenon, ServedKept
  <1> QED
    BY <1>1, <1>2, PTL DEF CRSpec

(* A debounce timer and the pending flag are set and cleared together. *)
LEMMA TimerKept ==
  ASSUME CRTypeOK, PendingHasTimer, [CRNext]_crvars
  PROVE  PendingHasTimer'
  <1>1. CASE EnsureWatch \/ FileEvent
    BY Zenon, <1>1 DEF EnsureWatch, FileEvent, PendingHasTimer
  <1>2. CASE TimerFires
    BY Zenon, <1>2 DEF TimerFires, PendingHasTimer
  <1>3. CASE TimerCase
    BY Zenon, <1>3 DEF TimerCase, PendingHasTimer
  <1>4. CASE BackstopCase
    <2>1. pending' = TRUE /\ timer' # "off"
      BY Zenon, <1>4 DEF BackstopCase, PendingHasTimer
    <2> QED
      BY Zenon, <2>1 DEF PendingHasTimer
  <1>5. CASE pending' = pending /\ timer' = timer
    BY Zenon, <1>5 DEF PendingHasTimer
  <1>6. \/ EnsureWatch \/ FileEvent \/ TimerFires \/ TimerCase \/ BackstopCase
        \/ pending' = pending /\ timer' = timer
    BY Zenon DEF CRNext, Agent, WriteFile, RemoveDir, CreateDir, Change, DirEvent,
           BackstopTick, List, ReadFile, Reload, watchVars, crvars
  <1> QED
    BY Zenon, <1>1, <1>2, <1>3, <1>4, <1>5, <1>6

(* No expiry of the debounce timer is wasted and no pending reload is left   *)
(* without a timer, whatever events, ticks and reloads come between          *)
(* (Watcher.Run).                                                            *)
THEOREM PendingIsTimed == CRSpec => []PendingHasTimer
  <1>1. CRInit => CRTypeOK /\ PendingHasTimer
    BY Zenon, TypesInitially DEF CRInit, PendingHasTimer
  <1>2. CRTypeOK /\ PendingHasTimer /\ [CRNext]_crvars => (CRTypeOK /\ PendingHasTimer)'
    BY Zenon, TypesKept, TimerKept
  <1> QED
    BY <1>1, <1>2, PTL DEF CRSpec

=============================================================================
