----------------------------- MODULE PolicySpec -----------------------------
(***************************************************************************)
(* One policy block of a configuration file, and how blocks combine:       *)
(* validateSpec (config/validate.go), overlaySpec and Merge                *)
(* (config/merge.go), Resolve (config/policy.go), FromResolved and its     *)
(* helpers (policy/policy.go) and the pipelines the stage catalog builds   *)
(* from the result (pipeline/stages/catalog.go).                           *)
(*                                                                         *)
(* A block is sparse: `set' holds the scalar fields it sets, as a function *)
(* on their names, and every other field is Nil when the block leaves it   *)
(* out.  Sizes and durations are small integers.                           *)
(***************************************************************************)
EXTENDS EngineSpecs

CONSTANTS
    Nil,               \* a field that is not set
    MaxSaneBodyBytes   \* the ceiling of a body cap

Directions == {"request", "response"}

Modes == {"block", "detect", "shadow", "off"}

Stages == {"fast_pre_checks", "body_checks", "waf_engine"}

DefaultPipelineOrder == <<"fast_pre_checks", "body_checks", "waf_engine">>

(* The scalar fields of PolicySpec and the values validateSpec accepts. *)
Accepts(field, v) ==
    CASE field = "mode" -> v \in Modes
      [] field = "fail_mode" -> v \in {"open", "close"}
      [] field \in Directions -> v \in BOOLEAN          \* inspect_<direction>_body
      [] field \in {"max_request", "max_response"} -> v \in 0 .. MaxSaneBodyBytes
      [] field = "max_header" -> v >= 0
      [] field = "timeout" -> v > 0
      [] field = "anomaly_threshold" -> v >= 0
      [] field = "sampling_percent" -> v \in 0 .. 100
      [] field = "log_level" -> v \in {"debug", "info", "warn", "error"}

MaxField(dir) == IF dir = "request" THEN "max_request" ELSE "max_response"

(* A field the block sets to v. *)
Sets(s, field, v) == field \in DOMAIN s.set /\ s.set[field] = v

-----------------------------------------------------------------------------
(* validateSpec: no inspection with mode off or a zero cap on the same block *)
ValidCombination(s) ==
    \A dir \in Directions :
        Sets(s, dir, TRUE) => ~Sets(s, "mode", "off") /\ ~Sets(s, MaxField(dir), 0)

(* The stages a block configures itself. *)
Required(s) ==
    (IF s.headers # Nil THEN {"fast_pre_checks"} ELSE {})
      \union (IF s.body # Nil THEN {"body_checks"} ELSE {})
      \union (IF s.engines # Nil THEN {"waf_engine"} ELSE {})

(* validateOrder and checkComplete: known stages, no duplicate, and every    *)
(* stage the block configures; fast_pre_checks is not asked of the response. *)
ValidPipeline(s) ==
    s.pipeline # Nil =>
      \A dir \in Directions :
        LET order == s.pipeline[dir] IN
        order # Nil =>
          /\ ToSet(order) \subseteq Stages /\ IsInjective(order)
          /\ Required(s) \ (IF dir = "response" THEN {"fast_pre_checks"} ELSE {})
               \subseteq ToSet(order)

(* validateDLP *)
ValidDLP(d) ==
    /\ d.direction \in {"", "response", "request", "both"}
    /\ d.block \union d.redact # {} /\ d.block \union d.redact \subseteq DLPKinds

ValidSpec(s) ==
    /\ \A field \in DOMAIN s.set : Accepts(field, s.set[field])
    /\ ValidCombination(s)
    /\ ValidPipeline(s)
    /\ s.body # Nil => (s.body.dlp # Nil => ValidDLP(s.body.dlp))
    /\ s.engines # Nil => ValidEngines(s.engines)

-----------------------------------------------------------------------------
(* overlaySpec: the fields `over' sets win, skip_checks is a union, and the  *)
(* pipeline block is replaced whole.                                         *)
Or(a, b) == IF a # Nil THEN a ELSE b

Over(f, g) == [x \in DOMAIN f \union DOMAIN g |-> IF x \in DOMAIN f THEN f[x] ELSE g[x]]

OverlaySpec(base, over) ==
    [set |-> Over(over.set, base.set),
     skip |-> base.skip \union over.skip,
     pipeline |-> Or(over.pipeline, base.pipeline),
     headers |-> Or(over.headers, base.headers),
     body |-> Or(over.body, base.body),
     engines |-> Or(over.engines, base.engines)]

EmptySpec ==
    [set |-> [x \in {} |-> 0], skip |-> {}, pipeline |-> Nil,
     headers |-> Nil, body |-> Nil, engines |-> Nil]

(* DefaultPolicy *)
DefaultPolicy ==
    [set |-> [mode |-> "block", fail_mode |-> "open", request |-> FALSE,
              response |-> FALSE, max_request |-> MaxSaneBodyBytes, max_response |-> 0,
              max_header |-> 8, timeout |-> 50, anomaly_threshold |-> 0,
              sampling_percent |-> 5, log_level |-> "info"],
     skip |-> {}, order |-> [dir \in Directions |-> Nil],
     headers |-> Nil, body |-> Nil, engines |-> Nil]

(* One step of Resolve's loop: unlike overlaySpec it takes the order of each *)
(* direction by itself.                                                      *)
Apply(out, s) ==
    [set |-> Over(s.set, out.set),
     skip |-> out.skip \union s.skip,
     order |-> IF s.pipeline = Nil THEN out.order
               ELSE [dir \in Directions |-> Or(s.pipeline[dir], out.order[dir])],
     headers |-> Or(s.headers, out.headers),
     body |-> Or(s.body, out.body),
     engines |-> Or(s.engines, out.engines)]

(* compileDLP: OnRequest and OnResponse *)
DLPApplies(body, dir) ==
    /\ body # Nil
    /\ body.dlp # Nil
    /\ body.dlp.direction \in (IF dir = "request" THEN {"request", "both"}
                                                  ELSE {"", "response", "both"})

(* Mutant of DeriveInspect: a DLP block no longer turns buffering on. *)
DeriveInspectNoDLP(out) ==
    LET checks == out.body # Nil /\ (out.body.json \/ out.body.sensitive)
    IN  [out EXCEPT !.set["request"] = @ \/ (checks /\ ~out.set["response"])]

(* The end of Resolve: DLP turns on the inspection of its directions, and a  *)
(* body check that no inspected direction would run gets the request body.   *)
DeriveInspect(out) ==
    LET dlp == [dir \in Directions |-> out.set[dir] \/ DLPApplies(out.body, dir)]
        checks == out.body # Nil /\ (out.body.json \/ out.body.sensitive)
    IN  [out EXCEPT !.set["request"] = dlp["request"] \/ (checks /\ ~dlp["response"]),
                    !.set["response"] = dlp["response"]]

Resolve(base, specs) == DeriveInspect(FoldLeft(Apply, base, specs))

-----------------------------------------------------------------------------
(* CompiledPolicy: the predicates the pipeline asks. *)
Enforcing(p) == p.set["mode"] # "off"

Blocking(p) == p.set["mode"] = "block"

EnginesOf(p) == IF p.engines = Nil THEN [x \in {} |-> 0] ELSE p.engines

(* FromResolved: the policy's header cap applies when the checks set none *)
HeaderCap(p) ==
    IF p.headers = Nil \/ p.headers.maxValue = 0 THEN p.set["max_header"] ELSE p.headers.maxValue

NeedsResponseInspection(p) ==
    /\ Enforcing(p)
    /\ p.set["response"] \/ DLPApplies(p.body, "response") \/ InspectsResponse(EnginesOf(p))

MutatesBody(p, dir) == p.body # Nil /\ DLPApplies(p.body, dir) /\ p.body.dlp.redact # {}

(* bodyGate *)
BodyRequired(p, dir) == Enforcing(p) /\ (p.set[dir] \/ RequiresBody(EnginesOf(p)))

(* orderOrDefault: an order that is set and empty is not the default *)
OrderOrDefault(order) == IF order = Nil THEN DefaultPipelineOrder ELSE order

(* Catalog.split: the header pipeline ends with the body gate, the body      *)
(* pipeline starts with the truncation guard and the decoder, and waf_engine *)
(* stands for a stage of each.                                               *)
HeaderPipeline(order) ==
    Keep(order, ToSet(order) \ {"body_checks"}) \o <<"body_gate">>

BodyPipeline(order) ==
    <<"body_truncation_guard", "body_decode">>
      \o Keep(order, ToSet(order) \ {"fast_pre_checks"})

(* BuildPolicyPipelines *)
Pipelines(p) ==
    [dir \in Directions |->
        LET order == OrderOrDefault(p.order[dir])
        IN  [header |-> HeaderPipeline(order), body |-> BodyPipeline(order)]]
=============================================================================
