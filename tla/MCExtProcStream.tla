-------------------------- MODULE MCExtProcStream --------------------------
(* ExtProcStream for TLC: a policy of every mode and fail posture, and the   *)
(* shapes that differ in what they inspect.                                  *)
EXTENDS ExtProcStream, TLC

Both(a, b) == [request |-> a, response |-> b]
DefaultOrder == <<"fast_pre_checks", "body_checks", "waf_engine">>
WafFirst == <<"waf_engine", "body_checks">>

Shape(inspect, redacts, order, engines, bodyEngines) ==
  [inspectBody |-> inspect, redacts |-> redacts, order |-> order,
   engines |-> engines, bodyEngines |-> bodyEngines, respEngines |-> bodyEngines]

HeadersOnly == Shape(Both(FALSE, FALSE), Both(FALSE, FALSE), Both(DefaultOrder, DefaultOrder), TRUE, FALSE)
RequestBody == Shape(Both(TRUE, FALSE), Both(FALSE, FALSE), Both(DefaultOrder, DefaultOrder), FALSE, FALSE)
Redacting == Shape(Both(TRUE, TRUE), Both(TRUE, TRUE), Both(DefaultOrder, <<"body_checks">>), FALSE, FALSE)
BodyEngine == Shape(Both(FALSE, FALSE), Both(FALSE, FALSE), Both(WafFirst, WafFirst), TRUE, TRUE)

MkPolicy(mode, failOpen, builds, sh) ==
  [mode |-> mode, failOpen |-> failOpen, builds |-> builds,
   inspectBody |-> sh.inspectBody, redacts |-> sh.redacts, order |-> sh.order,
   engines |-> sh.engines, bodyEngines |-> sh.bodyEngines, respEngines |-> sh.respEngines]

AllPolicies ==
  {MkPolicy(mode, fo, TRUE, sh) : mode \in {"block", "detect", "shadow"}, fo \in BOOLEAN,
                                  sh \in {HeadersOnly, RequestBody, Redacting, BodyEngine}}
  \cup {MkPolicy("off", TRUE, TRUE, RequestBody)}
  \cup {MkPolicy("block", fo, FALSE, RequestBody) : fo \in BOOLEAN}

(* Fewer policies, for a peer that sends anything. *)
FewPolicies ==
  {MkPolicy("block", fo, TRUE, sh) : fo \in BOOLEAN, sh \in {RequestBody, Redacting, BodyEngine}}
  \cup {MkPolicy("detect", FALSE, TRUE, BodyEngine), MkPolicy("off", TRUE, TRUE, RequestBody)}

MCPolicies == "envoy" :> AllPolicies @@ "any" :> FewPolicies
MCDefaultAllow == "envoy" :> FALSE @@ "any" :> TRUE
MCMaxMessages == "envoy" :> 6 @@ "any" :> 4
=============================================================================
