---------------------------- MODULE VerdictProofs ---------------------------
(***************************************************************************)
(* Who is let through and what is forwarded, for any engines, requests and *)
(* bodies of the form JobsAssumption states: EVInv of EngineProofs, with   *)
(* what ContentProofs shows of the certificate header and of the masking   *)
(* pass.                                                                   *)
(***************************************************************************)
EXTENDS EngineProofs, ContentProofs

-----------------------------------------------------------------------------
(* RedactionExact.                                                           *)

LEMMA EVInvRedacts == EVInv => RedactionExact
<1> SUFFICES ASSUME EVInv, job.op = "checks", at = "done"
             PROVE  Exact(job.policy, job.req, results[1])
  BY Zenon DEF RedactionExact
<1> DEFINE r == BodyChecks(job.policy, job.req)
<1>1. "checks" # "set"
  OBVIOUS
<1>2. IsBodyJob(job) /\ results = <<r>>
  BY Zenon, <1>1 DEF EVInv, IsSetJob
<1> HIDE DEF r
<1>3. results[1] = r
  BY <1>2
<1> QED BY Zenon, <1>2, <1>3, BodyExact DEF r

(* body_checks forwards no sensitive byte and alters nothing else, for every *)
(* body, every list of matches in the order of the detector, whatever        *)
(* overlaps, and every policy (RedactionExact).                              *)
THEOREM RedactionIsExact == EVSpec => []RedactionExact
BY EVInvHolds, EVInvRedacts, PTL

-----------------------------------------------------------------------------
(* CallerEntitled.                                                           *)

LEMMA XFCCEntitled ==
  ASSUME NEW e, NEW req, NEW truth, IsRequest(req, truth), e.kind = "xfcc"
  PROVE  InspectXFCC(e, req) = Pass <=> Entitled(e, req, truth)
<1>1. Entitled(e, req, truth) <=>
        IF truth.certs = <<>> THEN ~e.requirePresent
        ELSE HasAllow(e) => MatchesAllow(e.allow, Last(truth.certs))
  BY DEF Entitled
<1>2. CASE truth.certs = <<>>
  <2>1. req.xfcc = NoValue
    BY Zenon, <1>2 DEF IsRequest
  <2> QED BY Zenon, <1>1, <1>2, <2>1, PassOrBlock DEF InspectXFCC
<1>3. CASE truth.certs # <<>>
  <2>1. req.xfcc # NoValue /\ req.xfcc = EncodeXFCC(truth.certs)
    BY Zenon, <1>3 DEF IsRequest
  <2>2. ParseXFCC(req.xfcc) = truth.certs
    BY Zenon, <1>3, <2>1, XFCCReadBack DEF IsRequest
  <2> QED BY Zenon, <1>1, <1>3, <2>1, <2>2, PassOrBlock DEF InspectXFCC
<1> QED BY Zenon, <1>2, <1>3

LEMMA InspectEntitled ==
  ASSUME NEW e, NEW req, NEW truth, IsEngine(e), IsRequest(req, truth), e.kind \in CredentialEngines
  PROVE  IF req.dir = "response" THEN Inspect(e, req) = Pass
         ELSE Inspect(e, req).action # "error" => (Inspect(e, req) = Pass <=> Entitled(e, req, truth))
<1>1. CASE req.dir = "response"
  <2>1. e.kind # "coraza"
    BY DEF CredentialEngines
  <2> QED BY Zenon, <1>1, <2>1 DEF Inspect
<1>2. CASE req.dir # "response"
  <2>1. IsToken(req.token) /\ IsMAC(req.sig) /\ NormalizePath(req.path) = truth.path
        /\ req.now \in Int /\ req.content # NoValue
    BY Zenon DEF IsRequest
  <2>2. CASE e.kind = "jwt"
    <3>1. Inspect(e, req) = InspectJWT(e, req)
      BY <1>2, <2>2 DEF Inspect
    <3> QED BY Zenon, <1>2, <2>1, <2>2, <3>1, JWTEntitled
  <2>3. CASE e.kind = "jwks"
    <3>1. Inspect(e, req) = InspectJWKS(e, req)
      BY <1>2, <2>3 DEF Inspect
    <3> QED BY Zenon, <1>2, <2>1, <2>3, <3>1, JWKSEntitled
  <2>4. CASE e.kind = "api_key"
    <3>1. Inspect(e, req) = InspectAPIKey(e, req)
      BY <1>2, <2>4 DEF Inspect
    <3> QED BY Zenon, <1>2, <2>1, <2>4, <3>1, APIKeyEntitled
  <2>5. CASE e.kind = "hmac_sign"
    <3>1. Inspect(e, req) = InspectHMACSign(e, req)
      BY <1>2, <2>5 DEF Inspect
    <3> QED BY Zenon, <1>2, <2>1, <2>5, <3>1, HMACEntitled
  <2>6. CASE e.kind = "http_signature"
    <3>1. Inspect(e, req) = InspectHTTPSig(e, req)
      BY <1>2, <2>6 DEF Inspect
    <3> QED BY Zenon, <1>2, <2>1, <2>6, <3>1, HTTPSigEntitled
  <2>7. CASE e.kind = "xfcc"
    <3>1. Inspect(e, req) = InspectXFCC(e, req)
      BY <1>2, <2>7 DEF Inspect
    <3> QED BY Zenon, <1>2, <2>7, <3>1, XFCCEntitled
  <2>8. CASE e.kind = "ip_reputation"
    <3>1. Inspect(e, req) = InspectIPReputation(e, req)
      BY <1>2, <2>8 DEF Inspect
    <3> QED BY Zenon, <1>2, <2>8, <3>1, IPEntitled
  <2> QED BY Zenon, <2>2, <2>3, <2>4, <2>5, <2>6, <2>7, <2>8 DEF CredentialEngines
<1> QED BY Zenon, <1>1, <1>2

LEMMA EVInvEntitles == EVInv => CallerEntitled
<1> SUFFICES ASSUME EVInv, NEW k \in DOMAIN asked, NEW n \in DOMAIN asked[k],
                    job.engines[asked[k][n].engine].kind \in CredentialEngines
             PROVE  IF job.req.dir = "response" THEN asked[k][n].verdict = Pass
                    ELSE asked[k][n].verdict.action # "error" =>
                           (asked[k][n].verdict = Pass
                              <=> Entitled(job.engines[asked[k][n].engine], job.req, job.truth))
  BY Zenon DEF CallerEntitled
<1>1. ASSUME asked = <<>> PROVE FALSE
  BY <1>1
<1>2. ASSUME First PROVE asked[k] = SetOf(FALSE).calls
  <2>1. k = 1 /\ asked[1] = SetOf(FALSE).calls
    BY <1>2 DEF First
  <2> QED BY Zenon, <2>1
<1>3. ASSUME Second PROVE \E b \in BOOLEAN : asked[k] = SetOf(b).calls
  <2>1. k \in {1, 2} /\ asked[1] = SetOf(FALSE).calls /\ asked[2] = SetOf(TRUE).calls
    BY <1>3 DEF Second
  <2> QED BY Zenon, <2>1
<1>4. IsSetJob(job) /\ \E b \in BOOLEAN : asked[k] = SetOf(b).calls
  BY Zenon, <1>1, <1>2, <1>3 DEF EVInv
<1>5. /\ asked[k][n].engine \in DOMAIN job.engines
      /\ asked[k][n].verdict = Inspect(job.engines[asked[k][n].engine], job.req)
  <2>1. PICK b \in BOOLEAN : asked[k] = SetOf(b).calls
    BY Zenon, <1>4
  <2>2. \A m \in DOMAIN SetOf(b).calls :
          /\ SetOf(b).calls[m].engine \in DOMAIN job.engines
          /\ SetOf(b).calls[m].verdict = Inspect(job.engines[SetOf(b).calls[m].engine], job.req)
    BY Zenon, <1>4, PhaseFacts
  <2> QED BY Zenon, <2>1, <2>2
<1>6. IsEngine(job.engines[asked[k][n].engine]) /\ IsRequest(job.req, job.truth)
  BY Zenon, <1>4, <1>5 DEF IsSetJob
<1> QED BY Zenon, <1>5, <1>6, InspectEntitled

(* Every engine that answers for who the caller is (jwt, jwks, api_key,      *)
(* hmac_sign, http_signature, xfcc, ip_reputation) passes a request exactly  *)
(* when its caller is entitled to it, and passes every response.             *)
THEOREM CallersAreEntitled == EVSpec => []CallerEntitled
BY EVInvHolds, EVInvEntitles, PTL
=============================================================================
