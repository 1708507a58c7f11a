--------------------------- MODULE EngineVerdicts ---------------------------
(***************************************************************************)
(* What the engines of a policy decide on a request: each engine's         *)
(* Inspect, the aggregation of engine.Set, and the two stages (waf_headers *)
(* and waf) that run the set and keep the anomaly score; and the           *)
(* body_checks stage.                                                      *)
(*                                                                         *)
(* Signatures and digests are symbolic: a signature is the record of what  *)
(* was signed and with which key, and verifies for exactly that.           *)
(***************************************************************************)
EXTENDS Matchers, ClientCert, Redaction

CONSTANTS
    NoValue,       \* an absent header, token, key or database
    Garbage,       \* a token that does not parse
    Shapes, BodyShapes,          \* the kinds of case considered
    SetJobs(_), BodyJobs(_),     \* the engine sets and requests, and the bodies, of a kind
    SetWindow,     \* the acceptance window of hmac_sign, in seconds
    SharedSecrets, PublicKeys,   \* the keys of tokens, as the engines know them
    QueryBlocks(_, _)            \* graphql: does a limit of the engine stop this query

VARIABLES
    job,      \* what is inspected
    at,       \* "headers", "body", "checks" or "done"
    asked,    \* the verdict of every engine called so far
    results,  \* the stage results so far
    total,    \* Transaction.anomalyScore
    crossed   \* Transaction.anomalyDenied

evvars == <<job, at, asked, results, total, crossed>>

-----------------------------------------------------------------------------
Pass == [action |-> "pass", severity |-> 0, score |-> 0]
Blocks(severity) == [action |-> "block", severity |-> severity, score |-> 0]
Low == 1
Medium == 2
High == 3
Failed == [action |-> "error", severity |-> 0, score |-> 0]

(* isEmptyClaim *)
IsEmptyClaim(v) == v \in {"null", "emptyString", "emptyArray"}

ClaimsPresent(required, claims) ==
    \A c \in required : c \in DOMAIN claims /\ ~IsEmptyClaim(claims[c])

IsHMAC(alg) == alg = "HS256"

(* gojwt.ParseWithClaims: an allowed algorithm, a key, a signature by it, *)
(* not expired                                                             *)
ParseWithClaims(t, algs, key) ==
    /\ t # Garbage /\ t.alg \in algs
    /\ key # NoValue /\ t.by = key
    /\ ~t.expired

(* jwt keyFunc *)
JWTKey(e, t) ==
    IF t = Garbage THEN NoValue
    ELSE IF t.alg = "none" THEN NoValue
    ELSE IF IsHMAC(t.alg) THEN e.secret
    ELSE e.pubKey

(* jwks keyFunc: the kid, or no kid and a single key *)
JWKSKey(e, t) ==
    IF t = Garbage THEN NoValue
    ELSE IF t.alg = "none" \/ IsHMAC(t.alg) THEN NoValue
    ELSE IF t.kid \in DOMAIN e.keys THEN e.keys[t.kid]
    ELSE IF t.kid = "" /\ \E k \in DOMAIN e.keys : DOMAIN e.keys = {k}
    THEN e.keys[CHOOSE k \in DOMAIN e.keys : TRUE]
    ELSE NoValue

InspectJWT(e, req) ==
    IF /\ req.token # NoValue
       /\ ParseWithClaims(req.token, e.algs, JWTKey(e, req.token))
       /\ ClaimsPresent(e.required, req.token.claims)
    THEN Pass ELSE Blocks(High)

InspectJWKS(e, req) ==
    IF /\ req.token # NoValue
       /\ ParseWithClaims(req.token, e.algs, JWKSKey(e, req.token))
       /\ ClaimsPresent(e.required, req.token.claims)
    THEN Pass ELSE Blocks(High)

(* apikey Inspect: a known digest, and the scope of every binding whose      *)
(* prefix the normalized path has                                            *)
InspectAPIKey(e, req) ==
    IF /\ req.key # NoValue /\ req.key \in DOMAIN e.keys
       /\ \A b \in e.bindings : IsPrefix(b.prefix, NormalizePath(req.path)) => b.scope \in e.keys[req.key]
    THEN Pass ELSE Blocks(High)

(* hmacsign secretFor *)
SecretFor(e, sig) ==
    IF DOMAIN e.secrets = {} THEN e.secret
    ELSE IF sig.keyID \in DOMAIN e.secrets THEN e.secrets[sig.keyID] ELSE NoValue

(* hmacsign Inspect up to SeenBefore, whose answer is sig.seen *)
InspectHMACSign(e, req) ==
    LET sig == req.sig
        canonical == [path |-> req.path, ts |-> sig.ts, nonce |-> sig.nonce,
                      digest |-> IF e.requireBody THEN req.content ELSE ""]
    IN  IF /\ sig # NoValue /\ sig.hex
           /\ sig.ts # NoValue /\ req.now - sig.ts \in (- SetWindow) .. SetWindow
           /\ e.requireNonce => sig.nonce # ""
           /\ SecretFor(e, sig) # NoValue
           /\ sig.mac = [key |-> SecretFor(e, sig), over |-> canonical]
           /\ ~sig.seen
        THEN Pass ELSE Blocks(High)

(* httpsig Inspect: VerifyRequest over the covered components, then the      *)
(* digest of the body when content-digest is covered                         *)
Component(req, c) ==
    CASE c = "path" -> req.path [] c = "digest" -> req.digest

InspectHTTPSig(e, req) ==
    LET sig == req.hsig IN
    IF /\ sig # NoValue /\ sig.key = e.key
       /\ \A c \in e.covered : c \in DOMAIN sig.over /\ sig.over[c] = Component(req, c)
       /\ "digest" \in e.covered => req.digest # NoValue /\ req.digest = req.content
    THEN Pass ELSE Blocks(High)

(* xfcc Inspect *)
HasAllow(e) == \E d \in DOMAIN e.allow : e.allow[d] # {}

InspectXFCC(e, req) ==
    IF req.xfcc = NoValue THEN (IF e.requirePresent THEN Blocks(High) ELSE Pass)
    ELSE IF ~HasAllow(e) \/ MatchesAllow(e.allow, Last(ParseXFCC(req.xfcc))) THEN Pass
    ELSE Blocks(High)

(* ipreputation Inspect; an address is the host left after Unmap, and a      *)
(* failed lookup is NoValue                                                  *)
GeoVerdict(geo, host) ==
    LET rec == geo.lookup[host] IN
    IF rec = NoValue THEN Failed
    ELSE IF rec.country = "" /\ rec.asn = 0
    THEN (IF geo.blockOnMissing THEN Blocks(Low) ELSE IF geo.allow # {} THEN Blocks(Medium) ELSE Pass)
    ELSE IF \/ rec.country # "" /\ rec.country \in geo.block
            \/ geo.allow # {} /\ (rec.country = "" \/ rec.country \notin geo.allow)
            \/ rec.asn # 0 /\ rec.asn \in geo.blockASN
    THEN Blocks(Medium) ELSE Pass

InspectIPReputation(e, req) ==
    LET host == req.ip.host IN
    IF req.ip = NoValue THEN (IF e.allow # {} THEN Blocks(High) ELSE Pass)
    ELSE IF host \in e.deny THEN Blocks(High)
    ELSE IF e.allow # {} THEN (IF host \in e.allow THEN Pass ELSE Blocks(High))
    ELSE IF host \in DOMAIN e.feeds THEN Blocks(e.feeds[host])
    ELSE IF e.geo # NoValue THEN GeoVerdict(e.geo, host)
    ELSE Pass

(* bot Inspect.  A user agent is "", a browser, a tool or a crawler; ja4 and *)
(* ja3 are trimmed and lower-cased.                                          *)
IsBrowserClaim(ua) == ua = "browser"
IsBotUA(ua) == ua = "crawler"

BotScore(e, req) ==
    (IF IsBotUA(req.ua) THEN e.scoreKnownBot ELSE 0)
      + (IF req.ja4 # "" /\ req.ja4 \in DOMAIN e.scoreJA4 THEN e.scoreJA4[req.ja4] ELSE 0)
      + e.headerScore * Cardinality(e.requireHeaders \ req.present)

InspectBot(e, req) ==
    LET claimed == {b \in e.verified : req.ua \in b.uas}
        score == BotScore(e, req)
    IN  IF \E b \in claimed : req.ip # NoValue /\ req.ip.host \in b.ips THEN Pass
        ELSE IF claimed # {} THEN Blocks(High)
        ELSE IF e.blockEmpty /\ req.ua = "" THEN Blocks(Medium)
        ELSE IF \/ req.ua \in e.denyUA
                \/ req.ja4 \in e.denyJA4
                \/ req.ja4 \in e.toolJA4 /\ IsBrowserClaim(req.ua)
                \/ req.ja3 \in e.denyJA3
        THEN Blocks(High)
        ELSE IF e.emitScore THEN [Pass EXCEPT !.score = score]
        ELSE IF e.threshold > 0 /\ score >= e.threshold THEN Blocks(Medium)
        ELSE Pass

(* coraza Inspect: the first phase of the direction that interrupts or fails *)
InspectCoraza(e, req) ==
    LET phases == IF req.dir = "request" THEN req.waf.request ELSE req.waf.response
        bad == {i \in DOMAIN phases : phases[i] # "clean"}
    IN  IF e.closed THEN Failed
        ELSE IF bad = {} THEN Pass
        ELSE IF phases[CHOOSE i \in bad : \A k \in bad : i <= k] = "interrupted" THEN Blocks(High)
        ELSE Failed

(* openapi Inspect *)
InspectOpenAPI(e, req) ==
    IF req.api.declared /\ req.api.params /\ (e.validateBody => req.api.body)
    THEN Pass ELSE Blocks(Medium)

InspectGraphQL(e, req) == IF QueryBlocks(e, req.gql) THEN Blocks(Medium) ELSE Pass

(* Every engine but coraza passes a response *)
Inspect(e, req) ==
    IF req.dir = "response" /\ e.kind # "coraza" THEN Pass
    ELSE CASE e.kind = "jwt" -> InspectJWT(e, req)
           [] e.kind = "jwks" -> InspectJWKS(e, req)
           [] e.kind = "api_key" -> InspectAPIKey(e, req)
           [] e.kind = "hmac_sign" -> InspectHMACSign(e, req)
           [] e.kind = "http_signature" -> InspectHTTPSig(e, req)
           [] e.kind = "xfcc" -> InspectXFCC(e, req)
           [] e.kind = "ip_reputation" -> InspectIPReputation(e, req)
           [] e.kind = "bot" -> InspectBot(e, req)
           [] e.kind = "coraza" -> InspectCoraza(e, req)
           [] e.kind = "openapi" -> InspectOpenAPI(e, req)
           [] e.kind = "graphql" -> InspectGraphQL(e, req)

NeedsBody(e) ==
    CASE e.kind \in {"coraza", "graphql"} -> TRUE
      [] e.kind = "hmac_sign" -> e.requireBody
      [] e.kind = "http_signature" -> "digest" \in e.covered
      [] e.kind = "openapi" -> e.validateBody
      [] OTHER -> FALSE

-----------------------------------------------------------------------------
(* Mutant of WorseOf: the last verdict that is not clean wins. *)
WorseLast(worst, v) == IF v = Pass THEN worst ELSE v

(* The switch of Set.inspect *)
WorseOf(worst, v) ==
    IF \/ v.action = "block" /\ worst.action # "block"
       \/ v.action = "block" /\ v.severity >= worst.severity
       \/ v.action # "block" /\ worst.action # "block" /\ v.severity > worst.severity
    THEN v ELSE worst

(* One turn of the loop of Set.inspect; the context ends after `deadline`    *)
(* calls                                                                     *)
SetStep(set, a, i) ==
    LET v == Inspect(set.engines[i], set.req)
        b == [a EXCEPT !.calls = Append(@, [engine |-> i, verdict |-> v])]
    IN  IF NeedsBody(set.engines[i]) # set.wantBody \/ a.broke THEN a
        ELSE IF Len(a.calls) >= set.deadline THEN [a EXCEPT !.err = TRUE, !.broke = TRUE]
        ELSE IF v.action = "error" THEN [b EXCEPT !.err = TRUE]
        ELSE [b EXCEPT !.score = IF v.score > 0 THEN @ + v.score ELSE @,
                       !.worst = WorseOf(@, v)]

(* Set.inspect over the engines want selects *)
InspectSet(engines, req, wantBody, deadline) ==
    LET set == [engines |-> engines, req |-> req, wantBody |-> wantBody, deadline |-> deadline]
    IN  FoldLeft(LAMBDA a, i : SetStep(set, a, i),
                 [calls |-> <<>>, worst |-> Pass, score |-> 0, err |-> FALSE, broke |-> FALSE],
                 [i \in DOMAIN engines |-> i])

(* What the executor makes of a result: an enforced deny or a fail-close     *)
(* error ends the request, everything else goes on                           *)
Settle(result, next) ==
    /\ results' = Append(results, result)
    /\ at' = IF \/ result.kind \in {"deny", "anomaly"} /\ job.policy.mode = "block"
                \/ result.kind = "fail" /\ ~job.policy.failOpen
             THEN "done" ELSE next

(* AddAnomalyScore and the threshold, which is reported once *)
AddScore(sum, next) ==
    LET cross == job.policy.threshold > 0 /\ sum >= job.policy.threshold /\ ~crossed IN
    /\ total' = sum
    /\ crossed' = (crossed \/ cross)
    /\ Settle([kind |-> IF cross THEN "anomaly" ELSE "continue",
               severity |-> IF cross THEN Medium ELSE 0], next)

(* The verdict of the set: a block, else an error, else the score *)
Conclude(r, next) ==
    /\ asked' = Append(asked, r.calls)
    /\ IF r.worst.action = "block"
       THEN Settle([kind |-> "deny", severity |-> r.worst.severity], next) /\ UNCHANGED <<total, crossed>>
       ELSE IF r.err
       THEN Settle([kind |-> "fail", severity |-> 0], next) /\ UNCHANGED <<total, crossed>>
       ELSE AddScore(total + r.score, next)

(* runEngines *)
RunEngines(wantBody, next) ==
    IF job.policy.mode = "off" \/ job.engines = <<>>
    THEN /\ Settle([kind |-> "continue", severity |-> 0], next)
         /\ UNCHANGED <<asked, total, crossed>>
    ELSE Conclude(InspectSet(job.engines, job.req, wantBody, job.deadline[wantBody]), next)

EVInit ==
    /\ \/ at = "headers" /\ \E s \in Shapes : job \in SetJobs(s)
       \/ at = "checks" /\ \E s \in BodyShapes : job \in BodyJobs(s)
    /\ asked = <<>> /\ results = <<>> /\ total = 0 /\ crossed = FALSE

(* waf_engine_headers, run when the headers arrive *)
WAFHeaderStage ==
    /\ at = "headers"
    /\ RunEngines(FALSE, "body")
    /\ UNCHANGED job

(* waf_engine, run when the body is there; the gate skips it when no engine  *)
(* needs the body                                                            *)
WAFStage ==
    /\ at = "body"
    /\ IF job.policy.mode # "off" /\ \E i \in DOMAIN job.engines : NeedsBody(job.engines[i])
       THEN RunEngines(TRUE, "done")
       ELSE at' = "done" /\ UNCHANGED <<asked, results, total, crossed>>
    /\ UNCHANGED job

BodyChecksStage ==
    /\ at = "checks"
    /\ results' = <<BodyChecks(job.policy, job.req)>>
    /\ at' = "done"
    /\ UNCHANGED <<job, asked, total, crossed>>

EVNext == WAFHeaderStage \/ WAFStage \/ BodyChecksStage

EVSpec == EVInit /\ [][EVNext]_evvars

-----------------------------------------------------------------------------
(* What is inspected: engines as validation and compilation leave them,      *)
(* requests as they arrive, and job.truth, what such a request really is:    *)
(* the resource its path names and the certificates behind its XFCC header.  *)
IsEngine(e) ==
    CASE e.kind = "jwt" ->
           /\ e.algs \subseteq {"HS256", "RS256"}
           /\ e.secret \in SharedSecrets \union {NoValue} /\ e.pubKey \in PublicKeys \union {NoValue}
      [] e.kind = "jwks" ->
           /\ e.algs \subseteq {"HS256", "RS256"}
           /\ IsFiniteSet(DOMAIN e.keys) /\ \A k \in DOMAIN e.keys : e.keys[k] \in PublicKeys
      [] e.kind = "api_key" -> NoValue \notin DOMAIN e.keys
      [] e.kind = "hmac_sign" ->
           /\ DOMAIN e.secrets = {} => e.secret # NoValue
           /\ \A k \in DOMAIN e.secrets : e.secrets[k] # NoValue
      [] e.kind = "http_signature" -> e.covered \subseteq {"path", "digest"}
      [] e.kind = "ip_reputation" -> \A h \in DOMAIN e.feeds : e.feeds[h] \in Nat
      [] e.kind = "bot" ->
           /\ e.scoreKnownBot \in Nat /\ e.headerScore \in Nat /\ IsFiniteSet(e.requireHeaders)
           /\ \A j \in DOMAIN e.scoreJA4 : e.scoreJA4[j] \in Nat
      [] OTHER -> e.kind \in {"xfcc", "coraza", "openapi", "graphql"}

IsToken(t) ==
    t \notin {NoValue, Garbage} =>
      /\ t.alg \in {"none", "HS256", "RS256"}
      /\ \A c \in DOMAIN t.claims : t.claims[c] \in {"null", "emptyString", "emptyArray", "zero", "value"}

IsMAC(sig) ==
    sig # NoValue =>
      /\ sig.ts # NoValue => sig.ts \in Int
      /\ sig.mac = [key |-> sig.mac.key,
                    over |-> [path |-> sig.mac.over.path, ts |-> sig.mac.over.ts,
                              nonce |-> sig.mac.over.nonce, digest |-> sig.mac.over.digest]]

IsRequest(req, truth) ==
    /\ req.dir \in {"request", "response"} /\ req.now \in Int /\ req.content # NoValue
    /\ IsToken(req.token) /\ IsMAC(req.sig)
    /\ NormalizePath(req.path) = truth.path
    /\ IsSlice(truth.certs) /\ \A i \in DOMAIN truth.certs : IsCert(truth.certs[i])
    /\ IF truth.certs = <<>> THEN req.xfcc = NoValue
       ELSE req.xfcc # NoValue /\ req.xfcc = EncodeXFCC(truth.certs)

IsSetJob(j) ==
    /\ j.op = "set" /\ j.policy.threshold \in Nat
    /\ IsSlice(j.engines) /\ \A i \in DOMAIN j.engines : IsEngine(j.engines[i])
    /\ IsRequest(j.req, j.truth)

ASSUME JobsAssumption ==
    /\ \A s \in Shapes : \A j \in SetJobs(s) : IsSetJob(j)
    /\ \A s \in BodyShapes : \A j \in BodyJobs(s) : IsBodyJob(j)

ASSUME KeysAssumption ==
    /\ SetWindow \in Nat
    /\ NoValue \notin SharedSecrets /\ NoValue \notin PublicKeys /\ SharedSecrets \intersect PublicKeys = {}

-----------------------------------------------------------------------------
(* A token or signature names the key that made it, and an HMAC made with a  *)
(* public key is anyone's.                                                   *)
Genuine(t) ==
    /\ t \notin {NoValue, Garbage}
    /\ ~t.expired
    /\ (t.by \in SharedSecrets /\ t.alg = "HS256") \/ (t.by \in PublicKeys /\ t.alg = "RS256")

GeoAdmits(geo, host) ==
    LET rec == geo.lookup[host] IN
    /\ geo.allow # {} => rec.country # "" /\ rec.country \in geo.allow
    /\ rec.country # "" => rec.country \notin geo.block
    /\ rec.asn # 0 => rec.asn \notin geo.blockASN
    /\ geo.blockOnMissing => rec.country # "" \/ rec.asn # 0

Entitled(e, req, truth) ==
    CASE e.kind = "jwt" ->
           /\ Genuine(req.token) /\ req.token.alg \in e.algs
           /\ req.token.by \in {e.secret, e.pubKey}
           /\ \A c \in e.required : c \in DOMAIN req.token.claims /\ req.token.claims[c] \in {"zero", "value"}
      [] e.kind = "jwks" ->
           /\ Genuine(req.token) /\ req.token.alg \in e.algs
           /\ \E k \in DOMAIN e.keys :
                /\ req.token.by = e.keys[k]
                /\ req.token.kid = k \/ (req.token.kid = "" /\ Cardinality(DOMAIN e.keys) = 1)
           /\ \A c \in e.required : c \in DOMAIN req.token.claims /\ req.token.claims[c] \in {"zero", "value"}
      [] e.kind = "api_key" ->
           /\ req.key \in DOMAIN e.keys
           /\ {b.scope : b \in {x \in e.bindings : IsPrefix(x.prefix, truth.path)}} \subseteq e.keys[req.key]
      [] e.kind = "hmac_sign" ->
           LET sig == req.sig IN
           /\ sig # NoValue /\ sig.hex /\ ~sig.seen
           /\ sig.mac.over.path = req.path /\ sig.mac.over.ts = sig.ts /\ sig.mac.over.nonce = sig.nonce
           /\ e.requireNonce => sig.mac.over.nonce # ""
           /\ sig.mac.over.digest = IF e.requireBody THEN req.content ELSE ""
           /\ IF DOMAIN e.secrets = {} THEN sig.mac.key = e.secret
              ELSE sig.keyID \in DOMAIN e.secrets /\ sig.mac.key = e.secrets[sig.keyID]
           /\ sig.ts # NoValue /\ sig.ts <= req.now + SetWindow /\ req.now <= sig.ts + SetWindow
      [] e.kind = "http_signature" ->
           /\ req.hsig # NoValue /\ req.hsig.key = e.key
           /\ e.covered \subseteq DOMAIN req.hsig.over
           /\ "path" \in e.covered => req.hsig.over["path"] = req.path
           /\ "digest" \in e.covered => req.hsig.over["digest"] = req.content /\ req.digest = req.content
      [] e.kind = "xfcc" ->
           IF truth.certs = <<>> THEN ~e.requirePresent
           ELSE HasAllow(e) => MatchesAllow(e.allow, Last(truth.certs))
      [] e.kind = "ip_reputation" ->
           IF req.ip = NoValue THEN e.allow = {}
           ELSE /\ req.ip.host \notin e.deny
                /\ e.allow # {} => req.ip.host \in e.allow
                /\ e.allow = {} => /\ req.ip.host \notin DOMAIN e.feeds
                                   /\ e.geo # NoValue => GeoAdmits(e.geo, req.ip.host)

CredentialEngines ==
    {"jwt", "jwks", "api_key", "hmac_sign", "http_signature", "xfcc", "ip_reputation"}

(* An engine that answers for who the caller is (tokens, keys, signatures,   *)
(* certificates, addresses) passes a request exactly when the caller is      *)
(* entitled to it: the key behind the token or signature is the configured   *)
(* one and it covers this very request, the scope is that of the resource    *)
(* the path names however it is spelled, the certificate is the one the      *)
(* proxy verified, deny lists win over allow lists and an allow list denies  *)
(* what it cannot place.  Responses always pass.                             *)
CallerEntitled ==
    \A k \in DOMAIN asked : \A n \in DOMAIN asked[k] :
      LET e == job.engines[asked[k][n].engine]
          v == asked[k][n].verdict
      IN  e.kind \in CredentialEngines =>
            IF job.req.dir = "response" THEN v = Pass
            ELSE v.action # "error" => (v = Pass <=> Entitled(e, job.req, job.truth))

PhaseEngines(k) == {i \in DOMAIN job.engines : NeedsBody(job.engines[i]) = (k = 2)}
CalledIn(k) == {asked[k][n].engine : n \in DOMAIN asked[k]}
VerdictsIn(k) == {asked[k][n].verdict : n \in DOMAIN asked[k]}
ScoreIn(k) == FoldLeft(LAMBDA a, c : a + c.verdict.score, 0, asked[k])
CountedIn(k) == IF results[k].kind \in {"deny", "fail"} THEN 0 ELSE ScoreIn(k)

Crosses(n) == job.policy.threshold > 0 /\ n >= job.policy.threshold

Surfaces(k) ==
    LET blocks == {v \in VerdictsIn(k) : v.action = "block"}
        worst == {v \in blocks : \A w \in blocks : w.severity <= v.severity}
        sum == FoldLeft(LAMBDA a, x : a + x, 0, [i \in 1 .. k |-> CountedIn(i)])
    IN  /\ results[k].kind = "deny" <=> blocks # {}
        /\ \A v \in worst : results[k].severity = v.severity
        /\ results[k].kind = "fail"
             <=> /\ blocks = {}
                 /\ Failed \in VerdictsIn(k) \/ CalledIn(k) # PhaseEngines(k)
        /\ CalledIn(k) \subseteq PhaseEngines(k) /\ Cardinality(CalledIn(k)) = Len(asked[k])
        /\ results[k].kind \notin {"deny", "fail"}
             => (results[k].kind = "anomaly" <=> Crosses(sum) /\ ~Crosses(sum - CountedIn(k)))

(* What the engines of a policy find reaches the decision: a phase denies    *)
(* exactly when an engine it called blocked, with the severity of the worst  *)
(* block, whatever scored or failed beside it; an error or a deadline with   *)
(* no block is a failure and never a pass; every engine is called once in    *)
(* the phase it belongs to; and the anomaly threshold is reported exactly    *)
(* once, by the phase in which the sum over both phases reaches it.          *)
FindingsSurface == \A k \in DOMAIN asked : Surfaces(k)

(* DLP forwards no sensitive byte and alters nothing else: a kind to block   *)
(* denies even when a match to redact overlaps it; what an enforcing policy  *)
(* forwards is every byte outside the matches to redact, in order, and of    *)
(* the bytes inside only the separators and last digits of a card; a policy  *)
(* that only observes forwards the body unchanged.                           *)
RedactionExact == (job.op = "checks" /\ at = "done") => Exact(job.policy, job.req, results[1])
=============================================================================
