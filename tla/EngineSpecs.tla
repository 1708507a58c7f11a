---------------------------- MODULE EngineSpecs ----------------------------
(***************************************************************************)
(* The engines block of a policy: what config/validate.go accepts of it,   *)
(* and what policy/engines.go and the constructors it calls make of it.    *)
(*                                                                         *)
(* An engines block is a function from the names of the engines it         *)
(* configures to their specifications.  A specification keeps the facts    *)
(* the two sides look at: durations, limits and scores are small integers, *)
(* a list is the set or sequence of the classes of its entries, and a file *)
(* or URL is what reading it gives ("" when the field is not set).         *)
(***************************************************************************)
EXTENDS Slices

CONSTANTS
    MaxLeeway,      \* 5 minutes: the largest clock-skew tolerance of a token
    MaxWindow,      \* one hour: hmacMaxWindow, httpsigMaxAge
    MinSecretLen,   \* hmacMinSecretLen
    HTTPSigMinLen   \* httpsigMinSecretLen

(* knownJWTAlgs by family; "none" and misspellings are not in it. *)
KnownAlgs == {"HS256", "RS256", "PS256", "ES256", "EdDSA"}

IsHS(alg) == alg = "HS256"

CRSMaxParanoia == 4

FeedFormats == {"cidr_lines", "firehol_netset", "spamhaus_json"}

DLPKinds == {"credit_card", "email"}

-----------------------------------------------------------------------------
(* validateSpec, the engines part: one predicate per engine, true when the *)
(* code adds no error.                                                     *)

(* validateSpec, engines.jwt *)
ValidJWT(j) ==
    /\ j.algs # {} /\ j.algs \subseteq KnownAlgs
    /\ j.hmac # (j.keyFile # "")                       \* exactly one key source
    /\ \A alg \in j.algs : IsHS(alg) <=> j.hmac
    /\ j.leeway \in 0 .. MaxLeeway

(* validateCoraza *)
ValidCoraza(c) ==
    /\ c.directives # "" \/ c.file # "" \/ c.owasp
    /\ (\E k \in DOMAIN c.tuning : c.tuning[k] # 0) => c.owasp
    /\ c.tuning.pl \in 0 .. CRSMaxParanoia /\ c.tuning.dpl \in 0 .. CRSMaxParanoia
    /\ c.tuning.dpl # 0 /\ c.tuning.pl # 0 => c.tuning.dpl >= c.tuning.pl
    /\ c.tuning.inbound >= 0 /\ c.tuning.outbound >= 0
    /\ c.excluded \subseteq {"id", "range"}

(* validateSpec, engines.rate_limit; "inf" stands for NaN and the infinities *)
ValidRateLimit(rl) ==
    /\ rl.rps # "inf" /\ rl.rps # "negative" /\ rl.rps # "zero"
    /\ rl.burst >= 0
    /\ rl.key \in {"", "ip", "host", "header"}
    /\ rl.key = "header" => rl.header

(* Mutant of ValidIPReputation: the CIDRs of the lists are not parsed. *)
ValidIPReputationAnyCIDR(ir) ==
    /\ ir.allow # {} \/ ir.deny # {} \/ ir.feeds # {} \/ ir.geo # <<>>
    /\ \A f \in ir.feeds : f.named /\ f.file # "" /\ f.format \in FeedFormats
    /\ ir.geo = <<>>

(* validateIPReputation *)
ValidIPReputation(ir) ==
    /\ "malformed" \notin ir.allow \union ir.deny
    /\ ir.allow # {} \/ ir.deny # {} \/ ir.feeds # {} \/ ir.geo # <<>>
    /\ \A f \in ir.feeds : f.named /\ f.file # "" /\ f.format \in FeedFormats
                           /\ f.severity \in {"", "low", "medium", "high", "critical"}
    /\ ir.geo # <<>> =>
         LET g == Head(ir.geo) IN
         /\ g.countryDB # "" \/ g.asnDB # ""
         /\ g.block # {} \/ g.allow # {} \/ g.asns # {} \/ g.onMissing = "block"
         /\ "bad" \notin g.block \union g.allow
         /\ g.block \intersect g.allow = {}
         /\ g.onMissing \in {"", "continue", "block"}

(* hasScoreLayer of validateBot *)
BotScores(b) == b.knownBot > 0 \/ b.scoreJA4 # {} \/ b.perAnomaly > 0

(* validateBot *)
ValidBot(b) ==
    /\ b.denyUA # {} \/ b.blockEmpty \/ b.knownBot > 0 \/ b.verified # {}
       \/ b.denyJA # {} \/ b.toolJA4 # {} \/ b.scoreJA4 # {} \/ b.perAnomaly > 0
    /\ "blank" \notin b.denyUA \union b.denyJA \union b.toolJA4
    /\ b.knownBot >= 0 /\ b.perAnomaly >= 0 /\ \A s \in b.scoreJA4 : s >= 0
    /\ BotScores(b) => b.threshold > 0 \/ b.emit
    /\ b.emit => BotScores(b)
    /\ \A v \in b.verified : v.named /\ v.file # "" /\ v.format \in FeedFormats
                             /\ v.ua = "regex"

(* validateAPIKey; a key entry is its digest, or what is wrong with it *)
ValidAPIKey(ak) ==
    /\ ak.source \in {"", "header", "query"}
    /\ ak.keys # <<>>
    /\ \A i \in DOMAIN ak.keys : ak.keys[i] \notin {"neither", "malformed"}
    /\ ak.bindings \subseteq {"complete"}

(* validateHMACSign; secrets is the set of the lengths of the per-key secrets *)
ValidHMACSign(h) ==
    /\ (h.secret # 0) # (h.secrets # {})
    /\ h.secret # 0 => h.secret >= MinSecretLen
    /\ \A len \in h.secrets : len >= MinSecretLen
    /\ h.algorithm \in {"", "sha256", "sha512"}
    /\ h.window = 0 \/ h.window \in 2 .. MaxWindow     \* half seconds: below one second is refused
    /\ h.nonceTTL \in 0 .. MaxWindow

(* validateHTTPSignature *)
ValidHTTPSignature(hs) ==
    hs.secret >= HTTPSigMinLen /\ hs.maxAge \in 0 .. MaxWindow

(* validateJWKS and isLoopbackHost *)
ValidJWKS(j) ==
    /\ (j.file = "") # (j.url = "")
    /\ j.algs # {} /\ j.algs \subseteq KnownAlgs /\ \A alg \in j.algs : ~IsHS(alg)
    /\ j.url # "" => j.scheme = "https" \/ j.loopback
    /\ j.leeway \in 0 .. MaxLeeway /\ j.refresh >= 0 /\ j.timeout >= 0

(* validateSpec, engines.xfcc *)
ValidXFCC(x) == x.requirePresent \/ x.allowed # {}

(* validateSpec, engines.graphql *)
ValidGraphQL(g) ==
    /\ \A lim \in DOMAIN g.limits : g.limits[lim] >= 0
    /\ (\E lim \in DOMAIN g.limits : g.limits[lim] > 0) \/ g.blockIntrospection

(* validateSpec, engines.openapi *)
ValidOpenAPI(o) == o.spec # ""

ValidEngine(name, spec) ==
    CASE name = "jwt" -> ValidJWT(spec)
      [] name = "coraza" -> ValidCoraza(spec)
      [] name = "rate_limit" -> ValidRateLimit(spec)
      [] name = "ip_reputation" -> ValidIPReputation(spec)
      [] name = "bot" -> ValidBot(spec)
      [] name = "api_key" -> ValidAPIKey(spec)
      [] name = "hmac_sign" -> ValidHMACSign(spec)
      [] name = "http_signature" -> ValidHTTPSignature(spec)
      [] name = "jwks" -> ValidJWKS(spec)
      [] name = "xfcc" -> ValidXFCC(spec)
      [] name = "graphql" -> ValidGraphQL(spec)
      [] name = "openapi" -> ValidOpenAPI(spec)

ValidEngines(engines) == \A name \in DOMAIN engines : ValidEngine(name, engines[name])

-----------------------------------------------------------------------------
(* The constructors, true when New returns an engine and no error.          *)

(* os.ReadFile, feed.Load, geoip.Open, an HTTP GET of a key set: what the   *)
(* operating system and the parsers of file formats answer.                 *)
Loads(file) == file \notin {"absent", "garbage"}

(* checkKeyAlgMatch: the type of the loaded key against every algorithm *)
CheckKeyAlgMatch(key, algs) ==
    algs \subseteq CASE key = "rsa" -> {"RS256", "PS256"}
                     [] key = "ec" -> {"ES256"}
                     [] key = "ed25519" -> {"EdDSA"}
                     [] OTHER -> {}

(* buildJWT, jwt.New, parsePublicKey; an empty key file leaves no key *)
BuildJWT(j) ==
    /\ j.keyFile # "" => Loads(j.keyFile)
    /\ j.hmac \/ j.keyFile \notin {"", "empty"}
    /\ j.algs # {}
    /\ j.keyFile \notin {"", "empty"} => CheckKeyAlgMatch(j.keyFile, j.algs)

(* buildEngines (coraza), engine.NewCoraza, coraza.newEngine, writeCRSTuning: *)
(* the rules text is the CRS with the set knobs, then the directives, then    *)
(* the removals; coraza compiles it unless some part of it is no SecLang.     *)
BuildCoraza(c) ==
    /\ c.owasp \/ c.directives # "" \/ c.file # ""
    /\ Loads(c.file) /\ c.directives # "garbage" /\ c.excluded \subseteq {"id", "range"}

(* buildRateLimit, ratelimit.New *)
BuildRateLimit(rl) == rl.rps \notin {"negative", "zero"}

(* geoip.Open: each database that is named must open *)
GeoOpens(g) == Loads(g.countryDB) /\ Loads(g.asnDB)

(* buildIPReputation, ipreputation.New, buildGeo *)
BuildIPReputation(ir) ==
    /\ "malformed" \notin ir.allow \union ir.deny
    /\ \A f \in ir.feeds : f.format \in FeedFormats /\ Loads(f.file) /\ f.file # ""
    /\ ir.geo # <<>> => GeoOpens(Head(ir.geo))

(* buildBot, bot.New *)
BuildBot(b) ==
    \A v \in b.verified : /\ v.ua # "badregex"
                          /\ v.format \in FeedFormats /\ Loads(v.file) /\ v.file # ""

(* buildAPIKey, apikey.New, decodeHex32: a digest given twice is refused.   *)
(* An entry with neither a digest nor a key stands for the digest of "".    *)
BuildAPIKey(ak) ==
    /\ \A i \in DOMAIN ak.keys : ak.keys[i] # "malformed"
    /\ \A i, k \in DOMAIN ak.keys : ak.keys[i] = ak.keys[k] => i = k

(* httpsig.New: the library refuses a short secret *)
BuildHTTPSignature(hs) == hs.secret >= HTTPSigMinLen

(* jwks.New *)
BuildJWKS(j) ==
    (j.file = "") # (j.url = "") /\ j.algs # {} /\ Loads(j.file) /\ Loads(j.url)

(* openapi.New *)
BuildOpenAPI(o) == o.spec # "" /\ Loads(o.spec)

(* buildRateLimit .. openapi.New by name; hmacsign, xfcc and graphql have no *)
(* error path.                                                               *)
BuildEngine(name, spec) ==
    CASE name = "jwt" -> BuildJWT(spec)
      [] name = "coraza" -> BuildCoraza(spec)
      [] name = "rate_limit" -> BuildRateLimit(spec)
      [] name = "ip_reputation" -> BuildIPReputation(spec)
      [] name = "bot" -> BuildBot(spec)
      [] name = "api_key" -> BuildAPIKey(spec)
      [] name = "http_signature" -> BuildHTTPSignature(spec)
      [] name = "jwks" -> BuildJWKS(spec)
      [] name = "openapi" -> BuildOpenAPI(spec)
      [] OTHER -> TRUE

(* buildEngines stops at the first error: all of them build, or it fails. *)
BuildEngines(engines) == \A name \in DOMAIN engines : BuildEngine(name, engines[name])

(* RequiresBody of each engine *)
EngineRequiresBody(name, spec) ==
    \/ name \in {"coraza", "graphql"}
    \/ name = "hmac_sign" /\ spec.bodyDigest
    \/ name = "http_signature" /\ spec.coversDigest
    \/ name = "openapi" /\ spec.validateBody

(* Set.RequiresBody and Set.InspectsResponse; a nil set answers false *)
RequiresBody(engines) == \E name \in DOMAIN engines : EngineRequiresBody(name, engines[name])

InspectsResponse(engines) == "coraza" \in DOMAIN engines
=============================================================================
