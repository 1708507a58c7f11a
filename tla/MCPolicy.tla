------------------------------ MODULE MCPolicy ------------------------------
(***************************************************************************)
(* Directories and requests for PolicyRouting, in four families: which     *)
(* host pattern wins, which route wins, how blocks combine over the        *)
(* scopes, and which engine blocks validation lets through.                *)
(***************************************************************************)
EXTENDS PolicyRouting, TLC

LOCAL SE == INSTANCE SequencesExt

NoSet == [x \in {} |-> 0]
Block(set) == [EmptySpec EXCEPT !.set = set]
File(defaults, domains, exclude) ==
    [state |-> "ok", kind |-> "SecurityPolicy", defaults |-> defaults,
     domains |-> domains, exclude |-> exclude]
Domain(hosts, policy, routes) == [hosts |-> hosts, policy |-> policy, routes |-> routes]
Pattern(kind, labels) == [kind |-> kind, labels |-> labels]
AnyHost == <<Pattern("all", <<>>)>>
Req(host, path, spelling, method, ct, headers) ==
    [host |-> host, path |-> path, spelling |-> spelling, method |-> method,
     ctype |-> ct, headers |-> headers]
JSON == [typ |-> "app", sub |-> "json"]
PlainReq(host, path, spelling) == Req(host, path, spelling, "GET", JSON, NoSet)

-----------------------------------------------------------------------------
(* Hosts: two files with one domain of one or two patterns each.             *)
Patterns == {Pattern("exact", <<"a", "x">>), Pattern("exact", <<"x">>), Pattern("sub", <<"x">>),
             Pattern("sub", <<"a", "x">>), Pattern("all", <<>>), Pattern("bad", <<>>)}
HostLists == SE!SeqOf(Patterns, 2)
HostConfigs ==
    {<<File(EmptySpec, <<Domain(h, EmptySpec, <<>>)>>, <<>>),
       [File(EmptySpec, <<Domain(g, EmptySpec, <<>>)>>, <<>>) EXCEPT !.state = st, !.kind = kind]>> :
        h \in HostLists, g \in HostLists, st \in {"ok"}, kind \in {"SecurityPolicy"}}
    \union
    {<<File(EmptySpec, <<Domain(AnyHost, EmptySpec, <<>>)>>, <<>>),
       [File(EmptySpec, <<Domain(AnyHost, EmptySpec, <<>>)>>, <<>>) EXCEPT !.state = st, !.kind = kind]>> :
        st \in {"ok", "vanished", "malformed"}, kind \in {"SecurityPolicy", "Other"}}
HostRequests ==
    {PlainReq(h, <<"/">>, s) :
        h \in {<<>>, <<"x">>, <<"a", "x">>, <<"b", "a", "x">>, <<"y">>},
        s \in {"plain", "upper", "user", "port", "dot"}}

-----------------------------------------------------------------------------
(* Routes: one domain with up to three routes, and an exclude list.          *)
AnyMatch == [path |-> NoSet, methods |-> {}, ctypes |-> {}, headers |-> {}]
PathForm(kind, v) == [x \in {kind} |-> v]
OnPath(kind, v) == [AnyMatch EXCEPT !.path = PathForm(kind, v)]
CoreMatches ==
    {AnyMatch, OnPath("exact", <<"/", "a">>), OnPath("prefix", <<"/", "a">>),
     OnPath("prefix", <<"/", "a", "/">>), OnPath("regex", "b"),
     [OnPath("prefix", <<"/", "a">>) EXCEPT !.methods = {"get"}]}
HeaderForms == {NoSet, PathForm("exact", <<"a", "b">>), PathForm("contains", <<"b">>),
                PathForm("regex", "b"), PathForm("regex", Nil), PathForm("present", FALSE),
                PathForm("exact", <<"a">>) @@ PathForm("present", TRUE)}
Matches ==
    CoreMatches
      \union {OnPath("regex", Nil),
              [AnyMatch EXCEPT !.path = PathForm("exact", <<"/">>) @@ PathForm("regex", "a")],
              [AnyMatch EXCEPT !.methods = {"GET"}], [AnyMatch EXCEPT !.methods = {"get"}],
              [AnyMatch EXCEPT !.methods = {"FETCH"}],
              [AnyMatch EXCEPT !.ctypes = {[typ |-> "app", sub |-> "*"]}],
              [AnyMatch EXCEPT !.ctypes = {[typ |-> "text", sub |-> "html"]}]}
      \union {[AnyMatch EXCEPT !.headers = {[name |-> "h", form |-> f]}] : f \in HeaderForms}
      \union {[AnyMatch EXCEPT !.headers = {[name |-> "", form |-> NoSet]}]}
RouteLists == SE!SeqOf(Matches, 2) \union [1 .. 3 -> CoreMatches]
RouteConfigs ==
    {<<File(EmptySpec, <<Domain(AnyHost, EmptySpec,
           [i \in DOMAIN ms |-> [match |-> ms[i], policy |-> EmptySpec]])>>, <<>>)>> : ms \in RouteLists}
    \union
    {<<File(EmptySpec, <<Domain(AnyHost, EmptySpec, <<[match |-> m, policy |-> EmptySpec]>>)>>, ex)>> :
        m \in CoreMatches, ex \in {<<<<"/", "a">>>>, <<<<"/", "a", "/">>, <<"/", "b">>>>, <<<<"a">>>>}}
Paths == {<<"/">>, <<"/", "a">>, <<"/", "a", "/">>, <<"/", "a", "/", "b">>, <<"/", "a", "b">>}
RouteRequests ==
    {PlainReq(<<"x">>, p, s) : p \in Paths, s \in {"plain", "query", "encoded", "dots", "slashes"}}
    \union {Req(<<"x">>, p, "plain", "POST", [typ |-> "text", sub |-> "html"], [h |-> v]) :
              p \in Paths, v \in {<<"a">>, <<"a", "b">>}}

-----------------------------------------------------------------------------
(* Scopes: the defaults of two files, a domain and a route.                  *)
Coraza(directives, file, owasp) ==
    [directives |-> directives, file |-> file, owasp |-> owasp, excluded |-> {},
     tuning |-> [pl |-> 0, dpl |-> 0, inbound |-> 0, outbound |-> 0]]
WithCoraza == [coraza |-> Coraza("rules", "", FALSE)]
WithXFCC == [xfcc |-> [requirePresent |-> TRUE, allowed |-> {}]]
BodyBlock(json, dlp) == [json |-> json, sensitive |-> FALSE, dlp |-> dlp]
DLP(direction) == [direction |-> direction, block |-> {}, redact |-> {"email"}]
Order(req, resp) == [request |-> req, response |-> resp]
FileBlocks ==
    {EmptySpec,
     [Block([mode |-> "detect"]) EXCEPT !.skip = {"x"}, !.engines = WithCoraza],
     [Block([max_request |-> 0, sampling_percent |-> 100]) EXCEPT
        !.pipeline = Order(<<"body_checks">>, Nil)],
     [Block(NoSet) EXCEPT !.pipeline = Order(Nil, <<"waf_engine", "body_checks">>), !.skip = {"y"}],
     [Block(NoSet) EXCEPT !.body = BodyBlock(FALSE, DLP("both"))]}
ScopeBlocks ==
    FileBlocks \union
    {Block([mode |-> "off"]),
     Block([mode |-> "block", response |-> TRUE]),
     Block([response |-> TRUE, max_response |-> 0]),
     Block([request |-> FALSE, response |-> FALSE, timeout |-> 1]),
     Block([timeout |-> 0]),
     [Block(NoSet) EXCEPT !.pipeline = Order(<<>>, <<>>)],
     [Block(NoSet) EXCEPT !.pipeline = Order(<<"body_checks", "body_checks">>, Nil)],
     [Block(NoSet) EXCEPT !.body = BodyBlock(TRUE, Nil)],
     [Block(NoSet) EXCEPT !.body = BodyBlock(FALSE, DLP("")), !.skip = {"x"}],
     [Block(NoSet) EXCEPT !.body = BodyBlock(FALSE, DLP("sideways"))],
     [Block(NoSet) EXCEPT !.engines = WithXFCC, !.pipeline = Order(<<"body_checks">>, Nil)],
     [Block(NoSet) EXCEPT !.engines = WithXFCC, !.headers = [maxValue |-> 1],
                          !.pipeline = Order(<<"waf_engine", "fast_pre_checks">>, <<"waf_engine">>)]}
ScopeConfigs ==
    {<<File(b1, <<>>, <<>>),
       File(b2, <<Domain(AnyHost, b3, <<[match |-> OnPath("exact", <<"/", "a">>), policy |-> b4]>>)>>, <<>>)>> :
        b1 \in FileBlocks, b2 \in FileBlocks, b3 \in ScopeBlocks, b4 \in ScopeBlocks}
ScopeRequests == {PlainReq(<<"x">>, p, "plain") : p \in {<<"/">>, <<"/", "a">>}}

-----------------------------------------------------------------------------
(* Engines: one domain with one engine, over the forms of its block.         *)
Files == {"", "absent", "garbage", "good"}
JWTs == [algs : SUBSET {"HS256", "RS256", "ES256", "none"}, hmac : BOOLEAN,
         keyFile : {"", "absent", "garbage", "empty", "rsa", "ec"}, leeway : {-1, 0, MaxLeeway + 1}]
Corazas == [directives : {"", "rules", "garbage"}, file : Files, owasp : BOOLEAN,
            excluded : {{}, {"id"}, {"text"}},
            tuning : [pl : {0, 3, 5}, dpl : {0, 2, 3}, inbound : {-1, 0}, outbound : {0}]]
RateLimits == [rps : {"inf", "negative", "zero", "positive"}, burst : {-1, 0, 1},
               key : {"", "ip", "header", "cookie"}, header : BOOLEAN]
Feeds == [named : BOOLEAN, file : Files, format : {"cidr_lines", "csv"}, severity : {"", "dire"}]
Geos == [countryDB : Files, asnDB : {"", "absent", "good"}, block : {{}, {"DE"}, {"bad"}},
         allow : {{}, {"DE"}}, asns : {{}, {1}}, onMissing : {"", "block", "drop"}]
IPReputations ==
    [allow : {{}, {"net"}, {"malformed"}}, deny : {{}, {"net"}}, feeds : {{}} \union {{f} : f \in Feeds},
     geo : {<<>>}]
    \union [allow : {{}}, deny : {{}}, feeds : {{}}, geo : {<<g>> : g \in Geos}]
Bots == [denyUA : {{}, {"ua"}, {"blank"}}, blockEmpty : {FALSE}, knownBot : {-1, 0, 2},
         verified : {{}} \union {{v} : v \in [named : {TRUE}, file : Files, format : {"cidr_lines"},
                                              ua : {"", "regex", "badregex"}]},
         denyJA : {{}}, toolJA4 : {{}}, scoreJA4 : {{}, {1}}, perAnomaly : {0}, threshold : {0, 1}, emit : BOOLEAN]
APIKeys == [source : {"", "query", "cookie"}, keys : SE!SeqOf({"k1", "k2", "neither", "malformed"}, 2),
            bindings : {{}, {"complete"}, {"partial"}}]
HMACs == [secret : {0, MinSecretLen - 1, MinSecretLen}, secrets : {{}, {MinSecretLen}, {1}},
          algorithm : {"", "sha256", "md5"}, window : {0, 1, 2, MaxWindow + 1}, nonceTTL : {-1, 0},
          bodyDigest : BOOLEAN]
HTTPSigs == [secret : {0, HTTPSigMinLen - 1, HTTPSigMinLen}, maxAge : {-1, 0, MaxWindow + 1},
             coversDigest : BOOLEAN]
JWKSs == [file : Files, url : Files, algs : {{}, {"RS256"}, {"HS256"}}, scheme : {"https", "http"},
          loopback : BOOLEAN, leeway : {0, MaxLeeway + 1}, refresh : {-1, 0}, timeout : {0}]
GraphQLs == [limits : [depth : {-1, 0, 1}, aliases : {0, 1}], blockIntrospection : BOOLEAN]
OpenAPIs == [spec : Files, validateBody : BOOLEAN]
EngineBlocks ==
    {[jwt |-> e] : e \in JWTs} \union {[coraza |-> e] : e \in Corazas}
      \union {[rate_limit |-> e] : e \in RateLimits} \union {[ip_reputation |-> e] : e \in IPReputations}
      \union {[bot |-> e] : e \in Bots} \union {[api_key |-> e] : e \in APIKeys}
      \union {[hmac_sign |-> e] : e \in HMACs} \union {[http_signature |-> e] : e \in HTTPSigs}
      \union {[jwks |-> e] : e \in JWKSs} \union {[graphql |-> e] : e \in GraphQLs}
      \union {[openapi |-> e] : e \in OpenAPIs}
      \union {[xfcc |-> [requirePresent |-> b, allowed |-> a]] : b \in BOOLEAN, a \in {{}, {"uri"}}}
EngineConfigs ==
    {<<File([Block(NoSet) EXCEPT !.engines = e], <<Domain(AnyHost, EmptySpec, <<>>)>>, <<>>)>> : e \in EngineBlocks}

-----------------------------------------------------------------------------
MCConfigs == HostConfigs \union RouteConfigs \union ScopeConfigs \union EngineConfigs
MCRequestsOf(fs) ==
    IF Len(fs) = 2 THEN (IF fs[1].domains = <<>> THEN ScopeRequests ELSE HostRequests)
    ELSE (IF fs[1].defaults.engines # Nil THEN {PlainReq(<<"x">>, <<"/">>, "plain")} ELSE RouteRequests)
=============================================================================
