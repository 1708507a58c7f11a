----------------------------- MODULE MCVerdicts -----------------------------
(***************************************************************************)
(* Requests, engines and bodies for EngineVerdicts.                        *)
(***************************************************************************)
EXTENDS GraphQLLimits, TLC

LOCAL SE == INSTANCE SequencesExt

None == [x \in {} |-> 0]
Policies(thresholds) ==
    {[mode |-> m, failOpen |-> f, threshold |-> t] : m \in {"block", "detect"}, f \in BOOLEAN, t \in thresholds}
      \union {[mode |-> "off", failOpen |-> TRUE, threshold |-> 0]}
Enforce == [mode |-> "block", failOpen |-> FALSE, threshold |-> 0]
InTime == [b \in BOOLEAN |-> 9]
NoQuery == [text |-> "empty", ops |-> <<>>, frags |-> None]
BaseReq ==
    [dir |-> "request", path |-> <<"/", "a">>, ip |-> NoValue, token |-> NoValue, key |-> NoValue,
     sig |-> NoValue, hsig |-> NoValue, xfcc |-> NoValue, digest |-> NoValue, content |-> "b1", now |-> 5,
     ua |-> "browser", ja4 |-> "", ja3 |-> "", present |-> {"accept"},
     waf |-> [request |-> <<"clean", "clean", "clean">>, response |-> <<"clean", "clean", "clean">>],
     api |-> [declared |-> TRUE, params |-> TRUE, body |-> TRUE],
     gql |-> [method |-> "GET", ctype |-> "", path |-> "/q", query |-> NoQuery, batch |-> <<>>]]
NoTruth == [path |-> <<"/", "a">>, certs |-> <<>>]
Job(engines, policy, req) ==
    [op |-> "set", engines |-> engines, policy |-> policy, req |-> req, truth |-> NoTruth, deadline |-> InTime]
Alone(e, req) == Job(<<e>>, Enforce, req)

-----------------------------------------------------------------------------
(* Tokens *)
Tokens ==
    {[alg |-> a, kid |-> k, by |-> b, expired |-> x, claims |-> c] :
        a \in {"none", "HS256", "RS256"}, k \in {"", "key1", "key3"}, b \in {"secret", "pub1", "pub2", "own"},
        x \in BOOLEAN, c \in {None, "sub" :> "value", "sub" :> "zero", "sub" :> "emptyString"}}
      \union {Garbage, NoValue}
JWTEngines ==
    {[kind |-> "jwt", algs |-> a, secret |-> s, pubKey |-> p, required |-> r] :
        a \in {{"HS256"}, {"RS256"}, {"HS256", "RS256"}}, s \in {NoValue, "secret"}, p \in {NoValue, "pub1"},
        r \in {{}, {"sub"}}}
ConfiguredJWTEngines ==
    {e \in JWTEngines : ("HS256" \in e.algs <=> e.secret # NoValue) /\ ("RS256" \in e.algs <=> e.pubKey # NoValue)}
JWKSEngines ==
    {[kind |-> "jwks", algs |-> {"RS256"}, keys |-> k, required |-> {"sub"}] :
        k \in {"key1" :> "pub1", "" :> "pub2", ("key1" :> "pub1") @@ ("key2" :> "pub2")}}
TokenJobs(e) == {Alone(e, [BaseReq EXCEPT !.token = t]) : t \in Tokens}

(* API keys, under every spelling of the path *)
APIKeyEngines ==
    {[kind |-> "api_key", keys |-> ("alice" :> {"admin"}) @@ ("bob" :> {}), bindings |-> b] :
        b \in {{}, {[prefix |-> <<"/", "a">>, scope |-> "admin"]},
               {[prefix |-> <<"/", "a", "/">>, scope |-> "admin"], [prefix |-> <<"/">>, scope |-> "read"]}}}
KeyJobs(e) ==
    {[Alone(e, [BaseReq EXCEPT !.key = k, !.path = Written(p, s)]) EXCEPT !.truth.path = p] :
        k \in {NoValue, "alice", "bob", "eve"},
        p \in {<<"/">>, <<"/", "a">>, <<"/", "b">>, <<"/", "a", "/">>},
        s \in {"plain", "query", "encoded", "dots", "slashes"}}

(* Request signatures: what was signed, and what arrives *)
HMACEngines ==
    {[kind |-> "hmac_sign", secret |-> "s0", secrets |-> s, requireNonce |-> n, requireBody |-> b] :
        s \in {None, ("id1" :> "s1") @@ ("id2" :> "s2")}, n \in BOOLEAN, b \in BOOLEAN}
MACs ==
    {[hex |-> h, ts |-> t, nonce |-> n, keyID |-> k, seen |-> s,
      mac |-> [key |-> key, over |-> [path |-> p, ts |-> 4, nonce |-> "n", digest |-> d]]] :
        h \in {TRUE}, t \in {NoValue, 4}, n \in {"", "n"}, k \in {"", "id1"}, s \in BOOLEAN,
        key \in {"s0", "s1", "s2"}, p \in {<<"/", "a">>, <<"/", "b">>}, d \in {"", "b1", "b2"}}
HMACJobs(e) ==
    {Alone(e, [BaseReq EXCEPT !.sig = s, !.now = t]) : s \in MACs, t \in {2, 3, 5, 6}} \union {Alone(e, BaseReq)}
HTTPSigEngines == {[kind |-> "http_signature", key |-> "kA", covered |-> c] : c \in {{"path"}, {"path", "digest"}}}
HTTPSigJobs(e) ==
    {Alone(e, [BaseReq EXCEPT !.hsig = s, !.digest = d]) :
        d \in {NoValue, "b1", "b2"},
        s \in {NoValue} \union
              {[key |-> k, over |-> o] : k \in {"kA", "kB"},
                  o \in {None, "path" :> <<"/", "a">>} \union
                        {("path" :> p) @@ ("digest" :> g) : p \in {<<"/", "a">>, <<"/", "b">>}, g \in {"b1", "b2"}}}}

(* Certificates: the header the proxy writes for one or two of them *)
Chars == {"x", ",", ";", "=", Quote, Backslash}
Values(n) == SE!SeqOf(Chars, n) \ {<<>>}
Cert(subject) == [EmptyElement EXCEPT !.subject = subject]
CertChains ==
    {<<Cert(s), Cert(t)>> : s \in Values(2), t \in Values(2)}
      \union {<<Cert(s)>> : s \in Values(3)}
      \union {<<[Cert(<<"x">>) EXCEPT !.uris = {u}], [Cert(<<"y">>) EXCEPT !.uris = {v}, !.hash = <<"h">>]>> :
                u \in Values(2), v \in {<<"x">>, <<"x", ",">>}}
      \union {<<>>, <<[Cert(<<"y">>) EXCEPT !.dns = {<<"d">>}]>>}
XFCCEngines ==
    {[kind |-> "xfcc", requirePresent |-> r, allow |-> a] : r \in BOOLEAN,
        a \in {[subjects |-> {}, uris |-> {}, dns |-> {}, hashes |-> {}],
               [subjects |-> {<<"x">>, <<"x", ",">>, <<Quote, Backslash>>}, uris |-> {<<"x">>},
                dns |-> {<<"d">>}, hashes |-> {}]}}
CertJobs(e) ==
    {[Alone(e, [BaseReq EXCEPT !.xfcc = IF c = <<>> THEN NoValue ELSE EncodeXFCC(c)]) EXCEPT !.truth.certs = c] :
        c \in CertChains}

(* Addresses *)
Record(c, n) == [country |-> c, asn |-> n]
GeoTables ==
    {NoValue} \union
    {[lookup |-> [h \in {"h1", "h2"} |-> IF h = "h1" THEN r ELSE NoValue], blockOnMissing |-> m,
      block |-> {"XX"}, allow |-> a, blockASN |-> {7}] :
        r \in {Record("", 0), Record("XX", 0), Record("YY", 7), Record("YY", 1), Record("", 1)},
        m \in BOOLEAN, a \in {{}, {"YY"}}}
IPEngines ==
    {[kind |-> "ip_reputation", deny |-> d, allow |-> a, feeds |-> f, geo |-> g] :
        d \in {{}, {"h1"}}, a \in {{}, {"h1"}, {"h2"}}, f \in {None, "h1" :> Low}, g \in GeoTables}
IPJobs(e) ==
    {Alone(e, [BaseReq EXCEPT !.ip = i]) : i \in {NoValue, [host |-> "h1"], [host |-> "h2"]}}

(* EngineLists of several engines, with errors, scores and deadlines *)
BotEngine ==
    [kind |-> "bot", verified |-> {[uas |-> {"crawler"}, ips |-> {"h1"}]}, blockEmpty |-> TRUE,
     denyUA |-> {"tool"}, denyJA4 |-> {"j1"}, toolJA4 |-> {"j2"}, denyJA3 |-> {"j3"}, scoreKnownBot |-> 1,
     scoreJA4 |-> "j4" :> 2, headerScore |-> 1, requireHeaders |-> {"accept", "accept-language"},
     emitScore |-> TRUE, threshold |-> 0]
BotEngines == {BotEngine, [BotEngine EXCEPT !.emitScore = FALSE, !.threshold = 2],
         [BotEngine EXCEPT !.verified = {}]}
CorazaEngine == [kind |-> "coraza", closed |-> FALSE]
FewGeo == [kind |-> "ip_reputation", deny |-> {}, allow |-> {}, feeds |-> None,
           geo |-> [lookup |-> [h \in {"h1", "h2"} |-> IF h = "h1" THEN Record("YY", 1) ELSE NoValue],
                    blockOnMissing |-> FALSE, block |-> {}, allow |-> {}, blockASN |-> {}]]
NeedsKey == [kind |-> "api_key", keys |-> "alice" :> {}, bindings |-> {}]
Contract(b) == [kind |-> "openapi", validateBody |-> b]
EngineLists ==
    {<<c, b>> : b \in BotEngines, c \in {CorazaEngine, [CorazaEngine EXCEPT !.closed = TRUE], FewGeo}}
      \union {<<b, NeedsKey>> : b \in BotEngines}
      \union {<<CorazaEngine, FewGeo, b, NeedsKey, Contract(v)>> : b \in BotEngines, v \in BOOLEAN}
      \union {<<>>}
SetReqs ==
    {[BaseReq EXCEPT !.dir = d, !.ip = i, !.key = k, !.ua = u, !.ja4 = j, !.waf.request = w, !.api.body = b] :
        d \in {"request"}, i \in {[host |-> "h1"], [host |-> "h2"]}, k \in {NoValue, "alice"},
        u \in {"browser", "crawler", "tool"}, j \in {"", "j4"},
        w \in {<<"clean", "clean", "clean">>, <<"clean", "interrupted", "error">>, <<"clean", "error", "clean">>},
        b \in BOOLEAN}
      \union {[BaseReq EXCEPT !.dir = "response", !.waf.response = w] :
                w \in {<<"clean", "clean", "clean">>, <<"interrupted", "clean", "clean">>}}
      \union {[BaseReq EXCEPT !.ja4 = "j1"], [BaseReq EXCEPT !.ja4 = "j2"], [BaseReq EXCEPT !.ja3 = "j3"],
              [BaseReq EXCEPT !.ua = ""],
              [BaseReq EXCEPT !.api.declared = FALSE]}
Deadlines == {InTime, [b \in BOOLEAN |-> IF b THEN 9 ELSE 1], [b \in BOOLEAN |-> IF b THEN 1 ELSE 9]}
PhaseJobs(s, p) ==
    {[Job(s, p, r) EXCEPT !.deadline = d] :
        r \in SetReqs, d \in IF Len(s) = 5 /\ p.threshold = 2 THEN Deadlines ELSE {InTime}}

(* GraphQL documents: an operation over two fragments *)
Field(name, alias, sub) == [t |-> "field", name |-> name, alias |-> alias, sub |-> sub]
Inline(sub) == [t |-> "inline", sub |-> sub]
Spread(name) == [t |-> "spread", name |-> name]
A == Field("a", "a", <<>>)
Bodies == {<<A>>, <<A, Field("a", "b", <<>>)>>, <<Field("a", "", <<A>>)>>, <<Field("__type", "", <<>>)>>}
FBodies == Bodies \union {<<Spread("F")>>}
GBodies == Bodies \union {<<Spread("F"), A>>, <<Inline(<<Spread("F")>>), Spread("F")>>}
Selections ==
    {A, Field("a", "b", <<>>), Field("a", "", <<Spread("G")>>), Inline(<<A, Spread("F")>>), Spread("F"),
     Spread("G"), Spread("U"), Field("__schema", "", <<A>>)}
Ops == SE!SeqOf(Selections, 2) \ {<<>>}
Doc(ops, f, g) == [text |-> "ok", ops |-> ops, frags |-> [x \in {"F", "G"} |-> IF x = "F" THEN f ELSE g]]
GraphQLEngine ==
    [kind |-> "graphql", contentTypes |-> {"json", "graphql"}, paths |-> {"/q"}, maxOperations |-> 1, maxDepth |-> 0,
     maxAliases |-> 0, maxRootFields |-> 0, maxTotalFields |-> 0, blockIntrospection |-> FALSE,
     maxNodes |-> 9, maxFragDepth |-> 1]
GraphQLEngines ==
    {[GraphQLEngine EXCEPT !.maxDepth = 1, !.blockIntrospection = TRUE],
     [GraphQLEngine EXCEPT !.maxAliases = 1, !.maxDepth = 2], [GraphQLEngine EXCEPT !.maxTotalFields = 3],
     [GraphQLEngine EXCEPT !.maxRootFields = 2, !.maxFragDepth = 2], [GraphQLEngine EXCEPT !.maxNodes = 4]}
Posted(ct, q, batch) == [method |-> "POST", ctype |-> ct, path |-> "/q", query |-> q, batch |-> batch]
SimpleDoc == Doc(<<<<A>>>>, <<A>>, <<A>>)
OtherQueries ==
    {Posted("json", NoQuery, <<NoQuery, SimpleDoc>>),
     Posted("json", NoQuery, <<SimpleDoc, Doc(<<<<Spread("G")>>>>, <<A>>, <<A, A, A>>)>>),
     Posted("text", SimpleDoc, <<>>),
     Posted("graphql", Doc(<<<<A>>, <<Spread("F"), Spread("F")>>>>, <<A, A>>, <<A>>), <<>>),
     Posted("graphql", [SimpleDoc EXCEPT !.text = "malformed"], <<>>),
     [Posted("", Doc(<<<<Spread("G")>>>>, <<A>>, <<A, A, A>>), <<>>) EXCEPT !.method = "GET"],
     [Posted("", SimpleDoc, <<>>) EXCEPT !.path = "/x"]}
DocJobs(e, f, g) ==
    {Alone(e, [BaseReq EXCEPT !.gql = Posted("graphql", Doc(<<op>>, f, g), <<>>)]) : op \in Ops}
QueryJobs(e) == {Alone([e EXCEPT !.maxOperations = n], [BaseReq EXCEPT !.gql = g]) : n \in {0, 1}, g \in OtherQueries}

-----------------------------------------------------------------------------
(* Bodies and the matches a detector can report on them *)
BodyLen == 5
Texts == {<<"digit", "digit", "sep", "digit", "digit">>, <<"digit", "digit", "digit", "text", "digit">>,
          <<"text", "digit", "digit", "digit", "text">>}
Kinds == {"credit_card", "email", "ssn"}
MatchesOf(body) ==
    {m \in [start : 1 .. BodyLen, end : 2 .. BodyLen + 1, kind : Kinds] :
        /\ m.start < m.end
        /\ m.kind = "credit_card" =>
             /\ \A i \in m.start .. m.end - 1 : body[i] \in {"digit", "sep"}
             /\ body[m.start] = "digit" /\ body[m.end - 1] = "digit"}
Apart(m, n) == m.end <= n.start \/ n.end <= m.start
Findings(body) ==
    {s \in SE!SeqOf(MatchesOf(body), 2) :
        Sorted(s) /\ \A i, j \in DOMAIN s : i < j /\ s[i].kind = s[j].kind => Apart(s[i], s[j])}
Triples(body) ==
    {<<a, b, c>> \in {m \in MatchesOf(body) : m.kind = "credit_card"}
                       \X {m \in MatchesOf(body) : m.kind = "email"} \X {m \in MatchesOf(body) : m.kind = "ssn"} :
        Sorted(<<a, b, c>>)}
DLPPolicies ==
    {[mode |-> m, requireJSON |-> FALSE, detect |-> FALSE, skip |-> {},
      dlp |-> [redact |-> r, block |-> b, directions |-> d]] :
        m \in {"block", "detect"}, r \in {{"credit_card", "email"}, Kinds}, b \in {{}, {"ssn"}},
        d \in {{"request"}}}
BodyReq(body, matches) ==
    [dir |-> "request", body |-> body, matches |-> matches, jsonType |-> TRUE, jsonValid |-> TRUE]
CheckJob(p, req) == [op |-> "checks", policy |-> p, req |-> req]
OtherPolicies ==
    {[mode |-> m, requireJSON |-> j, detect |-> d, skip |-> s,
      dlp |-> [redact |-> {"email"}, block |-> {}, directions |-> {"response"}]] :
        m \in {"block", "shadow", "off"}, j \in BOOLEAN, d \in BOOLEAN, s \in {{}, {"json"}, {"sensitive_data"}}}
OneEmail == <<[start |-> 1, end |-> 3, kind |-> "email"]>>

MCBodyShapes == {<<"dlp", p, b>> : p \in DLPPolicies, b \in Texts} \union {<<"other", p, b>> : p \in OtherPolicies, b \in Texts}
MCBodyJobs(s) ==
    IF s[1] = "dlp" THEN {CheckJob(s[2], BodyReq(s[3], f)) : f \in Findings(s[3]) \union Triples(s[3])}
    ELSE {CheckJob(s[2], [BodyReq(b, f) EXCEPT !.dir = d, !.jsonValid = v]) :
            b \in {s[3]}, f \in {<<>>, OneEmail}, d \in {"request", "response"}, v \in BOOLEAN}
           \union {CheckJob(s[2], BodyReq(<<>>, <<>>))}

MCShapes ==
    {<<"token", e>> : e \in ConfiguredJWTEngines \union JWKSEngines} \union {<<"key", e>> : e \in APIKeyEngines}
      \union {<<"hmac", e>> : e \in HMACEngines} \union {<<"httpsig", e>> : e \in HTTPSigEngines}
      \union {<<"cert", e>> : e \in XFCCEngines} \union {<<"ip", e>> : e \in IPEngines}
      \union {<<"phases", s, p>> : s \in EngineLists, p \in Policies({0, 2, 3})}
      \union {<<"doc", e, f, g>> : e \in GraphQLEngines, f \in FBodies, g \in GBodies}
      \union {<<"query", e>> : e \in GraphQLEngines}

MCSetJobs(s) ==
    CASE s[1] = "token" -> TokenJobs(s[2])
      [] s[1] = "key" -> KeyJobs(s[2])
      [] s[1] = "hmac" -> HMACJobs(s[2])
      [] s[1] = "httpsig" -> HTTPSigJobs(s[2])
      [] s[1] = "cert" -> CertJobs(s[2])
      [] s[1] = "ip" -> IPJobs(s[2])
      [] s[1] = "phases" -> PhaseJobs(s[2], s[3])
      [] s[1] = "doc" -> DocJobs(s[2], s[3], s[4])
      [] s[1] = "query" -> QueryJobs(s[2])
=============================================================================
