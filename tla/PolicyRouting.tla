--------------------------- MODULE PolicyRouting ---------------------------
(***************************************************************************)
(* From the parsed configuration files to the policy of a request:         *)
(* config.Load (validateFile, Merge, validateMerged), policy.Compile and   *)
(* the policy_resolve stage with the matchers it runs.                     *)
(*                                                                         *)
(* A regular expression that does not compile is Nil.                      *)
(***************************************************************************)
EXTENDS PolicySpec, Matchers

CONSTANTS
    Configs,       \* the directories considered: sequences of files in name order
    RequestsOf(_)  \* the requests considered for a directory: see Spell

(* What the decoder makes of a file: lists are sequences and flags are       *)
(* flags; "*" is the pattern without labels, "*." is followed by some, and   *)
(* a name is shorter than the score of an exact host.                        *)
DecodedMatch(m) == "prefix" \in DOMAIN m.path => IsSlice(m.path["prefix"])

DecodedSpec(s) ==
    /\ s.engines # Nil /\ "jwt" \in DOMAIN s.engines => s.engines["jwt"].hmac \in BOOLEAN
    /\ s.pipeline # Nil =>
         \A dir \in Directions : s.pipeline[dir] # Nil => IsSlice(s.pipeline[dir])

DecodedDomain(d) ==
    /\ IsSlice(d.hosts) /\ IsSlice(d.routes) /\ DecodedSpec(d.policy)
    /\ \A r \in ToSet(d.routes) : DecodedMatch(r.match) /\ DecodedSpec(r.policy)
    /\ \A h \in ToSet(d.hosts) :
         /\ IsSlice(h.labels) /\ Len(h.labels) < HostExactScore
         /\ h.kind = "all" => h.labels = <<>>
         /\ h.kind = "sub" => h.labels # <<>>

DecodedFile(f) ==
    IsSlice(f.domains) /\ DecodedSpec(f.defaults) /\ \A d \in ToSet(f.domains) : DecodedDomain(d)

ASSUME ConfigsAssumption ==
    \A fs \in Configs : IsSlice(fs) /\ \A f \in ToSet(fs) : DecodedFile(f)

(* A request has the path that NormalizePath returns. *)
ASSUME RequestsAssumption ==
    \A fs \in Configs : \A req \in RequestsOf(fs) :
        PlainPath(req.path) /\ NormalizePath(req.path) = req.path

VARIABLES
    phase,       \* "parsed", "merged", "rejected", "compiled" or "failed"
    files,       \* what ReadDir returned
    merged,      \* the MergedConfig
    resolver,    \* the Resolver
    served       \* the last request resolved and the policy it got

pvars == <<phase, files, merged, resolver, served>>

-----------------------------------------------------------------------------
(* validateMatch *)
ValidMatch(m) ==
    /\ Cardinality(DOMAIN m.path) <= 1
    /\ "regex" \in DOMAIN m.path => m.path["regex"] # Nil
    /\ \A x \in m.methods : ToUpper(x) \in KnownMethods
    /\ \A h \in m.headers :
         /\ h.name # "" /\ Cardinality(DOMAIN h.form) <= 1
         /\ "regex" \in DOMAIN h.form => h.form["regex"] # Nil

(* routeSignature *)
Signature(m) == [m EXCEPT !.methods = {ToUpper(x) : x \in m.methods}]

ValidDomain(d) ==
    /\ d.hosts # <<>> /\ \A i \in DOMAIN d.hosts : ValidHost(d.hosts[i])
    /\ ValidSpec(d.policy)
    /\ \A i \in DOMAIN d.routes : ValidMatch(d.routes[i].match) /\ ValidSpec(d.routes[i].policy)
    /\ \A i, k \in DOMAIN d.routes :
         Signature(d.routes[i].match) = Signature(d.routes[k].match) => i = k

(* validateFile; apiVersion and kind are one fact *)
ValidFile(f) ==
    /\ f.kind = "SecurityPolicy"
    /\ ValidSpec(f.defaults)
    /\ \A p \in ToSet(f.exclude) : p # <<>> /\ Head(p) = "/"
    /\ \A i \in DOMAIN f.domains : ValidDomain(f.domains[i])

(* Merge: files come in name order *)
Merge(fs) ==
    [defaults |-> FoldLeft(LAMBDA acc, f : OverlaySpec(acc, f.defaults), EmptySpec, fs),
     domains |-> FoldLeft(LAMBDA acc, f : acc \o f.domains, <<>>, fs),
     excludes |-> UNION {ToSet(fs[i].exclude) : i \in DOMAIN fs}]

(* Mutant of ValidMerged: a host is compared within a domain only. *)
ValidMergedPerDomain(mc) ==
    \A i \in DOMAIN mc.domains : IsInjective([k \in DOMAIN mc.domains[i].hosts |-> HostKey(mc.domains[i].hosts[k])])

(* validateMerged: no host twice, in one domain or in two *)
ValidMerged(mc) ==
    LET all == FoldLeft(LAMBDA acc, d : acc \o d.hosts, <<>>, mc.domains)
    IN  IsInjective([k \in DOMAIN all |-> HostKey(all[k])])

-----------------------------------------------------------------------------
(* policy.Compile *)

(* sortRoutes: stable, most specific first *)
More(a, b) ==
    \/ PathKind(a.match) > PathKind(b.match)
    \/ PathKind(a.match) = PathKind(b.match) /\ PrefixLen(a.match) > PrefixLen(b.match)

(* The next route goes behind the last one that it does not outrank. *)
Place(sorted, route) ==
    InsertAt(sorted, 1 + Max({0} \union {i \in DOMAIN sorted : ~More(route, sorted[i])}), route)

SortRoutes(routes) == FoldLeft(Place, <<>>, routes)

(* compilePolicy and FromResolved; the pipelines are built from it *)
CompilePolicy(id, p) == Over(p, [id |-> id, pipelines |-> Pipelines(p)])

(* Mutant of CompileDomain: a route is resolved without its domain's block. *)
CompileDomainSkippingDomain(mc, n) ==
    LET d == mc.domains[n] IN
    [n |-> n,
     hosts |-> {CompileHost(d.hosts[i]) : i \in DOMAIN d.hosts},
     default |-> CompilePolicy(<<n, 0>>, Resolve(DefaultPolicy, <<mc.defaults, d.policy>>)),
     routes |-> SortRoutes([i \in DOMAIN d.routes |->
                  [match |-> d.routes[i].match,
                   policy |-> CompilePolicy(<<n, i>>, Resolve(DefaultPolicy,
                                <<mc.defaults, d.routes[i].policy>>))]])]

CompileDomain(mc, n) ==
    LET d == mc.domains[n] IN
    [n |-> n,
     hosts |-> {CompileHost(d.hosts[i]) : i \in DOMAIN d.hosts},
     default |-> CompilePolicy(<<n, 0>>, Resolve(DefaultPolicy, <<mc.defaults, d.policy>>)),
     routes |-> SortRoutes([i \in DOMAIN d.routes |->
                  [match |-> d.routes[i].match,
                   policy |-> CompilePolicy(<<n, i>>, Resolve(DefaultPolicy,
                                <<mc.defaults, d.policy, d.routes[i].policy>>))]])]

(* The engines blocks some policy of the resolver uses. *)
UsedEngines(doms) ==
    {p.engines : p \in UNION {{d.default} \union {d.routes[i].policy : i \in DOMAIN d.routes} : d \in ToSet(doms)}}
      \ {Nil}

(* The index by host: a domain of exact hosts only is filed under each of    *)
(* them, any other domain is scanned.                                        *)
AllExact(d) == \A h \in d.hosts : h.kind = "exact"

CompileResolver(mc) ==
    LET doms == [n \in DOMAIN mc.domains |-> CompileDomain(mc, n)] IN
    [exact |-> [labels \in {h.labels : h \in UNION {d.hosts : d \in {x \in ToSet(doms) : AllExact(x)}}} |->
                  Keep(doms, {d \in ToSet(doms) : AllExact(d) /\ \E h \in d.hosts : h.labels = labels})],
     wildcard |-> Keep(doms, {d \in ToSet(doms) : ~AllExact(d)}),
     excludes |-> {NormalizePath(p) : p \in mc.excludes},
     all |-> doms]

-----------------------------------------------------------------------------
(* Resolver.Resolve *)

(* compiledDomain.hostSpecificity *)
Specificity(d, host) ==
    LET scores == {HostSpecificity(h) : h \in {x \in d.hosts : HostMatch(x, host)}}
    IN  IF scores = {} THEN -1 ELSE Max(scores)

(* The scan of one bucket: a domain wins only with a higher score. *)
Scan(best, doms, host) ==
    FoldLeft(LAMBDA b, d : IF Specificity(d, host) > b.score
                           THEN [score |-> Specificity(d, host), dom |-> d] ELSE b,
             best, doms)

NoDomain == [score |-> -1, dom |-> Nil]

BestDomain(r, host) ==
    LET key == NormalizeHost(host).labels
        exact == IF key \in DOMAIN r.exact THEN Scan(NoDomain, r.exact[key], host) ELSE NoDomain
    IN  Scan(exact, r.wildcard, host)

PassThroughPolicy == [id |-> "exclude", set |-> [mode |-> "off"]]

(* policy_resolve: the exclude list first, then Resolver.Resolve *)
PolicyResolve(r, in) ==
    LET path == NormalizePath(in.path)
        best == BestDomain(r, in.host)
        hits == {i \in DOMAIN best.dom.routes :
                   RouteMatches(best.dom.routes[i].match, [in EXCEPT !.path = path])}
    IN  CASE path \in r.excludes -> PassThroughPolicy
          [] path \notin r.excludes /\ best = NoDomain -> Nil
          [] OTHER -> IF hits # {} THEN best.dom.routes[Min(hits)].policy ELSE best.dom.default

-----------------------------------------------------------------------------
PInit ==
    /\ phase = "parsed" /\ files \in Configs
    /\ merged = Nil /\ resolver = Nil /\ served = Nil

(* The files ReadDir hands on: one that vanished since the listing is skipped *)
Parsed(fs) == Keep(fs, {f \in ToSet(fs) : f.state # "vanished"})

(* config.Load *)
Load ==
    /\ phase = "parsed"
    /\ LET fs == Parsed(files)
           mc == Merge(fs)
           ok == /\ \A i \in DOMAIN fs : fs[i].state = "ok" /\ ValidFile(fs[i])
                 /\ ValidMerged(mc)
       IN  /\ phase' = IF ok THEN "merged" ELSE "rejected"
           /\ merged' = IF ok THEN mc ELSE Nil
    /\ UNCHANGED <<files, resolver, served>>

(* policy.Compile: the first engine that cannot be built aborts the reload *)
Compile ==
    /\ phase = "merged"
    /\ LET r == CompileResolver(merged)
           ok == \A e \in UsedEngines(r.all) : BuildEngines(e)
       IN  /\ phase' = IF ok THEN "compiled" ELSE "failed"
           /\ resolver' = IF ok THEN r ELSE Nil
    /\ UNCHANGED <<files, merged, served>>

(* policy_resolve for one request *)
Serve(req) ==
    /\ phase = "compiled"
    /\ served' = [req |-> req, policy |-> PolicyResolve(resolver, Spell(req))]
    /\ UNCHANGED <<phase, files, merged, resolver>>

PNext == Load \/ Compile \/ \E req \in RequestsOf(files) : Serve(req)

PSpec == PInit /\ [][PNext]_pvars

-----------------------------------------------------------------------------
(* What the configuration means, said without the resolver's data            *)
(* structures: the blocks that are in scope, and the claims of the domains.  *)

Beats(p, q) ==
    \/ p.kind = "exact" /\ q.kind # "exact"
    \/ p.kind = "sub" /\ (q.kind = "all" \/ (q.kind = "sub" /\ Len(p.labels) > Len(q.labels)))

Covers(p, labels) ==
    CASE p.kind = "exact" -> labels = p.labels
      [] p.kind = "sub" -> Len(labels) > Len(p.labels) /\ IsSuffix(p.labels, labels)
      [] p.kind = "all" -> TRUE

(* The domains that claim the host with a pattern no other claim beats. *)
OwnersOf(labels) ==
    LET claims == UNION {{[n |-> n, p |-> h] : h \in {x \in ToSet(merged.domains[n].hosts) : Covers(x, labels)}} :
                           n \in DOMAIN merged.domains}
    IN  {c.n : c \in {x \in claims : \A y \in claims : ~Beats(y.p, x.p)}}

(* The route of domain n that must serve: it matches, nothing that matches   *)
(* is more specific, and nothing as specific was declared before it.         *)
RouteFor(n, req) ==
    LET routes == merged.domains[n].routes
        hits == {i \in DOMAIN routes : RouteMatches(routes[i].match, req)}
        best == {i \in hits : \A k \in hits : More(routes[i], routes[k])
                                              \/ (~More(routes[k], routes[i]) /\ i <= k)}
    IN  IF hits = {} THEN 0 ELSE CHOOSE i \in best : TRUE

(* The blocks in scope of a policy id <<domain, route>>, least specific first. *)
ScopesOf(id) ==
    LET fs == Parsed(files)
        d == merged.domains[id[1]]
    IN  [i \in DOMAIN fs |-> fs[i].defaults] \o <<d.policy>>
          \o (IF id[2] = 0 THEN <<>> ELSE <<d.routes[id[2]].policy>>)

(* The last of the scopes that has the property, 0 when none has. *)
LastThat(scopes, P(_)) == Max({0} \union {i \in DOMAIN scopes : P(scopes[i])})

(* The scope whose pipeline block decides the order of dir, 0 when none: a   *)
(* file's pipeline block hides the whole block of the files before it, a     *)
(* domain's or route's only the directions it sets.                          *)
OrderScope(scopes, nfiles, dir) ==
    LET file == LastThat(SubSeq(scopes, 1, nfiles), LAMBDA s : s.pipeline # Nil)
        narrow == LastThat(scopes, LAMBDA s : s.pipeline # Nil /\ s.pipeline[dir] # Nil)
    IN  IF narrow > nfiles THEN narrow
        ELSE IF file = 0 \/ scopes[file].pipeline[dir] = Nil THEN 0 ELSE file

Inspected == served # Nil /\ served.policy # Nil /\ served.policy.id # "exclude"

-----------------------------------------------------------------------------
(* However the client spells the authority and the path, a request gets the  *)
(* policy of the one domain that claims its host most specifically (exact,   *)
(* then the longest suffix, then "*"), whatever file or position the domain  *)
(* is in and whichever bucket of the resolver holds it; within it, of the    *)
(* most specific matching route, the first declared among equals, else of    *)
(* the domain itself; an excluded path bypasses, an unclaimed host gets no   *)
(* policy (Compile, Resolver.Resolve, NormalizeHost, NormalizePath).         *)
MostSpecificWins ==
    served # Nil =>
      LET req == served.req
          owners == OwnersOf(req.host)
          excluded == \E p \in merged.excludes : NormalizePath(p) = req.path
      IN  CASE excluded -> served.policy.id = "exclude"
            [] ~excluded /\ owners = {} -> served.policy = Nil
            [] OTHER -> \E n \in owners :
                          owners = {n} /\ served.policy.id = <<n, RouteFor(n, req)>>

(* Every setting of the policy that serves is the one of the most specific   *)
(* block that makes it, over the files in name order, the domain and the     *)
(* route, or the built-in default; exemptions add up over all of them; the   *)
(* stage order of a direction is the one of the block that decides it        *)
(* (Merge, overlaySpec and Resolve compose to one rule).                     *)
ScopesApply ==
    Inspected =>
      LET p == served.policy
          scopes == ScopesOf(p.id)
          Last_(P(_)) == LastThat(scopes, P)
      IN  /\ \A field \in DOMAIN DefaultPolicy.set \ Directions :
               LET i == Last_(LAMBDA s : field \in DOMAIN s.set)
               IN  p.set[field] = IF i = 0 THEN DefaultPolicy.set[field] ELSE scopes[i].set[field]
          /\ p.skip = UNION {scopes[i].skip : i \in DOMAIN scopes}
          /\ \A dir \in Directions :
               LET i == OrderScope(scopes, Len(Parsed(files)), dir)
               IN  p.order[dir] = IF i = 0 THEN Nil ELSE scopes[i].pipeline[dir]
          /\ LET i == Last_(LAMBDA s : s.engines # Nil)
             IN  p.engines = IF i = 0 THEN Nil ELSE scopes[i].engines
          /\ LET i == Last_(LAMBDA s : s.body # Nil)
             IN  p.body = IF i = 0 THEN Nil ELSE scopes[i].body

(* A check that is configured runs.  Unless the mode is off, the phase and   *)
(* the body it needs are asked for and its stage is in the pipeline of its   *)
(* direction; the stage can be missing only when the order was written in    *)
(* another block than the check (validateSpec compares the two in one block, *)
(* Resolve derives the buffering, split builds the pipelines).               *)
ConfiguredChecksRun ==
    Inspected /\ Enforcing(served.policy) =>
      LET p == served.policy
          scopes == ScopesOf(p.id)
          Listed(dir, stage, where) ==
              \/ stage \in ToSet(p.pipelines[dir].body)
              \/ OrderScope(scopes, Len(Parsed(files)), dir) \notin {0, where}
          body == LastThat(scopes, LAMBDA s : s.body # Nil)
          engines == LastThat(scopes, LAMBDA s : s.engines # Nil)
          Runs(dir) == /\ BodyRequired(p, dir)
                       /\ dir = "response" => NeedsResponseInspection(p)
      IN  /\ \A dir \in Directions :
               DLPApplies(p.body, dir) => Runs(dir) /\ Listed(dir, "body_checks", body)
          /\ p.body # Nil /\ (p.body.json \/ p.body.sensitive) =>
               \E dir \in Directions : Runs(dir) /\ Listed(dir, "body_checks", body)
          /\ RequiresBody(EnginesOf(p)) => Runs("request") /\ Listed("request", "waf_engine", engines)
          /\ InspectsResponse(EnginesOf(p)) => Runs("response") /\ Listed("response", "waf_engine", engines)

(* What the constructors check that validation cannot: the files and URLs,   *)
(* the rules written inline, and a key given twice.                          *)
FilesFit(name, e) ==
    CASE name = "jwt" -> Loads(e.keyFile) /\ (e.keyFile # "" => CheckKeyAlgMatch(e.keyFile, e.algs))
      [] name = "coraza" -> Loads(e.file) /\ Loads(e.directives)
      [] name = "ip_reputation" -> /\ \A f \in e.feeds : Loads(f.file)
                                   /\ e.geo # <<>> => GeoOpens(Head(e.geo))
      [] name = "bot" -> \A v \in e.verified : Loads(v.file)
      [] name = "api_key" -> IsInjective(e.keys)
      [] name = "jwks" -> Loads(e.file) /\ Loads(e.url)
      [] name = "openapi" -> Loads(e.spec)
      [] OTHER -> TRUE

(* A directory that validation accepts compiles, unless an engine names a    *)
(* file or URL that does not hold what it should, inline rules that do not   *)
(* parse, or an API key twice: no other error is left for the constructors   *)
(* to find after the previous configuration was declared superseded.         *)
AcceptedBuilds ==
    phase = "failed" =>
      \E e \in UsedEngines([n \in DOMAIN merged.domains |-> CompileDomain(merged, n)]) :
        \E name \in DOMAIN e : ~FilesFit(name, e[name])
=============================================================================
