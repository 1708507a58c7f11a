------------------------------ MODULE Matchers ------------------------------
(***************************************************************************)
(* The matchers of internal/matcher: hosts, paths, methods, content types  *)
(* and headers, and the normal form of a path.                             *)
(*                                                                         *)
(* A host is a sequence of labels with the spellings an authority may have *)
(* (upper case, user info, port, final dot) as flags; a path and a header  *)
(* value are sequences of characters; a regular expression is a character  *)
(* and matches what contains it.                                           *)
(***************************************************************************)
EXTENDS Slices

KnownMethods == {"GET", "POST"}

ToUpper(m) == IF m = "get" THEN "GET" ELSE m

-----------------------------------------------------------------------------
(* matcher.Host.  A pattern is exact, "*.labels" or "*"; "bad" matches no    *)
(* hostRe.                                                                   *)

(* hostRe, and the bare "*" *)
ValidHost(h) == h.kind \in {"exact", "sub", "all"}

(* CompileHost: lower case, no final dot *)
CompileHost(h) == [kind |-> h.kind, labels |-> h.labels]

(* The dedup key of validateMerged *)
HostKey(h) == CompileHost(h)

(* NormalizeHost: stripUserinfo, trimPort, stripTrailingDot, ToLower *)
NormalizeHost(a) == [a EXCEPT !.user = FALSE, !.port = FALSE, !.dot = FALSE, !.upper = FALSE]

(* Host.Match: hasSuffixFold leaves at least one label before the suffix *)
HostMatch(h, a) ==
    \/ h.kind = "all"
    \/ LET labels == NormalizeHost(a).labels IN
       IF h.kind = "exact" THEN labels = h.labels
       ELSE Len(labels) > Len(h.labels) /\ IsSuffix(h.labels, labels)

HostExactScore == 1048576

(* Host.Specificity *)
HostSpecificity(h) ==
    CASE h.kind = "exact" -> HostExactScore
      [] h.kind = "sub" -> Len(h.labels)
      [] h.kind = "all" -> 0

-----------------------------------------------------------------------------
(* matcher.NormalizePath: cut the query, decode once, drop empty and "."     *)
(* segments, let ".." remove the segment before it, keep a final slash.      *)
Decode(c) == CASE c = "%61" -> "a" [] c = "%2F" -> "/" [] OTHER -> c

CutQuery(p) ==
    IF \E i \in DOMAIN p : p[i] = "?"
    THEN SubSeq(p, 1, (CHOOSE i \in DOMAIN p : p[i] = "?" /\ \A k \in 1 .. i - 1 : p[k] # "?") - 1)
    ELSE p

(* path.Clean of a rooted path, as the sequence of its segments *)
AddSegment(segs, seg) ==
    CASE seg \in {<<>>, <<".">>} -> segs
      [] seg = <<".", ".">> -> IF segs = <<>> THEN segs ELSE Front(segs)
      [] OTHER -> Append(segs, seg)

Split(p) ==
    FoldLeft(LAMBDA acc, c : IF c = "/" THEN [done |-> AddSegment(acc.done, acc.cur), cur |-> <<>>]
                             ELSE [acc EXCEPT !.cur = Append(@, c)],
             [done |-> <<>>, cur |-> <<>>], p)

Clean(p) ==
    LET s == Split(p)
        segs == AddSegment(s.done, s.cur)
    IN  IF segs = <<>> THEN <<"/">>
        ELSE FoldLeft(LAMBDA acc, seg : acc \o <<"/">> \o seg, <<>>, segs)

NormalizePath(raw) ==
    LET cut == CutQuery(raw)
        p == [i \in DOMAIN cut |-> Decode(cut[i])]
        cleaned == Clean(p)
    IN  IF p = <<>> THEN raw
        ELSE IF Last(p) = "/" /\ Last(cleaned) # "/" THEN Append(cleaned, "/") ELSE cleaned

(* CompilePath: at most one form is set; none matches any path *)
PathKind(m) ==
    CASE "exact" \in DOMAIN m.path -> 3
      [] "regex" \in DOMAIN m.path -> 2
      [] "prefix" \in DOMAIN m.path -> 1
      [] OTHER -> 0

RegexMatch(re, s) == re \in ToSet(s)

(* Path.Match *)
PathMatch(m, path) ==
    CASE PathKind(m) = 3 -> path = m.path["exact"]
      [] PathKind(m) = 2 -> RegexMatch(m.path["regex"], path)
      [] PathKind(m) = 1 -> IsPrefix(m.path["prefix"], path)
      [] PathKind(m) = 0 -> TRUE

PrefixLen(m) == IF PathKind(m) = 1 THEN Len(m.path["prefix"]) ELSE 0

(* Methods.Match: the empty list allows any method *)
MethodMatch(m, method) ==
    m.methods = {} \/ ToUpper(method) \in {ToUpper(x) : x \in m.methods}

(* ContentType.Match: splitMedia drops the parameters *)
ContentTypeMatch(m, ct) ==
    m.ctypes = {} \/ \E p \in m.ctypes : p.typ \in {"*", ct.typ} /\ p.sub \in {"*", ct.sub}

(* CompileHeader and Header.Match: no form at all means "is present" *)
HeaderMatch(h, headers) ==
    LET has == h.name \in DOMAIN headers IN
    CASE "exact" \in DOMAIN h.form -> has /\ headers[h.name] = h.form["exact"]
      [] "contains" \in DOMAIN h.form ->
           has /\ \E i \in 0 .. Len(headers[h.name]) :
                    IsPrefix(h.form["contains"], SubSeq(headers[h.name], i + 1, Len(headers[h.name])))
      [] "regex" \in DOMAIN h.form -> has /\ RegexMatch(h.form["regex"], headers[h.name])
      [] "present" \in DOMAIN h.form -> has = h.form["present"]
      [] OTHER -> has

(* compiledRoute.matches *)
RouteMatches(m, in) ==
    /\ PathMatch(m, in.path)
    /\ MethodMatch(m, in.method)
    /\ ContentTypeMatch(m, in.ctype)
    /\ \A h \in m.headers : HeaderMatch(h, in.headers)

-----------------------------------------------------------------------------
(* How a request arrives: the authority and the path a client wrote.  The    *)
(* request itself has a path with nothing to cut off and nothing to decode.  *)
PlainPath(p) ==
    /\ IsSlice(p) /\ p # <<>> /\ p[1] = "/"
    /\ \A i \in DOMAIN p : p[i] \notin {"?", "%61", "%2F"}

Written(path, s) ==
    CASE s = "query" -> path \o <<"?", "/", "b">>
      [] s = "encoded" -> [i \in DOMAIN path |-> IF path[i] = "a" THEN "%61" ELSE path[i]]
      [] s = "dots" -> <<"/", "b", "%2F", ".", ".">> \o path
      [] s = "slashes" -> <<"/">> \o path
      [] OTHER -> path

Spell(req) ==
    LET s == req.spelling IN
    [host |-> [labels |-> req.host, upper |-> s = "upper", user |-> s = "user",
               port |-> s \in {"port", "user"}, dot |-> s = "dot"],
     path |-> Written(req.path, s),
     method |-> req.method, ctype |-> req.ctype, headers |-> req.headers]
=============================================================================
