------------------------------ MODULE GraphQL -------------------------------
(***************************************************************************)
(* The graphql engine: the walk over an operation with its fragments and   *)
(* the limits checked on what it counted.                                  *)
(*                                                                         *)
(* A selection is a field [t, name, alias, sub], an inline fragment        *)
(* [t, sub] or a spread [t, name]; a document is its operations and its    *)
(* fragments; a limit of 0 is off.                                         *)
(***************************************************************************)
EXTENDS Slices

NoStats == [depth |-> 0, fields |-> 0, rootFields |-> 0, aliases |-> 0,
            introspection |-> FALSE, nodes |-> 0, aborted |-> FALSE]

CountField(st, f, depth) ==
    [st EXCEPT !.fields = @ + 1,
               !.rootFields = IF depth = 1 THEN @ + 1 ELSE @,
               !.aliases = IF f.alias \notin {"", f.name} THEN @ + 1 ELSE @,
               !.introspection = @ \/ f.name \in {"__schema", "__type"}]

(* Mutant of LeaveFragment: the visit of a fragment is never taken back. *)
StayInFragment(visited, name) == visited

(* visited[f.Name]-- when the walk of a fragment returns *)
LeaveFragment(visited, name) == [visited EXCEPT ![name] = @ - 1]

RECURSIVE Walk(_, _, _, _)
(* walk: a is [visited, st], the mutable state of the traversal *)
Walk(env, sel, depth, a) ==
    LET Step(b, s) ==
          IF b.st.aborted THEN b
          ELSE LET n == b.st.nodes + 1
                   st == [b.st EXCEPT !.nodes = n, !.aborted = n > env.maxNodes]
                   c == [b EXCEPT !.st = st]
               IN  CASE st.aborted -> c
                     [] ~st.aborted /\ s.t = "field" ->
                          LET d == [c EXCEPT !.st = CountField(st, s, depth)]
                          IN  IF s.sub = <<>> THEN d ELSE Walk(env, s.sub, depth + 1, d)
                     [] ~st.aborted /\ s.t = "inline" -> Walk(env, s.sub, depth, c)
                     [] ~st.aborted /\ s.t = "spread" ->
                          IF s.name \notin DOMAIN env.frags THEN c
                          ELSE IF c.visited[s.name] >= env.maxFragDepth THEN c
                          ELSE LET inside == [c EXCEPT !.visited[s.name] = @ + 1]
                                   end == Walk(env, env.frags[s.name], depth, inside)
                               IN  [end EXCEPT !.visited = LeaveFragment(@, s.name)]
    IN  IF a.st.aborted THEN a
        ELSE FoldLeft(Step, [a EXCEPT !.st.depth = IF depth > @ THEN depth ELSE @], sel)

Exceeds(limit, n) == limit > 0 /\ n > limit

StatsOf(cfg, doc, op) ==
    Walk([frags |-> doc.frags, maxNodes |-> cfg.maxNodes, maxFragDepth |-> cfg.maxFragDepth], op, 1,
         [visited |-> [f \in DOMAIN doc.frags |-> 0], st |-> NoStats]).st

TooMuch(cfg, st) ==
    \/ st.aborted
    \/ Exceeds(cfg.maxRootFields, st.rootFields)
    \/ Exceeds(cfg.maxDepth, st.depth)
    \/ Exceeds(cfg.maxAliases, st.aliases)
    \/ Exceeds(cfg.maxTotalFields, st.fields)
    \/ cfg.blockIntrospection /\ st.introspection

(* checkQuery: an empty query passes, one that does not parse is blocked *)
CheckQueryBlocks(cfg, doc) ==
    \/ doc.text = "malformed"
    \/ /\ doc.text = "ok"
       /\ \/ Exceeds(cfg.maxOperations, Len(doc.ops))
          \/ \E i \in DOMAIN doc.ops : TooMuch(cfg, StatsOf(cfg, doc, doc.ops[i]))

(* extract and extractBodyQueries: the queries of a request, none when it is *)
(* not a GraphQL request the engine guards                                   *)
ExtractQueries(cfg, req) ==
    CASE req.method = "POST" /\ req.ctype \in cfg.contentTypes /\ (cfg.paths = {} \/ req.path \in cfg.paths) ->
           IF req.ctype = "graphql" THEN <<req.query>>
           ELSE SelectSeq(req.batch, LAMBDA q : q.text # "empty")
      [] req.method = "GET" /\ (cfg.paths = {} \/ req.path \in cfg.paths) ->
           IF req.query.text = "empty" THEN <<>> ELSE <<req.query>>
      [] OTHER -> <<>>

(* Inspect *)
GraphQLBlocks(cfg, req) ==
    LET queries == ExtractQueries(cfg, req) IN
    \/ Exceeds(cfg.maxOperations, Len(queries))
    \/ \E i \in DOMAIN queries : CheckQueryBlocks(cfg, queries[i])

-----------------------------------------------------------------------------
(* Reference: the same operation with every spread and inline fragment       *)
(* replaced by the fields it stands for, for fragments that do not form a    *)
(* cycle.                                                                    *)
RECURSIVE SpreadIn(_)
SpreadIn(sel) ==
    UNION {IF sel[i].t = "spread" THEN {sel[i].name} ELSE SpreadIn(sel[i].sub) : i \in DOMAIN sel}

RECURSIVE Within(_, _, _)
Within(frags, names, n) ==
    IF n = 0 THEN names
    ELSE Within(frags, names \union UNION {SpreadIn(frags[f]) : f \in names \intersect DOMAIN frags}, n - 1)

(* No fragment leads back to itself and every spread has a definition *)
WellFormed(doc) ==
    /\ \A f \in DOMAIN doc.frags :
         /\ f \notin Within(doc.frags, SpreadIn(doc.frags[f]), 2)
         /\ SpreadIn(doc.frags[f]) \subseteq DOMAIN doc.frags
    /\ \A i \in DOMAIN doc.ops : SpreadIn(doc.ops[i]) \subseteq DOMAIN doc.frags

RECURSIVE Flatten(_, _)
Flatten(frags, sel) ==
    FoldLeft(LAMBDA a, s :
               a \o CASE s.t = "field" -> <<[s EXCEPT !.sub = Flatten(frags, @)]>>
                      [] s.t = "inline" -> Flatten(frags, s.sub)
                      [] s.t = "spread" ->
                           IF s.name \in DOMAIN frags THEN Flatten(frags, frags[s.name]) ELSE <<>>,
             <<>>, sel)

RECURSIVE FieldsAt(_, _)
(* The fields at a depth of an operation made of fields only *)
FieldsAt(fields, depth) ==
    IF depth = 1 THEN fields
    ELSE FoldLeft(LAMBDA a, f : a \o FieldsAt(f.sub, depth - 1), <<>>, fields)
=============================================================================
