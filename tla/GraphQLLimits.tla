--------------------------- MODULE GraphQLLimits ----------------------------
(***************************************************************************)
(* The graphql engine among the engines of a policy: what its limits mean  *)
(* for the operation that is executed.                                     *)
(***************************************************************************)
EXTENDS EngineVerdicts, GraphQL

(* The limits of the graphql engine bind the operation the backend will      *)
(* execute: the walk blocks exactly when the operation with its fragments    *)
(* written out has more fields, root fields, aliases or levels than allowed  *)
(* or introspects, or when the walk itself visits too many nodes, so a       *)
(* fragment used twice or nested in another hides nothing.                   *)
LimitsBindExpansion ==
    \A k \in DOMAIN asked : \A n \in DOMAIN asked[k] :
      LET e == job.engines[asked[k][n].engine]
          v == asked[k][n].verdict
      IN
      (e.kind = "graphql" /\ job.req.dir = "request") =>
        LET queries == ExtractQueries(e, job.req.gql)
            Depths == 1 .. 6
            Breaks(doc, op) ==
              LET flat == Flatten(doc.frags, op)
                  Level(d) == FieldsAt(flat, d)
                  all == FoldLeft(LAMBDA a, d : a \o Level(d), <<>>, [d \in Depths |-> d])
                  aliased == SelectSeq(all, LAMBDA f : f.alias # "" /\ f.alias # f.name)
              IN  \/ Exceeds(e.maxTotalFields, Len(all))
                  \/ Exceeds(e.maxRootFields, Len(flat))
                  \/ Exceeds(e.maxAliases, Len(aliased))
                  \/ e.maxDepth > 0 /\ \E d \in Depths : d > e.maxDepth /\ Level(d) # <<>>
                  \/ e.blockIntrospection /\ \E i \in DOMAIN all : all[i].name \in {"__schema", "__type"}
            Stopped(doc, op) == StatsOf(e, doc, op).nodes > e.maxNodes
        IN  \A q \in DOMAIN queries :
              LET doc == queries[q] IN
              (doc.text = "ok" /\ WellFormed(doc)) =>
                /\ \A i \in DOMAIN doc.ops : Breaks(doc, doc.ops[i]) => v.action = "block"
                /\ (/\ Len(queries) = 1 /\ ~Exceeds(e.maxOperations, Len(doc.ops))
                    /\ \A i \in DOMAIN doc.ops : ~Breaks(doc, doc.ops[i]) /\ ~Stopped(doc, doc.ops[i]))
                   => v = Pass
=============================================================================
