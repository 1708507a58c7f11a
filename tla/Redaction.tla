----------------------------- MODULE Redaction ------------------------------
(***************************************************************************)
(* The DLP part of body_checks: which matches block, and the single pass   *)
(* that masks the others.                                                  *)
(*                                                                         *)
(* A body is a sequence of byte classes ("digit", "sep", "text"); a match  *)
(* is [start, end, kind] over its positions, end excluded.  The rewritten  *)
(* body is a sequence of items: i > 0 is byte i of the body, Star is "*",  *)
(* Tag a [REDACTED:kind] marker.                                           *)
(***************************************************************************)
EXTENDS Slices

CONSTANT KeepDigits     \* the digits of a card that stay readable: 4 in mask

ASSUME KeepAssumption == KeepDigits \in Nat

Star == 0
Tag == -1

DigitsIn(body, a, b) == {i \in a .. b - 1 : body[i] = "digit"}

(* mask of body[a:b] *)
Mask(body, a, b, kind) ==
    IF kind = "credit_card"
    THEN [n \in 1 .. b - a |->
            LET i == a + n - 1 IN
            IF body[i] = "digit" /\ Cardinality(DigitsIn(body, i, b)) > KeepDigits THEN Star ELSE i]
    ELSE <<Tag>>

Raw(a, b) == [n \in 1 .. b - a |-> a + n - 1]

(* Mutant of RedactStep: a match that overlaps a masked region is skipped. *)
RedactStepSkipping(body, redact, a, m) ==
    IF m.kind \notin redact \/ m.start < a.last THEN a
    ELSE [out |-> a.out \o Raw(a.last, m.start) \o Mask(body, m.start, m.end, m.kind),
          last |-> m.end, changed |-> TRUE]

(* One match of the loop of redactBody *)
RedactStep(body, redact, a, m) ==
    CASE m.kind \notin redact -> a
      [] m.kind \in redact /\ m.start < a.last ->
           IF m.end > a.last
           THEN [out |-> a.out \o Mask(body, a.last, m.end, m.kind), last |-> m.end, changed |-> TRUE]
           ELSE a
      [] m.kind \in redact /\ m.start >= a.last ->
           [out |-> a.out \o Raw(a.last, m.start) \o Mask(body, m.start, m.end, m.kind),
            last |-> m.end, changed |-> TRUE]

(* redactBody *)
RedactBody(body, matches, redact) ==
    LET end == FoldLeft(LAMBDA a, m : RedactStep(body, redact, a, m),
                        [out |-> <<>>, last |-> 1, changed |-> FALSE], matches)
    IN  [body |-> IF end.changed THEN end.out \o Raw(end.last, Len(body) + 1) ELSE Raw(1, Len(body) + 1),
         changed |-> end.changed]

(* The order Detector.Matches returns: by start, the longer first *)
Sorted(matches) ==
    \A i, j \in DOMAIN matches :
      i < j => \/ matches[i].start < matches[j].start
               \/ matches[i].start = matches[j].start /\ matches[i].end >= matches[j].end

(* runDLP: the stage result, and the body that is forwarded *)
RunDLP(dlp, blocking, body, matches) ==
    LET kept == Raw(1, Len(body) + 1)
        redacted == RedactBody(body, matches, dlp.redact)
    IN  IF \E i \in DOMAIN matches : matches[i].kind \in dlp.block THEN [result |-> "deny", body |-> kept]
        ELSE IF ~redacted.changed THEN [result |-> "continue", body |-> kept]
        ELSE IF blocking THEN [result |-> "continue", body |-> redacted.body]
        ELSE [result |-> "would_redact", body |-> kept]

(* bodyChecks.Process: JSON validity, detection, then DLP *)
BodyChecks(p, req) ==
    LET Kept(result) == [result |-> result, body |-> Raw(1, Len(req.body) + 1)]
        notJSON == p.requireJSON /\ "json" \notin p.skip /\ req.body # <<>>
                     /\ ~(req.jsonType /\ req.jsonValid)
        detected == p.detect /\ "sensitive_data" \notin p.skip /\ req.matches # <<>>
    IN  IF p.mode = "off" THEN Kept("continue")
        ELSE IF notJSON \/ detected THEN Kept("deny")
        ELSE IF req.dir \in p.dlp.directions /\ req.body # <<>>
        THEN RunDLP(p.dlp, p.mode = "block", req.body, req.matches)
        ELSE Kept("continue")

-----------------------------------------------------------------------------
(* The detector returns its matches in order, each of at least one byte.     *)
IsBodyJob(j) ==
    /\ j.op = "checks" /\ IsSlice(j.req.body)
    /\ IsSlice(j.req.matches) /\ Sorted(j.req.matches)
    /\ \A i \in DOMAIN j.req.matches :
         LET m == j.req.matches[i] IN
         m.start \in Nat \ {0} /\ m.end \in Nat /\ m.start < m.end /\ m.end <= Len(j.req.body) + 1

(* The matches to redact that cover byte i, and whether one lets it through. *)
Sensitive(p, req, i) ==
    {m \in ToSet(req.matches) : m.kind \in p.dlp.redact /\ i \in m.start .. m.end - 1}

Readable(p, req, i) ==
    \E m \in Sensitive(p, req, i) :
      /\ m.kind = "credit_card"
      /\ \/ req.body[i] # "digit"
         \/ Cardinality(DigitsIn(req.body, i, m.end)) <= KeepDigits

(* What the result r of body_checks must be of a request under policy p *)
Exact(p, req, r) ==
    LET active == p.mode # "off" /\ req.dir \in p.dlp.directions
    IN  /\ (active /\ \E m \in ToSet(req.matches) : m.kind \in p.dlp.block) => r.result = "deny"
        /\ p.mode # "block" => r.body = Raw(1, Len(req.body) + 1)
        /\ \A i, j \in DOMAIN r.body : i < j /\ r.body[i] > 0 /\ r.body[j] > 0 => r.body[i] < r.body[j]
        /\ \A i \in DOMAIN req.body : Sensitive(p, req, i) = {} => i \in ToSet(r.body)
        /\ (active /\ p.mode = "block" /\ r.result = "continue") =>
             \A i \in ToSet(r.body) :
               i > 0 => i \in DOMAIN req.body /\ (Sensitive(p, req, i) = {} \/ Readable(p, req, i))
=============================================================================
