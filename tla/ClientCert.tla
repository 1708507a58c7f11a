----------------------------- MODULE ClientCert -----------------------------
(***************************************************************************)
(* The xfcc engine: parse of an x-forwarded-client-cert header into its    *)
(* elements, and the allow list over the last one.                         *)
(*                                                                         *)
(* A header is a sequence of characters; the name of a key is one token.   *)
(***************************************************************************)
EXTENDS Slices

Quote == "\""
Backslash == "\\"

(* Mutant of SplitTop: the byte after a backslash is not skipped. *)
SplitTopUnescaped(s, sep) ==
    LET Step(a, c) ==
          IF c = sep /\ ~a.inQuote
          THEN [a EXCEPT !.out = Append(@, a.cur), !.cur = <<>>]
          ELSE [a EXCEPT !.cur = Append(@, c), !.inQuote = (@ # (c = Quote))]
        end == FoldLeft(Step, [out |-> <<>>, cur |-> <<>>, inQuote |-> FALSE], s)
    IN  Append(end.out, end.cur)

ScanState(out, cur, inQuote, skip) == [out |-> out, cur |-> cur, inQuote |-> inQuote, skip |-> skip]

(* One byte of splitTop: sep splits outside quotes, and inside a quote the   *)
(* byte after a backslash neither ends the quote nor separates               *)
ScanByte(sep, a, c) ==
    IF a.skip THEN ScanState(a.out, Append(a.cur, c), a.inQuote, FALSE)
    ELSE IF a.inQuote /\ c = Backslash THEN ScanState(a.out, Append(a.cur, c), TRUE, TRUE)
    ELSE IF c = sep /\ ~a.inQuote THEN ScanState(Append(a.out, a.cur), <<>>, FALSE, FALSE)
    ELSE ScanState(a.out, Append(a.cur, c), a.inQuote # (c = Quote), FALSE)

(* splitTop *)
SplitTop(s, sep) ==
    LET end == FoldLeft(LAMBDA a, c : ScanByte(sep, a, c), ScanState(<<>>, <<>>, FALSE, FALSE), s)
    IN  Append(end.out, end.cur)

(* One byte of the inner loop of unquote *)
UnescapeByte(a, c) ==
    IF ~a.skip /\ c = Backslash THEN [out |-> a.out, skip |-> TRUE]
    ELSE [out |-> Append(a.out, c), skip |-> FALSE]

(* unquote: a backslash with nothing after it stands for itself *)
Unquote(s) ==
    LET end == FoldLeft(UnescapeByte, [out |-> <<>>, skip |-> FALSE], SubSeq(s, 2, Len(s) - 1))
    IN  IF Len(s) < 2 \/ s[1] # Quote \/ s[Len(s)] # Quote THEN s
        ELSE IF end.skip THEN Append(end.out, Backslash) ELSE end.out

Element(subject, hash, uris, dns) == [subject |-> subject, hash |-> hash, uris |-> uris, dns |-> dns]

EmptyElement == Element(<<>>, <<>>, {}, {})

(* One key=value pair of an element, cut at the first "=" *)
AddPair(el, pair) ==
    LET cuts == {i \in DOMAIN pair : pair[i] = "="} IN
    IF cuts = {} THEN el
    ELSE LET at == CHOOSE i \in cuts : \A k \in cuts : i <= k
             key == SubSeq(pair, 1, at - 1)
             val == Unquote(SubSeq(pair, at + 1, Len(pair)))
         IN  CASE key = <<"Hash">> -> Element(el.subject, val, el.uris, el.dns)
               [] key = <<"Subject">> -> Element(val, el.hash, el.uris, el.dns)
               [] key = <<"URI">> -> Element(el.subject, el.hash, el.uris \union {val}, el.dns)
               [] key = <<"DNS">> -> Element(el.subject, el.hash, el.uris, el.dns \union {val})
               [] OTHER -> el

(* parse, of a header with no blanks outside quotes, where strings.TrimSpace *)
(* changes nothing                                                           *)
ParseXFCC(header) ==
    LET certs == SplitTop(header, ",")
    IN  [i \in DOMAIN certs |-> FoldLeft(AddPair, EmptyElement, SplitTop(certs[i], ";"))]

(* Engine.matches: any dimension of the allow list *)
MatchesAllow(allow, el) ==
    \/ el.subject # <<>> /\ el.subject \in allow.subjects
    \/ el.hash # <<>> /\ el.hash \in allow.hashes
    \/ el.uris \intersect allow.uris # {}
    \/ el.dns \intersect allow.dns # {}

-----------------------------------------------------------------------------
(* The header the proxy writes for a chain of certificates: a value with a   *)
(* special character is quoted, with a backslash before quote and backslash. *)
EscapeByte(a, c) == IF c \in {Quote, Backslash} THEN a \o <<Backslash, c>> ELSE Append(a, c)

Quoted(v) == <<Quote>> \o FoldLeft(EscapeByte, <<>>, v) \o <<Quote>>

Special == {",", ";", "=", Quote, Backslash}

Plain(v) == \A i \in DOMAIN v : v[i] \notin Special

EncodeValue(v) == IF Plain(v) THEN v ELSE Quoted(v)

Pair(key, value) == <<key, "=">> \o value

PairsOf(key, values) ==
    LET list == SetToSeq(values) IN [i \in DOMAIN list |-> Pair(key, EncodeValue(list[i]))]

CertPairs(el) ==
    <<Pair("By", <<"p">>)>>
      \o (IF el.hash = <<>> THEN <<>> ELSE <<Pair("Hash", el.hash)>>)
      \o <<Pair("Subject", Quoted(el.subject))>>
      \o PairsOf("URI", el.uris) \o PairsOf("DNS", el.dns)

Join(pieces, sep) ==
    FoldLeft(LAMBDA a, i : (IF i = 1 THEN <<>> ELSE Append(a, sep)) \o pieces[i], <<>>,
             [i \in 1 .. Len(pieces) |-> i])

EncodeCert(el) == Join(CertPairs(el), ";")

EncodeXFCC(certs) == Join([i \in DOMAIN certs |-> EncodeCert(certs[i])], ",")

Blankless(v) == \A i \in DOMAIN v : v[i] # " "

(* A certificate as Envoy describes it: a hexadecimal fingerprint, which     *)
(* needs no quotes, and blanks only in the subject, which is always quoted   *)
IsCert(el) ==
    /\ el = Element(el.subject, el.hash, el.uris, el.dns)
    /\ el.subject \in Seq(STRING) /\ el.hash \in Seq(STRING) /\ Plain(el.hash)
    /\ \A v \in {el.hash} \union el.uris \union el.dns : Blankless(v)
    /\ el.uris \subseteq Seq(STRING) /\ IsFiniteSet(el.uris)
    /\ el.dns \subseteq Seq(STRING) /\ IsFiniteSet(el.dns)
=============================================================================
