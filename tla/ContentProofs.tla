---------------------------- MODULE ContentProofs ---------------------------
(***************************************************************************)
(* What the code reads out of a certificate header and writes into a body, *)
(* for every header Envoy writes and every body and list of matches.       *)
(*                                                                         *)
(* splitTop, unquote, the loop over pairs and redactBody are loops over    *)
(* slices, each an instance of Loops.  What the proxy quotes or escapes is *)
(* copied by the scan, which ends outside quotes again (Copies), so a      *)
(* header is split where it was joined (JoinSplit, XFCCReadBack).  The     *)
(* masking pass keeps the body rewritten up to the end of the last match   *)
(* (Rewritten), which gives BodyExact.                                     *)
(***************************************************************************)
EXTENDS ClientCert, Redaction, FiniteSetTheorems, TLAPS

-----------------------------------------------------------------------------
(* Slices and induction.                                                     *)

(* Induction over the natural numbers, for the elements of a set. *)
LEMMA SetInduction ==
  ASSUME NEW S, 0 \in S, \A n \in Nat : n \in S => n + 1 \in S
  PROVE  Nat \subseteq S
<1> DEFINE T == {n \in Nat : n \notin S}
           R == OpToRel(<, Nat)
<1>1. SUFFICES ASSUME T # {} PROVE FALSE
  BY Zenon
<1>2. T \subseteq Nat
  BY Zenon
<1>3. IsWellFoundedOn(R, Nat)
  BY Zenon, NatLessThanWellFounded
<1>4. PICK x \in T : \A y \in T : ~(<<y, x>> \in R)
  <2> HIDE DEF T, R
  <2> QED BY Zenon, <1>1, <1>2, <1>3, WFMin
<1>5. x \in Nat /\ x # 0 /\ x \notin S
  BY Zenon
<1>6. x - 1 \in Nat /\ x - 1 \notin S
  BY <1>5
<1>7. <<x - 1, x>> \in R
  BY <1>5, <1>6 DEF OpToRel
<1> QED BY Zenon, <1>4, <1>6, <1>7

LEMMA SliceElements ==
  ASSUME NEW s, IsSlice(s)
  PROVE  /\ s \in Seq(ToSet(s)) /\ Len(s) \in Nat /\ DOMAIN s = 1 .. Len(s)
         /\ \A i \in 1 .. Len(s) : s[i] \in ToSet(s)
         /\ \A x \in ToSet(s) : \E i \in 1 .. Len(s) : x = s[i]
BY DEF IsSlice, ToSet

LEMMA AppendSecond ==
  ASSUME NEW a, NEW b
  PROVE  Append(<<a>>, b) = <<a, b>>
<1> DEFINE s == Append(<<a>>, b)
           t == <<a, b>>
<1>1. s \in Seq({a, b}) /\ Len(s) = 2 /\ s[1] = a /\ s[2] = b
  OBVIOUS
<1>2. t \in Seq({a, b}) /\ Len(t) = 2 /\ t[1] = a /\ t[2] = b
  OBVIOUS
<1> HIDE DEF s, t
<1>3. Len(s) = Len(t) /\ \A i \in 1 .. Len(s) : s[i] = t[i]
  BY <1>1, <1>2
<1>4. s = t
  BY SMTT(30), <1>1, <1>2, <1>3
<1> QED BY <1>4 DEF s, t

-----------------------------------------------------------------------------
(* The XFCC header is read back as it was written: splitTop copies a piece   *)
(* that leaves no quote open, escaping and unquote are inverse, and so are   *)
(* joining and splitting at a separator that the pieces keep in quotes.      *)

Separators == {",", ";"}

PairKeys == {"By", "Hash", "Subject", "URI", "DNS"}

(* The characters of a header. *)
Chars == STRING \cup PairKeys \cup Separators \cup {"=", "p", Quote, Backslash}

LEMMA Characters ==
  /\ \A sep \in Separators : sep # Quote /\ sep # Backslash /\ sep # "=" /\ sep \in Chars
  /\ Quote # Backslash /\ Quote \in Chars /\ Backslash \in Chars
  /\ \A k \in PairKeys \cup {"=", "p"} : k \in Chars /\ k \notin Separators /\ k # Quote
  /\ \A k \in PairKeys : k # "="
<1>1. \A sep \in Separators : sep # Quote /\ sep # Backslash /\ sep # "="
  BY DEF Separators, Quote, Backslash
<1>2. Quote # Backslash
  BY DEF Quote, Backslash
<1>3. \A k \in PairKeys \cup {"=", "p"} : k \notin Separators /\ k # Quote
  BY DEF Separators, PairKeys, Quote
<1>4. \A k \in PairKeys : k # "="
  BY DEF PairKeys
<1> QED BY Zenon, <1>1, <1>2, <1>3, <1>4 DEF Chars

ScanInv(sep, seq, n, a) == TRUE

ScanLoop == INSTANCE Loops WITH Step <- ScanByte, Inv <- ScanInv

(* The scan outside quotes, inside quotes, and after a backslash in quotes.  *)
At(mode, out, cur) == ScanState(out, cur, mode # "out", mode = "esc")

LEMMA ScanStart == ScanState(<<>>, <<>>, FALSE, FALSE) = At("out", <<>>, <<>>)
<1>1. ("out" # "out") = FALSE /\ ("out" = "esc") = FALSE
  OBVIOUS
<1> QED BY <1>1 DEF At

LEMMA ScanCases ==
  ASSUME NEW sep \in Separators, NEW out, NEW cur, NEW c
  PROVE  /\ c # sep /\ c # Quote => ScanByte(sep, At("out", out, cur), c) = At("out", out, Append(cur, c))
         /\ ScanByte(sep, At("out", out, cur), sep) = At("out", Append(out, cur), <<>>)
         /\ ScanByte(sep, At("out", out, cur), Quote) = At("in", out, Append(cur, Quote))
         /\ ScanByte(sep, At("in", out, cur), Backslash) = At("esc", out, Append(cur, Backslash))
         /\ ScanByte(sep, At("in", out, cur), Quote) = At("out", out, Append(cur, Quote))
         /\ c # Backslash /\ c # Quote => ScanByte(sep, At("in", out, cur), c) = At("in", out, Append(cur, c))
         /\ ScanByte(sep, At("esc", out, cur), c) = At("in", out, Append(cur, c))
<1>1. sep # Quote /\ sep # Backslash /\ Quote # Backslash
  BY Zenon, Characters
<1>2. c # sep /\ c # Quote => ScanByte(sep, At("out", out, cur), c) = At("out", out, Append(cur, c))
  BY <1>1 DEF ScanByte, At, ScanState
<1>3. ScanByte(sep, At("out", out, cur), sep) = At("out", Append(out, cur), <<>>)
  BY <1>1 DEF ScanByte, At, ScanState
<1>4. ScanByte(sep, At("out", out, cur), Quote) = At("in", out, Append(cur, Quote))
  BY <1>1 DEF ScanByte, At, ScanState
<1>5. ScanByte(sep, At("in", out, cur), Backslash) = At("esc", out, Append(cur, Backslash))
  BY <1>1 DEF ScanByte, At, ScanState
<1>6. ScanByte(sep, At("in", out, cur), Quote) = At("out", out, Append(cur, Quote))
  BY <1>1 DEF ScanByte, At, ScanState
<1>7. c # Backslash /\ c # Quote => ScanByte(sep, At("in", out, cur), c) = At("in", out, Append(cur, c))
  BY <1>1 DEF ScanByte, At, ScanState
<1>8. ScanByte(sep, At("esc", out, cur), c) = At("in", out, Append(cur, c))
  BY <1>1 DEF ScanByte, At, ScanState
<1> QED BY Zenon, <1>2, <1>3, <1>4, <1>5, <1>6, <1>7, <1>8

One(x) == <<x>>

Two(x, y) == <<x, y>>

LEMMA EmptyConcat ==
  ASSUME NEW X, NEW s \in Seq(X)
  PROVE  <<>> \in Seq(X) /\ s \o <<>> = s /\ <<>> \o s = s
OBVIOUS

LEMMA ConcatAssoc ==
  ASSUME NEW X, NEW s \in Seq(X), NEW t \in Seq(X), NEW u \in Seq(X)
  PROVE  s \o t \in Seq(X) /\ (s \o t) \o u = s \o (t \o u)
OBVIOUS

LEMMA AppendOne ==
  ASSUME NEW X, NEW s \in Seq(X), NEW x \in X
  PROVE  One(x) \in Seq(X) /\ Append(s, x) = s \o One(x) /\ Append(s, x) \in Seq(X)
BY DEF One

LEMMA TwoIsOnes ==
  ASSUME NEW X, NEW x \in X, NEW y \in X
  PROVE  Two(x, y) = One(x) \o One(y) /\ One(x) \in Seq(X) /\ Two(x, y) \in Seq(X)
<1>1. One(x) \in Seq(X)
  BY DEF One
<1>2. Append(One(x), y) = One(x) \o One(y) /\ Append(One(x), y) \in Seq(X)
  BY Zenon, <1>1, AppendOne
<1>3. Append(One(x), y) = Two(x, y)
  BY Zenon, AppendSecond DEF One, Two
<1> QED BY Zenon, <1>1, <1>2, <1>3

(* What holds of the empty slice and of every slice with one element more.   *)
LEMMA SeqInduction ==
  ASSUME NEW X, NEW S, <<>> \in S, \A s \in Seq(X) : \A x \in X : s \in S => Append(s, x) \in S
  PROVE  Seq(X) \subseteq S
<1> DEFINE N == {n \in Nat : \A s \in Seq(X) : Len(s) = n => s \in S}
<1>1. 0 \in N
  <2>1. \A s \in Seq(X) : Len(s) = 0 => s = <<>>
    OBVIOUS
  <2> QED BY Zenon, <2>1
<1>2. ASSUME NEW n \in Nat, n \in N PROVE n + 1 \in N
  <2> SUFFICES ASSUME NEW s \in Seq(X), Len(s) = n + 1 PROVE s \in S
    <3>1. n + 1 \in Nat
      OBVIOUS
    <3> QED BY Zenon, <3>1
  <2> DEFINE f == SubSeq(s, 1, n)
             x == s[n + 1]
  <2>1. f \in Seq(X) /\ Len(f) = n /\ x \in X /\ s = Append(f, x)
    <3>1. f \in Seq(X) /\ Len(f) = n /\ x \in X /\ \A i \in 1 .. n : f[i] = s[i]
      OBVIOUS
    <3> DEFINE t == Append(f, x)
    <3>2. t \in Seq(X) /\ Len(t) = n + 1 /\ \A i \in 1 .. n + 1 : t[i] = s[i]
      <4> HIDE DEF f
      <4> QED BY <3>1
    <3> HIDE DEF t
    <3>3. s = t
      BY <3>2
    <3> QED BY Zenon, <3>1, <3>3 DEF t
  <2> HIDE DEF f, x
  <2>2. f \in S
    BY Zenon, <1>2, <2>1
  <2> QED BY Zenon, <2>1, <2>2
<1> HIDE DEF N
<1>3. Nat \subseteq N
  BY Zenon, <1>1, <1>2, SetInduction
<1>4. \A s \in Seq(X) : Len(s) \in Nat
  OBVIOUS
<1> QED BY Zenon, <1>3, <1>4 DEF N

(* Scanning p in the one mode copies it and ends in the other.             *)
Copies(sep, p, q, r) ==
  \A out : \A cur \in Seq(Chars) :
    ScanLoop!Loop(sep, At(q, out, cur), p) = At(r, out, cur \o p)

LEMMA ScanRules == ScanLoop!Induction
BY Zenon, SetInduction DEF ScanLoop!Induction

LEMMA ScanOnce ==
  ASSUME NEW sep, NEW a, NEW c
  PROVE  ScanLoop!Loop(sep, a, <<>>) = a /\ ScanLoop!Loop(sep, a, One(c)) = ScanByte(sep, a, c)
BY Zenon, ScanRules, ScanLoop!LoopOnce DEF One

LEMMA ScanConcat ==
  ASSUME NEW sep, NEW a, NEW s \in Seq(Chars), NEW t \in Seq(Chars)
  PROVE  ScanLoop!Loop(sep, a, s \o t) = ScanLoop!Loop(sep, ScanLoop!Loop(sep, a, s), t)
BY ScanRules, ScanLoop!LoopConcat

LEMMA CopiesJoin ==
  ASSUME NEW sep, NEW s \in Seq(Chars), NEW t \in Seq(Chars), NEW q, NEW r, NEW z,
         Copies(sep, s, q, r), Copies(sep, t, r, z)
  PROVE  Copies(sep, s \o t, q, z)
<1> SUFFICES ASSUME NEW out, NEW cur \in Seq(Chars)
             PROVE  ScanLoop!Loop(sep, At(q, out, cur), s \o t) = At(z, out, cur \o (s \o t))
  BY Zenon DEF Copies
<1>1. ScanLoop!Loop(sep, At(q, out, cur), s \o t)
        = ScanLoop!Loop(sep, ScanLoop!Loop(sep, At(q, out, cur), s), t)
  BY ScanConcat
<1>2. ScanLoop!Loop(sep, At(q, out, cur), s) = At(r, out, cur \o s)
  BY Zenon DEF Copies
<1>3. cur \o s \in Seq(Chars) /\ (cur \o s) \o t = cur \o (s \o t)
  BY ConcatAssoc
<1>4. ScanLoop!Loop(sep, At(r, out, cur \o s), t) = At(z, out, (cur \o s) \o t)
  BY Zenon, <1>3 DEF Copies
<1> QED BY Zenon, <1>1, <1>2, <1>3, <1>4

LEMMA CopiesByte ==
  ASSUME NEW sep, NEW c \in Chars, NEW q, NEW r,
         \A out : \A cur \in Seq(Chars) :
           ScanByte(sep, At(q, out, cur), c) = At(r, out, Append(cur, c))
  PROVE  Copies(sep, One(c), q, r)
<1> SUFFICES ASSUME NEW out, NEW cur \in Seq(Chars)
             PROVE  ScanLoop!Loop(sep, At(q, out, cur), One(c)) = At(r, out, cur \o One(c))
  BY Zenon DEF Copies
<1>1. ScanLoop!Loop(sep, At(q, out, cur), One(c)) = ScanByte(sep, At(q, out, cur), c)
  BY ScanOnce
<1>2. cur \o One(c) = Append(cur, c)
  BY Zenon, AppendOne
<1> QED BY Zenon, <1>1, <1>2

LEMMA CopiesOne ==
  ASSUME NEW sep \in Separators, NEW c \in Chars
  PROVE  /\ c # sep /\ c # Quote => Copies(sep, One(c), "out", "out")
         /\ Copies(sep, One(Quote), "out", "in") /\ Copies(sep, One(Quote), "in", "out")
         /\ c # Backslash /\ c # Quote => Copies(sep, One(c), "in", "in")
         /\ Copies(sep, Two(Backslash, c), "in", "in")
         /\ Copies(sep, <<>>, "out", "out") /\ Copies(sep, <<>>, "in", "in")
<1>1. Quote \in Chars /\ Backslash \in Chars
  BY Zenon, Characters
<1>2. c # sep /\ c # Quote => Copies(sep, One(c), "out", "out")
  BY CopiesByte, ScanCases
<1>3. Copies(sep, One(Quote), "out", "in")
  BY <1>1, CopiesByte, ScanCases
<1>4. Copies(sep, One(Quote), "in", "out")
  <2>1. \A out : \A cur \in Seq(Chars) :
          ScanByte(sep, At("in", out, cur), Quote) = At("out", out, Append(cur, Quote))
    <3> SUFFICES ASSUME NEW out, NEW cur \in Seq(Chars)
                 PROVE  ScanByte(sep, At("in", out, cur), Quote) = At("out", out, Append(cur, Quote))
      BY Zenon
    <3> QED BY ScanCases
  <2> QED BY Zenon, <1>1, <2>1, CopiesByte
<1>5. c # Backslash /\ c # Quote => Copies(sep, One(c), "in", "in")
  BY CopiesByte, ScanCases
<1>6. ASSUME NEW q, NEW out, NEW cur \in Seq(Chars)
      PROVE  ScanLoop!Loop(sep, At(q, out, cur), <<>>) = At(q, out, cur \o <<>>)
  <2>1. ScanLoop!Loop(sep, At(q, out, cur), <<>>) = At(q, out, cur)
    BY Zenon, ScanOnce
  <2>2. cur \o <<>> = cur
    BY Zenon, EmptyConcat
  <2> QED BY Zenon, <2>1, <2>2
<1>7. ASSUME NEW out, NEW cur \in Seq(Chars)
      PROVE  ScanLoop!Loop(sep, At("in", out, cur), Two(Backslash, c))
               = At("in", out, cur \o Two(Backslash, c))
  <2>1. Two(Backslash, c) = One(Backslash) \o One(c) /\ One(Backslash) \in Seq(Chars) /\ One(c) \in Seq(Chars)
    BY Zenon, <1>1, TwoIsOnes
  <2>2. ScanLoop!Loop(sep, At("in", out, cur), One(Backslash))
          = At("esc", out, Append(cur, Backslash))
    <3>1. ScanLoop!Loop(sep, At("in", out, cur), One(Backslash))
            = ScanByte(sep, At("in", out, cur), Backslash)
      BY Zenon, ScanOnce
    <3> QED BY <3>1, ScanCases
  <2>3. ScanLoop!Loop(sep, At("esc", out, Append(cur, Backslash)), One(c))
          = At("in", out, Append(Append(cur, Backslash), c))
    <3>1. ScanLoop!Loop(sep, At("esc", out, Append(cur, Backslash)), One(c))
            = ScanByte(sep, At("esc", out, Append(cur, Backslash)), c)
      BY Zenon, ScanOnce
    <3> QED BY <3>1, ScanCases
  <2>4. ScanLoop!Loop(sep, At("in", out, cur), One(Backslash) \o One(c))
          = ScanLoop!Loop(sep, ScanLoop!Loop(sep, At("in", out, cur), One(Backslash)), One(c))
    BY <2>1, ScanConcat
  <2>5. Append(Append(cur, Backslash), c) = cur \o Two(Backslash, c)
    <3>1. Append(cur, Backslash) = cur \o One(Backslash) /\ Append(cur, Backslash) \in Seq(Chars)
      BY Zenon, <1>1, AppendOne
    <3>2. Append(Append(cur, Backslash), c) = Append(cur, Backslash) \o One(c)
      BY Zenon, <3>1, AppendOne
    <3>3. (cur \o One(Backslash)) \o One(c) = cur \o (One(Backslash) \o One(c))
      BY <2>1, ConcatAssoc
    <3> QED BY Zenon, <2>1, <3>1, <3>2, <3>3
  <2> QED BY Zenon, <2>1, <2>2, <2>3, <2>4, <2>5
<1> QED BY Zenon, <1>2, <1>3, <1>4, <1>5, <1>6, <1>7 DEF Copies


-----------------------------------------------------------------------------
(* Escaping writes a quote or a backslash with a backslash before it. *)
Written1(c) == IF c \in {Quote, Backslash} THEN Two(Backslash, c) ELSE One(c)

Escaped(v) == FoldLeft(EscapeByte, <<>>, v)

EscapeStep(e, a, c) == EscapeByte(a, c)

EscapeLoop == INSTANCE Loops WITH Step <- EscapeStep, Inv <- ScanInv

LEMMA EscapedSteps ==
  ASSUME NEW v \in Seq(Chars), NEW c \in Chars
  PROVE  Escaped(<<>>) = <<>> /\ Escaped(Append(v, c)) = EscapeByte(Escaped(v), c)
<1>1. EscapeLoop!Induction
  BY Zenon, SetInduction DEF EscapeLoop!Induction
<1>2. ASSUME NEW w PROVE Escaped(w) = EscapeLoop!Loop(0, <<>>, w)
  BY Zenon DEF Escaped, EscapeLoop!Loop, EscapeStep, FoldLeft
<1>3. EscapeLoop!Loop(0, <<>>, <<>>) = <<>>
  BY Zenon, <1>1, EscapeLoop!LoopOnce
<1>4. EscapeLoop!Loop(0, <<>>, Append(v, c)) = EscapeStep(0, EscapeLoop!Loop(0, <<>>, v), c)
  BY <1>1, EscapeLoop!LoopAppend
<1> QED BY Zenon, <1>2, <1>3, <1>4 DEF EscapeStep

LEMMA EscapeBytes ==
  ASSUME NEW a \in Seq(Chars), NEW c \in Chars
  PROVE  EscapeByte(a, c) = a \o Written1(c) /\ Written1(c) \in Seq(Chars)
<1>1. Quote \in Chars /\ Backslash \in Chars
  BY Zenon, Characters
<1>2. Two(Backslash, c) \in Seq(Chars) /\ One(c) \in Seq(Chars)
  BY <1>1, TwoIsOnes, AppendOne
<1>3. Append(a, c) = a \o One(c)
  BY Zenon, AppendOne
<1> QED BY Zenon, <1>2, <1>3 DEF EscapeByte, Written1, Two

LEMMA EscapedCopies ==
  ASSUME NEW v \in Seq(Chars)
  PROVE  Escaped(v) \in Seq(Chars) /\ \A sep \in Separators : Copies(sep, Escaped(v), "in", "in")
<1> DEFINE P(w) == Escaped(w) \in Seq(Chars) /\ \A sep \in Separators : Copies(sep, Escaped(w), "in", "in")
           S == {w \in Seq(Chars) : P(w)}
<1>1. <<>> \in Seq(Chars)
  OBVIOUS
<1>2. Quote \in Chars
  BY Zenon, Characters
<1>3. Escaped(<<>>) = <<>>
  BY Zenon, <1>1, <1>2, EscapedSteps
<1>4. \A sep \in Separators : Copies(sep, <<>>, "in", "in")
  BY <1>2, CopiesOne
<1>5. <<>> \in S
  BY Zenon, <1>1, <1>3, <1>4
<1>6. ASSUME NEW w \in Seq(Chars), NEW c \in Chars, w \in S PROVE Append(w, c) \in S
  <2>1. Append(w, c) \in Seq(Chars)
    OBVIOUS
  <2>2. Escaped(w) \in Seq(Chars) /\ \A sep \in Separators : Copies(sep, Escaped(w), "in", "in")
    BY Zenon, <1>6
  <2>3. Escaped(Append(w, c)) = Escaped(w) \o Written1(c) /\ Written1(c) \in Seq(Chars)
    BY Zenon, <2>2, EscapedSteps, EscapeBytes
  <2>4. ASSUME NEW sep \in Separators PROVE Copies(sep, Written1(c), "in", "in")
    BY Zenon, CopiesOne DEF Written1
  <2>5. Escaped(w) \o Written1(c) \in Seq(Chars)
    BY <2>2, <2>3, ConcatAssoc
  <2>6. ASSUME NEW sep \in Separators PROVE Copies(sep, Escaped(w) \o Written1(c), "in", "in")
    BY Zenon, <2>2, <2>3, <2>4, CopiesJoin
  <2> QED BY Zenon, <2>1, <2>3, <2>5, <2>6
<1> HIDE DEF S
<1>7. Seq(Chars) \subseteq S
  BY Zenon, <1>5, <1>6, SeqInduction
<1> QED BY Zenon, <1>7 DEF S

LEMMA QuotedCopies ==
  ASSUME NEW v \in Seq(Chars)
  PROVE  /\ Quoted(v) = (One(Quote) \o Escaped(v)) \o One(Quote) /\ Quoted(v) \in Seq(Chars)
         /\ \A sep \in Separators : Copies(sep, Quoted(v), "out", "out")
<1>1. Quote \in Chars /\ One(Quote) \in Seq(Chars)
  BY Characters DEF One
<1>2. Escaped(v) \in Seq(Chars) /\ \A sep \in Separators : Copies(sep, Escaped(v), "in", "in")
  BY Zenon, EscapedCopies
<1>3. Quoted(v) = (One(Quote) \o Escaped(v)) \o One(Quote)
  BY Zenon DEF Quoted, One, Escaped
<1>4. One(Quote) \o Escaped(v) \in Seq(Chars)
  BY <1>1, <1>2, ConcatAssoc
<1>5. (One(Quote) \o Escaped(v)) \o One(Quote) \in Seq(Chars)
  BY <1>1, <1>4, ConcatAssoc
<1>6. ASSUME NEW sep \in Separators PROVE Copies(sep, (One(Quote) \o Escaped(v)) \o One(Quote), "out", "out")
  <2>1. Copies(sep, One(Quote), "out", "in") /\ Copies(sep, One(Quote), "in", "out")
    BY Zenon, <1>1, CopiesOne
  <2>2. Copies(sep, One(Quote) \o Escaped(v), "out", "in")
    BY Zenon, <1>1, <1>2, <2>1, CopiesJoin
  <2> QED BY Zenon, <1>1, <1>4, <2>1, <2>2, CopiesJoin
<1> QED BY Zenon, <1>3, <1>5, <1>6

LEMMA PlainCopies ==
  ASSUME NEW v \in Seq(Chars), Plain(v)
  PROVE  \A sep \in Separators : Copies(sep, v, "out", "out")
<1> DEFINE P(w) == Plain(w) => \A sep \in Separators : Copies(sep, w, "out", "out")
           S == {w \in Seq(Chars) : P(w)}
<1>1. <<>> \in Seq(Chars)
  OBVIOUS
<1>2. Quote \in Chars
  BY Zenon, Characters
<1>4. \A sep \in Separators : Copies(sep, <<>>, "out", "out")
  BY <1>2, CopiesOne
<1>5. <<>> \in S
  BY Zenon, <1>1, <1>4
<1>6. ASSUME NEW w \in Seq(Chars), NEW c \in Chars, w \in S PROVE Append(w, c) \in S
  <2>1. Append(w, c) \in Seq(Chars)
    OBVIOUS
  <2> SUFFICES ASSUME Plain(Append(w, c)), NEW sep \in Separators PROVE Copies(sep, Append(w, c), "out", "out")
    BY Zenon, <2>1
  <2>2. Plain(w) /\ c \notin Special
    <3> DEFINE t == Append(w, c)
    <3>1. DOMAIN w \subseteq DOMAIN t /\ Len(t) \in DOMAIN t /\ t[Len(t)] = c /\ \A i \in DOMAIN w : t[i] = w[i]
      OBVIOUS
    <3> HIDE DEF t
    <3>2. Plain(t)
      BY Zenon DEF t
    <3> QED BY Zenon, <3>1, <3>2 DEF Plain
  <2>3. Append(w, c) = w \o One(c) /\ One(c) \in Seq(Chars)
    BY AppendOne
  <2>4. c # sep /\ c # Quote
    BY Zenon, <2>2 DEF Special, Separators
  <2>5. Copies(sep, One(c), "out", "out")
    BY Zenon, <2>4, CopiesOne
  <2>6. Copies(sep, w, "out", "out")
    BY Zenon, <1>6, <2>2
  <2> QED BY Zenon, <2>3, <2>5, <2>6, CopiesJoin
<1> HIDE DEF S
<1>7. Seq(Chars) \subseteq S
  BY Zenon, <1>5, <1>6, SeqInduction
<1> QED BY Zenon, <1>7 DEF S

LEMMA PairCopies ==
  ASSUME NEW key \in PairKeys, NEW w \in Seq(Chars), NEW sep \in Separators, Copies(sep, w, "out", "out")
  PROVE  /\ Pair(key, w) = Two(key, "=") \o w /\ Pair(key, w) \in Seq(Chars)
         /\ Copies(sep, Pair(key, w), "out", "out")
<1>1. key \in Chars /\ "=" \in Chars /\ key # sep /\ key # Quote /\ "=" # sep /\ "=" # Quote
  BY Zenon, Characters
<1>2. Two(key, "=") = One(key) \o One("=") /\ Two(key, "=") \in Seq(Chars)
      /\ One(key) \in Seq(Chars) /\ One("=") \in Seq(Chars)
  BY <1>1, TwoIsOnes
<1>3. Copies(sep, One(key), "out", "out") /\ Copies(sep, One("="), "out", "out")
  BY Zenon, <1>1, CopiesOne
<1>4. Copies(sep, Two(key, "="), "out", "out")
  BY Zenon, <1>2, <1>3, CopiesJoin
<1>5. Copies(sep, Two(key, "=") \o w, "out", "out")
  BY Zenon, <1>2, <1>4, CopiesJoin
<1>6. Two(key, "=") \o w \in Seq(Chars)
  BY <1>2, ConcatAssoc
<1> QED BY Zenon, <1>5, <1>6 DEF Pair, Two

-----------------------------------------------------------------------------
(* unquote undoes the escaping. *)
Reading(out) == [out |-> out, skip |-> FALSE]

Skipped(out) == [out |-> out, skip |-> TRUE]

LEMMA UnescapeCases ==
  ASSUME NEW out, NEW c
  PROVE  /\ c # Backslash => UnescapeByte(Reading(out), c) = Reading(Append(out, c))
         /\ UnescapeByte(Reading(out), Backslash) = Skipped(out)
         /\ UnescapeByte(Skipped(out), c) = Reading(Append(out, c))
BY DEF UnescapeByte, Reading, Skipped

UnescapeStep(e, a, c) == UnescapeByte(a, c)

UnescapeLoop == INSTANCE Loops WITH Step <- UnescapeStep, Inv <- ScanInv

LEMMA UnescapedByte ==
  ASSUME NEW out, NEW c \in Chars
  PROVE  UnescapeLoop!Loop(0, Reading(out), Written1(c)) = Reading(Append(out, c))
<1>1. UnescapeLoop!Induction
  BY Zenon, SetInduction DEF UnescapeLoop!Induction
<1>2. ASSUME NEW a, NEW d PROVE UnescapeLoop!Loop(0, a, One(d)) = UnescapeByte(a, d)
  BY Zenon, <1>1, UnescapeLoop!LoopOnce DEF UnescapeStep, One
<1>3. CASE c \notin {Quote, Backslash}
  <2>1. Written1(c) = One(c) /\ c # Backslash
    BY Zenon, <1>3 DEF Written1
  <2> QED BY Zenon, <2>1, <1>2, UnescapeCases
<1>4. CASE c \in {Quote, Backslash}
  <2>1. Backslash \in Chars
    BY Zenon, Characters
  <2>2. Written1(c) = One(Backslash) \o One(c) /\ One(Backslash) \in Seq(Chars) /\ One(c) \in Seq(Chars)
    <3>1. Written1(c) = Two(Backslash, c)
      BY Zenon, <1>4 DEF Written1
    <3> QED BY <2>1, <3>1, TwoIsOnes
  <2>3. UnescapeLoop!Loop(0, Reading(out), One(Backslash) \o One(c))
          = UnescapeLoop!Loop(0, UnescapeLoop!Loop(0, Reading(out), One(Backslash)), One(c))
    BY <1>1, <2>2, UnescapeLoop!LoopConcat
  <2>4. UnescapeLoop!Loop(0, Reading(out), One(Backslash)) = Skipped(out)
    BY Zenon, <1>2, UnescapeCases
  <2>5. UnescapeLoop!Loop(0, Skipped(out), One(c)) = Reading(Append(out, c))
    BY Zenon, <1>2, UnescapeCases
  <2> QED BY Zenon, <2>2, <2>3, <2>4, <2>5
<1> QED BY Zenon, <1>3, <1>4

LEMMA Unescaped ==
  ASSUME NEW v \in Seq(Chars)
  PROVE  UnescapeLoop!Loop(0, Reading(<<>>), Escaped(v)) = Reading(v)
<1> DEFINE S == {w \in Seq(Chars) : UnescapeLoop!Loop(0, Reading(<<>>), Escaped(w)) = Reading(w)}
<1>1. UnescapeLoop!Induction
  BY Zenon, SetInduction DEF UnescapeLoop!Induction
<1>2. <<>> \in S
  <2>1. <<>> \in Seq(Chars) /\ Quote \in Chars
    BY Characters
  <2>2. Escaped(<<>>) = <<>>
    BY Zenon, <2>1, EscapedSteps
  <2>3. UnescapeLoop!Loop(0, Reading(<<>>), <<>>) = Reading(<<>>)
    BY Zenon, <1>1, UnescapeLoop!LoopOnce
  <2> QED BY Zenon, <2>1, <2>2, <2>3
<1>3. ASSUME NEW w \in Seq(Chars), NEW c \in Chars, w \in S PROVE Append(w, c) \in S
  <2>1. Append(w, c) \in Seq(Chars)
    OBVIOUS
  <2>2. Escaped(w) \in Seq(Chars)
    BY Zenon, EscapedCopies
  <2>3. Escaped(Append(w, c)) = Escaped(w) \o Written1(c) /\ Written1(c) \in Seq(Chars)
    BY Zenon, <2>2, EscapedSteps, EscapeBytes
  <2> DEFINE r == Reading(<<>>)
  <2> HIDE DEF r
  <2>4. UnescapeLoop!Loop(0, r, Escaped(w) \o Written1(c))
          = UnescapeLoop!Loop(0, UnescapeLoop!Loop(0, r, Escaped(w)), Written1(c))
    BY <1>1, <2>2, <2>3, UnescapeLoop!LoopConcat
  <2>5. UnescapeLoop!Loop(0, r, Escaped(w)) = Reading(w)
    BY Zenon, <1>3 DEF r
  <2>6. UnescapeLoop!Loop(0, r, Escaped(Append(w, c))) = Reading(Append(w, c))
    BY Zenon, <2>3, <2>4, <2>5, UnescapedByte
  <2> QED BY Zenon, <2>1, <2>6 DEF r
<1> HIDE DEF S
<1>4. Seq(Chars) \subseteq S
  BY Zenon, <1>2, <1>3, SeqInduction
<1> QED BY Zenon, <1>4 DEF S

LEMMA SliceEqual ==
  ASSUME NEW X, NEW s \in Seq(X), NEW t \in Seq(X), Len(s) = Len(t), \A i \in 1 .. Len(t) : s[i] = t[i]
  PROVE  s = t
OBVIOUS

Enclosed(x, e) == (One(x) \o e) \o One(x)

LEMMA Between ==
  ASSUME NEW X, NEW x \in X, NEW e \in Seq(X)
  PROVE  /\ Len(Enclosed(x, e)) \in Nat /\ Len(Enclosed(x, e)) >= 2
         /\ Enclosed(x, e)[1] = x /\ Enclosed(x, e)[Len(Enclosed(x, e))] = x
         /\ SubSeq(Enclosed(x, e), 2, Len(Enclosed(x, e)) - 1) = e
<1> DEFINE w == One(x)
           p == w \o e
           t == p \o w
<1>0. w \in Seq(X)
  BY DEF One
<1>1. Len(w) = 1 /\ w[1] = x
  BY DEF One
<1>9. Enclosed(x, e) = t
  BY Zenon DEF Enclosed
<1> HIDE DEF w
<1>2. p \in Seq(X) /\ Len(p) = Len(e) + 1 /\ p[1] = x /\ \A i \in 1 .. Len(e) : p[i + 1] = e[i]
  <2>1. /\ p \in Seq(X) /\ Len(p) = Len(w) + Len(e) /\ Len(e) \in Nat
        /\ \A i \in 1 .. Len(w) : p[i] = w[i]
        /\ \A i \in 1 .. Len(e) : p[Len(w) + i] = e[i]
    BY <1>0
  <2> HIDE DEF p
  <2> QED BY <1>1, <2>1
<1> HIDE DEF p
<1>3. p \in Seq(X)
  BY Zenon, <1>2
<1>4. t \in Seq(X) /\ Len(t) = Len(e) + 2 /\ t[Len(t)] = x /\ \A i \in 1 .. Len(e) + 1 : t[i] = p[i]
  <2>1. /\ t \in Seq(X) /\ Len(t) = Len(p) + Len(w) /\ Len(p) \in Nat
        /\ \A i \in 1 .. Len(p) : t[i] = p[i]
        /\ \A i \in 1 .. Len(w) : t[Len(p) + i] = w[i]
    BY <1>0, <1>3
  <2>2. Len(e) \in Nat
    OBVIOUS
  <2> HIDE DEF t
  <2> QED BY <1>1, <1>2, <2>1, <2>2
<1> HIDE DEF t
<1> DEFINE m == SubSeq(t, 2, Len(t) - 1)
<1>5. Len(e) \in Nat
  OBVIOUS
<1>6. m \in Seq(X) /\ Len(m) = Len(e) /\ \A i \in 1 .. Len(e) : m[i] = t[i + 1]
  BY <1>4, <1>5
<1> HIDE DEF m
<1>7. \A i \in 1 .. Len(e) : m[i] = e[i]
  BY <1>2, <1>4, <1>5, <1>6
<1>8. m = e
  BY Zenon, <1>6, <1>7, SliceEqual
<1>10. Len(t) \in Nat /\ Len(t) >= 2 /\ t[1] = x
  BY <1>2, <1>4, <1>5
<1> QED BY Zenon, <1>9, <1>4, <1>8, <1>10 DEF m

LEMMA UnquoteQuoted ==
  ASSUME NEW v \in Seq(Chars)
  PROVE  Unquote(Quoted(v)) = v
<1> DEFINE s == Quoted(v)
           m == SubSeq(s, 2, Len(s) - 1)
           end == FoldLeft(UnescapeByte, Reading(<<>>), m)
<1>1. s = Enclosed(Quote, Escaped(v)) /\ Escaped(v) \in Seq(Chars) /\ Quote \in Chars
  BY Zenon, QuotedCopies, EscapedCopies, Characters DEF Enclosed
<1> HIDE DEF s
<1>2. Len(s) >= 2 /\ s[1] = Quote /\ s[Len(s)] = Quote /\ m = Escaped(v) /\ Len(s) \in Nat
  BY Zenon, <1>1, Between
<1> HIDE DEF m
<1>3. end = UnescapeLoop!Loop(0, Reading(<<>>), m)
  BY Zenon DEF UnescapeLoop!Loop, UnescapeStep, FoldLeft
<1>4. end = Reading(v)
  BY Zenon, <1>2, <1>3, Unescaped
<1> HIDE DEF end
<1>5. end.out = v /\ end.skip = FALSE
  BY <1>4 DEF Reading
<1>6. ~(Len(s) < 2)
  BY <1>2
<1>7. Unquote(s) = end.out
  BY Zenon, <1>2, <1>5, <1>6 DEF Unquote, end, m, Reading
<1> QED BY Zenon, <1>5, <1>7 DEF s

LEMMA UnquotePlain ==
  ASSUME NEW v \in Seq(Chars), Plain(v)
  PROVE  Unquote(v) = v
<1>1. Len(v) < 2 \/ 1 \in DOMAIN v
  OBVIOUS
<1>2. Len(v) < 2 \/ v[1] # Quote
  BY Zenon, <1>1 DEF Plain, Special
<1> QED BY Zenon, <1>2 DEF Unquote

-----------------------------------------------------------------------------
(* Joining slices that leave no quote open, and splitting at the separator.  *)
JoinStep(env, a, i) == (IF i = 1 THEN <<>> ELSE Append(a, env.sep)) \o env.pieces[i]

(* After n pieces the scan holds n - 1 of them and reads the n-th; for any   *)
(* other separator it has copied them.                                       *)
JoinInv(env, seq, n, a) ==
  n >= 1 =>
    /\ a \in Seq(Chars)
    /\ ScanLoop!Loop(env.sep, At("out", <<>>, <<>>), a) = At("out", SubSeq(env.pieces, 1, n - 1), env.pieces[n])
    /\ \A t \in env.others : Copies(t, a, "out", "out")

JoinLoop == INSTANCE Loops WITH Step <- JoinStep, Inv <- JoinInv

JoinEnv(pieces, sep, others) == [pieces |-> pieces, sep |-> sep, others |-> others]

(* Pieces that a split at sep or at one of the others copies. *)
Pieces(pieces, sep, others) ==
  /\ pieces \in Seq(Seq(Chars)) /\ sep \in Separators /\ others \subseteq Separators /\ sep \notin others
  /\ \A i \in DOMAIN pieces : \A t \in others \cup {sep} : Copies(t, pieces[i], "out", "out")

LEMMA JoinFirst ==
  ASSUME NEW sep \in Separators, NEW p \in Seq(Chars), Copies(sep, p, "out", "out")
  PROVE  /\ <<>> \o p = p
         /\ \A out : ScanLoop!Loop(sep, At("out", out, <<>>), p) = At("out", out, p)
<1>1. <<>> \in Seq(Chars) /\ <<>> \o p = p
  OBVIOUS
<1>2. ASSUME NEW out PROVE ScanLoop!Loop(sep, At("out", out, <<>>), p) = At("out", out, p)
  <2>1. ScanLoop!Loop(sep, At("out", out, <<>>), p) = At("out", out, <<>> \o p)
    BY Zenon, <1>1 DEF Copies
  <2> QED BY Zenon, <1>1, <2>1
<1> QED BY Zenon, <1>1, <1>2

LEMMA JoinNext ==
  ASSUME NEW sep \in Separators, NEW a \in Seq(Chars), NEW p \in Seq(Chars), NEW out, NEW cur,
         ScanLoop!Loop(sep, At("out", <<>>, <<>>), a) = At("out", out, cur),
         Copies(sep, p, "out", "out"),
         NEW others, others \subseteq Separators, sep \notin others,
         \A t \in others : Copies(t, a, "out", "out") /\ Copies(t, p, "out", "out")
  PROVE  /\ Append(a, sep) \o p \in Seq(Chars)
         /\ ScanLoop!Loop(sep, At("out", <<>>, <<>>), Append(a, sep) \o p) = At("out", Append(out, cur), p)
         /\ \A t \in others : Copies(t, Append(a, sep) \o p, "out", "out")
<1>1. sep \in Chars /\ sep # Quote
  BY Zenon, Characters
<1>2. Append(a, sep) = a \o One(sep) /\ One(sep) \in Seq(Chars) /\ Append(a, sep) \in Seq(Chars)
  BY <1>1, AppendOne
<1> DEFINE start == At("out", <<>>, <<>>)
<1> HIDE DEF start
<1>3. ScanLoop!Loop(sep, start, Append(a, sep) \o p)
        = ScanLoop!Loop(sep, ScanLoop!Loop(sep, start, Append(a, sep)), p)
  <2> DEFINE b == Append(a, sep)
  <2>1. b \in Seq(Chars)
    BY Zenon, <1>2
  <2> HIDE DEF b
  <2>2. ScanLoop!Loop(sep, start, b \o p) = ScanLoop!Loop(sep, ScanLoop!Loop(sep, start, b), p)
    BY <2>1, ScanConcat
  <2> QED BY Zenon, <2>2 DEF b
<1>4. ScanLoop!Loop(sep, start, a \o One(sep))
        = ScanLoop!Loop(sep, ScanLoop!Loop(sep, start, a), One(sep))
  BY <1>2, ScanConcat
<1>5. ScanLoop!Loop(sep, start, a) = At("out", out, cur)
  BY Zenon DEF start
<1>6. ScanLoop!Loop(sep, At("out", out, cur), One(sep)) = At("out", Append(out, cur), <<>>)
  <2>1. ScanLoop!Loop(sep, At("out", out, cur), One(sep)) = ScanByte(sep, At("out", out, cur), sep)
    BY Zenon, ScanOnce
  <2>2. ScanByte(sep, At("out", out, cur), sep) = At("out", Append(out, cur), <<>>)
    BY ScanCases
  <2> QED BY Zenon, <2>1, <2>2
<1>7. ScanLoop!Loop(sep, At("out", Append(out, cur), <<>>), p) = At("out", Append(out, cur), p)
  BY Zenon, JoinFirst
<1>8. ScanLoop!Loop(sep, start, Append(a, sep) \o p) = At("out", Append(out, cur), p)
  BY Zenon, <1>2, <1>3, <1>4, <1>5, <1>6, <1>7
<1>9. ASSUME NEW t \in others PROVE Copies(t, Append(a, sep) \o p, "out", "out")
  <2>1. t \in Separators /\ sep # t
    BY Zenon
  <2>2. Copies(t, One(sep), "out", "out")
    BY Zenon, <1>1, <2>1, CopiesOne
  <2>3. Copies(t, a \o One(sep), "out", "out")
    BY Zenon, <1>2, <2>2, CopiesJoin
  <2> QED BY Zenon, <1>2, <2>3, CopiesJoin
<1>10. Append(a, sep) \o p \in Seq(Chars)
  BY <1>2, ConcatAssoc
<1> QED BY Zenon, <1>8, <1>9, <1>10 DEF start

LEMMA PrefixNext ==
  ASSUME NEW X, NEW s \in Seq(X), NEW n \in 1 .. Len(s), n # 1
  PROVE  Append(SubSeq(s, 1, (n - 1) - 1), s[n - 1]) = SubSeq(s, 1, n - 1)
<1> DEFINE f == SubSeq(s, 1, (n - 1) - 1)
           g == Append(f, s[n - 1])
           h == SubSeq(s, 1, n - 1)
<1>1. f \in Seq(X) /\ Len(f) = (n - 1) - 1 /\ s[n - 1] \in X /\ \A i \in 1 .. (n - 1) - 1 : f[i] = s[i]
  OBVIOUS
<1>2. h \in Seq(X) /\ Len(h) = n - 1 /\ \A i \in 1 .. n - 1 : h[i] = s[i]
  OBVIOUS
<1> HIDE DEF f
<1>3. g \in Seq(X) /\ Len(g) = n - 1 /\ \A i \in 1 .. n - 1 : g[i] = s[i]
  BY <1>1
<1> HIDE DEF g, h
<1>4. Len(g) = Len(h) /\ \A i \in 1 .. Len(h) : g[i] = h[i]
  BY <1>2, <1>3
<1>5. g = h
  BY Zenon, <1>2, <1>3, <1>4, SliceEqual
<1> QED BY Zenon, <1>5 DEF g, h, f

LEMMA JoinKept ==
  ASSUME NEW pieces, NEW sep, NEW others, Pieces(pieces, sep, others), NEW idx, NEW n \in 1 .. Len(pieces),
         idx[n] = n, NEW a, JoinInv(JoinEnv(pieces, sep, others), idx, n - 1, a)
  PROVE  JoinInv(JoinEnv(pieces, sep, others), idx, n, JoinStep(JoinEnv(pieces, sep, others), a, idx[n]))
<1> DEFINE e == JoinEnv(pieces, sep, others)
           p == pieces[n]
<1>1. e.pieces = pieces /\ e.sep = sep /\ e.others = others
  BY DEF JoinEnv
<1> HIDE DEF e
<1>2. /\ pieces \in Seq(Seq(Chars)) /\ sep \in Separators /\ others \subseteq Separators /\ sep \notin others
      /\ n \in DOMAIN pieces
  BY DEF Pieces
<1>3. p \in Seq(Chars) /\ Copies(sep, p, "out", "out") /\ \A t \in others : Copies(t, p, "out", "out")
  <2>1. p \in Seq(Chars)
    BY <1>2
  <2> QED BY Zenon, <1>2, <2>1 DEF Pieces
<1>4. CASE n = 1
  <2>1. JoinStep(e, a, n) = <<>> \o p
    BY Zenon, <1>1, <1>4 DEF JoinStep
  <2>2. JoinStep(e, a, n) = p
    BY Zenon, <1>2, <1>3, <2>1, JoinFirst
  <2>3. SubSeq(pieces, 1, n - 1) = <<>>
    BY <1>2, <1>4
  <2>4. ScanLoop!Loop(sep, At("out", <<>>, <<>>), p) = At("out", <<>>, p)
    BY Zenon, <1>2, <1>3, JoinFirst
  <2>5. JoinInv(e, idx, n, p)
    BY Zenon, <1>1, <1>3, <2>3, <2>4 DEF JoinInv
  <2> QED BY Zenon, <2>2, <2>5 DEF e
<1>5. CASE n # 1
  <2>1. n - 1 >= 1
    BY <1>5
  <2>2. /\ a \in Seq(Chars)
        /\ ScanLoop!Loop(sep, At("out", <<>>, <<>>), a)
             = At("out", SubSeq(pieces, 1, (n - 1) - 1), pieces[n - 1])
        /\ \A t \in others : Copies(t, a, "out", "out")
    BY Zenon, <1>1, <2>1 DEF JoinInv, e
  <2>3. JoinStep(e, a, n) = Append(a, sep) \o p
    BY Zenon, <1>1, <1>5 DEF JoinStep
  <2>4. Append(SubSeq(pieces, 1, (n - 1) - 1), pieces[n - 1]) = SubSeq(pieces, 1, n - 1)
    BY Zenon, <1>2, <1>5, PrefixNext
  <2> HIDE DEF p
  <2>5. /\ Append(a, sep) \o p \in Seq(Chars)
        /\ ScanLoop!Loop(sep, At("out", <<>>, <<>>), Append(a, sep) \o p) = At("out", SubSeq(pieces, 1, n - 1), p)
        /\ \A t \in others : Copies(t, Append(a, sep) \o p, "out", "out")
    <3> DEFINE out == SubSeq(pieces, 1, (n - 1) - 1)
               cur == pieces[n - 1]
    <3>1. ScanLoop!Loop(sep, At("out", <<>>, <<>>), a) = At("out", out, cur)
      BY Zenon, <2>2
    <3>2. Append(out, cur) = SubSeq(pieces, 1, n - 1)
      BY Zenon, <2>4
    <3> HIDE DEF out, cur
    <3>3. \A t \in others : Copies(t, a, "out", "out") /\ Copies(t, p, "out", "out")
      BY Zenon, <1>3, <2>2
    <3>4. /\ Append(a, sep) \o p \in Seq(Chars)
          /\ ScanLoop!Loop(sep, At("out", <<>>, <<>>), Append(a, sep) \o p) = At("out", Append(out, cur), p)
          /\ \A t \in others : Copies(t, Append(a, sep) \o p, "out", "out")
      BY Zenon, <1>2, <1>3, <2>2, <3>1, <3>3, JoinNext
    <3> QED BY Zenon, <3>2, <3>4
  <2>6. JoinInv(e, idx, n, Append(a, sep) \o p)
    BY Zenon, <1>1, <2>5 DEF JoinInv, p
  <2> QED BY Zenon, <2>3, <2>6 DEF e
<1> QED BY Zenon, <1>4, <1>5

LEMMA JoinSplit ==
  ASSUME NEW pieces, NEW sep, NEW others, Pieces(pieces, sep, others), pieces # <<>>
  PROVE  /\ Join(pieces, sep) \in Seq(Chars) /\ SplitTop(Join(pieces, sep), sep) = pieces
         /\ \A t \in others : Copies(t, Join(pieces, sep), "out", "out")
<1> DEFINE e == JoinEnv(pieces, sep, others)
           idx == [i \in 1 .. Len(pieces) |-> i]
           n == Len(pieces)
           a == Join(pieces, sep)
<1>1. e.pieces = pieces /\ e.sep = sep /\ e.others = others
  BY DEF JoinEnv
<1>2. pieces \in Seq(Seq(Chars)) /\ n \in Nat /\ n >= 1
  BY DEF Pieces
<1>3. idx \in Seq(Nat) /\ Len(idx) = n /\ \A i \in 1 .. n : idx[i] = i
  BY <1>2
<1>4. JoinLoop!Induction
  BY Zenon, SetInduction DEF JoinLoop!Induction
<1> HIDE DEF e
<1>5. a = JoinLoop!Loop(e, <<>>, idx)
  BY Zenon, <1>1 DEF Join, JoinLoop!Loop, JoinStep, FoldLeft
<1> HIDE DEF idx, n, a
<1>6. JoinInv(e, idx, 0, <<>>)
  <2>1. ~(0 >= 1)
    OBVIOUS
  <2> QED BY Zenon, <2>1 DEF JoinInv
<1>7. ASSUME NEW k \in 1 .. Len(idx), NEW b, JoinInv(e, idx, k - 1, b)
      PROVE  JoinInv(e, idx, k, JoinStep(e, b, idx[k]))
  BY Zenon, <1>3, <1>7, JoinKept DEF e, n
<1>8. JoinInv(e, idx, Len(idx), JoinLoop!Loop(e, <<>>, idx))
  BY Zenon, <1>3, <1>4, <1>6, <1>7, JoinLoop!LoopInvariant
<1>9. /\ a \in Seq(Chars)
      /\ ScanLoop!Loop(sep, At("out", <<>>, <<>>), a) = At("out", SubSeq(pieces, 1, n - 1), pieces[n])
      /\ \A t \in others : Copies(t, a, "out", "out")
  BY Zenon, <1>1, <1>2, <1>3, <1>5, <1>8 DEF JoinInv
<1>10. SplitTop(a, sep) = Append(SubSeq(pieces, 1, n - 1), pieces[n])
  <2> DEFINE end == FoldLeft(LAMBDA x, c : ScanByte(sep, x, c), ScanState(<<>>, <<>>, FALSE, FALSE), a)
  <2>1. end = ScanLoop!Loop(sep, ScanState(<<>>, <<>>, FALSE, FALSE), a)
    BY Zenon DEF ScanLoop!Loop, FoldLeft
  <2> HIDE DEF end
  <2>2. end = At("out", SubSeq(pieces, 1, n - 1), pieces[n])
    BY Zenon, <1>9, <2>1, ScanStart
  <2>3. end.out = SubSeq(pieces, 1, n - 1) /\ end.cur = pieces[n]
    BY Zenon, <2>2 DEF At, ScanState
  <2> QED BY Zenon, <2>3 DEF SplitTop, end
<1>11. Append(SubSeq(pieces, 1, n - 1), pieces[n]) = pieces
  <2> DEFINE f == SubSeq(pieces, 1, n - 1)
             g == Append(f, pieces[n])
             X == Seq(Chars)
  <2> HIDE DEF X
  <2>1. pieces \in Seq(X) /\ n = Len(pieces)
    BY Zenon, <1>2 DEF X, n
  <2>2. f \in Seq(X) /\ Len(f) = n - 1 /\ pieces[n] \in X /\ \A i \in 1 .. n - 1 : f[i] = pieces[i]
    BY <1>2, <2>1
  <2> HIDE DEF f
  <2>3. g \in Seq(X) /\ Len(g) = n /\ \A i \in 1 .. n : g[i] = pieces[i]
    BY <1>2, <2>2
  <2> HIDE DEF g
  <2>4. g = pieces
    BY Zenon, <2>1, <2>3, SliceEqual
  <2> QED BY Zenon, <2>4 DEF g, f
<1> QED BY Zenon, <1>9, <1>10, <1>11 DEF a

-----------------------------------------------------------------------------
(* parse puts the value of each pair where its key says.                     *)
PutPair(el, key, val) ==
  CASE key = "Hash" -> Element(el.subject, val, el.uris, el.dns)
    [] key = "Subject" -> Element(val, el.hash, el.uris, el.dns)
    [] key = "URI" -> Element(el.subject, el.hash, el.uris \union {val}, el.dns)
    [] key = "DNS" -> Element(el.subject, el.hash, el.uris, el.dns \union {val})
    [] OTHER -> el

LEMMA PairParts ==
  ASSUME NEW key \in PairKeys, NEW w \in Seq(Chars)
  PROVE  /\ 2 \in DOMAIN Pair(key, w) /\ Pair(key, w)[2] = "=" /\ Pair(key, w)[1] = key
         /\ DOMAIN Pair(key, w) = 1 .. Len(w) + 2 /\ Len(w) \in Nat
         /\ SubSeq(Pair(key, w), 1, 1) = One(key)
         /\ SubSeq(Pair(key, w), 3, Len(Pair(key, w))) = w
<1> DEFINE h == Two(key, "=")
           p == h \o w
<1>1. key \in Chars /\ "=" \in Chars
  BY Zenon, Characters
<1>2. h \in Seq(Chars)
  BY <1>1 DEF Two
<1>3. Len(h) = 2 /\ h[1] = key /\ h[2] = "="
  BY DEF Two
<1>4. Pair(key, w) = p
  BY Zenon DEF Pair, Two
<1> HIDE DEF h
<1>5. /\ p \in Seq(Chars) /\ Len(p) = Len(h) + Len(w) /\ Len(w) \in Nat
      /\ \A i \in 1 .. Len(h) : p[i] = h[i]
      /\ \A i \in 1 .. Len(w) : p[Len(h) + i] = w[i]
  BY <1>2
<1> HIDE DEF p
<1>6. /\ Len(p) = Len(w) + 2 /\ DOMAIN p = 1 .. Len(w) + 2 /\ 2 \in DOMAIN p /\ p[1] = key /\ p[2] = "="
      /\ \A i \in 1 .. Len(w) : p[2 + i] = w[i]
  BY <1>3, <1>5
<1> DEFINE f == SubSeq(p, 1, 1)
           g == SubSeq(p, 3, Len(p))
<1>7. f \in Seq(Chars) /\ Len(f) = 1 /\ f[1] = key
  BY <1>5, <1>6
<1>8. g \in Seq(Chars) /\ Len(g) = Len(w) /\ \A i \in 1 .. Len(w) : g[i] = p[2 + i]
  BY <1>5, <1>6
<1> HIDE DEF f, g
<1>9. f = One(key)
  BY <1>1, <1>7 DEF One
<1>10. g = w
  <2>1. \A i \in 1 .. Len(w) : g[i] = w[i]
    BY Zenon, <1>6, <1>8
  <2> QED BY Zenon, <1>8, <2>1, SliceEqual
<1> QED BY Zenon, <1>4, <1>5, <1>6, <1>9, <1>10 DEF f, g

LEMMA OneEqual ==
  ASSUME NEW x, NEW y
  PROVE  One(x) = One(y) <=> x = y
BY DEF One

LEMMA AddPairPuts ==
  ASSUME NEW el, NEW key \in PairKeys, NEW w \in Seq(Chars)
  PROVE  AddPair(el, Pair(key, w)) = PutPair(el, key, Unquote(w))
<1> DEFINE pair == Pair(key, w)
           cuts == {i \in DOMAIN pair : pair[i] = "="}
           cut == CHOOSE i \in cuts : \A k \in cuts : i <= k
<1>1. /\ 2 \in DOMAIN pair /\ pair[2] = "=" /\ pair[1] = key
      /\ DOMAIN pair = 1 .. Len(w) + 2 /\ Len(w) \in Nat
      /\ SubSeq(pair, 1, 1) = One(key)
      /\ SubSeq(pair, 3, Len(pair)) = w
  BY Zenon, PairParts
<1>2. key # "="
  BY Zenon, Characters
<1> HIDE DEF pair
<1>3. 2 \in cuts /\ \A k \in cuts : 2 <= k /\ k \in Int
  BY <1>1, <1>2
<1> HIDE DEF cuts
<1>4. cut \in cuts /\ cut <= 2 /\ 2 <= cut /\ cut \in Int
  BY <1>3
<1>5. cut = 2
  BY <1>4
<1> HIDE DEF cut
<1>6. cut - 1 = 1 /\ cut + 1 = 3
  BY <1>5
<1>7. cuts # {}
  BY Zenon, <1>3
<1>8. SubSeq(pair, 1, cut - 1) = One(key) /\ Unquote(SubSeq(pair, cut + 1, Len(pair))) = Unquote(w)
  BY Zenon, <1>1, <1>6
<1> DEFINE val == Unquote(w)
           k1 == One(key)
<1>9. AddPair(el, pair) = CASE k1 = One("Hash") -> Element(el.subject, val, el.uris, el.dns)
               [] k1 = One("Subject") -> Element(val, el.hash, el.uris, el.dns)
               [] k1 = One("URI") -> Element(el.subject, el.hash, el.uris \union {val}, el.dns)
               [] k1 = One("DNS") -> Element(el.subject, el.hash, el.uris, el.dns \union {val})
               [] OTHER -> el
  <2> HIDE DEF val, k1
  <2>1. SubSeq(pair, 1, cut - 1) = k1 /\ Unquote(SubSeq(pair, cut + 1, Len(pair))) = val
    BY Zenon, <1>8 DEF val, k1
  <2> QED BY Zenon, <1>7, <2>1 DEF AddPair, cuts, cut, One
<1> HIDE DEF val
<1>10. AddPair(el, pair) = PutPair(el, key, val)
  BY Zenon, <1>9, OneEqual DEF PutPair
<1> QED BY Zenon, <1>10 DEF pair, val

(* The list of a finite set names each of its members. *)
LEMMA SetList ==
  ASSUME NEW S, IsFiniteSet(S)
  PROVE  /\ SetToSeq(S) \in Seq(S) /\ DOMAIN SetToSeq(S) = 1 .. Len(SetToSeq(S))
         /\ \A x \in S : \E i \in DOMAIN SetToSeq(S) : SetToSeq(S)[i] = x
<1> DEFINE n == Cardinality(S)
           D == 1 .. n
           list == SetToSeq(S)
<1>1. n \in Nat /\ ExistsBijection(D, S)
  BY Zenon, FS_CardinalityType
<1>2. IsFiniteSet(D) /\ Cardinality(D) = n
  <2>1. IsFiniteSet(1 .. n) /\ Cardinality(1 .. n) = IF 1 > n THEN 0 ELSE n - 1 + 1
    BY <1>1, FS_Interval
  <2> QED BY <1>1, <2>1
<1> HIDE DEF n
<1>3. \E s \in [D -> S] : IsInjective(s)
  BY Zenon, <1>1 DEF ExistsBijection, Bijection, Injection
<1>4. list \in [D -> S] /\ IsInjective(list)
  BY Zenon, <1>3 DEF SetToSeq, n
<1> HIDE DEF list
<1>5. list \in Injection(D, S)
  BY Zenon, <1>4 DEF Injection
<1>6. list \in Surjection(D, S)
  BY Zenon, <1>2, <1>5, FS_Injection DEF n
<1>7. list \in Seq(S) /\ DOMAIN list = D /\ Len(list) = n
  BY <1>1, <1>4
<1> QED BY Zenon, <1>6, <1>7 DEF Surjection, list

LEMMA EncodedValue ==
  ASSUME NEW v \in Seq(Chars)
  PROVE  /\ EncodeValue(v) \in Seq(Chars) /\ Unquote(EncodeValue(v)) = v
         /\ \A sep \in Separators : Copies(sep, EncodeValue(v), "out", "out")
<1>1. CASE Plain(v)
  BY Zenon, <1>1, PlainCopies, UnquotePlain DEF EncodeValue
<1>2. CASE ~Plain(v)
  BY Zenon, <1>2, QuotedCopies, UnquoteQuoted DEF EncodeValue
<1> QED BY Zenon, <1>1, <1>2

(* A list of pairs that splits at neither separator. *)
Kept(ps) ==
  /\ ps \in Seq(Seq(Chars))
  /\ \A i \in 1 .. Len(ps) : \A sep \in Separators : Copies(sep, ps[i], "out", "out")

LEMMA KeptConcat ==
  ASSUME NEW ps, NEW qs, Kept(ps), Kept(qs)
  PROVE  Kept(ps \o qs)
<1> DEFINE X == Seq(Chars)
           u == ps \o qs
<1> HIDE DEF X
<1>1. ps \in Seq(X) /\ qs \in Seq(X)
  BY Zenon DEF Kept, X
<1>2. /\ u \in Seq(X) /\ Len(u) = Len(ps) + Len(qs) /\ Len(ps) \in Nat /\ Len(qs) \in Nat
      /\ \A i \in 1 .. Len(ps) : u[i] = ps[i]
      /\ \A i \in 1 .. Len(qs) : u[Len(ps) + i] = qs[i]
  BY <1>1
<1> HIDE DEF u
<1>3. ASSUME NEW i \in 1 .. Len(u) PROVE i \in 1 .. Len(ps) \/ \E k \in 1 .. Len(qs) : i = Len(ps) + k
  <2>1. i \in 1 .. Len(ps) \/ i - Len(ps) \in 1 .. Len(qs)
    BY <1>2
  <2>2. i = Len(ps) + (i - Len(ps))
    BY <1>2
  <2> QED BY Zenon, <2>1, <2>2
<1>4. ASSUME NEW i \in 1 .. Len(u), NEW sep \in Separators PROVE Copies(sep, u[i], "out", "out")
  BY Zenon, <1>2, <1>3 DEF Kept
<1> QED BY Zenon, <1>2, <1>4 DEF Kept, X, u

LEMMA KeptOne ==
  ASSUME NEW key \in PairKeys, NEW w \in Seq(Chars), \A sep \in Separators : Copies(sep, w, "out", "out")
  PROVE  Kept(One(Pair(key, w)))
<1> DEFINE p == Pair(key, w)
<1>1. "," \in Separators
  BY Zenon DEF Separators
<1>2. p \in Seq(Chars) /\ \A sep \in Separators : Copies(sep, p, "out", "out")
  BY Zenon, <1>1, PairCopies
<1> HIDE DEF p
<1>3. One(p) \in Seq(Seq(Chars)) /\ Len(One(p)) = 1 /\ One(p)[1] = p
  BY <1>2 DEF One
<1>4. \A i \in 1 .. Len(One(p)) : i = 1
  BY <1>3
<1> QED BY Zenon, <1>2, <1>3, <1>4 DEF Kept, p

LEMMA KeptNone == Kept(<<>>)
BY DEF Kept

LEMMA PairsList ==
  ASSUME NEW key \in PairKeys, NEW values, values \subseteq Seq(Chars), IsFiniteSet(values)
  PROVE  /\ Kept(PairsOf(key, values)) /\ Len(PairsOf(key, values)) = Len(SetToSeq(values))
         /\ SetToSeq(values) \in Seq(Seq(Chars))
         /\ \A i \in 1 .. Len(SetToSeq(values)) :
              PairsOf(key, values)[i] = Pair(key, EncodeValue(SetToSeq(values)[i]))
<1> DEFINE list == SetToSeq(values)
           X == Seq(Chars)
           ps == PairsOf(key, values)
<1>1. "," \in Separators
  BY Zenon DEF Separators
<1>2. list \in Seq(values) /\ DOMAIN list = 1 .. Len(list)
  BY Zenon, SetList
<1>3. ps = [i \in DOMAIN list |-> Pair(key, EncodeValue(list[i]))]
  BY Zenon DEF PairsOf
<1> HIDE DEF list
<1>4. ASSUME NEW i \in 1 .. Len(list)
      PROVE  /\ Pair(key, EncodeValue(list[i])) \in X
             /\ \A sep \in Separators : Copies(sep, Pair(key, EncodeValue(list[i])), "out", "out")
  <2>1. list[i] \in values
    BY <1>2
  <2>2. list[i] \in Seq(Chars)
    BY Zenon, <2>1
  <2> QED BY Zenon, <1>1, <2>2, EncodedValue, PairCopies
<1> HIDE DEF X
<1>5. list \in Seq(X)
  <2>1. values \subseteq X
    BY Zenon DEF X
  <2> QED BY <1>2, <2>1
<1> HIDE DEF ps
<1>6. ps \in Seq(X) /\ Len(ps) = Len(list) /\ \A i \in 1 .. Len(list) : ps[i] = Pair(key, EncodeValue(list[i]))
  BY <1>2, <1>3, <1>4
<1> QED BY Zenon, <1>4, <1>5, <1>6 DEF Kept, X, ps, list

-----------------------------------------------------------------------------
(* parse reads each certificate back from its pairs.                         *)
PairStep(e, a, pair) == AddPair(a, pair)

PairLoop == INSTANCE Loops WITH Step <- PairStep, Inv <- ScanInv

LEMMA PutBy ==
  ASSUME NEW s, NEW h, NEW u, NEW d, NEW x
  PROVE  PutPair(Element(s, h, u, d), "By", x) = Element(s, h, u, d)
<1> DEFINE el == Element(s, h, u, d)
<1>1. el.subject = s /\ el.hash = h /\ el.uris = u /\ el.dns = d
  BY DEF Element
<1> HIDE DEF el
<1>2. PutPair(el, "By", x) = el
  BY <1>1 DEF PutPair
<1> QED BY Zenon, <1>2 DEF el

LEMMA PutHash ==
  ASSUME NEW s, NEW h, NEW u, NEW d, NEW x
  PROVE  PutPair(Element(s, h, u, d), "Hash", x) = Element(s, x, u, d)
<1> DEFINE el == Element(s, h, u, d)
<1>1. el.subject = s /\ el.hash = h /\ el.uris = u /\ el.dns = d
  BY DEF Element
<1> HIDE DEF el
<1>2. PutPair(el, "Hash", x) = Element(s, x, u, d)
  BY <1>1 DEF PutPair
<1> QED BY Zenon, <1>2 DEF el

LEMMA PutSubject ==
  ASSUME NEW s, NEW h, NEW u, NEW d, NEW x
  PROVE  PutPair(Element(s, h, u, d), "Subject", x) = Element(x, h, u, d)
<1> DEFINE el == Element(s, h, u, d)
<1>1. el.subject = s /\ el.hash = h /\ el.uris = u /\ el.dns = d
  BY DEF Element
<1> HIDE DEF el
<1>2. PutPair(el, "Subject", x) = Element(x, h, u, d)
  BY <1>1 DEF PutPair
<1> QED BY Zenon, <1>2 DEF el

LEMMA PutURI ==
  ASSUME NEW s, NEW h, NEW u, NEW d, NEW x
  PROVE  PutPair(Element(s, h, u, d), "URI", x) = Element(s, h, u \union {x}, d)
<1> DEFINE el == Element(s, h, u, d)
<1>1. el.subject = s /\ el.hash = h /\ el.uris = u /\ el.dns = d
  BY DEF Element
<1> HIDE DEF el
<1>2. PutPair(el, "URI", x) = Element(s, h, u \union {x}, d)
  BY <1>1 DEF PutPair
<1> QED BY Zenon, <1>2 DEF el

LEMMA PutDNS ==
  ASSUME NEW s, NEW h, NEW u, NEW d, NEW x
  PROVE  PutPair(Element(s, h, u, d), "DNS", x) = Element(s, h, u, d \union {x})
<1> DEFINE el == Element(s, h, u, d)
<1>1. el.subject = s /\ el.hash = h /\ el.uris = u /\ el.dns = d
  BY DEF Element
<1> HIDE DEF el
<1>2. PutPair(el, "DNS", x) = Element(s, h, u, d \union {x})
  BY <1>1 DEF PutPair
<1> QED BY Zenon, <1>2 DEF el

(* The values that the keys URI and DNS collect. *)
Grown(s, h, u, d, key, V) == IF key = "URI" THEN Element(s, h, u \union V, d) ELSE Element(s, h, u, d \union V)

(* Reading the pairs of the key collects the values. *)
Reads(key, values) ==
  \A s, h, u, d :
    PairLoop!Loop(0, Element(s, h, u, d), PairsOf(key, values)) = Grown(s, h, u, d, key, values)

LEMMA PairsRead ==
  ASSUME NEW key \in {"URI", "DNS"}, NEW values, values \subseteq Seq(Chars), IsFiniteSet(values)
  PROVE  Reads(key, values)
<1> SUFFICES ASSUME NEW s, NEW h, NEW u, NEW d
             PROVE  PairLoop!Loop(0, Element(s, h, u, d), PairsOf(key, values)) = Grown(s, h, u, d, key, values)
  BY Zenon DEF Reads
<1> DEFINE list == SetToSeq(values)
           ps == PairsOf(key, values)
           V(n) == {list[i] : i \in 1 .. n}
           f == [n \in 0 .. Len(list) |-> Grown(s, h, u, d, key, V(n))]
<1>1. PairLoop!Induction
  BY Zenon, SetInduction DEF PairLoop!Induction
<1>2. key \in PairKeys /\ "URI" # "DNS"
  <2>1. "URI" # "DNS"
    OBVIOUS
  <2> QED BY Zenon, <2>1 DEF PairKeys
<1>3. /\ ps \in Seq(Seq(Chars)) /\ Len(ps) = Len(list) /\ list \in Seq(Seq(Chars))
      /\ \A i \in 1 .. Len(list) : ps[i] = Pair(key, EncodeValue(list[i]))
  BY Zenon, <1>2, PairsList DEF Kept
<1>4. list \in Seq(values) /\ DOMAIN list = 1 .. Len(list) /\ \A x \in values : \E i \in DOMAIN list : list[i] = x
  BY Zenon, SetList
<1> HIDE DEF list, ps
<1>5. Len(list) \in Nat
  BY <1>4
<1>6. f[0] = Element(s, h, u, d)
  <2>1. V(0) = {} /\ 0 \in 0 .. Len(list)
    BY <1>5
  <2>2. u \union {} = u /\ d \union {} = d
    OBVIOUS
  <2> HIDE DEF V
  <2> QED BY Zenon, <2>1, <2>2 DEF Grown
<1>7. ASSUME NEW n \in 1 .. Len(ps) PROVE f[n] = PairStep(0, f[n - 1], ps[n])
  <2> DEFINE x == list[n]
             W == V(n - 1)
  <2>1. n \in 1 .. Len(list) /\ n \in 0 .. Len(list) /\ n - 1 \in 0 .. Len(list)
    BY <1>3, <1>5
  <2>2. x \in Seq(Chars)
    BY <1>3, <2>1
  <2>3. V(n) = W \union {x}
    BY <2>1
  <2>4. f[n] = Grown(s, h, u, d, key, V(n)) /\ f[n - 1] = Grown(s, h, u, d, key, W)
    BY Zenon, <2>1
  <2> HIDE DEF f, V, W, x
  <2>5. AddPair(f[n - 1], ps[n]) = PutPair(f[n - 1], key, x)
    <3>1. ps[n] = Pair(key, EncodeValue(x))
      BY Zenon, <1>3, <2>1 DEF x
    <3>2. EncodeValue(x) \in Seq(Chars) /\ Unquote(EncodeValue(x)) = x
      BY Zenon, <2>2, EncodedValue
    <3> QED BY Zenon, <1>2, <3>1, <3>2, AddPairPuts
  <2>6. u \union (W \union {x}) = (u \union W) \union {x} /\ d \union (W \union {x}) = (d \union W) \union {x}
    BY Zenon
  <2>7. CASE key = "URI"
    <3>1. f[n - 1] = Element(s, h, u \union W, d) /\ f[n] = Element(s, h, (u \union W) \union {x}, d)
      BY Zenon, <2>3, <2>4, <2>6, <2>7 DEF Grown
    <3>2. PutPair(Element(s, h, u \union W, d), "URI", x) = Element(s, h, (u \union W) \union {x}, d)
      <4> DEFINE U == u \union W
      <4> HIDE DEF U
      <4>1. PutPair(Element(s, h, U, d), "URI", x) = Element(s, h, U \union {x}, d)
        BY PutURI
      <4> QED BY Zenon, <4>1 DEF U
    <3> QED BY Zenon, <2>5, <2>7, <3>1, <3>2 DEF PairStep
  <2>8. CASE key = "DNS"
    <3>1. f[n - 1] = Element(s, h, u, d \union W) /\ f[n] = Element(s, h, u, (d \union W) \union {x})
      BY Zenon, <1>2, <2>3, <2>4, <2>6, <2>8 DEF Grown
    <3>2. PutPair(Element(s, h, u, d \union W), "DNS", x) = Element(s, h, u, (d \union W) \union {x})
      <4> DEFINE U == d \union W
      <4> HIDE DEF U
      <4>1. PutPair(Element(s, h, u, U), "DNS", x) = Element(s, h, u, U \union {x})
        BY PutDNS
      <4> QED BY Zenon, <4>1 DEF U
    <3> QED BY Zenon, <2>5, <2>8, <3>1, <3>2 DEF PairStep
  <2> QED BY Zenon, <2>7, <2>8
<1>8. f[Len(list)] = Grown(s, h, u, d, key, values)
  <2>1. V(Len(list)) = values
    <3>1. \A i \in 1 .. Len(list) : list[i] \in values
      BY <1>4
    <3> QED BY Zenon, <1>4, <3>1
  <2>2. Len(list) \in 0 .. Len(list)
    BY <1>5
  <2> HIDE DEF V
  <2> QED BY Zenon, <2>1, <2>2
<1> HIDE DEF f
<1>9. PairLoop!Loop(0, Element(s, h, u, d), ps) = f[Len(ps)]
  <2> DEFINE X == Seq(Chars)
             el == Element(s, h, u, d)
  <2>1. ps \in Seq(X) /\ f[0] = el
    BY Zenon, <1>3, <1>6
  <2>2. \A n \in 1 .. Len(ps) : f[n] = PairStep(0, f[n - 1], ps[n])
    BY Zenon, <1>7
  <2> HIDE DEF X, el
  <2>3. PairLoop!Loop(0, el, ps) = f[Len(ps)]
    BY <1>1, <2>1, <2>2, PairLoop!LoopBy
  <2> QED BY Zenon, <2>3 DEF el
<1> QED BY Zenon, <1>3, <1>8, <1>9 DEF ps

LEMMA AddOnce ==
  ASSUME NEW a, NEW key \in PairKeys, NEW w \in Seq(Chars)
  PROVE  PairLoop!Loop(0, a, One(Pair(key, w))) = PutPair(a, key, Unquote(w)) /\ PairLoop!Loop(0, a, <<>>) = a
<1>1. PairLoop!Induction
  BY Zenon, SetInduction DEF PairLoop!Induction
<1>2. PairLoop!Loop(0, a, One(Pair(key, w))) = PairStep(0, a, Pair(key, w)) /\ PairLoop!Loop(0, a, <<>>) = a
  BY Zenon, <1>1, PairLoop!LoopOnce DEF One
<1> QED BY Zenon, <1>2, AddPairPuts DEF PairStep

LEMMA AddConcat ==
  ASSUME NEW a, NEW ps, NEW qs, Kept(ps), Kept(qs)
  PROVE  PairLoop!Loop(0, a, ps \o qs) = PairLoop!Loop(0, PairLoop!Loop(0, a, ps), qs)
<1>1. PairLoop!Induction
  BY Zenon, SetInduction DEF PairLoop!Induction
<1> DEFINE X == Seq(Chars)
<1>2. ps \in Seq(X) /\ qs \in Seq(X)
  BY Zenon DEF Kept
<1> HIDE DEF X
<1> QED BY <1>1, <1>2, PairLoop!LoopConcat

LEMMA StringsAreChars ==
  Seq(STRING) \subseteq Seq(Chars) /\ \A S : S \subseteq Seq(STRING) => S \subseteq Seq(Chars)
<1>1. STRING \subseteq Chars
  BY Zenon DEF Chars
<1>2. Seq(STRING) \subseteq Seq(Chars)
  <2> DEFINE T == STRING
  <2>1. T \subseteq Chars
    BY Zenon, <1>1
  <2> HIDE DEF T
  <2>2. Seq(T) \subseteq Seq(Chars)
    BY <2>1
  <2> QED BY Zenon, <2>2 DEF T
<1> QED BY Zenon, <1>2

LEMMA CertRead ==
  ASSUME NEW el, IsCert(el)
  PROVE  Kept(CertPairs(el)) /\ CertPairs(el) # <<>> /\ FoldLeft(AddPair, EmptyElement, CertPairs(el)) = el
<1> DEFINE byp == <<"p">>
           q == Quoted(el.subject)
           A == One(Pair("By", byp))
           B == IF el.hash = <<>> THEN <<>> ELSE One(Pair("Hash", el.hash))
           C == One(Pair("Subject", q))
           D == PairsOf("URI", el.uris)
           E == PairsOf("DNS", el.dns)
           nil == <<>>
           none == {}
           start == Element(nil, nil, none, none)
<1>0. nil = <<>> /\ none \union el.uris = el.uris /\ none \union el.dns = el.dns
  BY Zenon
<1>14. start = EmptyElement
  BY Zenon DEF EmptyElement
<1>13. CertPairs(el) = (((A \o B) \o C) \o D) \o E
  BY Zenon DEF CertPairs, One
<1> HIDE DEF nil, none
<1>1. /\ el.subject \in Seq(Chars) /\ el.hash \in Seq(Chars) /\ Plain(el.hash)
      /\ el.uris \subseteq Seq(Chars) /\ IsFiniteSet(el.uris)
      /\ el.dns \subseteq Seq(Chars) /\ IsFiniteSet(el.dns)
  BY Zenon, StringsAreChars DEF IsCert
<1>2. "By" \in PairKeys /\ "Hash" \in PairKeys /\ "Subject" \in PairKeys /\ "URI" \in PairKeys /\ "DNS" \in PairKeys
  BY Zenon DEF PairKeys
<1>3. byp \in Seq(Chars) /\ Plain(byp)
  <2>1. "p" \in Chars
    BY Zenon, Characters
  <2>2. "p" \notin Special
    BY DEF Special, Quote, Backslash
  <2>3. byp \in Seq(Chars) /\ \A i \in DOMAIN byp : byp[i] = "p"
    BY <2>1
  <2> QED BY Zenon, <2>2, <2>3 DEF Plain
<1> HIDE DEF byp
<1>4. q \in Seq(Chars) /\ Unquote(q) = el.subject /\ \A sep \in Separators : Copies(sep, q, "out", "out")
  BY Zenon, <1>1, QuotedCopies, UnquoteQuoted
<1> HIDE DEF q
<1>5. Kept(A) /\ \A a : PairLoop!Loop(0, a, A) = PutPair(a, "By", Unquote(byp))
  <2>1. \A sep \in Separators : Copies(sep, byp, "out", "out")
    BY Zenon, <1>3, PlainCopies
  <2>2. Kept(A)
    BY Zenon, <1>2, <1>3, <2>1, KeptOne
  <2>3. \A a : PairLoop!Loop(0, a, A) = PutPair(a, "By", Unquote(byp))
    BY Zenon, <1>2, <1>3, AddOnce
  <2> QED BY Zenon, <2>2, <2>3
<1>6. Kept(C) /\ \A a : PairLoop!Loop(0, a, C) = PutPair(a, "Subject", el.subject)
  <2>1. Kept(C)
    BY Zenon, <1>2, <1>4, KeptOne
  <2>2. \A a : PairLoop!Loop(0, a, C) = PutPair(a, "Subject", Unquote(q))
    BY Zenon, <1>2, <1>4, AddOnce
  <2> QED BY Zenon, <1>4, <2>1, <2>2
<1>7. Kept(B) /\ PairLoop!Loop(0, start, B) = Element(nil, el.hash, none, none)
  <2>1. CASE el.hash = <<>>
    <3>1. B = <<>>
      BY Zenon, <2>1
    <3>2. PairLoop!Loop(0, start, <<>>) = start
      BY Zenon, <1>2, <1>3, AddOnce
    <3> QED BY Zenon, <1>0, <2>1, <3>1, <3>2, KeptNone
  <2>2. CASE el.hash # <<>>
    <3>1. B = One(Pair("Hash", el.hash))
      BY Zenon, <2>2
    <3>2. Kept(B)
      BY Zenon, <1>1, <1>2, <3>1, PlainCopies, KeptOne
    <3>3. Unquote(el.hash) = el.hash
      BY Zenon, <1>1, UnquotePlain
    <3>4. PutPair(start, "Hash", el.hash) = Element(nil, el.hash, none, none)
      BY PutHash
    <3> HIDE DEF start, B
    <3>5. PairLoop!Loop(0, start, B) = PutPair(start, "Hash", Unquote(el.hash))
      BY Zenon, <1>1, <1>2, <3>1, AddOnce
    <3> QED BY Zenon, <3>2, <3>3, <3>4, <3>5
  <2> QED BY Zenon, <2>1, <2>2
<1>8. Kept(D) /\ Kept(E)
  BY Zenon, <1>1, <1>2, PairsList
<1>9. PairLoop!Loop(0, start, A) = start
  BY <1>5, PutBy
<1>10. PairLoop!Loop(0, Element(nil, el.hash, none, none), C) = Element(el.subject, el.hash, none, none)
  <2>1. PutPair(Element(nil, el.hash, none, none), "Subject", el.subject) = Element(el.subject, el.hash, none, none)
    BY PutSubject
  <2> QED BY Zenon, <1>6, <2>1
<1>11. PairLoop!Loop(0, Element(el.subject, el.hash, none, none), D) = Element(el.subject, el.hash, el.uris, none)
  <2>0. Reads("URI", el.uris)
    BY Zenon, <1>1, PairsRead
  <2>1. PairLoop!Loop(0, Element(el.subject, el.hash, none, none), D) = Grown(el.subject, el.hash, none, none, "URI", el.uris)
    BY Zenon, <2>0 DEF Reads
  <2> QED BY Zenon, <1>0, <2>1 DEF Grown
<1>12. PairLoop!Loop(0, Element(el.subject, el.hash, el.uris, none), E) = Element(el.subject, el.hash, el.uris, el.dns)
  <2>0. Reads("DNS", el.dns)
    BY Zenon, <1>1, PairsRead
  <2>1. PairLoop!Loop(0, Element(el.subject, el.hash, el.uris, none), E)
          = Grown(el.subject, el.hash, el.uris, none, "DNS", el.dns)
    BY Zenon, <2>0 DEF Reads
  <2>2. "DNS" # "URI"
    OBVIOUS
  <2> QED BY Zenon, <1>0, <2>1, <2>2 DEF Grown
<1> HIDE DEF A, B, C, D, E, start
<1>15. Kept(A \o B) /\ PairLoop!Loop(0, start, A \o B) = Element(nil, el.hash, none, none)
  <2>1. PairLoop!Loop(0, start, A \o B) = PairLoop!Loop(0, PairLoop!Loop(0, start, A), B)
    BY <1>5, <1>7, AddConcat
  <2> QED BY Zenon, <1>5, <1>7, <1>9, <2>1, KeptConcat
<1> DEFINE F == A \o B
<1> HIDE DEF F
<1>16. Kept(F \o C) /\ PairLoop!Loop(0, start, F \o C) = Element(el.subject, el.hash, none, none)
  <2>1. Kept(F) /\ PairLoop!Loop(0, start, F) = Element(nil, el.hash, none, none)
    BY Zenon, <1>15 DEF F
  <2>2. PairLoop!Loop(0, start, F \o C) = PairLoop!Loop(0, PairLoop!Loop(0, start, F), C)
    BY <1>6, <2>1, AddConcat
  <2> QED BY Zenon, <1>6, <1>10, <2>1, <2>2, KeptConcat
<1> DEFINE G == F \o C
<1> HIDE DEF G
<1>17. Kept(G \o D) /\ PairLoop!Loop(0, start, G \o D) = Element(el.subject, el.hash, el.uris, none)
  <2>1. Kept(G) /\ PairLoop!Loop(0, start, G) = Element(el.subject, el.hash, none, none)
    BY Zenon, <1>16 DEF G
  <2>2. PairLoop!Loop(0, start, G \o D) = PairLoop!Loop(0, PairLoop!Loop(0, start, G), D)
    BY <1>8, <2>1, AddConcat
  <2> QED BY Zenon, <1>8, <1>11, <2>1, <2>2, KeptConcat
<1> DEFINE H == G \o D
<1> HIDE DEF H
<1>18. Kept(H \o E) /\ PairLoop!Loop(0, start, H \o E) = Element(el.subject, el.hash, el.uris, el.dns)
  <2>1. Kept(H) /\ PairLoop!Loop(0, start, H) = Element(el.subject, el.hash, el.uris, none)
    BY Zenon, <1>17 DEF H
  <2>2. PairLoop!Loop(0, start, H \o E) = PairLoop!Loop(0, PairLoop!Loop(0, start, H), E)
    BY <1>8, <2>1, AddConcat
  <2> QED BY Zenon, <1>8, <1>12, <2>1, <2>2, KeptConcat
<1>19. Kept(CertPairs(el)) /\ PairLoop!Loop(0, start, CertPairs(el)) = el
  <2>1. el = Element(el.subject, el.hash, el.uris, el.dns)
    BY Zenon DEF IsCert
  <2> QED BY Zenon, <1>13, <1>18, <2>1 DEF F, G, H
<1>20. FoldLeft(AddPair, EmptyElement, CertPairs(el)) = PairLoop!Loop(0, start, CertPairs(el))
  BY Zenon, <1>14 DEF PairLoop!Loop, PairStep, FoldLeft
<1>21. CertPairs(el) # <<>>
  <2> DEFINE X == Seq(Chars)
  <2> HIDE DEF X
  <2>1. A \in Seq(X) /\ B \in Seq(X) /\ C \in Seq(X) /\ D \in Seq(X) /\ E \in Seq(X)
    BY Zenon, <1>5, <1>6, <1>7, <1>8 DEF Kept, X
  <2>2. A # <<>>
    BY DEF A, One
  <2>3. F \in Seq(X) /\ F # <<>>
    BY <2>1, <2>2 DEF F
  <2>4. G \in Seq(X) /\ G # <<>>
    BY <2>1, <2>3 DEF G
  <2>5. H \in Seq(X) /\ H # <<>>
    BY <2>1, <2>4 DEF H
  <2>6. H \o E # <<>>
    BY <2>1, <2>5
  <2> QED BY Zenon, <1>13, <2>6 DEF F, G, H
<1> QED BY Zenon, <1>19, <1>20, <1>21

(* parse of the xfcc engine reads the header Envoy writes for a chain of     *)
(* certificates back as that chain, whatever quotes, backslashes and         *)
(* separators the subjects and names hold.                                   *)
THEOREM XFCCReadBack ==
  ASSUME NEW certs, IsSlice(certs), certs # <<>>, \A i \in DOMAIN certs : IsCert(certs[i])
  PROVE  ParseXFCC(EncodeXFCC(certs)) = certs
<1> DEFINE ps == [i \in DOMAIN certs |-> EncodeCert(certs[i])]
           X == Seq(Chars)
<1>1. "," \in Separators /\ ";" \in Separators /\ "," # ";"
  <2>1. "," # ";"
    OBVIOUS
  <2> QED BY Zenon, <2>1 DEF Separators
<1>2. certs \in Seq(ToSet(certs)) /\ DOMAIN certs = 1 .. Len(certs) /\ Len(certs) \in Nat
  BY Zenon, SliceElements
<1>3. ASSUME NEW i \in DOMAIN certs
      PROVE  /\ EncodeCert(certs[i]) \in X /\ Copies(",", EncodeCert(certs[i]), "out", "out")
             /\ FoldLeft(AddPair, EmptyElement, SplitTop(EncodeCert(certs[i]), ";")) = certs[i]
  <2> DEFINE el == certs[i]
             qs == CertPairs(el)
  <2>1. Kept(qs) /\ qs # <<>> /\ FoldLeft(AddPair, EmptyElement, qs) = el
    BY Zenon, CertRead
  <2> HIDE DEF el, qs
  <2>2. DOMAIN qs = 1 .. Len(qs)
    BY <2>1 DEF Kept
  <2>3. Pieces(qs, ";", {","})
    BY Zenon, <1>1, <2>1, <2>2 DEF Kept, Pieces
  <2>4. Join(qs, ";") \in X /\ SplitTop(Join(qs, ";"), ";") = qs /\ Copies(",", Join(qs, ";"), "out", "out")
    BY Zenon, <2>1, <2>3, JoinSplit
  <2>5. EncodeCert(el) = Join(qs, ";")
    BY Zenon DEF EncodeCert, qs
  <2> QED BY Zenon, <2>1, <2>4, <2>5 DEF el
<1> HIDE DEF X
<1>4. ps \in Seq(X) /\ DOMAIN ps = DOMAIN certs /\ \A i \in DOMAIN ps : ps[i] = EncodeCert(certs[i])
  <2> DEFINE n == Len(certs)
             T(i) == EncodeCert(certs[i])
  <2>1. \A i \in 1 .. n : T(i) \in X
    BY Zenon, <1>2, <1>3
  <2>2. ps = [i \in 1 .. n |-> T(i)]
    BY Zenon, <1>2
  <2>3. n \in Nat
    BY Zenon, <1>2
  <2> HIDE DEF n, T
  <2>4. [i \in 1 .. n |-> T(i)] \in Seq(X)
    BY <2>1, <2>3
  <2>5. ps \in Seq(X)
    BY Zenon, <2>2, <2>4
  <2> QED BY Zenon, <2>5
<1>5. ps # <<>>
  <2>1. DOMAIN <<>> = {} /\ DOMAIN certs # {}
    BY <1>2
  <2> HIDE DEF ps
  <2> QED BY Zenon, <1>4, <2>1
<1>6. EncodeXFCC(certs) = Join(ps, ",")
  BY Zenon DEF EncodeXFCC
<1> HIDE DEF ps
<1>7. Pieces(ps, ",", {})
  BY Zenon, <1>1, <1>3, <1>4 DEF Pieces, X
<1>8. SplitTop(EncodeXFCC(certs), ",") = ps
  BY Zenon, <1>5, <1>6, <1>7, JoinSplit
<1>9. ParseXFCC(EncodeXFCC(certs)) = [i \in DOMAIN ps |-> FoldLeft(AddPair, EmptyElement, SplitTop(ps[i], ";"))]
  BY Zenon, <1>8 DEF ParseXFCC
<1>10. \A i \in DOMAIN certs : FoldLeft(AddPair, EmptyElement, SplitTop(ps[i], ";")) = certs[i]
  BY Zenon, <1>3, <1>4
<1> DEFINE f == ParseXFCC(EncodeXFCC(certs))
<1>11. f = [i \in DOMAIN certs |-> certs[i]]
  BY Zenon, <1>4, <1>9, <1>10
<1>12. certs = [i \in DOMAIN certs |-> certs[i]]
  BY <1>2
<1> QED BY Zenon, <1>11, <1>12

-----------------------------------------------------------------------------
(* The masking pass.                                                         *)

(* A stretch of the rewritten body for the bytes a to b - 1: the bytes in it *)
(* are some of these, in their order.                                        *)
Stretch(s, a, b) ==
  /\ s \in Seq(Int)
  /\ \A i \in 1 .. Len(s) : s[i] > 0 => s[i] \in a .. b - 1
  /\ \A i, j \in 1 .. Len(s) : i < j /\ s[i] > 0 /\ s[j] > 0 => s[i] < s[j]

LEMMA StretchJoin ==
  ASSUME NEW a \in Nat, NEW b \in Nat, NEW c \in Nat, a <= b, b <= c,
         NEW s, Stretch(s, a, b), NEW t, Stretch(t, b, c)
  PROVE  Stretch(s \o t, a, c) /\ ToSet(s \o t) = ToSet(s) \cup ToSet(t)
<1> DEFINE u == s \o t
<1>1. /\ s \in Seq(Int) /\ t \in Seq(Int) /\ Len(s) \in Nat /\ Len(t) \in Nat
      /\ DOMAIN s = 1 .. Len(s) /\ DOMAIN t = 1 .. Len(t)
  BY DEF Stretch
<1>2. /\ u \in Seq(Int) /\ Len(u) = Len(s) + Len(t) /\ DOMAIN u = 1 .. Len(u)
      /\ \A i \in 1 .. Len(u) : u[i] = IF i <= Len(s) THEN s[i] ELSE t[i - Len(s)]
  BY <1>1
<1> HIDE DEF u
<1>3. ASSUME NEW i \in 1 .. Len(u)
      PROVE  \/ i \in 1 .. Len(s) /\ u[i] = s[i]
             \/ i - Len(s) \in 1 .. Len(t) /\ u[i] = t[i - Len(s)] /\ i > Len(s)
  BY <1>1, <1>2
<1>4. /\ \A i \in 1 .. Len(s) : i \in 1 .. Len(u) /\ u[i] = s[i]
      /\ \A i \in 1 .. Len(t) : i + Len(s) \in 1 .. Len(u) /\ u[i + Len(s)] = t[i]
  <2>1. \A i \in 1 .. Len(s) : i \in 1 .. Len(u) /\ u[i] = s[i]
    BY <1>1, <1>2
  <2>2. ASSUME NEW i \in 1 .. Len(t) PROVE i + Len(s) \in 1 .. Len(u) /\ u[i + Len(s)] = t[i]
    <3>1. i + Len(s) \in 1 .. Len(u) /\ ~(i + Len(s) <= Len(s)) /\ (i + Len(s)) - Len(s) = i
      BY <1>1, <1>2
    <3> QED BY Zenon, <1>2, <3>1
  <2> QED BY Zenon, <2>1, <2>2
<1>5. ToSet(u) = ToSet(s) \cup ToSet(t)
  <2>1. ToSet(u) \subseteq ToSet(s) \cup ToSet(t)
    BY Zenon, <1>1, <1>2, <1>3 DEF ToSet
  <2>2. ASSUME NEW x \in ToSet(s) PROVE x \in ToSet(u)
    <3>1. PICK i \in 1 .. Len(s) : x = s[i]
      BY Zenon, <1>1 DEF ToSet
    <3> QED BY Zenon, <1>2, <1>4, <3>1 DEF ToSet
  <2>3. ASSUME NEW x \in ToSet(t) PROVE x \in ToSet(u)
    <3>1. PICK i \in 1 .. Len(t) : x = t[i]
      BY Zenon, <1>1 DEF ToSet
    <3> QED BY Zenon, <1>2, <1>4, <3>1 DEF ToSet
  <2> QED BY Zenon, <2>1, <2>2, <2>3
<1>6. ASSUME NEW i \in 1 .. Len(u), u[i] > 0 PROVE u[i] \in a .. c - 1
  <2>1. CASE i \in 1 .. Len(s) /\ u[i] = s[i]
    BY <1>6, <2>1 DEF Stretch
  <2>2. CASE i - Len(s) \in 1 .. Len(t) /\ u[i] = t[i - Len(s)]
    BY <1>6, <2>2 DEF Stretch
  <2> QED BY Zenon, <1>3, <2>1, <2>2
<1>7. ASSUME NEW i \in 1 .. Len(u), NEW j \in 1 .. Len(u), i < j, u[i] > 0, u[j] > 0
      PROVE  u[i] < u[j]
  <2>1. CASE j \in 1 .. Len(s) /\ u[j] = s[j]
    <3>1. i \in 1 .. Len(s) /\ u[i] = s[i]
      BY <1>1, <1>3, <1>7, <2>1
    <3> QED BY <1>7, <2>1, <3>1 DEF Stretch
  <2>2. CASE j - Len(s) \in 1 .. Len(t) /\ u[j] = t[j - Len(s)]
    <3>1. CASE i \in 1 .. Len(s) /\ u[i] = s[i]
      <4>1. u[i] \in a .. b - 1 /\ u[j] \in b .. c - 1
        BY Zenon, <1>7, <2>2, <3>1 DEF Stretch
      <4> QED BY <4>1
    <3>2. CASE i - Len(s) \in 1 .. Len(t) /\ u[i] = t[i - Len(s)]
      <4>1. i - Len(s) < j - Len(s)
        BY <1>1, <1>7
      <4> QED BY Zenon, <1>7, <2>2, <3>2, <4>1 DEF Stretch
    <3> QED BY Zenon, <1>3, <3>1, <3>2
  <2> QED BY Zenon, <1>3, <2>1, <2>2
<1>8. Stretch(u, a, c)
  BY Zenon, <1>2, <1>6, <1>7 DEF Stretch
<1> QED BY Zenon, <1>5, <1>8 DEF u

LEMMA RawFacts ==
  ASSUME NEW a \in Nat \ {0}, NEW b \in Nat, a <= b
  PROVE  Stretch(Raw(a, b), a, b) /\ ToSet(Raw(a, b)) = a .. b - 1
<1> DEFINE s == Raw(a, b)
<1>1. /\ s \in Seq(Int) /\ Len(s) = b - a /\ DOMAIN s = 1 .. Len(s)
      /\ \A n \in 1 .. b - a : s[n] = a + n - 1
  BY DEF Raw
<1> HIDE DEF s
<1>2. Stretch(s, a, b)
  BY <1>1 DEF Stretch
<1>3. ASSUME NEW x PROVE x \in ToSet(s) <=> x \in a .. b - 1
  <2>1. ASSUME x \in ToSet(s) PROVE x \in a .. b - 1
    <3>1. PICK n \in 1 .. b - a : x = s[n]
      BY Zenon, <1>1, <2>1 DEF ToSet
    <3> QED BY <1>1, <3>1
  <2>2. ASSUME x \in a .. b - 1 PROVE x \in ToSet(s)
    <3>1. x - a + 1 \in 1 .. b - a /\ a + (x - a + 1) - 1 = x
      BY <2>2
    <3>2. x - a + 1 \in DOMAIN s /\ s[x - a + 1] = x
      BY Zenon, <1>1, <3>1
    <3> QED BY Zenon, <3>2 DEF ToSet
  <2> QED BY Zenon, <2>1, <2>2
<1> QED BY Zenon, <1>2, <1>3 DEF s

(* What mask leaves of the bytes a to m.end - 1 of a match can be read. *)
LEMMA MaskFacts ==
  ASSUME NEW p, NEW req, NEW m \in ToSet(req.matches), m.kind \in p.dlp.redact,
         m.start \in Nat \ {0}, NEW e \in Nat, e = m.end, NEW a \in Nat, m.start <= a, a < e
  PROVE  LET s == Mask(req.body, a, e, m.kind)
         IN  /\ Stretch(s, a, e)
             /\ \A i \in ToSet(s) : i > 0 => i \in a .. e - 1 /\ Readable(p, req, i)
<1>0. e - a \in Nat
  OBVIOUS
<1> DEFINE s == Mask(req.body, a, e, m.kind)
           Hidden(i) == req.body[i] = "digit" /\ Cardinality(DigitsIn(req.body, i, e)) > KeepDigits
<1>1. CASE m.kind # "credit_card"
  <2>1. s = <<Tag>> /\ Tag = -1
    BY <1>1 DEF Mask, Tag
  <2>2. s \in Seq(Int) /\ Len(s) = 1 /\ s[1] = -1 /\ DOMAIN s = 1 .. 1
    BY <2>1
  <2> HIDE DEF s
  <2>3. \A i \in 1 .. 1 : ~(s[i] > 0)
    BY <2>2
  <2>4. Stretch(s, a, e)
    BY Zenon, <2>2, <2>3 DEF Stretch
  <2>5. \A i \in ToSet(s) : ~(i > 0)
    BY Zenon, <2>2, <2>3 DEF ToSet
  <2> QED BY Zenon, <2>4, <2>5 DEF s
<1>2. CASE m.kind = "credit_card"
  <2>1. s = [n \in 1 .. e - a |-> IF Hidden(a + n - 1) THEN Star ELSE a + n - 1]
    BY Zenon, <1>2 DEF Mask
  <2>2. \A n \in 1 .. e - a : (IF Hidden(a + n - 1) THEN Star ELSE a + n - 1) \in Int
    <3> HIDE DEF Hidden
    <3> QED BY DEF Star
  <2>3. /\ DOMAIN s = 1 .. e - a
        /\ \A n \in 1 .. e - a : s[n] = IF Hidden(a + n - 1) THEN Star ELSE a + n - 1
    <3> HIDE DEF Hidden
    <3> QED BY Zenon, <2>1
  <2>4. s \in Seq(Int) /\ Len(s) = e - a
    <3> DEFINE F(n) == IF Hidden(a + n - 1) THEN Star ELSE a + n - 1
    <3>1. s = [n \in 1 .. e - a |-> F(n)] /\ \A n \in 1 .. e - a : F(n) \in Int
      BY Zenon, <2>1, <2>2
    <3> HIDE DEF s, F
    <3>2. s \in [1 .. e - a -> Int]
      BY Zenon, <3>1
    <3> QED BY <1>0, <3>2
  <2> HIDE DEF s, Hidden
  <2>5. \A n \in 1 .. e - a : s[n] > 0 => s[n] = a + n - 1 /\ ~Hidden(a + n - 1)
    BY <2>3 DEF Star
  <2>6. Stretch(s, a, e)
    <3>0. \A n \in 1 .. e - a : a + n - 1 \in a .. e - 1
      OBVIOUS
    <3>1. \A n \in 1 .. Len(s) : s[n] > 0 => s[n] \in a .. e - 1
      BY Zenon, <2>4, <2>5, <3>0
    <3>2. \A i, j \in 1 .. Len(s) : i < j /\ s[i] > 0 /\ s[j] > 0 => s[i] < s[j]
      BY <2>4, <2>5
    <3> QED BY Zenon, <2>4, <3>1, <3>2 DEF Stretch
  <2>7. ASSUME NEW i \in ToSet(s), i > 0 PROVE i \in a .. e - 1 /\ Readable(p, req, i)
    <3>1. PICK n \in 1 .. e - a : i = s[n]
      BY Zenon, <2>3 DEF ToSet
    <3>2. i = a + n - 1 /\ ~Hidden(i)
      BY Zenon, <2>5, <2>7, <3>1
    <3>3. i \in a .. e - 1 /\ i \in m.start .. e - 1
      BY <3>2
    <3>4. m \in Sensitive(p, req, i) /\ e = m.end
      BY Zenon, <3>3 DEF Sensitive
    <3> DEFINE c == Cardinality(DigitsIn(req.body, i, e))
    <3>5. c \in Nat
      <4>1. DigitsIn(req.body, i, e) \in SUBSET (i .. e - 1)
        BY Zenon DEF DigitsIn
      <4>2. i \in Int /\ e - 1 \in Int
        BY <3>3
      <4>3. IsFiniteSet(DigitsIn(req.body, i, e))
        BY Zenon, <4>1, <4>2, FS_Interval, FS_Subset
      <4> QED BY Zenon, <4>3, FS_CardinalityType
    <3>6. req.body[i] # "digit" \/ ~(c > KeepDigits)
      BY Zenon, <3>2 DEF Hidden
    <3> HIDE DEF c
    <3>7. req.body[i] # "digit" \/ c <= KeepDigits
      BY <3>5, <3>6, KeepAssumption
    <3> QED BY Zenon, <1>2, <3>3, <3>4, <3>7 DEF Readable, c
  <2> QED BY Zenon, <2>6, <2>7 DEF s
<1> QED BY Zenon, <1>1, <1>2

(* s is what the bytes before byte a are rewritten to: nothing that is not   *)
(* to be redacted is lost, and nothing else can be read.                     *)
Rewritten(j, s, a) ==
  /\ Stretch(s, 1, a)
  /\ \A i \in 1 .. a - 1 : Sensitive(j.policy, j.req, i) = {} => i \in ToSet(s)
  /\ \A i \in ToSet(s) :
       i > 0 => Sensitive(j.policy, j.req, i) = {} \/ Readable(j.policy, j.req, i)

LEMMA RawRewritten ==
  ASSUME NEW j, NEW a \in Nat \ {0}, NEW b \in Nat, a <= b, NEW s, Rewritten(j, s, a),
         \A i \in a .. b - 1 : Sensitive(j.policy, j.req, i) = {}
  PROVE  Rewritten(j, s \o Raw(a, b), b)
<1>1. Stretch(Raw(a, b), a, b) /\ ToSet(Raw(a, b)) = a .. b - 1
  BY Zenon, RawFacts
<1>2. Stretch(s \o Raw(a, b), 1, b) /\ ToSet(s \o Raw(a, b)) = ToSet(s) \cup ToSet(Raw(a, b))
  <2>1. 1 \in Nat /\ 1 <= a /\ a \in Nat
    OBVIOUS
  <2>2. Stretch(s, 1, a)
    BY Zenon DEF Rewritten
  <2> QED BY <1>1, <2>1, <2>2, StretchJoin
<1>3. \A i \in 1 .. b - 1 : i \in 1 .. a - 1 \/ i \in a .. b - 1
  OBVIOUS
<1> QED BY Zenon, <1>1, <1>2, <1>3 DEF Rewritten

LEMMA MaskRewritten ==
  ASSUME NEW j, NEW m \in ToSet(j.req.matches), m.kind \in j.policy.dlp.redact,
         m.start \in Nat \ {0}, NEW e \in Nat, e = m.end,
         NEW a \in Nat, m.start <= a, a < e, NEW s, Rewritten(j, s, a)
  PROVE  Rewritten(j, s \o Mask(j.req.body, a, e, m.kind), e)
<1> DEFINE t == Mask(j.req.body, a, e, m.kind)
<1>1. /\ Stretch(t, a, e)
      /\ \A i \in ToSet(t) : i > 0 => i \in a .. e - 1 /\ Readable(j.policy, j.req, i)
  BY Zenon, MaskFacts
<1> HIDE DEF t
<1>2. Stretch(s \o t, 1, e) /\ ToSet(s \o t) = ToSet(s) \cup ToSet(t)
  <2>1. 1 \in Nat /\ 1 <= a /\ a <= e
    OBVIOUS
  <2>2. Stretch(s, 1, a)
    BY Zenon DEF Rewritten
  <2> QED BY <1>1, <2>1, <2>2, StretchJoin
<1>3. ASSUME NEW i \in 1 .. e - 1 PROVE i \in 1 .. a - 1 \/ i \in m.start .. e - 1
  OBVIOUS
<1>4. \A i \in m.start .. e - 1 : Sensitive(j.policy, j.req, i) # {}
  BY Zenon DEF Sensitive
<1>5. Rewritten(j, s \o t, e)
  BY Zenon, <1>1, <1>2, <1>3, <1>4 DEF Rewritten
<1> QED BY Zenon, <1>5 DEF t

RStep(j, a, m) == RedactStep(j.req.body, j.policy.dlp.redact, a, m)

(* After n matches the body is rewritten up to last. *)
RInv(j, seq, n, a) ==
  /\ a.last \in 1 .. Len(j.req.body) + 1 /\ Rewritten(j, a.out, a.last)
  /\ a.changed \in BOOLEAN
  /\ a.changed = FALSE => a.out = <<>> /\ a.last = 1
  /\ \A k \in 1 .. n : seq[k].kind \in j.policy.dlp.redact => seq[k].end <= a.last

RLoop == INSTANCE Loops WITH Step <- RStep, Inv <- RInv

RStart == [out |-> <<>>, last |-> 1, changed |-> FALSE]

LEMMA RStepKeeps ==
  ASSUME NEW j, IsBodyJob(j), NEW n \in 1 .. Len(j.req.matches), NEW a,
         RInv(j, j.req.matches, n - 1, a)
  PROVE  RInv(j, j.req.matches, n, RStep(j, a, j.req.matches[n]))
<1> DEFINE ms == j.req.matches
           m == ms[n]
           R == j.policy.dlp.redact
           len == Len(j.req.body)
           b == RStep(j, a, m)
<1>1. /\ len \in Nat /\ DOMAIN ms = 1 .. Len(ms) /\ m \in ToSet(ms) /\ Len(ms) \in Nat
      /\ n \in 1 .. Len(ms)
  BY Zenon, SliceElements DEF IsBodyJob
<1>2. /\ m.start \in Nat \ {0} /\ m.end \in Nat /\ m.start < m.end /\ m.end <= len + 1
  BY Zenon, <1>1 DEF IsBodyJob
<1>3. /\ a.last \in 1 .. len + 1 /\ Rewritten(j, a.out, a.last) /\ a.changed \in BOOLEAN
      /\ a.changed = FALSE => a.out = <<>> /\ a.last = 1
      /\ \A k \in 1 .. n - 1 : ms[k].kind \in R => ms[k].end <= a.last
  BY Zenon DEF RInv
<1>4. \A k \in 1 .. n : k = n \/ k \in 1 .. n - 1
  OBVIOUS
<1> HIDE DEF ms, m, R, len
<1>5. ASSUME b = a, m.kind \in R => m.end <= a.last PROVE RInv(j, ms, n, b)
  BY Zenon, <1>3, <1>4, <1>5 DEF RInv, m, R, len
<1>6. ASSUME NEW out, b = [out |-> out, last |-> m.end, changed |-> TRUE],
             Rewritten(j, out, m.end), a.last <= m.end
      PROVE  RInv(j, ms, n, b)
  <2>1. b.out = out /\ b.last = m.end /\ b.changed = TRUE
    <3> HIDE DEF b
    <3> QED BY Zenon, <1>6
  <2>2. m.end \in 1 .. len + 1 /\ m.end <= m.end
    BY <1>2
  <2>3. ASSUME NEW k \in 1 .. n - 1, ms[k].kind \in R PROVE ms[k].end <= m.end
    <3>1. ms[k].end <= a.last /\ ms[k].end \in Nat
      <4>1. k \in DOMAIN ms
        BY <1>1
      <4> QED BY Zenon, <1>3, <2>3, <4>1 DEF IsBodyJob, ms
    <3> QED BY <1>2, <1>3, <1>6, <3>1
  <2> QED BY Zenon, <1>4, <1>6, <2>1, <2>2, <2>3 DEF RInv, m, R, len
<1>7. CASE m.kind \notin R
  <2>1. b = a
    BY Zenon, <1>7 DEF RStep, RedactStep, R
  <2> QED BY Zenon, <1>5, <1>7, <2>1 DEF ms, m
<1>8. CASE m.kind \in R /\ m.start < a.last
  <2>1. CASE m.end > a.last
    <3> DEFINE out == a.out \o Mask(j.req.body, a.last, m.end, m.kind)
    <3>1. b = [out |-> out, last |-> m.end, changed |-> TRUE]
      <4>1. ~(m.kind \notin R) /\ (m.start >= a.last => FALSE)
        BY <1>2, <1>3, <1>8
      <4> QED BY Zenon, <1>8, <2>1, <4>1 DEF RStep, RedactStep, R
    <3>2. m.start <= a.last /\ a.last < m.end /\ a.last \in Nat /\ a.last <= m.end
      BY <1>2, <1>3, <1>8, <2>1
    <3>3. Rewritten(j, out, m.end)
      BY Zenon, <1>1, <1>2, <1>3, <1>8, <3>2, MaskRewritten DEF R, ms
    <3> HIDE DEF out, b
    <3> QED BY Zenon, <1>6, <3>1, <3>2, <3>3 DEF b, ms, m
  <2>2. CASE ~(m.end > a.last)
    <3>1. b = a
      <4>1. ~(m.kind \notin R) /\ (m.start >= a.last => FALSE)
        BY <1>2, <1>3, <1>8
      <4> QED BY Zenon, <1>8, <2>2, <4>1 DEF RStep, RedactStep, R
    <3>2. m.end <= a.last
      BY <1>2, <1>3, <2>2
    <3> QED BY Zenon, <1>5, <3>1, <3>2 DEF ms, m
  <2> QED BY Zenon, <2>1, <2>2
<1>9. CASE m.kind \in R /\ m.start >= a.last
  <2> DEFINE raw == a.out \o Raw(a.last, m.start)
             out == a.out \o Raw(a.last, m.start) \o Mask(j.req.body, m.start, m.end, m.kind)
  <2>1. b = [out |-> out, last |-> m.end, changed |-> TRUE]
    <3>1. ~(m.kind \notin R) /\ (m.start < a.last => FALSE)
      BY <1>2, <1>3, <1>9
    <3> QED BY Zenon, <1>9, <3>1 DEF RStep, RedactStep, R
  <2>2. /\ a.last \in Nat \ {0} /\ a.last <= m.start /\ m.start \in Nat /\ a.last <= m.end
        /\ m.start <= m.start
    BY <1>2, <1>3, <1>9
  <2>3. ASSUME NEW i \in a.last .. m.start - 1 PROVE Sensitive(j.policy, j.req, i) = {}
    <3> SUFFICES ASSUME NEW x \in ToSet(ms), x.kind \in R, i \in x.start .. x.end - 1 PROVE FALSE
      BY Zenon DEF Sensitive, ms, R
    <3>1. PICK k \in 1 .. Len(ms) : x = ms[k]
      BY Zenon, <1>1 DEF ToSet
    <3>2. x.start \in Nat \ {0} /\ x.end \in Nat
      BY Zenon, <1>1, <3>1 DEF IsBodyJob, ms
    <3>3. CASE k \in 1 .. n - 1
      <4>1. x.end <= a.last
        BY Zenon, <1>3, <3>1, <3>3
      <4> QED BY <2>2, <3>2, <4>1
    <3>4. CASE k = n
      <4>1. x.start = m.start
        BY Zenon, <3>1, <3>4 DEF m
      <4> QED BY <2>2, <3>2, <4>1
    <3>5. CASE n < k
      <4>1. m.start < x.start \/ m.start = x.start
        <5>1. n \in DOMAIN ms /\ k \in DOMAIN ms
          BY Zenon, <1>1, <3>1 DEF ms
        <5> QED BY Zenon, <3>1, <3>5, <5>1 DEF IsBodyJob, Sorted, ms, m
      <4> QED BY <2>2, <3>2, <4>1
    <3>6. k \in 1 .. n - 1 \/ k = n \/ n < k
      BY <1>1
    <3> QED BY Zenon, <3>3, <3>4, <3>5, <3>6
  <2>4. Rewritten(j, raw, m.start)
    BY Zenon, <1>3, <2>2, <2>3, RawRewritten
  <2>5. Rewritten(j, out, m.end)
    <3> HIDE DEF raw
    <3>1. Rewritten(j, raw \o Mask(j.req.body, m.start, m.end, m.kind), m.end)
      BY Zenon, <1>1, <1>2, <1>9, <2>2, <2>4, MaskRewritten DEF R, ms
    <3> QED BY Zenon, <3>1 DEF raw
  <2> HIDE DEF raw, out, b
  <2> QED BY Zenon, <1>6, <2>1, <2>2, <2>5 DEF b, ms, m
<1>10. m.kind \notin R \/ (m.kind \in R /\ m.start < a.last) \/ (m.kind \in R /\ m.start >= a.last)
  BY <1>2, <1>3
<1> QED BY Zenon, <1>7, <1>8, <1>9, <1>10 DEF ms, m


LEMMA RedactedFacts ==
  ASSUME NEW j, IsBodyJob(j)
  PROVE  LET r == RedactBody(j.req.body, j.req.matches, j.policy.dlp.redact)
             len == Len(j.req.body)
         IN  /\ Rewritten(j, r.body, len + 1)
             /\ r.changed \in BOOLEAN /\ (r.changed = FALSE => r.body = Raw(1, len + 1))
<1> DEFINE ms == j.req.matches
           R == j.policy.dlp.redact
           len == Len(j.req.body)
           end == RLoop!Loop(j, RStart, ms)
           r == RedactBody(j.req.body, ms, R)
<1>1. ms \in Seq(ToSet(ms)) /\ len \in Nat /\ Len(ms) \in Nat /\ DOMAIN ms = 1 .. Len(ms)
  BY Zenon, SliceElements DEF IsBodyJob
<1>2. r = [body |-> IF end.changed THEN end.out \o Raw(end.last, len + 1) ELSE Raw(1, len + 1),
           changed |-> end.changed]
  BY Zenon DEF RedactBody, RLoop!Loop, FoldLeft, RStep, RStart
<1>3. r.changed = end.changed
      /\ r.body = IF end.changed THEN end.out \o Raw(end.last, len + 1) ELSE Raw(1, len + 1)
  <2> HIDE DEF r, end
  <2> QED BY Zenon, <1>2
<1>4. RInv(j, ms, 0, RStart)
  <2>1. RStart.out = <<>> /\ RStart.last = 1 /\ RStart.changed = FALSE
    BY DEF RStart
  <2>2. Stretch(<<>>, 1, 1) /\ ToSet(<<>>) = {} /\ 1 .. 1 - 1 = {} /\ 1 .. 0 = {}
    BY DEF Stretch, ToSet
  <2>3. 1 \in 1 .. len + 1
    BY <1>1
  <2>4. Rewritten(j, <<>>, 1)
    BY Zenon, <2>2 DEF Rewritten
  <2> QED BY Zenon, <2>1, <2>2, <2>3, <2>4 DEF RInv
<1>5. RInv(j, ms, Len(ms), end)
  <2>1. RLoop!Induction
    BY Zenon, SetInduction DEF RLoop!Induction
  <2>2. \A n \in 1 .. Len(ms) : \A a : RInv(j, ms, n - 1, a) => RInv(j, ms, n, RStep(j, a, ms[n]))
    BY Zenon, RStepKeeps
  <2> HIDE DEF ms
  <2> QED BY Zenon, <1>1, <1>4, <2>1, <2>2, RLoop!LoopInvariant
<1> HIDE DEF end, r
<1>6. /\ end.last \in 1 .. len + 1 /\ Rewritten(j, end.out, end.last) /\ end.changed \in BOOLEAN
      /\ end.changed = FALSE => end.out = <<>> /\ end.last = 1
      /\ \A k \in 1 .. Len(ms) : ms[k].kind \in R => ms[k].end <= end.last
  BY Zenon, <1>5 DEF RInv
<1>7. end.last \in Nat \ {0} /\ end.last <= len + 1 /\ len + 1 \in Nat
  BY <1>1, <1>6
<1>8. ASSUME NEW i \in end.last .. (len + 1) - 1 PROVE Sensitive(j.policy, j.req, i) = {}
  <2> SUFFICES ASSUME NEW x \in ToSet(ms), x.kind \in R, i \in x.start .. x.end - 1 PROVE FALSE
    BY Zenon DEF Sensitive
  <2>1. PICK k \in 1 .. Len(ms) : x = ms[k]
    BY Zenon, <1>1 DEF ToSet
  <2>2. x.start \in Nat \ {0} /\ x.end \in Nat /\ x.end <= end.last
    BY Zenon, <1>1, <1>6, <2>1 DEF IsBodyJob
  <2> QED BY <1>7, <2>2
<1>9. Rewritten(j, end.out \o Raw(end.last, len + 1), len + 1)
  <2> HIDE DEF len
  <2> QED BY Zenon, <1>6, <1>7, <1>8, RawRewritten
<1>10. CASE end.changed = FALSE
  <2>1. Raw(1, len + 1) \in Seq(Int)
    BY <1>1 DEF Raw
  <2>2. <<>> \o Raw(1, len + 1) = Raw(1, len + 1)
    <3> DEFINE s == Raw(1, len + 1)
    <3> HIDE DEF s
    <3>1. s \in Seq(Int)
      BY Zenon, <2>1 DEF s
    <3>2. <<>> \o s = s
      BY <3>1
    <3> QED BY Zenon, <3>2 DEF s
  <2>3. r.body = Raw(1, len + 1) /\ r.changed = FALSE
    BY Zenon, <1>3, <1>10
  <2> QED BY Zenon, <1>6, <1>9, <1>10, <2>2, <2>3 DEF r
<1>11. CASE end.changed = TRUE
  BY Zenon, <1>3, <1>9, <1>11 DEF r
<1> QED BY Zenon, <1>6, <1>10, <1>11

(* What body_checks makes of a body. *)
LEMMA BodyExact ==
  ASSUME NEW j, IsBodyJob(j)
  PROVE  Exact(j.policy, j.req, BodyChecks(j.policy, j.req))
<1> DEFINE p == j.policy
           req == j.req
           r == BodyChecks(p, req)
           len == Len(req.body)
           raw == Raw(1, len + 1)
           red == RedactBody(req.body, req.matches, p.dlp.redact)
           active == p.mode # "off" /\ req.dir \in p.dlp.directions
           blocked == \E m \in ToSet(req.matches) : m.kind \in p.dlp.block
           notJSON == p.requireJSON /\ "json" \notin p.skip /\ req.body # <<>>
                        /\ ~(req.jsonType /\ req.jsonValid)
           detected == p.detect /\ "sensitive_data" \notin p.skip /\ req.matches # <<>>
<1>1. IsBodyJob(j)
  OBVIOUS
<1>2. /\ len \in Nat /\ DOMAIN req.body = 1 .. len /\ Len(req.matches) \in Nat
      /\ DOMAIN req.matches = 1 .. Len(req.matches)
  BY Zenon, <1>1, SliceElements DEF IsBodyJob
<1>3. Stretch(raw, 1, len + 1) /\ ToSet(raw) = 1 .. (len + 1) - 1 /\ 1 .. (len + 1) - 1 = 1 .. len
  <2>1. 1 \in Nat \ {0} /\ len + 1 \in Nat /\ 1 <= len + 1 /\ 1 .. (len + 1) - 1 = 1 .. len
    BY <1>2
  <2> QED BY Zenon, <2>1, RawFacts
<1>4. /\ Rewritten(j, red.body, len + 1)
      /\ red.changed \in BOOLEAN /\ (red.changed = FALSE => red.body = raw)
  BY Zenon, <1>1, RedactedFacts
<1>5. ASSUME req.body = <<>> PROVE ToSet(req.matches) = {} /\ ToSet(raw) = {}
  <2>1. len = 0
    BY <1>5
  <2>2. ASSUME NEW m \in ToSet(req.matches) PROVE FALSE
    <3>1. m.start \in Nat \ {0} /\ m.end \in Nat /\ m.start < m.end /\ m.end <= len + 1
      BY Zenon, <1>1 DEF IsBodyJob, ToSet
    <3> QED BY <2>1, <3>1
  <2>3. 1 .. len = {}
    BY <2>1
  <2> QED BY Zenon, <1>3, <2>2, <2>3
<1> HIDE DEF raw, red
<1>6. r = IF p.mode = "off" THEN [result |-> "continue", body |-> raw]
          ELSE IF notJSON \/ detected THEN [result |-> "deny", body |-> raw]
          ELSE IF req.dir \in p.dlp.directions /\ req.body # <<>>
          THEN IF \E i \in DOMAIN req.matches : req.matches[i].kind \in p.dlp.block
               THEN [result |-> "deny", body |-> raw]
               ELSE IF ~red.changed THEN [result |-> "continue", body |-> raw]
               ELSE IF p.mode = "block" THEN [result |-> "continue", body |-> red.body]
               ELSE [result |-> "would_redact", body |-> raw]
          ELSE [result |-> "continue", body |-> raw]
  BY Zenon DEF BodyChecks, RunDLP, raw, red
<1>7. blocked <=> \E i \in DOMAIN req.matches : req.matches[i].kind \in p.dlp.block
  BY Zenon DEF ToSet
<1> HIDE DEF blocked, notJSON, detected, r
<1>8. /\ active /\ blocked => r.result = "deny"
      /\ r.body = raw \/ (p.mode = "block" /\ r.body = red.body)
      /\ (active /\ p.mode = "block" /\ r.result = "continue") =>
            r.body = red.body \/ (r.body = raw /\ req.body = <<>>)
  <2>1. blocked => req.body # <<>>
    BY Zenon, <1>5 DEF blocked
  <2>2. "deny" # "continue"
    OBVIOUS
  <2>3. CASE p.mode = "off"
    <3>1. r = [result |-> "continue", body |-> raw]
      BY Zenon, <1>6, <2>3
    <3> QED BY Zenon, <2>3, <3>1
  <2>4. CASE p.mode # "off" /\ (notJSON \/ detected)
    <3>1. r = [result |-> "deny", body |-> raw]
      BY Zenon, <1>6, <2>4
    <3> QED BY Zenon, <2>2, <3>1
  <2>5. CASE p.mode # "off" /\ ~(notJSON \/ detected) /\ ~(req.dir \in p.dlp.directions /\ req.body # <<>>)
    <3>1. r = [result |-> "continue", body |-> raw]
      BY Zenon, <1>6, <2>5
    <3> QED BY Zenon, <2>1, <2>5, <3>1
  <2>6. CASE p.mode # "off" /\ ~(notJSON \/ detected) /\ req.dir \in p.dlp.directions /\ req.body # <<>>
    <3>1. r = IF blocked THEN [result |-> "deny", body |-> raw]
              ELSE IF ~red.changed THEN [result |-> "continue", body |-> raw]
              ELSE IF p.mode = "block" THEN [result |-> "continue", body |-> red.body]
              ELSE [result |-> "would_redact", body |-> raw]
      BY Zenon, <1>6, <1>7, <2>6
    <3>2. CASE blocked
      <4>1. r = [result |-> "deny", body |-> raw]
        BY Zenon, <3>1, <3>2
      <4> QED BY Zenon, <2>2, <4>1
    <3>3. CASE ~blocked /\ ~red.changed
      <4>1. r = [result |-> "continue", body |-> raw] /\ red.body = raw
        BY Zenon, <1>4, <3>1, <3>3
      <4> QED BY Zenon, <3>3, <4>1
    <3>4. CASE ~blocked /\ red.changed /\ p.mode = "block"
      <4>1. r = [result |-> "continue", body |-> red.body]
        BY Zenon, <3>1, <3>4
      <4> QED BY Zenon, <3>4, <4>1
    <3>5. CASE ~blocked /\ red.changed /\ p.mode # "block"
      <4>1. r = [result |-> "would_redact", body |-> raw]
        BY Zenon, <3>1, <3>5
      <4> QED BY Zenon, <3>5, <4>1
    <3> QED BY Zenon, <3>2, <3>3, <3>4, <3>5
  <2> QED BY Zenon, <2>3, <2>4, <2>5, <2>6
<1>9. Stretch(r.body, 1, len + 1) /\ \A i \in 1 .. len : Sensitive(p, req, i) = {} => i \in ToSet(r.body)
  <2>1. /\ Stretch(red.body, 1, len + 1)
        /\ \A i \in 1 .. (len + 1) - 1 : Sensitive(p, req, i) = {} => i \in ToSet(red.body)
    BY Zenon, <1>4 DEF Rewritten
  <2>2. \A i \in 1 .. len : i \in 1 .. (len + 1) - 1
    BY Zenon, <1>3
  <2> HIDE DEF len, p, req
  <2>3. CASE r.body = raw
    BY Zenon, <1>3, <2>2, <2>3
  <2>4. CASE r.body = red.body
    BY Zenon, <2>1, <2>2, <2>4
  <2> QED BY Zenon, <1>8, <2>3, <2>4
<1>10. DOMAIN r.body = 1 .. Len(r.body)
  BY <1>9 DEF Stretch
<1>11. p.mode # "block" => r.body = raw
  BY Zenon, <1>8
<1>12. \A i, k \in DOMAIN r.body : i < k /\ r.body[i] > 0 /\ r.body[k] > 0 => r.body[i] < r.body[k]
  BY Zenon, <1>9, <1>10 DEF Stretch
<1>13. ASSUME NEW i \in ToSet(r.body), i > 0 PROVE i \in DOMAIN req.body
  <2>1. PICK k \in 1 .. Len(r.body) : i = r.body[k]
    BY Zenon, <1>10 DEF ToSet
  <2>2. i \in 1 .. (len + 1) - 1
    BY Zenon, <1>9, <1>13, <2>1 DEF Stretch
  <2> QED BY Zenon, <1>2, <1>3, <2>2
<1>14. ASSUME active, p.mode = "block", r.result = "continue", NEW i \in ToSet(r.body), i > 0
       PROVE  Sensitive(p, req, i) = {} \/ Readable(p, req, i)
  BY Zenon, <1>4, <1>5, <1>8, <1>14 DEF Rewritten
<1> QED BY Zenon, <1>1, <1>2, <1>8, <1>9, <1>11, <1>12, <1>13, <1>14 DEF Exact, raw, blocked, r
=============================================================================
