--------------------------- MODULE RoutingProofs ----------------------------
(***************************************************************************)
(* Which policy a request gets, for every directory of configuration files *)
(* and every request with a normal path (ConfigsAssumption,                *)
(* RequestsAssumption).                                                    *)
(*                                                                         *)
(* The scores of Host.Specificity rank patterns as Beats does, and two     *)
(* patterns of one rank that cover the host are the same, which            *)
(* validateMerged rules out; so one domain owns the host, and the buckets  *)
(* of the resolver find it.  NormalizePath has undone the client's         *)
(* spelling of the path by then (PathSpelled): its scan is a loop, and two *)
(* scans that agree after a prefix end alike (SameScan).                   *)
(***************************************************************************)
EXTENDS PolicyProofs

-----------------------------------------------------------------------------
(* NormalizePath.                                                            *)

LEMMA Joined ==
  ASSUME NEW X, NEW s \in Seq(X), NEW t \in Seq(X), NEW u, u = s \o t
  PROVE  /\ u \in Seq(X) /\ Len(u) = Len(s) + Len(t) /\ DOMAIN u = 1 .. Len(u)
         /\ \A i \in 1 .. Len(s) : u[i] = s[i]
         /\ \A i \in 1 .. Len(t) : u[Len(s) + i] = t[i]
         /\ \A k \in 1 .. Len(u) : k > Len(s) => u[k] = t[k - Len(s)]
OBVIOUS

SplitStep(env, acc, c) ==
  IF c = "/" THEN [done |-> AddSegment(acc.done, acc.cur), cur |-> <<>>]
  ELSE [acc EXCEPT !.cur = Append(@, c)]

SplitInv(env, seq, n, acc) == TRUE

SplitLoop == INSTANCE Loops WITH Step <- SplitStep, Inv <- SplitInv

NoSegment == [done |-> <<>>, cur |-> <<>>]

(* The states of the scan of a path. *)
Scanned(f, p) ==
  /\ f[0] = NoSegment
  /\ \A n \in 1 .. Len(p) : f[n] = SplitStep(0, f[n - 1], p[n])
  /\ Split(p) = f[Len(p)]

LEMMA SplitSteps ==
  ASSUME NEW p, IsSlice(p)
  PROVE  \E f : Scanned(f, p)
<1>1. p \in Seq(ToSet(p))
  BY Zenon, SliceFacts
<1>2. Split(p) = SplitLoop!Loop(0, NoSegment, p)
  BY Zenon DEF Split, SplitLoop!Loop, SplitStep, FoldLeft, NoSegment
<1>3. SplitLoop!Induction
  BY Zenon, NatSetInduction DEF SplitLoop!Induction
<1>4. PICK f : SplitLoop!Steps(f, 0, NoSegment, p)
  BY Zenon, <1>1, <1>3, SplitLoop!LoopSteps
<1>5. Scanned(f, p)
  BY Zenon, <1>2, <1>4 DEF SplitLoop!Steps, Scanned
<1> QED BY Zenon, <1>5

(* Two scans that agree once and read the same characters from then on. *)
LEMMA SameScan ==
  ASSUME NEW p, NEW q, IsSlice(p), IsSlice(q), NEW f, NEW g, Scanned(f, p), Scanned(g, q),
         NEW k \in Nat, Len(p) = k + Len(q), Len(q) >= 1, f[k + 1] = g[1],
         \A n \in 1 .. Len(q) : p[k + n] = q[n]
  PROVE  Split(p) = Split(q)
<1> DEFINE S == {n \in Nat : n + 1 <= Len(q) => f[k + (n + 1)] = g[n + 1]}
<1>1. Len(q) \in Nat /\ Len(p) \in Nat
  BY Zenon, SliceFacts
<1>2. 0 \in S
  OBVIOUS
<1>3. ASSUME NEW n \in Nat, n \in S PROVE n + 1 \in S
  <2> SUFFICES ASSUME (n + 1) + 1 <= Len(q) PROVE f[k + ((n + 1) + 1)] = g[(n + 1) + 1]
    OBVIOUS
  <2> DEFINE a == k + ((n + 1) + 1)
             b == (n + 1) + 1
  <2>1. f[k + (n + 1)] = g[n + 1]
    BY <1>1, <1>3
  <2>2. a \in 1 .. Len(p) /\ b \in 1 .. Len(q) /\ a - 1 = k + (n + 1) /\ b - 1 = n + 1 /\ a = k + b
    BY <1>1
  <2> HIDE DEF a, b
  <2>3. p[a] = q[b]
    BY Zenon, <2>2
  <2>4. f[a] = SplitStep(0, f[a - 1], p[a]) /\ g[b] = SplitStep(0, g[b - 1], q[b])
    BY <2>2 DEF Scanned
  <2>5. f[a] = g[b]
    BY <2>1, <2>2, <2>3, <2>4
  <2> QED BY Zenon, <2>5 DEF a, b
<1>4. Nat \subseteq S
  <2> HIDE DEF S
  <2> QED BY <1>2, <1>3, NatSetInduction
<1>5. Len(q) - 1 \in S /\ (Len(q) - 1) + 1 = Len(q)
  BY <1>1, <1>4
<1>6. f[k + Len(q)] = g[Len(q)]
  BY <1>1, <1>5
<1> QED BY <1>6 DEF Scanned

Decoded(p) == [i \in DOMAIN p |-> Decode(p[i])]

Normal(p) ==
  LET cleaned == Clean(p)
  IN  IF Last(p) = "/" /\ Last(cleaned) # "/" THEN Append(cleaned, "/") ELSE cleaned

LEMMA NormalizeBy ==
  ASSUME NEW raw, NEW p, p = Decoded(CutQuery(raw)), p # <<>>
  PROVE  NormalizePath(raw) = Normal(p)
BY Zenon DEF NormalizePath, Normal, Decoded

LEMMA NothingToCut ==
  ASSUME NEW raw, \A i \in DOMAIN raw : raw[i] # "?"
  PROVE  CutQuery(raw) = raw
BY Zenon DEF CutQuery

LEMMA PlainFacts ==
  ASSUME NEW q, PlainPath(q)
  PROVE  /\ q \in Seq(ToSet(q)) /\ Len(q) \in Nat /\ DOMAIN q = 1 .. Len(q) /\ Len(q) >= 1
         /\ CutQuery(q) = q /\ Decoded(q) = q /\ NormalizePath(q) = Normal(q)
<1>1. q \in Seq(ToSet(q)) /\ Len(q) \in Nat /\ DOMAIN q = 1 .. Len(q)
  BY Zenon, SliceFacts DEF PlainPath
<1>2. Len(q) >= 1
  BY <1>1 DEF PlainPath
<1>3. CutQuery(q) = q
  BY NothingToCut DEF PlainPath
<1>4. \A i \in DOMAIN q : Decode(q[i]) = q[i]
  BY Zenon DEF PlainPath, Decode
<1>5. Decoded(q) = q
  BY <1>1, <1>4 DEF Decoded
<1> QED BY SMTT(30), <1>1, <1>2, <1>3, <1>5, NormalizeBy DEF PlainPath

(* A query is cut off. *)
LEMMA QuerySpelled ==
  ASSUME NEW q, PlainPath(q)
  PROVE  NormalizePath(q \o <<"?", "/", "b">>) = NormalizePath(q)
<1> DEFINE tail == <<"?", "/", "b">>
           raw == q \o tail
           X == ToSet(q) \union {"?", "/", "b"}
           first == CHOOSE i \in DOMAIN raw : raw[i] = "?" /\ \A k \in 1 .. i - 1 : raw[k] # "?"
<1>1. /\ q \in Seq(X) /\ Len(q) \in Nat /\ Len(q) >= 1 /\ \A i \in 1 .. Len(q) : q[i] # "?"
      /\ DOMAIN q = 1 .. Len(q)
  BY PlainFacts DEF PlainPath
<1>2. tail \in Seq(X) /\ Len(tail) = 3 /\ tail[1] = "?"
  OBVIOUS
<1> HIDE DEF X, tail
<1>3. /\ Len(raw) = Len(q) + 3 /\ DOMAIN raw = 1 .. Len(q) + 3 /\ raw \in Seq(X)
      /\ \A i \in 1 .. Len(q) : raw[i] = q[i]
      /\ raw[Len(q) + 1] = "?"
  <2>1. raw = q \o tail
    BY Zenon
  <2> HIDE DEF raw
  <2>2. /\ raw \in Seq(X) /\ Len(raw) = Len(q) + Len(tail) /\ DOMAIN raw = 1 .. Len(raw)
        /\ \A i \in 1 .. Len(q) : raw[i] = q[i]
        /\ \A i \in 1 .. Len(tail) : raw[Len(q) + i] = tail[i]
    <3>1. q \in Seq(X) /\ tail \in Seq(X)
      BY Zenon, <1>1, <1>2
    <3> QED BY <2>1, <3>1, Joined
  <2> QED BY <1>1, <1>2, <2>2
<1> HIDE DEF raw
<1>4. /\ Len(q) + 1 \in DOMAIN raw /\ raw[Len(q) + 1] = "?"
      /\ \A k \in 1 .. (Len(q) + 1) - 1 : raw[k] # "?"
  BY <1>1, <1>3
<1>5. first \in DOMAIN raw /\ raw[first] = "?" /\ \A k \in 1 .. first - 1 : raw[k] # "?"
  <2> DEFINE P(i) == raw[i] = "?" /\ \A k \in 1 .. i - 1 : raw[k] # "?"
  <2>1. \E i \in DOMAIN raw : P(i)
    BY Zenon, <1>4
  <2> HIDE DEF P
  <2>2. (CHOOSE i \in DOMAIN raw : P(i)) \in DOMAIN raw /\ P(CHOOSE i \in DOMAIN raw : P(i))
    BY <2>1, Zenon
  <2> QED BY Zenon, <2>2 DEF P
<1>6. CutQuery(raw) = SubSeq(raw, 1, first - 1)
  BY Zenon, <1>4 DEF CutQuery
<1> HIDE DEF first
<1>7. first = Len(q) + 1
  BY <1>1, <1>3, <1>4, <1>5
<1>8. SubSeq(raw, 1, Len(q)) = q
  <2> DEFINE u == SubSeq(raw, 1, Len(q))
  <2>1. /\ u \in Seq(X) /\ Len(u) = Len(q)
        /\ \A i \in 1 .. Len(q) : u[i] = q[i]
    BY <1>1, <1>3
  <2> HIDE DEF u
  <2>2. u = q
    BY <1>1, <2>1
  <2> QED BY Zenon, <2>2 DEF u
<1>9. CutQuery(raw) = q
  BY <1>1, <1>6, <1>7, <1>8
<1>10. NormalizePath(raw) = Normal(q)
  BY <1>9, PlainFacts, NormalizeBy DEF PlainPath
<1> QED BY <1>10, PlainFacts DEF raw, tail

(* A percent-encoded letter is decoded. *)
LEMMA EncodedSpelled ==
  ASSUME NEW q, PlainPath(q)
  PROVE  NormalizePath([i \in DOMAIN q |-> IF q[i] = "a" THEN "%61" ELSE q[i]]) = NormalizePath(q)
<1> DEFINE raw == [i \in DOMAIN q |-> IF q[i] = "a" THEN "%61" ELSE q[i]]
<1>1. \A i \in DOMAIN raw : raw[i] # "?"
  BY Zenon DEF PlainPath
<1>2. CutQuery(raw) = raw
  <2> HIDE DEF raw
  <2> QED BY <1>1, NothingToCut
<1>3. \A i \in DOMAIN q : Decode(raw[i]) = q[i]
  BY Zenon DEF Decode, PlainPath
<1>4. DOMAIN raw = DOMAIN q
  BY Zenon
<1> HIDE DEF raw
<1>5. Decoded(raw) = [i \in DOMAIN q |-> q[i]]
  BY Zenon, <1>3, <1>4 DEF Decoded
<1>6. Decoded(CutQuery(raw)) = q
  BY <1>2, <1>5, PlainFacts
<1>7. NormalizePath(raw) = Normal(q)
  BY Zenon, <1>6, NormalizeBy DEF PlainPath
<1> QED BY <1>7, PlainFacts DEF raw

(* The scan of a path behind a prefix that leaves it where it started. *)
LEMMA PrefixSpelled ==
  ASSUME NEW q, PlainPath(q), NEW raw, NEW start, NEW f,
         start \in Seq({"/", "b", "."}), Len(start) >= 1,
         CutQuery(raw) = raw, Decoded(raw) = start \o q,
         Scanned(f, start \o q),
         f[Len(start) + 1] = [done |-> <<>>, cur |-> <<>>]
  PROVE  NormalizePath(raw) = NormalizePath(q)
<1> DEFINE p == start \o q
           X == ToSet(q) \union {"/", "b", "."}
<1>1. /\ q \in Seq(X) /\ Len(q) \in Nat /\ Len(q) >= 1 /\ DOMAIN q = 1 .. Len(q) /\ IsSlice(q)
      /\ q[1] = "/"
  BY PlainFacts DEF PlainPath
<1>2. start \in Seq(X) /\ Len(start) \in Nat
  OBVIOUS
<1> HIDE DEF X
<1>3. /\ p \in Seq(X) /\ Len(p) = Len(start) + Len(q)
      /\ \A n \in 1 .. Len(q) : p[Len(start) + n] = q[n]
  BY <1>1, <1>2
<1> HIDE DEF p
<1>4. IsSlice(p)
  BY <1>3, SeqIsSlice
<1>5. PICK g : Scanned(g, q)
  BY <1>1, SplitSteps
<1>6. g[1] = [done |-> <<>>, cur |-> <<>>]
  <2>1. g[0] = NoSegment /\ g[1] = SplitStep(0, g[0], q[1])
    <3>1. 1 \in 1 .. Len(q) /\ 1 - 1 = 0
      BY <1>1
    <3> QED BY <1>5, <3>1 DEF Scanned
  <2> QED BY <1>1, <2>1 DEF SplitStep, NoSegment, AddSegment
<1>7. Split(p) = Split(q)
  <2>1. Scanned(f, p) /\ f[Len(start) + 1] = g[1]
    BY Zenon, <1>6 DEF p
  <2>2. /\ IsSlice(q) /\ Len(start) \in Nat /\ Len(p) = Len(start) + Len(q) /\ Len(q) >= 1
        /\ \A n \in 1 .. Len(q) : p[Len(start) + n] = q[n]
    BY <1>1, <1>2, <1>3
  <2> QED BY SMTT(30), <1>4, <1>5, <2>1, <2>2, SameScan
<1>8. Clean(p) = Clean(q)
  BY Zenon, <1>7 DEF Clean
<1>9. Last(p) = Last(q)
  BY <1>1, <1>2, <1>3 DEF Last
<1>10. Normal(p) = Normal(q)
  BY Zenon, <1>8, <1>9 DEF Normal
<1>11. p # <<>>
  BY <1>1, <1>2, <1>3
<1>12. NormalizePath(raw) = Normal(p)
  BY Zenon, <1>11, NormalizeBy DEF p
<1> QED BY Zenon, <1>10, <1>12, PlainFacts

(* Dot segments and doubled slashes are cleaned away. *)
LEMMA SlashesSpelled ==
  ASSUME NEW q, PlainPath(q)
  PROVE  NormalizePath(<<"/">> \o q) = NormalizePath(q)
<1> DEFINE start == <<"/">>
           raw == start \o q
           X == ToSet(q) \union {"/"}
<1>1. /\ q \in Seq(X) /\ Len(q) \in Nat /\ Len(q) >= 1 /\ DOMAIN q = 1 .. Len(q) /\ q[1] = "/"
      /\ \A i \in 1 .. Len(q) : q[i] \notin {"?", "%61", "%2F"}
  BY PlainFacts DEF PlainPath
<1>2. start \in Seq(X) /\ Len(start) = 1 /\ start[1] = "/" /\ start \in Seq({"/", "b", "."})
  OBVIOUS
<1> HIDE DEF X, start
<1>3. raw \in Seq(X) /\ Len(raw) = 1 + Len(q) /\ raw[1] = "/"
      /\ \A k \in 1 .. Len(raw) : k > 1 => raw[k] = q[k - 1]
  <2>1. raw = start \o q
    BY Zenon
  <2> HIDE DEF raw
  <2>2. /\ raw \in Seq(X) /\ Len(raw) = Len(start) + Len(q)
        /\ \A i \in 1 .. Len(start) : raw[i] = start[i]
        /\ \A k \in 1 .. Len(raw) : k > Len(start) => raw[k] = q[k - Len(start)]
    <3>1. q \in Seq(X) /\ start \in Seq(X)
      BY Zenon, <1>1, <1>2
    <3> QED BY <2>1, <3>1, Joined
  <2> QED BY <1>1, <1>2, <2>2
<1> HIDE DEF raw
<1>4. \A k \in DOMAIN raw : raw[k] \notin {"?", "%61", "%2F"}
  <2>1. ASSUME NEW k \in 1 .. Len(raw) PROVE raw[k] \notin {"?", "%61", "%2F"}
    <3>1. CASE k = 1
      BY Zenon, <1>3, <3>1
    <3>2. CASE k > 1
      <4>1. k - 1 \in 1 .. Len(q)
        BY <1>1, <1>3, <3>2
      <4> QED BY SMTT(30), <1>1, <1>3, <3>2, <4>1
    <3> QED BY <3>1, <3>2
  <2> QED BY <1>3, <2>1
<1>5. CutQuery(raw) = raw
  BY Zenon, <1>4, NothingToCut
<1>6. Decoded(raw) = raw
  <2>1. \A k \in DOMAIN raw : Decode(raw[k]) = raw[k]
    BY <1>4 DEF Decode
  <2>2. raw = [k \in DOMAIN raw |-> raw[k]]
    BY <1>3
  <2> QED BY <2>1, <2>2 DEF Decoded
<1>7. IsSlice(raw)
  BY <1>3, SeqIsSlice
<1>8. PICK f : Scanned(f, raw)
  BY SMTT(30), <1>7, SplitSteps
<1>9. f[2] = [done |-> <<>>, cur |-> <<>>]
  <2>1. 1 \in 1 .. Len(raw) /\ 2 \in 1 .. Len(raw) /\ 1 - 1 = 0 /\ 2 - 1 = 1 /\ 2 > 1
    BY <1>1, <1>3
  <2>2. f[0] = NoSegment /\ f[1] = SplitStep(0, f[0], raw[1]) /\ f[2] = SplitStep(0, f[1], raw[2])
    BY Zenon, <1>8, <2>1 DEF Scanned
  <2>3. raw[2] = "/"
    BY <1>1, <1>3, <2>1
  <2>4. f[1] = [done |-> <<>>, cur |-> <<>>]
    BY <1>3, <2>2 DEF SplitStep, NoSegment, AddSegment
  <2> QED BY <2>2, <2>3, <2>4 DEF SplitStep, AddSegment
<1>10. Len(start) + 1 = 2
  BY <1>2
<1>11. raw = start \o q
  BY Zenon DEF raw
<1>12. NormalizePath(raw) = NormalizePath(q)
  <2>1. Len(start) >= 1
    BY <1>2
  <2> QED BY Zenon, <1>2, <1>5, <1>6, <1>8, <1>9, <1>10, <1>11, <2>1, PrefixSpelled
<1> QED BY <1>12 DEF raw, start

LEMMA AppendPair ==
  ASSUME NEW a, NEW b
  PROVE  Append(<<a>>, b) = <<a, b>>
<1> DEFINE s == Append(<<a>>, b)
           t == <<a, b>>
<1>1. s \in Seq({a, b}) /\ Len(s) = 2 /\ s[1] = a /\ s[2] = b
  OBVIOUS
<1>2. t \in Seq({a, b}) /\ Len(t) = 2 /\ t[1] = a /\ t[2] = b
  OBVIOUS
<1> HIDE DEF s, t
<1>3. Len(s) = Len(t) /\ \A i \in 1 .. Len(s) : s[i] = t[i]
  BY <1>1, <1>2
<1>4. s = t
  BY SMTT(30), <1>1, <1>2, <1>3
<1> QED BY <1>4 DEF s, t

LEMMA StepFacts ==
  ASSUME NEW d, NEW c, NEW ch
  PROVE  /\ SplitStep(0, [done |-> d, cur |-> c], "/") = [done |-> AddSegment(d, c), cur |-> <<>>]
         /\ ch # "/" => SplitStep(0, [done |-> d, cur |-> c], ch) = [done |-> d, cur |-> Append(c, ch)]
BY Zenon DEF SplitStep

LEMMA DotsSpelled ==
  ASSUME NEW q, PlainPath(q)
  PROVE  NormalizePath(<<"/", "b", "%2F", ".", ".">> \o q) = NormalizePath(q)
<1> DEFINE sent == <<"/", "b", "%2F", ".", ".">>
           start == <<"/", "b", "/", ".", ".">>
           raw == sent \o q
           p == start \o q
           X == ToSet(q) \union {"/", "b", "%2F", "."}
<1>1. /\ q \in Seq(X) /\ Len(q) \in Nat /\ Len(q) >= 1 /\ DOMAIN q = 1 .. Len(q) /\ q[1] = "/"
      /\ \A i \in 1 .. Len(q) : q[i] \notin {"?", "%61", "%2F"}
  BY PlainFacts DEF PlainPath
<1>2. /\ sent \in Seq(X) /\ Len(sent) = 5
      /\ sent[1] = "/" /\ sent[2] = "b" /\ sent[3] = "%2F" /\ sent[4] = "." /\ sent[5] = "."
  OBVIOUS
<1>3. /\ start \in Seq(X) /\ Len(start) = 5 /\ start \in Seq({"/", "b", "."})
      /\ start[1] = "/" /\ start[2] = "b" /\ start[3] = "/" /\ start[4] = "." /\ start[5] = "."
  OBVIOUS
<1>4. raw = sent \o q /\ p = start \o q
  BY Zenon
<1> HIDE DEF X, sent, start, raw, p
<1>5. /\ raw \in Seq(X) /\ Len(raw) = 5 + Len(q) /\ DOMAIN raw = 1 .. Len(raw)
      /\ \A i \in 1 .. 5 : raw[i] = sent[i]
      /\ \A k \in 1 .. Len(raw) : k > 5 => raw[k] = q[k - 5]
  <2>1. q \in Seq(X) /\ sent \in Seq(X) /\ raw = sent \o q
    BY <1>1, <1>2, <1>4
  <2>2. /\ raw \in Seq(X) /\ Len(raw) = Len(sent) + Len(q) /\ DOMAIN raw = 1 .. Len(raw)
        /\ \A i \in 1 .. Len(sent) : raw[i] = sent[i]
        /\ \A k \in 1 .. Len(raw) : k > Len(sent) => raw[k] = q[k - Len(sent)]
    BY <2>1, Joined
  <2> QED BY <1>2, <2>2
<1>6. /\ p \in Seq(X) /\ Len(p) = 5 + Len(q) /\ DOMAIN p = 1 .. Len(p)
      /\ \A i \in 1 .. 5 : p[i] = start[i]
      /\ \A k \in 1 .. Len(p) : k > 5 => p[k] = q[k - 5]
  <2>1. q \in Seq(X) /\ start \in Seq(X) /\ p = start \o q
    BY SMTT(30), <1>1, <1>3, <1>4
  <2>2. /\ p \in Seq(X) /\ Len(p) = Len(start) + Len(q) /\ DOMAIN p = 1 .. Len(p)
        /\ \A i \in 1 .. Len(start) : p[i] = start[i]
        /\ \A k \in 1 .. Len(p) : k > Len(start) => p[k] = q[k - Len(start)]
    BY <2>1, Joined
  <2> QED BY Zenon, <1>3, <2>2
<1>7. ASSUME NEW k \in 1 .. Len(raw) PROVE raw[k] # "?" /\ Decode(raw[k]) = p[k]
  <2>1. CASE k > 5
    <3>1. k - 5 \in 1 .. Len(q) /\ raw[k] = q[k - 5] /\ p[k] = q[k - 5]
      BY SMTT(30), <1>1, <1>5, <1>6, <2>1
    <3> QED BY Zenon, <1>1, <3>1 DEF Decode
  <2>2. CASE k \in 1 .. 5
    <3>1. raw[k] = sent[k] /\ p[k] = start[k]
      BY <1>5, <1>6, <2>2
    <3>2. k = 1 \/ k = 2 \/ k = 3 \/ k = 4 \/ k = 5
      BY <2>2
    <3> QED BY SMTT(30), <1>2, <1>3, <3>1, <3>2 DEF Decode
  <2> QED BY <1>5, <2>1, <2>2
<1>8. CutQuery(raw) = raw
  BY <1>5, <1>7, NothingToCut
<1>9. Decoded(raw) = p
  <2>1. Decoded(raw) = [k \in 1 .. Len(p) |-> p[k]]
    BY <1>5, <1>6, <1>7 DEF Decoded
  <2> QED BY <1>6, <2>1
<1>10. IsSlice(p)
  BY SMTT(30), <1>6, SeqIsSlice
<1>11. PICK f : Scanned(f, p)
  BY Zenon, <1>10, SplitSteps
<1>12. f[6] = [done |-> <<>>, cur |-> <<>>]
  <2>1. Len(p) >= 6
    BY <1>1, <1>6
  <2>2. /\ f[1] = SplitStep(0, f[0], "/") /\ f[2] = SplitStep(0, f[1], "b")
        /\ f[3] = SplitStep(0, f[2], "/") /\ f[4] = SplitStep(0, f[3], ".")
        /\ f[5] = SplitStep(0, f[4], ".") /\ f[6] = SplitStep(0, f[5], "/")
    <3>1. \A n \in 1 .. 6 : f[n] = SplitStep(0, f[n - 1], p[n])
      BY <1>6, <1>11, <2>1 DEF Scanned
    <3>2. p[1] = "/" /\ p[2] = "b" /\ p[3] = "/" /\ p[4] = "." /\ p[5] = "."
      BY <1>3, <1>6
    <3>3. p[6] = "/"
      BY <1>1, <1>6, <2>1
    <3> QED BY <3>1, <3>2, <3>3
  <2>3. f[1] = [done |-> <<>>, cur |-> <<>>]
    <3>1. f[0] = [done |-> <<>>, cur |-> <<>>] /\ AddSegment(<<>>, <<>>) = <<>>
      BY <1>11 DEF Scanned, NoSegment, AddSegment
    <3> QED BY Zenon, <2>2, <3>1, StepFacts
  <2>4. f[2] = [done |-> <<>>, cur |-> <<"b">>]
    <3>1. Append(<<>>, "b") = <<"b">> /\ "b" # "/"
      OBVIOUS
    <3>2. SplitStep(0, [done |-> <<>>, cur |-> <<>>], "b") = [done |-> <<>>, cur |-> Append(<<>>, "b")]
      BY Zenon, <3>1, StepFacts
    <3> QED BY <2>2, <2>3, <3>1, <3>2
  <2>5. f[3] = [done |-> <<<<"b">>>>, cur |-> <<>>]
    <3>1. AddSegment(<<>>, <<"b">>) = <<<<"b">>>>
      BY DEF AddSegment
    <3> QED BY Zenon, <2>2, <2>4, <3>1, StepFacts
  <2>6. f[4] = [done |-> <<<<"b">>>>, cur |-> <<".">>]
    <3>1. Append(<<>>, ".") = <<".">> /\ "." # "/"
      OBVIOUS
    <3>2. SplitStep(0, [done |-> <<<<"b">>>>, cur |-> <<>>], ".") = [done |-> <<<<"b">>>>, cur |-> Append(<<>>, ".")]
      BY Zenon, <3>1, StepFacts
    <3> QED BY SMTT(30), <2>2, <2>5, <3>1, <3>2
  <2>7. f[5] = [done |-> <<<<"b">>>>, cur |-> <<".", ".">>]
    <3>1. Append(<<".">>, ".") = <<".", ".">> /\ "." # "/"
      BY AppendPair
    <3>2. SplitStep(0, [done |-> <<<<"b">>>>, cur |-> <<".">>], ".") = [done |-> <<<<"b">>>>, cur |-> Append(<<".">>, ".")]
      BY Zenon, <3>1, StepFacts
    <3> QED BY <2>2, <2>6, <3>1, <3>2
  <2>8. AddSegment(<<<<"b">>>>, <<".", ".">>) = <<>>
    <3>1. <<".", ".">> \notin {<<>>, <<".">>} /\ <<<<"b">>>> # <<>>
      BY Zenon
    <3>2. Front(<<<<"b">>>>) = <<>>
      BY DEF Front
    <3> QED BY <3>1, <3>2 DEF AddSegment
  <2> QED BY ZenonT(30), <2>2, <2>7, <2>8, StepFacts
<1>13. Len(start) + 1 = 6 /\ Len(start) >= 1
  BY <1>3
<1>14. NormalizePath(raw) = NormalizePath(q)
  BY Zenon, <1>3, <1>4, <1>8, <1>9, <1>11, <1>12, <1>13, PrefixSpelled
<1> QED BY <1>14 DEF raw, sent

(* However a client spells a path (escapes, doubled slashes, dot segments, a *)
(* query), NormalizePath returns what it returns for the plain path.         *)
THEOREM PathSpelled ==
  ASSUME NEW q, NEW s, PlainPath(q)
  PROVE  NormalizePath(Written(q, s)) = NormalizePath(q)
<1> DEFINE path == Written(q, s)
<1>1. path =
        CASE s = "query" -> q \o <<"?", "/", "b">>
          [] s = "encoded" -> [i \in DOMAIN q |-> IF q[i] = "a" THEN "%61" ELSE q[i]]
          [] s = "dots" -> <<"/", "b", "%2F", ".", ".">> \o q
          [] s = "slashes" -> <<"/">> \o q
          [] OTHER -> q
  BY Zenon DEF Written
<1> HIDE DEF path
<1> SUFFICES NormalizePath(path) = NormalizePath(q)
  BY Zenon DEF path
<1>3. CASE s = "query"
  <2>1. path = q \o <<"?", "/", "b">>
    BY <1>1, <1>3
  <2> QED BY Zenon, <2>1, QuerySpelled
<1>4. CASE s = "encoded"
  <2>1. path = [i \in DOMAIN q |-> IF q[i] = "a" THEN "%61" ELSE q[i]]
    BY <1>1, <1>4
  <2> QED BY <2>1, EncodedSpelled
<1>5. CASE s = "dots"
  <2>1. path = <<"/", "b", "%2F", ".", ".">> \o q
    BY <1>1, <1>5
  <2> QED BY Zenon, <2>1, DotsSpelled
<1>6. CASE s = "slashes"
  <2>1. path = <<"/">> \o q
    BY <1>1, <1>6
  <2> QED BY Zenon, <2>1, SlashesSpelled
<1>7. CASE s \notin {"query", "encoded", "dots", "slashes"}
  BY <1>1, <1>7
<1> QED BY Zenon, <1>3, <1>4, <1>5, <1>6, <1>7

-----------------------------------------------------------------------------
(* The domain that owns a host.                                              *)

Claimable(h) ==
  /\ GoodHost(h)
  /\ h.kind = "all" => h.labels = <<>>
  /\ h.kind = "sub" => h.labels # <<>>

(* Host.Specificity orders the patterns as Beats does. *)
LEMMA ScoresRank ==
  ASSUME NEW x, NEW y, Claimable(x), Claimable(y)
  PROVE  HostSpecificity(x) \in Nat /\ (Beats(x, y) <=> HostSpecificity(x) > HostSpecificity(y))
<1>1. ASSUME NEW h, Claimable(h)
      PROVE  /\ HostSpecificity(h) \in Nat /\ h.kind \in {"exact", "sub", "all"}
             /\ h.kind = "exact" => HostSpecificity(h) = HostExactScore
             /\ h.kind = "sub" => /\ HostSpecificity(h) = Len(h.labels)
                                  /\ Len(h.labels) > 0 /\ Len(h.labels) < HostExactScore
             /\ h.kind = "all" => HostSpecificity(h) = 0
  <2>1. GoodHost(h) /\ Len(h.labels) \in Nat /\ h.labels \in Seq(ToSet(h.labels))
    BY <1>1, SliceFacts DEF Claimable, GoodHost
  <2>2. h.labels # <<>> => Len(h.labels) > 0
    BY <2>1
  <2> QED BY SMTT(30), <1>1, <2>1, <2>2, ExactScore DEF Claimable, GoodHost, HostSpecificity
<1> QED BY <1>1, ExactScore DEF Beats

(* Two patterns for one host that rank the same are the same. *)
LEMMA SameRank ==
  ASSUME NEW x, NEW y, Claimable(x), Claimable(y), NEW labels,
         Covers(x, labels), Covers(y, labels), HostSpecificity(x) = HostSpecificity(y)
  PROVE  HostKey(x) = HostKey(y)
<1>1. /\ Len(x.labels) \in Nat /\ x.labels \in Seq(ToSet(x.labels))
      /\ Len(y.labels) \in Nat /\ y.labels \in Seq(ToSet(y.labels))
      /\ x.kind \in {"exact", "sub", "all"} /\ y.kind \in {"exact", "sub", "all"}
      /\ Len(x.labels) < HostExactScore /\ Len(y.labels) < HostExactScore
  BY SliceFacts DEF Claimable, GoodHost
<1>2. x.kind = y.kind
  <2>1. ~Beats(x, y) /\ ~Beats(y, x)
    BY ScoresRank
  <2> QED BY <1>1, <2>1 DEF Beats
<1>3. x.labels = y.labels
  <2>1. CASE x.kind = "sub"
    <3>1. Len(x.labels) = Len(y.labels)
      BY Zenon, <1>2, <2>1 DEF HostSpecificity
    <3>2. \A i \in 1 .. Len(x.labels) : x.labels[i] = y.labels[i]
      BY <1>2, <2>1, <3>1 DEF Covers, IsSuffix
    <3> QED BY SMTT(30), <1>1, <3>1, <3>2
  <2>2. CASE x.kind = "exact"
    BY <1>2, <2>2 DEF Covers
  <2>3. CASE x.kind = "all"
    BY <1>2, <2>3 DEF Claimable
  <2> QED BY SMTT(30), <1>1, <2>1, <2>2, <2>3
<1> QED BY <1>2, <1>3 DEF HostKey, CompileHost

LEMMA MatchCovers ==
  ASSUME NEW x, GoodHost(x), NEW a
  PROVE  /\ HostMatch(CompileHost(x), a) <=> Covers(x, NormalizeHost(a).labels)
         /\ HostSpecificity(CompileHost(x)) = HostSpecificity(x)
<1>1. CompileHost(x).kind = x.kind /\ CompileHost(x).labels = x.labels
  BY Zenon DEF CompileHost
<1>2. x.kind \in {"exact", "sub", "all"}
  BY Zenon DEF GoodHost
<1> DEFINE h == CompileHost(x)
           labels == NormalizeHost(a).labels
<1> HIDE DEF h, labels
<1>3. HostMatch(h, a) <=> \/ h.kind = "all"
                          \/ IF h.kind = "exact" THEN labels = h.labels
                             ELSE Len(labels) > Len(h.labels) /\ IsSuffix(h.labels, labels)
  BY Zenon DEF HostMatch, labels
<1>4. HostMatch(h, a) <=> Covers(x, labels)
  BY Zenon, <1>1, <1>2, <1>3 DEF Covers, h
<1>5. HostSpecificity(h) = HostSpecificity(x)
  BY <1>1, <1>2 DEF HostSpecificity, h
<1> QED BY <1>4, <1>5 DEF h, labels

(* The loop of validateMerged over the hosts of the domains. *)
HostStep(env, acc, d) == acc \o d.hosts

HostInv(env, seq, n, acc) ==
  /\ IsSlice(acc)
  /\ \A m \in 1 .. n : \A i \in 1 .. Len(seq[m].hosts) :
       \E k \in 1 .. Len(acc) : acc[k] = seq[m].hosts[i]
  /\ (\A k, l \in 1 .. Len(acc) : HostKey(acc[k]) = HostKey(acc[l]) => k = l) =>
       \A m, l \in 1 .. n : \A i \in 1 .. Len(seq[m].hosts), j \in 1 .. Len(seq[l].hosts) :
         HostKey(seq[m].hosts[i]) = HostKey(seq[l].hosts[j]) => m = l

HostLoop == INSTANCE Loops WITH Step <- HostStep, Inv <- HostInv

LEMMA HostsUnique ==
  ASSUME NEW mc, IsSlice(mc.domains), \A d \in ToSet(mc.domains) : IsSlice(d.hosts), ValidMerged(mc)
  PROVE  \A m, l \in DOMAIN mc.domains :
           \A x \in ToSet(mc.domains[m].hosts), y \in ToSet(mc.domains[l].hosts) :
             HostKey(x) = HostKey(y) => m = l
<1> DEFINE ds == mc.domains
           all == HostLoop!Loop(0, <<>>, ds)
<1>1. ds \in Seq(ToSet(ds)) /\ Len(ds) \in Nat /\ DOMAIN ds = 1 .. Len(ds)
      /\ \A m \in 1 .. Len(ds) : IsSlice(ds[m].hosts)
  BY Zenon, SliceFacts
<1>2. IsInjective([k \in DOMAIN all |-> HostKey(all[k])])
  BY Zenon DEF ValidMerged, HostLoop!Loop, HostStep, FoldLeft
<1>3. HostInv(0, ds, 0, <<>>)
  <2>1. <<>> \in Seq({})
    OBVIOUS
  <2>2. IsSlice(<<>>)
    BY Zenon, <2>1, SeqIsSlice
  <2> QED BY <2>2 DEF HostInv
<1>4. ASSUME NEW n \in 1 .. Len(ds), NEW acc, HostInv(0, ds, n - 1, acc)
      PROVE  HostInv(0, ds, n, HostStep(0, acc, ds[n]))
  <2> DEFINE o == n - 1
             hs == ds[n].hosts
             new == acc \o hs
             D(m) == 1 .. Len(ds[m].hosts)
             K(m, i) == HostKey(ds[m].hosts[i])
  <2>1. o \in Nat /\ 1 .. n = (1 .. o) \union {n} /\ IsSlice(hs) /\ n \notin 1 .. o
    BY <1>1
  <2>2. /\ IsSlice(acc) /\ Len(acc) \in Nat /\ Len(hs) \in Nat
        /\ \A m \in 1 .. o : \A i \in D(m) : \E k \in 1 .. Len(acc) : acc[k] = ds[m].hosts[i]
        /\ (\A k, l \in 1 .. Len(acc) : HostKey(acc[k]) = HostKey(acc[l]) => k = l) =>
             \A m, l \in 1 .. o : \A i \in D(m), j \in D(l) : K(m, i) = K(l, j) => m = l
    BY Zenon, <1>4, <2>1, SliceFacts DEF HostInv
  <2>3. /\ Len(new) = Len(acc) + Len(hs)
        /\ \A k \in 1 .. Len(acc) : k \in 1 .. Len(new) /\ new[k] = acc[k]
        /\ \A i \in 1 .. Len(hs) : \E k \in 1 .. Len(new) : k > Len(acc) /\ new[k] = hs[i]
    <3> DEFINE X == ToSet(acc) \union ToSet(hs)
    <3>1. acc \in Seq(X) /\ hs \in Seq(X)
      <4>1. ToSet(acc) \subseteq X /\ ToSet(hs) \subseteq X
        BY Zenon
      <4>2. acc \in Seq(ToSet(acc)) /\ hs \in Seq(ToSet(hs))
        BY SMTT(30), <2>1, <2>2, SliceFacts
      <4> HIDE DEF X
      <4> QED BY <4>1, <4>2, SeqWider
    <3>2. /\ Len(new) = Len(acc) + Len(hs)
          /\ \A k \in 1 .. Len(acc) : k \in 1 .. Len(new) /\ new[k] = acc[k]
      BY SMTT(30), <2>2, <3>1
    <3>3. ASSUME NEW i \in 1 .. Len(hs) PROVE \E k \in 1 .. Len(new) : k > Len(acc) /\ new[k] = hs[i]
      <4>1. new[Len(acc) + i] = hs[i]
        BY SMTT(30), <2>2, <3>1
      <4> HIDE DEF new
      <4> QED BY SMTT(30), <2>2, <3>2, <4>1
    <3> QED BY Zenon, <3>2, <3>3
  <2>4. IsSlice(new)
    BY Zenon, <2>1, <2>2, ConcatFacts
  <2> HIDE DEF new, o, hs
  <2>5. ASSUME NEW m \in 1 .. n, NEW i \in D(m) PROVE \E k \in 1 .. Len(new) : new[k] = ds[m].hosts[i]
    <3>1. CASE m \in 1 .. o
      BY <2>2, <2>3, <3>1
    <3>2. CASE m = n
      BY Zenon, <2>3, <3>2 DEF hs
    <3> QED BY ZenonT(30), <2>1, <3>1, <3>2
  <2>6. ASSUME \A k, l \in 1 .. Len(new) : HostKey(new[k]) = HostKey(new[l]) => k = l,
               NEW m \in 1 .. n, NEW l \in 1 .. n, NEW i \in D(m), NEW j \in D(l), K(m, i) = K(l, j)
        PROVE  m = l
    <3>1. \A a, b \in 1 .. o : \A s \in D(a), t \in D(b) : K(a, s) = K(b, t) => a = b
      <4>1. \A a, b \in 1 .. Len(acc) : HostKey(acc[a]) = HostKey(acc[b]) => a = b
        BY Zenon, <2>3, <2>6
      <4> HIDE DEF K, D
      <4> QED BY Zenon, <2>2, <4>1
    <3>2. ASSUME NEW a \in 1 .. o, NEW s \in D(a), NEW t \in D(n) PROVE K(a, s) # K(n, t)
      <4>1. PICK k \in 1 .. Len(acc) : acc[k] = ds[a].hosts[s]
        BY SMTT(30), <2>2
      <4>2. PICK k2 \in 1 .. Len(new) : k2 > Len(acc) /\ new[k2] = ds[n].hosts[t]
        BY SMTT(30), <2>3 DEF hs
      <4>3. k \in 1 .. Len(new) /\ new[k] = ds[a].hosts[s] /\ k # k2
        BY SMTT(30), <2>2, <2>3, <4>1, <4>2
      <4> QED BY ZenonT(30), <2>6, <4>2, <4>3
    <3> HIDE DEF K, D
    <3> QED BY Zenon, <2>1, <2>6, <3>1, <3>2
  <2> QED BY Zenon, <2>4, <2>5, <2>6 DEF HostInv, HostStep, new, hs
<1>5. HostInv(0, ds, Len(ds), all)
  BY SMTT(30), <1>1, <1>3, <1>4, HostLoop!LoopInvariant, NatSetInduction DEF HostLoop!Induction
<1> HIDE DEF all
<1>6. \A k, l \in 1 .. Len(all) : HostKey(all[k]) = HostKey(all[l]) => k = l
  <2>1. DOMAIN all = 1 .. Len(all)
    BY SMTT(30), <1>5, SliceFacts DEF HostInv
  <2> QED BY SMTT(30), <1>2, <2>1 DEF IsInjective
<1>7. \A m, l \in 1 .. Len(ds) : \A i \in 1 .. Len(ds[m].hosts), j \in 1 .. Len(ds[l].hosts) :
        HostKey(ds[m].hosts[i]) = HostKey(ds[l].hosts[j]) => m = l
  BY SMTT(30), <1>5, <1>6 DEF HostInv
<1>8. ASSUME NEW m \in DOMAIN ds, NEW l \in DOMAIN ds,
             NEW x \in ToSet(ds[m].hosts), NEW y \in ToSet(ds[l].hosts), HostKey(x) = HostKey(y)
      PROVE  m = l
  <2>1. IsSlice(ds[m].hosts) /\ IsSlice(ds[l].hosts) /\ m \in 1 .. Len(ds) /\ l \in 1 .. Len(ds)
    BY <1>1
  <2>2. PICK i \in 1 .. Len(ds[m].hosts) : x = ds[m].hosts[i]
    BY Zenon, <2>1, SliceFacts
  <2>3. PICK j \in 1 .. Len(ds[l].hosts) : y = ds[l].hosts[j]
    BY Zenon, <2>1, SliceFacts
  <2> QED BY Zenon, <1>7, <1>8, <2>1, <2>2, <2>3
<1> QED BY <1>8

LEMMA OwnersMeaning ==
  ASSUME NEW labels, NEW n
  PROVE  n \in OwnersOf(labels) <=>
           /\ n \in DOMAIN merged.domains
           /\ \E x \in ToSet(merged.domains[n].hosts) :
                /\ Covers(x, labels)
                /\ \A m \in DOMAIN merged.domains : \A y \in ToSet(merged.domains[m].hosts) :
                     Covers(y, labels) => ~Beats(y, x)
<1> DEFINE Hs(m) == {x \in ToSet(merged.domains[m].hosts) : Covers(x, labels)}
           Of(m) == {[n |-> m, p |-> h] : h \in Hs(m)}
           claims == UNION {Of(m) : m \in DOMAIN merged.domains}
<1>1. OwnersOf(labels) = {c.n : c \in {x \in claims : \A y \in claims : ~Beats(y.p, x.p)}}
  BY DEF OwnersOf
<1>2. \A m \in DOMAIN merged.domains : \A y \in Hs(m) : [n |-> m, p |-> y] \in claims
  OBVIOUS
<1>3. \A c \in claims : c.n \in DOMAIN merged.domains /\ c.p \in Hs(c.n)
  OBVIOUS
<1> HIDE DEF claims, Hs
<1>4. ASSUME n \in OwnersOf(labels)
      PROVE  /\ n \in DOMAIN merged.domains
             /\ \E x \in Hs(n) : \A m \in DOMAIN merged.domains : \A y \in Hs(m) : ~Beats(y, x)
  <2>1. PICK c \in claims : n = c.n /\ \A y \in claims : ~Beats(y.p, c.p)
    BY SMTT(30), <1>1, <1>4
  <2>2. ASSUME NEW m \in DOMAIN merged.domains, NEW y \in Hs(m) PROVE ~Beats(y, c.p)
    <3>1. [n |-> m, p |-> y] \in claims
      BY <1>2
    <3> QED BY SMTT(30), <2>1, <3>1
  <2>3. n \in DOMAIN merged.domains /\ c.p \in Hs(n)
    BY SMTT(30), <1>3, <2>1
  <2> QED BY Zenon, <2>2, <2>3
<1>5. ASSUME n \in DOMAIN merged.domains, NEW x \in Hs(n),
             \A m \in DOMAIN merged.domains : \A y \in Hs(m) : ~Beats(y, x)
      PROVE  n \in OwnersOf(labels)
  <2> DEFINE c == [n |-> n, p |-> x]
  <2>1. c \in claims /\ c.n = n /\ c.p = x
    BY SMTT(30), <1>2, <1>5
  <2>2. \A y \in claims : ~Beats(y.p, c.p)
    BY SMTT(30), <1>3, <1>5, <2>1
  <2> QED BY SMTT(30), <1>1, <2>1, <2>2
<1>6. n \in OwnersOf(labels) <=>
        /\ n \in DOMAIN merged.domains
        /\ \E x \in Hs(n) : \A m \in DOMAIN merged.domains : \A y \in Hs(m) : ~Beats(y, x)
  BY SMTT(30), <1>4, <1>5
<1> QED BY <1>6 DEF Hs

(* The resolver finds the owner of a host, and there is at most one. *)
LEMMA OwnerFound ==
  ASSUME IsSlice(merged.domains), ValidMerged(merged),
         \A d \in ToSet(merged.domains) : IsSlice(d.hosts) /\ \A x \in ToSet(d.hosts) : Claimable(x),
         NEW host, NEW labels, labels = NormalizeHost(host).labels
  PROVE  LET best == BestDomain(CompileResolver(merged), host)
         IN  \/ best = NoDomain /\ OwnersOf(labels) = {}
             \/ /\ best # NoDomain
                /\ \E n \in DOMAIN merged.domains :
                     best.dom = CompileDomain(merged, n) /\ OwnersOf(labels) = {n}
<1> DEFINE best == BestDomain(CompileResolver(merged), host)
           N == DOMAIN merged.domains
           Hs(n) == ToSet(merged.domains[n].hosts)
           CD(n) == CompileDomain(merged, n)
           S(n) == Specificity(CD(n), host)
<1>1. \A n \in N : \A x \in Hs(n) : Claimable(x) /\ GoodHost(x) /\ HostSpecificity(x) \in Nat
  BY SMTT(30), ScoresRank DEF ToSet, Claimable
<1>2. ASSUME NEW n \in N
      PROVE  /\ CD(n).hosts = {CompileHost(x) : x \in Hs(n)}
             /\ \A h \in CD(n).hosts : GoodHost(h)
  <2>1. CD(n).hosts = {CompileHost(merged.domains[n].hosts[i]) : i \in DOMAIN merged.domains[n].hosts}
    BY DEF CompileDomain
  <2>2. CD(n).hosts = {CompileHost(x) : x \in Hs(n)}
    BY <2>1 DEF ToSet
  <2>3. \A x \in Hs(n) : GoodHost(CompileHost(x))
    BY SMTT(30), <1>1 DEF GoodHost, CompileHost
  <2> QED BY SMTT(30), <2>2, <2>3
<1>3. /\ best.score \in Int /\ \A n \in N : S(n) <= best.score
      /\ \/ best = NoDomain
         \/ \E n \in N : best = [score |-> S(n), dom |-> CD(n)] /\ best.score > -1
  BY SMTT(30), <1>2, BestFacts
<1>4. ASSUME NEW n \in N
      PROVE  /\ S(n) \in Int
             /\ \A x \in Hs(n) : Covers(x, labels) => S(n) >= HostSpecificity(x)
             /\ S(n) # -1 => \E x \in Hs(n) : Covers(x, labels) /\ S(n) = HostSpecificity(x)
  <2> DEFINE d == CD(n)
             hits == {h \in d.hosts : HostMatch(h, host)}
  <2>1. /\ S(n) \in Int
        /\ hits = {} => S(n) = -1
        /\ hits # {} => \E h \in hits : S(n) = HostSpecificity(h)
        /\ \A h \in hits : S(n) >= HostSpecificity(h)
    <3>1. \A h \in d.hosts : GoodHost(h)
      BY SMTT(30), <1>2
    <3> HIDE DEF d
    <3> QED BY SMTT(30), <3>1, SpecificityFacts DEF d
  <2>2. \A x \in Hs(n) : /\ HostMatch(CompileHost(x), host) <=> Covers(x, labels)
                         /\ HostSpecificity(CompileHost(x)) = HostSpecificity(x)
                         /\ CompileHost(x) \in d.hosts
    BY SMTT(30), <1>1, <1>2, MatchCovers
  <2>3. \A h \in d.hosts : \E x \in Hs(n) : h = CompileHost(x)
    BY SMTT(30), <1>2
  <2> HIDE DEF S, d, Hs
  <2>4. ASSUME NEW x \in Hs(n), Covers(x, labels) PROVE S(n) >= HostSpecificity(x)
    <3>1. CompileHost(x) \in hits
      BY SMTT(30), <2>2, <2>4
    <3> QED BY SMTT(30), <2>1, <2>2, <3>1
  <2>5. ASSUME S(n) # -1 PROVE \E x \in Hs(n) : Covers(x, labels) /\ S(n) = HostSpecificity(x)
    <3>1. PICK h \in hits : S(n) = HostSpecificity(h)
      BY SMTT(30), <2>1, <2>5
    <3>2. PICK x \in Hs(n) : h = CompileHost(x)
      BY SMTT(30), <2>3, <3>1
    <3> QED BY SMTT(30), <2>2, <3>1, <3>2
  <2> QED BY SMTT(30), <2>1, <2>4, <2>5
<1> HIDE DEF best, S, N, Hs, CD
<1>5. \A n : n \in OwnersOf(labels) <=>
               /\ n \in N
               /\ \E x \in Hs(n) : /\ Covers(x, labels)
                                   /\ \A m \in N : \A y \in Hs(m) : Covers(y, labels) => ~Beats(y, x)
  BY SMTT(30), OwnersMeaning DEF N, Hs
<1>6. CASE best = NoDomain
  <2>1. best.score = -1
    BY SMTT(30), <1>6 DEF NoDomain
  <2>2. \A n \in N : \A x \in Hs(n) : ~Covers(x, labels)
    BY SMTT(30), <1>1, <1>3, <1>4, <2>1
  <2>3. OwnersOf(labels) = {}
    BY Zenon, <1>5, <2>2
  <2> QED BY SMTT(30), <1>6, <2>3 DEF best
<1>7. CASE \E n \in N : best = [score |-> S(n), dom |-> CD(n)] /\ best.score > -1
  <2>1. PICK n \in N : best = [score |-> S(n), dom |-> CD(n)] /\ best.score > -1
    BY <1>7
  <2>2. best.score = S(n) /\ best.dom = CD(n)
    BY SMTT(30), <2>1
  <2>3. best # NoDomain
    <3>1. NoDomain.score = -1
      BY Zenon DEF NoDomain
    <3> QED BY SMTT(30), <1>3, <2>1, <3>1
  <2>4. PICK x \in Hs(n) : Covers(x, labels) /\ S(n) = HostSpecificity(x)
    BY SMTT(30), <1>3, <1>4, <2>1, <2>2
  <2>5. \A m \in N : \A y \in Hs(m) : Covers(y, labels) => ~Beats(y, x)
    <3> SUFFICES ASSUME NEW m \in N, NEW y \in Hs(m), Covers(y, labels) PROVE ~Beats(y, x)
      OBVIOUS
    <3>1. S(m) >= HostSpecificity(y) /\ S(m) <= S(n) /\ S(m) \in Int /\ S(n) \in Int
      BY SMTT(30), <1>3, <1>4, <2>2
    <3>2. ~(HostSpecificity(y) > HostSpecificity(x))
      BY SMTT(30), <1>1, <2>4, <3>1
    <3> QED BY SMTT(30), <1>1, <3>2, ScoresRank
  <2>6. n \in OwnersOf(labels)
    BY Zenon, <1>5, <2>4, <2>5
  <2>7. ASSUME NEW m \in OwnersOf(labels) PROVE m = n
    <3>1. m \in N
      BY SMTT(30), <1>5
    <3>2. PICK y \in Hs(m) : /\ Covers(y, labels)
                             /\ \A k \in N : \A z \in Hs(k) : Covers(z, labels) => ~Beats(z, y)
      BY SMTT(30), <1>5
    <3>3. ~Beats(x, y) /\ ~Beats(y, x)
      BY SMTT(30), <2>4, <2>5, <3>1, <3>2
    <3>4. HostSpecificity(x) = HostSpecificity(y)
      <4>1. /\ HostSpecificity(x) \in Nat /\ HostSpecificity(y) \in Nat
            /\ ~(HostSpecificity(x) > HostSpecificity(y)) /\ ~(HostSpecificity(y) > HostSpecificity(x))
        BY Zenon, <1>1, <3>1, <3>3, ScoresRank
      <4> QED BY SMTT(30), <4>1
    <3>5. HostKey(x) = HostKey(y)
      BY SMTT(30), <1>1, <2>4, <3>1, <3>2, <3>4, SameRank
    <3> QED BY SMTT(30), <3>1, <3>5, HostsUnique DEF N, Hs
  <2>8. OwnersOf(labels) = {n}
    BY SMTT(30), <2>6, <2>7
  <2> QED BY SMTT(30), <2>2, <2>3, <2>8 DEF best, N, CD
<1> QED BY SMTT(30), <1>3, <1>6, <1>7

-----------------------------------------------------------------------------
(* The route that serves.                                                    *)

LEMMA RouteIsRoute ==
  ASSUME NEW d, DecodedDomain(d), NEW i \in DOMAIN d.routes, NEW p
  PROVE  IsRoute([match |-> d.routes[i].match, policy |-> p])
<1> DEFINE m == d.routes[i].match
<1>1. DecodedMatch(m)
  BY DEF DecodedDomain, ToSet
<1>2. PathKind(m) \in Nat
  BY DEF PathKind
<1>3. PathKind(m) = 1 => "prefix" \in DOMAIN m.path
  BY DEF PathKind
<1>4. PrefixLen(m) \in Nat
  BY SMTT(30), <1>1, <1>3, SliceFacts DEF PrefixLen, DecodedMatch
<1> QED BY SMTT(30), <1>2, <1>4 DEF IsRoute

(* The matching routes of a compiled domain. *)
Hits(cd, req) == {k \in DOMAIN cd.routes : RouteMatches(cd.routes[k].match, req)}

LEMMA RouteServed ==
  ASSUME NEW n, DecodedDomain(merged.domains[n]), NEW cd, Compiled(merged, n, cd), NEW req,
         NEW hits, hits = Hits(cd, req)
  PROVE  /\ hits = {} => cd.default.id = <<n, RouteFor(n, req)>>
         /\ hits # {} => cd.routes[Min(hits)].policy.id = <<n, RouteFor(n, req)>>
<1>0. hits = {k \in DOMAIN cd.routes : RouteMatches(cd.routes[k].match, req)}
  BY DEF Hits
<1> DEFINE d == merged.domains[n]
           mine == {i \in DOMAIN d.routes : RouteMatches(d.routes[i].match, req)}
           Wins(i) == \A k \in mine : More(d.routes[i], d.routes[k])
                                      \/ (~More(d.routes[k], d.routes[i]) /\ i <= k)
           best == {i \in mine : Wins(i)}
           Route(i) == [match |-> d.routes[i].match, policy |-> PolicyOf(merged, n, i)]
<1>1. RouteFor(n, req) = IF mine = {} THEN 0 ELSE CHOOSE i \in best : TRUE
  BY SMTT(30) DEF RouteFor
<1>2. /\ IsSlice(cd.routes) /\ Len(cd.routes) \in Nat /\ DOMAIN cd.routes = 1 .. Len(cd.routes)
      /\ IsSlice(d.routes) /\ Len(d.routes) \in Nat /\ DOMAIN d.routes = 1 .. Len(d.routes)
  BY SMTT(30), SliceFacts DEF Compiled, DecodedDomain
<1>3. \A i \in DOMAIN d.routes : \E k \in 1 .. Len(cd.routes) : cd.routes[k] = Route(i)
  <2>1. \A i \in DOMAIN d.routes : Route(i) \in ToSet(cd.routes)
    BY DEF Compiled
  <2> HIDE DEF Route
  <2> QED BY ZenonT(30), <1>2, <2>1, SliceFacts
<1>4. \A k \in 1 .. Len(cd.routes) : \E i \in DOMAIN d.routes : cd.routes[k] = Route(i)
  <2>1. \A r \in ToSet(cd.routes) : \E i \in DOMAIN d.routes : r = Route(i)
    BY SMTT(30) DEF Compiled
  <2> HIDE DEF Route
  <2> QED BY SMTT(30), <1>2, <2>1, SliceFacts
<1>5. \A i : PolicyOf(merged, n, i).id = <<n, i>>
  BY SMTT(30), PolicyShape DEF ShapedBy
<1>6. \A i : Route(i).match = d.routes[i].match /\ Route(i).policy.id = <<n, i>> /\ Route(i).policy.id[2] = i
  BY SMTT(30), <1>5
<1>7. \A i, k : More(Route(i), Route(k)) <=> More(d.routes[i], d.routes[k])
  BY SMTT(30), <1>6 DEF More
<1> HIDE DEF Route
<1>8. \A i \in mine : \E k \in hits : cd.routes[k] = Route(i)
  BY ZenonT(30), <1>0, <1>2, <1>3, <1>6
<1>9. CASE hits = {}
  <2>1. mine = {}
    BY SMTT(30), <1>8, <1>9
  <2>2. cd.default = PolicyOf(merged, n, 0)
    BY SMTT(30) DEF Compiled
  <2> HIDE DEF mine, best
  <2> QED BY <1>1, <1>5, <1>9, <2>1, <2>2
<1>10. CASE hits # {}
  <2>1. Min(hits) \in hits /\ \A k \in hits : Min(hits) <= k
    <3>1. hits \in SUBSET (0 .. Len(cd.routes))
      BY <1>0, <1>2
    <3> QED BY ZenonT(30), <1>2, <1>10, <3>1, MinFacts
  <2> DEFINE a == Min(hits)
  <2> HIDE DEF a
  <2>2. a \in 1 .. Len(cd.routes) /\ RouteMatches(cd.routes[a].match, req)
    BY Zenon, <1>0, <1>2, <2>1 DEF a
  <2>3. PICK i \in DOMAIN d.routes : cd.routes[a] = Route(i)
    BY SMTT(30), <1>4, <2>2
  <2>4. i \in mine
    BY SMTT(30), <1>6, <2>2, <2>3
  <2>5. Wins(i)
    <3> SUFFICES ASSUME NEW k \in mine
                 PROVE  More(d.routes[i], d.routes[k]) \/ (~More(d.routes[k], d.routes[i]) /\ i <= k)
      OBVIOUS
    <3>1. PICK b \in hits : cd.routes[b] = Route(k)
      BY SMTT(30), <1>8
    <3>2. a <= b /\ b \in 1 .. Len(cd.routes) /\ i \in Nat /\ k \in Nat
      BY SMTT(30), <1>0, <1>2, <2>1, <2>3 DEF a
    <3>3. CASE a = b
      <4>1. i = k
        BY SMTT(30), <1>6, <2>3, <3>1, <3>3
      <4>2. ~More(d.routes[i], d.routes[i])
        <5>1. IsRoute(Route(i))
          BY SMTT(30), <2>3, RouteIsRoute DEF Route
        <5>2. ~More(Route(i), Route(i))
          BY SMTT(30), <5>1, MoreFacts
        <5> QED BY SMTT(30), <1>7, <5>2
      <4> QED BY SMTT(30), <3>2, <4>1, <4>2
    <3>4. CASE a < b
      <4>1. Before(Route(i), Route(k))
        BY SMTT(30), <2>2, <2>3, <3>1, <3>2, <3>4 DEF Compiled
      <4>2. ~More(Route(k), Route(i)) /\ (More(Route(i), Route(k)) \/ i < k)
        BY SMTT(30), <1>6, <4>1 DEF Before
      <4> QED BY SMTT(30), <1>7, <3>2, <4>2
    <3> QED BY SMTT(30), <2>2, <3>2, <3>3, <3>4
  <2>6. ASSUME NEW j \in best PROVE j = i
    <3>1. i \in Nat /\ j \in Nat
      BY SMTT(30), <1>2, <2>3
    <3>2. \/ More(d.routes[i], d.routes[j])
          \/ ~More(d.routes[j], d.routes[i]) /\ i <= j
      BY ZenonT(30), <2>5
    <3>3. \/ More(d.routes[j], d.routes[i])
          \/ ~More(d.routes[i], d.routes[j]) /\ j <= i
      BY SMTT(30), <2>4
    <3>4. ~(More(Route(i), Route(j)) /\ More(Route(j), Route(i)))
      <4>1. IsRoute(Route(i)) /\ IsRoute(Route(j))
        BY SMTT(30), <2>3, RouteIsRoute DEF Route
      <4> QED BY SMTT(30), <4>1, MoreFacts
    <3> HIDE DEF best, mine, Wins
    <3> QED BY SMTT(30), <1>7, <3>1, <3>2, <3>3, <3>4
  <2>7. best = {i} /\ mine # {}
    BY ZenonT(30), <2>4, <2>5, <2>6
  <2> HIDE DEF best, mine
  <2>8. RouteFor(n, req) = i
    BY <1>1, <2>7
  <2> QED BY SMTT(30), <1>6, <1>10, <2>3, <2>8 DEF a
<1> QED BY SMTT(30), <1>9, <1>10

(* What the matchers see of a request does not depend on its spelling. *)
LEMMA SpellingUndone ==
  ASSUME NEW req, PlainPath(req.path), NormalizePath(req.path) = req.path
  PROVE  LET in == Spell(req)
             path == NormalizePath(in.path)
         IN  /\ path = req.path
             /\ NormalizeHost(in.host).labels = req.host
             /\ \A m : RouteMatches(m, [in EXCEPT !.path = path]) <=> RouteMatches(m, req)
<1> DEFINE in == Spell(req)
           path == NormalizePath(in.path)
           out == [in EXCEPT !.path = path]
<1>1. path = req.path
  <2>1. in.path = Written(req.path, req.spelling)
    BY Zenon DEF Spell
  <2> QED BY Zenon, <2>1, PathSpelled
<1>2. NormalizeHost(in.host).labels = req.host
  BY DEF Spell, NormalizeHost
<1>3. out.path = path /\ out.method = req.method /\ out.ctype = req.ctype /\ out.headers = req.headers
  <2> HIDE DEF path
  <2> QED BY DEF Spell
<1> HIDE DEF path, out
<1>4. \A m : RouteMatches(m, out) <=> RouteMatches(m, req)
  BY Zenon, <1>1, <1>3 DEF RouteMatches
<1> QED BY Zenon, <1>1, <1>2, <1>4 DEF path, out

(* Every request gets the policy of the route and domain it must get,        *)
(* however it is spelled, for any directory of configuration files:          *)
(* validation leaves one most specific claim at most, the buckets and scores *)
(* of Resolver.Resolve find it, and sortRoutes puts the right route first.   *)
THEOREM OwnersServe == PSpec => []MostSpecificWins
<1>1. ASSUME PInv, served # Nil PROVE MostSpecificWins
  <2> DEFINE req == served.req
             in == Spell(req)
             path == NormalizePath(in.path)
             seen == [in EXCEPT !.path = path]
             best == BestDomain(resolver, in.host)
             hits == {i \in DOMAIN best.dom.routes : RouteMatches(best.dom.routes[i].match, seen)}
             owners == OwnersOf(req.host)
             excluded == \E p \in merged.excludes : NormalizePath(p) = req.path
  <2>1. /\ files \in Configs /\ merged = Merge(Parsed(files)) /\ Accepted(Parsed(files))
        /\ ValidMerged(merged) /\ resolver = CompileResolver(merged)
        /\ req \in RequestsOf(files) /\ served.policy = PolicyResolve(resolver, in)
    BY <1>1 DEF PInv, Ready
  <2>2. /\ path = req.path /\ NormalizeHost(in.host).labels = req.host
        /\ \A m : RouteMatches(m, seen) <=> RouteMatches(m, req)
    BY SMTT(30), <2>1, RequestsAssumption, SpellingUndone
  <2>3. /\ IsSlice(merged.domains)
        /\ \A d \in ToSet(merged.domains) : DecodedDomain(d)
    BY SMTT(30), <2>1, ConfigFacts
  <2>4. \A d \in ToSet(merged.domains) : IsSlice(d.hosts) /\ \A x \in ToSet(d.hosts) : Claimable(x)
    <3> SUFFICES ASSUME NEW d \in ToSet(merged.domains), NEW x \in ToSet(d.hosts) PROVE Claimable(x)
      BY <2>3 DEF DecodedDomain
    <3>1. PICK n \in DOMAIN merged.domains : d = merged.domains[n]
      BY DEF ToSet
    <3>2. PICK i \in DOMAIN d.hosts : x = d.hosts[i]
      BY SMTT(30) DEF ToSet
    <3>3. GoodHost(x)
      BY SMTT(30), <2>1, <3>1, <3>2, HostsGood
    <3> QED BY SMTT(30), <2>3, <3>3 DEF Claimable, DecodedDomain
  <2>5. \/ best = NoDomain /\ owners = {}
        \/ /\ best # NoDomain
           /\ \E n \in DOMAIN merged.domains : best.dom = CompileDomain(merged, n) /\ owners = {n}
    BY SMTT(30), <2>1, <2>2, <2>3, <2>4, OwnerFound
  <2>6. resolver.excludes = {NormalizePath(p) : p \in merged.excludes}
    BY <2>1 DEF CompileResolver
  <2>7. excluded <=> path \in resolver.excludes
    BY SMTT(30), <2>2, <2>6
  <2>8. served.policy = CASE path \in resolver.excludes -> PassThroughPolicy
                          [] path \notin resolver.excludes /\ best = NoDomain -> Nil
                          [] OTHER -> IF hits # {} THEN best.dom.routes[Min(hits)].policy ELSE best.dom.default
    BY Zenon, <2>1 DEF PolicyResolve
  <2> SUFFICES CASE excluded -> served.policy.id = "exclude"
                 [] ~excluded /\ owners = {} -> served.policy = Nil
                 [] OTHER -> \E n \in owners : owners = {n} /\ served.policy.id = <<n, RouteFor(n, req)>>
    BY DEF MostSpecificWins
  <2> HIDE DEF req, in, path, seen, best, hits, owners, excluded
  <2>9. CASE excluded
    <3>1. served.policy = PassThroughPolicy
      BY SMTT(30), <2>7, <2>8, <2>9
    <3>2. served.policy.id = "exclude"
      BY <3>1 DEF PassThroughPolicy
    <3> QED BY <2>9, <3>2
  <2>10. CASE ~excluded /\ best = NoDomain
    <3>1. served.policy = Nil /\ owners = {}
      BY SMTT(30), <2>5, <2>7, <2>8, <2>10
    <3> QED BY <2>10, <3>1
  <2>11. CASE ~excluded /\ best # NoDomain
    <3>1. served.policy = IF hits # {} THEN best.dom.routes[Min(hits)].policy ELSE best.dom.default
      BY SMTT(30), <2>7, <2>8, <2>11
    <3>2. PICK n \in DOMAIN merged.domains : best.dom = CompileDomain(merged, n) /\ owners = {n}
      BY SMTT(30), <2>5, <2>11
    <3>3. DecodedDomain(merged.domains[n])
      <4>1. merged.domains[n] \in ToSet(merged.domains)
        BY DEF ToSet
      <4> QED BY SMTT(30), <2>3, <4>1
    <3>4. Compiled(merged, n, best.dom)
      BY SMTT(30), <3>2, <3>3, DomainCompiled
    <3>5. hits = Hits(best.dom, req)
      BY SMTT(30), <2>2 DEF hits, Hits
    <3>6. served.policy.id = <<n, RouteFor(n, req)>>
      <4> DEFINE dom == best.dom
      <4>1. /\ hits = {} => dom.default.id = <<n, RouteFor(n, req)>>
            /\ hits # {} => dom.routes[Min(hits)].policy.id = <<n, RouteFor(n, req)>>
        <5> HIDE DEF dom
        <5>1. Compiled(merged, n, dom) /\ hits = Hits(dom, req)
          BY SMTT(30), <3>4, <3>5 DEF dom
        <5> QED BY SMTT(30), <3>3, <5>1, RouteServed
      <4> QED BY SMTT(30), <3>1, <4>1
    <3> QED BY SMTT(30), <2>11, <3>2, <3>6
  <2> QED BY SMTT(30), <2>9, <2>10, <2>11
<1>2. PInv => MostSpecificWins
  BY <1>1 DEF MostSpecificWins
<1> QED BY <1>2, PInvAlways, PTL
=============================================================================
