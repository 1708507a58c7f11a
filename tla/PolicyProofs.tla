---------------------------- MODULE PolicyProofs ----------------------------
(***************************************************************************)
(* From files to the policy of a request, for every directory of files     *)
(* that the decoder can produce (ConfigsAssumption): what the validator    *)
(* accepts compiles, every setting comes from the block that must decide   *)
(* it, and what is configured runs.                                        *)
(*                                                                         *)
(* PInv says where the state comes from: merged is Merge of the files,     *)
(* resolver is CompileResolver of merged, served is PolicyResolve of both. *)
(* The rest is what these operators compute.  Each loop over a slice is an *)
(* instance of Loops, whose rule asks for the body of the loop and an      *)
(* invariant of it: Merge over the files (OverlayLoop, JoinLoop),          *)
(* sortRoutes (SortLoop) and Resolve over the scopes (ApplyLoop); and, for *)
(* the proofs about requests, the scan of a bucket (ScanLoop), which ends  *)
(* in a domain of the configuration with the highest score.                *)
(*                                                                         *)
(* A chain of blocks is folded by two loops, Merge over the files and      *)
(* Resolve over the domain and the route; their composition is the last-   *)
(* writer rule (ChainChosen), except for the order of the stages, which    *)
(* the files decide as one block (ChainOrder).  The policy a request is    *)
(* served with is one of the compiled ones (ServedCompiled).               *)
(***************************************************************************)
EXTENDS PolicyRouting, TLAPS

LOCAL INSTANCE WellFoundedInduction

-----------------------------------------------------------------------------
(* Slices and the loops over them.                                           *)

(* Induction over the natural numbers, for the elements of a set. *)
LEMMA NatSetInduction ==
  ASSUME NEW S, 0 \in S, \A n \in Nat : n \in S => n + 1 \in S
  PROVE  Nat \subseteq S
<1> DEFINE T == {n \in Nat : n \notin S}
           R == OpToRel(<, Nat)
<1>1. SUFFICES ASSUME T # {} PROVE FALSE
  BY Zenon
<1>2. T \subseteq Nat
  BY Zenon
<1>3. IsWellFoundedOn(R, Nat)
  BY Zenon, NatLessThanWellFounded
<1>4. PICK x \in T : \A y \in T : ~(<<y, x>> \in R)
  <2> HIDE DEF T, R
  <2> QED BY Zenon, <1>1, <1>2, <1>3, WFMin
<1>5. x \in Nat /\ x # 0 /\ x \notin S
  BY Zenon
<1>6. x - 1 \in Nat /\ x - 1 \notin S
  BY <1>5
<1>7. <<x - 1, x>> \in R
  BY <1>5, <1>6 DEF OpToRel
<1> QED BY Zenon, <1>4, <1>6, <1>7

LEMMA SliceFacts ==
  ASSUME NEW s, IsSlice(s)
  PROVE  /\ s \in Seq(ToSet(s)) /\ Len(s) \in Nat /\ DOMAIN s = 1 .. Len(s)
         /\ \A i \in 1 .. Len(s) : s[i] \in ToSet(s)
         /\ \A x \in ToSet(s) : \E i \in 1 .. Len(s) : x = s[i]
BY DEF IsSlice, ToSet

LEMMA SeqIsSlice ==
  ASSUME NEW X, NEW s \in Seq(X)
  PROVE  IsSlice(s) /\ ToSet(s) \subseteq X
<1>1. DOMAIN s = 1 .. Len(s) /\ Len(s) \in Nat
  OBVIOUS
<1>2. \A i \in 1 .. Len(s) : s[i] \in ToSet(s)
  BY Zenon, <1>1 DEF ToSet
<1> QED BY <1>1, <1>2 DEF IsSlice, ToSet

LEMMA SeqWider ==
  ASSUME NEW X, NEW Y, X \subseteq Y, NEW s \in Seq(X)
  PROVE  /\ s \in Seq(Y) /\ Len(s) \in Nat /\ DOMAIN s = 1 .. Len(s)
         /\ \A k \in 1 .. Len(s) : s[k] \in X
OBVIOUS

(* The loop of Keep. *)
KeepStep(env, acc, x) == IF x \in env THEN Append(acc, x) ELSE acc

KeepInv(env, seq, n, acc) ==
  /\ acc \in Seq(env)
  /\ \A k \in 1 .. Len(acc) : \E i \in 1 .. n : acc[k] = seq[i]
  /\ \A i \in 1 .. n : seq[i] \in env => \E k \in 1 .. Len(acc) : acc[k] = seq[i]

KeepLoop == INSTANCE Loops WITH Step <- KeepStep, Inv <- KeepInv

LEMMA KeepIsLoop ==
  ASSUME NEW seq, NEW wanted
  PROVE  Keep(seq, wanted) = KeepLoop!Loop(wanted, <<>>, seq)
BY Zenon DEF Keep, KeepLoop!Loop, KeepStep, FoldLeft

(* Keep returns the wanted elements of the slice, and all of them. *)
LEMMA KeepFacts ==
  ASSUME NEW seq, IsSlice(seq), NEW wanted
  PROVE  /\ Keep(seq, wanted) \in Seq(wanted) /\ IsSlice(Keep(seq, wanted))
         /\ ToSet(Keep(seq, wanted)) = ToSet(seq) \cap wanted
<1>1. seq \in Seq(ToSet(seq)) /\ Len(seq) \in Nat
  BY Zenon, SliceFacts
<1>2. KeepInv(wanted, seq, 0, <<>>)
  BY DEF KeepInv
<1>3. ASSUME NEW n \in 1 .. Len(seq), NEW acc, KeepInv(wanted, seq, n - 1, acc)
      PROVE  KeepInv(wanted, seq, n, KeepStep(wanted, acc, seq[n]))
  <2>1. CASE seq[n] \in wanted
    <3> DEFINE new == Append(acc, seq[n])
    <3>1. KeepStep(wanted, acc, seq[n]) = new
      BY Zenon, <2>1 DEF KeepStep
    <3>2. /\ acc \in Seq(wanted) /\ new \in Seq(wanted) /\ Len(new) = Len(acc) + 1 /\ Len(acc) \in Nat
          /\ new[Len(acc) + 1] = seq[n] /\ \A k \in 1 .. Len(acc) : new[k] = acc[k]
      BY <1>3, <2>1 DEF KeepInv
    <3> HIDE DEF new
    <3>3. ASSUME NEW k \in 1 .. Len(new) PROVE \E i \in 1 .. n : new[k] = seq[i]
      <4>1. CASE k = Len(acc) + 1
        BY <3>2, <4>1
      <4>2. CASE k \in 1 .. Len(acc)
        <5>1. PICK i \in 1 .. n - 1 : acc[k] = seq[i]
          BY Zenon, <1>3, <4>2 DEF KeepInv
        <5>2. i \in 1 .. n
          OBVIOUS
        <5> QED BY Zenon, <3>2, <4>2, <5>1, <5>2
      <4> QED BY <3>2, <4>1, <4>2
    <3>4. ASSUME NEW i \in 1 .. n, seq[i] \in wanted PROVE \E k \in 1 .. Len(new) : new[k] = seq[i]
      <4>1. CASE i = n
        BY <3>2, <4>1
      <4>2. CASE i \in 1 .. n - 1
        <5>1. PICK k \in 1 .. Len(acc) : acc[k] = seq[i]
          BY Zenon, <1>3, <3>4, <4>2 DEF KeepInv
        <5>2. k \in 1 .. Len(new) /\ new[k] = seq[i]
          BY <3>2, <5>1
        <5> QED BY Zenon, <5>2
      <4> QED BY <4>1, <4>2
    <3> QED BY Zenon, <3>1, <3>2, <3>3, <3>4 DEF KeepInv
  <2>2. CASE seq[n] \notin wanted
    <3>1. KeepStep(wanted, acc, seq[n]) = acc
      BY Zenon, <2>2 DEF KeepStep
    <3>2. ASSUME NEW i \in 1 .. n, seq[i] \in wanted PROVE i \in 1 .. n - 1
      BY <2>2, <3>2
    <3>3. \A i \in 1 .. n - 1 : i \in 1 .. n
      OBVIOUS
    <3> QED BY Zenon, <1>3, <3>1, <3>2, <3>3 DEF KeepInv
  <2> QED BY Zenon, <2>1, <2>2
<1>4. KeepInv(wanted, seq, Len(seq), KeepLoop!Loop(wanted, <<>>, seq))
  BY Zenon, <1>1, <1>2, <1>3, KeepLoop!LoopInvariant, NatSetInduction DEF KeepLoop!Induction
<1> DEFINE kept == Keep(seq, wanted)
<1>5. KeepInv(wanted, seq, Len(seq), kept)
  BY Zenon, <1>4, KeepIsLoop
<1> HIDE DEF kept
<1>6. kept \in Seq(wanted) /\ IsSlice(kept) /\ ToSet(kept) \subseteq wanted
  BY Zenon, <1>5, SeqIsSlice DEF KeepInv
<1>7. ASSUME NEW x \in ToSet(kept) PROVE x \in ToSet(seq)
  <2>1. PICK k \in 1 .. Len(kept) : x = kept[k]
    BY Zenon, <1>6, SliceFacts
  <2>2. PICK i \in 1 .. Len(seq) : kept[k] = seq[i]
    BY Zenon, <1>5 DEF KeepInv
  <2> QED BY Zenon, <2>1, <2>2, SliceFacts
<1>8. ASSUME NEW x \in ToSet(seq), x \in wanted PROVE x \in ToSet(kept)
  <2>1. PICK i \in 1 .. Len(seq) : x = seq[i]
    BY Zenon, SliceFacts
  <2>2. PICK k \in 1 .. Len(kept) : kept[k] = seq[i]
    BY Zenon, <1>5, <1>8, <2>1 DEF KeepInv
  <2> QED BY Zenon, <1>6, <2>1, <2>2, SliceFacts
<1> QED BY Zenon, <1>6, <1>7, <1>8 DEF kept

LEMMA ConcatElems ==
  ASSUME NEW X, NEW s \in Seq(X), NEW t \in Seq(X)
  PROVE  /\ s \o t \in Seq(X) /\ Len(s \o t) = Len(s) + Len(t)
         /\ \A i \in 1 .. Len(s) : (s \o t)[i] = s[i]
         /\ \A i \in 1 .. Len(t) : (s \o t)[Len(s) + i] = t[i]
OBVIOUS

LEMMA ConcatFacts ==
  ASSUME NEW s, NEW t, IsSlice(s), IsSlice(t)
  PROVE  IsSlice(s \o t) /\ ToSet(s \o t) = ToSet(s) \union ToSet(t)
<1> DEFINE X == ToSet(s) \union ToSet(t)
           u == s \o t
<1>1. s \in Seq(X) /\ t \in Seq(X) /\ Len(s) \in Nat /\ Len(t) \in Nat
  BY SliceFacts
<1>2. /\ u \in Seq(X) /\ Len(u) = Len(s) + Len(t)
      /\ \A i \in 1 .. Len(s) : i \in 1 .. Len(u) /\ u[i] = s[i]
      /\ \A i \in 1 .. Len(t) : Len(s) + i \in 1 .. Len(u) /\ u[Len(s) + i] = t[i]
  BY <1>1
<1> HIDE DEF u, X
<1>3. IsSlice(u) /\ ToSet(u) \subseteq X
  BY Zenon, <1>2, SeqIsSlice
<1>4. ASSUME NEW x \in X PROVE x \in ToSet(u)
  <2>1. CASE x \in ToSet(s)
    <3>1. PICK i \in 1 .. Len(s) : x = s[i]
      BY Zenon, <2>1, SliceFacts
    <3> QED BY Zenon, <1>2, <1>3, <3>1, SliceFacts
  <2>2. CASE x \in ToSet(t)
    <3>1. PICK i \in 1 .. Len(t) : x = t[i]
      BY Zenon, <2>2, SliceFacts
    <3> QED BY Zenon, <1>2, <1>3, <3>1, SliceFacts
  <2> QED BY Zenon, <2>1, <2>2 DEF X
<1> QED BY Zenon, <1>3, <1>4 DEF u, X

(* The largest element of a set of positions. *)
LEMMA MaxFacts ==
  ASSUME NEW n \in Nat, NEW S \in SUBSET (0 .. n), S # {}
  PROVE  Max(S) \in S /\ \A x \in S : x <= Max(S)
<1> DEFINE T == {m \in Nat : \A R \in SUBSET (0 .. m) : R # {} => \E x \in R : \A y \in R : x >= y}
<1>1. 0 \in T
  <2>1. \A R \in SUBSET (0 .. 0) : \A x \in R : x = 0
    OBVIOUS
  <2>2. \A R \in SUBSET (0 .. 0) : \A x, y \in R : x >= y
    BY <2>1
  <2> QED BY Zenon, <2>2
<1>2. ASSUME NEW m \in Nat, m \in T PROVE m + 1 \in T
  <2> SUFFICES ASSUME NEW R \in SUBSET (0 .. m + 1), R # {}
               PROVE  \E x \in R : \A y \in R : x >= y
    OBVIOUS
  <2>1. CASE m + 1 \in R
    <3>1. \A y \in R : m + 1 >= y
      OBVIOUS
    <3> QED BY Zenon, <2>1, <3>1
  <2>2. CASE m + 1 \notin R
    <3>1. R \in SUBSET (0 .. m)
      BY <2>2
    <3> QED BY Zenon, <1>2, <3>1
  <2> QED BY Zenon, <2>1, <2>2
<1>3. Nat \subseteq T
  <2> HIDE DEF T
  <2> QED BY Zenon, <1>1, <1>2, NatSetInduction
<1>4. PICK x \in S : \A y \in S : x >= y
  BY Zenon, <1>3
<1>5. Max(S) \in S /\ \A y \in S : Max(S) >= y
  BY <1>4, Zenon DEF Max
<1> QED BY Zenon, <1>5

LEMMA MinFacts ==
  ASSUME NEW n \in Nat, NEW S \in SUBSET (0 .. n), S # {}
  PROVE  Min(S) \in S /\ \A x \in S : Min(S) <= x
<1> DEFINE T == {n - x : x \in S}
<1>1. T \in SUBSET (0 .. n) /\ T # {}
  <2>1. \A x \in S : n - x \in 0 .. n
    OBVIOUS
  <2>2. PICK x \in S : TRUE
    BY Zenon
  <2>3. n - x \in T
    BY Zenon
  <2> QED BY Zenon, <2>1, <2>3
<1>2. PICK m \in T : \A y \in T : y <= m
  <2> HIDE DEF T
  <2> QED BY Zenon, <1>1, MaxFacts
<1>3. PICK x \in S : m = n - x
  BY Zenon
<1>4. \A y \in S : x <= y
  BY <1>2, <1>3
<1> QED BY <1>4, Zenon DEF Min

LEMMA Sandwich ==
  ASSUME NEW X, NEW l \in Seq(X), NEW x \in X, NEW r \in Seq(X)
  PROVE  /\ (l \o <<x>>) \o r \in Seq(X) /\ Len((l \o <<x>>) \o r) = Len(l) + 1 + Len(r)
         /\ ((l \o <<x>>) \o r)[Len(l) + 1] = x
         /\ \A k \in 1 .. Len(l) : ((l \o <<x>>) \o r)[k] = l[k]
         /\ \A k \in 1 .. Len(r) : ((l \o <<x>>) \o r)[Len(l) + 1 + k] = r[k]
OBVIOUS

Inserted(new, X, s, at, x) ==
  /\ new \in Seq(X)
  /\ Len(new) = Len(s) + 1
  /\ \A k \in 1 .. at : new[k] = s[k]
  /\ new[at + 1] = x
  /\ \A k \in at + 2 .. Len(s) + 1 : new[k] = s[k - 1]

LEMMA InsertFacts ==
  ASSUME NEW X, NEW s \in Seq(X), NEW x \in X, NEW at \in 0 .. Len(s)
  PROVE  Inserted(InsertAt(s, 1 + at, x), X, s, at, x)
<1> DEFINE l == SubSeq(s, 1, (1 + at) - 1)
           r == SubSeq(s, 1 + at, Len(s))
           u == (l \o <<x>>) \o r
<1>1. l \in Seq(X) /\ Len(l) = at /\ \A k \in 1 .. at : l[k] = s[k]
  OBVIOUS
<1>2. r \in Seq(X) /\ Len(r) = Len(s) - at /\ \A k \in 1 .. Len(s) - at : r[k] = s[k + at]
  OBVIOUS
<1>3. InsertAt(s, 1 + at, x) = u
  BY Zenon DEF InsertAt
<1> HIDE DEF l, r, u
<1>0. u = (l \o <<x>>) \o r
  BY Zenon DEF u
<1>4. /\ u \in Seq(X) /\ Len(u) = Len(l) + 1 + Len(r) /\ u[Len(l) + 1] = x
      /\ \A k \in 1 .. Len(l) : u[k] = l[k]
      /\ \A k \in 1 .. Len(r) : u[Len(l) + 1 + k] = r[k]
  <2>1. l \in Seq(X) /\ r \in Seq(X)
    BY Zenon, <1>1, <1>2
  <2>2. u \in Seq(X) /\ Len(u) = Len(l) + 1 + Len(r) /\ u[Len(l) + 1] = x
    BY <1>0, <2>1, Sandwich
  <2>3. \A k \in 1 .. Len(l) : u[k] = l[k]
    BY <1>0, <2>1, Sandwich
  <2>4. \A k \in 1 .. Len(r) : u[Len(l) + 1 + k] = r[k]
    BY <1>0, <2>1, Sandwich
  <2> QED BY Zenon, <2>2, <2>3, <2>4
<1>5. ASSUME NEW k \in at + 2 .. Len(s) + 1 PROVE u[k] = s[k - 1]
  <2>1. PICK i \in 1 .. Len(r) : k = Len(l) + 1 + i /\ k - 1 = i + at
    <3>1. k - (at + 1) \in 1 .. Len(r) /\ k = Len(l) + 1 + (k - (at + 1)) /\ (k - (at + 1)) + at = k - 1
      BY <1>1, <1>2
    <3> QED BY Zenon, <3>1
  <2>2. u[Len(l) + 1 + i] = r[i]
    BY Zenon, <1>4
  <2>3. r[i] = s[i + at]
    BY Zenon, <1>2
  <2> QED BY Zenon, <2>1, <2>2, <2>3
<1>6. u[at + 1] = x /\ \A k \in 1 .. at : u[k] = s[k]
  BY Zenon, <1>1, <1>4
<1>7. Len(u) = Len(s) + 1
  BY <1>1, <1>2, <1>4
<1> QED BY Zenon, <1>3, <1>4, <1>5, <1>6, <1>7 DEF Inserted

-----------------------------------------------------------------------------
(* How blocks combine.                                                       *)

Parts == {"pipeline", "headers", "body", "engines"}

(* v is part c of the last of the first n scopes that has one. *)
Chosen(scopes, n, c, v) ==
  \/ v = Nil /\ \A i \in 1 .. n : scopes[i][c] = Nil
  \/ \E i \in 1 .. n : /\ v = scopes[i][c] /\ v # Nil
                       /\ \A k \in 1 .. n : k > i => scopes[k][c] = Nil

(* set gives the field the value of the last of the first n scopes that sets *)
(* it, else the one of base.                                                 *)
FieldChosen(scopes, n, field, base, set) ==
  \/ /\ \A i \in 1 .. n : field \notin DOMAIN scopes[i].set
     /\ field \in DOMAIN set <=> field \in DOMAIN base
     /\ field \in DOMAIN base => set[field] = base[field]
  \/ \E i \in 1 .. n : /\ field \in DOMAIN scopes[i].set
                       /\ field \in DOMAIN set /\ set[field] = scopes[i].set[field]
                       /\ \A k \in 1 .. n : k > i => field \notin DOMAIN scopes[k].set

LEMMA ChosenStep ==
  ASSUME NEW scopes, NEW n \in Nat, NEW c, NEW v, Chosen(scopes, n, c, v)
  PROVE  Chosen(scopes, n + 1, c, Or(scopes[n + 1][c], v))
<1>1. CASE scopes[n + 1][c] # Nil
  <2>1. n + 1 \in 1 .. n + 1 /\ \A k \in 1 .. n + 1 : ~(k > n + 1)
    OBVIOUS
  <2> QED BY Zenon, <1>1, <2>1 DEF Chosen, Or
<1>2. CASE scopes[n + 1][c] = Nil
  <2>1. \A k \in 1 .. n + 1 : k \in 1 .. n \/ k = n + 1
    OBVIOUS
  <2>2. \A k \in 1 .. n : k \in 1 .. n + 1
    OBVIOUS
  <2>3. Or(scopes[n + 1][c], v) = v
    BY Zenon, <1>2 DEF Or
  <2> QED BY Zenon, <1>2, <2>1, <2>2, <2>3 DEF Chosen
<1> QED BY Zenon, <1>1, <1>2

LEMMA FieldStep ==
  ASSUME NEW scopes, NEW n \in Nat, NEW field, NEW base, NEW set,
         FieldChosen(scopes, n, field, base, set)
  PROVE  FieldChosen(scopes, n + 1, field, base, Over(scopes[n + 1].set, set))
<1> DEFINE new == Over(scopes[n + 1].set, set)
<1>1. /\ field \in DOMAIN new <=> field \in DOMAIN scopes[n + 1].set \/ field \in DOMAIN set
      /\ field \in DOMAIN scopes[n + 1].set => new[field] = scopes[n + 1].set[field]
      /\ field \notin DOMAIN scopes[n + 1].set /\ field \in DOMAIN set => new[field] = set[field]
  BY Zenon DEF Over
<1> HIDE DEF new
<1>2. CASE field \in DOMAIN scopes[n + 1].set
  <2>1. n + 1 \in 1 .. n + 1 /\ \A k \in 1 .. n + 1 : ~(k > n + 1)
    OBVIOUS
  <2> QED BY Zenon, <1>1, <1>2, <2>1 DEF FieldChosen, new
<1>3. CASE field \notin DOMAIN scopes[n + 1].set
  <2>1. \A k \in 1 .. n + 1 : k \in 1 .. n \/ k = n + 1
    OBVIOUS
  <2>2. \A k \in 1 .. n : k \in 1 .. n + 1
    OBVIOUS
  <2>3. FieldChosen(scopes, n + 1, field, base, new)
    <3>1. CASE \A i \in 1 .. n : field \notin DOMAIN scopes[i].set
      <4>1. field \in DOMAIN set <=> field \in DOMAIN base
        BY Zenon, <3>1 DEF FieldChosen
      <4>2. field \in DOMAIN base => set[field] = base[field]
        BY Zenon, <3>1 DEF FieldChosen
      <4> QED BY Zenon, <1>1, <1>3, <2>1, <3>1, <4>1, <4>2 DEF FieldChosen
    <3>2. CASE \E i \in 1 .. n : field \in DOMAIN scopes[i].set
      <4>1. PICK i \in 1 .. n : /\ field \in DOMAIN scopes[i].set
                               /\ field \in DOMAIN set /\ set[field] = scopes[i].set[field]
                               /\ \A k \in 1 .. n : k > i => field \notin DOMAIN scopes[k].set
        BY Zenon, <3>2 DEF FieldChosen
      <4> QED BY Zenon, <1>1, <1>3, <2>1, <2>2, <4>1 DEF FieldChosen
    <3> QED BY Zenon, <3>1, <3>2
  <2> QED BY Zenon, <2>3 DEF new
<1> QED BY Zenon, <1>2, <1>3

(* The loop of Merge over the defaults of the files. *)
Blocks(fs) == [i \in DOMAIN fs |-> fs[i].defaults]

Combined(scopes, n, acc) ==
  /\ \A c \in Parts : Chosen(scopes, n, c, acc[c])
  /\ \A field : FieldChosen(scopes, n, field, EmptySpec.set, acc.set)
  /\ acc.skip = UNION {scopes[i].skip : i \in 1 .. n}

OverlayStep(env, acc, f) == OverlaySpec(acc, f.defaults)

OverlayInv(env, seq, n, acc) == Combined(Blocks(seq), n, acc)

OverlayLoop == INSTANCE Loops WITH Step <- OverlayStep, Inv <- OverlayInv

(* The merged defaults combine the defaults of the files in order. *)
LEMMA DefaultsCombined ==
  ASSUME NEW fs, IsSlice(fs)
  PROVE  Combined(Blocks(fs), Len(fs), Merge(fs).defaults)
<1>1. fs \in Seq(ToSet(fs)) /\ Len(fs) \in Nat /\ DOMAIN fs = 1 .. Len(fs)
  BY Zenon, SliceFacts
<1>2. Merge(fs).defaults = OverlayLoop!Loop(0, EmptySpec, fs)
  BY Zenon DEF Merge, OverlayLoop!Loop, OverlayStep, FoldLeft
<1>3. OverlayInv(0, fs, 0, EmptySpec)
  BY DEF OverlayInv, Combined, Chosen, FieldChosen, EmptySpec, Parts
<1>4. ASSUME NEW n \in 1 .. Len(fs), NEW acc, OverlayInv(0, fs, n - 1, acc)
      PROVE  OverlayInv(0, fs, n, OverlayStep(0, acc, fs[n]))
  <2> DEFINE scopes == Blocks(fs)
             m == n - 1
             new == OverlayStep(0, acc, fs[n])
  <2>1. m \in Nat /\ m + 1 = n /\ scopes[n] = fs[n].defaults
    BY <1>1 DEF Blocks
  <2>2. Combined(scopes, m, acc)
    BY Zenon, <1>4 DEF OverlayInv
  <2>3. /\ new.set = Over(scopes[n].set, acc.set)
        /\ new.skip = acc.skip \union scopes[n].skip
        /\ \A c \in Parts : new[c] = Or(scopes[n][c], acc[c])
    BY <2>1 DEF OverlayStep, OverlaySpec, Parts
  <2> HIDE DEF new, scopes, m
  <2>4. \A c \in Parts : Chosen(scopes, n, c, new[c])
    BY <2>1, <2>2, <2>3, ChosenStep DEF Combined
  <2>5. ASSUME NEW field PROVE FieldChosen(scopes, n, field, EmptySpec.set, new.set)
    BY <2>1, <2>2, <2>3, FieldStep DEF Combined
  <2>6. 1 .. n = (1 .. m) \union {n}
    BY <2>1
  <2>7. new.skip = UNION {scopes[i].skip : i \in 1 .. n}
    BY <2>2, <2>3, <2>6 DEF Combined
  <2> QED BY Zenon, <2>4, <2>5, <2>7 DEF OverlayInv, Combined, new, scopes
<1>5. OverlayInv(0, fs, Len(fs), OverlayLoop!Loop(0, EmptySpec, fs))
  BY Zenon, <1>1, <1>3, <1>4, OverlayLoop!LoopInvariant, NatSetInduction DEF OverlayLoop!Induction
<1> QED BY Zenon, <1>2, <1>5 DEF OverlayInv

(* The loop of Merge over the domains of the files. *)
JoinStep(env, acc, f) == acc \o f.domains

JoinInv(env, seq, n, acc) ==
  /\ IsSlice(acc)
  /\ \A d \in ToSet(acc) : \E i \in 1 .. n : d \in ToSet(seq[i].domains)

JoinLoop == INSTANCE Loops WITH Step <- JoinStep, Inv <- JoinInv

(* Every merged domain was written in one of the files. *)
LEMMA DomainsJoined ==
  ASSUME NEW fs, IsSlice(fs), \A f \in ToSet(fs) : IsSlice(f.domains)
  PROVE  /\ IsSlice(Merge(fs).domains)
         /\ \A d \in ToSet(Merge(fs).domains) : \E f \in ToSet(fs) : d \in ToSet(f.domains)
<1>1. fs \in Seq(ToSet(fs)) /\ Len(fs) \in Nat /\ \A i \in 1 .. Len(fs) : fs[i] \in ToSet(fs)
  BY Zenon, SliceFacts
<1>2. Merge(fs).domains = JoinLoop!Loop(0, <<>>, fs)
  BY Zenon DEF Merge, JoinLoop!Loop, JoinStep, FoldLeft
<1>3. JoinInv(0, fs, 0, <<>>)
  BY DEF JoinInv, IsSlice, ToSet
<1>4. ASSUME NEW n \in 1 .. Len(fs), NEW acc, JoinInv(0, fs, n - 1, acc)
      PROVE  JoinInv(0, fs, n, JoinStep(0, acc, fs[n]))
  <2>1. IsSlice(fs[n].domains) /\ IsSlice(acc)
    BY Zenon, <1>1, <1>4 DEF JoinInv
  <2>2. /\ IsSlice(JoinStep(0, acc, fs[n]))
        /\ ToSet(JoinStep(0, acc, fs[n])) = ToSet(acc) \union ToSet(fs[n].domains)
    BY Zenon, <2>1, ConcatFacts DEF JoinStep
  <2>3. \A i \in 1 .. n - 1 : i \in 1 .. n
    OBVIOUS
  <2>4. n \in 1 .. n
    OBVIOUS
  <2> QED BY Zenon, <1>4, <2>2, <2>3, <2>4 DEF JoinInv
<1>5. JoinInv(0, fs, Len(fs), JoinLoop!Loop(0, <<>>, fs))
  BY Zenon, <1>1, <1>3, <1>4, JoinLoop!LoopInvariant, NatSetInduction DEF JoinLoop!Induction
<1> QED BY Zenon, <1>1, <1>2, <1>5 DEF JoinInv

-----------------------------------------------------------------------------
(* The routes of a domain, most specific first.                              *)

(* a stands before b in the sorted routes; a route's policy has its number. *)
Before(a, b) ==
  /\ ~More(b, a)
  /\ More(a, b) \/ a.policy.id[2] < b.policy.id[2]

IsRoute(r) == PathKind(r.match) \in Nat /\ PrefixLen(r.match) \in Nat

Numbered(seq) == \A i \in 1 .. Len(seq) : IsRoute(seq[i]) /\ seq[i].policy.id[2] = i

PlaceStep(env, acc, r) == Place(acc, r)

PlaceInv(env, seq, n, acc) ==
  /\ acc \in Seq({seq[i] : i \in 1 .. n})
  /\ \A i \in 1 .. n : \E k \in 1 .. Len(acc) : acc[k] = seq[i]
  /\ \A a, b \in 1 .. Len(acc) : a < b => Before(acc[a], acc[b])

SortLoop == INSTANCE Loops WITH Step <- PlaceStep, Inv <- PlaceInv

LEMMA MoreFacts ==
  ASSUME NEW a, NEW b, NEW c, IsRoute(a), IsRoute(b), IsRoute(c)
  PROVE  /\ ~More(a, b) /\ ~More(b, c) => ~More(a, c)
         /\ More(a, b) => ~More(b, a)
BY DEF More, IsRoute

(* sortRoutes is a stable sort: it keeps the routes and puts the more        *)
(* specific one first, the one declared first among equals.                  *)
LEMMA RoutesSorted ==
  ASSUME NEW routes, IsSlice(routes), Numbered(routes)
  PROVE  /\ IsSlice(SortRoutes(routes)) /\ ToSet(SortRoutes(routes)) = ToSet(routes)
         /\ \A a, b \in 1 .. Len(SortRoutes(routes)) :
              a < b => Before(SortRoutes(routes)[a], SortRoutes(routes)[b])
<1>1. /\ routes \in Seq(ToSet(routes)) /\ Len(routes) \in Nat
      /\ ToSet(routes) = {routes[i] : i \in 1 .. Len(routes)}
  BY Zenon, SliceFacts
<1>2. SortRoutes(routes) = SortLoop!Loop(0, <<>>, routes)
  BY Zenon DEF SortRoutes, SortLoop!Loop, PlaceStep, FoldLeft
<1>3. PlaceInv(0, routes, 0, <<>>)
  BY DEF PlaceInv
<1>4. ASSUME NEW n \in 1 .. Len(routes), NEW acc, PlaceInv(0, routes, n - 1, acc)
      PROVE  PlaceInv(0, routes, n, PlaceStep(0, acc, routes[n]))
  <2> DEFINE r == routes[n]
             S == {0} \union {i \in DOMAIN acc : ~More(r, acc[i])}
             at == Max(S)
             X == {routes[i] : i \in 1 .. n}
             new == PlaceStep(0, acc, r)
  <2>1. /\ acc \in Seq(X) /\ Len(acc) \in Nat /\ DOMAIN acc = 1 .. Len(acc) /\ r \in X
        /\ \A k \in 1 .. Len(acc) : \E i \in 1 .. n - 1 : acc[k] = routes[i]
    <3> DEFINE Y == {routes[i] : i \in 1 .. n - 1}
    <3>1. Y \subseteq X /\ r \in X
      OBVIOUS
    <3>2. acc \in Seq(Y)
      BY Zenon, <1>4 DEF PlaceInv
    <3> HIDE DEF X
    <3>3. /\ acc \in Seq(X) /\ Len(acc) \in Nat /\ DOMAIN acc = 1 .. Len(acc)
          /\ \A k \in 1 .. Len(acc) : acc[k] \in Y
      <4> HIDE DEF Y
      <4> QED BY Zenon, <3>1, <3>2, SeqWider
    <3> QED BY Zenon, <3>1, <3>3
  <2>2. /\ at \in S /\ \A i \in S : i <= at
    <3>1. S \in SUBSET (0 .. Len(acc)) /\ S # {}
      BY <2>1
    <3> HIDE DEF S
    <3> QED BY Zenon, <2>1, <3>1, MaxFacts
  <2> HIDE DEF at
  <2>3. at \in 0 .. Len(acc) /\ (at # 0 => ~More(r, acc[at]))
    BY <2>1, <2>2
  <2>4. ASSUME NEW k \in 1 .. Len(acc), k > at PROVE More(r, acc[k])
    <3>1. ~(k <= at)
      BY <2>1, <2>3, <2>4
    <3> QED BY Zenon, <2>1, <2>2, <3>1
  <2>0. new = InsertAt(acc, 1 + at, r)
    BY Zenon DEF PlaceStep, Place, at
  <2> HIDE DEF at, S, X, new, r
  <2>5. /\ new \in Seq(X) /\ Len(new) = Len(acc) + 1
        /\ \A k \in 1 .. Len(acc) + 1 :
             new[k] = IF k <= at THEN acc[k] ELSE IF k = at + 1 THEN r ELSE acc[k - 1]
    <3>1. acc \in Seq(X) /\ r \in X /\ at \in 0 .. Len(acc)
      BY Zenon, <2>1, <2>3
    <3>2. Inserted(new, X, acc, at, r)
      BY Zenon, <2>0, <3>1, InsertFacts
    <3> QED BY <3>1, <3>2 DEF Inserted
  <2>6. IsRoute(r) /\ r.policy.id[2] = n
    BY Zenon DEF Numbered, r
  <2>7. \A k \in 1 .. Len(acc) : IsRoute(acc[k]) /\ acc[k].policy.id[2] < n
    BY <2>1 DEF Numbered
  <2>8. ASSUME NEW k \in 1 .. at PROVE Before(acc[k], r)
    <3>1. k \in 1 .. Len(acc) /\ at \in 1 .. Len(acc) /\ (k = at \/ k < at)
      BY <2>1, <2>3
    <3>2. k # at => ~More(acc[at], acc[k])
      BY Zenon, <1>4, <3>1 DEF PlaceInv, Before
    <3>3. ~More(r, acc[at])
      BY <2>3, <3>1
    <3>4. ~More(r, acc[k])
      BY <2>6, <2>7, <3>1, <3>2, <3>3, MoreFacts
    <3> QED BY Zenon, <2>6, <2>7, <3>1, <3>4 DEF Before
  <2>9. ASSUME NEW k \in at + 1 .. Len(acc) PROVE Before(r, acc[k])
    <3>1. k \in 1 .. Len(acc) /\ k > at
      BY <2>1, <2>3
    <3> QED BY Zenon, <2>4, <2>6, <2>7, <3>1, MoreFacts DEF Before
  <2>10. ASSUME NEW a \in 1 .. Len(new), NEW b \in 1 .. Len(new), a < b
         PROVE  Before(new[a], new[b])
    <3>0. a \in Int /\ b \in Int /\ at \in Nat /\ Len(new) = Len(acc) + 1
      BY <2>1, <2>3, <2>5
    <3>1. CASE b <= at
      <4>1. new[a] = acc[a] /\ new[b] = acc[b] /\ a \in 1 .. Len(acc) /\ b \in 1 .. Len(acc)
        BY <2>1, <2>3, <2>5, <2>10, <3>1
      <4> QED BY Zenon, <1>4, <2>10, <4>1 DEF PlaceInv
    <3>2. CASE b = at + 1
      <4>1. new[a] = acc[a] /\ new[b] = r /\ a \in 1 .. at
        BY <2>1, <2>3, <2>5, <2>10, <3>2
      <4> QED BY Zenon, <2>8, <4>1
    <3>3. CASE b > at + 1 /\ a <= at
      <4>1. /\ new[a] = acc[a] /\ new[b] = acc[b - 1] /\ a \in 1 .. Len(acc) /\ b - 1 \in 1 .. Len(acc)
            /\ a < b - 1
        BY <2>1, <2>3, <2>5, <2>10, <3>3
      <4> QED BY Zenon, <1>4, <4>1 DEF PlaceInv
    <3>4. CASE b > at + 1 /\ a = at + 1
      <4>1. new[a] = r /\ new[b] = acc[b - 1] /\ b - 1 \in at + 1 .. Len(acc)
        BY <2>1, <2>3, <2>5, <2>10, <3>4
      <4> QED BY Zenon, <2>9, <4>1
    <3>5. CASE b > at + 1 /\ a > at + 1
      <4>1. /\ new[a] = acc[a - 1] /\ new[b] = acc[b - 1] /\ a - 1 \in 1 .. Len(acc) /\ b - 1 \in 1 .. Len(acc)
            /\ a - 1 < b - 1
        BY <2>1, <2>3, <2>5, <2>10, <3>5
      <4> QED BY Zenon, <1>4, <4>1 DEF PlaceInv
    <3> QED BY <3>0, <3>1, <3>2, <3>3, <3>4, <3>5
  <2>11. ASSUME NEW i \in 1 .. n PROVE \E k \in 1 .. Len(new) : new[k] = routes[i]
    <3>1. CASE i = n
      <4>1. at + 1 \in 1 .. Len(new) /\ new[at + 1] = r
        BY <2>1, <2>3, <2>5
      <4> QED BY Zenon, <3>1, <4>1 DEF r
    <3>2. CASE i \in 1 .. n - 1
      <4>1. PICK k \in 1 .. Len(acc) : acc[k] = routes[i]
        BY Zenon, <1>4, <3>2 DEF PlaceInv
      <4>2. CASE k <= at
        <5>1. k \in 1 .. Len(new) /\ new[k] = acc[k]
          BY <2>1, <2>3, <2>5, <4>2
        <5> QED BY Zenon, <4>1, <5>1
      <4>3. CASE k > at
        <5>1. k + 1 \in 1 .. Len(new) /\ new[k + 1] = acc[k]
          BY <2>1, <2>3, <2>5, <4>3
        <5> QED BY Zenon, <4>1, <5>1
      <4> QED BY <2>3, <4>2, <4>3
    <3> QED BY <3>1, <3>2
  <2> QED BY Zenon, <2>5, <2>10, <2>11 DEF PlaceInv, new, r, X
<1>5. PlaceInv(0, routes, Len(routes), SortLoop!Loop(0, <<>>, routes))
  BY Zenon, <1>1, <1>3, <1>4, SortLoop!LoopInvariant, NatSetInduction DEF SortLoop!Induction
<1> DEFINE sorted == SortRoutes(routes)
<1>6. sorted \in Seq(ToSet(routes)) /\ \A a, b \in 1 .. Len(sorted) : a < b => Before(sorted[a], sorted[b])
  BY Zenon, <1>1, <1>2, <1>5 DEF PlaceInv
<1>7. \A i \in 1 .. Len(routes) : \E k \in 1 .. Len(sorted) : sorted[k] = routes[i]
  BY Zenon, <1>2, <1>5 DEF PlaceInv
<1> HIDE DEF sorted
<1>8. IsSlice(sorted) /\ ToSet(sorted) \subseteq ToSet(routes)
  BY Zenon, <1>6, SeqIsSlice
<1>9. ToSet(routes) \subseteq ToSet(sorted)
  BY ZenonT(30), <1>1, <1>7, <1>8, SliceFacts
<1> QED BY Zenon, <1>6, <1>8, <1>9 DEF sorted

-----------------------------------------------------------------------------
(* The policies of a configuration.                                          *)

ApplyStep(env, acc, s) == Apply(acc, s)

ApplyInv(env, seq, n, acc) == TRUE

ApplyLoop == INSTANCE Loops WITH Step <- ApplyStep, Inv <- ApplyInv

(* The blocks in scope of policy <<n, i>>, applied in order. *)
Chain(mc, n, i) ==
  LET d == mc.domains[n]
      domain == Apply(Apply(DefaultPolicy, mc.defaults), d.policy)
  IN  IF i = 0 THEN domain ELSE Apply(domain, d.routes[i].policy)

PolicyOf(mc, n, i) == CompilePolicy(<<n, i>>, DeriveInspect(Chain(mc, n, i)))

ResolvedBy(acc, base, specs) ==
  /\ acc[0] = base
  /\ \A n \in 1 .. Len(specs) : acc[n] = Apply(acc[n - 1], specs[n])
  /\ Resolve(base, specs) = DeriveInspect(acc[Len(specs)])

LEMMA ResolveLoop ==
  ASSUME NEW base, NEW X, NEW specs \in Seq(X)
  PROVE  \E acc : ResolvedBy(acc, base, specs)
<1>1. Resolve(base, specs) = DeriveInspect(ApplyLoop!Loop(0, base, specs))
  BY Zenon DEF Resolve, ApplyLoop!Loop, ApplyStep, FoldLeft
<1>2. ApplyLoop!Induction
  BY Zenon, NatSetInduction DEF ApplyLoop!Induction
<1>3. PICK acc : ApplyLoop!Steps(acc, 0, base, specs)
  BY Zenon, <1>2, ApplyLoop!LoopSteps
<1>4. ResolvedBy(acc, base, specs)
  BY Zenon, <1>1, <1>3 DEF ApplyLoop!Steps, ApplyStep, ResolvedBy
<1> QED BY Zenon, <1>4

LEMMA ResolveDomain ==
  ASSUME NEW base, NEW a, NEW b
  PROVE  Resolve(base, <<a, b>>) = DeriveInspect(Apply(Apply(base, a), b))
<1> DEFINE specs == <<a, b>>
<1>1. specs \in Seq({a, b}) /\ Len(specs) = 2 /\ specs[1] = a /\ specs[2] = b
  OBVIOUS
<1> HIDE DEF specs
<1>2. PICK acc : ResolvedBy(acc, base, specs)
  BY Zenon, <1>1, ResolveLoop
<1>3. acc[1] = Apply(acc[0], a)
  BY <1>1, <1>2 DEF ResolvedBy
<1>4. acc[2] = Apply(acc[1], b)
  BY <1>1, <1>2 DEF ResolvedBy
<1> QED BY Zenon, <1>1, <1>2, <1>3, <1>4 DEF specs, ResolvedBy

LEMMA ResolveRoute ==
  ASSUME NEW base, NEW a, NEW b, NEW c
  PROVE  Resolve(base, <<a, b, c>>) = DeriveInspect(Apply(Apply(Apply(base, a), b), c))
<1> DEFINE specs == <<a, b, c>>
<1>1. specs \in Seq({a, b, c}) /\ Len(specs) = 3 /\ specs[1] = a /\ specs[2] = b /\ specs[3] = c
  OBVIOUS
<1> HIDE DEF specs
<1>2. PICK acc : ResolvedBy(acc, base, specs)
  BY Zenon, <1>1, ResolveLoop
<1>3. acc[1] = Apply(acc[0], a)
  BY <1>1, <1>2 DEF ResolvedBy
<1>4. acc[2] = Apply(acc[1], b)
  BY <1>1, <1>2 DEF ResolvedBy
<1>5. acc[3] = Apply(acc[2], c)
  BY <1>1, <1>2 DEF ResolvedBy
<1> QED BY Zenon, <1>1, <1>2, <1>3, <1>4, <1>5 DEF specs, ResolvedBy

OutFields == {"set", "skip", "order", "headers", "body", "engines"}

(* What the last two steps, DeriveInspect and CompilePolicy, leave alone. *)
ShapedBy(q, p, out, id) ==
  /\ q.id = id /\ q.pipelines = Pipelines(p) /\ q.set = p.set
  /\ \A c \in OutFields \ {"set"} : q[c] = out[c] /\ p[c] = out[c]

LEMMA PolicyShape ==
  ASSUME NEW mc, NEW n, NEW i
  PROVE  ShapedBy(PolicyOf(mc, n, i), DeriveInspect(Chain(mc, n, i)), Chain(mc, n, i), <<n, i>>)
<1> DEFINE out == Chain(mc, n, i)
           p == DeriveInspect(out)
           q == PolicyOf(mc, n, i)
           more == [id |-> <<n, i>>, pipelines |-> Pipelines(p)]
<1>1. DOMAIN out = OutFields
  BY Zenon DEF Chain, Apply, OutFields
<1>2. DOMAIN p = OutFields /\ \A c \in OutFields \ {"set"} : p[c] = out[c]
  <2> HIDE DEF out
  <2> QED BY Zenon, <1>1 DEF DeriveInspect, OutFields
<1>3. q = Over(p, more)
  BY Zenon DEF PolicyOf, CompilePolicy
<1>4. more.id = <<n, i>> /\ more.pipelines = Pipelines(p) /\ DOMAIN more = {"id", "pipelines"}
  BY Zenon
<1> HIDE DEF out, p, q, more
<1>5. \A c \in OutFields : q[c] = p[c]
  BY Zenon, <1>2, <1>3 DEF Over
<1>6. "id" \notin OutFields /\ "pipelines" \notin OutFields /\ "set" \in OutFields
  BY Zenon DEF OutFields
<1>7. q["id"] = more["id"] /\ q["pipelines"] = more["pipelines"]
  BY Zenon, <1>2, <1>3, <1>4, <1>6 DEF Over
<1>8. ShapedBy(q, p, out, <<n, i>>)
  BY Zenon, <1>2, <1>4, <1>5, <1>6, <1>7 DEF ShapedBy
<1> QED BY Zenon, <1>8 DEF out, p, q

(* cd is what the compiler makes of domain n. *)
Compiled(mc, n, cd) ==
  LET d == mc.domains[n]
  IN  /\ cd.n = n /\ cd.default = PolicyOf(mc, n, 0)
      /\ cd.hosts = {CompileHost(d.hosts[i]) : i \in DOMAIN d.hosts}
      /\ IsSlice(cd.routes)
      /\ ToSet(cd.routes) = {[match |-> d.routes[i].match, policy |-> PolicyOf(mc, n, i)] :
                               i \in DOMAIN d.routes}
      /\ \A a, b \in 1 .. Len(cd.routes) : a < b => Before(cd.routes[a], cd.routes[b])

LEMMA DomainCompiled ==
  ASSUME NEW mc, NEW n, DecodedDomain(mc.domains[n])
  PROVE  Compiled(mc, n, CompileDomain(mc, n))
<1> DEFINE d == mc.domains[n]
           cd == CompileDomain(mc, n)
           Route(i) == [match |-> d.routes[i].match, policy |-> PolicyOf(mc, n, i)]
           routes == [i \in DOMAIN d.routes |-> Route(i)]
<1>1. cd.default = PolicyOf(mc, n, 0)
  BY ZenonT(30), ResolveDomain DEF CompileDomain, PolicyOf, Chain
<1>2. IsSlice(d.routes) /\ DOMAIN d.routes = 1 .. Len(d.routes) /\ Len(d.routes) \in Nat
  BY Zenon, SliceFacts DEF DecodedDomain
<1>3. \A i \in DOMAIN d.routes :
        CompilePolicy(<<n, i>>, Resolve(DefaultPolicy, <<mc.defaults, d.policy, d.routes[i].policy>>))
          = PolicyOf(mc, n, i)
  <2>1. \A i \in DOMAIN d.routes : i # 0
    BY SMTT(30), <1>2
  <2> QED BY <2>1, ResolveRoute DEF PolicyOf, Chain
<1>4. cd.routes = SortRoutes(routes)
  BY Zenon, <1>3 DEF CompileDomain
<1>5. IsSlice(routes) /\ ToSet(routes) = {Route(i) : i \in DOMAIN d.routes} /\ Len(routes) = Len(d.routes)
  <2>1. routes \in Seq({Route(i) : i \in DOMAIN d.routes}) /\ Len(routes) = Len(d.routes)
    <3> HIDE DEF Route
    <3> QED BY <1>2
  <2> QED BY ZenonT(30), <2>1, SeqIsSlice DEF ToSet
<1>6. ASSUME NEW i \in 1 .. Len(routes) PROVE IsRoute(routes[i]) /\ routes[i].policy.id[2] = i
  <2>1. routes[i].match = d.routes[i].match /\ routes[i].policy = PolicyOf(mc, n, i)
    BY Zenon, <1>2, <1>5
  <2>2. d.routes[i] \in ToSet(d.routes)
    BY Zenon, <1>2, <1>5, SliceFacts
  <2>3. DecodedMatch(d.routes[i].match)
    BY Zenon, <2>2 DEF DecodedDomain
  <2>4. IsRoute(routes[i])
    <3> DEFINE m == d.routes[i].match
    <3>1. PathKind(m) \in Nat
      BY Zenon DEF PathKind
    <3>2. PathKind(m) = 1 => "prefix" \in DOMAIN m.path
      BY SMTT(30) DEF PathKind
    <3>3. PrefixLen(m) \in Nat
      BY SMTT(30), <2>3, <3>2, SliceFacts DEF PrefixLen, DecodedMatch
    <3> QED BY Zenon, <2>1, <3>1, <3>3 DEF IsRoute
  <2>5. PolicyOf(mc, n, i).id = <<n, i>>
    <3>1. ShapedBy(PolicyOf(mc, n, i), DeriveInspect(Chain(mc, n, i)), Chain(mc, n, i), <<n, i>>)
      BY Zenon, PolicyShape
    <3> QED BY Zenon, <3>1 DEF ShapedBy
  <2>6. <<n, i>>[2] = i
    BY Zenon
  <2> QED BY Zenon, <2>1, <2>4, <2>5, <2>6
<1>7. Numbered(routes)
  BY Zenon, <1>6 DEF Numbered
<1>8. cd.n = n /\ cd.hosts = {CompileHost(d.hosts[i]) : i \in DOMAIN d.hosts}
  BY Zenon DEF CompileDomain
<1> HIDE DEF routes, cd
<1> QED BY ZenonT(30), <1>1, <1>4, <1>5, <1>7, <1>8, RoutesSorted DEF cd, Compiled

-----------------------------------------------------------------------------
(* A directory that validation accepts.                                      *)

Accepted(fs) == \A i \in DOMAIN fs : fs[i].state = "ok" /\ ValidFile(fs[i])

LEMMA ConfigFacts ==
  ASSUME NEW fs \in Configs
  PROVE  /\ IsSlice(Parsed(fs)) /\ \A f \in ToSet(Parsed(fs)) : DecodedFile(f)
         /\ IsSlice(Merge(Parsed(fs)).domains)
         /\ \A d \in ToSet(Merge(Parsed(fs)).domains) :
              DecodedDomain(d) /\ \E f \in ToSet(Parsed(fs)) : d \in ToSet(f.domains)
<1> DEFINE ps == Parsed(fs)
<1>1. IsSlice(fs) /\ \A f \in ToSet(fs) : DecodedFile(f)
  BY Zenon, ConfigsAssumption
<1>2. IsSlice(ps) /\ ToSet(ps) \subseteq ToSet(fs)
  BY <1>1, KeepFacts DEF Parsed
<1> HIDE DEF ps
<1>3. \A f \in ToSet(ps) : DecodedFile(f) /\ IsSlice(f.domains)
  BY Zenon, <1>1, <1>2 DEF DecodedFile
<1>4. /\ IsSlice(Merge(ps).domains)
      /\ \A d \in ToSet(Merge(ps).domains) : \E f \in ToSet(ps) : d \in ToSet(f.domains)
  BY Zenon, <1>2, <1>3, DomainsJoined
<1> QED BY Zenon, <1>2, <1>3, <1>4 DEF DecodedFile, ps

(* The engines of a chain are those of one of its blocks. *)
LEMMA ChainEngines ==
  ASSUME NEW mc, NEW n, NEW i, PolicyOf(mc, n, i).engines # Nil
  PROVE  \/ PolicyOf(mc, n, i).engines = mc.defaults.engines
         \/ PolicyOf(mc, n, i).engines = mc.domains[n].policy.engines
         \/ i # 0 /\ PolicyOf(mc, n, i).engines = mc.domains[n].routes[i].policy.engines
<1>1. PolicyOf(mc, n, i).engines = Chain(mc, n, i).engines
  BY PolicyShape DEF OutFields, ShapedBy
<1> QED BY ZenonT(30), <1>1 DEF Chain, Apply, Or, DefaultPolicy

(* Every engines block a policy uses was validated with the block it is in. *)
LEMMA EnginesValidated ==
  ASSUME NEW fs \in Configs, Accepted(Parsed(fs)),
         NEW mc, mc = Merge(Parsed(fs)),
         NEW n \in DOMAIN mc.domains, NEW i \in {0} \union DOMAIN mc.domains[n].routes,
         NEW e, e = PolicyOf(mc, n, i).engines, e # Nil
  PROVE  ValidEngines(e) /\ ("jwt" \in DOMAIN e => e["jwt"].hmac \in BOOLEAN)
<1> DEFINE ps == Parsed(fs)
           d == mc.domains[n]
           Good(s) == s.engines = e /\ ValidSpec(s) /\ DecodedSpec(s)
<1>0. ASSUME NEW s, Good(s)
      PROVE  ValidEngines(e) /\ ("jwt" \in DOMAIN e => e["jwt"].hmac \in BOOLEAN)
  BY Zenon, <1>0 DEF ValidSpec, DecodedSpec
<1>1. IsSlice(ps) /\ IsSlice(mc.domains) /\ d \in ToSet(mc.domains)
  BY Zenon, ConfigFacts DEF ToSet
<1>2. PICK f \in ToSet(ps) : d \in ToSet(f.domains)
  BY Zenon, <1>1, ConfigFacts
<1>3. DecodedFile(f) /\ ValidFile(f) /\ DecodedDomain(d)
  BY Zenon, <1>1, <1>2, ConfigFacts DEF Accepted, ToSet
<1>4. ValidDomain(d)
  BY Zenon, <1>2, <1>3 DEF ValidFile, ToSet
<1>5. CASE e = mc.defaults.engines
  <2>1. Chosen(Blocks(ps), Len(ps), "engines", mc.defaults.engines)
    BY ZenonT(30), <1>1, DefaultsCombined DEF Combined, Parts
  <2>2. PICK k \in 1 .. Len(ps) : mc.defaults.engines = Blocks(ps)[k].engines
    BY Zenon, <1>5, <2>1 DEF Chosen
  <2>3. ps[k] \in ToSet(ps) /\ k \in DOMAIN ps
    BY Zenon, <1>1, SliceFacts
  <2>4. Blocks(ps)[k] = ps[k].defaults
    BY Zenon, <2>3 DEF Blocks
  <2>5. DecodedFile(ps[k]) /\ ValidFile(ps[k])
    BY Zenon, <2>3, ConfigFacts DEF Accepted
  <2>6. Good(ps[k].defaults)
    BY Zenon, <1>5, <2>2, <2>4, <2>5 DEF DecodedFile, ValidFile
  <2> QED BY Zenon, <1>0, <2>6
<1>6. CASE e = d.policy.engines
  <2>1. Good(d.policy)
    BY Zenon, <1>3, <1>4, <1>6 DEF DecodedDomain, ValidDomain
  <2> QED BY Zenon, <1>0, <2>1
<1>7. CASE i # 0 /\ e = d.routes[i].policy.engines
  <2>1. d.routes[i] \in ToSet(d.routes) /\ i \in DOMAIN d.routes
    BY Zenon, <1>7 DEF ToSet
  <2>2. Good(d.routes[i].policy)
    BY ZenonT(30), <1>3, <1>4, <1>7, <2>1 DEF DecodedDomain, ValidDomain
  <2> QED BY ZenonT(30), <1>0, <2>2
<1>8. \/ e = mc.defaults.engines \/ e = d.policy.engines
      \/ i # 0 /\ e = d.routes[i].policy.engines
  BY ChainEngines
<1> HIDE DEF d
<1> QED BY ZenonT(30), <1>5, <1>6, <1>7, <1>8

(* What validation accepts and the files fit, the constructor builds. *)
LEMMA EngineBuilds ==
  ASSUME NEW name, NEW e, ValidEngine(name, e), name = "jwt" => e.hmac \in BOOLEAN, FilesFit(name, e)
  PROVE  BuildEngine(name, e)
<1>1. CASE name = "jwt"
  BY Zenon, <1>1 DEF ValidEngine, ValidJWT, FilesFit, BuildEngine, BuildJWT, CheckKeyAlgMatch
<1>2. CASE name = "coraza"
  BY Zenon, <1>2 DEF ValidEngine, ValidCoraza, FilesFit, BuildEngine, BuildCoraza, Loads
<1>3. CASE name = "rate_limit"
  BY Zenon, <1>3 DEF ValidEngine, ValidRateLimit, BuildEngine, BuildRateLimit
<1>4. CASE name = "ip_reputation"
  BY Zenon, <1>4 DEF ValidEngine, ValidIPReputation, FilesFit, BuildEngine, BuildIPReputation
<1>5. CASE name = "bot"
  BY Zenon, <1>5 DEF ValidEngine, ValidBot, FilesFit, BuildEngine, BuildBot
<1>6. CASE name = "api_key"
  BY Zenon, <1>6 DEF ValidEngine, ValidAPIKey, FilesFit, BuildEngine, BuildAPIKey, IsInjective
<1>7. CASE name = "http_signature"
  BY Zenon, <1>7 DEF ValidEngine, ValidHTTPSignature, BuildEngine, BuildHTTPSignature
<1>8. CASE name = "jwks"
  BY Zenon, <1>8 DEF ValidEngine, ValidJWKS, FilesFit, BuildEngine, BuildJWKS
<1>9. CASE name = "openapi"
  BY Zenon, <1>9 DEF ValidEngine, ValidOpenAPI, FilesFit, BuildEngine, BuildOpenAPI
<1>10. CASE name \notin {"jwt", "coraza", "rate_limit", "ip_reputation", "bot", "api_key",
                         "http_signature", "jwks", "openapi"}
  BY Zenon, <1>10 DEF BuildEngine
<1> QED BY Zenon, <1>1, <1>2, <1>3, <1>4, <1>5, <1>6, <1>7, <1>8, <1>9, <1>10

-----------------------------------------------------------------------------
(* The invariant of the loader: each phase holds what the functions of the   *)
(* one before it returned.                                                   *)
Ready == phase \in {"merged", "compiled", "failed"}

PInv ==
  /\ files \in Configs
  /\ Ready => /\ merged = Merge(Parsed(files))
              /\ Accepted(Parsed(files)) /\ ValidMerged(merged)
  /\ phase = "compiled" => resolver = CompileResolver(merged)
  /\ phase = "failed" => \E e \in UsedEngines(CompileResolver(merged).all) : ~BuildEngines(e)
  /\ served # Nil => /\ phase = "compiled" /\ served.req \in RequestsOf(files)
                     /\ served.policy = PolicyResolve(resolver, Spell(served.req))

LEMMA PInvAlways == PSpec => []PInv
<1>1. PInit => PInv
  BY Zenon DEF PInit, PInv, Ready
<1>2. ASSUME PInv, [PNext]_pvars PROVE PInv'
  <2>1. CASE Load
    <3> DEFINE fs == Parsed(files)
               mc == Merge(fs)
               ok == Accepted(fs) /\ ValidMerged(mc)
    <3>1. /\ phase = "parsed" /\ phase' = (IF ok THEN "merged" ELSE "rejected")
          /\ merged' = (IF ok THEN mc ELSE Nil)
          /\ files' = files /\ resolver' = resolver /\ served' = served
      BY Zenon, <2>1 DEF Load, Accepted
    <3>2. served = Nil
      BY Zenon, <1>2, <3>1 DEF PInv
    <3> HIDE DEF fs, mc, ok
    <3>3. CASE ok
      BY Zenon, <1>2, <3>1, <3>2, <3>3 DEF PInv, Ready, fs, mc, ok
    <3>4. CASE ~ok
      BY <1>2, <3>1, <3>2, <3>4 DEF PInv, Ready
    <3> QED BY Zenon, <3>3, <3>4
  <2>2. CASE Compile
    <3> DEFINE r == CompileResolver(merged)
               ok == \A e \in UsedEngines(r.all) : BuildEngines(e)
    <3>1. /\ phase = "merged" /\ phase' = (IF ok THEN "compiled" ELSE "failed")
          /\ resolver' = (IF ok THEN r ELSE Nil)
          /\ files' = files /\ merged' = merged /\ served' = served
      BY Zenon, <2>2 DEF Compile
    <3>2. served = Nil /\ Ready
      BY Zenon, <1>2, <3>1 DEF PInv, Ready
    <3>3. CASE ok
      <4> HIDE DEF ok
      <4> QED BY SMTT(30), <1>2, <3>1, <3>2, <3>3 DEF PInv, Ready
    <3>4. CASE ~ok
      <4>1. PICK e \in UsedEngines(r.all) : ~BuildEngines(e)
        BY Zenon, <3>4
      <4>2. phase' = "failed"
        BY Zenon, <3>1, <3>4
      <4> HIDE DEF ok
      <4> QED BY <1>2, <3>1, <3>2, <4>1, <4>2 DEF PInv, Ready
    <3> QED BY Zenon, <3>3, <3>4
  <2>3. ASSUME NEW req \in RequestsOf(files), Serve(req) PROVE PInv'
    BY Zenon, <1>2, <2>3 DEF PInv, Ready, Serve
  <2>4. CASE UNCHANGED pvars
    BY Zenon, <1>2, <2>4 DEF PInv, Ready, pvars
  <2> QED BY <1>2, <2>1, <2>2, <2>3, <2>4 DEF PNext
<1> QED BY <1>1, <1>2, PTL DEF PSpec

LEMMA AllCompiled ==
  ASSUME NEW mc
  PROVE  CompileResolver(mc).all = [n \in DOMAIN mc.domains |-> CompileDomain(mc, n)]
BY Zenon DEF CompileResolver

(* A directory that validation accepts compiles, unless a file, a URL, an    *)
(* inline rule or a repeated key is to blame, for any directory: validateSpec *)
(* and the constructors of the engines agree.                                *)
THEOREM AcceptanceSuffices == PSpec => []AcceptedBuilds
<1>1. ASSUME PInv PROVE AcceptedBuilds
  <2> SUFFICES ASSUME phase = "failed"
               PROVE  \E e \in UsedEngines(CompileResolver(merged).all) :
                        \E name \in DOMAIN e : ~FilesFit(name, e[name])
    BY Zenon, AllCompiled DEF AcceptedBuilds
  <2>1. files \in Configs /\ merged = Merge(Parsed(files)) /\ Accepted(Parsed(files))
    BY Zenon, <1>1 DEF PInv, Ready
  <2>2. PICK e \in UsedEngines(CompileResolver(merged).all) : ~BuildEngines(e)
    BY Zenon, <1>1 DEF PInv
  <2> DEFINE doms == [n \in DOMAIN merged.domains |-> CompileDomain(merged, n)]
  <2> DEFINE Policies(cd) == {cd.default} \union {cd.routes[i].policy : i \in DOMAIN cd.routes}
  <2>3. PICK cd \in ToSet(doms) : \E p \in Policies(cd) : e = p.engines /\ e # Nil
    BY AllCompiled DEF UsedEngines
  <2>4. PICK p \in Policies(cd) : e = p.engines /\ e # Nil
    BY Zenon, <2>3
  <2>5. PICK n \in DOMAIN merged.domains : cd = CompileDomain(merged, n)
    BY Zenon DEF ToSet
  <2>6. DecodedDomain(merged.domains[n])
    <3>1. merged.domains[n] \in ToSet(merged.domains)
      BY Zenon DEF ToSet
    <3> QED BY Zenon, <2>1, <3>1, ConfigFacts
  <2>7. PICK i \in {0} \union DOMAIN merged.domains[n].routes : p = PolicyOf(merged, n, i)
    <3>0. Compiled(merged, n, cd)
      BY Zenon, <2>5, <2>6, DomainCompiled
    <3>1. CASE p = cd.default
      BY Zenon, <3>0, <3>1 DEF Compiled
    <3>2. CASE \E k \in DOMAIN cd.routes : p = cd.routes[k].policy
      <4>1. PICK k \in DOMAIN cd.routes : p = cd.routes[k].policy
        BY Zenon, <3>2
      <4>2. cd.routes[k] \in ToSet(cd.routes)
        BY Zenon DEF ToSet
      <4>3. PICK i \in DOMAIN merged.domains[n].routes :
              cd.routes[k] = [match |-> merged.domains[n].routes[i].match, policy |-> PolicyOf(merged, n, i)]
        <5>1. ToSet(cd.routes) = {[match |-> merged.domains[n].routes[i].match, policy |-> PolicyOf(merged, n, i)] :
                                    i \in DOMAIN merged.domains[n].routes}
          BY ZenonT(30), <3>0 DEF Compiled
        <5> QED BY Zenon, <4>2, <5>1
      <4>4. p = PolicyOf(merged, n, i)
        BY SMTT(30), <4>1, <4>3
      <4> QED BY Zenon, <4>4
    <3> QED BY Zenon, <2>4, <3>1, <3>2
  <2>8. ValidEngines(e) /\ ("jwt" \in DOMAIN e => e["jwt"].hmac \in BOOLEAN)
    BY Zenon, <2>1, <2>4, <2>7, EnginesValidated
  <2>9. PICK name \in DOMAIN e : ~BuildEngine(name, e[name])
    BY Zenon, <2>2 DEF BuildEngines
  <2>10. ~FilesFit(name, e[name])
    BY Zenon, <2>8, <2>9, EngineBuilds DEF ValidEngines
  <2> QED BY Zenon, <2>10
<1> QED BY <1>1, PInvAlways, PTL

-----------------------------------------------------------------------------
(* Resolver.Resolve: the domain with the highest score.                      *)

(* What validation and the decoder leave of the hosts of a domain. *)
GoodHost(h) ==
  h.kind \in {"exact", "sub", "all"} /\ IsSlice(h.labels) /\ Len(h.labels) < HostExactScore

LEMMA ExactScore == HostExactScore \in Nat /\ HostExactScore > 0
BY SMT DEF HostExactScore

LEMMA SpecificityFacts ==
  ASSUME NEW d, \A h \in d.hosts : GoodHost(h), NEW host
  PROVE  LET s == Specificity(d, host)
             hits == {h \in d.hosts : HostMatch(h, host)}
         IN  /\ s \in Int
             /\ hits = {} => s = -1
             /\ hits # {} => \E h \in hits : s = HostSpecificity(h)
             /\ \A h \in hits : s >= HostSpecificity(h) /\ HostSpecificity(h) >= 0
<1> DEFINE hits == {h \in d.hosts : HostMatch(h, host)}
           scores == {HostSpecificity(h) : h \in hits}
           s == Specificity(d, host)
<1>1. ASSUME NEW h \in d.hosts PROVE HostSpecificity(h) \in 0 .. HostExactScore
  <2>1. GoodHost(h) /\ Len(h.labels) \in Nat
    BY Zenon, SliceFacts DEF GoodHost
  <2> QED BY <2>1, ExactScore DEF GoodHost, HostSpecificity
<1>2. s = IF scores = {} THEN -1 ELSE Max(scores)
  BY Zenon DEF Specificity
<1>3. scores \in SUBSET (0 .. HostExactScore) /\ HostExactScore \in Nat
  BY Zenon, <1>1, ExactScore
<1>4. scores = {} <=> hits = {}
  BY Zenon
<1>5. scores # {} => Max(scores) \in scores /\ \A x \in scores : x <= Max(scores)
  <2> HIDE DEF scores
  <2> QED BY Zenon, <1>3, MaxFacts
<1> HIDE DEF s
<1>6. CASE hits = {}
  BY <1>2, <1>4, <1>6 DEF s
<1>7. CASE hits # {}
  <2>1. s = Max(scores) /\ s \in scores /\ \A x \in scores : x <= s
    BY Zenon, <1>2, <1>4, <1>5, <1>7
  <2>2. s \in 0 .. HostExactScore
    BY <1>3, <2>1
  <2>3. \A h \in hits : HostSpecificity(h) <= s /\ HostSpecificity(h) \in 0 .. HostExactScore
    BY Zenon, <1>1, <2>1
  <2>4. \A h \in hits : s >= HostSpecificity(h) /\ HostSpecificity(h) >= 0
    BY <1>3, <2>2, <2>3
  <2>5. \E h \in hits : s = HostSpecificity(h)
    BY Zenon, <2>1
  <2>6. s \in Int
    BY <2>2, ExactScore
  <2> QED BY Zenon, <1>7, <2>4, <2>5, <2>6 DEF s
<1> QED BY <1>6, <1>7

ScanStep(env, b, d) ==
  IF Specificity(d, env.host) > b.score THEN [score |-> Specificity(d, env.host), dom |-> d] ELSE b

ScanInv(env, seq, n, acc) ==
  /\ acc.score \in Int
  /\ \A k \in 1 .. n : Specificity(seq[k], env.host) <= acc.score
  /\ \/ acc = env.best
     \/ \E k \in 1 .. n : /\ acc = [score |-> Specificity(seq[k], env.host), dom |-> seq[k]]
                          /\ acc.score > env.best.score

ScanLoop == INSTANCE Loops WITH Step <- ScanStep, Inv <- ScanInv

LEMMA ScanFacts ==
  ASSUME NEW best, NEW doms, IsSlice(doms), NEW host, best.score \in Int,
         \A d \in ToSet(doms) : Specificity(d, host) \in Int
  PROVE  LET acc == Scan(best, doms, host)
         IN  /\ acc.score \in Int /\ acc.score >= best.score
             /\ \A d \in ToSet(doms) : Specificity(d, host) <= acc.score
             /\ \/ acc = best
                \/ \E d \in ToSet(doms) : /\ acc = [score |-> Specificity(d, host), dom |-> d]
                                          /\ acc.score > best.score
<1> DEFINE env == [best |-> best, host |-> host]
           S(d) == Specificity(d, host)
           acc == Scan(best, doms, host)
<1>1. /\ doms \in Seq(ToSet(doms)) /\ Len(doms) \in Nat /\ DOMAIN doms = 1 .. Len(doms)
      /\ ToSet(doms) = {doms[k] : k \in 1 .. Len(doms)}
  BY Zenon, SliceFacts DEF ToSet
<1>2. acc = ScanLoop!Loop(env, best, doms)
  BY Zenon DEF Scan, ScanLoop!Loop, ScanStep, FoldLeft
<1>3. ScanInv(env, doms, 0, best)
  BY DEF ScanInv
<1>4. ASSUME NEW n \in 1 .. Len(doms), NEW b, ScanInv(env, doms, n - 1, b)
      PROVE  ScanInv(env, doms, n, ScanStep(env, b, doms[n]))
  <2> DEFINE m == n - 1
  <2>1. m \in Nat /\ n = m + 1 /\ 1 .. n = (1 .. m) \union {n} /\ S(doms[n]) \in Int
    BY <1>1
  <2>2. /\ b.score \in Int /\ \A k \in 1 .. m : S(doms[k]) <= b.score /\ S(doms[k]) \in Int
        /\ \/ b = best
           \/ \E k \in 1 .. m : b = [score |-> S(doms[k]), dom |-> doms[k]] /\ b.score > best.score
    BY <1>1, <1>4 DEF ScanInv
  <2>3. b.score >= best.score
    BY <2>2
  <2>4. CASE S(doms[n]) > b.score
    <3> DEFINE new == [score |-> S(doms[n]), dom |-> doms[n]]
    <3>1. ScanStep(env, b, doms[n]) = new
      BY Zenon, <2>4 DEF ScanStep
    <3>2. new.score = S(doms[n]) /\ new.score > best.score
      BY <2>1, <2>2, <2>3, <2>4
    <3>3. \A k \in 1 .. n : S(doms[k]) <= new.score
      BY <2>1, <2>2, <2>4, <3>2
    <3> QED BY <2>1, <3>1, <3>2, <3>3 DEF ScanInv
  <2>5. CASE ~(S(doms[n]) > b.score)
    <3>1. ScanStep(env, b, doms[n]) = b
      BY <2>5 DEF ScanStep
    <3>2. \A k \in 1 .. n : S(doms[k]) <= b.score
      BY <2>1, <2>2, <2>5
    <3> QED BY <2>1, <2>2, <3>1, <3>2 DEF ScanInv
  <2> QED BY <2>4, <2>5
<1> HIDE DEF env, acc
<1>5. ScanInv(env, doms, Len(doms), acc)
  BY SMTT(30), <1>1, <1>2, <1>3, <1>4, ScanLoop!LoopInvariant, NatSetInduction DEF ScanLoop!Induction
<1>6. /\ acc.score \in Int /\ \A d \in ToSet(doms) : S(d) <= acc.score
      /\ \/ acc = best
         \/ \E d \in ToSet(doms) : acc = [score |-> S(d), dom |-> d] /\ acc.score > best.score
  BY Zenon, <1>1, <1>5 DEF ScanInv, env
<1> QED BY <1>6 DEF acc

(* The index of the resolver misses no domain that claims the host. *)
LEMMA BestFacts ==
  ASSUME NEW mc, IsSlice(mc.domains), NEW host,
         \A n \in DOMAIN mc.domains : \A h \in CompileDomain(mc, n).hosts : GoodHost(h)
  PROVE  LET best == BestDomain(CompileResolver(mc), host)
         IN  /\ best.score \in Int
             /\ \A n \in DOMAIN mc.domains : Specificity(CompileDomain(mc, n), host) <= best.score
             /\ \/ best = NoDomain
                \/ \E n \in DOMAIN mc.domains :
                     /\ best = [score |-> Specificity(CompileDomain(mc, n), host), dom |-> CompileDomain(mc, n)]
                     /\ best.score > -1
<1> DEFINE r == CompileResolver(mc)
           doms == [n \in DOMAIN mc.domains |-> CompileDomain(mc, n)]
           key == NormalizeHost(host).labels
           S(d) == Specificity(d, host)
           W == {d \in ToSet(doms) : ~AllExact(d)}
           E(labels) == {d \in ToSet(doms) : AllExact(d) /\ \E h \in d.hosts : h.labels = labels}
           L == {h.labels : h \in UNION {d.hosts : d \in {x \in ToSet(doms) : AllExact(x)}}}
           ex == IF key \in DOMAIN r.exact THEN Scan(NoDomain, r.exact[key], host) ELSE NoDomain
           best == Scan(ex, r.wildcard, host)
<1>1. IsSlice(doms) /\ ToSet(doms) = {CompileDomain(mc, n) : n \in DOMAIN mc.domains}
  <2>1. mc.domains \in Seq(ToSet(mc.domains)) /\ DOMAIN mc.domains = 1 .. Len(mc.domains)
        /\ Len(mc.domains) \in Nat
    BY Zenon, SliceFacts
  <2>2. ToSet(doms) = {CompileDomain(mc, n) : n \in DOMAIN mc.domains}
    BY Zenon DEF ToSet
  <2>3. doms \in Seq(ToSet(doms))
    BY <2>1, <2>2
  <2> QED BY <2>2, <2>3 DEF IsSlice
<1>2. ASSUME NEW d \in ToSet(doms)
      PROVE  /\ S(d) \in Int /\ \A h \in d.hosts : GoodHost(h)
             /\ ~(S(d) <= -1) => \E h \in d.hosts : HostMatch(h, host)
  <2>1. \A h \in d.hosts : GoodHost(h)
    BY Zenon, <1>1
  <2> QED BY <2>1, SpecificityFacts
<1>3. r.wildcard = Keep(doms, W) /\ r.exact = [labels \in L |-> Keep(doms, E(labels))]
  BY Zenon DEF CompileResolver
<1> HIDE DEF doms, r, L
<1>4. IsSlice(r.wildcard) /\ ToSet(r.wildcard) = W
  <2>1. r.wildcard = Keep(doms, W)
    BY Zenon, <1>3
  <2>2. ToSet(doms) \cap W = W
    BY Zenon
  <2> HIDE DEF W
  <2> QED BY Zenon, <1>1, <2>1, <2>2, KeepFacts
<1>5. key \in DOMAIN r.exact => IsSlice(r.exact[key]) /\ ToSet(r.exact[key]) = E(key)
  <2> SUFFICES ASSUME key \in DOMAIN r.exact PROVE IsSlice(r.exact[key]) /\ ToSet(r.exact[key]) = E(key)
    BY Zenon
  <2>1. r.exact[key] = Keep(doms, E(key))
    BY ZenonT(30), <1>3
  <2>2. ToSet(doms) \cap E(key) = E(key)
    BY Zenon
  <2> HIDE DEF E
  <2> QED BY Zenon, <1>1, <2>1, <2>2, KeepFacts
<1>6. NoDomain.score = -1
  BY Zenon DEF NoDomain
<1>7. /\ ex.score \in Int /\ ex.score >= -1
      /\ key \in DOMAIN r.exact => \A d \in E(key) : S(d) <= ex.score
      /\ \/ ex = NoDomain
         \/ \E d \in ToSet(doms) : ex = [score |-> S(d), dom |-> d] /\ ex.score > -1
  <2>1. CASE key \in DOMAIN r.exact
    <3> DEFINE list == r.exact[key]
               acc == Scan(NoDomain, list, host)
    <3>1. IsSlice(list) /\ ToSet(list) = E(key) /\ ToSet(list) \subseteq ToSet(doms)
      BY <1>5, <2>1
    <3>2. \A d \in ToSet(list) : S(d) \in Int
      BY SMTT(30), <1>2, <3>1
    <3> HIDE DEF list
    <3>3. /\ acc.score \in Int /\ acc.score >= -1
          /\ \A d \in ToSet(list) : S(d) <= acc.score
          /\ \/ acc = NoDomain
             \/ \E d \in ToSet(list) : acc = [score |-> S(d), dom |-> d] /\ acc.score > -1
      BY <1>6, <3>1, <3>2, ScanFacts
    <3>4. ex = acc
      BY Zenon, <2>1 DEF list
    <3> HIDE DEF ex, acc, E, S
    <3> QED BY SMTT(30), <3>1, <3>3, <3>4
  <2>2. CASE key \notin DOMAIN r.exact
    <3>1. ex = NoDomain
      BY Zenon, <2>2
    <3> HIDE DEF ex
    <3> QED BY <1>6, <2>2, <3>1
  <2> QED BY <2>1, <2>2
<1>8. ASSUME NEW d \in ToSet(doms), AllExact(d) PROVE S(d) <= ex.score
  <2>1. CASE S(d) <= -1
    <3> HIDE DEF ex
    <3> QED BY <1>2, <1>7, <2>1
  <2>2. CASE ~(S(d) <= -1)
    <3>1. PICK h \in d.hosts : HostMatch(h, host)
      BY <1>2, <2>2
    <3>2. h.kind = "exact"
      BY <1>8 DEF AllExact
    <3>3. key = h.labels
      BY <3>1, <3>2 DEF HostMatch
    <3>4. key \in L /\ d \in E(key)
      BY <1>8, <3>3 DEF L
    <3>5. key \in DOMAIN r.exact
      BY SMTT(30), <1>3, <3>4
    <3> HIDE DEF ex, E
    <3> QED BY Zenon, <1>7, <3>4, <3>5
  <2> QED BY <2>1, <2>2
<1> HIDE DEF ex
<1>9. /\ best.score \in Int /\ best.score >= ex.score
      /\ \A d \in W : S(d) <= best.score
      /\ \/ best = ex
         \/ \E d \in W : best = [score |-> S(d), dom |-> d] /\ best.score > ex.score
  <2>1. \A d \in ToSet(r.wildcard) : S(d) \in Int
    BY <1>2, <1>4
  <2> HIDE DEF W
  <2> QED BY SMTT(30), <1>4, <1>7, <2>1, ScanFacts
<1>10. BestDomain(r, host) = best
  BY Zenon DEF BestDomain, ex
<1> HIDE DEF best
<1>11. \A d \in ToSet(doms) : S(d) <= best.score
  <2>1. ASSUME NEW d \in ToSet(doms), AllExact(d) PROVE S(d) <= best.score
    BY SMTT(30), <1>2, <1>7, <1>8, <1>9, <2>1
  <2>2. ASSUME NEW d \in ToSet(doms), ~AllExact(d) PROVE S(d) <= best.score
    BY Zenon, <1>9, <2>2
  <2> QED BY <2>1, <2>2
<1>12. \/ best = NoDomain
       \/ \E d \in ToSet(doms) : best = [score |-> S(d), dom |-> d] /\ best.score > -1
  <2>1. CASE best = ex
    BY <1>7, <2>1
  <2>2. CASE \E d \in W : best = [score |-> S(d), dom |-> d] /\ best.score > ex.score
    <3>1. best.score > -1
      BY SMTT(30), <1>7, <1>9, <2>2
    <3> QED BY SMTT(30), <2>2, <3>1
  <2> QED BY SMTT(30), <1>9, <2>1, <2>2
<1> QED BY SMTT(30), <1>1, <1>9, <1>10, <1>11, <1>12 DEF r

(* The hosts of an accepted directory. *)
LEMMA HostsGood ==
  ASSUME NEW fs \in Configs, Accepted(Parsed(fs))
  PROVE  LET mc == Merge(Parsed(fs))
         IN  /\ \A n \in DOMAIN mc.domains : \A i \in DOMAIN mc.domains[n].hosts : GoodHost(mc.domains[n].hosts[i])
             /\ \A n \in DOMAIN mc.domains : \A h \in CompileDomain(mc, n).hosts : GoodHost(h)
<1> DEFINE mc == Merge(Parsed(fs))
<1> HIDE DEF mc
<1>1. ASSUME NEW n \in DOMAIN mc.domains, NEW i \in DOMAIN mc.domains[n].hosts
      PROVE  GoodHost(mc.domains[n].hosts[i])
  <2> DEFINE d == mc.domains[n]
             h == d.hosts[i]
  <2>1. d \in ToSet(mc.domains) /\ h \in ToSet(d.hosts)
    BY Zenon DEF ToSet
  <2>2. DecodedDomain(d) /\ \E f \in ToSet(Parsed(fs)) : d \in ToSet(f.domains)
    BY <2>1, ConfigFacts DEF mc
  <2>3. ValidDomain(d)
    BY <2>2 DEF ToSet, Accepted, ValidFile
  <2> HIDE DEF d, h
  <2>4. h.kind \in {"exact", "sub", "all"}
    BY Zenon, <2>3 DEF ValidDomain, ValidHost, h, d
  <2>5. IsSlice(h.labels) /\ Len(h.labels) < HostExactScore
    BY SMTT(30), <2>1, <2>2 DEF DecodedDomain
  <2> QED BY <2>4, <2>5 DEF GoodHost, h, d
<1>2. ASSUME NEW n \in DOMAIN mc.domains, NEW h \in CompileDomain(mc, n).hosts
      PROVE  GoodHost(h)
  <2> DEFINE d == mc.domains[n]
  <2>1. CompileDomain(mc, n).hosts = {CompileHost(d.hosts[i]) : i \in DOMAIN d.hosts}
    BY Zenon DEF CompileDomain
  <2>2. PICK i \in DOMAIN d.hosts : h = CompileHost(d.hosts[i])
    BY Zenon, <2>1
  <2>3. h.kind = d.hosts[i].kind /\ h.labels = d.hosts[i].labels
    BY Zenon, <2>2 DEF CompileHost
  <2> QED BY <1>1, <2>3 DEF GoodHost
<1> QED BY SMTT(30), <1>1, <1>2 DEF mc


-----------------------------------------------------------------------------
(* The scopes of a policy.                                                   *)

ScopesAre(scopes, n, ps, d, i) ==
  /\ n = Len(ps) /\ n \in Nat /\ Len(scopes) = (IF i = 0 THEN n + 1 ELSE n + 2)
  /\ scopes \in Seq(ToSet(scopes)) /\ DOMAIN scopes = 1 .. Len(scopes)
  /\ \A k \in 1 .. n : scopes[k] = Blocks(ps)[k]
  /\ scopes[n + 1] = d.policy
  /\ i # 0 => scopes[n + 2] = d.routes[i].policy

LEMMA ScopesKnown ==
  ASSUME IsSlice(Parsed(files)), NEW n, NEW i
  PROVE  ScopesAre(ScopesOf(<<n, i>>), Len(Parsed(files)), Parsed(files), merged.domains[n], i)
<1> DEFINE ps == Parsed(files)
           d == merged.domains[n]
           r == d.routes[i].policy
           N == Len(ps)
           b == Blocks(ps)
           X == {b[k] : k \in 1 .. N} \union {d.policy, r}
           p == d.policy
           scopes == ScopesOf(<<n, i>>)
<1>1. N \in Nat /\ DOMAIN ps = 1 .. N
  BY Zenon, SliceFacts
<1>2. b \in Seq(X) /\ Len(b) = N
  BY <1>1 DEF Blocks
<1>3. <<n, i>>[1] = n /\ <<n, i>>[2] = i
  BY Zenon
<1>4. scopes = b \o <<p>> \o (IF i = 0 THEN <<>> ELSE <<r>>)
  BY <1>3 DEF ScopesOf, Blocks
<1>5. p \in X /\ r \in X
  BY Zenon
<1> HIDE DEF ps, r, p, X, b, N, scopes
<1> SUFFICES ScopesAre(scopes, N, ps, d, i)
  BY Zenon DEF scopes, N, ps
<1>6. CASE i = 0
  <2>1. scopes = b \o <<p>>
    BY <1>2, <1>4, <1>5, <1>6
  <2>2. /\ scopes \in Seq(X) /\ Len(scopes) = N + 1 /\ scopes[N + 1] = p
        /\ \A k \in 1 .. N : scopes[k] = b[k]
    BY <1>1, <1>2, <1>5, <2>1
  <2>3. IsSlice(scopes)
    BY Zenon, <2>2, SeqIsSlice
  <2> QED BY <1>1, <1>6, <2>2, <2>3, SliceFacts DEF ScopesAre, N, p, b
<1>7. CASE i # 0
  <2>1. scopes = (b \o <<p>>) \o <<r>>
    BY <1>4, <1>7
  <2>2. <<r>> \in Seq(X) /\ Len(<<r>>) = 1 /\ <<r>>[1] = r
    BY <1>5
  <2>3. /\ scopes \in Seq(X) /\ Len(scopes) = N + 2 /\ scopes[N + 1] = p
        /\ \A k \in 1 .. N : scopes[k] = b[k]
    <3> DEFINE t == <<r>>
    <3> HIDE DEF t
    <3>1. /\ (b \o <<p>>) \o t \in Seq(X) /\ Len((b \o <<p>>) \o t) = Len(b) + 1 + Len(t)
          /\ ((b \o <<p>>) \o t)[Len(b) + 1] = p
          /\ \A k \in 1 .. Len(b) : ((b \o <<p>>) \o t)[k] = b[k]
      BY <1>2, <1>5, <2>2, Sandwich DEF t
    <3>2. scopes = (b \o <<p>>) \o t /\ Len(t) = 1
      BY Zenon, <2>1, <2>2 DEF t
    <3> QED BY <1>1, <1>2, <3>1, <3>2
  <2>4. scopes[N + 2] = r
    <3> DEFINE w == b \o <<p>>
    <3>1. w \in Seq(X) /\ Len(w) = N + 1
      BY <1>1, <1>2, <1>5
    <3> HIDE DEF w
    <3>2. (w \o <<r>>)[Len(w) + 1] = r
      BY <1>5, <3>1
    <3> QED BY <1>1, <2>1, <3>1, <3>2 DEF w
  <2>5. IsSlice(scopes)
    BY Zenon, <2>3, SeqIsSlice
  <2> QED BY <1>1, <1>7, <2>3, <2>4, <2>5, SliceFacts DEF ScopesAre, N, p, b, r
<1> QED BY <1>6, <1>7

(* The parts and fields of the combined blocks, over all the scopes. *)
LastDecides(scopes, out) ==
  /\ \A c \in {"headers", "body", "engines"} : Chosen(scopes, Len(scopes), c, out[c])
  /\ \A field : FieldChosen(scopes, Len(scopes), field, DefaultPolicy.set, out.set)
  /\ out.skip = UNION {scopes[k].skip : k \in DOMAIN scopes}

LEMMA ChainChosen ==
  ASSUME NEW mc, NEW m, NEW i, NEW ps, IsSlice(ps), mc.defaults = Merge(ps).defaults,
         NEW scopes, NEW n, ScopesAre(scopes, n, ps, mc.domains[m], i)
  PROVE  LastDecides(scopes, Chain(mc, m, i))
<1> DEFINE d == mc.domains[m]
           Cs == {"headers", "body", "engines"}
           out1 == Apply(DefaultPolicy, mc.defaults)
           out2 == Apply(out1, d.policy)
           out3 == Apply(out2, d.routes[i].policy)
           Good(k, out) ==
             /\ \A c \in Cs : Chosen(scopes, k, c, out[c])
             /\ \A field : FieldChosen(scopes, k, field, DefaultPolicy.set, out.set)
             /\ out.skip = UNION {scopes[l].skip : l \in 1 .. k}
<1>1. n \in Nat /\ n = Len(ps) /\ \A k \in 1 .. n : scopes[k] = Blocks(ps)[k]
  BY Zenon DEF ScopesAre
<1>2. Combined(Blocks(ps), n, mc.defaults)
  BY <1>1, DefaultsCombined
<1>3. Good(n, out1)
  <2>1. /\ \A c \in Cs : out1[c] = mc.defaults[c]
        /\ out1.set = Over(mc.defaults.set, DefaultPolicy.set)
        /\ out1.skip = mc.defaults.skip
    <3>1. DefaultPolicy.skip = {} /\ \A c \in Cs : DefaultPolicy[c] = Nil
      BY DEF DefaultPolicy
    <3> QED BY <3>1 DEF Apply, Or
  <2> HIDE DEF out1
  <2>2. \A c \in Cs : Chosen(scopes, n, c, out1[c])
    BY <1>1, <1>2, <2>1 DEF Combined, Chosen, Parts
  <2>3. out1.skip = UNION {scopes[l].skip : l \in 1 .. n}
    BY <1>1, <1>2, <2>1 DEF Combined
  <2>4. ASSUME NEW field PROVE FieldChosen(scopes, n, field, DefaultPolicy.set, out1.set)
    <3> DEFINE base == DefaultPolicy.set
               set == mc.defaults.set
    <3>1. FieldChosen(scopes, n, field, EmptySpec.set, set)
      BY <1>1, <1>2 DEF Combined, FieldChosen
    <3>2. field \notin DOMAIN EmptySpec.set
      BY Zenon DEF EmptySpec
    <3> HIDE DEF base, set
    <3>3. FieldChosen(scopes, n, field, base, Over(set, base))
      BY Zenon, <3>1, <3>2 DEF FieldChosen, Over
    <3> QED BY <2>1, <3>3 DEF base, set
  <2> QED BY <2>2, <2>3, <2>4
<1>4. ASSUME NEW k \in Nat, NEW out, Good(k, out), NEW s, s = scopes[k + 1]
      PROVE  Good(k + 1, Apply(out, s))
  <2> DEFINE new == Apply(out, s)
  <2>1. /\ \A c \in Cs : new[c] = Or(s[c], out[c])
        /\ new.set = Over(s.set, out.set)
        /\ new.skip = out.skip \union s.skip
    BY DEF Apply
  <2> HIDE DEF new
  <2>2. \A c \in Cs : Chosen(scopes, k + 1, c, new[c])
    BY <1>4, <2>1, ChosenStep
  <2>3. \A field : FieldChosen(scopes, k + 1, field, DefaultPolicy.set, new.set)
    BY <1>4, <2>1, FieldStep
  <2>4. 1 .. k + 1 = (1 .. k) \union {k + 1}
    OBVIOUS
  <2>5. new.skip = UNION {scopes[l].skip : l \in 1 .. k + 1}
    BY <1>4, <2>1, <2>4
  <2> QED BY <2>2, <2>3, <2>5 DEF new
<1> HIDE DEF Good
<1>5. Good(n + 1, out2)
  BY Zenon, <1>1, <1>3, <1>4 DEF ScopesAre
<1>6. CASE i = 0
  <2>1. Chain(mc, m, i) = out2 /\ Len(scopes) = n + 1 /\ DOMAIN scopes = 1 .. n + 1
    BY Zenon, <1>6 DEF Chain, ScopesAre
  <2> QED BY Zenon, <1>5, <2>1 DEF Good, LastDecides
<1>7. CASE i # 0
  <2>1. Chain(mc, m, i) = out3 /\ Len(scopes) = n + 2 /\ DOMAIN scopes = 1 .. n + 2
    BY Zenon, <1>7 DEF Chain, ScopesAre
  <2>2. n + 1 \in Nat /\ (n + 1) + 1 = n + 2 /\ d.routes[i].policy = scopes[(n + 1) + 1]
    BY <1>1, <1>7 DEF ScopesAre
  <2> HIDE DEF out2
  <2>3. Good((n + 1) + 1, out3)
    BY Zenon, <1>4, <1>5, <2>2
  <2> HIDE DEF out3
  <2> QED BY <2>1, <2>2, <2>3 DEF Good, LastDecides
<1> QED BY Zenon, <1>6, <1>7

(* The order of a direction, over all the scopes. *)
OrderFrom(order, scopes, at, dir) ==
  order = IF at = 0 THEN Nil ELSE scopes[at].pipeline[dir]

LEMMA ChainOrder ==
  ASSUME NEW mc, NEW m, NEW i, NEW ps, IsSlice(ps), mc.defaults = Merge(ps).defaults,
         NEW scopes, NEW n, ScopesAre(scopes, n, ps, mc.domains[m], i), NEW dir \in Directions
  PROVE  OrderFrom(Chain(mc, m, i).order[dir], scopes, OrderScope(scopes, n, dir), dir)
<1> DEFINE d == mc.domains[m]
           L == Len(scopes)
           out1 == Apply(DefaultPolicy, mc.defaults)
           out2 == Apply(out1, d.policy)
           out3 == Apply(out2, d.routes[i].policy)
           sets(k) == scopes[k].pipeline # Nil /\ scopes[k].pipeline[dir] # Nil
           F == {0} \union {k \in 1 .. n : scopes[k].pipeline # Nil}
           M == {0} \union {k \in 1 .. L : sets(k)}
           file == Max(F)
           narrow == Max(M)
<1>1. /\ n \in Nat /\ L \in Nat /\ DOMAIN scopes = 1 .. L /\ scopes \in Seq(ToSet(scopes))
      /\ n = Len(ps) /\ L = (IF i = 0 THEN n + 1 ELSE n + 2)
      /\ \A k \in 1 .. n : scopes[k] = Blocks(ps)[k]
      /\ d.policy = scopes[n + 1] /\ (i # 0 => d.routes[i].policy = scopes[n + 2])
  BY DEF ScopesAre
<1>2. OrderScope(scopes, n, dir) =
        IF narrow > n THEN narrow
        ELSE IF file = 0 \/ scopes[file].pipeline[dir] = Nil THEN 0 ELSE file
  <2> DEFINE sub == SubSeq(scopes, 1, n)
  <2>1. DOMAIN sub = 1 .. n /\ \A k \in 1 .. n : sub[k] = scopes[k]
    BY <1>1
  <2> HIDE DEF sub
  <2>2. F = {0} \union {k \in DOMAIN sub : sub[k].pipeline # Nil}
    BY Zenon, <2>1
  <2>3. M = {0} \union {k \in DOMAIN scopes : scopes[k].pipeline # Nil /\ scopes[k].pipeline[dir] # Nil}
    BY Zenon, <1>1
  <2> HIDE DEF F, M
  <2> QED BY Zenon, <2>2, <2>3 DEF OrderScope, LastThat, sub
<1>3. file \in F /\ \A k \in F : k <= file
  <2>1. F \in SUBSET (0 .. n) /\ F # {}
    BY <1>1
  <2> HIDE DEF F
  <2> QED BY Zenon, <1>1, <2>1, MaxFacts
<1>4. narrow \in M /\ \A k \in M : k <= narrow
  <2>1. M \in SUBSET (0 .. L) /\ M # {}
    BY <1>1
  <2> HIDE DEF M
  <2> QED BY Zenon, <1>1, <2>1, MaxFacts
<1> HIDE DEF file, narrow
<1>5. out1.order[dir] = IF file = 0 \/ scopes[file].pipeline[dir] = Nil THEN Nil
                        ELSE scopes[file].pipeline[dir]
  <2> DEFINE P == mc.defaults.pipeline
  <2>1. Combined(Blocks(ps), n, mc.defaults)
    BY Zenon, <1>1, DefaultsCombined
  <2>2. Chosen(scopes, n, "pipeline", P)
    BY SMTT(30), <1>1, <2>1 DEF Combined, Chosen, Parts
  <2>3. out1.order[dir] = IF P = Nil THEN Nil ELSE P[dir]
    BY Zenon DEF Apply, Or, DefaultPolicy
  <2> HIDE DEF P, out1
  <2>4. CASE P = Nil /\ \A k \in 1 .. n : scopes[k]["pipeline"] = Nil
    <3>1. file = 0
      BY Zenon, <1>3, <2>4
    <3> QED BY Zenon, <2>3, <2>4, <3>1
  <2>5. CASE \E k \in 1 .. n : /\ P = scopes[k]["pipeline"] /\ P # Nil
                              /\ \A l \in 1 .. n : l > k => scopes[l]["pipeline"] = Nil
    <3>1. PICK k \in 1 .. n : /\ P = scopes[k]["pipeline"] /\ P # Nil
                              /\ \A l \in 1 .. n : l > k => scopes[l]["pipeline"] = Nil
      BY Zenon, <2>5
    <3>2. file = k
      BY <1>1, <1>3, <3>1
    <3>3. k # 0
      BY <1>1
    <3> QED BY Zenon, <2>3, <3>1, <3>2, <3>3
  <2> QED BY Zenon, <2>2, <2>4, <2>5 DEF Chosen
<1>6. ASSUME NEW out, NEW s
      PROVE  Apply(out, s).order[dir] = IF s.pipeline # Nil /\ s.pipeline[dir] # Nil
                                        THEN s.pipeline[dir] ELSE out.order[dir]
  BY DEF Apply, Or
<1> HIDE DEF out1
<1>7. out2.order[dir] = IF sets(n + 1) THEN scopes[n + 1].pipeline[dir] ELSE out1.order[dir]
  BY SMTT(30), <1>1, <1>6
<1>8. i # 0 => out3.order[dir] = IF sets(n + 2) THEN scopes[n + 2].pipeline[dir] ELSE out2.order[dir]
  BY <1>1, <1>6
<1>9. Chain(mc, m, i) = IF i = 0 THEN out2 ELSE out3
  BY Zenon DEF Chain, out1
<1> HIDE DEF out2, out3, sets
<1>10. CASE i # 0 /\ sets(n + 2)
  <2>1. narrow = n + 2
    BY <1>1, <1>4, <1>10
  <2> QED BY <1>1, <1>2, <1>8, <1>9, <1>10, <2>1 DEF OrderFrom
<1>11. CASE ~(i # 0 /\ sets(n + 2)) /\ sets(n + 1)
  <2>1. narrow = n + 1
    BY <1>1, <1>4, <1>11
  <2> QED BY SMTT(30), <1>1, <1>2, <1>7, <1>8, <1>9, <1>11, <2>1 DEF OrderFrom
<1>12. CASE ~(i # 0 /\ sets(n + 2)) /\ ~sets(n + 1)
  <2>1. ~(narrow > n)
    BY <1>1, <1>4, <1>12
  <2>2. file \in 0 .. n
    BY <1>1, <1>3
  <2>3. Chain(mc, m, i).order[dir] = out1.order[dir]
    BY Zenon, <1>7, <1>8, <1>9, <1>12
  <2>4. OrderScope(scopes, n, dir) =
          IF file = 0 \/ scopes[file].pipeline[dir] = Nil THEN 0 ELSE file
    BY Zenon, <1>2, <2>1
  <2> QED BY Zenon, <1>5, <2>2, <2>3, <2>4 DEF OrderFrom
<1> QED BY <1>10, <1>11, <1>12

(* The last scope with a part, and the last with a field. *)
LEMMA ChosenIsLast ==
  ASSUME NEW scopes, NEW c, NEW v, Len(scopes) \in Nat, DOMAIN scopes = 1 .. Len(scopes),
         Chosen(scopes, Len(scopes), c, v)
  PROVE  LET at == LastThat(scopes, LAMBDA s : s[c] # Nil)
         IN  /\ at \in 0 .. Len(scopes) /\ (at # 0 => scopes[at][c] # Nil)
             /\ v = IF at = 0 THEN Nil ELSE scopes[at][c]
<1> DEFINE n == Len(scopes)
           F == {0} \union {k \in DOMAIN scopes : scopes[k][c] # Nil}
           at == Max(F)
<1>1. F \in SUBSET (0 .. n) /\ F # {}
  OBVIOUS
<1> HIDE DEF F
<1>2. at \in F /\ \A k \in F : k <= at
  BY Zenon, <1>1, MaxFacts
<1>3. LastThat(scopes, LAMBDA s : s[c] # Nil) = at
  BY Zenon DEF LastThat, F
<1> HIDE DEF at
<1>4. at \in 0 .. n /\ (at # 0 => scopes[at][c] # Nil)
  BY Zenon, <1>1, <1>2 DEF F
<1>5. v = IF at = 0 THEN Nil ELSE scopes[at][c]
  <2>1. CASE v = Nil /\ \A k \in 1 .. n : scopes[k][c] = Nil
    BY Zenon, <1>2, <2>1 DEF F
  <2>2. CASE \E k \in 1 .. n : /\ v = scopes[k][c] /\ v # Nil
                              /\ \A l \in 1 .. n : l > k => scopes[l][c] = Nil
    <3>1. PICK k \in 1 .. n : /\ v = scopes[k][c] /\ v # Nil
                              /\ \A l \in 1 .. n : l > k => scopes[l][c] = Nil
      BY Zenon, <2>2
    <3>2. at = k
      BY <1>2, <3>1 DEF F
    <3> QED BY <3>1, <3>2
  <2> QED BY <2>1, <2>2 DEF Chosen
<1> QED BY <1>3, <1>4, <1>5

LEMMA FieldIsLast ==
  ASSUME NEW scopes, NEW field, NEW base, NEW set,
         Len(scopes) \in Nat, DOMAIN scopes = 1 .. Len(scopes),
         FieldChosen(scopes, Len(scopes), field, base, set), field \in DOMAIN base
  PROVE  LET at == LastThat(scopes, LAMBDA s : field \in DOMAIN s.set)
         IN  set[field] = IF at = 0 THEN base[field] ELSE scopes[at].set[field]
<1> DEFINE n == Len(scopes)
           F == {0} \union {k \in DOMAIN scopes : field \in DOMAIN scopes[k].set}
           at == Max(F)
<1>1. F \in SUBSET (0 .. n) /\ F # {}
  OBVIOUS
<1> HIDE DEF F
<1>2. at \in F /\ \A k \in F : k <= at
  BY Zenon, <1>1, MaxFacts
<1>3. LastThat(scopes, LAMBDA s : field \in DOMAIN s.set) = at
  BY Zenon DEF LastThat, F
<1> HIDE DEF at
<1>4. set[field] = IF at = 0 THEN base[field] ELSE scopes[at].set[field]
  <2>1. CASE /\ \A k \in 1 .. n : field \notin DOMAIN scopes[k].set
             /\ set[field] = base[field]
    BY Zenon, <1>2, <2>1 DEF F
  <2>2. CASE \E k \in 1 .. n : /\ field \in DOMAIN scopes[k].set
                              /\ set[field] = scopes[k].set[field]
                              /\ \A l \in 1 .. n : l > k => field \notin DOMAIN scopes[l].set
    <3>1. PICK k \in 1 .. n : /\ field \in DOMAIN scopes[k].set
                              /\ set[field] = scopes[k].set[field]
                              /\ \A l \in 1 .. n : l > k => field \notin DOMAIN scopes[l].set
      BY Zenon, <2>2
    <3>2. at = k
      BY <1>2, <3>1 DEF F
    <3> QED BY <3>1, <3>2
  <2> QED BY Zenon, <2>1, <2>2 DEF FieldChosen
<1> QED BY Zenon, <1>3, <1>4

-----------------------------------------------------------------------------
(* What policy_resolve hands out is a compiled policy. *)
LEMMA ServedCompiled ==
  ASSUME PInv, Inspected
  PROVE  /\ phase = "compiled" /\ files \in Configs /\ merged = Merge(Parsed(files))
         /\ Accepted(Parsed(files)) /\ IsSlice(Parsed(files))
         /\ \E n \in DOMAIN merged.domains :
              \E i \in {0} \union DOMAIN merged.domains[n].routes :
                served.policy = PolicyOf(merged, n, i)
<1> DEFINE in == Spell(served.req)
           path == NormalizePath(in.path)
           best == BestDomain(resolver, in.host)
           hits == {i \in DOMAIN best.dom.routes :
                      RouteMatches(best.dom.routes[i].match, [in EXCEPT !.path = path])}
<1>1. /\ phase = "compiled" /\ files \in Configs /\ merged = Merge(Parsed(files))
      /\ Accepted(Parsed(files)) /\ resolver = CompileResolver(merged)
      /\ served.policy = PolicyResolve(resolver, in)
  BY Zenon DEF PInv, Inspected, Ready
<1>2. /\ IsSlice(Parsed(files)) /\ IsSlice(merged.domains)
      /\ \A d \in ToSet(merged.domains) : DecodedDomain(d)
  BY SMTT(30), <1>1, ConfigFacts
<1>3. \A n \in DOMAIN merged.domains : \A h \in CompileDomain(merged, n).hosts : GoodHost(h)
  BY SMTT(30), <1>1, HostsGood
<1>4. \/ best = NoDomain
      \/ \E n \in DOMAIN merged.domains : best.dom = CompileDomain(merged, n)
  BY SMTT(30), <1>1, <1>2, <1>3, BestFacts
<1>5. /\ path \notin resolver.excludes /\ best # NoDomain
      /\ served.policy = IF hits # {} THEN best.dom.routes[Min(hits)].policy ELSE best.dom.default
  <2> HIDE DEF path, best
  <2>1. PassThroughPolicy.id = "exclude"
    BY Zenon DEF PassThroughPolicy
  <2>2. served.policy # Nil /\ served.policy # PassThroughPolicy
    BY Zenon, <2>1 DEF Inspected
  <2> DEFINE route == IF hits # {} THEN best.dom.routes[Min(hits)].policy ELSE best.dom.default
  <2>3. PolicyResolve(resolver, in) =
          CASE path \in resolver.excludes -> PassThroughPolicy
            [] path \notin resolver.excludes /\ best = NoDomain -> Nil
            [] OTHER -> route
    BY Zenon DEF PolicyResolve, path, best
  <2> HIDE DEF route
  <2>4. path \notin resolver.excludes /\ best # NoDomain /\ served.policy = route
    BY SMTT(30), <1>1, <2>2, <2>3
  <2> QED BY Zenon, <2>4 DEF route
<1>6. PICK n \in DOMAIN merged.domains : best.dom = CompileDomain(merged, n)
  BY Zenon, <1>4, <1>5
<1> HIDE DEF best
<1>7. Compiled(merged, n, best.dom)
  <2>1. DecodedDomain(merged.domains[n])
    BY SMTT(30), <1>2 DEF ToSet
  <2> QED BY <1>6, <2>1, DomainCompiled
<1>8. CASE hits = {}
  BY ZenonT(30), <1>1, <1>2, <1>5, <1>7, <1>8 DEF Compiled
<1>9. CASE hits # {}
  <2>1. IsSlice(best.dom.routes)
    BY Zenon, <1>7 DEF Compiled
  <2>2. Len(best.dom.routes) \in Nat /\ DOMAIN best.dom.routes = 1 .. Len(best.dom.routes)
    BY <2>1, SliceFacts
  <2>3. Min(hits) \in hits
    <3>1. hits \in SUBSET (0 .. Len(best.dom.routes))
      BY <2>2
    <3> HIDE DEF hits
    <3> QED BY Zenon, <1>9, <2>2, <3>1, MinFacts
  <2>4. best.dom.routes[Min(hits)] \in ToSet(best.dom.routes)
    BY Zenon, <2>3 DEF ToSet
  <2> DEFINE rt == best.dom.routes[Min(hits)]
  <2> HIDE DEF rt, hits
  <2>5. PICK i \in DOMAIN merged.domains[n].routes :
          rt = [match |-> merged.domains[n].routes[i].match, policy |-> PolicyOf(merged, n, i)]
    BY SMTT(30), <1>7, <2>4 DEF Compiled, rt
  <2>6. served.policy = PolicyOf(merged, n, i)
    BY <1>5, <1>9, <2>5 DEF rt
  <2> QED BY Zenon, <1>1, <1>2, <2>6
<1> QED BY SMTT(30), <1>8, <1>9

(* The settings of a compiled policy, by the scopes of its id. *)
ReadsScopes(p, scopes, ps, d, i) ==
  /\ ScopesAre(scopes, Len(ps), ps, d, i)
  /\ \A c \in {"body", "engines", "headers"} : Chosen(scopes, Len(scopes), c, p[c])
  /\ \A field \in DOMAIN DefaultPolicy.set \ Directions :
       FieldChosen(scopes, Len(scopes), field, DefaultPolicy.set, p.set)
  /\ p.skip = UNION {scopes[k].skip : k \in DOMAIN scopes}
  /\ \A dir \in Directions :
       OrderFrom(p.order[dir], scopes, OrderScope(scopes, Len(ps), dir), dir)

LEMMA PolicyByScopes ==
  ASSUME NEW n, NEW i, IsSlice(Parsed(files)), merged = Merge(Parsed(files))
  PROVE  LET p == PolicyOf(merged, n, i)
         IN  ReadsScopes(p, ScopesOf(p.id), Parsed(files), merged.domains[n], i)
<1> DEFINE ps == Parsed(files)
           out == Chain(merged, n, i)
           q == DeriveInspect(out)
           p == PolicyOf(merged, n, i)
           scopes == ScopesOf(p.id)
<1>1. /\ p.id = <<n, i>> /\ p.set = q.set
      /\ \A c \in OutFields \ {"set"} : p[c] = out[c] /\ q[c] = out[c]
  <2>1. ShapedBy(p, q, out, <<n, i>>)
    BY Zenon, PolicyShape
  <2> HIDE DEF p, q, out
  <2> QED BY Zenon, <2>1 DEF ShapedBy
<1>2. ScopesAre(scopes, Len(ps), ps, merged.domains[n], i)
  BY <1>1, ScopesKnown
<1> HIDE DEF p, out, scopes, ps
<1>3. /\ \A c \in {"headers", "body", "engines"} : Chosen(scopes, Len(scopes), c, out[c])
      /\ \A field : FieldChosen(scopes, Len(scopes), field, DefaultPolicy.set, out.set)
      /\ out.skip = UNION {scopes[k].skip : k \in DOMAIN scopes}
  <2>1. IsSlice(ps) /\ merged.defaults = Merge(ps).defaults
    BY Zenon DEF ps
  <2>2. LastDecides(scopes, out)
    BY <1>2, <2>1, ChainChosen, Zenon DEF out
  <2> QED BY <2>2, Zenon DEF LastDecides
<1>4. ASSUME NEW dir \in Directions
      PROVE  OrderFrom(out.order[dir], scopes, OrderScope(scopes, Len(ps), dir), dir)
  BY Zenon, <1>2, ChainOrder DEF out, ps
<1>5. \A c \in {"body", "engines", "headers"} : Chosen(scopes, Len(scopes), c, p[c])
  BY <1>1, <1>3 DEF OutFields
<1>6. p.skip = out.skip /\ p.order = out.order
  BY Zenon, <1>1 DEF OutFields
<1>7. ASSUME NEW field \in DOMAIN DefaultPolicy.set \ Directions
      PROVE  FieldChosen(scopes, Len(scopes), field, DefaultPolicy.set, p.set)
  <2>1. FieldChosen(scopes, Len(scopes), field, DefaultPolicy.set, out.set)
    BY Zenon, <1>3
  <2>2. field \in DOMAIN out.set
    BY <2>1 DEF FieldChosen
  <2>3. DOMAIN q.set = DOMAIN out.set /\ q.set[field] = out.set[field]
    <3>1. PICK a, b : q = [out EXCEPT !.set["request"] = a, !.set["response"] = b]
      BY ZenonT(30) DEF DeriveInspect
    <3>2. "set" \in DOMAIN out /\ field # "request" /\ field # "response"
      BY Zenon DEF Directions, out, Chain, Apply
    <3> HIDE DEF q
    <3>3. q.set = [[out.set EXCEPT !["request"] = a] EXCEPT !["response"] = b]
      BY SMTT(30), <3>1, <3>2
    <3> QED BY SMTT(30), <2>2, <3>2, <3>3
  <2> DEFINE base == DefaultPolicy.set
  <2> HIDE DEF q, base
  <2> QED BY <1>1, <2>1, <2>3 DEF FieldChosen, base
<1>8. ReadsScopes(p, scopes, ps, merged.domains[n], i)
  BY ZenonT(30), <1>2, <1>3, <1>4, <1>5, <1>6, <1>7 DEF ReadsScopes
<1> QED BY Zenon, <1>8 DEF p, scopes, ps

(* Every setting comes from the most specific block that makes it, for any   *)
(* number of files, domains and routes: the overlays of Merge and the loop   *)
(* of Resolve compose to the last-writer rule.                               *)
THEOREM ScopesDecide == PSpec => []ScopesApply
<1>1. ASSUME PInv PROVE ScopesApply
  <2> SUFFICES ASSUME Inspected PROVE ScopesApply
    BY Zenon DEF ScopesApply
  <2> DEFINE ps == Parsed(files)
             p == served.policy
             scopes == ScopesOf(p.id)
  <2>1. /\ merged = Merge(ps) /\ IsSlice(ps)
        /\ \E n \in DOMAIN merged.domains :
             \E i \in {0} \union DOMAIN merged.domains[n].routes : p = PolicyOf(merged, n, i)
    BY <1>1, ServedCompiled
  <2>2. PICK n, i : p = PolicyOf(merged, n, i)
    BY <2>1
  <2> HIDE DEF p
  <2>3. ReadsScopes(p, scopes, ps, merged.domains[n], i)
    BY ZenonT(30), <2>1, <2>2, PolicyByScopes
  <2>4. Len(scopes) \in Nat /\ DOMAIN scopes = 1 .. Len(scopes)
    <3> HIDE DEF scopes, ps
    <3> QED BY <2>3 DEF ReadsScopes, ScopesAre
  <2> HIDE DEF scopes, ps
  <2>5. ASSUME NEW field \in DOMAIN DefaultPolicy.set \ Directions
        PROVE  LET at == LastThat(scopes, LAMBDA s : field \in DOMAIN s.set)
               IN  p.set[field] = IF at = 0 THEN DefaultPolicy.set[field] ELSE scopes[at].set[field]
    <3> DEFINE base == DefaultPolicy.set
    <3>1. field \in DOMAIN base /\ FieldChosen(scopes, Len(scopes), field, base, p.set)
      BY Zenon, <2>3 DEF ReadsScopes
    <3> HIDE DEF base
    <3>2. LET at == LastThat(scopes, LAMBDA s : field \in DOMAIN s.set)
          IN  p.set[field] = IF at = 0 THEN base[field] ELSE scopes[at].set[field]
      BY Zenon, <2>4, <3>1, FieldIsLast
    <3> QED BY Zenon, <3>2 DEF base
  <2>6. LET at == LastThat(scopes, LAMBDA s : s.engines # Nil)
        IN  p.engines = IF at = 0 THEN Nil ELSE scopes[at].engines
    <3>1. Chosen(scopes, Len(scopes), "engines", p.engines)
      BY Zenon, <2>3 DEF ReadsScopes
    <3> QED BY ZenonT(30), <2>4, <3>1, ChosenIsLast
  <2>7. LET at == LastThat(scopes, LAMBDA s : s.body # Nil)
        IN  p.body = IF at = 0 THEN Nil ELSE scopes[at].body
    <3>1. Chosen(scopes, Len(scopes), "body", p.body)
      BY Zenon, <2>3 DEF ReadsScopes
    <3> QED BY ZenonT(30), <2>4, <3>1, ChosenIsLast
  <2> QED BY Zenon, <2>3, <2>5, <2>6, <2>7 DEF ScopesApply, ReadsScopes, OrderFrom, p, scopes, ps
<1> QED BY <1>1, PInvAlways, PTL

-----------------------------------------------------------------------------
(* The stages of a policy and the block that orders them.                    *)

LEMMA OrderIsSet ==
  ASSUME NEW scopes, NEW n \in Nat, NEW L \in Nat, n <= L, Len(scopes) = L,
         scopes \in Seq(ToSet(scopes)), DOMAIN scopes = 1 .. L, NEW dir
  PROVE  LET at == OrderScope(scopes, n, dir)
         IN  at # 0 => at \in 1 .. L /\ scopes[at].pipeline # Nil /\ scopes[at].pipeline[dir] # Nil
<1> DEFINE sub == SubSeq(scopes, 1, n)
           F == {0} \union {k \in DOMAIN sub : sub[k].pipeline # Nil}
           M == {0} \union {k \in DOMAIN scopes : scopes[k].pipeline # Nil /\ scopes[k].pipeline[dir] # Nil}
           file == Max(F)
           narrow == Max(M)
           at == OrderScope(scopes, n, dir)
<1>1. at = IF narrow > n THEN narrow
           ELSE IF file = 0 \/ scopes[file].pipeline[dir] = Nil THEN 0 ELSE file
  BY Zenon DEF OrderScope, LastThat
<1>2. DOMAIN sub = 1 .. n /\ \A k \in 1 .. n : sub[k] = scopes[k]
  OBVIOUS
<1> HIDE DEF at
<1>3. file \in F
  <2>1. F \in SUBSET (0 .. n) /\ F # {}
    BY <1>2
  <2> HIDE DEF F
  <2> QED BY Zenon, <2>1, MaxFacts
<1>4. narrow \in M
  <2>1. M \in SUBSET (0 .. L) /\ M # {}
    OBVIOUS
  <2> HIDE DEF M
  <2> QED BY ZenonT(30), <2>1, MaxFacts
<1> HIDE DEF file, narrow, sub
<1>5. CASE narrow > n
  BY Zenon, <1>1, <1>4, <1>5 DEF at
<1>6. CASE ~(narrow > n) /\ (file = 0 \/ scopes[file].pipeline[dir] = Nil)
  BY SMTT(30), <1>1, <1>6 DEF at
<1>7. CASE ~(narrow > n) /\ ~(file = 0 \/ scopes[file].pipeline[dir] = Nil)
  <2>1. file \in 1 .. n /\ scopes[file].pipeline # Nil
    BY Zenon, <1>2, <1>3, <1>7
  <2>2. at = file
    BY SMTT(30), <1>1, <1>7
  <2> QED BY SMTT(30), <1>7, <2>1, <2>2 DEF at
<1> QED BY <1>5, <1>6, <1>7

(* Every scope of a policy was validated. *)
LEMMA ScopesValid ==
  ASSUME NEW fs \in Configs, Accepted(Parsed(fs)), NEW mc, mc = Merge(Parsed(fs)),
         NEW n \in DOMAIN mc.domains, NEW i \in {0} \union DOMAIN mc.domains[n].routes,
         NEW scopes, ScopesAre(scopes, Len(Parsed(fs)), Parsed(fs), mc.domains[n], i),
         NEW k \in DOMAIN scopes
  PROVE  ValidSpec(scopes[k]) /\ DecodedSpec(scopes[k])
<1> DEFINE ps == Parsed(fs)
           N == Len(ps)
           d == mc.domains[n]
<1>1. IsSlice(ps) /\ IsSlice(mc.domains) /\ d \in ToSet(mc.domains)
  BY Zenon, ConfigFacts DEF ToSet
<1>2. PICK f \in ToSet(ps) : d \in ToSet(f.domains)
  BY Zenon, <1>1, ConfigFacts
<1>3. DecodedFile(f) /\ ValidFile(f) /\ DecodedDomain(d)
  BY Zenon, <1>1, <1>2, ConfigFacts DEF Accepted, ToSet
<1>4. ValidDomain(d)
  BY ZenonT(30), <1>2, <1>3 DEF ValidFile, ToSet
<1> HIDE DEF d, ps
<1>5. /\ N \in Nat /\ DOMAIN scopes = 1 .. (IF i = 0 THEN N + 1 ELSE N + 2)
      /\ \A l \in 1 .. N : scopes[l] = Blocks(ps)[l]
      /\ scopes[N + 1] = d.policy /\ (i # 0 => scopes[N + 2] = d.routes[i].policy)
  BY Zenon DEF ScopesAre, ps, d
<1>6. CASE k \in 1 .. N
  <2>1. ps[k] \in ToSet(ps) /\ k \in DOMAIN ps
    BY ZenonT(30), <1>1, <1>6, SliceFacts
  <2>2. scopes[k] = ps[k].defaults
    BY Zenon, <1>5, <1>6, <2>1 DEF Blocks
  <2>3. DecodedFile(ps[k]) /\ ValidFile(ps[k])
    BY Zenon, <2>1, ConfigFacts DEF Accepted, ps
  <2> QED BY ZenonT(30), <2>2, <2>3 DEF DecodedFile, ValidFile
<1>7. CASE k = N + 1
  <2>1. scopes[k] = d.policy
    BY <1>5, <1>7
  <2> QED BY Zenon, <1>3, <1>4, <2>1 DEF DecodedDomain, ValidDomain
<1>8. CASE i # 0 /\ k = N + 2
  <2>1. d.routes[i] \in ToSet(d.routes) /\ i \in DOMAIN d.routes
    BY SMTT(30), <1>8 DEF ToSet, d
  <2>2. scopes[k] = d.routes[i].policy
    BY <1>5, <1>8
  <2> QED BY ZenonT(30), <1>3, <1>4, <2>1, <2>2 DEF DecodedDomain, ValidDomain
<1> QED BY SMTT(30), <1>5, <1>6, <1>7, <1>8

LEMMA StageKept ==
  ASSUME NEW order, IsSlice(order), NEW stage \in ToSet(order), stage # "fast_pre_checks"
  PROVE  stage \in ToSet(BodyPipeline(order))
<1> DEFINE kept == Keep(order, ToSet(order) \ {"fast_pre_checks"})
           start == <<"body_truncation_guard", "body_decode">>
<1>1. IsSlice(kept) /\ stage \in ToSet(kept)
  BY KeepFacts
<1>2. start \in Seq({"body_truncation_guard", "body_decode"})
  OBVIOUS
<1>3. IsSlice(start)
  BY Zenon, <1>2, SeqIsSlice
<1> HIDE DEF kept, start
<1>4. stage \in ToSet(start \o kept)
  BY <1>1, <1>3, ConcatFacts
<1> QED BY <1>4 DEF BodyPipeline, kept, start

LEMMA DefaultOrder ==
  IsSlice(DefaultPipelineOrder) /\ \A stage \in Stages : stage \in ToSet(DefaultPipelineOrder)
<1>1. DefaultPipelineOrder \in Seq(Stages) /\ Len(DefaultPipelineOrder) = 3
  BY DEF DefaultPipelineOrder, Stages
<1>2. IsSlice(DefaultPipelineOrder) /\ DOMAIN DefaultPipelineOrder = 1 .. 3
  BY <1>1, SeqIsSlice, SliceFacts
<1>3. /\ DefaultPipelineOrder[1] = "fast_pre_checks" /\ DefaultPipelineOrder[2] = "body_checks"
      /\ DefaultPipelineOrder[3] = "waf_engine"
  BY Zenon DEF DefaultPipelineOrder
<1>4. 1 \in 1 .. 3 /\ 2 \in 1 .. 3 /\ 3 \in 1 .. 3
  OBVIOUS
<1> QED BY <1>2, <1>3, <1>4 DEF ToSet, Stages

(* A direction the derived settings inspect. *)
LEMMA DeriveFacts ==
  ASSUME NEW out, "set" \in DOMAIN out, \A dir \in Directions : dir \in DOMAIN out.set
  PROVE  LET set == DeriveInspect(out).set
         IN  /\ \A dir \in Directions : DLPApplies(out.body, dir) => set[dir]
             /\ out.body # Nil /\ (out.body.json \/ out.body.sensitive) =>
                  \E dir \in Directions : set[dir]
<1> DEFINE dlp == [dir \in Directions |-> out.set[dir] \/ DLPApplies(out.body, dir)]
           checks == out.body # Nil /\ (out.body.json \/ out.body.sensitive)
           a == dlp["request"] \/ (checks /\ ~dlp["response"])
           b == dlp["response"]
           q == DeriveInspect(out)
<1>1. q = [out EXCEPT !.set["request"] = a, !.set["response"] = b]
  BY Zenon DEF DeriveInspect
<1>2. "request" \in Directions /\ "response" \in Directions
      /\ \A dir \in Directions : dir = "request" \/ dir = "response"
  BY Zenon DEF Directions
<1>3. DLPApplies(out.body, "request") => a
  BY Zenon, <1>2
<1>4. DLPApplies(out.body, "response") => b
  BY Zenon, <1>2
<1>5. checks => a \/ b
  BY <1>2
<1> HIDE DEF a, b, q
<1>6. q.set = [[out.set EXCEPT !["request"] = a] EXCEPT !["response"] = b]
  BY <1>1
<1>7. q.set["request"] = a /\ q.set["response"] = b
  BY <1>2, <1>6
<1>8. \A dir \in Directions : DLPApplies(out.body, dir) => q.set[dir]
  BY SMTT(30), <1>2, <1>3, <1>4, <1>7
<1>9. checks => \E dir \in Directions : q.set[dir]
  BY SMTT(30), <1>2, <1>5, <1>7
<1> QED BY <1>8, <1>9 DEF q

(* A stage of the body that a block configures is in the pipeline, unless    *)
(* another block orders it.                                                  *)
Ordered(p, scopes, n, dir, stage, where) ==
  \/ stage \in ToSet(p.pipelines[dir].body)
  \/ OrderScope(scopes, n, dir) \notin {0, where}

LEMMA StageOrdered ==
  ASSUME NEW fs \in Configs, Accepted(Parsed(fs)), NEW mc, mc = Merge(Parsed(fs)),
         NEW n \in DOMAIN mc.domains, NEW i \in {0} \union DOMAIN mc.domains[n].routes,
         NEW scopes, ScopesAre(scopes, Len(Parsed(fs)), Parsed(fs), mc.domains[n], i),
         NEW p, NEW dir \in Directions, p.pipelines = Pipelines(p),
         LET at == OrderScope(scopes, Len(Parsed(fs)), dir)
         IN  p.order[dir] = IF at = 0 THEN Nil ELSE scopes[at].pipeline[dir],
         NEW where \in DOMAIN scopes,
         NEW stage \in {"body_checks", "waf_engine"}, stage \in Required(scopes[where])
  PROVE  Ordered(p, scopes, Len(Parsed(fs)), dir, stage, where)
<1> DEFINE N == Len(Parsed(fs))
           at == OrderScope(scopes, N, dir)
           order == OrderOrDefault(p.order[dir])
<1>1. p.pipelines[dir].body = BodyPipeline(order)
  BY SMTT(30) DEF Pipelines
<1>2. CASE at = 0
  <2>1. order = DefaultPipelineOrder
    BY Zenon, <1>2 DEF OrderOrDefault
  <2>2. stage \in ToSet(order) /\ IsSlice(order)
    BY ZenonT(30), <2>1, DefaultOrder DEF Stages
  <2>3. stage \in ToSet(BodyPipeline(order))
    <3> HIDE DEF order
    <3> QED BY ZenonT(30), <2>2, StageKept
  <2> QED BY Zenon, <1>1, <2>3 DEF Ordered
<1>3. CASE at = where /\ at # 0
  <2> DEFINE s == scopes[where]
  <2>1. s.pipeline # Nil /\ s.pipeline[dir] # Nil
    <3>1. /\ N \in Nat /\ Len(scopes) \in Nat /\ N <= Len(scopes)
          /\ scopes \in Seq(ToSet(scopes)) /\ DOMAIN scopes = 1 .. Len(scopes)
      BY SMTT(30) DEF ScopesAre
    <3> HIDE DEF N
    <3> QED BY ZenonT(30), <1>3, <3>1, OrderIsSet
  <2>2. ValidSpec(s) /\ DecodedSpec(s)
    BY ZenonT(30), ScopesValid
  <2>3. order = s.pipeline[dir]
    BY SMTT(30), <1>3, <2>1 DEF OrderOrDefault
  <2>4. stage \in Required(s)
    BY SMTT(30)
  <2> HIDE DEF s, at, order
  <2>5. IsSlice(order)
    BY ZenonT(30), <2>1, <2>2, <2>3 DEF DecodedSpec
  <2>6. stage \in ToSet(order)
    <3>1. ValidPipeline(s)
      BY ZenonT(30), <2>2 DEF ValidSpec
    <3>2. Required(s) \ (IF dir = "response" THEN {"fast_pre_checks"} ELSE {}) \subseteq ToSet(order)
      BY ZenonT(30), <2>1, <2>3, <3>1 DEF ValidPipeline
    <3> QED BY ZenonT(30), <2>4, <3>2
  <2>7. stage \in ToSet(BodyPipeline(order))
    BY SMTT(30), <2>5, <2>6, StageKept
  <2> QED BY SMTT(30), <1>1, <2>7 DEF Ordered
<1>4. CASE at \notin {0, where}
  BY Zenon, <1>4 DEF Ordered
<1> QED BY ZenonT(30), <1>2, <1>3, <1>4

(* A check that is configured runs, for any directory: Resolve asks for what *)
(* it needs, and checkComplete and the default order put its stage in.       *)
THEOREM ChecksRun == PSpec => []ConfiguredChecksRun
<1>1. ASSUME PInv, Inspected, Enforcing(served.policy)
      PROVE  LET p == served.policy
                 scopes == ScopesOf(p.id)
                 Listed(dir, stage, where) == Ordered(p, scopes, Len(Parsed(files)), dir, stage, where)
                 body == LastThat(scopes, LAMBDA s : s.body # Nil)
                 engines == LastThat(scopes, LAMBDA s : s.engines # Nil)
                 Runs(dir) == /\ BodyRequired(p, dir)
                              /\ dir = "response" => NeedsResponseInspection(p)
             IN  /\ \A dir \in Directions :
                      DLPApplies(p.body, dir) => Runs(dir) /\ Listed(dir, "body_checks", body)
                 /\ p.body # Nil /\ (p.body.json \/ p.body.sensitive) =>
                      \E dir \in Directions : Runs(dir) /\ Listed(dir, "body_checks", body)
                 /\ RequiresBody(EnginesOf(p)) => Runs("request") /\ Listed("request", "waf_engine", engines)
                 /\ InspectsResponse(EnginesOf(p)) => Runs("response") /\ Listed("response", "waf_engine", engines)
  <2> DEFINE ps == Parsed(files)
             p == served.policy
             scopes == ScopesOf(p.id)
             Listed(dir, stage, where) == Ordered(p, scopes, Len(ps), dir, stage, where)
             body == LastThat(scopes, LAMBDA s : s.body # Nil)
             engines == LastThat(scopes, LAMBDA s : s.engines # Nil)
             Runs(dir) == /\ BodyRequired(p, dir)
                          /\ dir = "response" => NeedsResponseInspection(p)
  <2>1. /\ files \in Configs /\ merged = Merge(ps) /\ Accepted(ps) /\ IsSlice(ps)
        /\ \E n \in DOMAIN merged.domains :
             \E i \in {0} \union DOMAIN merged.domains[n].routes : p = PolicyOf(merged, n, i)
    BY <1>1, ServedCompiled
  <2>2. PICK n \in DOMAIN merged.domains : 
             \E i \in {0} \union DOMAIN merged.domains[n].routes : p = PolicyOf(merged, n, i)
    BY Zenon, <2>1
  <2>3. PICK i \in {0} \union DOMAIN merged.domains[n].routes : p = PolicyOf(merged, n, i)
    BY Zenon, <2>2
  <2> DEFINE out == Chain(merged, n, i)
             q == DeriveInspect(out)
  <2> HIDE DEF p
  <2>0. ReadsScopes(p, scopes, ps, merged.domains[n], i)
    BY Zenon, <2>1, <2>3, PolicyByScopes
  <2>4. /\ ScopesAre(scopes, Len(ps), ps, merged.domains[n], i)
        /\ \A c \in {"body", "engines", "headers"} : Chosen(scopes, Len(scopes), c, p[c])
        /\ \A dir \in Directions :
             LET at == OrderScope(scopes, Len(ps), dir)
             IN  p.order[dir] = IF at = 0 THEN Nil ELSE scopes[at].pipeline[dir]
    BY <2>0, Zenon DEF ReadsScopes, OrderFrom
  <2>5. /\ p.pipelines = Pipelines(q) /\ p.set = q.set /\ p.body = out.body
        /\ p.order = q.order /\ q.order = out.order
    <3>1. ShapedBy(p, q, out, <<n, i>>)
      BY ZenonT(30), <2>3, PolicyShape
    <3> HIDE DEF q, out
    <3> QED BY Zenon, <3>1 DEF ShapedBy, OutFields
  <2>6. p.pipelines = Pipelines(p)
    BY Zenon, <2>5 DEF Pipelines
  <2>7. "set" \in DOMAIN out /\ \A dir \in Directions : dir \in DOMAIN out.set
    <3>1. ASSUME NEW s, NEW o, \A dir \in Directions : dir \in DOMAIN o.set
          PROVE  /\ "set" \in DOMAIN Apply(o, s)
                 /\ \A dir \in Directions : dir \in DOMAIN Apply(o, s).set
      BY ZenonT(30), <3>1 DEF Apply, Over
    <3>2. \A dir \in Directions : dir \in DOMAIN DefaultPolicy.set
      BY ZenonT(30) DEF DefaultPolicy, Directions
    <3> QED BY ZenonT(30), <3>1, <3>2 DEF out, Chain
  <2> HIDE DEF scopes, ps, out
  <2>8. Len(scopes) \in Nat /\ DOMAIN scopes = 1 .. Len(scopes)
    BY SMTT(30), <2>4 DEF ScopesAre
  <2>9. /\ \A dir \in Directions : DLPApplies(p.body, dir) => p.set[dir]
        /\ p.body # Nil /\ (p.body.json \/ p.body.sensitive) => \E dir \in Directions : p.set[dir]
    <3> HIDE DEF q
    <3> QED BY Zenon, <2>5, <2>7, DeriveFacts DEF q
  <2>10. ASSUME NEW dir \in Directions, p.set[dir] PROVE Runs(dir)
    BY SMTT(30), <1>1, <2>10 DEF BodyRequired, NeedsResponseInspection, p
  <2>11. ASSUME p.body # Nil, NEW dir \in Directions PROVE Listed(dir, "body_checks", body)
    <3>1. Chosen(scopes, Len(scopes), "body", p.body)
      BY Zenon, <2>4
    <3>2. body \in 0 .. Len(scopes) /\ (body # 0 => scopes[body].body # Nil)
          /\ p.body = IF body = 0 THEN Nil ELSE scopes[body].body
      BY ZenonT(30), <2>8, <3>1, ChosenIsLast
    <3> HIDE DEF body
    <3>3. body \in DOMAIN scopes /\ "body_checks" \in Required(scopes[body])
      BY <2>8, <2>11, <3>2 DEF Required
    <3> QED BY ZenonT(30), <2>1, <2>4, <2>6, <3>3, StageOrdered DEF ps
  <2>12. ASSUME p.engines # Nil, NEW dir \in Directions PROVE Listed(dir, "waf_engine", engines)
    <3>1. Chosen(scopes, Len(scopes), "engines", p.engines)
      BY Zenon, <2>4
    <3>2. engines \in 0 .. Len(scopes) /\ (engines # 0 => scopes[engines].engines # Nil)
          /\ p.engines = IF engines = 0 THEN Nil ELSE scopes[engines].engines
      BY Zenon, <2>8, <3>1, ChosenIsLast
    <3> HIDE DEF engines
    <3>3. engines \in DOMAIN scopes /\ "waf_engine" \in Required(scopes[engines])
      BY <2>8, <2>12, <3>2 DEF Required
    <3> QED BY Zenon, <2>1, <2>4, <2>6, <3>3, StageOrdered DEF ps
  <2>13. InspectsResponse(EnginesOf(p)) => RequiresBody(EnginesOf(p))
    BY Zenon DEF InspectsResponse, RequiresBody, EngineRequiresBody
  <2>14. RequiresBody(EnginesOf(p)) => p.engines # Nil
    BY DEF RequiresBody, EnginesOf
  <2>15. RequiresBody(EnginesOf(p)) => Runs("request")
    BY SMTT(30), <1>1 DEF BodyRequired, p
  <2>16. InspectsResponse(EnginesOf(p)) => Runs("response")
    BY <1>1, <2>13 DEF BodyRequired, NeedsResponseInspection, p
  <2>17. "request" \in Directions /\ "response" \in Directions
    BY Zenon DEF Directions
  <2>18. \A dir \in Directions : DLPApplies(p.body, dir) => p.body # Nil
    BY ZenonT(30) DEF DLPApplies
  <2> HIDE DEF Runs, Listed, body, engines
  <2>19. /\ \A dir \in Directions :
              DLPApplies(p.body, dir) => Runs(dir) /\ Listed(dir, "body_checks", body)
         /\ p.body # Nil /\ (p.body.json \/ p.body.sensitive) =>
              \E dir \in Directions : Runs(dir) /\ Listed(dir, "body_checks", body)
    BY SMTT(30), <2>9, <2>10, <2>11, <2>18
  <2>20. /\ RequiresBody(EnginesOf(p)) => Runs("request") /\ Listed("request", "waf_engine", engines)
         /\ InspectsResponse(EnginesOf(p)) => Runs("response") /\ Listed("response", "waf_engine", engines)
    BY SMTT(30), <2>12, <2>13, <2>14, <2>15, <2>16, <2>17
  <2> QED BY ZenonT(30), <2>19, <2>20 DEF Runs, Listed, body, engines, scopes, p, ps
<1>2. PInv => ConfiguredChecksRun
  BY Zenon, <1>1 DEF ConfiguredChecksRun, Ordered
<1> QED BY <1>2, PInvAlways, PTL
=============================================================================
