------------------------------- MODULE Slices -------------------------------
(***************************************************************************)
(* The operators on slices that the models of the configuration and of the *)
(* engines share.  Those with the name of an operator of SequencesExt mean *)
(* the same; that module is not extended because every proof obligation    *)
(* would carry it along, at ten times the cost.                            *)
(***************************************************************************)
EXTENDS Integers, Sequences, FiniteSets, FiniteSetsExt, Functions

ToSet(s) == {s[i] : i \in DOMAIN s}

IsSlice(s) == s \in Seq(ToSet(s))

Last(s) == s[Len(s)]

Front(s) == SubSeq(s, 1, Len(s) - 1)

InsertAt(s, i, x) == SubSeq(s, 1, i - 1) \o <<x>> \o SubSeq(s, i, Len(s))

IsPrefix(s, t) == Len(s) <= Len(t) /\ \A i \in 1 .. Len(s) : s[i] = t[i]

IsSuffix(s, t) ==
    Len(s) <= Len(t) /\ \A i \in 1 .. Len(s) : s[i] = t[i + Len(t) - Len(s)]

SetToSeq(S) == CHOOSE s \in [1 .. Cardinality(S) -> S] : IsInjective(s)

(* The accumulator after a loop over the slice. *)
FoldLeft(op(_, _), base, seq) ==
    LET acc[n \in 0 .. Len(seq)] == IF n = 0 THEN base ELSE op(acc[n - 1], seq[n])
    IN  acc[Len(seq)]

(* The wanted elements of a slice, in its order. *)
Keep(seq, wanted) ==
    FoldLeft(LAMBDA acc, x : IF x \in wanted THEN Append(acc, x) ELSE acc, <<>>, seq)
=============================================================================
