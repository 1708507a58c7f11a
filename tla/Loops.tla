------------------------------- MODULE Loops --------------------------------
(***************************************************************************)
(* The proof rule of a loop over a slice.  The models write such a loop as *)
(* FoldLeft(op, base, seq); the rule needs the operator as a parameter of  *)
(* the module, because a lemma about an operator cannot be instantiated:   *)
(*                                                                         *)
(*   L == INSTANCE Loops WITH Step <- the body of the loop,                *)
(*                            Inv <- the loop invariant                    *)
(*                                                                         *)
(* env is whatever the body reads besides the accumulator and the element. *)
(***************************************************************************)
EXTENDS Integers, Sequences

CONSTANTS
    Step(_, _, _),     \* Step(env, acc, x): the accumulator after element x
    Inv(_, _, _, _)    \* Inv(env, seq, n, acc): after the first n elements of seq

(* FoldLeft of Slices with the body of the loop. *)
Loop(env, base, seq) ==
    LET acc[n \in 0 .. Len(seq)] == IF n = 0 THEN base ELSE Step(env, acc[n - 1], seq[n])
    IN  acc[Len(seq)]

(* Induction over the natural numbers.  It is a hypothesis of what follows,  *)
(* and not a lemma, so that an instance of this module does not bring the    *)
(* library of well-founded relations along each time; the modules that       *)
(* instantiate it prove it from there.                                       *)
Induction == \A S : 0 \in S /\ (\A n \in Nat : n \in S => n + 1 \in S) => Nat \subseteq S

(* f holds the accumulators of the first n turns. *)
Turns(f, n, env, base, seq) ==
  f = [m \in 0 .. n |-> IF m = 0 THEN base ELSE Step(env, f[m - 1], seq[m])]

(* The recursive definition has a solution for every number of turns. *)
LEMMA TurnsExist ==
  ASSUME Induction, NEW env, NEW base, NEW seq
  PROVE  \A n \in Nat : \E f : Turns(f, n, env, base, seq)
<1> DEFINE S == {n \in Nat : \E f : Turns(f, n, env, base, seq)}
<1>1. 0 \in S
  <2>1. Turns([m \in 0 .. 0 |-> base], 0, env, base, seq)
    BY DEF Turns
  <2> QED BY <2>1
<1>2. ASSUME NEW n \in Nat, n \in S PROVE n + 1 \in S
  <2>1. PICK f : Turns(f, n, env, base, seq)
    BY <1>2
  <2> DEFINE g == [m \in 0 .. n + 1 |-> IF m = n + 1 THEN Step(env, f[n], seq[n + 1]) ELSE f[m]]
  <2>2. ASSUME NEW m \in 0 .. n + 1
        PROVE  g[m] = IF m = 0 THEN base ELSE Step(env, g[m - 1], seq[m])
    <3>1. CASE m = n + 1
      BY <3>1
    <3>2. CASE m \in 0 .. n
      <4>1. f[m] = IF m = 0 THEN base ELSE Step(env, f[m - 1], seq[m])
        BY <2>1, <3>2 DEF Turns
      <4> QED BY <3>2, <4>1
    <3> QED BY <3>1, <3>2
  <2>3. Turns(g, n + 1, env, base, seq)
    <3>1. g = [m \in 0 .. n + 1 |-> g[m]]
      OBVIOUS
    <3> HIDE DEF g
    <3> QED BY <2>2, <3>1 DEF Turns
  <2> QED BY <2>3
<1>3. Nat \subseteq S
  <2> HIDE DEF S
  <2> QED BY <1>1, <1>2 DEF Induction
<1> QED BY <1>3

(* acc has the accumulator after each element of the slice. *)
Steps(acc, env, base, seq) ==
  /\ acc[0] = base
  /\ \A n \in 1 .. Len(seq) : acc[n] = Step(env, acc[n - 1], seq[n])
  /\ Loop(env, base, seq) = acc[Len(seq)]

(* Every loop over a slice has its accumulators. *)
THEOREM LoopSteps ==
  ASSUME Induction, NEW env, NEW base, NEW X, NEW seq \in Seq(X)
  PROVE  \E acc : Steps(acc, env, base, seq)
<1> DEFINE f == CHOOSE f : Turns(f, Len(seq), env, base, seq)
<1>1. Len(seq) \in Nat
  OBVIOUS
<1>2. Turns(f, Len(seq), env, base, seq)
  BY <1>1, TurnsExist
<1>3. Loop(env, base, seq) = f[Len(seq)]
  BY DEF Loop, Turns
<1> HIDE DEF f
<1>4. \A m \in 0 .. Len(seq) : f[m] = IF m = 0 THEN base ELSE Step(env, f[m - 1], seq[m])
  BY <1>2 DEF Turns
<1>5. f[0] = base
  BY <1>1, <1>4
<1>6. \A n \in 1 .. Len(seq) : n \in 0 .. Len(seq) /\ n # 0
  BY <1>1
<1>7. \A n \in 1 .. Len(seq) : f[n] = Step(env, f[n - 1], seq[n])
  BY <1>4, <1>6
<1> QED BY <1>3, <1>5, <1>7 DEF Steps

(* What holds before the loop and is kept by its body holds after it. *)
THEOREM LoopInvariant ==
  ASSUME Induction, NEW env, NEW base, NEW X, NEW seq \in Seq(X),
         Inv(env, seq, 0, base),
         \A n \in 1 .. Len(seq) : \A acc :
            Inv(env, seq, n - 1, acc) => Inv(env, seq, n, Step(env, acc, seq[n]))
  PROVE  Inv(env, seq, Len(seq), Loop(env, base, seq))
<1>1. PICK acc : Steps(acc, env, base, seq)
  BY LoopSteps
<1> DEFINE S == {n \in Nat : n <= Len(seq) => Inv(env, seq, n, acc[n])}
<1>2. 0 \in S
  BY <1>1 DEF Steps
<1>3. ASSUME NEW n \in Nat, n \in S PROVE n + 1 \in S
  <2> SUFFICES ASSUME n + 1 <= Len(seq)
               PROVE  Inv(env, seq, n + 1, acc[n + 1])
    OBVIOUS
  <2>1. n + 1 \in 1 .. Len(seq) /\ (n + 1) - 1 = n /\ Inv(env, seq, n, acc[n])
    BY <1>3
  <2>2. acc[n + 1] = Step(env, acc[n], seq[n + 1])
    BY <1>1, <2>1 DEF Steps
  <2> QED BY <2>1, <2>2
<1>4. Nat \subseteq S
  <2> HIDE DEF S
  <2> QED BY <1>2, <1>3 DEF Induction
<1> QED BY <1>1, <1>4 DEF Steps

(* The accumulators are the only ones there are. *)
THEOREM LoopBy ==
  ASSUME Induction, NEW env, NEW base, NEW X, NEW seq \in Seq(X), NEW f,
         f[0] = base, \A n \in 1 .. Len(seq) : f[n] = Step(env, f[n - 1], seq[n])
  PROVE  Loop(env, base, seq) = f[Len(seq)]
<1>1. PICK acc : Steps(acc, env, base, seq)
  BY LoopSteps
<1> DEFINE S == {n \in Nat : n <= Len(seq) => acc[n] = f[n]}
<1>2. 0 \in S
  BY <1>1 DEF Steps
<1>3. ASSUME NEW n \in Nat, n \in S PROVE n + 1 \in S
  <2> SUFFICES ASSUME n + 1 <= Len(seq) PROVE acc[n + 1] = f[n + 1]
    OBVIOUS
  <2>1. n + 1 \in 1 .. Len(seq) /\ (n + 1) - 1 = n /\ acc[n] = f[n]
    BY <1>3
  <2>2. acc[n + 1] = Step(env, acc[n], seq[n + 1]) /\ f[n + 1] = Step(env, f[n], seq[n + 1])
    BY <1>1, <2>1 DEF Steps
  <2> QED BY <2>1, <2>2
<1>4. Nat \subseteq S
  <2> HIDE DEF S
  <2> QED BY <1>2, <1>3 DEF Induction
<1> QED BY <1>1, <1>4 DEF Steps

(* A loop over two slices in a row. *)
THEOREM LoopConcat ==
  ASSUME Induction, NEW env, NEW base, NEW X, NEW s \in Seq(X), NEW t \in Seq(X)
  PROVE  Loop(env, base, s \o t) = Loop(env, Loop(env, base, s), t)
<1>1. PICK a : Steps(a, env, base, s)
  BY LoopSteps
<1>2. PICK b : Steps(b, env, a[Len(s)], t)
  BY LoopSteps
<1> DEFINE u == s \o t
           f == [n \in 0 .. Len(u) |-> IF n <= Len(s) THEN a[n] ELSE b[n - Len(s)]]
<1>3. /\ u \in Seq(X) /\ Len(u) = Len(s) + Len(t) /\ Len(s) \in Nat /\ Len(t) \in Nat
      /\ \A n \in 1 .. Len(s) : u[n] = s[n]
      /\ \A n \in 1 .. Len(u) : n > Len(s) => u[n] = t[n - Len(s)]
  OBVIOUS
<1> HIDE DEF u
<1>4. ASSUME NEW n \in 1 .. Len(u) PROVE f[n] = Step(env, f[n - 1], u[n])
  <2>1. n \in 0 .. Len(u) /\ n - 1 \in 0 .. Len(u)
    BY <1>3
  <2>2. CASE n <= Len(s)
    <3>1. n \in 1 .. Len(s) /\ f[n] = a[n] /\ f[n - 1] = a[n - 1]
      BY <1>3, <2>1, <2>2
    <3> QED BY <1>1, <1>3, <3>1 DEF Steps
  <2>3. CASE n > Len(s)
    <3> DEFINE m == n - Len(s)
    <3>1. m \in 1 .. Len(t) /\ f[n] = b[m] /\ u[n] = t[m]
      BY <1>3, <2>1, <2>3
    <3>2. b[m] = Step(env, b[m - 1], t[m])
      BY <1>2, <3>1 DEF Steps
    <3>3. f[n - 1] = b[m - 1]
      <4>1. CASE m = 1
        <5>1. f[n - 1] = a[Len(s)]
          BY <1>3, <2>1, <4>1
        <5>2. b[0] = a[Len(s)]
          BY <1>2 DEF Steps
        <5> QED BY <4>1, <5>1, <5>2
      <4>2. CASE m > 1
        BY <1>3, <2>1, <4>2
      <4> QED BY <3>1, <4>1, <4>2
    <3> QED BY <3>1, <3>2, <3>3
  <2> QED BY <1>3, <2>2, <2>3
<1>5. f[0] = base /\ f[Len(u)] = b[Len(t)]
  <2>1. f[0] = base
    BY <1>1, <1>3 DEF Steps
  <2>2. CASE Len(t) = 0
    <3>1. f[Len(u)] = a[Len(s)] /\ b[0] = a[Len(s)]
      BY <1>2, <1>3, <2>2 DEF Steps
    <3> QED BY <2>1, <2>2, <3>1
  <2>3. CASE Len(t) > 0
    <3>1. f[Len(u)] = b[Len(t)]
      BY <1>3, <2>3
    <3> QED BY <2>1, <3>1
  <2> QED BY <1>3, <2>2, <2>3
<1>6. Loop(env, base, u) = f[Len(u)]
  <2>1. u \in Seq(X) /\ f[0] = base
    BY <1>3, <1>5
  <2>2. \A n \in 1 .. Len(u) : f[n] = Step(env, f[n - 1], u[n])
    BY <1>4
  <2> HIDE DEF f
  <2> QED BY <2>1, <2>2, LoopBy
<1>7. Loop(env, base, s) = a[Len(s)] /\ Loop(env, a[Len(s)], t) = b[Len(t)]
  BY <1>1, <1>2 DEF Steps
<1> QED BY <1>5, <1>6, <1>7 DEF u

(* No turn, and one turn. *)
THEOREM LoopOnce ==
  ASSUME Induction, NEW env, NEW base, NEW x
  PROVE  Loop(env, base, <<>>) = base /\ Loop(env, base, <<x>>) = Step(env, base, x)
<1>1. Loop(env, base, <<>>) = base
  <2>1. <<>> \in Seq({x}) /\ Len(<<>>) = 0
    OBVIOUS
  <2>2. PICK f : Steps(f, env, base, <<>>)
    BY <2>1, LoopSteps
  <2> QED BY <2>1, <2>2 DEF Steps
<1>2. Loop(env, base, <<x>>) = Step(env, base, x)
  <2>1. <<x>> \in Seq({x}) /\ Len(<<x>>) = 1 /\ <<x>>[1] = x
    OBVIOUS
  <2>2. PICK f : Steps(f, env, base, <<x>>)
    BY <2>1, LoopSteps
  <2>3. f[1] = Step(env, f[1 - 1], <<x>>[1]) /\ f[0] = base /\ Loop(env, base, <<x>>) = f[1]
    BY <2>1, <2>2 DEF Steps
  <2> QED BY <2>1, <2>3
<1> QED BY <1>1, <1>2

(* One turn more. *)
THEOREM LoopAppend ==
  ASSUME Induction, NEW env, NEW base, NEW X, NEW s \in Seq(X), NEW x \in X
  PROVE  Loop(env, base, Append(s, x)) = Step(env, Loop(env, base, s), x)
<1> DEFINE t == <<x>>
<1>1. t \in Seq(X) /\ Append(s, x) = s \o t
  OBVIOUS
<1>2. Loop(env, Loop(env, base, s), t) = Step(env, Loop(env, base, s), x)
  BY LoopOnce
<1> HIDE DEF t
<1>3. Loop(env, base, s \o t) = Loop(env, Loop(env, base, s), t)
  BY <1>1, LoopConcat
<1> QED BY <1>1, <1>2, <1>3
=============================================================================
