---------------------------- MODULE AtomicBudget ----------------------------
(***************************************************************************)
(* What internal/server/extproc/budget.go promises its callers: a pool of  *)
(* Limit bytes from which streams take, in one step, no more than is free, *)
(* and to which they return no more than they hold.  A Limit that is not   *)
(* positive disables the bound.                                            *)
(***************************************************************************)
EXTENDS Integers, FiniteSets

CONSTANTS Streams, Limit

VARIABLE held   \* bytes each stream holds

Taken == UNION {{s} \X (1..held[s]) : s \in Streams}

Init == held = [s \in Streams |-> 0]

(* The holding of s becomes n, nobody else's changes. *)
Holds(s, n) == held' = [held EXCEPT ![s] = n]

(* Acquire: s takes some bytes; what is taken in all stays within the limit. *)
Take(s) ==
  /\ Holds(s, held'[s])
  /\ held'[s] > held[s]
  /\ Limit > 0 => Cardinality(Taken') <= Limit

(* Release: s returns some of the bytes it acquired before. *)
GiveBack(s) ==
  /\ Holds(s, held'[s])
  /\ held'[s] \in 0..held[s]

Next == \E s \in Streams : Take(s) \/ GiveBack(s)

Spec == Init /\ [][Next]_held
=============================================================================
