------------------------------ MODULE MCLimits ------------------------------
(***************************************************************************)
(* The two engines that keep state between requests.  A behaviour is one   *)
(* of them: focus says which, the variables of the other stay as they      *)
(* started.                                                                *)
(***************************************************************************)
EXTENDS RateLimit, ReplayGuard, TLC

CONSTANTS k1, k2, c1, c2, n1, n2, n3, v1, v2

VARIABLE focus

MCStamp(x) == 2

LimitsInit == focus \in {"rl", "rg"} /\ RLInit /\ RGInit

LimitsNext ==
    \/ focus = "rl" /\ RLNext /\ UNCHANGED <<focus, rgvars>>
    \/ focus = "rg" /\ RGNext /\ UNCHANGED <<focus, rlvars>>

LimitsSpec == LimitsInit /\ [][LimitsNext]_<<focus, rlvars, rgvars>>

Symmetry ==
    Permutations({c1, c2}) \union Permutations({v1, v2}) \union Permutations({k1, k2})
      \union Permutations({n1, n2, n3})
=============================================================================
