---------------------------- MODULE MCLifecycle ----------------------------
(* Lifecycle on two listeners and two streams, with configs that share an  *)
(* engine set between a domain and its route, split it, drop it, and fail  *)
(* to build before or after a refresher has started.                       *)
EXTENDS Lifecycle, TLC
CONSTANTS s1, s2, domain, route, a, b

MCConfigs ==
  {[policies |-> <<domain, domain>>,        engines |-> (domain :> <<"plain", "jwks">>)],
   [policies |-> <<domain, NoSpec, route>>, engines |-> (domain :> <<"plain">> @@ route :> <<"jwks", "plain">>)],
   [policies |-> <<domain, route>>,         engines |-> (domain :> <<"jwks">> @@ route :> <<"broken">>)]}

Key(kid, kty) == [kid |-> kid, kty |-> kty]
MCDocuments ==
  {<<Key(a, "RSA")>>, <<Key(b, "EC"), Key(a, "oct")>>, <<Key(a, "RSA"), Key(a, "EC")>>, <<Key(a, "bad")>>, Unreachable}
=============================================================================
