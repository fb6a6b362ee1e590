----------------------------- MODULE MCOAuthSsh -----------------------------
(***************************************************************************)
(* A small instance of OAuthSsh: one user with one identity and one token,  *)
(* two local accounts, of which either, both or none may be mapped.         *)
(***************************************************************************)
EXTENDS OAuthSsh, TLC

CONSTANTS t1, i1, p1, d1, joe, jane, globus, f1, id, m1

\* t1 is good at tick 1 only, and while f1 is registered.
OneTokenInfo       == t1 :> [iat |-> 0, nbf |-> 1, exp |-> 1, scopes |-> {f1}]
OneProviderOf      == i1 :> p1
OneProviderDomains == p1 :> {d1}
OneUserName        == i1 :> joe
OneUserDomain      == i1 :> d1
NoSciTokens        == <<>>

\* Mapping by the file only, without a session policy and with one that the
\* user does not meet at first.
Relaxed == [ auth_method |-> {"globus_auth"}, idp_suffix |-> None,
             map_files |-> {m1}, permitted_idps |-> {},
             authentication_timeout |-> 0, mfa |-> FALSE, issuers |-> <<>> ]
ServiceConfigs == {Relaxed, [Relaxed EXCEPT !.mfa = TRUE]}

\* No line, one account of the two names, or both.
MapsOfOne == {{}, {<<i1, joe>>}, {<<i1, jane>>}, {<<i1, joe>>, <<i1, jane>>}}

OneWorlds ==
  {[ now |-> 1, active |-> Tokens, linked |-> {i1}, session |-> {}, fqdns |-> {f1},
     files |-> [f \in MapFiles |-> lines], conf |-> c ] : lines \in MapsOfOne, c \in Configs}
=============================================================================
