----------------------------- MODULE MCPamOAuth -----------------------------
(***************************************************************************)
(* Small realms for PamOAuth: one user with up to two identities of two     *)
(* providers, one Globus Auth token and up to two SciTokens, two accounts   *)
(* of which one exists locally, two map files.                              *)
(***************************************************************************)
EXTENDS PamOAuth, TLC

CONSTANTS t1, s1, s2, i1, i2, p1, p2, d1, d2, joe, jane, f1, id, m1, m2, iss1, iss2

\* t1 is good at tick 1 only, and while f1 is registered.
MCTokenInfo == [t \in GlobusTokens |-> [iat |-> 0, nbf |-> 1, exp |-> 1, scopes |-> {f1}]]
MCProviderOf      == (i1 :> p1) @@ (i2 :> p2)
MCProviderDomains == (p1 :> {d1}) @@ (p2 :> {d2})
MCUserName        == (i1 :> joe) @@ (i2 :> jane)
MCUserDomain      == (i1 :> d1) @@ (i2 :> d2)
MCSciIssuer       == [s \in SciTokens |-> IF s = s1 THEN iss1 ELSE iss2]
MCSciUser         == [s \in SciTokens |-> joe]

Base == [ auth_method |-> {"globus_auth"}, idp_suffix |-> None,
          map_files |-> {m1}, permitted_idps |-> {},
          authentication_timeout |-> 0, mfa |-> FALSE, issuers |-> <<>> ]

\* No session policy; the mapping comes from the file and the suffix.
Open   == [Base EXCEPT !.idp_suffix = d2]
\* All three session options at once, the provider named by its domain.
Strict == [Base EXCEPT !.permitted_idps = {d1}, !.authentication_timeout = 1,
                       !.mfa = TRUE]
\* A provider named by its id, mapping by suffix only.
ByIdp  == [Base EXCEPT !.permitted_idps = {p2}, !.idp_suffix = d1, !.map_files = {}]
\* One of two issuers listed, or the issuers forgotten.
Sci    == [Base EXCEPT !.auth_method = {"scitokens"}, !.issuers = <<iss1>>]
Both   == [Base EXCEPT !.auth_method = {"scitokens", "globus_auth"}]

PolicyConfigs == {Open, Strict, ByIdp}
SciConfigs    == {Sci, Both}
\* Two map files, and nothing but the map files decides.
FileConfigs   == {[Base EXCEPT !.map_files = {m1, m2}]}
AllConfigs    == PolicyConfigs \cup SciConfigs \cup FileConfigs

MCMapVersions == {{}, {<<i1, joe>>}, {<<i2, jane>>}}

\* The user has not authenticated in this session, and has a second identity
\* where the policy asks for one provider's.
Start(c) ==
  [ now |-> 0, active |-> Tokens, linked |-> IF c = Strict THEN {i1, i2} ELSE {i1},
    session |-> {}, fqdns |-> {f1},
    files |-> [f \in MapFiles |-> IF f = m1 THEN {<<i1, joe>>} ELSE {}], conf |-> c ]
MCInitialWorlds == {Start(c) : c \in Configs}
=============================================================================
