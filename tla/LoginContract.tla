---------------------------- MODULE LoginContract ----------------------------
(***************************************************************************)
(* What the PAM module promises about one request, whatever Globus Auth,    *)
(* the user, the administrator and the clock do while it is being served.   *)
(* The promise is two-sided: a login or a list of accounts is justified,    *)
(* and so is every refusal that blames the user.                            *)
(*                                                                          *)
(* evidence is the set of instants seen since the request arrived.  Token,  *)
(* identities and session must have been good at ONE of them; each map file *)
(* and the service's own registration may have been read at another.        *)
(***************************************************************************)
EXTENDS Realm

VARIABLES
  open,       \* a request is being served
  asked,      \* who asks, what, and under which configuration
  evidence,   \* the instants since the request arrived
  status,     \* the control value returned to PAM
  reply       \* the reply meant for the client, or None

vars == <<open, asked, evidence, status, reply>>

Asked == [user: Accounts, request: Request, conf: Config]

----------------------------------------------------------------------------
(* The policy of oauth-ssh.conf, as its comments and README.adoc state it.  *)

Permits(c, idp) ==
  \/ c.permitted_idps = {}
  \/ idp \in c.permitted_idps
  \/ ProviderDomains[idp] \cap c.permitted_idps # {}

\* a is recent, multi-factor and by a permitted provider, all three at once,
\* and that provider is the provider of an identity the user still has linked.
Meets(a, c, linked, now) ==
  /\ c.authentication_timeout # 0 =>
       now - a.auth_time <= Minute * c.authentication_timeout
  /\ c.mfa => a.mfa
  /\ c.permitted_idps # {} =>
       \E i \in linked : /\ ProviderOf[i] = ProviderOf[a.identity]
                         /\ Permits(c, ProviderOf[i])

Unrestricted(c) ==
  c.permitted_idps = {} /\ c.authentication_timeout = 0 /\ ~c.mfa

SessionGood(c, w, now) ==
  Unrestricted(c) \/ \E a \in w.session : Meets(a, c, w.linked, now)

\* at says which instant each map file is read at.
Mapped(c, linked, at) ==
  { acct \in Accounts : \E i \in linked :
      \/ \E f \in c.map_files : <<i, acct>> \in at[f].files[f]
      \/ c.idp_suffix = UserDomain[i] /\ acct = UserName[i] }

----------------------------------------------------------------------------
(* When the user is entitled to an answer, seen from instant w.             *)

InScope(t, fqdns) == TokenInfo[t].scopes \cap ({ClientId} \cup fqdns) # {}
Issued(t, now)    == TokenInfo[t].iat <= now /\ TokenInfo[t].nbf <= now

Entitled(w, q, ev) ==
  LET t == q.request.token IN
  /\ t \in w.active
  /\ TokenInfo[t].exp >= w.now
  /\ SessionGood(q.conf, w, w.now)
  /\ \E v \in ev : InScope(t, v.fqdns)
  /\ \E v \in ev : Issued(t, v.now)

\* The SciToken was good at an instant of the request, and issued for the account
\* by an issuer the site lists.
SciEntitled(q, ev) ==
  /\ q.request.token \in SciTokens
  /\ \E w \in ev : q.request.token \in w.active
  /\ SciUser[q.request.token] = q.user
  /\ \E k \in DOMAIN q.conf.issuers : q.conf.issuers[k] = SciIssuer[q.request.token]

MayLogIn(q, ev) ==
  \/ /\ "scitokens" \in q.conf.auth_method
     /\ SciEntitled(q, ev)
  \/ /\ "globus_auth" \in q.conf.auth_method
     /\ q.request.token \in GlobusTokens
     /\ \E w \in ev : \E at \in [MapFiles -> ev] :
          /\ Entitled(w, q, ev)
          /\ q.user \in Mapped(q.conf, w.linked, at)

MayDisclose(q, ev, accts) ==
  \E w \in ev : \E at \in [MapFiles -> ev] :
    /\ Entitled(w, q, ev)
    /\ accts = Mapped(q.conf, w.linked, at) \cap LocalAccounts

(* Whose fault a refusal says it is.                                        *)
BadToken(q, ev) ==
  \E v \in ev : \/ ~Issued(q.request.token, v.now)
                \/ TokenInfo[q.request.token].exp < v.now
                \/ ~InScope(q.request.token, v.fqdns)

\* The session as it was described at w had become too old, or never met the
\* policy, at the same instant or at a later one.
BadSession(q, ev) ==
  \E w, v \in ev : w.now <= v.now /\ ~SessionGood(q.conf, w, v.now)

BadAccount(q, ev) ==
  \E w \in ev : \E at \in [MapFiles -> ev] :
    /\ Entitled(w, q, ev)
    /\ q.user \notin Mapped(q.conf, w.linked, at)

Justified(q, ev, st, rep) ==
  /\ st = "SUCCESS" => q.request.op \in {"login", "paste"} /\ MayLogIn(q, ev)
  /\ rep # None =>
       CASE rep.code = "ACCOUNT_MAP" -> MayDisclose(q, ev, rep.permitted_accounts)
         [] rep.code = "INVALID_TOKEN" -> BadToken(q, ev)
         [] rep.code = "SESSION_VIOLATION" -> BadSession(q, ev)
         [] rep.code = "INVALID_ACCOUNT" -> BadAccount(q, ev)
         [] OTHER -> TRUE

Harmless(st, rep) ==
  /\ st # "SUCCESS"
  /\ rep # None => rep.code \in {"POLICY", "UNKNOWN_COMMAND"}

----------------------------------------------------------------------------
Init ==
  /\ ~open
  /\ evidence = {}
  /\ Harmless(status, reply)

\* A new attempt starts, or one that needs no evidence is answered.
Prepare ==
  /\ ~open /\ ~open'
  /\ evidence' = {}
  /\ Harmless(status', reply')

Open ==
  /\ ~open /\ open'
  /\ asked' \in Asked
  /\ \E w \in evidence' : evidence' = {w}
  /\ Harmless(status', reply')

Observe ==
  /\ open /\ open'
  /\ \E w \in evidence' : evidence' = evidence \cup {w}
  /\ UNCHANGED <<asked, status, reply>>

Decide ==
  /\ open /\ ~open'
  /\ evidence' = {}
  /\ Justified(asked, evidence, status', reply')

\* The decision is handed over.
Deliver ==
  /\ ~open /\ ~open'
  /\ status' = status /\ reply' = None
  /\ UNCHANGED evidence

Next == Prepare \/ Open \/ Observe \/ Decide \/ Deliver

Spec == Init /\ [][Next]_vars
=============================================================================
