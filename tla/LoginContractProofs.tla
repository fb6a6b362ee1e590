-------------------------- MODULE LoginContractProofs --------------------------
(***************************************************************************)
(* PamOAuth implements LoginContract.  The instant the contract asks for is *)
(* the one at which Globus Auth answered the introspection: what was        *)
(* fetched then is still what the later checks read, and what they compare  *)
(* with the clock can only have been better then.                           *)
(***************************************************************************)
EXTENDS PamOAuthProofs

Fetched == {"client", "validate", "identities", "session", "accounts"}

\* w is the instant the introspection describes.
Described(w) ==
  /\ request.token \in w.active \cap GlobusTokens
  /\ introspect.active = TRUE
  /\ introspect.exp = TokenInfo[request.token].exp
  /\ introspect.iat = TokenInfo[request.token].iat
  /\ introspect.nbf = TokenInfo[request.token].nbf
  /\ introspect.scopes = TokenInfo[request.token].scopes
  /\ introspect.identities_set = w.linked
  /\ introspect.session = w.session

\* The map under way has the lines of the files already read, each as it was at
\* some instant of the request.
ReadAt(ids, at, read) == UNION {FileAccounts(ids, at[f].files[f]) : f \in read}

Collected(w) ==
  /\ account_map.unread \subseteq conf.map_files
  /\ \E at \in [MapFiles -> seen] :
       account_map.accounts = ReadAt(w.linked, at, conf.map_files \ account_map.unread)

\* What the checks passed so far have established of that instant.
Established(w) ==
  /\ pc \in {"identities", "session", "accounts"} =>
       /\ TokenInfo[request.token].exp >= w.now
       /\ \E v \in seen : Contract!InScope(request.token, v.fqdns)
       /\ \E v \in seen : Contract!Issued(request.token, v.now)
  /\ pc \in {"session", "accounts"} => identities = w.linked
  /\ pc = "accounts" => Contract!SessionGood(conf, w, w.now) /\ Collected(w)

Witnessed == pc \in Fetched => \E w \in seen : Described(w) /\ Established(w)

Present ==
  /\ pc \in Serving => world \in seen
  /\ pc \notin Serving => seen = {}
  /\ \A w \in seen : w.now <= world.now

Registered == pc = "validate" => \E v \in seen : client.fqdns = v.fqdns

\* Where a request is routed.
Routed ==
  /\ pc \in Serving =>
       /\ request.op \in {"get_account_map", "login", "paste"}
       /\ status = "PENDING" /\ reply = None
  /\ pc \in Serving \ {"scitoken"} /\ request.op # "get_account_map" =>
       "globus_auth" \in conf.auth_method
  /\ pc = "scitoken" =>
       /\ request.op # "get_account_map"
       /\ request.token \in SciTokens
       /\ "scitokens" \in conf.auth_method

\* Nothing is granted before a decision, and a reply waits only for its sending.
Waiting ==
  /\ pc = "prompt" => status = "PENDING"
  /\ pc # "reply" => reply = None

RefInv == TypeInv /\ Witnessed /\ Present /\ Registered /\ Routed /\ Waiting

----------------------------------------------------------------------------
(* The code's checks against the contract's reading of the policy.          *)

\* The loop over the permitted names finds the provider of an authentication
\* exactly when a linked identity has that provider and the policy permits it.
LEMMA LookupMeansLinked ==
  ASSUME NEW c \in Config, NEW ids \in SUBSET Identities, NEW i \in Identities
  PROVE  LET p == LookupIdp(ids, ProviderOf[i]) IN
         (p # None /\ MatchesIdp(c, p))
         <=> \E j \in ids : ProviderOf[j] = ProviderOf[i] /\
               (ProviderOf[j] \in c.permitted_idps
                \/ ProviderDomains[ProviderOf[j]] \cap c.permitted_idps # {})
<1>1. ProviderOf[i] \in Providers /\ ProviderOf[i] # None
  BY RealmAssumption DEF RealmAssumption
<1>2. MatchesIdp(c, ProviderOf[i]) <=>
        \/ ProviderOf[i] \in c.permitted_idps
        \/ ProviderDomains[ProviderOf[i]] \cap c.permitted_idps # {}
  BY DEF MatchesIdp
<1>3. CASE \E j \in ids : ProviderOf[j] = ProviderOf[i]
  BY <1>1, <1>2, <1>3 DEF LookupIdp
<1>4. CASE ~ \E j \in ids : ProviderOf[j] = ProviderOf[i]
  BY <1>4 DEF LookupIdp
<1> QED BY <1>3, <1>4

\* An authentication that passes the body of the loop meets the policy, and the
\* reverse.
LEMMA PassesMeansMeets ==
  ASSUME NEW c \in Config, NEW a \in Authentication, NEW ids \in SUBSET Identities,
         NEW now \in Int
  PROVE  AuthenticationPasses(c, a, ids, now) <=> Contract!Meets(a, c, ids, now)
<1>1. a.identity \in Identities /\ a.auth_time \in Int /\ a.mfa \in BOOLEAN
  BY DEF Authentication
<1>2. Minute \in Int /\ c.authentication_timeout \in Int /\ c.mfa \in BOOLEAN
  BY RealmAssumption DEF RealmAssumption, Config
<1>3. SessionLimit(c) \in Int
  BY <1>2 DEF SessionLimit
<1>4. ~(now - a.auth_time > SessionLimit(c)) <=> now - a.auth_time <= SessionLimit(c)
  BY <1>1, <1>3
<1> DEFINE Linked == \E j \in ids :
               /\ ProviderOf[j] = ProviderOf[a.identity]
               /\ (ProviderOf[j] \in c.permitted_idps
                   \/ ProviderDomains[ProviderOf[j]] \cap c.permitted_idps # {})
<1>5. LET p == LookupIdp(ids, ProviderOf[a.identity])
      IN  (p # None /\ MatchesIdp(c, p)) <=> Linked
  BY <1>1, LookupMeansLinked
<1>6. c.permitted_idps # {} =>
        (Linked <=> \E j \in ids : ProviderOf[j] = ProviderOf[a.identity]
                                   /\ Contract!Permits(c, ProviderOf[j]))
  BY DEF Contract!Permits
<1> HIDE DEF Linked
<1>7. AuthenticationPasses(c, a, ids, now) <=>
        /\ c.authentication_timeout = 0 \/ now - a.auth_time <= SessionLimit(c)
        /\ ~c.mfa \/ a.mfa
        /\ c.permitted_idps = {} \/ Linked
  BY <1>2, <1>4, <1>5 DEF AuthenticationPasses
<1>8. Contract!Meets(a, c, ids, now) <=>
        /\ c.authentication_timeout = 0 \/ now - a.auth_time <= SessionLimit(c)
        /\ ~c.mfa \/ a.mfa
        /\ c.permitted_idps = {} \/ Linked
  BY <1>6 DEF Contract!Meets, SessionLimit
<1> QED BY <1>7, <1>8

\* Time only takes policy away: what meets it at a later instant met it before.
LEMMA MeetsEarlier ==
  ASSUME NEW c \in Config, NEW a \in Authentication, NEW ids \in SUBSET Identities,
         NEW now \in Int, NEW then \in Int, then <= now,
         Contract!Meets(a, c, ids, now)
  PROVE  Contract!Meets(a, c, ids, then)
<1>1. a.auth_time \in Int
  BY DEF Authentication
<1>2. SessionLimit(c) \in Int
  BY RealmAssumption DEF RealmAssumption, Config, SessionLimit
<1>3. now - a.auth_time <= SessionLimit(c) => then - a.auth_time <= SessionLimit(c)
  BY <1>1, <1>2
<1> QED BY <1>3 DEF Contract!Meets, SessionLimit

\* _is_session_valid() on the introspection of an instant judges the session of
\* that instant.
LEMMA SessionSame ==
  ASSUME NEW c \in Config, NEW w \in World, NEW intro, intro.session = w.session,
         NEW now \in Int
  PROVE  IsSessionValid(c, intro, w.linked, now) <=> Contract!SessionGood(c, w, now)
<1>1. w.session \in SUBSET Authentication /\ w.linked \in SUBSET Identities
  BY DEF World
<1>2. \A a \in w.session :
        AuthenticationPasses(c, a, w.linked, now) <=> Contract!Meets(a, c, w.linked, now)
  BY <1>1, PassesMeansMeets
<1> QED BY <1>2 DEF IsSessionValid, Contract!SessionGood, Contract!Unrestricted

\* A session that is good now was good when it was described.
LEMMA SessionEarlier ==
  ASSUME NEW c \in Config, NEW w \in World, NEW now \in Int, w.now <= now,
         Contract!SessionGood(c, w, now)
  PROVE  Contract!SessionGood(c, w, w.now)
<1>1. w.session \in SUBSET Authentication /\ w.linked \in SUBSET Identities /\ w.now \in Int
  BY DEF World
<1>2. \A a \in w.session :
        Contract!Meets(a, c, w.linked, now) => Contract!Meets(a, c, w.linked, w.now)
  BY <1>1, MeetsEarlier
<1> QED BY <1>2 DEF Contract!SessionGood

\* What is read is in one of the files read.
LEMMA ReadAtMember ==
  ASSUME NEW ids, NEW at, NEW read, NEW x
  PROVE  x \in ReadAt(ids, at, read)
         <=> \E f \in read : x \in FileAccounts(ids, at[f].files[f])
  BY DEF ReadAt

\* File by file and usernames last, or the accounts of each identity: the same
\* accounts.
LEMMA AccountMapSame ==
  ASSUME NEW c \in Config, NEW ids \in SUBSET Identities, NEW at,
         \A f \in c.map_files : at[f].files[f] \in SUBSET MapLines
  PROVE  ReadAt(ids, at, c.map_files) \cup SuffixAccounts(c, ids) = Contract!Mapped(c, ids, at)
<1> DEFINE Built == ReadAt(ids, at, c.map_files) \cup SuffixAccounts(c, ids)
<1>1. \A i \in ids : UserName[i] \in Accounts
  BY RealmAssumption DEF RealmAssumption
<1>2. \A f \in c.map_files : \A x :
        x \in FileAccounts(ids, at[f].files[f])
        <=> x \in Accounts /\ \E i \in ids : <<i, x>> \in at[f].files[f]
  <2> SUFFICES ASSUME NEW f \in c.map_files, NEW x
               PROVE  x \in FileAccounts(ids, at[f].files[f])
                      <=> x \in Accounts /\ \E i \in ids : <<i, x>> \in at[f].files[f]
    OBVIOUS
  <2>1. ASSUME x \in FileAccounts(ids, at[f].files[f])
        PROVE  x \in Accounts /\ \E i \in ids : <<i, x>> \in at[f].files[f]
    <3>1. PICK l \in at[f].files[f] : l[1] \in ids /\ x = l[2]
      BY <2>1 DEF FileAccounts
    <3>2. l = <<l[1], l[2]>> /\ l[2] \in Accounts
      BY <3>1 DEF MapLines
    <3> QED BY <3>1, <3>2
  <2>2. ASSUME NEW i \in ids, <<i, x>> \in at[f].files[f]
        PROVE  x \in FileAccounts(ids, at[f].files[f])
    <3>1. <<i, x>>[1] = i /\ <<i, x>>[2] = x
      OBVIOUS
    <3> QED BY <2>2, <3>1 DEF FileAccounts
  <2> QED BY <2>1, <2>2
<1>3. \A x : x \in SuffixAccounts(c, ids)
            <=> \E i \in ids : c.idp_suffix = UserDomain[i] /\ x = UserName[i]
  BY DEF SuffixAccounts
<1>4. \A x : x \in Built <=> \/ \E f \in c.map_files : x \in FileAccounts(ids, at[f].files[f])
                            \/ x \in SuffixAccounts(c, ids)
  BY ReadAtMember
<1> HIDE DEF Built
<1>5. \A x : x \in Contract!Mapped(c, ids, at)
            <=> /\ x \in Accounts
                /\ \/ \E f \in c.map_files : \E i \in ids : <<i, x>> \in at[f].files[f]
                   \/ \E i \in ids : c.idp_suffix = UserDomain[i] /\ x = UserName[i]
  BY DEF Contract!Mapped
<1>6. ASSUME NEW x PROVE x \in Built <=> x \in Contract!Mapped(c, ids, at)
  <2>1. x \in SuffixAccounts(c, ids) => x \in Accounts
    BY <1>1, <1>3
  <2>2. (\E f \in c.map_files : x \in FileAccounts(ids, at[f].files[f]))
        <=> x \in Accounts /\ \E f \in c.map_files : \E i \in ids : <<i, x>> \in at[f].files[f]
    BY <1>2
  <2> QED BY <1>3, <1>4, <1>5, <2>1, <2>2
<1>7. Built = Contract!Mapped(c, ids, at)
  BY <1>6
<1> QED BY <1>7 DEF Built

\* _is_token_valid() against the contract: what it accepts was in time at every
\* earlier instant too, what it refuses is bad now.
LEMMA TokenSame ==
  ASSUME NEW t \in GlobusTokens, NEW intro, NEW fqdns, NEW now \in Int,
         intro.active = TRUE,
         intro.exp = TokenInfo[t].exp, intro.iat = TokenInfo[t].iat,
         intro.nbf = TokenInfo[t].nbf, intro.scopes = TokenInfo[t].scopes
  PROVE  IsTokenValid(intro, fqdns, now) <=>
           /\ TokenInfo[t].exp >= now
           /\ Contract!Issued(t, now)
           /\ Contract!InScope(t, fqdns)
<1>1. TokenInfo[t] \in Claims
  BY RealmAssumption DEF RealmAssumption
<1>2. TokenInfo[t].exp \in Int /\ TokenInfo[t].iat \in Int /\ TokenInfo[t].nbf \in Int
  BY <1>1 DEF Claims
<1>3. IsScopeInString(intro.scopes, fqdns) <=> Contract!InScope(t, fqdns)
  BY DEF IsScopeInString, Contract!InScope
<1>4. ~(intro.exp < now) <=> TokenInfo[t].exp >= now
  BY <1>2
<1>5. (~(intro.iat > now) /\ ~(intro.nbf > now)) <=> Contract!Issued(t, now)
  BY <1>2 DEF Contract!Issued
<1> QED BY <1>3, <1>4, <1>5 DEF IsTokenValid

----------------------------------------------------------------------------
(* One lemma per kind of step: it keeps the invariant and is a step of the  *)
(* contract, or leaves the contract's variables alone.                      *)

Asked == [user |-> user, request |-> request, conf |-> conf]

RefInvRest == Witnessed /\ Present /\ Registered /\ Routed /\ Waiting

\* A change of the outside is one more instant of evidence, and takes no witness
\* away.
LEMMA OutsideRef ==
  ASSUME RefInv, Outside
  PROVE  RefInvRest' /\ [Contract!Next]_(Contract!vars)
<1>1. /\ UNCHANGED <<pc, user, conf, request, introspect, client, identities, account_map,
                     status, reply>>
      /\ seen' = IF pc \in Serving THEN seen \cup {world'} ELSE seen
  BY DEF Outside, Tick, Deactivate, Link, Unlink, Authenticate, EditMap, EditConf,
         Register, Event, Becomes, locals
<1>2. world.now \in Int
  BY DEF RefInv, TypeInv, TypeOK, World
<1>3. world'.now >= world.now
  BY <1>2 DEF Outside, Tick, Deactivate, Link, Unlink, Authenticate, EditMap, EditConf,
         Register, Event, Becomes, RefInv, TypeInv, TypeOK, World
<1>4. \A w \in seen : w.now \in Int
  BY DEF RefInv, TypeInv, TypeOK, World
<1>5. world'.now \in Int
  BY OutsideInv DEF RefInv, TypeInv, TypeOK, World
<1>6. Present'
  BY <1>1, <1>2, <1>3, <1>4, <1>5 DEF RefInv, Present
<1>7. Witnessed'
  <2>1. SUFFICES ASSUME pc \in Fetched PROVE Witnessed'
    BY <1>1 DEF Witnessed
  <2>2. PICK w \in seen : Described(w) /\ Established(w)
    BY <2>1 DEF RefInv, Witnessed
  <2>3. w \in seen' /\ seen \subseteq seen'
    BY <1>1
  <2>4. Described(w)'
    BY <1>1, <2>2 DEF Described
  <2>5. ASSUME Collected(w) PROVE Collected(w)'
    <3>1. PICK at \in [MapFiles -> seen] : account_map.accounts =
            ReadAt(w.linked, at, conf.map_files \ account_map.unread)
      BY <2>5 DEF Collected
    <3>2. at \in [MapFiles -> seen']
      BY <2>3, <3>1
    <3>3. account_map'.unread \subseteq conf'.map_files
      BY <1>1, <2>5 DEF Collected
    <3>4. account_map'.accounts = ReadAt(w.linked, at, conf'.map_files \ account_map'.unread)
      BY <1>1, <3>1
    <3> QED BY <3>2, <3>3, <3>4 DEF Collected
  <2>6. Established(w)'
    BY <1>1, <2>2, <2>3, <2>5 DEF Established, Contract!SessionGood, Contract!InScope, Contract!Issued
  <2> QED BY <2>3, <2>4, <2>6 DEF Witnessed
<1>8. Registered' /\ Routed' /\ Waiting'
  BY <1>1 DEF RefInv, Registered, Routed, Waiting
<1>9. ASSUME pc \in Serving PROVE [Contract!Next]_(Contract!vars)
  BY <1>1, <1>9 DEF Contract!Next, Contract!Observe
<1>10. ASSUME pc \notin Serving PROVE [Contract!Next]_(Contract!vars)
  BY <1>1, <1>10 DEF Contract!vars
<1> QED BY <1>6, <1>7, <1>8, <1>9, <1>10 DEF RefInvRest

\* A justified answer is a decision of the contract.
LEMMA AnswerRef ==
  ASSUME RefInv, pc \in Serving, NEW st, NEW rep, Answer(st, rep),
         Contract!Justified(Asked, seen, st, rep)
  PROVE  RefInvRest' /\ [Contract!Next]_(Contract!vars)
<1>1. Contract!Decide
  BY DEF Answer, Contract!Decide, Asked, Serving
<1>2. RefInvRest'
  BY DEF Answer, RefInv, RefInvRest, Witnessed, Fetched, Present, Registered, Routed,
         Waiting, Serving
<1> QED BY <1>1, <1>2 DEF Contract!Next

\* A return without a pending decision to hand over.
LEMMA ReturnRef ==
  ASSUME RefInv, NEW st, Return(st), st # "SUCCESS"
  PROVE  RefInvRest' /\ [Contract!Next]_(Contract!vars)
<1>1. RefInvRest'
  BY DEF Return, RefInv, RefInvRest, Witnessed, Fetched, Present, Registered, Routed,
         Waiting, Serving
<1>2. ASSUME pc \in Serving PROVE [Contract!Next]_(Contract!vars)
  BY <1>2 DEF Return, Contract!Next, Contract!Decide, Contract!Justified, Serving
<1>3. ASSUME pc \notin Serving PROVE [Contract!Next]_(Contract!vars)
  BY <1>3 DEF Return, Contract!Next, Contract!Prepare, Contract!Harmless, Serving
<1> QED BY <1>1, <1>2, <1>3

\* config_init() and the prompt come before any evidence.
LEMMA BeginRef ==
  ASSUME RefInv, NEW u \in Accounts, Begin(u)
  PROVE  RefInvRest' /\ [Contract!Next]_(Contract!vars)
<1>1. RefInvRest'
  BY DEF Begin, RefInv, RefInvRest, Witnessed, Fetched, Present, Registered, Routed,
         Waiting, Serving, environment, locals, history
<1>2. Contract!Prepare
  BY DEF Begin, Contract!Prepare, Contract!Harmless, Serving, RefInv, Present, Waiting, history
<1> QED BY <1>1, <1>2 DEF Contract!Next

\* Receiving a command opens a request of the contract, or answers it harmlessly.
LEMMA ReceiveRef ==
  ASSUME RefInv, NEW q \in Request, Receive(q)
  PROVE  RefInvRest' /\ [Contract!Next]_(Contract!vars)
<1>1. world' = world /\ conf' = conf /\ user' = user /\ request' = q /\ pc = "prompt"
  BY DEF Receive, environment
<1>2. status = "PENDING" /\ reply = None
  BY <1>1 DEF RefInv, Waiting
<1>3. q.token # None => q.token \in Tokens
  BY DEF Request
<1>4. CASE pc' = "reply"
  <2>1. seen' = {} /\ Contract!Harmless(status', reply')
    BY <1>2, <1>4 DEF Receive, Contract!Harmless, Encode, ErrorReply
  <2>2. RefInvRest'
    BY <1>4, <2>1 DEF RefInvRest, Witnessed, Fetched, Present, Registered, Routed, Waiting, Serving
  <2>3. Contract!Prepare
    BY <1>1, <1>4, <2>1 DEF Contract!Prepare, Serving
  <2> QED BY <2>2, <2>3 DEF Contract!Next
<1>5. CASE pc' # "reply"
  <2>1. /\ pc' \in {"introspect", "scitoken"}
        /\ seen' = {world} /\ status' = status /\ reply' = reply
        /\ q.token # None /\ q.op \in {"get_account_map", "login", "paste"}
        /\ pc' = "scitoken" => /\ q.op # "get_account_map"
                               /\ q.token \in SciTokens /\ "scitokens" \in conf.auth_method
        /\ pc' = "introspect" /\ q.op # "get_account_map" => "globus_auth" \in conf.auth_method
    BY <1>5 DEF Receive
  <2>2. world.now \in Int
    BY DEF RefInv, TypeInv, TypeOK, World
  <2>3. RefInvRest'
    BY <1>1, <1>2, <2>1, <2>2 DEF RefInvRest, Witnessed, Fetched, Present, Registered, Routed,
       Waiting, Serving
  <2>4. Asked' \in Contract!Asked
    <3>1. conf \in Config
      BY <1>1, PamAssumption DEF RefInv, TypeInv, ConfKnown, Serving
    <3>2. q \in Contract!Request
      BY DEF Request, Ops, Tokens, Contract!Request, Contract!Ops, Contract!Tokens
    <3> QED BY <1>1, <3>1, <3>2 DEF Asked, Contract!Asked, Config, Contract!Config, RefInv, TypeInv, TypeOK,
               IdpNames, Contract!IdpNames
  <2>5. Contract!Open
    BY <1>1, <1>2, <2>1, <2>4 DEF Contract!Open, Contract!Harmless, Asked, Serving
  <2> QED BY <2>3, <2>5 DEF Contract!Next
<1> QED BY <1>4, <1>5

\* A step to the next check is no step of the contract; what it owes is a
\* witness that fits the new control point.
LEMMA ContinueRef ==
  ASSUME RefInv, NEW label \in Serving \ {"scitoken"}, Continue(label),
         pc \in Serving \ {"scitoken"},
         label \in Fetched => \E w \in seen : Described(w)' /\ Established(w)',
         label = "validate" => \E v \in seen : client'.fqdns = v.fqdns
  PROVE  RefInvRest' /\ [Contract!Next]_(Contract!vars)
<1>1. /\ UNCHANGED <<world, user, conf, request, status, reply, seen>>
      /\ pc' = label
  BY DEF Continue, environment, history
<1>2. [Contract!Next]_(Contract!vars)
  BY <1>1 DEF Contract!vars
<1>3. Witnessed' /\ Registered'
  BY <1>1 DEF Witnessed, Registered
<1>4. Present' /\ Routed' /\ Waiting'
  BY <1>1 DEF RefInv, Present, Routed, Waiting, Serving
<1> QED BY <1>2, <1>3, <1>4 DEF RefInvRest

\* The instant of the introspection becomes the witness.
LEMMA IntrospectRef ==
  ASSUME RefInv, Introspect
  PROVE  RefInvRest' /\ [Contract!Next]_(Contract!vars)
<1>1. world \in seen /\ pc = "introspect"
  BY DEF RefInv, Present, Introspect, Serving
<1>2. UNCHANGED <<request, seen, conf, world>> /\ pc' = "client"
  BY DEF Introspect, Continue, environment, history
<1>3. Described(world)' /\ Established(world)'
  BY <1>2 DEF Described, Established, Introspect
<1> QED BY <1>1, <1>2, <1>3, ContinueRef DEF Introspect, Serving

\* The second call leaves the witness alone and reads the registration.
LEMMA GetClientRef ==
  ASSUME RefInv, GetClient
  PROVE  RefInvRest' /\ [Contract!Next]_(Contract!vars)
<1>1. world \in seen /\ pc = "client"
  BY DEF RefInv, Present, GetClient, Serving
<1>2. UNCHANGED <<request, seen, conf, introspect>> /\ pc' = "validate"
  BY DEF GetClient, Continue, history
<1>3. PICK w \in seen : Described(w)
  BY <1>1 DEF RefInv, Witnessed, Fetched
<1>4. Described(w)' /\ Established(w)'
  BY <1>2, <1>3 DEF Described, Established
<1>5. client'.fqdns = world.fqdns
  BY DEF GetClient
<1> QED BY <1>1, <1>3, <1>4, <1>5, ContinueRef DEF GetClient, Serving

\* _is_token_valid() establishes the token at the witness, or has an instant that
\* shows it bad.
LEMMA ValidateTokenRef ==
  ASSUME RefInv, ValidateToken
  PROVE  RefInvRest' /\ [Contract!Next]_(Contract!vars)
<1>1. world \in seen /\ pc = "validate"
  BY DEF RefInv, Present, ValidateToken, Serving
<1>2. PICK w \in seen : Described(w)
  BY <1>1 DEF RefInv, Witnessed, Fetched
<1>3. PICK v \in seen : client.fqdns = v.fqdns
  BY <1>1 DEF RefInv, Registered
<1> DEFINE t == request.token
<1>4. t \in GlobusTokens /\ world.now \in Int /\ w.now \in Int /\ w.now <= world.now
  BY <1>2 DEF Described, RefInv, Present, TypeInv, TypeOK, World
<1>5. TokenInfo[t].exp \in Int
  BY <1>4, RealmAssumption DEF RealmAssumption, Claims
<1>6. IsTokenValid(introspect, client.fqdns, world.now) <=>
        /\ TokenInfo[t].exp >= world.now
        /\ Contract!Issued(t, world.now)
        /\ Contract!InScope(t, v.fqdns)
  BY <1>2, <1>3, <1>4, TokenSame DEF Described
<1>7. CASE IsTokenValid(introspect, client.fqdns, world.now)
  <2>1. Continue("identities") /\ UNCHANGED locals
    BY <1>7 DEF ValidateToken
  <2>2. UNCHANGED <<request, seen, conf, introspect>> /\ pc' = "identities"
    BY <2>1 DEF Continue, history, locals
  <2>3. Described(w)'
    BY <1>2, <2>2 DEF Described
  <2>4. TokenInfo[t].exp >= w.now
    BY <1>4, <1>5, <1>6, <1>7
  <2>5. Contract!Issued(t, world.now) /\ Contract!InScope(t, v.fqdns)
    BY <1>6, <1>7
  <2>6. Established(w)'
    BY <1>1, <1>3, <2>2, <2>4, <2>5 DEF Established, Contract!Issued, Contract!InScope
  <2> QED BY <1>1, <1>2, <2>1, <2>3, <2>6, ContinueRef DEF Serving
<1>8. CASE ~IsTokenValid(introspect, client.fqdns, world.now)
  <2>1. Answer("AUTH_ERR", ErrorReply("INVALID_TOKEN"))
    BY <1>8 DEF ValidateToken
  <2>2. Contract!BadToken(Asked, seen)
    BY <1>1, <1>3, <1>4, <1>5, <1>6, <1>8 DEF Contract!BadToken, Asked
  <2>3. ErrorReply("INVALID_TOKEN").code = "INVALID_TOKEN"
    BY DEF ErrorReply
  <2>4. Contract!Justified(Asked, seen, "AUTH_ERR", ErrorReply("INVALID_TOKEN"))
    BY <2>2, <2>3 DEF Contract!Justified
  <2> QED BY <1>1, <2>1, <2>4, AnswerRef DEF Serving
<1> QED BY <1>7, <1>8

\* The third call asks for the identities of the witness.
LEMMA GetIdentitiesRef ==
  ASSUME RefInv, GetIdentities
  PROVE  RefInvRest' /\ [Contract!Next]_(Contract!vars)
<1>1. pc = "identities"
  BY DEF GetIdentities
<1>2. PICK w \in seen : Described(w) /\ Established(w)
  BY <1>1 DEF RefInv, Witnessed, Fetched
<1>3. UNCHANGED <<request, seen, conf, introspect>> /\ pc' = "session"
  BY DEF GetIdentities, Continue, history
<1>4. Described(w)' /\ Established(w)'
  BY <1>1, <1>2, <1>3
     DEF Described, Established, GetIdentities, Contract!Issued, Contract!InScope
<1> QED BY <1>1, <1>2, <1>4, ContinueRef DEF GetIdentities, Serving

\* A refusal the contract allows without evidence, or no reply at all.
LEMMA PlainAnswer ==
  ASSUME RefInv, pc \in Serving, NEW st, st # "SUCCESS", NEW rep, Answer(st, rep),
         rep # None => rep.code = "UNEXPECTED_ERROR"
  PROVE  RefInvRest' /\ [Contract!Next]_(Contract!vars)
<1>1. Contract!Justified(Asked, seen, st, rep)
  BY DEF Contract!Justified
<1> QED BY <1>1, AnswerRef

\* A failed call, or an inactive token, is answered without an accusation.
LEMMA FailedCallRef ==
  ASSUME RefInv,
         IntrospectInactive \/ IntrospectFails \/ GetClientFails \/ GetIdentitiesFails
  PROVE  RefInvRest' /\ [Contract!Next]_(Contract!vars)
<1>1. PICK rep \in {None, ErrorReply("UNEXPECTED_ERROR")} : Answer("AUTHINFO_UNAVAIL", rep)
  BY DEF IntrospectInactive, IntrospectFails, GetClientFails, GetIdentitiesFails
<1>2. pc \in Serving
  BY DEF IntrospectInactive, IntrospectFails, GetClientFails, GetIdentitiesFails, Serving
<1>3. rep # None => rep.code = "UNEXPECTED_ERROR"
  BY DEF ErrorReply
<1> QED BY <1>1, <1>2, <1>3, PlainAnswer

\* The identities fetched third are those of the introspection, so the session
\* check reads one instant; only the clock is later.
LEMMA CheckSessionRef ==
  ASSUME RefInv, CheckSession
  PROVE  RefInvRest' /\ [Contract!Next]_(Contract!vars)
<1>1. pc = "session" /\ world \in seen
  BY DEF RefInv, Present, CheckSession, Serving
<1>2. PICK w \in seen : Described(w) /\ Established(w)
  BY <1>1 DEF RefInv, Witnessed, Fetched
<1>3. conf \in Config
  BY <1>1, PamAssumption DEF PamAssumption, RefInv, TypeInv, ConfKnown, Serving
<1>4. w \in World /\ world.now \in Int /\ w.now <= world.now
  BY DEF RefInv, TypeInv, TypeOK, Present, World
<1>5. identities = w.linked /\ introspect.session = w.session
  BY <1>1, <1>2 DEF Described, Established
<1>6. IsSessionValid(conf, introspect, identities, world.now)
        <=> Contract!SessionGood(conf, w, world.now)
  BY <1>3, <1>4, <1>5, SessionSame
<1>7. CASE IsSessionValid(conf, introspect, identities, world.now)
  <2>1. /\ Continue("accounts") /\ UNCHANGED <<introspect, identities>>
        /\ account_map' = [unread |-> conf.map_files, accounts |-> {}]
    BY <1>7 DEF CheckSession
  <2>2. UNCHANGED <<request, seen, conf, introspect, identities>> /\ pc' = "accounts"
    BY <2>1 DEF Continue, history
  <2>3. Contract!SessionGood(conf, w, w.now)
    BY <1>3, <1>4, <1>6, <1>7, SessionEarlier
  <2>4. Contract!SessionGood(conf, w, w.now)'
    BY <2>2, <2>3 DEF Contract!SessionGood
  <2>5. Described(w)'
    BY <1>2, <2>2 DEF Described
  <2>6. Collected(w)'
    <3>1. PICK at \in [MapFiles -> seen'] : TRUE
      <4>1. [f \in MapFiles |-> w] \in [MapFiles -> seen']
        BY <2>2
      <4> QED BY <4>1
    <3>2. /\ account_map'.unread \subseteq conf'.map_files
          /\ conf'.map_files \ account_map'.unread = {} /\ account_map'.accounts = {}
      BY <2>1, <2>2
    <3>3. ReadAt(w.linked, at, {}) = {}
      BY ReadAtMember
    <3> QED BY <3>1, <3>2, <3>3 DEF Collected
  <2>7. Established(w)'
    BY <1>1, <1>2, <2>2, <2>4, <2>6 DEF Established, Contract!Issued, Contract!InScope
  <2> QED BY <1>1, <1>2, <2>1, <2>5, <2>7, ContinueRef DEF Serving
<1>8. CASE ~IsSessionValid(conf, introspect, identities, world.now)
  <2>1. PICK rep \in {ErrorReply("SESSION_VIOLATION"), Encode(ErrorReply("SESSION_VIOLATION"))} :
          Answer("AUTH_ERR", rep)
    BY <1>8 DEF CheckSession
  <2>2. rep.code = "SESSION_VIOLATION"
    BY DEF ErrorReply, Encode
  <2>3. Contract!BadSession(Asked, seen)
    BY <1>1, <1>4, <1>6, <1>8 DEF Contract!BadSession, Asked
  <2>4. Contract!Justified(Asked, seen, "AUTH_ERR", rep)
    BY <2>2, <2>3 DEF Contract!Justified
  <2> QED BY <1>1, <2>1, <2>4, AnswerRef DEF Serving
<1> QED BY <1>7, <1>8

\* One more file, as it is now.
LEMMA ReadMapFileRef ==
  ASSUME RefInv, NEW f \in MapFiles, ReadMapFile(f)
  PROVE  RefInvRest' /\ [Contract!Next]_(Contract!vars)
<1>1. pc = "accounts" /\ world \in seen
  BY DEF RefInv, Present, ReadMapFile, Serving
<1>2. PICK w \in seen : Described(w) /\ Established(w)
  BY <1>1 DEF RefInv, Witnessed, Fetched
<1>3. UNCHANGED <<request, seen, conf, introspect, identities>> /\ pc' = "accounts"
  BY DEF ReadMapFile, Continue, history
<1>4. Described(w)' /\ identities = w.linked
  BY <1>1, <1>2, <1>3 DEF Described, Established
<1>5. PICK at \in [MapFiles -> seen] : account_map.accounts =
        ReadAt(w.linked, at, conf.map_files \ account_map.unread)
  BY <1>1, <1>2 DEF Established, Collected
<1>6. conf.map_files \in SUBSET MapFiles /\ f \in account_map.unread
  BY <1>1, PamAssumption
     DEF PamAssumption, RefInv, TypeInv, ConfKnown, Serving, Config, ReadMapFile
<1>7. Collected(w)'
  <2> DEFINE now == [at EXCEPT ![f] = world]
             Read == conf.map_files \ account_map.unread
             More == FileAccounts(w.linked, world.files[f])
  <2>1. now \in [MapFiles -> seen]
    BY <1>1
  <2>2. now[f] = world /\ \A g \in Read : now[g] = at[g]
    BY <1>6
  <2>3. account_map'.accounts = account_map.accounts \cup More
    BY <1>4 DEF ReadMapFile
  <2>4. f \in conf.map_files /\ conf.map_files \ account_map'.unread = Read \cup {f}
    BY <1>1, <1>2, <1>6 DEF ReadMapFile, Established, Collected
  <2> HIDE DEF now, Read, More
  <2>5. \A x : x \in ReadAt(w.linked, now, Read \cup {f})
               <=> x \in ReadAt(w.linked, at, Read) \/ x \in More
    BY <2>2, ReadAtMember DEF More
  <2>6. account_map'.accounts = ReadAt(w.linked, now, Read \cup {f})
    BY <1>5, <2>3, <2>5 DEF Read
  <2>7. account_map'.unread \subseteq conf.map_files
    BY <1>1, <1>2 DEF Established, Collected, ReadMapFile
  <2> QED BY <1>3, <2>1, <2>4, <2>6, <2>7 DEF Collected
<1>8. Established(w)'
  BY <1>1, <1>2, <1>3, <1>7
     DEF Established, Contract!Issued, Contract!InScope, Contract!SessionGood
<1> QED BY <1>1, <1>2, <1>4, <1>8, ContinueRef DEF ReadMapFile, Serving

\* The files are read, and the decision follows from their accounts and from
\* the usernames of the witness.
LEMMA MapAccountsRef ==
  ASSUME RefInv, MapAccounts
  PROVE  RefInvRest' /\ [Contract!Next]_(Contract!vars)
<1>1. pc = "accounts" /\ world \in seen
  BY DEF RefInv, Present, MapAccounts, Serving
<1>2. PICK w \in seen : Described(w) /\ Established(w)
  BY <1>1 DEF RefInv, Witnessed, Fetched
<1>3. conf \in Config
  BY <1>1, PamAssumption DEF PamAssumption, RefInv, TypeInv, ConfKnown, Serving
<1>4. w.linked \in SUBSET Identities /\ identities = w.linked
  BY <1>1, <1>2 DEF RefInv, TypeInv, TypeOK, World, Established
<1> DEFINE accts == account_map.accounts \cup SuffixAccounts(conf, identities)
<1>0. PICK at \in [MapFiles -> seen] : account_map.accounts =
        ReadAt(w.linked, at, conf.map_files \ account_map.unread)
  BY <1>1, <1>2 DEF Established, Collected
<1>5. accts = Contract!Mapped(conf, w.linked, at)
  <2>1. conf.map_files \ account_map.unread = conf.map_files /\ conf.map_files \in SUBSET MapFiles
    BY <1>3 DEF MapAccounts, Config
  <2>2. \A f \in conf.map_files : at[f].files[f] \in SUBSET MapLines
    BY <1>0, <2>1 DEF RefInv, TypeInv, TypeOK, World
  <2>3. ReadAt(w.linked, at, conf.map_files) \cup SuffixAccounts(conf, w.linked)
          = Contract!Mapped(conf, w.linked, at)
    BY <1>3, <1>4, <2>2, AccountMapSame
  <2> QED BY <1>0, <1>4, <2>1, <2>3
<1>6. Contract!Entitled(w, Asked, seen)
  BY <1>1, <1>2 DEF Contract!Entitled, Described, Established, Asked
<1>7. request.token \in GlobusTokens
  BY <1>2 DEF Described
<1>8. request.op = "get_account_map" \/ (request.op \in {"login", "paste"} /\ "globus_auth" \in conf.auth_method)
  BY <1>1 DEF RefInv, Routed, Serving
<1> HIDE DEF accts
<1>9. ASSUME request.op = "get_account_map"
      PROVE  RefInvRest' /\ [Contract!Next]_(Contract!vars)
  <2> DEFINE rep == [code |-> "ACCOUNT_MAP", layers |-> 0,
                     permitted_accounts |-> accts \cap LocalAccounts]
  <2>1. Answer("MAXTRIES", rep)
    BY <1>9 DEF MapAccounts, UseMap, accts
  <2>2. Contract!MayDisclose(Asked, seen, accts \cap LocalAccounts)
    BY <1>0, <1>1, <1>2, <1>5, <1>6 DEF Contract!MayDisclose, Asked
  <2>3. rep.code = "ACCOUNT_MAP" /\ rep.permitted_accounts = accts \cap LocalAccounts
    OBVIOUS
  <2> HIDE DEF rep
  <2>4. Contract!Justified(Asked, seen, "MAXTRIES", rep)
    BY <2>2, <2>3 DEF Contract!Justified
  <2> QED BY <1>1, <2>1, <2>4, AnswerRef DEF Serving
<1>10. ASSUME request.op # "get_account_map", user \in accts
       PROVE  RefInvRest' /\ [Contract!Next]_(Contract!vars)
  <2>1. Answer("SUCCESS", None)
    BY <1>10 DEF MapAccounts, UseMap, accts
  <2>2. Contract!MayLogIn(Asked, seen)
    BY <1>0, <1>1, <1>2, <1>5, <1>6, <1>7, <1>8, <1>10 DEF Contract!MayLogIn, Asked
  <2>3. Contract!Justified(Asked, seen, "SUCCESS", None)
    BY <1>8, <1>10, <2>2 DEF Contract!Justified, Asked
  <2> QED BY <1>1, <2>1, <2>3, AnswerRef DEF Serving
<1>11. ASSUME request.op # "get_account_map", user \notin accts
       PROVE  RefInvRest' /\ [Contract!Next]_(Contract!vars)
  <2>1. Answer("AUTH_ERR", ErrorReply("INVALID_ACCOUNT"))
    BY <1>11 DEF MapAccounts, UseMap, accts
  <2>2. Contract!BadAccount(Asked, seen)
    BY <1>0, <1>1, <1>2, <1>5, <1>6, <1>11 DEF Contract!BadAccount, Asked
  <2>3. ErrorReply("INVALID_ACCOUNT").code = "INVALID_ACCOUNT"
    BY DEF ErrorReply
  <2>4. Contract!Justified(Asked, seen, "AUTH_ERR", ErrorReply("INVALID_ACCOUNT"))
    BY <2>2, <2>3 DEF Contract!Justified
  <2> QED BY <1>1, <2>1, <2>4, AnswerRef DEF Serving
<1> QED BY <1>9, <1>10, <1>11

\* The issuer compared is the first, which is one of those listed.
LEMMA SciTokenRef ==
  ASSUME RefInv, VerifySciToken \/ VerifySciTokenFails
  PROVE  RefInvRest' /\ [Contract!Next]_(Contract!vars)
<1>1. pc = "scitoken" /\ conf.issuers # <<>>
  BY DEF VerifySciToken, VerifySciTokenFails
<1>2. conf \in Config
  BY <1>1, PamAssumption DEF PamAssumption, RefInv, TypeInv, ConfKnown, Serving
<1>3. /\ request.op \in {"login", "paste"} /\ request.token \in SciTokens
      /\ "scitokens" \in conf.auth_method
  BY <1>1 DEF RefInv, Routed, Serving
<1>4. ASSUME Answer("AUTH_ERR", None)
      PROVE  RefInvRest' /\ [Contract!Next]_(Contract!vars)
  BY <1>1, <1>4, PlainAnswer DEF Serving
<1>5. ASSUME Answer("SUCCESS", None), request.token \in world.active,
             SciIssuer[request.token] = Head(conf.issuers), SciUser[request.token] = user
      PROVE  RefInvRest' /\ [Contract!Next]_(Contract!vars)
  <2>1. conf.issuers \in Seq(Issuers)
    BY <1>2 DEF Config
  <2>2. 1 \in DOMAIN conf.issuers /\ Head(conf.issuers) = conf.issuers[1]
    BY <1>1, <2>1
  <2>3. \E w \in seen : request.token \in w.active
    BY <1>1, <1>5 DEF RefInv, Present, Serving
  <2>4. Contract!MayLogIn(Asked, seen)
    BY <1>3, <1>5, <2>2, <2>3 DEF Contract!MayLogIn, Contract!SciEntitled, Asked
  <2>5. Contract!Justified(Asked, seen, "SUCCESS", None)
    BY <1>3, <2>4 DEF Contract!Justified, Asked
  <2> QED BY <1>1, <1>5, <2>5, AnswerRef DEF Serving
<1> QED BY <1>4, <1>5 DEF VerifySciToken, VerifySciTokenFails

\* Sending the reply hands the decision over.
LEMMA SendReplyRef ==
  ASSUME RefInv, SendReply
  PROVE  RefInvRest' /\ [Contract!Next]_(Contract!vars)
<1>1. pc = "reply" /\ Return(status)
  BY DEF SendReply
<1>2. RefInvRest'
  BY <1>1 DEF Return, RefInvRest, Witnessed, Fetched, Present, Registered, Routed,
         Waiting, Serving
<1>3. seen = {}
  BY <1>1 DEF RefInv, Present, Serving
<1>4. Contract!Deliver
  BY <1>1, <1>3 DEF Return, Contract!Deliver, Serving
<1> QED BY <1>2, <1>4 DEF Contract!Next

\* Every step of pam_sm_authenticate() is a step of the contract, or stutters.
LEMMA LoginRef ==
  ASSUME RefInv, Login
  PROVE  RefInvRest' /\ [Contract!Next]_(Contract!vars)
<1>1. ASSUME NEW u \in Accounts, Begin(u) PROVE RefInvRest' /\ [Contract!Next]_(Contract!vars)
  BY <1>1, BeginRef
<1>2. ASSUME NEW q \in Request, Receive(q) PROVE RefInvRest' /\ [Contract!Next]_(Contract!vars)
  BY <1>2, ReceiveRef
<1>3. ASSUME HangUp \/ Killed \/ VerifySciTokenCrashes
      PROVE  RefInvRest' /\ [Contract!Next]_(Contract!vars)
  <2>1. PICK st \in {"AUTHINFO_UNAVAIL", "KILLED"} : Return(st)
    BY <1>3 DEF HangUp, Killed, VerifySciTokenCrashes
  <2> QED BY <2>1, ReturnRef
<1> QED BY <1>1, <1>2, <1>3, IntrospectRef, FailedCallRef, GetClientRef, ValidateTokenRef,
           GetIdentitiesRef, CheckSessionRef, ReadMapFileRef, MapAccountsRef, SciTokenRef, SendReplyRef
        DEF Login

\* Every login, every disclosure of accounts and every refusal that blames the
\* user is justified by instants between the arrival of the request and its
\* decision: pam_sm_authenticate() implements LoginContract.
THEOREM ImplementsContract == Spec => ContractSpec
<1>1. Init => RefInv /\ Contract!Init
  <2> SUFFICES ASSUME Init PROVE RefInv /\ Contract!Init
    OBVIOUS
  <2>1. TypeInv
    BY InitType DEF Init, TypeInv, ConfKnown, LocalsKnown, Serving
  <2>2. Witnessed /\ Present /\ Registered /\ Routed /\ Waiting
    BY DEF Init, Witnessed, Fetched, Present, Registered, Routed, Waiting, Serving
  <2>3. Contract!Init
    BY DEF Init, Contract!Init, Contract!Harmless, Serving
  <2> QED BY <2>1, <2>2, <2>3 DEF RefInv
<1>2. RefInv /\ [Next]_vars => RefInv' /\ [Contract!Next]_(Contract!vars)
  <2> SUFFICES ASSUME RefInv, [Next]_vars PROVE RefInv' /\ [Contract!Next]_(Contract!vars)
    OBVIOUS
  <2>1. ASSUME Login PROVE RefInv' /\ [Contract!Next]_(Contract!vars)
    BY <2>1, LoginInv, LoginRef DEF RefInv, RefInvRest
  <2>2. ASSUME Outside PROVE RefInv' /\ [Contract!Next]_(Contract!vars)
    BY <2>2, OutsideInv, OutsideRef DEF RefInv, RefInvRest
  <2>3. ASSUME UNCHANGED vars PROVE RefInv' /\ [Contract!Next]_(Contract!vars)
    <3>1. UNCHANGED Contract!vars
      BY <2>3 DEF vars, Contract!vars
    <3>2. TypeInv'
      BY <2>3 DEF vars, RefInv, TypeInv, TypeOK, ConfKnown, LocalsKnown
    <3>3. Present' /\ Registered' /\ Routed' /\ Waiting'
      BY <2>3 DEF vars, RefInv, Present, Registered, Routed, Waiting
    <3>4. Witnessed'
      BY <2>3 DEF vars, RefInv, Witnessed, Described, Established, Collected,
                  Contract!SessionGood, Contract!InScope, Contract!Issued
    <3> QED BY <3>1, <3>2, <3>3, <3>4 DEF RefInv
  <2> QED BY <2>1, <2>2, <2>3 DEF Next
<1> QED BY <1>1, <1>2, PTL DEF Spec, ContractSpec, Contract!Spec
=============================================================================
