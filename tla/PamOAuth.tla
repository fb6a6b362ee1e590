------------------------------ MODULE PamOAuth ------------------------------
(***************************************************************************)
(* server/src/pam: pam_sm_authenticate() in the sshd process of one         *)
(* connection.  The configuration is read before the prompt; the command    *)
(* that answers the prompt is then served by up to three blocking HTTP      *)
(* calls and a read of each map file, with checks in between.               *)
(*                                                                          *)
(* Between two steps anything outside may change: time passes, a token is   *)
(* revoked, identities are linked and unlinked, the user authenticates      *)
(* again, the administrator edits the files or the registration.  Attempts  *)
(* of different connections share nothing but that outside, so one at a     *)
(* time, repeated, is every behaviour of each of them.                      *)
(***************************************************************************)
EXTENDS Realm

CONSTANTS
  WithSciTokens,    \* the build option WITH_SCITOKENS
  Configs,          \* configurations the administrator may install
  MapVersions,      \* contents a map file may have
  InitialWorlds,    \* where a behaviour may start
  MaxTime,          \* bound: the clock stops here
  MaxEvents         \* bound: changes of the outside, besides time

\* parse_file() accepts nothing else.
Accepted(c) ==
  /\ c.auth_method # {}
  /\ "scitokens" \in c.auth_method => WithSciTokens
  /\ "globus_auth" \in c.auth_method => c.idp_suffix # None \/ c.map_files # {}

ASSUME PamAssumption ==
  /\ WithSciTokens \in BOOLEAN
  /\ Configs \subseteq Config
  /\ \A c \in Configs : Accepted(c)
  /\ None \notin Configs
  /\ MapVersions \subseteq SUBSET MapLines
  /\ InitialWorlds \subseteq World
  /\ \A w \in InitialWorlds : w.conf \in Configs \cup {None}
  /\ MaxTime \in Int /\ MaxEvents \in Nat

VARIABLES
  world,        \* the outside, now
  events,       \* how often it has changed
  pc,           \* where pam_sm_authenticate() is
  user,         \* PAM_USER, the account the connection asks for
  conf,         \* struct config, as read by config_init(), or None
  request,      \* what the prompt was answered with
  introspect,   \* the local variables of _cmd_login_globus() and
  client,       \*   _cmd_get_account_map(), None while NULL
  identities,
  account_map,  \* the map that account_map_init() is building, or None
  status,       \* pam_status
  reply,        \* *reply
  wire,         \* what _send_our_reply() has sent
  seen,         \* history: the world while the request is served
  unreachable   \* history: a call to Globus Auth failed in this attempt

environment == <<world, events>>
locals == <<introspect, client, identities, account_map>>
history == <<seen, unreachable>>
vars == <<world, events, pc, user, conf, request, introspect, client,
          identities, account_map, status, reply, wire, seen, unreachable>>

\* Control points where a command is being served.
Serving == {"introspect", "client", "validate", "identities", "session",
            "accounts", "scitoken"}

Statuses == {"PENDING", "SUCCESS", "AUTH_ERR", "AUTHINFO_UNAVAIL", "MAXTRIES",
             "KILLED"}

ErrorCodes == {"UNEXPECTED_ERROR", "INVALID_TOKEN", "SESSION_VIOLATION",
               "INVALID_ACCOUNT", "UNKNOWN_COMMAND"}

\* layers counts the base64 encodings around the JSON text of a reply.
Reply(layers) ==
       [code: ErrorCodes, layers: layers]
  \cup [code: {"POLICY"}, layers: layers, permitted_idps: SUBSET IdpNames,
        authentication_timeout: Int]
  \cup [code: {"ACCOUNT_MAP"}, layers: layers, permitted_accounts: SUBSET Accounts]

NoRequest == [op |-> "other", token |-> None]

Init ==
  /\ world \in InitialWorlds
  /\ events = 0
  /\ pc = "idle"
  /\ user \in Accounts
  /\ conf = None
  /\ request = NoRequest
  /\ introspect = None /\ client = None /\ identities = None /\ account_map = None
  /\ status = "PENDING"
  /\ reply = None /\ wire = None
  /\ seen = {} /\ unreachable = FALSE

----------------------------------------------------------------------------
(* The checks.                                                              *)

IsScopeInString(scopes, fqdns) ==
  (\E f \in fqdns : f \in scopes) \/ ClientId \in scopes

\* A plausible slip: the lower ends of the token's lifetime are not looked at.
IsTokenUnexpired(intro, fqdns, now) ==
  /\ intro.active
  /\ ~(intro.exp < now)
  /\ IsScopeInString(intro.scopes, fqdns)

IsTokenValid(intro, fqdns, now) ==
  /\ intro.active
  /\ ~(intro.exp < now)
  /\ ~(intro.iat > now)
  /\ ~(intro.nbf > now)
  /\ IsScopeInString(intro.scopes, fqdns)

\* A plausible slip: the provider of an authentication is taken from the
\* session, whether or not its identity is still linked.
LookupAnyIdp(ids, idp) == idp

\* The providers that come with the identities; NULL if idp is not among them.
LookupIdp(ids, idp) ==
  IF \E i \in ids : ProviderOf[i] = idp THEN idp ELSE None

MatchesIdp(c, idp) ==
  \E name \in c.permitted_idps : name = idp \/ name \in ProviderDomains[idp]

SessionLimit(c) == Minute * c.authentication_timeout

\* The body of the loop, for one authentication: TRUE is its return true.
AuthenticationPasses(c, a, ids, now) ==
  /\ ~(c.authentication_timeout # 0 /\ now - a.auth_time > SessionLimit(c))
  /\ ~(c.mfa /\ ~a.mfa)
  /\ \/ c.permitted_idps = {}
     \/ LET authed_idp == LookupIdp(ids, ProviderOf[a.identity])
        IN  authed_idp # None /\ MatchesIdp(c, authed_idp)

IsSessionValid(c, intro, ids, now) ==
  \/ c.permitted_idps = {} /\ c.authentication_timeout = 0 /\ ~c.mfa
  \/ \E a \in intro.session : AuthenticationPasses(c, a, ids, now)

\* The lines of one map file that name one of the identities.
FileAccounts(ids, lines) == {line[2] : line \in {l \in lines : l[1] \in ids}}

\* The usernames that end in the configured suffix.
SuffixAccounts(c, ids) == {UserName[i] : i \in {j \in ids : UserDomain[j] = c.idp_suffix}}

ErrorReply(code) == [code |-> code, layers |-> 0]
Encode(rep) == [rep EXCEPT !.layers = @ + 1]

----------------------------------------------------------------------------
(* pam_sm_authenticate().                                                   *)

\* The command is decided: its cleanup frees the locals, and what is left is
\* _send_our_reply().
Answer(st, rep) ==
  /\ pc' = "reply"
  /\ status' = st
  /\ reply' = rep
  /\ introspect' = None /\ client' = None /\ identities' = None /\ account_map' = None
  /\ seen' = {}
  /\ UNCHANGED <<environment, user, conf, request, wire>>

\* pam_sm_authenticate() returns st, or its process dies.
Return(st) ==
  /\ pc' = "idle"
  /\ status' = st
  /\ conf' = None /\ request' = NoRequest /\ reply' = None
  /\ introspect' = None /\ client' = None /\ identities' = None /\ account_map' = None
  /\ seen' = {} /\ unreachable' = FALSE
  /\ UNCHANGED <<environment, user>>

\* The next check or call of the command.
Continue(label) ==
  /\ pc' = label
  /\ UNCHANGED <<environment, user, conf, request, status, reply, wire, history>>

\* config_init() comes first, before the user is asked for anything.
Begin(u) ==
  /\ pc = "idle"
  /\ user' = u
  /\ conf' = world.conf
  /\ wire' = None
  /\ IF world.conf = None
       THEN pc' = "idle" /\ status' = "AUTHINFO_UNAVAIL"
       ELSE pc' = "prompt" /\ status' = "PENDING"
  /\ UNCHANGED <<environment, request, locals, reply, history>>

\* The conversation function fails: _read_user_request() returns NULL.
HangUp ==
  /\ pc = "prompt"
  /\ Return("AUTHINFO_UNAVAIL")
  /\ UNCHANGED wire

\* _process_command(): decode the input and route the command.
Receive(q) ==
  /\ pc = "prompt"
  /\ request' = q
  /\ UNCHANGED <<environment, user, conf, locals, wire, unreachable>>
  /\ \/ /\ q.op = "get_security_policy"
        /\ pc' = "reply" /\ status' = "MAXTRIES"
        /\ reply' = [code |-> "POLICY", layers |-> 0,
                     permitted_idps |-> conf.permitted_idps,
                     authentication_timeout |-> conf.authentication_timeout]
        /\ seen' = {}
     \/ /\ q.op = "other" \/ (q.op \in {"get_account_map", "login"} /\ q.token = None)
        /\ pc' = "reply" /\ status' = "AUTHINFO_UNAVAIL"
        /\ reply' = Encode(ErrorReply("UNKNOWN_COMMAND"))
        /\ seen' = {}
     \/ /\ q.op = "get_account_map" /\ q.token # None
        /\ pc' = "introspect" /\ seen' = {world}
        /\ UNCHANGED <<status, reply>>
     \/ /\ q.op \in {"login", "paste"} /\ q.token # None
        /\ LET method == IF q.token \in SciTokens THEN "scitokens" ELSE "globus_auth"
           IN  IF method \in conf.auth_method
                 THEN /\ pc' = IF method = "scitokens" THEN "scitoken" ELSE "introspect"
                      /\ seen' = {world}
                      /\ UNCHANGED <<status, reply>>
                 ELSE /\ pc' = "reply" /\ status' = "AUTHINFO_UNAVAIL"
                      /\ seen' = {}
                      /\ UNCHANGED reply

----------------------------------------------------------------------------
(* The three calls to Globus Auth.                                          *)

\* get_introspect_resource() on an active token.
Introspect ==
  /\ pc = "introspect"
  /\ request.token \in world.active \cap GlobusTokens
  /\ LET t == TokenInfo[request.token] IN
     introspect' = [active |-> TRUE, exp |-> t.exp, iat |-> t.iat, nbf |-> t.nbf,
                    scopes |-> t.scopes, identities_set |-> world.linked,
                    session |-> world.session]
  /\ Continue("client")
  /\ UNCHANGED <<client, identities, account_map>>

\* An inactive token comes without identities_set, and is refused for that.
IntrospectInactive ==
  /\ pc = "introspect"
  /\ request.token \notin world.active \cap GlobusTokens
  /\ Answer("AUTHINFO_UNAVAIL", ErrorReply("UNEXPECTED_ERROR"))
  /\ UNCHANGED unreachable

\* The call fails, or its reply is an error or lacks a required member.
IntrospectFails ==
  /\ pc = "introspect"
  /\ unreachable' = TRUE
  /\ Answer("AUTHINFO_UNAVAIL", ErrorReply("UNEXPECTED_ERROR"))

GetClient ==
  /\ pc = "client"
  /\ client' = [fqdns |-> world.fqdns]
  /\ Continue("validate")
  /\ UNCHANGED <<introspect, identities, account_map>>

GetClientFails ==
  /\ pc = "client"
  /\ unreachable' = TRUE
  /\ Answer("AUTHINFO_UNAVAIL", ErrorReply("UNEXPECTED_ERROR"))

\* _is_token_valid(), on what the two calls returned.
ValidateToken ==
  /\ pc = "validate"
  /\ IF IsTokenValid(introspect, client.fqdns, world.now)
       THEN Continue("identities") /\ UNCHANGED locals
       ELSE Answer("AUTH_ERR", ErrorReply("INVALID_TOKEN")) /\ UNCHANGED unreachable

\* The ids asked for are those of the introspection.
GetIdentities ==
  /\ pc = "identities"
  /\ identities' = introspect.identities_set
  /\ Continue("session")
  /\ UNCHANGED <<introspect, client, account_map>>

\* A plausible slip: pam_status keeps the value a denied token would give.
GetIdentitiesDenied ==
  /\ pc = "identities"
  /\ unreachable' = TRUE
  /\ Answer("AUTH_ERR", ErrorReply("UNEXPECTED_ERROR"))

\* _cmd_get_account_map() gives no reply here, _cmd_login_globus() does.
GetIdentitiesFails ==
  /\ pc = "identities"
  /\ unreachable' = TRUE
  /\ Answer("AUTHINFO_UNAVAIL",
            IF request.op = "get_account_map" THEN None
                                              ELSE ErrorReply("UNEXPECTED_ERROR"))

----------------------------------------------------------------------------
(* The session policy and the account map.                                  *)

\* _cmd_login_globus() encodes this reply itself.
CheckSession ==
  /\ pc = "session"
  /\ IF IsSessionValid(conf, introspect, identities, world.now)
       THEN /\ Continue("accounts")
            /\ account_map' = [unread |-> conf.map_files, accounts |-> {}]
            /\ UNCHANGED <<introspect, client, identities>>
       ELSE /\ Answer("AUTH_ERR", IF request.op = "get_account_map"
                                    THEN ErrorReply("SESSION_VIOLATION")
                                    ELSE Encode(ErrorReply("SESSION_VIOLATION")))
            /\ UNCHANGED unreachable

\* account_map_init() reads the map files one after the other, here in any order.
\* A file is read in one step: those in use fit one buffer of stdio, which is one
\* read(2).  A line of commas only has a NULL key, on which strcmp() dies: that
\* end of the process is Killed.
ReadMapFile(f) ==
  /\ pc = "accounts"
  /\ f \in account_map.unread
  /\ account_map' =
       [unread |-> account_map.unread \ {f},
        accounts |-> account_map.accounts \cup FileAccounts(identities, world.files[f])]
  /\ Continue("accounts")
  /\ UNCHANGED <<introspect, client, identities>>

\* What each command does with the map.
UseMap(accts) ==
  /\ IF request.op = "get_account_map"
       THEN Answer("MAXTRIES", [code |-> "ACCOUNT_MAP", layers |-> 0,
                                permitted_accounts |-> accts \cap LocalAccounts])
       ELSE IF user \in accts
              THEN Answer("SUCCESS", None)
              ELSE Answer("AUTH_ERR", ErrorReply("INVALID_ACCOUNT"))
  /\ UNCHANGED unreachable

\* A plausible slip: the first file with lines for the user is the last read.
MapAccountsEarly ==
  /\ pc = "accounts"
  /\ account_map.accounts # {} \/ account_map.unread = {}
  /\ UseMap(account_map.accounts \cup SuffixAccounts(conf, identities))

\* The end of account_map_init(), and the command's use of it.
MapAccounts ==
  /\ pc = "accounts"
  /\ account_map.unread = {}
  /\ UseMap(account_map.accounts \cup SuffixAccounts(conf, identities))

\* scitoken_verify(): only the first issuer is handed to the library, and the
\* requested account is the resource the token must authorize.
VerifySciToken ==
  /\ pc = "scitoken"
  /\ conf.issuers # <<>>
  /\ IF /\ request.token \in world.active
        /\ SciIssuer[request.token] = Head(conf.issuers)
        /\ SciUser[request.token] = user
       THEN Answer("SUCCESS", None)
       ELSE Answer("AUTH_ERR", None)
  /\ UNCHANGED unreachable

\* The library cannot fetch the issuer's keys.
VerifySciTokenFails ==
  /\ pc = "scitoken"
  /\ conf.issuers # <<>>
  /\ unreachable' = TRUE
  /\ Answer("AUTH_ERR", None)

\* No issuers directive: issuers[0] is read through a NULL pointer.
VerifySciTokenCrashes ==
  /\ pc = "scitoken"
  /\ conf.issuers = <<>>
  /\ Return("KILLED")
  /\ UNCHANGED wire

\* Two plausible slips: the reply is sent to a user who pasted a token, and it
\* is sent as it was built.
SendReplyToPaste ==
  /\ pc = "reply"
  /\ Return(status)
  /\ IF reply # None THEN wire' = Encode(reply) ELSE wire' = None

SendReplyRaw ==
  /\ pc = "reply"
  /\ Return(status)
  /\ wire' = IF request.op # "paste" THEN reply ELSE None

\* _send_our_reply(): encoded once more unless the token was pasted, in which
\* case _cmd_login_fallback() has dropped the reply.  The conversation may fail.
SendReply ==
  /\ pc = "reply"
  /\ Return(status)
  /\ \/ /\ reply # None /\ request.op # "paste"
        /\ wire' = Encode(reply)
     \/ wire' = None

\* The client disconnects or sshd's LoginGraceTime ends: the calls have no
\* timeout of their own.
Killed ==
  /\ pc \in Serving
  /\ Return("KILLED")
  /\ UNCHANGED wire

----------------------------------------------------------------------------
(* The outside.                                                             *)

Becomes(w) ==
  /\ world' = w
  /\ seen' = IF pc \in Serving THEN seen \cup {w} ELSE seen
  /\ UNCHANGED <<pc, user, conf, request, locals, status, reply, wire, unreachable>>

Tick ==
  /\ world.now < MaxTime
  /\ Becomes([world EXCEPT !.now = @ + 1])
  /\ UNCHANGED events

Event(w) ==
  /\ events < MaxEvents
  /\ events' = events + 1
  /\ Becomes(w)

Deactivate(t) == t \in world.active /\ Event([world EXCEPT !.active = @ \ {t}])
Link(i)       == i \notin world.linked /\ Event([world EXCEPT !.linked = @ \cup {i}])
Unlink(i)     == world.linked \ {i} \notin {{}, world.linked} /\ Event([world EXCEPT !.linked = @ \ {i}])
EditMap(f, m) == world.files[f] # m /\ Event([world EXCEPT !.files[f] = m])
EditConf(c)   == world.conf # c /\ Event([world EXCEPT !.conf = c])
Register(F)   == world.fqdns # F /\ Event([world EXCEPT !.fqdns = F])

Authenticate(i, mfa) ==
  /\ i \in world.linked
  /\ LET others == {a \in world.session : a.identity # i}
         latest == [identity |-> i, auth_time |-> world.now, mfa |-> mfa]
     IN  Event([world EXCEPT !.session = others \cup {latest}])

Outside ==
  \/ Tick
  \/ \E t \in Tokens : Deactivate(t)
  \/ \E i \in Identities : Link(i) \/ Unlink(i)
  \/ \E i \in Identities, mfa \in BOOLEAN : Authenticate(i, mfa)
  \/ \E f \in MapFiles, m \in MapVersions : EditMap(f, m)
  \/ \E c \in Configs \cup {None} : EditConf(c)
  \/ \E F \in SUBSET Fqdns : Register(F)

Login ==
  \/ \E u \in Accounts : Begin(u)
  \/ HangUp
  \/ \E q \in Request : Receive(q)
  \/ Introspect \/ IntrospectInactive \/ IntrospectFails
  \/ GetClient \/ GetClientFails \/ ValidateToken
  \/ GetIdentities \/ GetIdentitiesFails \/ CheckSession
  \/ \E f \in MapFiles : ReadMapFile(f)
  \/ MapAccounts
  \/ VerifySciToken \/ VerifySciTokenFails \/ VerifySciTokenCrashes
  \/ SendReply \/ Killed

Next == Login \/ Outside

Spec == Init /\ [][Next]_vars

----------------------------------------------------------------------------
(* What is checked.                                                         *)

\* introspect after a successful call.
Introspection ==
  [active: {TRUE}, exp: Int, iat: Int, nbf: Int, scopes: SUBSET (Fqdns \cup {ClientId}),
   identities_set: SUBSET Identities, session: SUBSET Authentication]

\* account_map with the directives not yet read.
MapUnderWay == [unread: SUBSET MapFiles, accounts: SUBSET Accounts]

\* Every variable has the type of the C object it stands for.
TypeOK ==
  /\ world \in World /\ world.conf \in Configs \cup {None}
  /\ events \in Nat
  /\ pc \in Serving \cup {"idle", "prompt", "reply"}
  /\ user \in Accounts
  /\ conf \in Configs \cup {None}
  /\ request \in Request
  /\ introspect \in Introspection \cup {None}
  /\ client \in [fqdns: SUBSET Fqdns] \cup {None}
  /\ identities \in (SUBSET Identities) \cup {None}
  /\ account_map \in MapUnderWay \cup {None}
  /\ status \in Statuses
  /\ reply \in Reply(0 .. 1) \cup {None}
  /\ wire \in Reply(1 .. 2) \cup {None}
  /\ seen \in SUBSET World
  /\ unreachable \in BOOLEAN

Contract == INSTANCE LoginContract
  WITH open <- pc \in Serving,
       asked <- [user |-> user, request |-> request, conf |-> conf],
       evidence <- seen

\* The module keeps the contract: a login, a disclosure of accounts and a
\* refusal are each justified by instants between the arrival of the request
\* and its decision, however the outside changed between the calls.
ContractSpec == Contract!Spec

\* A Globus Auth attempt during which a call failed ends unavailable: it neither
\* logs in nor blames the user (pam.c resets pam_status for this).
OutageIsUnavailable ==
  pc = "reply" /\ unreachable /\ request.token \in GlobusTokens =>
    /\ status = "AUTHINFO_UNAVAIL"
    /\ reply # None => reply.code = "UNEXPECTED_ERROR"

\* No reply reaches the client of a successful login, and none is sent for a
\* pasted token (it would be shown to the user of an ordinary ssh client).
SilentLogin ==
  [][wire' # wire /\ wire' # None => status' # "SUCCESS" /\ request.op # "paste"]_vars

----------------------------------------------------------------------------
(* What the documents say and the code does not do.                         *)

\* README.adoc lists "authinfo_unavail  unable to reach Globus Auth": a login
\* that gets this far ends so only if a call failed.
UnavailableMeansUnreachable ==
  /\ pc = "reply" /\ status = "AUTHINFO_UNAVAIL"
  /\ request.op = "login" /\ request.token \in GlobusTokens
  /\ "globus_auth" \in conf.auth_method
  => unreachable
=============================================================================
