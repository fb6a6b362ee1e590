---------------------------- MODULE PamOAuthProofs ----------------------------
(***************************************************************************)
(* Theorems about PamOAuth, for every realm, configuration and bound that   *)
(* satisfies RealmAssumption and PamAssumption.  TypeOK needs to know that  *)
(* what a call returned is there when a check reads it (LocalsKnown) and    *)
(* that a served command has a configuration (ConfKnown); the outcome       *)
(* theorems need only where a failed call leads (OutcomeInv).               *)
(***************************************************************************)
EXTENDS PamOAuth, TLAPS

----------------------------------------------------------------------------
(* Types.                                                                   *)

\* pam_sm_authenticate() starts with everything unset.
LEMMA InitType == Init => TypeOK
<1> SUFFICES ASSUME Init PROVE TypeOK
  OBVIOUS
<1>1. world \in World /\ world.conf \in Configs \cup {None}
  BY PamAssumption DEF Init
<1>2. request \in Request
  BY DEF Init, NoRequest, Request, Ops
<1>3. status \in Statuses /\ pc \in Serving \cup {"idle", "prompt", "reply"}
  BY DEF Init, Statuses
<1> QED BY <1>1, <1>2, <1>3 DEF Init, TypeOK

\* A step of the outside leaves the world a world.
LEMMA OutsideType ==
  ASSUME TypeOK, Outside PROVE TypeOK'
<1> USE PamAssumption, RealmAssumption DEF PamAssumption, RealmAssumption
<1>1. ASSUME NEW w \in World, w.conf \in Configs \cup {None}, Becomes(w), events' \in Nat
      PROVE  TypeOK'
  BY <1>1 DEF TypeOK, Becomes, locals
<1>2. CASE Tick
  <2>1. [world EXCEPT !.now = @ + 1] \in World BY DEF TypeOK, World
  <2>2. [world EXCEPT !.now = @ + 1].conf = world.conf BY DEF TypeOK, World
  <2> QED BY <1>1, <1>2, <2>1, <2>2 DEF Tick, TypeOK
<1>3. ASSUME NEW w \in World, w.conf \in Configs \cup {None}, Event(w)
      PROVE  TypeOK'
  BY <1>1, <1>3 DEF Event, TypeOK
<1>4. CASE \E t \in Tokens : Deactivate(t)
  <2>1. PICK t \in Tokens : Deactivate(t) BY <1>4
  <2> QED BY <1>3, <2>1 DEF Deactivate, TypeOK, World
<1>5. CASE \E i \in Identities : Link(i) \/ Unlink(i)
  <2>1. PICK i \in Identities : Link(i) \/ Unlink(i) BY <1>5
  <2> QED BY <1>3, <2>1 DEF Link, Unlink, TypeOK, World
<1>6. CASE \E i \in Identities, mfa \in BOOLEAN : Authenticate(i, mfa)
  <2>1. PICK i \in Identities, mfa \in BOOLEAN : Authenticate(i, mfa) BY <1>6
  <2>2. [identity |-> i, auth_time |-> world.now, mfa |-> mfa] \in Authentication
    BY DEF TypeOK, World, Authentication
  <2> QED BY <1>3, <2>1, <2>2 DEF Authenticate, TypeOK, World
<1>7. CASE \E f \in MapFiles, m \in MapVersions : EditMap(f, m)
  <2>1. PICK f \in MapFiles, m \in MapVersions : EditMap(f, m) BY <1>7
  <2> QED BY <1>3, <2>1 DEF EditMap, TypeOK, World
<1>8. CASE \E c \in Configs \cup {None} : EditConf(c)
  <2>1. PICK c \in Configs \cup {None} : EditConf(c) BY <1>8
  <2> QED BY <1>3, <2>1 DEF EditConf, TypeOK, World
<1>9. CASE \E F \in SUBSET Fqdns : Register(F)
  <2>1. PICK F \in SUBSET Fqdns : Register(F) BY <1>9
  <2> QED BY <1>3, <2>1 DEF Register, TypeOK, World
<1> QED BY <1>2, <1>4, <1>5, <1>6, <1>7, <1>8, <1>9 DEF Outside

\* Every error reply is a reply, encoded once or not at all.
LEMMA ErrorReplyType ==
  ASSUME NEW code \in ErrorCodes
  PROVE  /\ ErrorReply(code) \in Reply(0 .. 1)
         /\ Encode(ErrorReply(code)) \in Reply(0 .. 1)
  BY DEF ErrorReply, Encode, Reply

\* The one more encoding of _process_command() keeps within two layers.
LEMMA EncodeType ==
  ASSUME NEW rep \in Reply(0 .. 1) PROVE Encode(rep) \in Reply(1 .. 2)
<1>1. CASE rep \in [code: ErrorCodes, layers: 0 .. 1]
  BY <1>1 DEF Encode, Reply
<1>2. CASE rep \in [code: {"POLICY"}, layers: 0 .. 1, permitted_idps: SUBSET IdpNames,
                    authentication_timeout: Int]
  BY <1>2 DEF Encode, Reply
<1>3. CASE rep \in [code: {"ACCOUNT_MAP"}, layers: 0 .. 1, permitted_accounts: SUBSET Accounts]
  BY <1>3 DEF Encode, Reply
<1> QED BY <1>1, <1>2, <1>3 DEF Reply

\* A decision keeps the types when its status and reply have theirs.
LEMMA AnswerType ==
  ASSUME TypeOK, NEW st \in Statuses, NEW rep \in Reply(0 .. 1) \cup {None},
         Answer(st, rep), unreachable' \in BOOLEAN
  PROVE  TypeOK'
  BY DEF TypeOK, Answer, environment

\* A return keeps the types when what is sent is encoded.
LEMMA ReturnType ==
  ASSUME TypeOK, NEW st \in Statuses, Return(st),
         wire' \in Reply(1 .. 2) \cup {None}
  PROVE  TypeOK'
<1>1. NoRequest \in Request
  BY DEF NoRequest, Request, Ops
<1> QED BY <1>1 DEF TypeOK, Return, environment

\* A step to the next check keeps the types when the locals have theirs.
LEMMA ContinueType ==
  ASSUME TypeOK, NEW label \in Serving, Continue(label),
         introspect' \in Introspection \cup {None},
         client' \in [fqdns: SUBSET Fqdns] \cup {None},
         identities' \in (SUBSET Identities) \cup {None},
         account_map' \in MapUnderWay \cup {None}
  PROVE  TypeOK'
  BY DEF TypeOK, Continue, environment, history

\* The configuration is known from the prompt on.
ConfKnown == pc \in Serving \cup {"prompt", "reply"} => conf \in Configs

\* What the calls returned is there when the checks read it.
LocalsKnown ==
  /\ pc \in {"client", "validate", "identities", "session", "accounts"} =>
       introspect \in Introspection
  /\ pc = "validate" => client \in [fqdns: SUBSET Fqdns]
  /\ pc \in {"session", "accounts"} => identities \in SUBSET Identities
  /\ pc = "accounts" => account_map \in MapUnderWay

TypeInv == TypeOK /\ ConfKnown /\ LocalsKnown

\* Every path that ends in a decision or a return keeps the strengthening.
LEMMA AnswerInv ==
  ASSUME TypeInv, pc \in Serving, NEW st \in Statuses,
         NEW rep \in Reply(0 .. 1) \cup {None},
         Answer(st, rep), unreachable' \in BOOLEAN
  PROVE  TypeInv'
<1>1. TypeOK'
  BY AnswerType DEF TypeInv
<1> QED BY <1>1 DEF TypeInv, ConfKnown, LocalsKnown, Answer

\* A return forgets the attempt, so it keeps the strengthening.
LEMMA ReturnInv ==
  ASSUME TypeInv, NEW st \in Statuses, Return(st),
         wire' \in Reply(1 .. 2) \cup {None}
  PROVE  TypeInv'
<1>1. TypeOK'
  BY ReturnType DEF TypeInv
<1> QED BY <1>1 DEF TypeInv, ConfKnown, LocalsKnown, Return, Serving

\* Routing a command keeps the strengthening: the configuration was read first.
LEMMA ReceiveInv ==
  ASSUME TypeInv, NEW q \in Request, Receive(q) PROVE TypeInv'
<1>1. conf \in Configs /\ conf \in Config
  BY PamAssumption DEF TypeInv, ConfKnown, Receive
<1>2. [code |-> "POLICY", layers |-> 0, permitted_idps |-> conf.permitted_idps,
       authentication_timeout |-> conf.authentication_timeout] \in Reply(0 .. 1)
  BY <1>1 DEF Config, Reply
<1>3. Encode(ErrorReply("UNKNOWN_COMMAND")) \in Reply(0 .. 1)
  BY ErrorReplyType DEF ErrorCodes
<1>4. reply' \in Reply(0 .. 1) \cup {None}
  BY <1>2, <1>3 DEF TypeInv, TypeOK, Receive
<1>5. /\ status' \in Statuses
      /\ pc' \in {"reply", "introspect", "scitoken"}
      /\ seen' \in SUBSET World
  BY DEF TypeInv, TypeOK, Receive, Statuses
<1> QED BY <1>1, <1>4, <1>5
    DEF TypeInv, TypeOK, ConfKnown, LocalsKnown, Receive, environment, locals, Serving

\* Every step of pam_sm_authenticate() keeps the strengthening.
LEMMA LoginInv ==
  ASSUME TypeInv, Login PROVE TypeInv'
<1>0. /\ {"SUCCESS", "AUTH_ERR", "AUTHINFO_UNAVAIL", "MAXTRIES", "KILLED"} \subseteq Statuses
      /\ None \in Reply(0 .. 1) \cup {None}
      /\ \A code \in ErrorCodes : /\ ErrorReply(code) \in Reply(0 .. 1)
                                  /\ Encode(ErrorReply(code)) \in Reply(0 .. 1)
  BY ErrorReplyType DEF Statuses
<1>1. CASE \E u \in Accounts : Begin(u)
  BY <1>1 DEF TypeInv, TypeOK, ConfKnown, LocalsKnown, Begin, Statuses, Serving,
              environment, locals, history
<1>2. CASE HangUp
  BY <1>0, <1>2, ReturnInv DEF HangUp, TypeInv, TypeOK
<1>3. CASE \E q \in Request : Receive(q)
  BY <1>3, ReceiveInv
<1>4. CASE Introspect
  <2>1. introspect' \in Introspection
    BY <1>4, RealmAssumption DEF RealmAssumption, Introspect, Introspection, Claims,
       TypeInv, TypeOK, World
  <2>2. TypeOK'
    BY <1>4, <2>1, ContinueType DEF Introspect, TypeInv, TypeOK, Serving
  <2> QED BY <1>4, <2>1, <2>2
      DEF TypeInv, ConfKnown, LocalsKnown, Introspect, Continue, Serving
<1>5. CASE IntrospectInactive \/ IntrospectFails \/ GetClientFails \/ GetIdentitiesFails
  <2>1. pc \in Serving /\ unreachable' \in BOOLEAN
    BY <1>5 DEF IntrospectInactive, IntrospectFails, GetClientFails,
       GetIdentitiesFails, Serving, TypeInv, TypeOK
  <2>2. PICK rep \in Reply(0 .. 1) \cup {None} : Answer("AUTHINFO_UNAVAIL", rep)
    BY <1>0, <1>5 DEF IntrospectInactive, IntrospectFails, GetClientFails,
       GetIdentitiesFails, ErrorCodes
  <2> QED BY <1>0, <2>1, <2>2, AnswerInv
<1>6. CASE GetClient
  <2>1. client' \in [fqdns: SUBSET Fqdns] /\ introspect' \in Introspection
    BY <1>6 DEF GetClient, TypeInv, TypeOK, LocalsKnown, World
  <2>2. TypeOK'
    BY <1>6, <2>1, ContinueType DEF GetClient, TypeInv, TypeOK, Serving
  <2> QED BY <1>6, <2>1, <2>2
      DEF TypeInv, ConfKnown, LocalsKnown, GetClient, Continue, Serving
<1>7. CASE ValidateToken
  <2>1. CASE Continue("identities") /\ UNCHANGED locals
    <3>1. TypeOK'
      BY <2>1, ContinueType DEF TypeInv, TypeOK, locals, Serving
    <3> QED BY <1>7, <2>1, <3>1
        DEF TypeInv, ConfKnown, LocalsKnown, ValidateToken, Continue, locals, Serving
  <2>2. CASE Answer("AUTH_ERR", ErrorReply("INVALID_TOKEN")) /\ UNCHANGED unreachable
    BY <1>0, <1>7, <2>2, AnswerInv DEF ValidateToken, TypeInv, TypeOK, Serving, ErrorCodes
  <2> QED BY <1>7, <2>1, <2>2 DEF ValidateToken
<1>8. CASE GetIdentities
  <2>1. identities' \in SUBSET Identities /\ introspect' \in Introspection
    BY <1>8 DEF GetIdentities, TypeInv, LocalsKnown, Introspection
  <2>2. TypeOK'
    BY <1>8, <2>1, ContinueType DEF GetIdentities, TypeInv, TypeOK, Serving
  <2> QED BY <1>8, <2>1, <2>2
      DEF TypeInv, ConfKnown, LocalsKnown, GetIdentities, Continue, Serving
<1>9. CASE CheckSession
  <2>1. CASE Continue("accounts")
    <3>1. conf.map_files \in SUBSET MapFiles
      BY <1>9, PamAssumption DEF PamAssumption, CheckSession, TypeInv, ConfKnown, Serving, Config
    <3>2. account_map' \in MapUnderWay /\ UNCHANGED <<introspect, client, identities>>
      BY <1>9, <2>1, <3>1 DEF CheckSession, Continue, Answer, MapUnderWay
    <3>3. TypeOK'
      BY <2>1, <3>2, ContinueType DEF TypeInv, TypeOK, Serving
    <3> QED BY <1>9, <2>1, <3>2, <3>3
        DEF TypeInv, ConfKnown, LocalsKnown, CheckSession, Continue, Serving
  <2>2. ASSUME ~Continue("accounts") PROVE TypeInv'
    <3>1. PICK rep \in Reply(0 .. 1) \cup {None} : Answer("AUTH_ERR", rep)
      BY <1>0, <1>9, <2>2 DEF CheckSession, ErrorCodes
    <3> QED BY <1>0, <1>9, <2>2, <3>1, AnswerInv DEF CheckSession, TypeInv, TypeOK, Serving
  <2> QED BY <2>1, <2>2
<1>10. CASE MapAccounts
  <2>1. \A A : [code |-> "ACCOUNT_MAP", layers |-> 0,
                permitted_accounts |-> A \cap LocalAccounts] \in Reply(0 .. 1)
    BY RealmAssumption DEF RealmAssumption, Reply
  <2>2. PICK st \in Statuses, rep \in Reply(0 .. 1) \cup {None} : Answer(st, rep)
    BY <1>0, <1>10, <2>1 DEF MapAccounts, UseMap, ErrorCodes
  <2> QED BY <1>10, <2>2, AnswerInv DEF MapAccounts, UseMap, TypeInv, TypeOK, Serving
<1>14. CASE \E f \in MapFiles : ReadMapFile(f)
  <2>1. PICK f \in MapFiles : ReadMapFile(f)
    BY <1>14
  <2>2. account_map \in MapUnderWay
    BY <2>1 DEF ReadMapFile, TypeInv, LocalsKnown
  <2>3. FileAccounts(identities, world.files[f]) \subseteq Accounts
    BY DEF FileAccounts, TypeInv, TypeOK, World, MapLines
  <2>4. account_map' \in MapUnderWay
    BY <2>1, <2>2, <2>3 DEF ReadMapFile, MapUnderWay
  <2>5. TypeOK'
    BY <2>1, <2>4, ContinueType DEF ReadMapFile, TypeInv, TypeOK, Serving
  <2> QED BY <2>1, <2>4, <2>5
      DEF TypeInv, ConfKnown, LocalsKnown, ReadMapFile, Continue, Serving
<1>11. CASE VerifySciToken \/ VerifySciTokenFails
  <2>1. PICK st \in Statuses : Answer(st, None)
    BY <1>0, <1>11 DEF VerifySciToken, VerifySciTokenFails
  <2> QED BY <1>0, <1>11, <2>1, AnswerInv
      DEF VerifySciToken, VerifySciTokenFails, TypeInv, TypeOK, Serving
<1>12. CASE VerifySciTokenCrashes \/ Killed
  BY <1>0, <1>12, ReturnInv DEF VerifySciTokenCrashes, Killed, TypeInv, TypeOK
<1>13. CASE SendReply
  <2>1. wire' \in Reply(1 .. 2) \cup {None}
    BY <1>13, EncodeType DEF SendReply, TypeInv, TypeOK
  <2> QED BY <1>13, <2>1, ReturnInv DEF SendReply, TypeInv, TypeOK
<1> QED BY <1>1, <1>2, <1>3, <1>4, <1>5, <1>6, <1>7, <1>8, <1>9, <1>10, <1>11,
           <1>12, <1>13, <1>14 DEF Login

\* A change of the outside does not touch the attempt.
LEMMA OutsideInv ==
  ASSUME TypeInv, Outside PROVE TypeInv'
<1>1. UNCHANGED <<pc, conf, introspect, client, identities, account_map>>
  BY DEF Outside, Tick, Deactivate, Link, Unlink, Authenticate, EditMap, EditConf,
         Register, Event, Becomes, locals
<1> QED BY <1>1, OutsideType DEF TypeInv, ConfKnown, LocalsKnown

\* Every variable keeps its type, for every realm, configuration and bound.
THEOREM TypeCorrect == Spec => []TypeOK
<1>1. Init => TypeInv
  BY InitType DEF TypeInv, ConfKnown, LocalsKnown, Init, Serving
<1>2. TypeInv /\ [Next]_vars => TypeInv'
  <2> SUFFICES ASSUME TypeInv, [Next]_vars PROVE TypeInv'
    OBVIOUS
  <2>1. CASE UNCHANGED vars
    BY <2>1 DEF TypeInv, TypeOK, ConfKnown, LocalsKnown, vars
  <2> QED BY <2>1, LoginInv, OutsideInv DEF Next
<1>3. TypeInv => TypeOK
  BY DEF TypeInv
<1> QED BY <1>1, <1>2, <1>3, PTL DEF Spec

----------------------------------------------------------------------------
(* How an attempt ends.                                                     *)

\* A call that fails decides the attempt; a success carries no reply.
OutcomeInv ==
  /\ pc # "reply" => ~unreachable /\ reply = None
  /\ pc = "scitoken" => request.token \in SciTokens
  /\ pc = "reply" /\ status = "SUCCESS" => reply = None
  /\ OutageIsUnavailable

\* The decisions of _cmd_login() and _cmd_get_account_map(): all but the
\* failing calls leave unreachable alone.
LEMMA AnswerOutcome ==
  ASSUME OutcomeInv, NEW st, NEW rep, Answer(st, rep), st = "SUCCESS" => rep = None,
         \/ unreachable' = FALSE
         \/ request.token \in SciTokens
         \/ st = "AUTHINFO_UNAVAIL" /\ (rep # None => rep.code = "UNEXPECTED_ERROR")
  PROVE  OutcomeInv'
<1>1. request.token \in SciTokens => request.token \notin GlobusTokens
  BY RealmAssumption DEF RealmAssumption
<1> QED BY <1>1 DEF OutcomeInv, OutageIsUnavailable, Answer

\* Every step of pam_sm_authenticate() keeps OutcomeInv.
LEMMA LoginOutcome ==
  ASSUME OutcomeInv, Login PROVE OutcomeInv'
<1>1. CASE \E u \in Accounts : Begin(u)
  BY <1>1 DEF Begin, OutcomeInv, OutageIsUnavailable, history
<1>2. CASE HangUp \/ VerifySciTokenCrashes \/ Killed \/ SendReply
  BY <1>2 DEF HangUp, VerifySciTokenCrashes, Killed, SendReply, Return, OutcomeInv,
              OutageIsUnavailable
<1>3. CASE \E q \in Request : Receive(q)
  <2>1. PICK q \in Request : Receive(q)
    BY <1>3
  <2>2. ~unreachable' /\ reply = None
    BY <2>1 DEF Receive, OutcomeInv
  <2>3. pc' = "scitoken" => request'.token \in SciTokens
    BY <2>1 DEF Receive
  <2>4. pc' = "reply" => status' # "SUCCESS"
    BY <2>1 DEF Receive
  <2>5. pc' # "reply" => reply' = reply
    BY <2>1 DEF Receive
  <2> QED BY <2>2, <2>3, <2>4, <2>5 DEF OutcomeInv, OutageIsUnavailable
<1>4. CASE Introspect \/ GetClient \/ GetIdentities
  BY <1>4 DEF Introspect, GetClient, GetIdentities, Continue, OutcomeInv,
              OutageIsUnavailable, history
<1>5. CASE IntrospectInactive \/ IntrospectFails \/ GetClientFails \/ GetIdentitiesFails
  <2>1. PICK rep \in {None, ErrorReply("UNEXPECTED_ERROR")} : Answer("AUTHINFO_UNAVAIL", rep)
    BY <1>5 DEF IntrospectInactive, IntrospectFails, GetClientFails, GetIdentitiesFails
  <2>2. rep # None => rep.code = "UNEXPECTED_ERROR"
    BY DEF ErrorReply
  <2> QED BY <2>1, <2>2, AnswerOutcome
<1>6. ASSUME ValidateToken \/ CheckSession \/ MapAccounts \/ VerifySciToken PROVE OutcomeInv'
  <2>1. ~unreachable /\ reply = None
    BY <1>6 DEF ValidateToken, CheckSession, MapAccounts, VerifySciToken, OutcomeInv
  <2>2. ASSUME NEW label \in Serving \ {"scitoken"}, Continue(label) PROVE OutcomeInv'
    BY <2>1, <2>2 DEF Continue, OutcomeInv, OutageIsUnavailable, history, Serving
  <2>3. ASSUME NEW st, NEW rep, Answer(st, rep), st = "SUCCESS" => rep = None,
               UNCHANGED unreachable
        PROVE  OutcomeInv'
    <3>1. unreachable' = FALSE
      BY <2>1, <2>3, <1>6 DEF OutcomeInv, ValidateToken, CheckSession, MapAccounts, VerifySciToken
    <3> QED BY <3>1, <2>3, AnswerOutcome
  <2>4. CASE ValidateToken
    BY <2>2, <2>3, <2>4 DEF ValidateToken, Serving
  <2>5. CASE CheckSession
    BY <2>2, <2>3, <2>5 DEF CheckSession, Serving
  <2>6. CASE MapAccounts
    BY <2>3, <2>6 DEF MapAccounts, UseMap
  <2>7. CASE VerifySciToken
    BY <2>3, <2>7 DEF VerifySciToken
  <2> QED BY <1>6, <2>4, <2>5, <2>6, <2>7
<1>7. CASE VerifySciTokenFails
  BY <1>7, AnswerOutcome DEF VerifySciTokenFails, OutcomeInv
<1>8. CASE \E f \in MapFiles : ReadMapFile(f)
  BY <1>8 DEF ReadMapFile, Continue, OutcomeInv, OutageIsUnavailable, history
<1> QED BY <1>1, <1>2, <1>3, <1>4, <1>5, <1>6, <1>7, <1>8 DEF Login

\* So does every step of the system.
LEMMA OutcomeStep ==
  ASSUME OutcomeInv, [Next]_vars PROVE OutcomeInv'
<1>1. CASE Outside
  BY <1>1 DEF Outside, Tick, Deactivate, Link, Unlink, Authenticate, EditMap, EditConf,
         Register, Event, Becomes, OutcomeInv, OutageIsUnavailable
<1>2. CASE UNCHANGED vars
  BY <1>2 DEF vars, OutcomeInv, OutageIsUnavailable
<1> QED BY <1>1, <1>2, LoginOutcome DEF Next

\* No attempt has failed before the first one.
LEMMA InitOutcome == Init => OutcomeInv
  BY DEF Init, OutcomeInv, OutageIsUnavailable

\* An attempt in which a call to Globus Auth failed ends unavailable: it neither
\* logs in nor blames the user.
THEOREM OutageNeverDecides == Spec => []OutageIsUnavailable
<1>1. OutcomeInv => OutageIsUnavailable
  BY DEF OutcomeInv
<1> QED BY <1>1, InitOutcome, OutcomeStep, PTL DEF Spec

\* Nothing is sent in front of a successful login or to a plain ssh client.
THEOREM NothingLeaks == Spec => SilentLogin
<1>1. OutcomeInv /\ [Next]_vars =>
        [wire' # wire /\ wire' # None => status' # "SUCCESS" /\ request.op # "paste"]_vars
  <2> SUFFICES ASSUME OutcomeInv, Next, wire' # wire, wire' # None
               PROVE  status' # "SUCCESS" /\ request.op # "paste"
    OBVIOUS
  <2>1. CASE Outside
    BY <2>1 DEF Outside, Tick, Deactivate, Link, Unlink, Authenticate, EditMap, EditConf,
         Register, Event, Becomes
  <2>2. CASE SendReply
    BY <2>2 DEF SendReply, Return, OutcomeInv
  <2>3. CASE Login /\ ~SendReply
    BY <2>3 DEF Login, Begin, HangUp, Receive, Introspect, IntrospectInactive, IntrospectFails,
       GetClient, GetClientFails, ValidateToken, GetIdentities, GetIdentitiesFails,
       CheckSession, ReadMapFile, MapAccounts, UseMap, VerifySciToken,
       VerifySciTokenFails, VerifySciTokenCrashes, Killed, Answer, Continue
  <2> QED BY <2>1, <2>2, <2>3 DEF Next
<1> QED BY <1>1, InitOutcome, OutcomeStep, PTL DEF Spec, SilentLogin
=============================================================================
