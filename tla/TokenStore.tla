----------------------------- MODULE TokenStore -----------------------------
(***************************************************************************)
(* client/oauth_ssh: oauth_ssh_token.py, config.py and globus_auth.py.      *)
(* Every command is a process of its own.  They share ~/.oauth-ssh.cfg,     *)
(* which nothing locks: to save an object is to load its section, load the  *)
(* file again, truncate it and write it whole.  And they share the user's   *)
(* tokens at Globus Auth, which any of them may validate, refresh or revoke.*)
(*                                                                          *)
(* Between two steps of a command another command may take any of its own,  *)
(* a token may expire, a call may fail with or without its effect, and the  *)
(* process may die.                                                         *)
(***************************************************************************)
EXTENDS Integers

CONSTANTS
  Procs,        \* processes of the user, each runs one command at a time
  Hosts,        \* FQDNs, a section of the file each
  Timeouts,     \* authentication_timeout values of a site, in minutes; 0 is none
  Minute,       \* ticks of the clock in a minute: 60 in the code
  None,
  Garbled,      \* what configparser cannot parse
  KnownHost,    \* the host already authorized when a behaviour starts, or None
  MaxTokens,    \* bound: tokens issued
  MaxCommands,  \* bound: commands started
  MayCrash,     \* whether processes die
  MaxEvents,    \* bound: tokens that expire and processes that die
  MaxTime       \* bound: the clock stops here

ASSUME StoreAssumption ==
  /\ Timeouts \subseteq Nat /\ None \notin Timeouts
  /\ Minute \in Nat /\ MayCrash \in BOOLEAN
  /\ KnownHost \in Hosts \cup {None}
  /\ KnownHost # None => MaxTokens >= 2 /\ 0 \in Timeouts
  /\ MaxTokens \in Nat /\ MaxCommands \in Nat /\ MaxEvents \in Nat /\ MaxTime \in Nat
  /\ None \notin Nat /\ Garbled # None
  /\ None \notin Hosts /\ "general" \notin Hosts

Tokens == 1 .. MaxTokens
Kinds == {"access", "refresh"}

\* token.py, one section of the file, and the file.  A missing section has no
\* objects in it.  general says that the client's own credential is stored.
Token == [access: Tokens \cup {None}, refresh: Tokens \cup {None}, authorized_at: Nat]
Section == [token: Token \cup {None}, policy: Timeouts \cup {None}, account_map: BOOLEAN]
Content == [general: BOOLEAN, hosts: [Hosts -> Section]]

NoSection == [token |-> None, policy |-> None, account_map |-> FALSE]
EmptyFile == [general |-> FALSE, hosts |-> [h \in Hosts |-> NoSection]]

VARIABLES
  file,       \* ~/.oauth-ssh.cfg
  proc,       \* the processes
  live,       \* tokens Globus Auth finds active
  issued,     \* how many tokens it has issued
  now,        \* time.time()
  commands,   \* how many commands were started
  events,     \* how many tokens expired and processes died
  standing,   \* history: what the user last did about a host
  written_off \* history: tokens lost by an ignored failure, a lost reply or a crash

vars == <<file, proc, live, issued, now, commands, events, standing, written_off>>
globus == <<live, issued>>
outside == <<now, commands, events>>
history == <<standing, written_off>>

Commands == {"authorize", "revoke", "ssh"}

Labels == {"policy", "grant", "load_old", "revoke_old", "delete", "save_policy",
           "save_token", "end", "load_token", "load_policy", "check_access",
           "check_refresh", "refresh", "save_new", "give_up", "got", "accounts"}

\* A host is granted once authorize has ended, with what it stored then.
Standing == [state: {"never", "pending", "granted", "revoked"},
             token: Token \cup {None}, policy: Timeouts \cup {None}]

Results == {"none", "done", "token", "NeedToAuthorize", "error", "crashed"}

\* A save under way: the object to save, the section to replace, the whole text
\* to write.
Save ==      [phase: {"load"}, section: Hosts, object: {"token"}, value: Token]
        \cup [phase: {"load"}, section: Hosts, object: {"policy"}, value: Timeouts]
        \cup [phase: {"load"}, section: Hosts, object: {"account_map"}, value: BOOLEAN]
        \cup [phase: {"reload"}, section: Hosts, values: Section]
        \cup [phase: {"load", "reload"}, section: {"general"}]
        \cup [phase: {"truncate", "write"}, image: Content]

\* What stands for no object is none, and what cannot be parsed is no text.
ASSUME StandInsAssumption ==
  None \notin Token \cup Section \cup Save /\ Garbled \notin Content

Process ==
  [ pc: Labels \cup {"idle"},
    cmd: Commands \cup {None}, host: Hosts \cup {None},
    kind: Kinds,                    \* what revoke_token() is about
    token: Token \cup {None},       \* the Token object of the command
    old: Token \cup {None},         \* the Token object of revoke_token()
    policy: Timeouts \cup {None},   \* what get_security_policy() returned
    save: Save \cup {None},
    fresh: BOOLEAN,                 \* the credential was registered by this call
    result: Results,
    since: Standing,                \* history: standing when the command began
    dead: SUBSET Tokens ]           \* history: tokens no longer active then

Never == [state |-> "never", token |-> None, policy |-> None]

Idle(result) ==
  [ pc |-> "idle", cmd |-> None, host |-> None, kind |-> "access", token |-> None,
    old |-> None, policy |-> None, save |-> None, fresh |-> FALSE,
    result |-> result, since |-> Never, dead |-> {} ]

\* The known host has a refresh token, and an access token that may expire.
KnownSection ==
  [token |-> [access |-> 1, refresh |-> 2, authorized_at |-> 0], policy |-> 0,
   account_map |-> FALSE]

Init ==
  /\ file = [general |-> TRUE, hosts |->
       [h \in Hosts |-> IF h = KnownHost THEN KnownSection ELSE NoSection]]
  /\ proc = [p \in Procs |-> Idle("none")]
  /\ issued = IF KnownHost = None THEN 0 ELSE 2
  /\ live = 1 .. issued
  /\ now = 0 /\ commands = 0 /\ events = 0
  /\ standing = [h \in Hosts |->
       IF h = KnownHost THEN [state |-> "granted", token |-> KnownSection.token, policy |-> 0]
                        ELSE Never]
  /\ written_off = {}

----------------------------------------------------------------------------
(* Helpers: the process's own record, the file, Globus Auth.                *)

\* p is at the given statement, with no save under way.
At(p, label) == proc[p].pc = label /\ proc[p].save = None

Mine(p) == file.hosts[proc[p].host]

Readable == file # Garbled

\* _lookup_credentials() finds the credential, or this call has registered one.
Credentialed(p) == proc[p].fresh \/ (Readable /\ file.general)

Goto(p, label) ==
  proc' = [proc EXCEPT ![p].pc = label, ![p].fresh = FALSE]

\* The command ends and its memory with it.
End(p, result) ==
  proc' = [proc EXCEPT ![p] = [Idle(result) EXCEPT !.cmd = proc[p].cmd,
                                 !.host = proc[p].host]]

\* save_object(): mine is the process's record from here on.
SaveThen(p, mine, object, value, label) ==
  proc' = [proc EXCEPT ![p] =
    [mine EXCEPT !.pc = label, !.fresh = FALSE, !.save =
       [phase |-> "load", section |-> proc[p].host, object |-> object, value |-> value]]]

\* The tokens a process knows of, in its objects or in what it is writing.
In(token) == IF token = None THEN {} ELSE {token.access, token.refresh} \ {None}
Stored(content) ==
  IF content = Garbled THEN {} ELSE UNION {In(content.hosts[h].token) : h \in Hosts}
InSave(save) ==
  IF save = None THEN {}
  ELSE IF save.phase \in {"truncate", "write"} THEN Stored(save.image)
  ELSE IF save.section = "general" THEN {}
  ELSE IF save.phase = "reload" THEN In(save.values.token)
  ELSE IF save.object = "token" THEN In(save.value) ELSE {}
Memory(p) == In(proc[p].token) \cup In(proc[p].old) \cup InSave(proc[p].save)

----------------------------------------------------------------------------
(* revoke_token(): where it goes on, and how it ends.                       *)

\* A plausible slip: oauth-ssh-token revoke ends with the access token.
AfterRevokeAccess(me) ==
  IF me.kind = "refresh" THEN [me EXCEPT !.pc = "delete"]
  ELSE IF me.cmd = "ssh" THEN [me EXCEPT !.pc = "save_new"]
  ELSE IF me.cmd = "revoke" THEN [me EXCEPT !.pc = "end"]
  ELSE [me EXCEPT !.pc = "load_old", !.kind = "refresh"]

AfterRevoke(me) ==
  IF me.kind = "refresh" THEN [me EXCEPT !.pc = "delete"]
  ELSE IF me.cmd = "ssh" THEN [me EXCEPT !.pc = "save_new"]
  ELSE [me EXCEPT !.pc = "load_old", !.kind = "refresh"]

\* The token is taken from the object, whatever became of it, and the object is
\* saved.
DropOld(p) ==
  LET me == proc[p]
      next == AfterRevoke([me EXCEPT !.old = None])
  IN  SaveThen(p, next, "token", [me.old EXCEPT ![me.kind] = None], next.pc)

\* A failed revocation is reported and ignored.
NotRevoked(p) ==
  DropOld(p) /\ written_off' = written_off \cup {proc[p].old[proc[p].kind]}

----------------------------------------------------------------------------
(* config.py: the rest of save_object() and delete_section().               *)

\* load_section() returns the section, and the object replaces another in it.
Load(p) ==
  LET save == proc[p].save IN
  /\ save # None /\ save.phase = "load"
  /\ Readable
  /\ proc' = [proc EXCEPT ![p].save =
       IF save.section = "general" THEN [save EXCEPT !.phase = "reload"]
       ELSE [phase |-> "reload", section |-> save.section,
             values |-> [file.hosts[save.section] EXCEPT ![save.object] = save.value]]]
  /\ UNCHANGED <<file, globus, outside, history>>

\* save_section() loads the file again and replaces the section.
Reload(p) ==
  LET save == proc[p].save IN
  /\ save # None /\ save.phase = "reload"
  /\ Readable
  /\ proc' = [proc EXCEPT ![p].save =
       [phase |-> "truncate", image |->
          IF save.section = "general" THEN [file EXCEPT !.general = TRUE]
          ELSE [file EXCEPT !.hosts[save.section] = save.values]]]
  /\ UNCHANGED <<file, globus, outside, history>>

\* os.open(path, O_TRUNC)
Truncate(p) ==
  LET save == proc[p].save IN
  /\ save # None /\ save.phase = "truncate"
  /\ file' = EmptyFile
  /\ proc' = [proc EXCEPT ![p].save = [save EXCEPT !.phase = "write"]]
  /\ UNCHANGED <<globus, outside, history>>

\* The file's text may begin with the text of image.
Begins(image) ==
  /\ Readable
  /\ image.general => file.general
  /\ \A h \in Hosts : LET new == image.hosts[h]  old == file.hosts[h] IN
       /\ new.token \in {None, old.token} /\ new.policy \in {None, old.policy}
       /\ new.account_map => old.account_map

\* The text is written from the start of the file.  If another process has
\* written there meanwhile, the end of a longer text stays behind, as it was or
\* cut somewhere.
Write(p) ==
  LET save == proc[p].save IN
  /\ save # None /\ save.phase = "write"
  /\ \/ file' = save.image
     \/ file # EmptyFile /\ file' = Garbled
     \/ Begins(save.image) /\ file' = file
  /\ proc' = [proc EXCEPT ![p].save = None]
  /\ UNCHANGED <<globus, outside, history>>

\* What is loaded cannot be parsed: the command ends, or revoke_token() ignores
\* that it has no credential.
SaveFails(p) ==
  LET save == proc[p].save IN
  /\ save # None /\ save.phase \in {"load", "reload"}
  /\ ~Readable
  /\ IF proc[p].pc = "revoke_old"
       THEN NotRevoked(p)
       ELSE End(p, "error") /\ UNCHANGED written_off
  /\ UNCHANGED <<file, globus, outside, standing>>

Saving(p) == Load(p) \/ Reload(p) \/ Truncate(p) \/ Write(p) \/ SaveFails(p)

\* delete_section()
Delete(p) ==
  LET next == IF proc[p].cmd = "authorize" THEN "save_policy" ELSE "end" IN
  /\ At(p, "delete")
  /\ Readable
  /\ IF Mine(p) = NoSection
       THEN Goto(p, next)
       ELSE proc' = [proc EXCEPT ![p].pc = next, ![p].save =
              [phase |-> "truncate", image |->
                 [file EXCEPT !.hosts[proc[p].host] = NoSection]]]
  /\ UNCHANGED <<file, globus, outside, history>>

----------------------------------------------------------------------------
(* globus_auth.py                                                           *)

\* Where the next statement is a request to Globus Auth.
Requesting(p) ==
  \/ proc[p].pc \in {"grant", "refresh", "revoke_old"}
  \/ proc[p].pc = "check_access" /\ proc[p].token.access # None
  \/ proc[p].pc = "check_refresh" /\ proc[p].token.refresh # None

\* register_client(), and its credential saved in a section of its own.
Register(p) ==
  /\ Requesting(p) /\ proc[p].save = None
  /\ Readable /\ ~file.general /\ ~proc[p].fresh
  /\ proc' = [proc EXCEPT ![p].fresh = TRUE,
                ![p].save = [phase |-> "load", section |-> "general"]]
  /\ UNCHANGED <<file, globus, outside, history>>

\* A plausible slip: authorize deletes the section before it revokes from it.
GrantThenDelete(p) ==
  /\ At(p, "grant") /\ Credentialed(p)
  /\ issued + 2 <= MaxTokens
  /\ issued' = issued + 2
  /\ live' = live \cup {issued + 1, issued + 2}
  /\ proc' = [proc EXCEPT ![p].pc = "delete", ![p].fresh = FALSE, ![p].token =
       [access |-> issued + 1, refresh |-> issued + 2, authorized_at |-> now]]
  /\ standing' = [standing EXCEPT ![proc[p].host].state = "pending"]
  /\ UNCHANGED <<file, outside, written_off>>

\* do_auth_code_grant(): the user authenticates, two tokens are issued.
Grant(p) ==
  /\ At(p, "grant") /\ Credentialed(p)
  /\ issued + 2 <= MaxTokens
  /\ issued' = issued + 2
  /\ live' = live \cup {issued + 1, issued + 2}
  /\ proc' = [proc EXCEPT ![p].pc = "load_old", ![p].fresh = FALSE, ![p].token =
       [access |-> issued + 1, refresh |-> issued + 2, authorized_at |-> now]]
  /\ standing' = [standing EXCEPT ![proc[p].host].state = "pending"]
  /\ UNCHANGED <<file, outside, written_off>>

\* refresh_token(), and token.update() with its reply.  The reply repeats the
\* refresh token (the comment above refresh_token() shows one): Globus Auth is
\* assumed not to replace it.
Refresh(p) ==
  /\ At(p, "refresh") /\ Credentialed(p)
  /\ proc[p].token.refresh \in live
  /\ issued < MaxTokens
  /\ issued' = issued + 1
  /\ live' = live \cup {issued + 1}
  /\ proc' = [proc EXCEPT ![p].pc = "load_old", ![p].fresh = FALSE,
                ![p].token.access = issued + 1]
  /\ UNCHANGED <<file, outside, history>>

\* The token was issued but the reply does not arrive within 15 seconds.
ReplyLost(p) ==
  /\ At(p, "grant") \/ (At(p, "refresh") /\ proc[p].token.refresh \in live)
  /\ Credentialed(p)
  /\ LET n == IF proc[p].pc = "grant" THEN 2 ELSE 1
         new == issued + 1 .. issued + n
     IN  /\ issued + n <= MaxTokens
         /\ issued' = issued + n
         /\ live' = live \cup new
         /\ written_off' = written_off \cup new
  /\ End(p, "error")
  /\ UNCHANGED <<file, outside, standing>>

\* A call to Globus Auth or to the site fails, or the file cannot be read.
CallFails(p) ==
  /\ proc[p].save = None
  /\ \/ proc[p].pc \in {"policy", "accounts"}
     \/ Requesting(p) /\ proc[p].pc # "revoke_old"
     \/ /\ ~Readable
        /\ proc[p].pc \in {"load_old", "delete", "load_token", "load_policy", "got"}
  /\ End(p, "error")
  /\ UNCHANGED <<file, globus, outside, history>>

----------------------------------------------------------------------------
(* oauth_ssh_token.py: revoke_token(fqdn, kind)                             *)

LoadOld(p) ==
  /\ At(p, "load_old") /\ Readable
  /\ LET t == Mine(p).token
     IN  IF t # None /\ t[proc[p].kind] # None
           THEN proc' = [proc EXCEPT ![p].old = t, ![p].pc = "revoke_old"]
           ELSE proc' = [proc EXCEPT ![p] = AfterRevoke(@)]
  /\ UNCHANGED <<file, globus, outside, history>>

RevokeOld(p) ==
  /\ At(p, "revoke_old")
  /\ \/ /\ Credentialed(p)
        /\ live' = live \ {proc[p].old[proc[p].kind]}
        /\ DropOld(p) /\ UNCHANGED written_off
     \/ NotRevoked(p) /\ UNCHANGED live
  /\ UNCHANGED <<file, issued, outside, standing>>

----------------------------------------------------------------------------
(* oauth-ssh-token authorize and revoke                                     *)

FirstLabel == [authorize |-> "policy", revoke |-> "load_old", ssh |-> "load_token"]

Start(p, c, h) ==
  /\ proc[p].pc = "idle"
  /\ commands < MaxCommands
  /\ commands' = commands + 1
  /\ proc' = [proc EXCEPT ![p] = [Idle("none") EXCEPT !.pc = FirstLabel[c],
                 !.cmd = c, !.host = h, !.since = standing[h],
                 !.dead = IF c = "ssh" THEN 1 .. issued \ live ELSE {}]]
  /\ standing' = IF c = "revoke" THEN [standing EXCEPT ![h].state = "pending"] ELSE standing
  /\ UNCHANGED <<file, globus, now, events, written_off>>

\* A plausible slip: the policy is kept in seconds.
GetPolicyInSeconds(p) ==
  /\ At(p, "policy")
  /\ \E t \in Timeouts :
       proc' = [proc EXCEPT ![p].policy = Minute * t, ![p].pc = "grant"]
  /\ UNCHANGED <<file, globus, outside, history>>

GetPolicy(p) ==
  /\ At(p, "policy")
  /\ \E t \in Timeouts :
       proc' = [proc EXCEPT ![p].policy = t, ![p].pc = "grant"]
  /\ UNCHANGED <<file, globus, outside, history>>

SavePolicy(p) ==
  /\ At(p, "save_policy")
  /\ SaveThen(p, proc[p], "policy", proc[p].policy, "save_token")
  /\ UNCHANGED <<file, globus, outside, history>>

SaveToken(p) ==
  /\ At(p, "save_token")
  /\ SaveThen(p, proc[p], "token", proc[p].token, "end")
  /\ UNCHANGED <<file, globus, outside, history>>

Finish(p) ==
  /\ At(p, "end")
  /\ End(p, IF proc[p].cmd = "ssh" THEN "token" ELSE "done")
  /\ standing' = CASE proc[p].cmd = "ssh" -> standing
       [] proc[p].cmd = "revoke" -> [standing EXCEPT ![proc[p].host].state = "revoked"]
       [] proc[p].cmd = "authorize" -> [standing EXCEPT ![proc[p].host] =
            [state |-> "granted", token |-> proc[p].token, policy |-> proc[p].policy]]
  /\ UNCHANGED <<file, globus, outside, written_off>>

----------------------------------------------------------------------------
(* find_access_token(), and oauth-ssh up to the login.                      *)

NeedToAuthorize(p) == End(p, "NeedToAuthorize")

\* A plausible slip: minutes are compared with seconds.
TimedOutUnscaled(section, t) ==
  section.policy > 0 /\ t.authorized_at + section.policy < now

TimedOut(section, t) ==
  section.policy > 0 /\ t.authorized_at + Minute * section.policy < now

LoadToken(p) ==
  /\ At(p, "load_token") /\ Readable
  /\ IF Mine(p).token = None
       THEN NeedToAuthorize(p)
       ELSE proc' = [proc EXCEPT ![p].token = Mine(p).token, ![p].pc = "load_policy"]
  /\ UNCHANGED <<file, globus, outside, history>>

LoadPolicy(p) ==
  /\ At(p, "load_policy") /\ Readable
  /\ IF Mine(p).policy = None \/ TimedOut(Mine(p), proc[p].token)
       THEN NeedToAuthorize(p)
       ELSE Goto(p, "check_access")
  /\ UNCHANGED <<file, globus, outside, history>>

\* An invalid token of the given kind is deleted from the object and the
\* object is saved.
Drop(p, kind, label) ==
  LET rest == [proc[p].token EXCEPT ![kind] = None]
  IN  SaveThen(p, [proc[p] EXCEPT !.token = rest], "token", rest, label)

\* A plausible slip: the stored access token is taken at its word.
CheckAccessUnasked(p) ==
  /\ At(p, "check_access")
  /\ Goto(p, IF proc[p].token.access = None THEN "check_refresh" ELSE "got")
  /\ UNCHANGED <<file, globus, outside, history>>

CheckAccess(p) ==
  /\ At(p, "check_access")
  /\ LET t == proc[p].token.access IN
     IF t = None THEN Goto(p, "check_refresh")
     ELSE /\ Credentialed(p)
          /\ IF t \in live THEN Goto(p, "got") ELSE Drop(p, "access", "check_refresh")
  /\ UNCHANGED <<file, globus, outside, history>>

CheckRefresh(p) ==
  /\ At(p, "check_refresh")
  /\ LET t == proc[p].token.refresh IN
     IF t = None THEN NeedToAuthorize(p)
     ELSE /\ Credentialed(p)
          /\ IF t \in live THEN Goto(p, "refresh") ELSE Drop(p, "refresh", "give_up")
  /\ UNCHANGED <<file, globus, outside, history>>

SaveNew(p) ==
  /\ At(p, "save_new")
  /\ SaveThen(p, proc[p], "token", proc[p].token, "got")
  /\ UNCHANGED <<file, globus, outside, history>>

GiveUp(p) ==
  /\ At(p, "give_up")
  /\ NeedToAuthorize(p)
  /\ UNCHANGED <<file, globus, outside, history>>

\* The account is given, or it comes from the cached map, or from the site.
Got(p) ==
  /\ At(p, "got")
  /\ \/ End(p, "token")
     \/ Readable /\ ~Mine(p).account_map /\ Goto(p, "accounts")
  /\ UNCHANGED <<file, globus, outside, history>>

GetAccounts(p) ==
  /\ At(p, "accounts")
  /\ proc[p].token.access \in live
  /\ SaveThen(p, proc[p], "account_map", TRUE, "end")
  /\ UNCHANGED <<file, globus, outside, history>>

----------------------------------------------------------------------------
(* What happens to a process, and outside of all of them.                   *)

Crash(p) ==
  /\ proc[p].pc # "idle"
  /\ MayCrash
  /\ events < MaxEvents /\ events' = events + 1
  /\ written_off' = written_off \cup Memory(p)
  /\ End(p, "crashed")
  /\ UNCHANGED <<file, globus, now, commands, standing>>

Expire(t) ==
  /\ t \in live
  /\ live' = live \ {t}
  /\ events < MaxEvents /\ events' = events + 1
  /\ UNCHANGED <<file, proc, issued, now, commands, history>>

Tick ==
  /\ now < MaxTime
  /\ now' = now + 1
  /\ UNCHANGED <<file, proc, globus, commands, events, history>>

Step(p) ==
  \/ Saving(p) \/ Delete(p) \/ Register(p)
  \/ Grant(p) \/ Refresh(p) \/ ReplyLost(p) \/ CallFails(p)
  \/ LoadOld(p) \/ RevokeOld(p)
  \/ GetPolicy(p) \/ SavePolicy(p) \/ SaveToken(p) \/ Finish(p)
  \/ LoadToken(p) \/ LoadPolicy(p) \/ CheckAccess(p) \/ CheckRefresh(p)
  \/ SaveNew(p) \/ GiveUp(p) \/ Got(p) \/ GetAccounts(p)

Next ==
  \/ \E p \in Procs : Step(p) \/ Crash(p)
  \/ \E p \in Procs, c \in Commands, h \in Hosts : Start(p, c, h)
  \/ \E t \in live : Expire(t)
  \/ Tick

Spec == Init /\ [][Next]_vars

----------------------------------------------------------------------------
(* What is checked.                                                         *)

\* The file is a file of sections or garbled, and every process is at a statement
\* of its command with objects of the classes of token.py and policy.py.
TypeOK ==
  /\ file \in Content \cup {Garbled}
  /\ proc \in [Procs -> Process]
  /\ live \subseteq 1 .. issued /\ issued \in 0 .. MaxTokens
  /\ now \in 0 .. MaxTime /\ commands \in 0 .. MaxCommands /\ events \in 0 .. MaxEvents
  /\ standing \in [Hosts -> Standing]
  /\ written_off \subseteq Tokens

\* The client itself loses no live token: Globus Auth's active tokens are in the
\* file or in the hands of a command, except for those of an ignored failure, a
\* lost reply or a crash.
NoTokenForgotten ==
  live \subseteq Stored(file) \cup written_off \cup UNION {Memory(p) : p \in Procs}

\* oauth-ssh and show token hand out no access token that was expired or revoked
\* when they started, although a save of another command may have put it back.
NoDeadToken ==
  [][\A p \in Procs :
       proc[p].pc # "idle" /\ proc'[p].result = "token" =>
         proc[p].token.access \notin proc[p].dead]_vars

\* p's command ends with the given result, about a host that stands as it did
\* when the command began.
Ends(p, result) ==
  /\ proc[p].pc # "idle" /\ proc'[p].pc = "idle" /\ proc'[p].result = result
  /\ proc[p].since = standing[proc[p].host]

\* The site's timeout has not passed since the grant.
Recent(g) == g.policy = 0 \/ now - g.token.authorized_at <= g.policy * Minute

\* README.md, "This step is only required once per SSH service": as long as the
\* refresh token is active and the site's timeout has not passed, nobody who
\* has authorized a host is told to do so again.
AuthorizedOnce ==
  [][\A p \in Procs :
       LET g == proc[p].since IN
       Ends(p, "NeedToAuthorize") /\ g.state = "granted" =>
         g.token.refresh \notin live \/ ~Recent(g)]_vars

\* README.md, revoke: "Further access to ssh.demo.globus.org will require you to
\* rerun the authorize command".
RevokeIsFinal ==
  [][\A p \in Procs :
       Ends(p, "token") => proc[p].since.state # "revoked"]_vars
=============================================================================
