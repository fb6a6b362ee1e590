------------------------- MODULE TokenStoreIntentProofs ------------------------
(***************************************************************************)
(* What the user meant for a host, one command at a time and for any number *)
(* of hosts, tokens and commands: a revoked host gives out no token, and,   *)
(* as long as no process is killed, an authorized host asks for no second   *)
(* authorization.                                                           *)
(*                                                                          *)
(* Both relate the history variable standing to Plan(p), the sections as    *)
(* they will be once the save under way is over: what a command does to the *)
(* plan is the lemma StepMoves, how it ends is StepGoesOnOrEnds.            *)
(***************************************************************************)
EXTENDS TokenStoreAloneProofs

----------------------------------------------------------------------------
(* How a command goes on, and how it ends.                                  *)

\* p's command goes on.  Only the grant and oauth-ssh change its token, and
\* authorize leaves its first statements by the grant.
GoesOn(p) ==
  /\ proc'[p].pc # "idle" /\ proc'[p].result = "none"
  /\ proc'[p].cmd = proc[p].cmd /\ proc'[p].host = proc[p].host
  /\ \/ Grant(p)
     \/ /\ proc[p].cmd = "ssh" \/ proc'[p].token = proc[p].token
        /\ proc[p].cmd = "authorize" /\ proc[p].pc \in First => proc'[p].pc \in First

\* p's command ends with a token, or asks for an authorization, at these places.
EndsIn(p) ==
  /\ proc'[p].pc = "idle" /\ proc[p].save = None
  /\ proc'[p].result = "token" => proc[p].cmd = "ssh" /\ proc[p].pc \in {"got", "end"}
  /\ proc'[p].result = "NeedToAuthorize" =>
       \/ proc[p].pc = "load_token" /\ Mine(p).token = None
       \/ /\ proc[p].pc = "load_policy"
          /\ Mine(p).policy = None \/ TimedOut(Mine(p), proc[p].token)
       \/ proc[p].pc \in {"check_refresh", "give_up"} /\ proc[p].token.refresh = None

\* A record that the command goes on with.
LEMMA OnwardGoesOn ==
  ASSUME Alone, NEW p \in Procs, proc[p].pc # "idle",
         NEW me, proc' = [proc EXCEPT ![p] = me],
         me.pc # "idle", me.result = proc[p].result, me.cmd = proc[p].cmd,
         me.host = proc[p].host, proc[p].cmd = "ssh" \/ me.token = proc[p].token,
         proc[p].cmd = "authorize" /\ proc[p].pc \in First => me.pc \in First
  PROVE  GoesOn(p)
<1>1. proc'[p] = me BY Placed DEF Alone
<1>2. proc[p].result = "none" BY Of DEF Holds
<1> QED BY <1>1, <1>2 DEF GoesOn

\* A statement that only moves on.
LEMMA GotoGoesOn ==
  ASSUME Alone, NEW p \in Procs, proc[p].pc # "idle", NEW label, Goto(p, label),
         label # "idle", proc[p].cmd = "authorize" => proc[p].pc \notin First
  PROVE  GoesOn(p)
<1> DEFINE me == [proc[p] EXCEPT !.pc = label, !.fresh = FALSE]
<1>1. proc' = [proc EXCEPT ![p] = me] BY DEF Goto
<1>2. /\ me.pc = label /\ me.result = proc[p].result /\ me.cmd = proc[p].cmd
      /\ me.host = proc[p].host /\ me.token = proc[p].token
  BY Of DEF Process
<1> HIDE DEF me
<1> QED BY <1>1, <1>2, OnwardGoesOn

\* A statement that begins to save an object.
LEMMA SaveThenGoesOn ==
  ASSUME Alone, NEW p \in Procs, proc[p].pc # "idle",
         NEW mine \in Process, NEW object, NEW value, NEW label,
         SaveThen(p, mine, object, value, label), label # "idle",
         mine.result = proc[p].result, mine.cmd = proc[p].cmd, mine.host = proc[p].host,
         proc[p].cmd = "ssh" \/ mine.token = proc[p].token,
         proc[p].cmd = "authorize" => proc[p].pc \notin First
  PROVE  GoesOn(p)
<1> DEFINE save == [phase |-> "load", section |-> proc[p].host,
                    object |-> object, value |-> value]
           me == [mine EXCEPT !.pc = label, !.fresh = FALSE, !.save = save]
<1>1. proc' = [proc EXCEPT ![p] = me] BY DEF SaveThen
<1>2. /\ me.pc = label /\ me.result = proc[p].result /\ me.cmd = proc[p].cmd
      /\ me.host = proc[p].host /\ me.token = mine.token
  BY DEF Process
<1> HIDE DEF me
<1> QED BY <1>1, <1>2, OnwardGoesOn

\* A command that ends has the result it was given.
LEMMA EndEnds ==
  ASSUME Alone, NEW p \in Procs, NEW result, End(p, result)
  PROVE  proc'[p].pc = "idle" /\ proc'[p].result = result
<1> DEFINE me == [Idle(result) EXCEPT !.cmd = proc[p].cmd, !.host = proc[p].host]
<1>1. proc' = [proc EXCEPT ![p] = me] BY DEF End
<1>2. me.pc = "idle" /\ me.result = result BY DEF Idle
<1> HIDE DEF me
<1> QED BY <1>1, <1>2, Placed DEF Alone

\* The save and the credential are not what a command is about.
LEMMA SavingGoesOn ==
  ASSUME Alone, NEW p \in Procs, Saving(p) \/ Delete(p) \/ Register(p)
  PROVE  GoesOn(p)
<1>1. proc[p] \in Process /\ proc[p].pc # "idle" BY Of, StepRuns DEF Step
<1>2. CASE Saving(p)
  <2>1. ~SaveFails(p) BY Of DEF SaveFails
  <2>2. PICK save : proc' = [proc EXCEPT ![p].save = save]
    BY <1>2, <2>1, SavingKeepsPlan DEF Saving
  <2> DEFINE me == [proc[p] EXCEPT !.save = save]
  <2>3. proc' = [proc EXCEPT ![p] = me] BY <2>2
  <2>4. /\ me.pc = proc[p].pc /\ me.result = proc[p].result /\ me.cmd = proc[p].cmd
        /\ me.host = proc[p].host /\ me.token = proc[p].token
    BY <1>1 DEF Process
  <2> HIDE DEF me
  <2> QED BY <1>1, <2>3, <2>4, OnwardGoesOn
<1>3. CASE Delete(p)
  <2> DEFINE next == IF proc[p].cmd = "authorize" THEN "save_policy" ELSE "end"
  <2>1. proc[p].pc = "delete" /\ proc[p].pc \notin First BY <1>3 DEF Delete, At, First
  <2>2. CASE Mine(p) = NoSection
    <3>1. Goto(p, next) BY <1>3, <2>2 DEF Delete
    <3> QED BY <1>1, <2>1, <3>1, GotoGoesOn
  <2>3. CASE Mine(p) # NoSection
    <3> DEFINE save == [phase |-> "truncate", image |->
                          [file EXCEPT !.hosts[proc[p].host] = NoSection]]
               me == [proc[p] EXCEPT !.pc = next, !.save = save]
    <3>1. proc' = [proc EXCEPT ![p] = me] BY <1>3, <2>3 DEF Delete
    <3>2. /\ me.pc = next /\ me.result = proc[p].result /\ me.cmd = proc[p].cmd
          /\ me.host = proc[p].host /\ me.token = proc[p].token
      BY <1>1 DEF Process
    <3> HIDE DEF me
    <3> QED BY <1>1, <2>1, <3>1, <3>2, OnwardGoesOn
  <2> QED BY <2>2, <2>3
<1>4. CASE Register(p)
  <2> DEFINE me == [proc[p] EXCEPT !.fresh = TRUE,
                      !.save = [phase |-> "load", section |-> "general"]]
  <2>1. proc' = [proc EXCEPT ![p] = me] BY <1>4 DEF Register
  <2>2. /\ me.pc = proc[p].pc /\ me.result = proc[p].result /\ me.cmd = proc[p].cmd
        /\ me.host = proc[p].host /\ me.token = proc[p].token
    BY <1>1 DEF Process
  <2> HIDE DEF me
  <2> QED BY <1>1, <2>1, <2>2, OnwardGoesOn
<1> QED BY <1>2, <1>3, <1>4

\* revoke_token() goes on with the token that the command has.
LEMMA RevokeGoesOn ==
  ASSUME Alone, NEW p \in Procs, LoadOld(p) \/ RevokeOld(p)
  PROVE  GoesOn(p)
<1>1. proc[p] \in Process /\ proc[p].pc \in {"load_old", "revoke_old"}
  BY Of DEF LoadOld, RevokeOld, At
<1>2. proc[p].pc # "idle" /\ proc[p].pc \notin First BY <1>1 DEF First
<1>3. CASE LoadOld(p)
  <2> DEFINE t == Mine(p).token
             me == [proc[p] EXCEPT !.old = t, !.pc = "revoke_old"]
  <2>1. CASE t # None /\ t[proc[p].kind] # None
    <3>1. proc' = [proc EXCEPT ![p] = me] BY <1>3, <2>1 DEF LoadOld
    <3>2. /\ me.pc # "idle" /\ me.result = proc[p].result /\ me.cmd = proc[p].cmd
          /\ me.host = proc[p].host /\ me.token = proc[p].token
      BY <1>1 DEF Process
    <3> HIDE DEF me
    <3> QED BY <1>2, <3>1, <3>2, OnwardGoesOn
  <2>2. CASE ~(t # None /\ t[proc[p].kind] # None)
    <3>1. proc' = [proc EXCEPT ![p] = AfterRevoke(proc[p])] BY <1>3, <2>2 DEF LoadOld
    <3>2. AfterRevoke(proc[p]).pc # "idle" BY <1>1, AfterRevokeGoes
    <3> QED BY <1>1, <1>2, <3>1, <3>2, AfterRevokeSame, OnwardGoesOn
  <2> QED BY <2>1, <2>2
<1>4. CASE RevokeOld(p)
  <2> DEFINE off == [proc[p] EXCEPT !.old = None]
             next == AfterRevoke(off)
  <2>1. PICK value : SaveThen(p, next, "token", value, next.pc)
    BY <1>4 DEF RevokeOld, NotRevoked, DropOld
  <2>2. off \in Process /\ off.cmd = proc[p].cmd /\ off.token = proc[p].token
        /\ off.host = proc[p].host /\ off.result = proc[p].result
    BY <1>1 DEF Process
  <2> HIDE DEF off
  <2>3. /\ next \in Process /\ next.cmd = proc[p].cmd /\ next.token = proc[p].token
        /\ next.host = proc[p].host /\ next.result = proc[p].result
        /\ next.pc # "idle"
    BY <2>2, AfterRevokeSame, AfterRevokeGoes
  <2> HIDE DEF next
  <2> QED BY <1>2, <2>1, <2>3, SaveThenGoesOn
<1> QED BY <1>3, <1>4

\* authorize goes on with the tokens it was granted.
LEMMA AuthorizeGoesOn ==
  ASSUME Alone, NEW p \in Procs, GetPolicy(p) \/ Grant(p) \/ SavePolicy(p) \/ SaveToken(p)
  PROVE  GoesOn(p)
<1>1. proc[p] \in Process /\ proc[p].pc \in {"policy", "grant", "save_policy", "save_token"}
  BY Of DEF GetPolicy, Grant, SavePolicy, SaveToken, At
<1>2. proc[p].result = "none" BY <1>1, Of DEF Holds
<1>3. CASE GetPolicy(p)
  <2>1. PICK t : proc' = [proc EXCEPT ![p].policy = t, ![p].pc = "grant"] BY <1>3 DEF GetPolicy
  <2> DEFINE me == [proc[p] EXCEPT !.policy = t, !.pc = "grant"]
  <2>2. proc' = [proc EXCEPT ![p] = me] BY <2>1
  <2>3. /\ me.pc = "grant" /\ me.result = proc[p].result /\ me.cmd = proc[p].cmd
        /\ me.host = proc[p].host /\ me.token = proc[p].token
    BY <1>1 DEF Process
  <2> HIDE DEF me
  <2> QED BY <1>1, <2>2, <2>3, OnwardGoesOn DEF First
<1>4. CASE Grant(p)
  <2> DEFINE t == [access |-> issued + 1, refresh |-> issued + 2, authorized_at |-> now]
             me == [proc[p] EXCEPT !.pc = "load_old", !.fresh = FALSE, !.token = t]
  <2>1. proc' = [proc EXCEPT ![p] = me] BY <1>4 DEF Grant
  <2>2. /\ me.pc = "load_old" /\ me.result = proc[p].result /\ me.cmd = proc[p].cmd
        /\ me.host = proc[p].host
    BY <1>1 DEF Process
  <2> HIDE DEF me
  <2>3. proc'[p] = me BY <2>1, Placed DEF Alone
  <2> QED BY <1>2, <1>4, <2>2, <2>3 DEF GoesOn
<1>5. CASE SavePolicy(p) \/ SaveToken(p)
  <2>1. proc[p].pc \notin First /\ proc[p].pc # "idle"
    BY <1>5 DEF SavePolicy, SaveToken, At, First
  <2>2. PICK object, value, label : SaveThen(p, proc[p], object, value, label) /\ label # "idle"
    BY <1>5 DEF SavePolicy, SaveToken
  <2> QED BY <1>1, <2>1, <2>2, SaveThenGoesOn
<1> QED BY <1>3, <1>4, <1>5

\* oauth-ssh goes on, or ends where it may.
LEMMA SshGoesOnOrEnds ==
  ASSUME Alone, NEW p \in Procs,
         \/ LoadToken(p) \/ LoadPolicy(p) \/ CheckAccess(p) \/ CheckRefresh(p) \/ Refresh(p)
         \/ SaveNew(p) \/ GiveUp(p) \/ Got(p) \/ GetAccounts(p)
  PROVE  GoesOn(p) \/ EndsIn(p)
<1> DEFINE me == proc[p]
<1>1. /\ me \in Process /\ Holds(me) /\ me.save = None /\ me.pc \in OfSsh /\ me.pc # "idle"
  BY Of DEF LoadToken, LoadPolicy, CheckAccess, CheckRefresh, Refresh, SaveNew, GiveUp, Got,
            GetAccounts, At, OfSsh
<1>2. me.cmd = "ssh" /\ Agrees(me, Ours(p)) BY <1>1, OursType DEF Holds
<1>3. ASSUME NEW label, Goto(p, label), label # "idle" PROVE GoesOn(p)
  BY <1>1, <1>2, <1>3, GotoGoesOn
<1>4. ASSUME NEW new, proc' = [proc EXCEPT ![p] = new], new.pc # "idle",
             new.result = me.result, new.cmd = me.cmd, new.host = me.host
      PROVE  GoesOn(p)
  BY <1>1, <1>2, <1>4, OnwardGoesOn
<1>5. CASE LoadToken(p)
  <2>1. CASE Mine(p).token = None
    <3>1. End(p, "NeedToAuthorize") /\ me.pc = "load_token"
      BY <1>5, <2>1 DEF LoadToken, NeedToAuthorize, At
    <3> QED BY <1>1, <2>1, <3>1, EndEnds DEF EndsIn
  <2>2. CASE Mine(p).token # None
    <3> DEFINE new == [me EXCEPT !.token = Mine(p).token, !.pc = "load_policy"]
    <3>1. proc' = [proc EXCEPT ![p] = new] BY <1>5, <2>2 DEF LoadToken
    <3>2. /\ new.pc # "idle" /\ new.result = me.result /\ new.cmd = me.cmd
          /\ new.host = me.host
      BY <1>1 DEF Process
    <3> HIDE DEF new
    <3> QED BY <1>4, <3>1, <3>2
  <2> QED BY <2>1, <2>2
<1>6. CASE LoadPolicy(p)
  <2>1. me.pc = "load_policy" BY <1>6 DEF LoadPolicy, At
  <2>2. CASE Mine(p).policy = None \/ TimedOut(Mine(p), me.token)
    <3>1. End(p, "NeedToAuthorize") BY <1>6, <2>2 DEF LoadPolicy, NeedToAuthorize
    <3> QED BY <1>1, <2>1, <2>2, <3>1, EndEnds DEF EndsIn
  <2>3. CASE ~(Mine(p).policy = None \/ TimedOut(Mine(p), me.token))
    BY <1>3, <1>6, <2>3 DEF LoadPolicy
  <2> QED BY <2>2, <2>3
<1>7. ASSUME NEW kind, NEW label, Drop(p, kind, label), label # "idle", me.token \in Token,
             kind \in Kinds
      PROVE  GoesOn(p)
  <2> DEFINE rest == [me.token EXCEPT ![kind] = None]
             mine == [me EXCEPT !.token = rest]
  <2>1. rest \in Token BY <1>7 DEF Token, Kinds
  <2>2. SaveThen(p, mine, "token", rest, label) BY <1>7 DEF Drop
  <2> HIDE DEF rest
  <2>3. mine \in Process /\ mine.result = me.result /\ mine.cmd = me.cmd /\ mine.host = me.host
    BY <1>1, <2>1 DEF Process
  <2> HIDE DEF mine
  <2> QED BY <1>1, <1>2, <1>7, <2>2, <2>3, SaveThenGoesOn
<1>8. CASE CheckAccess(p)
  <2>1. me.pc = "check_access" /\ me.token \in Token
    BY <1>1, <1>2, <1>8 DEF CheckAccess, At, Holds
  <2>2. Goto(p, "check_refresh") \/ Goto(p, "got") \/ Drop(p, "access", "check_refresh")
    BY <1>8 DEF CheckAccess
  <2> QED BY <1>3, <1>7, <2>1, <2>2 DEF Kinds
<1>9. CASE CheckRefresh(p)
  <2>1. me.pc = "check_refresh" /\ me.token \in Token
    BY <1>1, <1>2, <1>9 DEF CheckRefresh, At, Holds
  <2>2. \/ End(p, "NeedToAuthorize") /\ me.token.refresh = None
        \/ Goto(p, "refresh")
        \/ Drop(p, "refresh", "give_up")
    BY <1>9 DEF CheckRefresh, NeedToAuthorize
  <2>3. CASE End(p, "NeedToAuthorize") /\ me.token.refresh = None
    BY <1>1, <2>1, <2>3, EndEnds DEF EndsIn
  <2> QED BY <1>3, <1>7, <2>1, <2>2, <2>3 DEF Kinds
<1>10. CASE Refresh(p)
  <2> DEFINE new == [me EXCEPT !.pc = "load_old", !.fresh = FALSE, !.token.access = issued + 1]
  <2>1. proc' = [proc EXCEPT ![p] = new] BY <1>10 DEF Refresh
  <2>2. /\ new.pc # "idle" /\ new.result = me.result /\ new.cmd = me.cmd
        /\ new.host = me.host
    BY <1>1 DEF Process
  <2> HIDE DEF new
  <2> QED BY <1>4, <2>1, <2>2
<1>11. CASE SaveNew(p) \/ GetAccounts(p)
  <2>1. \/ SaveThen(p, me, "token", me.token, "got")
        \/ SaveThen(p, me, "account_map", TRUE, "end")
    BY <1>11 DEF SaveNew, GetAccounts
  <2> QED BY <1>1, <1>2, <2>1, SaveThenGoesOn
<1>12. CASE GiveUp(p)
  <2>1. End(p, "NeedToAuthorize") /\ me.pc = "give_up" BY <1>12 DEF GiveUp, NeedToAuthorize, At
  <2>2. me.token.refresh = None BY <1>2, <2>1 DEF Agrees
  <2> QED BY <1>1, <2>1, <2>2, EndEnds DEF EndsIn
<1>13. CASE Got(p)
  <2>1. me.pc = "got" BY <1>13 DEF Got, At
  <2>2. CASE End(p, "token") BY <1>1, <1>2, <2>1, <2>2, EndEnds DEF EndsIn
  <2>3. CASE Goto(p, "accounts") BY <1>3, <2>3
  <2> QED BY <1>13, <2>2, <2>3 DEF Got
<1> QED BY <1>5, <1>6, <1>8, <1>9, <1>10, <1>11, <1>12, <1>13

\* Every step of a command goes on with it or ends it where it may.
LEMMA StepGoesOnOrEnds ==
  ASSUME Alone, NEW p \in Procs, Step(p)
  PROVE  GoesOn(p) \/ EndsIn(p)
<1>1. CASE ReplyLost(p) \/ CallFails(p)
  <2>1. End(p, "error") /\ proc[p].save = None BY <1>1 DEF ReplyLost, CallFails, At
  <2> QED BY <2>1, EndEnds DEF EndsIn
<1>2. CASE Finish(p)
  <2>1. /\ proc[p].pc = "end" /\ proc[p].save = None
        /\ End(p, IF proc[p].cmd = "ssh" THEN "token" ELSE "done")
    BY <1>2 DEF Finish, At
  <2> QED BY <2>1, EndEnds DEF EndsIn
<1> QED BY <1>1, <1>2, SavingGoesOn, RevokeGoesOn, AuthorizeGoesOn, SshGoesOnOrEnds DEF Step

----------------------------------------------------------------------------
(* A revoked host gives out no token.                                       *)

\* Past its first statements authorize has the user's leave to change the host,
\* and so has revoke all along.
Pending(p) ==
  (proc[p].cmd = "authorize" /\ proc[p].pc \notin First) \/ proc[p].cmd = "revoke"

\* A revoked host has no token, in the file or planned for it.
RevokedInv ==
  /\ \A p \in Procs, h \in Hosts : standing[h].state = "revoked" =>
       file.hosts[h].token = None /\ Plan(p)[h].token = None
  /\ \A p \in Procs : proc[p].pc # "idle" /\ Pending(p) =>
       standing[proc[p].host].state = "pending"

\* How a step changes what the user last did.
LEMMA StandingMoves ==
  ASSUME Alone, NEW p \in Procs, Step(p)
  PROVE  /\ \A h \in Hosts \ {proc[p].host} : standing'[h] = standing[h]
         /\ \/ standing' = standing
            \/ Grant(p) /\ standing'[proc[p].host].state = "pending"
            \/ /\ Finish(p) /\ proc[p].cmd = "revoke"
               /\ standing'[proc[p].host].state = "revoked"
            \/ /\ Finish(p) /\ proc[p].cmd = "authorize"
               /\ standing'[proc[p].host] =
                    [state |-> "granted", token |-> proc[p].token, policy |-> proc[p].policy]
<1>1. standing \in [Hosts -> Standing] /\ proc[p].host \in Hosts /\ proc[p].cmd \in Commands
  BY StepRuns DEF Alone, TypeInv, TypeOK
<1>2. CASE Grant(p) BY <1>1, <1>2 DEF Grant, Standing
<1>3. CASE Finish(p)
  <2>1. CASE proc[p].cmd = "ssh" BY <1>3, <2>1 DEF Finish
  <2>2. CASE proc[p].cmd = "revoke"
    <3>1. standing' = [standing EXCEPT ![proc[p].host].state = "revoked"]
      BY <1>3, <2>2 DEF Finish
    <3> QED BY <1>1, <1>3, <2>2, <3>1 DEF Standing
  <2>3. CASE proc[p].cmd = "authorize"
    <3>1. standing' = [standing EXCEPT ![proc[p].host] =
            [state |-> "granted", token |-> proc[p].token, policy |-> proc[p].policy]]
      BY <1>3, <2>3, SMTT(60) DEF Finish
    <3> QED BY <1>1, <1>3, <2>3, <3>1
  <2> QED BY <1>1, <2>1, <2>2, <2>3 DEF Commands
<1>4. CASE ~Grant(p) /\ ~Finish(p)
  BY <1>4 DEF Step, Saving, Load, Reload, Truncate, Write, SaveFails, Delete, Register,
              Refresh, ReplyLost, CallFails, LoadOld, RevokeOld, GetPolicy, SavePolicy,
              SaveToken, LoadToken, LoadPolicy, CheckAccess, CheckRefresh, SaveNew, GiveUp,
              Got, GetAccounts, history
<1> QED BY <1>2, <1>3, <1>4

\* revoke says so when it starts.
LEMMA StandingStarts ==
  ASSUME Alone, NEW p \in Procs, NEW c \in Commands, NEW h \in Hosts, Start(p, c, h)
  PROVE  /\ \A g \in Hosts : standing'[g] = standing[g] \/ standing'[g].state = "pending"
         /\ c = "revoke" => standing'[h].state = "pending"
<1>1. standing \in [Hosts -> Standing] BY DEF Alone, TypeInv, TypeOK
<1>2. standing' = IF c = "revoke" THEN [standing EXCEPT ![h].state = "pending"] ELSE standing
  BY DEF Start
<1> QED BY <1>1, <1>2 DEF Standing

\* What the file holds for a host after a step.
LEMMA FileMoves ==
  ASSUME Alone, NEW p \in Procs, Step(p), NEW h \in Hosts,
         file.hosts[h].token = None, Plan(p)[h].token = None
  PROVE  file'.hosts[h].token = None
<1>1. CASE Saving(p)
  <2>1. ~SaveFails(p) BY Of DEF SaveFails
  <2>2. file'.hosts \in {file.hosts, EmptyFile.hosts, Plan(p)}
    BY <1>1, <2>1, SavingKeepsPlan DEF Saving
  <2> QED BY <2>2 DEF EmptyFile, NoSection
<1>2. CASE ~Saving(p)
  BY <1>2 DEF Step, Delete, Register, Grant, Refresh, ReplyLost, CallFails, LoadOld,
              RevokeOld, GetPolicy, SavePolicy, SaveToken, Finish, LoadToken, LoadPolicy,
              CheckAccess, CheckRefresh, SaveNew, GiveUp, Got, GetAccounts
<1> QED BY <1>1, <1>2

\* No host was revoked at first.
LEMMA InitRevoked == Init => RevokedInv
<1> SUFFICES ASSUME Init PROVE RevokedInv OBVIOUS
<1>1. \A h \in Hosts : standing[h].state # "revoked" BY DEF Init, Never
<1>2. \A p \in Procs : proc[p].pc = "idle" BY DEF Init, Idle
<1> QED BY <1>1, <1>2 DEF RevokedInv

\* What authorize and revoke do is not yet done: the host is pending.
LEMMA StepRevoked ==
  ASSUME NEW q, Procs = {q}, Alone, RevokedInv, Step(q)
  PROVE  RevokedInv'
<1> DEFINE host == proc[q].host
<1>1. q \in Procs /\ host \in Hosts /\ proc[q].pc # "idle" BY StepRuns
<1>2. Moves(q) BY <1>1, StepMoves
<1>3. Agrees(proc[q], Ours(q)) BY <1>1, OursType
<1>4. Pending(q) => standing[host].state = "pending" BY <1>1 DEF RevokedInv
<1>5. ASSUME NEW h \in Hosts, standing'[h].state = "revoked"
      PROVE  file'.hosts[h].token = None /\ Plan(q)'[h].token = None
  <2>1. CASE Finish(q) /\ proc[q].cmd = "revoke" /\ h = host
    <3>1. proc[q].pc = "end" /\ proc[q].save = None /\ UNCHANGED file
      BY <2>1 DEF Finish, At
    <3>2. Ours(q).token = None BY <1>3, <2>1, <3>1 DEF Agrees
    <3>3. file.hosts[h].token = None BY <2>1, <3>1, <3>2, OursIsMine DEF Mine
    <3>4. \E result : End(q, result) BY <2>1 DEF Finish
    <3>5. proc'[q].save = None
      <4>1. proc'[q].pc = "idle" BY <1>1, <3>4, EndEnds
      <4>2. TypeInv' BY NextType DEF Alone, Next
      <4> QED BY <1>1, <4>1, <4>2 DEF TypeInv, Holds
    <3>6. Plan(q)' = file.hosts BY <3>1, <3>5 DEF Plan, Saved
    <3> QED BY <3>1, <3>3, <3>6
  <2>2. CASE standing[h].state = "revoked"
    <3>1. file.hosts[h].token = None /\ Plan(q)[h].token = None
      BY <1>1, <2>2 DEF RevokedInv
    <3>2. file'.hosts[h].token = None BY <1>1, <3>1, FileMoves
    <3>3. CASE h # host BY <1>2, <3>1, <3>2, <3>3 DEF Moves
    <3>4. CASE h = host
      <4>1. ~Pending(q) /\ Ours(q).token = None BY <1>4, <2>2, <3>1, <3>4 DEF Ours
      <4>2. proc[q].cmd \in Commands BY <1>1, StepRuns
      <4>3. Ours(q)' = Ours(q) BY <1>2, <4>1, <4>2 DEF Moves, Renews, Pending, Commands
      <4>4. Ours(q)' = Plan(q)'[h] BY <1>2, <3>4 DEF Moves, Ours
      <4> QED BY <3>2, <4>1, <4>3, <4>4
    <3> QED BY <3>2, <3>3, <3>4
  <2>3. CASE h # host
    <3>1. standing'[h] = standing[h] BY <1>1, <2>3, StandingMoves
    <3> QED BY <1>5, <2>2, <3>1
  <2>4. CASE h = host
    <3>1. \/ standing'[host] = standing[host]
          \/ Finish(q) /\ proc[q].cmd = "revoke"
          \/ standing'[host].state \in {"pending", "granted"}
      BY <1>1, StandingMoves
    <3> QED BY <1>5, <2>1, <2>2, <2>4, <3>1
  <2> QED BY <2>3, <2>4
<1>6. ASSUME proc'[q].pc # "idle", Pending(q)' PROVE standing'[proc'[q].host].state = "pending"
  <2>1. GoesOn(q) BY <1>1, <1>6, StepGoesOnOrEnds DEF EndsIn
  <2>2. proc'[q].host = host BY <1>2 DEF Moves
  <2>3. CASE Grant(q)
    <3>1. ~Finish(q) BY <2>3 DEF Grant, Finish, At
    <3>2. standing' = [standing EXCEPT ![host].state = "pending"] BY <2>3 DEF Grant
    <3>3. standing'[host].state = "pending"
      BY <1>1, <3>2 DEF Alone, TypeInv, TypeOK, Standing
    <3> QED BY <2>2, <3>3
  <2>4. CASE ~Grant(q)
    <3>1. Pending(q) BY <1>6, <2>1, <2>4 DEF GoesOn, Pending
    <3>2. ~Finish(q) BY <1>1, <1>6, EndEnds DEF Finish
    <3>3. standing' = standing BY <1>1, <2>4, <3>2, StandingMoves
    <3> QED BY <1>4, <2>2, <3>1, <3>3
  <2> QED BY <2>3, <2>4
<1> QED BY <1>1, <1>5, <1>6 DEF RevokedInv

\* Every step keeps that.
LEMMA NextRevoked ==
  ASSUME NEW q, Procs = {q}, Alone, RevokedInv, [Next]_vars
  PROVE  RevokedInv'
<1>1. q \in Procs OBVIOUS
<1>2. CASE Step(q) BY <1>2, StepRevoked
<1>3. CASE Crash(q) BY <1>1, <1>3, CrashMoves DEF RevokedInv
<1>4. ASSUME NEW c \in Commands, NEW h \in Hosts, Start(q, c, h) PROVE RevokedInv'
  <2>1. \A g \in Hosts : standing'[g].state = "revoked" => standing[g].state = "revoked"
    BY <1>1, <1>4, StandingStarts
  <2>2. Pending(q)' => standing'[h].state = "pending"
    <3>1. proc'[q].pc = FirstLabel[c] /\ proc'[q].cmd = c BY <1>1, <1>4, StartMoves
    <3>2. c = "authorize" => FirstLabel[c] \in First BY DEF FirstLabel, First, Commands
    <3> QED BY <1>1, <1>4, <3>1, <3>2, StandingStarts DEF Pending
  <2> QED BY <1>1, <1>4, <2>1, <2>2, StartMoves DEF RevokedInv
<1>5. CASE UNCHANGED <<file, proc, standing>>
  BY <1>1, <1>5, QuietMoves DEF RevokedInv, Pending
<1> QED BY <1>2, <1>3, <1>4, <1>5, OneRuns

\* Who ends a command of oauth-ssh with a token has found one in the file.
LEMMA EndsWithToken ==
  ASSUME NEW q, Procs = {q}, Alone, RevokedInv, [Next]_vars, NEW p \in Procs, Ends(p, "token")
  PROVE  proc[p].since.state # "revoked"
<1>1. p = q /\ proc[p].pc # "idle" /\ proc'[p].result = "token" BY DEF Ends
<1>2. proc[p].result = "none" BY <1>1, Of DEF Holds
<1>3. ~Crash(p) BY <1>1, CrashMoves
<1>4. \A c \in Commands, h \in Hosts : ~Start(p, c, h) BY <1>1 DEF Start
<1>5. Step(p) BY <1>1, <1>2, <1>3, <1>4, OneRuns
<1>6. EndsIn(p) BY <1>1, <1>5, StepGoesOnOrEnds DEF GoesOn
<1>7. proc[p].cmd = "ssh" /\ proc[p].pc \in {"got", "end"} BY <1>1, <1>6 DEF EndsIn
<1>8. Ours(p).token = proc[p].token BY <1>1, <1>7, OursType DEF Agrees, Settled
<1>9. proc[p].token \in Token BY <1>7, Of DEF Holds
<1>10. Ours(p).token # None BY <1>8, <1>9, StandInsAssumption
<1>11. standing[proc[p].host].state # "revoked"
  BY <1>1, <1>10, OursType DEF RevokedInv, Ours
<1> QED BY <1>11 DEF Ends

\* README.md, revoke: once the user has revoked a host and runs one command at a
\* time, no command about it ends with a token before the next authorize.
THEOREM RevokedStaysRevoked ==
  ASSUME NEW q, Procs = {q}
  PROVE  Spec => RevokeIsFinal
<1> DEFINE Now == \A p \in Procs : Ends(p, "token") => proc[p].since.state # "revoked"
<1>1. Alone /\ RevokedInv /\ [Next]_vars => [Now]_vars BY EndsWithToken
<1>2. Alone /\ RevokedInv /\ [Next]_vars => (Alone /\ RevokedInv)' BY NextAlone, NextRevoked
<1> HIDE DEF Now
<1>3. Spec => [][Now]_vars BY <1>1, <1>2, InitAlone, InitRevoked, PTL DEF Spec
<1> QED BY <1>3 DEF RevokeIsFinal, Now

----------------------------------------------------------------------------
(* An authorized host asks for no second authorization.                     *)

\* The section s still holds the grant g, and its refresh token if that is active.
Like(g, s) ==
  /\ s.token # None /\ s.policy # None
  /\ s.policy = g.policy /\ s.token.authorized_at = g.token.authorized_at
  /\ g.token.refresh \in 1 .. issued
  /\ g.token.refresh \in live => s.token.refresh = g.token.refresh

\* What was granted is in the file, and what authorize was granted was issued.
GrantedInv ==
  /\ \A p \in Procs, h \in Hosts : standing[h].state = "granted" => Like(standing[h], Plan(p)[h])
  /\ \A p \in Procs : proc[p].cmd = "authorize" /\ proc[p].pc \notin First \cup {"idle"} =>
       proc[p].token.refresh \in 1 .. issued

\* A token once issued does not become active again.
LEMMA NeverAgain ==
  ASSUME Alone, [Next]_vars, NEW t \in 1 .. issued
  PROVE  t \in 1 .. issued' /\ (t \in live' => t \in live)
<1>1. issued \in Nat BY StoreAssumption DEF StoreAssumption, Alone, TypeInv, TypeOK
<1>2. issued' \in Nat /\ issued <= issued' /\ live' \subseteq live \cup (issued + 1 .. issued')
  BY OnlyNewTokens DEF Alone
<1>3. t \notin issued + 1 .. issued' BY <1>1, <1>2
<1> QED BY <1>1, <1>2, <1>3

\* The known host holds what it was granted.
LEMMA InitGranted == Init => GrantedInv
<1> SUFFICES ASSUME Init PROVE GrantedInv OBVIOUS
<1>1. \A p \in Procs : proc[p].pc = "idle" /\ proc[p].save = None BY DEF Init, Idle
<1>2. ASSUME NEW p \in Procs, NEW h \in Hosts, standing[h].state = "granted"
      PROVE  Like(standing[h], Plan(p)[h])
  <2>1. h = KnownHost BY <1>2 DEF Init, Never
  <2>2. KnownHost # None BY <1>2, <2>1, StoreAssumption DEF StoreAssumption
  <2>3. standing[h].token = KnownSection.token /\ standing[h].policy = 0
    BY <1>2, <2>1 DEF Init
  <2>4. Plan(p)[h] = KnownSection BY <1>1, <2>1, PlanIsFile DEF Init
  <2>5. KnownSection.token.refresh = 2 /\ issued = 2 BY <2>2 DEF Init, KnownSection
  <2>6. KnownSection.token # None BY <2>2, KnownType, StandInsAssumption
  <2> QED BY <2>2, <2>3, <2>4, <2>5, <2>6, KnownType DEF Like
<1> QED BY <1>1, <1>2 DEF GrantedInv

\* Once the tokens are granted or saved, they stay those of the host.
LEMMA StepGranted ==
  ASSUME NEW q, Procs = {q}, Alone, RevokedInv, GrantedInv, Step(q)
  PROVE  GrantedInv'
<1> DEFINE host == proc[q].host
<1>1. /\ q \in Procs /\ host \in Hosts /\ proc[q].pc # "idle" /\ proc[q].cmd \in Commands
      /\ [Next]_vars
  BY StepRuns DEF Next
<1>2. Moves(q) BY <1>1, StepMoves
<1>3. Agrees(proc[q], Ours(q)) /\ Holds(proc[q]) BY <1>1, Of, OursType
<1>4. Ours(q)' = Plan(q)'[host] BY <1>2 DEF Moves, Ours
<1>5. ASSUME NEW h \in Hosts, standing'[h].state = "granted"
      PROVE  Like(standing[h], Plan(q)[h])' 
  <2>1. CASE Finish(q) /\ proc[q].cmd = "authorize" /\ h = host
    <3>1. proc[q].pc = "end" /\ UNCHANGED <<live, issued>> BY <2>1 DEF Finish, At, globus
    <3>2. Ours(q).token = proc[q].token /\ Ours(q).policy = proc[q].policy
      BY <1>3, <2>1, <3>1 DEF Agrees
    <3>3. proc[q].token \in Token /\ proc[q].policy \in Timeouts
      BY <1>3, <2>1, <3>1 DEF Holds
    <3>4. proc[q].token # None /\ proc[q].policy # None
      BY <3>3, StandInsAssumption, StoreAssumption DEF StoreAssumption
    <3>5. proc[q].token.refresh \in 1 .. issued
      BY <1>1, <2>1, <3>1 DEF GrantedInv, First
    <3>6. Ours(q)' = Ours(q)
      <4>1. \E result : End(q, result) /\ UNCHANGED file BY <2>1 DEF Finish
      <4>2. proc'[q].pc = "idle" BY <1>1, <4>1, EndEnds
      <4>3. TypeInv' BY <1>1, NextType DEF Alone
      <4>4. proc'[q].save = None BY <1>1, <4>2, <4>3 DEF TypeInv, Holds
      <4>5. Plan(q)' = file.hosts BY <4>1, <4>4 DEF Plan, Saved
      <4>6. proc[q].save = None BY <2>1 DEF Finish, At
      <4> QED BY <1>4, <4>5, <4>6, PlanIsFile DEF Ours
    <3>7. standing'[h] = [state |-> "granted", token |-> proc[q].token,
                          policy |-> proc[q].policy]
      <4>1. ~Grant(q) BY <3>1 DEF Grant, At
      <4>2. standing \in [Hosts -> Standing] BY DEF Alone, TypeInv, TypeOK
      <4> QED BY <2>1, <4>1, <4>2 DEF Finish
    <3>8. standing'[h].token = proc[q].token /\ standing'[h].policy = proc[q].policy
      BY <3>7
    <3> HIDE DEF host
    <3> QED BY <1>4, <2>1, <3>1, <3>2, <3>4, <3>5, <3>6, <3>8 DEF Like, host
  <2>2. CASE standing'[h] = standing[h]
    <3> DEFINE g == standing[h]
    <3>1. Like(g, Plan(q)[h]) BY <1>1, <1>5, <2>2 DEF GrantedInv
    <3>2. g.token.refresh \in 1 .. issued'
          /\ (g.token.refresh \in live' => g.token.refresh \in live)
      BY <1>1, <3>1, NeverAgain DEF Like
    <3>3. ASSUME Plan(q)'[h] = Plan(q)[h] PROVE Like(standing[h], Plan(q)[h])'
      BY <2>2, <3>1, <3>2, <3>3 DEF Like
    <3>4. CASE h # host BY <1>2, <3>3, <3>4 DEF Moves
    <3>5. CASE h = host
      <4>1. ~Pending(q) BY <1>1, <1>5, <2>2, <3>5 DEF RevokedInv
      <4>2. ~(proc[q].cmd # "ssh" /\ proc[q].pc \notin First)
        BY <1>1, <4>1 DEF Pending, Commands
      <4>3. CASE Ours(q)' = Ours(q) BY <1>4, <3>3, <3>5, <4>3 DEF Ours
      <4>4. CASE Ours(q)' # Ours(q)
        <5>1. /\ Ours(q)'.token # None /\ Ours(q)'.policy = Ours(q).policy
              /\ Ours(q)'.token.authorized_at = Ours(q).token.authorized_at
              /\ \/ Ours(q)'.token.refresh = Ours(q).token.refresh
                 \/ Ours(q).token.refresh \notin live'
          BY <1>2, <4>2, <4>4 DEF Moves, Renews
        <5>2. Like(g, Ours(q)) BY <3>1, <3>5 DEF Ours
        <5>3. Plan(q)'[h] = Ours(q)' BY <1>4, <3>5
        <5> QED BY <2>2, <3>2, <5>1, <5>2, <5>3 DEF Like
      <4> QED BY <4>3, <4>4
    <3> QED BY <3>4, <3>5
  <2>3. CASE h # host BY <1>1, <2>2, <2>3, StandingMoves
  <2>4. CASE h = host
    <3>1. \/ standing'[host] = standing[host]
          \/ Finish(q) /\ proc[q].cmd = "authorize"
          \/ standing'[host].state \in {"pending", "revoked"}
      BY <1>1, StandingMoves
    <3> QED BY <1>5, <2>1, <2>2, <2>4, <3>1
  <2> QED BY <2>3, <2>4
<1>6. ASSUME proc'[q].cmd = "authorize", proc'[q].pc \notin First \cup {"idle"}
      PROVE  proc'[q].token.refresh \in 1 .. issued'
  <2>1. GoesOn(q) BY <1>1, <1>6, StepGoesOnOrEnds DEF EndsIn
  <2>2. CASE Grant(q)
    <3>1. proc[q] \in Process BY <1>1, Of
    <3>2. proc'[q].token.refresh = issued + 2 /\ issued' = issued + 2
      BY <1>1, <2>2, <3>1 DEF Grant, Process, Alone, TypeInv, TypeOK
    <3>3. issued \in Nat BY StoreAssumption DEF StoreAssumption, Alone, TypeInv, TypeOK
    <3> QED BY <3>2, <3>3
  <2>3. CASE ~Grant(q)
    <3>1. proc[q].cmd = "authorize" /\ proc[q].pc \notin First
          /\ proc'[q].token = proc[q].token
      BY <1>6, <2>1, <2>3 DEF GoesOn
    <3>2. proc[q].token.refresh \in 1 .. issued BY <1>1, <3>1 DEF GrantedInv
    <3> QED BY <1>1, <3>1, <3>2, NeverAgain
  <2> QED BY <2>2, <2>3
<1> QED BY <1>1, <1>5, <1>6 DEF GrantedInv

\* Every step keeps the grants, unless processes die.
LEMMA NextGranted ==
  ASSUME NEW q, Procs = {q}, MayCrash = FALSE, Alone, RevokedInv, GrantedInv, [Next]_vars
  PROVE  GrantedInv'
<1>1. q \in Procs OBVIOUS
<1>2. ASSUME NEW g, NEW s, Like(g, s), UNCHANGED issued, live' \subseteq live
      PROVE  /\ g.token.refresh \in 1 .. issued'
             /\ g.token.refresh \in live' => s.token.refresh = g.token.refresh
  BY <1>2 DEF Like
<1>3. CASE Step(q) BY <1>3, StepGranted
<1>4. ~Crash(q) BY DEF Crash
<1>5. ASSUME NEW c \in Commands, NEW h \in Hosts, Start(q, c, h) PROVE GrantedInv'
  <2>1. \A g \in Hosts : standing'[g] = standing[g] \/ standing'[g].state = "pending"
    BY <1>1, <1>5, StandingStarts
  <2>2. Plan(q)' = Plan(q) /\ UNCHANGED <<live, issued>> BY <1>1, <1>5, StartMoves
  <2>3. \A g \in Hosts : standing'[g].state = "granted" => Like(standing[g], Plan(q)[g])'
    BY <1>1, <2>1, <2>2 DEF GrantedInv, Like
  <2>4. proc'[q].pc = FirstLabel[c] /\ proc'[q].cmd = c BY <1>1, <1>5, StartMoves
  <2>5. c = "authorize" => FirstLabel[c] \in First BY DEF FirstLabel, First, Commands
  <2> QED BY <1>1, <2>3, <2>4, <2>5 DEF GrantedInv
<1>6. CASE UNCHANGED <<file, proc, issued, standing>> /\ live' \subseteq live
  <2>1. Plan(q)' = Plan(q) BY <1>1, <1>6, QuietMoves
  <2> QED BY <1>1, <1>2, <1>6, <2>1 DEF GrantedInv, Like
<1> QED BY <1>3, <1>4, <1>5, <1>6, OneRuns

\* Who is told to authorize again has lost the refresh token, or time has passed.
LEMMA EndsUnauthorized ==
  ASSUME NEW q, Procs = {q}, Alone, GrantedInv, [Next]_vars, NEW p \in Procs,
         Ends(p, "NeedToAuthorize"), proc[p].since.state = "granted"
  PROVE  proc[p].since.token.refresh \notin live \/ ~Recent(proc[p].since)
<1> DEFINE g == proc[p].since
<1>1. /\ p = q /\ proc[p].pc # "idle" /\ proc'[p].result = "NeedToAuthorize"
      /\ g = standing[proc[p].host]
  BY DEF Ends
<1>2. proc[p].result = "none" /\ proc[p].host \in Hosts BY <1>1, Of DEF Holds
<1>3. ~Crash(p) BY <1>1, CrashMoves
<1>4. \A c \in Commands, h \in Hosts : ~Start(p, c, h) BY <1>1 DEF Start
<1>5. Step(p) BY <1>1, <1>2, <1>3, <1>4, OneRuns
<1>6. EndsIn(p) BY <1>1, <1>5, StepGoesOnOrEnds DEF GoesOn
<1>7. Like(g, Ours(p)) BY <1>1, <1>2 DEF GrantedInv, Ours
<1>8. Ours(p) = Mine(p) /\ Agrees(proc[p], Ours(p)) /\ Holds(proc[p])
  BY <1>1, <1>6, Of, OursType, OursIsMine DEF EndsIn
<1>9. proc[p].pc \in {"load_policy", "check_refresh", "give_up"} =>
        proc[p].cmd = "ssh" /\ proc[p].token = Ours(p).token
  BY <1>8 DEF Holds, OfSsh, Agrees, Settled
<1>10. CASE proc[p].pc = "load_policy" /\ TimedOut(Mine(p), proc[p].token)
  <2> DEFINE at == g.token.authorized_at  limit == Minute * g.policy
  <2>1. proc[p].token.authorized_at = at /\ Mine(p).policy = g.policy
    BY <1>7, <1>8, <1>9, <1>10 DEF Like
  <2>2. g.policy > 0 /\ at + limit < now BY <1>10, <2>1 DEF TimedOut
  <2>3. Ours(p) \in Section /\ Ours(p).token # None /\ Ours(p).policy # None
    BY <1>1, <1>7, OursType DEF Like
  <2>4. at \in Nat /\ g.policy \in Nat /\ now \in Nat /\ Minute \in Nat
    <3>1. Ours(p).token \in Token /\ Ours(p).policy \in Timeouts BY <2>3 DEF Section
    <3>2. Ours(p).token.authorized_at \in Nat BY <3>1 DEF Token
    <3>3. at \in Nat /\ g.policy \in Timeouts BY <1>7, <3>1, <3>2 DEF Like
    <3>4. now \in Nat BY StoreAssumption DEF StoreAssumption, Alone, TypeInv, TypeOK
    <3> QED BY <3>3, <3>4, StoreAssumption DEF StoreAssumption
  <2>5. limit = g.policy * Minute /\ limit \in Nat BY <2>4
  <2> HIDE DEF limit, at, g
  <2>6. ~(now - at <= limit) BY <2>2, <2>4, <2>5
  <2> QED BY <2>2, <2>4, <2>5, <2>6 DEF Recent, at, g
<1>11. CASE proc[p].pc \in {"check_refresh", "give_up"} /\ proc[p].token.refresh = None
  <2>1. Ours(p).token.refresh = None BY <1>9, <1>11
  <2>2. g.token.refresh # None
    BY <1>7, StoreAssumption DEF StoreAssumption, Like, Alone, TypeInv, TypeOK
  <2> QED BY <1>7, <2>1, <2>2 DEF Like
<1> QED BY <1>1, <1>6, <1>7, <1>8, <1>10, <1>11 DEF EndsIn, Like

\* README.md, "This step is only required once per SSH service": a user who runs
\* one command at a time, none of which is killed, is not told to authorize a
\* host again as long as the refresh token is active and the site's timeout has
\* not passed since the grant.
THEOREM AuthorizedOnceOnly ==
  ASSUME NEW q, Procs = {q}, MayCrash = FALSE
  PROVE  Spec => AuthorizedOnce
<1> DEFINE Told(p) == Ends(p, "NeedToAuthorize") /\ proc[p].since.state = "granted" =>
             proc[p].since.token.refresh \notin live \/ ~Recent(proc[p].since)
           Now == \A p \in Procs : Told(p)
           IInv == Alone /\ RevokedInv /\ GrantedInv
<1>1. IInv /\ [Next]_vars => [Now]_vars BY EndsUnauthorized
<1>2. IInv /\ [Next]_vars => IInv' BY NextAlone, NextRevoked, NextGranted
<1>3. Init => IInv BY InitAlone, InitRevoked, InitGranted
<1>4. Now <=> \A p \in Procs :
                LET g == proc[p].since IN
                Ends(p, "NeedToAuthorize") /\ g.state = "granted" =>
                  g.token.refresh \notin live \/ ~Recent(g)
  OBVIOUS
<1> HIDE DEF Now, IInv
<1>5. Spec => [][Now]_vars BY <1>1, <1>2, <1>3, PTL DEF Spec
<1> QED BY <1>5 DEF AuthorizedOnce, Now
=============================================================================
