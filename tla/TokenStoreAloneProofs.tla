------------------------- MODULE TokenStoreAloneProofs -------------------------
(***************************************************************************)
(* A user who runs one command at a time, with any number of hosts, tokens  *)
(* and commands: the file is never garbled, the command and the section of  *)
(* its host fit together at each statement, and no active token is lost.    *)
(*                                                                          *)
(* The invariant looks through a save under way: Plan(p) is the file's      *)
(* sections as they will stand once p's save is over, and Agrees says how   *)
(* the section of p's host and the objects of the command fit together.     *)
(***************************************************************************)
EXTENDS TokenStoreProofs

\* The sections of the file once the save is over.
Saved(save) ==
  IF save = None THEN file.hosts
  ELSE IF save.phase \in {"truncate", "write"} THEN save.image.hosts
  ELSE IF save.section = "general" THEN file.hosts
  ELSE IF save.phase = "reload" THEN [file.hosts EXCEPT ![save.section] = save.values]
  ELSE [file.hosts EXCEPT ![save.section] = [@ EXCEPT ![save.object] = save.value]]

Plan(p) == Saved(proc[p].save)

\* Statements before a command has an object.
First == {"policy", "grant", "load_token"}

\* Where oauth-ssh has the token object of the file.
Settled == {"load_policy", "check_access", "check_refresh", "refresh", "give_up", "got",
            "accounts", "end"}

\* How a command and the section s of its host fit together.
Agrees(me, s) ==
  /\ me.pc # "revoke_old" => me.old = None
  /\ me.pc \in First \/ me.cmd = "revoke" => me.token = None
  /\ me.pc \in First \/ me.cmd = "ssh" => me.kind = "access"
  /\ me.pc = "load_old" /\ me.kind = "refresh" => s.token = None \/ s.token.access = None
  /\ me.pc = "revoke_old" =>
       me.old = s.token /\ (me.kind = "refresh" => s.token.access = None)
  /\ me.pc \in {"revoke_old", "delete"} => me.cmd # "ssh"
  /\ me.pc = "delete" => In(s.token) = {}
  /\ me.pc \in {"save_policy", "save_token"} => s.token = None
  /\ me.pc = "save_token" => s.policy = me.policy
  /\ me.pc = "end" /\ me.cmd = "authorize" => s.token = me.token /\ s.policy = me.policy
  /\ me.pc = "end" /\ me.cmd = "revoke" => s.token = None
  /\ me.cmd = "ssh" /\ me.pc \in Settled => s.token = me.token
  /\ me.pc \in {"check_refresh", "refresh"} => me.token.access = None
  /\ me.pc = "give_up" => me.token.refresh = None
  /\ me.cmd = "ssh" /\ me.pc \in {"load_old", "save_new"} =>
       s.token = [me.token EXCEPT !.access = None]

\* A command that runs agrees with the file, and one that has ended holds nothing.
Fits(p) ==
  IF proc[p].pc = "idle" THEN proc[p].token = None /\ proc[p].old = None
                         ELSE Agrees(proc[p], Plan(p)[proc[p].host])

\* With one process the file is always whole, or empty while it is written.
AloneInv ==
  /\ Readable
  /\ \A p \in Procs : proc[p].save # None /\ proc[p].save.phase = "write" => file = EmptyFile
  /\ \A p \in Procs : Fits(p)

Alone == TypeInv /\ AloneInv

----------------------------------------------------------------------------
(* The planned sections.                                                    *)

\* What the invariant says of one process.
LEMMA Of ==
  ASSUME Alone, NEW p \in Procs
  PROVE  /\ proc[p] \in Process /\ Holds(proc[p]) /\ Fits(p)
         /\ Readable /\ file \in Content
         /\ proc[p].save # None /\ proc[p].save.phase = "write" => file = EmptyFile
BY Runs DEF Alone, AloneInv, TypeInv, TypeOK, Readable

\* The plan is a function from hosts to sections.
LEMMA PlanType ==
  ASSUME Alone, NEW p \in Procs
  PROVE  Plan(p) \in [Hosts -> Section]
<1> DEFINE save == proc[p].save
<1>1. file.hosts \in [Hosts -> Section] BY Of DEF Content
<1>2. CASE save = None BY <1>1, <1>2 DEF Plan, Saved
<1>3. CASE save # None
  <2>1. save \in Save BY <1>3, Of DEF Process
  <2>2. save.phase \in {"load", "reload", "truncate", "write"} BY <2>1 DEF Save
  <2>3. CASE save.phase \in {"truncate", "write"}
    <3>1. save.image \in Content BY <2>1, <2>3, SaveShape
    <3> QED BY <1>3, <2>3, <3>1 DEF Plan, Saved, Content
  <2>4. CASE save.phase \in {"load", "reload"} /\ save.section = "general"
    BY <1>1, <1>3, <2>4 DEF Plan, Saved
  <2>5. CASE save.phase = "reload" /\ save.section # "general"
    <3>1. save.section \in Hosts /\ save.values \in Section BY <2>1, <2>5, SaveShape
    <3> QED BY <1>1, <1>3, <2>5, <3>1 DEF Plan, Saved
  <2>6. CASE save.phase = "load" /\ save.section # "general"
    <3> DEFINE s == [file.hosts[save.section] EXCEPT ![save.object] = save.value]
    <3>1. save.section \in Hosts /\ file.hosts[save.section] \in Section
      BY <1>1, <2>1, <2>6, SaveShape
    <3>2. s \in Section BY <2>1, <2>6, <3>1, SaveShape DEF Section
    <3> HIDE DEF s
    <3>3. Plan(p) = [file.hosts EXCEPT ![save.section] = s]
      BY <1>3, <2>6 DEF Plan, Saved, s
    <3> QED BY <1>1, <3>1, <3>2, <3>3
  <2> QED BY <2>2, <2>3, <2>4, <2>5, <2>6
<1> QED BY <1>2, <1>3

\* The record of the process that steps.
LEMMA Placed ==
  ASSUME TypeInv, NEW p \in Procs, NEW me, proc' = [proc EXCEPT ![p] = me]
  PROVE  proc'[p] = me
BY DEF TypeInv, TypeOK

\* Without a save the plan is the file as it is.
LEMMA PlanIsFile ==
  ASSUME NEW p, proc[p].save = None
  PROVE  Plan(p) = file.hosts
BY DEF Plan, Saved

\* Load, reload, truncate and write do what was planned.
LEMMA SavingKeepsPlan ==
  ASSUME Alone, NEW p \in Procs, Load(p) \/ Reload(p) \/ Truncate(p) \/ Write(p)
  PROVE  /\ \E save : proc' = [proc EXCEPT ![p].save = save]
         /\ Plan(p)' = Plan(p)
         /\ Readable'
         /\ proc'[p].save # None /\ proc'[p].save.phase = "write" => file' = EmptyFile
         /\ file'.hosts \in {file.hosts, EmptyFile.hosts, Plan(p)}
<1> DEFINE save == proc[p].save
<1> USE StandInsAssumption
<1>1. save # None BY DEF Load, Reload, Truncate, Write
<1>2. save \in Save BY <1>1, Of DEF Process
<1>3. ASSUME NEW new, proc' = [proc EXCEPT ![p].save = new] PROVE proc'[p].save = new
  BY <1>3, Of DEF Process, Alone, TypeInv, TypeOK
<1>4. CASE Load(p)
  <2>1. file' = file /\ save.phase = "load" /\ Readable BY <1>4 DEF Load
  <2>2. CASE save.section = "general"
    <3> DEFINE new == [save EXCEPT !.phase = "reload"]
    <3>1. new \in Save /\ new.phase = "reload" /\ new.section = "general"
      BY <1>2, <2>1, <2>2, SaveShape DEF Save
    <3>2. proc' = [proc EXCEPT ![p].save = new] BY <1>4, <2>2 DEF Load
    <3> HIDE DEF new
    <3>3. proc'[p].save = new /\ new # None BY <1>3, <3>1, <3>2
    <3>4. Plan(p) = file.hosts BY <1>1, <2>1, <2>2 DEF Plan, Saved
    <3>5. Plan(p)' = file.hosts BY <2>1, <3>1, <3>3 DEF Plan, Saved
    <3>6. proc'[p].save.phase # "write" BY <3>1, <3>3
    <3> QED BY <2>1, <3>2, <3>4, <3>5, <3>6 DEF Readable
  <2>3. CASE save.section # "general"
    <3> DEFINE s == [file.hosts[save.section] EXCEPT ![save.object] = save.value]
               new == [phase |-> "reload", section |-> save.section, values |-> s]
    <3>1. save.section \in Hosts /\ file.hosts[save.section] \in Section
      BY <1>2, <2>1, <2>3, Of, SaveShape DEF Content
    <3>2. s \in Section BY <1>2, <2>1, <2>3, <3>1, SaveShape DEF Section
    <3>3. new \in Save BY <3>1, <3>2 DEF Save
    <3>4. proc' = [proc EXCEPT ![p].save = new] BY <1>4, <2>3 DEF Load
    <3>5. proc'[p].save = new BY <1>3, <3>4
    <3>6. Plan(p) = [file.hosts EXCEPT ![save.section] =
                       [file.hosts[save.section] EXCEPT ![save.object] = save.value]]
      BY <1>1, <2>1, <2>3 DEF Plan, Saved
    <3> HIDE DEF s
    <3>7. Plan(p)' = [file.hosts EXCEPT ![save.section] = s]
      BY <2>1, <2>3, <3>3, <3>5 DEF Plan, Saved
    <3>8. Plan(p)' = Plan(p) BY <3>6, <3>7 DEF s
    <3>9. proc'[p].save.phase # "write" BY <3>5
    <3> HIDE DEF new
    <3> QED BY <2>1, <3>4, <3>8, <3>9 DEF Readable
  <2> QED BY <2>2, <2>3
<1>5. CASE Reload(p)
  <2> DEFINE text == IF save.section = "general" THEN [file EXCEPT !.general = TRUE]
                     ELSE [file EXCEPT !.hosts[save.section] = save.values]
             new == [phase |-> "truncate", image |-> text]
  <2>1. file' = file /\ save.phase = "reload" /\ Readable BY <1>5 DEF Reload
  <2>2. text \in Content BY <1>2, <2>1, Of, SaveShape, ReplaceGeneral, ReplaceSection
  <2>3. new \in Save BY <2>2 DEF Save
  <2>4. proc' = [proc EXCEPT ![p].save = new] BY <1>5 DEF Reload
  <2>5. proc'[p].save = new BY <1>3, <2>4
  <2>6. text.hosts = IF save.section = "general" THEN file.hosts
                     ELSE [file.hosts EXCEPT ![save.section] = save.values]
    BY Of DEF Content
  <2> HIDE DEF text
  <2>7. Plan(p)' = text.hosts BY <2>3, <2>5 DEF Plan, Saved
  <2>8. Plan(p) = text.hosts BY <1>1, <2>1, <2>6 DEF Plan, Saved
  <2>9. proc'[p].save.phase # "write" BY <2>5
  <2> HIDE DEF new
  <2> QED BY <2>1, <2>4, <2>7, <2>8, <2>9 DEF Readable
<1>6. CASE Truncate(p)
  <2> DEFINE new == [save EXCEPT !.phase = "write"]
  <2>1. file' = EmptyFile /\ save.phase = "truncate" BY <1>6 DEF Truncate
  <2>2. new \in Save BY <1>2, <2>1, SaveShape
  <2>3. new.phase = "write" /\ new.image = save.image BY <1>2, <2>1 DEF Save
  <2>4. proc' = [proc EXCEPT ![p].save = new] BY <1>6 DEF Truncate
  <2> HIDE DEF new
  <2>5. proc'[p].save = new BY <1>3, <2>4
  <2>6. Plan(p)' = Plan(p) BY <1>1, <2>1, <2>2, <2>3, <2>5 DEF Plan, Saved
  <2> QED BY <2>1, <2>4, <2>6, EmptyFileType DEF Readable
<1>7. CASE Write(p)
  <2>1. save.phase = "write" /\ file = EmptyFile BY <1>7, Of DEF Write
  <2>2. save.image \in Content BY <1>2, <2>1, SaveShape
  <2>3. proc' = [proc EXCEPT ![p].save = None] BY <1>7 DEF Write
  <2>4. proc'[p].save = None BY <1>3, <2>3
  <2>5. file'.hosts = save.image.hosts /\ file' \in Content
    <3>1. CASE file' = save.image BY <2>2, <3>1
    <3>2. CASE Begins(save.image) /\ file' = file
      <4>1. \A h \in Hosts : save.image.hosts[h] \in Section BY <2>2 DEF Content
      <4>2. \A h \in Hosts : save.image.hosts[h] = NoSection
        BY <2>1, <3>2, <4>1 DEF Begins, EmptyFile, NoSection, Section
      <4>3. save.image.hosts = EmptyFile.hosts
        BY <2>2, <4>2 DEF Content, EmptyFile
      <4> QED BY <2>1, <3>2, <4>3, EmptyFileType
    <3> QED BY <1>7, <2>1, <3>1, <3>2 DEF Write
  <2>6. Plan(p) = save.image.hosts BY <1>1, <2>1 DEF Plan, Saved
  <2>7. Plan(p)' = file'.hosts BY <2>4 DEF Plan, Saved
  <2> QED BY <2>3, <2>4, <2>5, <2>6, <2>7 DEF Readable
<1> QED BY <1>4, <1>5, <1>6, <1>7

----------------------------------------------------------------------------
(* What a step of the process does to the plan and to the tokens.           *)

Ours(p) == Plan(p)[proc[p].host]

\* The tokens that this command could lose.
Carried(p) == In(Ours(p).token) \cup In(proc[p].token) \cup In(proc[p].old)

\* authorize and revoke change the section once the user means it; oauth-ssh
\* keeps the grant, its time and its policy, and drops a dead refresh token only.
Renews(p) ==
  \/ Ours(p)' = Ours(p)
  \/ proc[p].cmd # "ssh" /\ proc[p].pc \notin First
  \/ /\ proc[p].cmd = "ssh"
     /\ Ours(p).token # None /\ Ours(p)'.token # None
     /\ Ours(p)'.policy = Ours(p).policy
     /\ Ours(p)'.token.authorized_at = Ours(p).token.authorized_at
     /\ \/ Ours(p)'.token.refresh = Ours(p).token.refresh
        \/ Ours(p).token.refresh \notin live'

\* A live token is carried on, or it is written off.
CarriesOn(p) ==
  /\ written_off \subseteq written_off'
  /\ \A t \in live' : (t \in live /\ t \notin Carried(p)) \/ t \in Carried(p)' \cup written_off'

Moves(p) ==
  /\ proc'[p].host = proc[p].host
  /\ Fits(p)'
  /\ Readable'
  /\ proc'[p].save # None /\ proc'[p].save.phase = "write" => file' = EmptyFile
  /\ \A h \in Hosts \ {proc[p].host} : Plan(p)'[h] = Plan(p)[h]
  /\ Renews(p)
  /\ CarriesOn(p)

\* A command that runs knows its host, and its section is one.
LEMMA OursType ==
  ASSUME Alone, NEW p \in Procs, proc[p].pc # "idle"
  PROVE  proc[p].host \in Hosts /\ Ours(p) \in Section /\ Agrees(proc[p], Ours(p))
BY Of, PlanType DEF Holds, Fits, Ours

\* Without a save the section is the one in the file.
LEMMA OursIsMine ==
  ASSUME NEW p, proc[p].save = None
  PROVE  Ours(p) = Mine(p)
BY PlanIsFile DEF Ours, Mine

\* A save under way does not show in the plan.
LEMMA SavingMoves ==
  ASSUME Alone, NEW p \in Procs, Saving(p)
  PROVE  Moves(p)
<1>1. proc[p].save # None BY DEF Saving, Load, Reload, Truncate, Write, SaveFails
<1>2. proc[p].pc # "idle" BY <1>1, Of DEF Holds
<1>3. ~SaveFails(p) BY Of DEF SaveFails
<1>4. Load(p) \/ Reload(p) \/ Truncate(p) \/ Write(p) BY <1>3 DEF Saving
<1>5. UNCHANGED <<live, written_off>>
  BY <1>4 DEF Load, Reload, Truncate, Write, globus, history
<1>6. PICK save : proc' = [proc EXCEPT ![p].save = save] BY <1>4, SavingKeepsPlan
<1> DEFINE me == [proc[p] EXCEPT !.save = save]
<1>7. proc' = [proc EXCEPT ![p] = me] BY <1>6
<1>8. /\ me.pc = proc[p].pc /\ me.host = proc[p].host /\ me.token = proc[p].token
      /\ me.old = proc[p].old /\ me.cmd = proc[p].cmd /\ me.kind = proc[p].kind
      /\ me.policy = proc[p].policy
  BY Of DEF Process
<1> HIDE DEF me
<1>9. proc'[p] = me BY <1>7, Placed DEF Alone
<1>10. Plan(p)' = Plan(p) BY <1>4, SavingKeepsPlan
<1>11. Ours(p)' = Ours(p) BY <1>8, <1>9, <1>10 DEF Ours
<1>12. Agrees(me, Ours(p)) BY <1>2, <1>8, OursType DEF Agrees
<1>13. Fits(p)' BY <1>2, <1>8, <1>9, <1>11, <1>12 DEF Fits, Ours
<1>14. CarriesOn(p) BY <1>5, <1>8, <1>9, <1>11 DEF CarriesOn, Carried
<1> QED BY <1>4, <1>8, <1>9, <1>10, <1>11, <1>13, <1>14, SavingKeepsPlan DEF Moves, Renews

\* A command ends: the tokens it knows are those of the file.
LEMMA EndMoves ==
  ASSUME Alone, NEW p \in Procs, proc[p].pc # "idle", proc[p].save = None, UNCHANGED file,
         NEW result, End(p, result),
         In(proc[p].token) \cup In(proc[p].old) \subseteq In(Ours(p).token),
         written_off \subseteq written_off', live' \subseteq live \cup written_off'
  PROVE  Moves(p)
<1> DEFINE me == [Idle(result) EXCEPT !.cmd = proc[p].cmd, !.host = proc[p].host]
<1>1. me.pc = "idle" /\ me.save = None /\ me.token = None /\ me.old = None
      /\ me.host = proc[p].host
  BY DEF Idle
<1>2. proc' = [proc EXCEPT ![p] = me] BY DEF End
<1> HIDE DEF me
<1>3. proc'[p] = me BY <1>2, Placed DEF Alone
<1>4. Plan(p)' = Plan(p) BY <1>1, <1>3 DEF Plan, Saved
<1>5. Ours(p)' = Ours(p) BY <1>1, <1>3, <1>4 DEF Ours
<1>6. Fits(p)' BY <1>1, <1>3 DEF Fits
<1>7. CarriesOn(p) BY <1>1, <1>3, <1>5 DEF CarriesOn, Carried
<1> QED BY <1>1, <1>3, <1>4, <1>5, <1>6, <1>7, Of DEF Moves, Renews, Readable

\* A command goes on without a save, with the tokens it had and perhaps new ones.
LEMMA OnwardMoves ==
  ASSUME Alone, NEW p \in Procs, proc[p].save = None, UNCHANGED file,
         NEW me, proc' = [proc EXCEPT ![p] = me], me.save = None, me.pc # "idle",
         me.host = proc[p].host, Agrees(me, Ours(p)),
         In(proc[p].token) \cup In(proc[p].old)
           \subseteq In(Ours(p).token) \cup In(me.token) \cup In(me.old),
         UNCHANGED written_off, live' \subseteq live \cup In(me.token)
  PROVE  Moves(p)
<1>1. proc'[p] = me BY Placed DEF Alone
<1>2. Plan(p)' = Plan(p) BY <1>1 DEF Plan, Saved
<1>3. Ours(p)' = Ours(p) BY <1>1, <1>2 DEF Ours
<1>4. Fits(p)' BY <1>1, <1>3 DEF Fits, Ours
<1>5. CarriesOn(p) BY <1>1, <1>3 DEF CarriesOn, Carried
<1> QED BY <1>1, <1>2, <1>3, <1>4, <1>5, Of DEF Moves, Renews, Readable

\* A command begins to save an object.
LEMMA SaveThenMoves ==
  ASSUME Alone, NEW p \in Procs, proc[p].pc # "idle", proc[p].save = None, UNCHANGED file,
         NEW mine \in Process, mine.host = proc[p].host,
         NEW object, NEW value, NEW label, label # "idle",
         SaveThen(p, mine, object, value, label),
         \/ object = "token" /\ value \in Token
         \/ object = "policy" /\ value \in Timeouts
         \/ object = "account_map" /\ value \in BOOLEAN,
         NEW s, s = [Ours(p) EXCEPT ![object] = value],
         Agrees([mine EXCEPT !.pc = label], s),
         live' \subseteq live, written_off \subseteq written_off',
         \A t \in live' : t \in Carried(p) =>
           t \in In(s.token) \cup In(mine.token) \cup In(mine.old) \cup written_off',
         \/ proc[p].cmd # "ssh" /\ proc[p].pc \notin First
         \/ /\ proc[p].cmd = "ssh" /\ Ours(p).token # None /\ s.token # None
            /\ s.policy = Ours(p).policy
            /\ s.token.authorized_at = Ours(p).token.authorized_at
            /\ s.token.refresh = Ours(p).token.refresh \/ Ours(p).token.refresh \notin live'
  PROVE  Moves(p)
<1> DEFINE save == [phase |-> "load", section |-> proc[p].host,
                    object |-> object, value |-> value]
           me == [mine EXCEPT !.pc = label, !.fresh = FALSE, !.save = save]
<1> USE StandInsAssumption
<1>1. proc' = [proc EXCEPT ![p] = me] BY DEF SaveThen
<1>2. proc[p].host \in Hosts /\ proc[p].host # "general"
  BY OursType, StoreAssumption DEF StoreAssumption
<1>3. save \in Save BY <1>2, SaveBegins
<1>4. /\ me.pc = label /\ me.host = proc[p].host /\ me.token = mine.token
      /\ me.old = mine.old /\ me.cmd = mine.cmd /\ me.kind = mine.kind
      /\ me.policy = mine.policy /\ me.save = save
  BY DEF Process
<1> DEFINE at == [mine EXCEPT !.pc = label]
<1>5. /\ at.pc = label /\ at.token = mine.token
      /\ at.old = mine.old /\ at.cmd = mine.cmd /\ at.kind = mine.kind
      /\ at.policy = mine.policy
  BY DEF Process
<1>6. Agrees(at, s) OBVIOUS
<1> HIDE DEF me, at
<1>7. Agrees(me, s) BY <1>4, <1>5, <1>6 DEF Agrees
<1>8. proc'[p] = me BY <1>1, Placed DEF Alone
<1>9. Plan(p)' = [file.hosts EXCEPT ![proc[p].host] = [file.hosts[proc[p].host] EXCEPT ![object] = value]]
  BY <1>2, <1>3, <1>4, <1>8, SMTT(60) DEF Plan, Saved
<1>10. Plan(p) = file.hosts BY PlanIsFile
<1>11. Plan(p)' = [Plan(p) EXCEPT ![proc[p].host] = s] BY <1>9, <1>10 DEF Ours
<1>12. Ours(p)' = s BY <1>2, <1>4, <1>8, <1>11, PlanType DEF Ours
<1>13. \A h \in Hosts \ {proc[p].host} : Plan(p)'[h] = Plan(p)[h] BY <1>11, PlanType
<1>14. Fits(p)' BY <1>4, <1>7, <1>8, <1>12 DEF Fits, Ours
<1>15. Carried(p)' = In(s.token) \cup In(mine.token) \cup In(mine.old)
  BY <1>4, <1>8, <1>12 DEF Carried
<1>16. CarriesOn(p) BY <1>15 DEF CarriesOn
<1>17. Renews(p) BY <1>12 DEF Renews
<1>18. proc'[p].save.phase # "write" BY <1>4, <1>8
<1> HIDE DEF save
<1> QED BY <1>4, <1>8, <1>13, <1>14, <1>16, <1>17, <1>18, Of DEF Moves, Readable

----------------------------------------------------------------------------
(* revoke_token(), delete_section() and register_client().                  *)

\* Where revoke_token() goes on.
LEMMA AfterRevokeGoes ==
  ASSUME NEW me \in Process
  PROVE  /\ AfterRevoke(me).old = me.old /\ AfterRevoke(me).save = me.save
         /\ IF me.kind = "refresh"
              THEN AfterRevoke(me).pc = "delete" /\ AfterRevoke(me).kind = "refresh"
            ELSE IF me.cmd = "ssh"
              THEN AfterRevoke(me).pc = "save_new" /\ AfterRevoke(me).kind = me.kind
            ELSE AfterRevoke(me).pc = "load_old" /\ AfterRevoke(me).kind = "refresh"
BY DEF AfterRevoke, Process

\* revoke_token() takes the object of the file, or goes on because it holds no
\* token of the kind.
LEMMA LoadOldMoves ==
  ASSUME Alone, NEW p \in Procs, LoadOld(p)
  PROVE  Moves(p)
<1> DEFINE t == Mine(p).token  s == Ours(p)
<1>1. /\ proc[p] \in Process /\ proc[p].pc = "load_old" /\ proc[p].save = None
      /\ UNCHANGED <<file, live, written_off>>
  BY Of DEF LoadOld, At, globus, history
<1>2. Agrees(proc[p], s) /\ s.token = t /\ Holds(proc[p])
  BY <1>1, Of, OursType, OursIsMine
<1>3. proc[p].cmd = "ssh" => proc[p].token \in Token /\ t = [proc[p].token EXCEPT !.access = None]
  BY <1>1, <1>2 DEF Agrees, Holds
<1>4. proc[p].old = None BY <1>1, <1>2 DEF Agrees
<1>5. CASE t # None /\ t[proc[p].kind] # None
  <2> DEFINE me == [proc[p] EXCEPT !.old = t, !.pc = "revoke_old"]
  <2>1. proc' = [proc EXCEPT ![p] = me] BY <1>5 DEF LoadOld
  <2>2. /\ me.pc = "revoke_old" /\ me.old = t /\ me.save = None /\ me.token = proc[p].token
        /\ me.host = proc[p].host /\ me.cmd = proc[p].cmd /\ me.kind = proc[p].kind
    BY <1>1 DEF Process
  <2> HIDE DEF me
  <2>3. proc[p].cmd # "ssh"
    <3> SUFFICES ASSUME proc[p].cmd = "ssh" PROVE FALSE OBVIOUS
    <3>1. proc[p].kind = "access" BY <1>2 DEF Agrees
    <3>2. t.access = None BY <1>3 DEF Token
    <3> QED BY <1>5, <3>1, <3>2
  <2>4. Agrees(me, s) BY <1>1, <1>2, <1>5, <2>2, <2>3 DEF Agrees, First
  <2> HIDE DEF s, t
  <2> QED BY <1>1, <1>4, <2>1, <2>2, <2>4, OnwardMoves DEF s, In
<1>6. CASE ~(t # None /\ t[proc[p].kind] # None)
  <2> DEFINE me == AfterRevoke(proc[p])
  <2>1. proc' = [proc EXCEPT ![p] = me] BY <1>6 DEF LoadOld
  <2>2. /\ me.token = proc[p].token /\ me.host = proc[p].host /\ me.cmd = proc[p].cmd
        /\ me.old = None /\ me.save = None
    BY <1>1, <1>4, AfterRevokeGoes, AfterRevokeSame
  <2>3. /\ proc[p].kind = "refresh" => me.pc = "delete" /\ me.kind = "refresh"
        /\ proc[p].kind # "refresh" /\ proc[p].cmd = "ssh" =>
             me.pc = "save_new" /\ me.kind = proc[p].kind
        /\ proc[p].kind # "refresh" /\ proc[p].cmd # "ssh" =>
             me.pc = "load_old" /\ me.kind = "refresh"
    BY <1>1, AfterRevokeGoes
  <2> HIDE DEF me
  <2>4. me.pc # "idle" BY <2>3
  <2>5. Agrees(me, s)
    <3>1. CASE proc[p].kind = "refresh"
      <4>1. In(t) = {} BY <1>1, <1>2, <1>6, <3>1 DEF Agrees, In
      <4>2. proc[p].cmd # "ssh" BY <1>2, <3>1 DEF Agrees
      <4> QED BY <1>1, <1>2, <2>2, <2>3, <3>1, <4>1, <4>2 DEF Agrees, First
    <3>2. CASE proc[p].kind # "refresh" /\ proc[p].cmd = "ssh"
      BY <1>1, <1>2, <2>2, <2>3, <3>2 DEF Agrees, First, Settled
    <3>3. CASE proc[p].kind # "refresh" /\ proc[p].cmd # "ssh"
      <4>1. proc[p].kind = "access" BY <1>1, <3>3 DEF Process, Kinds
      <4>2. t = None \/ t.access = None BY <1>6, <4>1
      <4> QED BY <1>1, <1>2, <2>2, <2>3, <3>3, <4>2 DEF Agrees, First
    <3> QED BY <3>1, <3>2, <3>3
  <2> HIDE DEF s, t
  <2> QED BY <1>1, <1>4, <2>1, <2>2, <2>4, <2>5, OnwardMoves DEF s, In
<1> QED BY <1>5, <1>6

\* The token is revoked, or written off, before it is dropped from the file.
LEMMA RevokeOldMoves ==
  ASSUME Alone, NEW p \in Procs, RevokeOld(p)
  PROVE  Moves(p)
<1> DEFINE me == proc[p]
           off == [me EXCEPT !.old = None]
           next == AfterRevoke(off)
           rest == [me.old EXCEPT ![me.kind] = None]
           s == [Ours(p) EXCEPT !["token"] = rest]
<1>1. /\ me \in Process /\ me.pc = "revoke_old" /\ me.save = None /\ UNCHANGED file
      /\ SaveThen(p, next, "token", rest, next.pc)
  BY Of DEF RevokeOld, NotRevoked, DropOld, At
<1>2. /\ live' \subseteq live /\ written_off \subseteq written_off'
      /\ me.old[me.kind] \notin live' \/ me.old[me.kind] \in written_off'
  BY DEF RevokeOld, NotRevoked
<1>3. Agrees(me, Ours(p)) /\ Ours(p) \in Section /\ Holds(me) BY <1>1, Of, OursType
<1>4. me.old \in Token /\ me.old = Ours(p).token /\ me.kind \in Kinds /\ me.cmd # "ssh"
  BY <1>1, <1>3 DEF Agrees, Holds, Process
<1>5. rest \in Token /\ (me.kind = "refresh" => rest.refresh = None /\ rest.access = me.old.access)
      /\ (me.kind = "access" => rest.access = None /\ rest.refresh = me.old.refresh)
  BY <1>4 DEF Token, Kinds
<1>6. s.token = rest /\ s.policy = Ours(p).policy BY <1>3 DEF Section
<1>7. off \in Process /\ off.kind = me.kind /\ off.cmd = me.cmd /\ off.token = me.token
      /\ off.host = me.host /\ off.old = None
  BY <1>1 DEF Process
<1> HIDE DEF off
<1>8. /\ next \in Process /\ next.cmd = me.cmd /\ next.token = me.token
      /\ next.host = me.host /\ next.old = None
      /\ me.kind = "refresh" => next.pc = "delete" /\ next.kind = "refresh"
      /\ me.kind # "refresh" => next.pc = "load_old" /\ next.kind = "refresh"
  BY <1>4, <1>7, AfterRevokeSame, AfterRevokeGoes
<1> HIDE DEF next
<1> DEFINE at == [next EXCEPT !.pc = next.pc]
<1>9. at = next BY <1>8 DEF Process
<1>10. Agrees(next, s)
  <2>1. CASE me.kind = "refresh"
    <3>1. In(rest) = {} BY <1>1, <1>3, <1>4, <1>5, <2>1 DEF Agrees, In
    <3> QED BY <1>1, <1>3, <1>4, <1>6, <1>8, <2>1, <3>1 DEF Agrees, First
  <2>2. CASE me.kind # "refresh"
    <3>1. rest.access = None BY <1>4, <1>5, <2>2 DEF Kinds
    <3> QED BY <1>1, <1>3, <1>4, <1>6, <1>8, <2>2, <3>1 DEF Agrees, First
  <2> QED BY <2>1, <2>2
<1>11. ASSUME NEW t \in live', t \in Carried(p)
       PROVE  t \in In(s.token) \cup In(next.token) \cup In(next.old) \cup written_off'
  <2>1. CASE t \in In(me.token) BY <1>8, <2>1
  <2>2. CASE t \in In(me.old)
    <3>1. me.old # None /\ rest # None
      BY <1>4, <1>5, StandInsAssumption DEF StandInsAssumption
    <3>2. CASE t = me.old[me.kind] BY <1>2, <3>2
    <3>3. CASE t # me.old[me.kind]
      <4>1. t \in In(rest) BY <1>4, <1>5, <2>2, <3>1, <3>3 DEF In, Kinds
      <4> QED BY <1>6, <4>1
    <3> QED BY <3>2, <3>3
  <2> QED BY <1>4, <1>11, <2>1, <2>2 DEF Carried
<1>12. me.pc # "idle" /\ next.pc # "idle" /\ me.pc \notin First BY <1>1, <1>8 DEF First
<1>13. Agrees([next EXCEPT !.pc = next.pc], s) BY <1>9, <1>10
<1> HIDE DEF rest, s, at
<1>14. s = [Ours(p) EXCEPT !["token"] = rest] BY DEF s
<1> QED BY <1>1, <1>2, <1>4, <1>5, <1>8, <1>11, <1>12, <1>13, <1>14, SaveThenMoves

\* The section is deleted once it holds no token.
LEMMA DeleteMoves ==
  ASSUME Alone, NEW p \in Procs, Delete(p)
  PROVE  Moves(p)
<1> DEFINE me == proc[p]
           next == IF me.cmd = "authorize" THEN "save_policy" ELSE "end"
           text == [file EXCEPT !.hosts[me.host] = NoSection]
           save == [phase |-> "truncate", image |-> text]
<1>1. /\ me \in Process /\ me.pc = "delete" /\ me.save = None
      /\ UNCHANGED <<file, live, written_off>>
  BY Of DEF Delete, At, globus, history
<1>2. Agrees(me, Ours(p)) /\ Holds(me) /\ me.host \in Hosts /\ Ours(p) = Mine(p)
  BY <1>1, Of, OursType, OursIsMine
<1>3. me.cmd \in {"authorize", "revoke"} /\ In(Ours(p).token) = {} /\ me.old = None
  BY <1>1, <1>2 DEF Agrees, Holds, Commands
<1>4. NoSection \in Section /\ NoSection.token = None BY DEF NoSection, Section
<1>5. ASSUME NEW new, new.pc = next, new.old = None, new.token = me.token, new.cmd = me.cmd,
             new.kind = me.kind
      PROVE  Agrees(new, NoSection)
  BY <1>1, <1>2, <1>3, <1>4, <1>5 DEF Agrees, First
<1>6. CASE Mine(p) = NoSection
  <2> DEFINE new == [me EXCEPT !.pc = next, !.fresh = FALSE]
  <2>1. proc' = [proc EXCEPT ![p] = new] BY <1>6 DEF Delete, Goto
  <2>2. /\ new.pc = next /\ new.old = None /\ new.token = me.token /\ new.cmd = me.cmd
        /\ new.kind = me.kind /\ new.host = me.host /\ new.save = None
    BY <1>1, <1>3 DEF Process
  <2> HIDE DEF new
  <2>3. Agrees(new, Ours(p)) BY <1>2, <1>5, <1>6, <2>2
  <2> QED BY <1>1, <1>3, <2>1, <2>2, <2>3, OnwardMoves DEF In
<1>7. CASE Mine(p) # NoSection
  <2> DEFINE new == [me EXCEPT !.pc = next, !.save = save]
  <2>1. proc' = [proc EXCEPT ![p] = new] BY <1>7 DEF Delete
  <2>2. /\ new.pc = next /\ new.old = None /\ new.token = me.token /\ new.cmd = me.cmd
        /\ new.kind = me.kind /\ new.host = me.host /\ new.save = save
    BY <1>1, <1>3 DEF Process
  <2> HIDE DEF new
  <2>3. proc'[p] = new BY <2>1, Placed DEF Alone
  <2>4. text \in Content /\ text.hosts = [file.hosts EXCEPT ![me.host] = NoSection]
    BY <1>2, <1>4, Of, ReplaceSection DEF Content
  <2>5. save \in Save BY <2>4 DEF Save
  <2> HIDE DEF text
  <2>6. Plan(p)' = text.hosts
    BY <2>2, <2>3, <2>5, StandInsAssumption DEF Plan, Saved
  <2>7. Plan(p) = file.hosts BY <1>1, PlanIsFile
  <2>8. Ours(p)' = NoSection /\ \A h \in Hosts \ {me.host} : Plan(p)'[h] = Plan(p)[h]
    BY <1>2, <2>2, <2>3, <2>4, <2>6, <2>7, PlanType DEF Ours
  <2>9. Fits(p)' BY <1>5, <2>2, <2>3, <2>8 DEF Fits, Ours
  <2>10. CarriesOn(p) BY <1>1, <1>3, <2>2, <2>3 DEF CarriesOn, Carried
  <2>11. Renews(p) BY <1>1, <1>3 DEF Renews, First
  <2>12. proc'[p].save.phase # "write" BY <2>2, <2>3
  <2> HIDE DEF save
  <2> QED BY <1>1, <2>2, <2>3, <2>8, <2>9, <2>10, <2>11, <2>12, Of DEF Moves, Readable
<1> QED BY <1>6, <1>7

\* The credential is saved beside the sections.
LEMMA RegisterMoves ==
  ASSUME Alone, NEW p \in Procs, Register(p)
  PROVE  Moves(p)
<1> DEFINE me == proc[p]
           save == [phase |-> "load", section |-> "general"]
           new == [me EXCEPT !.fresh = TRUE, !.save = save]
<1>1. me \in Process /\ me.save = None /\ UNCHANGED <<file, live, written_off>>
  BY Of DEF Register, globus, history
<1>2. me.pc # "idle" BY DEF Register, Requesting
<1>3. proc' = [proc EXCEPT ![p] = new] BY DEF Register
<1>4. /\ new.pc = me.pc /\ new.host = me.host /\ new.token = me.token /\ new.old = me.old
      /\ new.cmd = me.cmd /\ new.kind = me.kind /\ new.policy = me.policy /\ new.save = save
  BY <1>1 DEF Process
<1> HIDE DEF new
<1>5. proc'[p] = new BY <1>3, Placed DEF Alone
<1>6. save \in Save BY DEF Save
<1>7. Plan(p)' = file.hosts
  BY <1>1, <1>4, <1>5, <1>6, StandInsAssumption DEF Plan, Saved
<1>8. Plan(p)' = Plan(p) BY <1>1, <1>7, PlanIsFile
<1>9. Ours(p)' = Ours(p) BY <1>4, <1>5, <1>8 DEF Ours
<1>10. Agrees(new, Ours(p)) BY <1>2, <1>4, OursType DEF Agrees
<1>11. Fits(p)' BY <1>2, <1>4, <1>5, <1>9, <1>10 DEF Fits, Ours
<1>12. CarriesOn(p) BY <1>1, <1>4, <1>5, <1>9 DEF CarriesOn, Carried
<1>13. proc'[p].save.phase # "write" BY <1>4, <1>5
<1> HIDE DEF save
<1> QED BY <1>1, <1>4, <1>5, <1>8, <1>9, <1>11, <1>12, <1>13, Of DEF Moves, Renews, Readable

----------------------------------------------------------------------------
(* The other statements.                                                    *)

\* A statement that only moves on.
LEMMA GotoMoves ==
  ASSUME Alone, NEW p \in Procs, proc[p].save = None, UNCHANGED <<file, live, written_off>>,
         NEW label, label # "idle", Goto(p, label),
         Agrees([proc[p] EXCEPT !.pc = label], Ours(p))
  PROVE  Moves(p)
<1> DEFINE at == [proc[p] EXCEPT !.pc = label]
           me == [proc[p] EXCEPT !.pc = label, !.fresh = FALSE]
<1>1. proc' = [proc EXCEPT ![p] = me] BY DEF Goto
<1>2. /\ me.pc = at.pc /\ me.token = at.token /\ me.old = at.old /\ me.cmd = at.cmd
      /\ me.kind = at.kind /\ me.policy = at.policy /\ me.pc = label /\ me.save = None
      /\ me.host = proc[p].host /\ me.token = proc[p].token /\ me.old = proc[p].old
  BY Of DEF Process
<1>3. Agrees(at, Ours(p)) OBVIOUS
<1> HIDE DEF at, me
<1>4. Agrees(me, Ours(p)) BY <1>2, <1>3 DEF Agrees
<1> QED BY <1>1, <1>2, <1>4, OnwardMoves

\* New tokens are in the command's object, or lost with the reply.
LEMMA IssueMoves ==
  ASSUME Alone, NEW p \in Procs, Grant(p) \/ Refresh(p) \/ ReplyLost(p)
  PROVE  Moves(p)
<1> DEFINE me == proc[p]
<1>1. me \in Process /\ me.save = None /\ me.pc \in {"grant", "refresh"} /\ UNCHANGED file
  BY Of DEF Grant, Refresh, ReplyLost, At
<1>2. Agrees(me, Ours(p)) /\ Holds(me) /\ me.old = None
  BY <1>1, Of, OursType DEF Agrees
<1>3. me.pc = "grant" => me.cmd = "authorize" /\ me.token = None /\ me.kind = "access"
  BY <1>2 DEF Agrees, Holds, First, OfAuthorize
<1>4. me.pc = "refresh" => me.cmd = "ssh" /\ me.token \in Token /\ me.token = Ours(p).token
                            /\ me.token.access = None /\ me.kind = "access"
  BY <1>2 DEF Agrees, Holds, Settled, OfSsh
<1>5. issued \in Nat /\ issued + 1 # None /\ issued + 2 # None
  BY StoreAssumption DEF StoreAssumption, Alone, TypeInv, TypeOK
<1>6. CASE Grant(p)
  <2> DEFINE t == [access |-> issued + 1, refresh |-> issued + 2, authorized_at |-> now]
             new == [me EXCEPT !.pc = "load_old", !.fresh = FALSE, !.token = t]
  <2>1. proc' = [proc EXCEPT ![p] = new] /\ UNCHANGED written_off BY <1>6 DEF Grant
  <2>2. me.pc = "grant" BY <1>6 DEF Grant, At
  <2>3. /\ new.pc = "load_old" /\ new.save = None /\ new.token = t /\ new.old = None
        /\ new.cmd = "authorize" /\ new.kind = "access" /\ new.host = me.host
    BY <1>1, <1>2, <1>3, <2>2 DEF Process
  <2>4. t # None
    <3>1. t \in Token
      BY <1>6, StoreAssumption
      DEF StoreAssumption, Grant, Alone, TypeInv, TypeOK, Token, Tokens
    <3> QED BY <3>1, StandInsAssumption DEF StandInsAssumption
  <2>5. live' \subseteq live \cup In(t)
    <3>1. live' = live \cup {issued + 1, issued + 2} BY <1>6 DEF Grant
    <3>2. {issued + 1, issued + 2} \subseteq In(t) BY <1>5, <2>4 DEF In
    <3> QED BY <3>1, <3>2
  <2> HIDE DEF new, t
  <2>6. Agrees(new, Ours(p)) BY <2>3 DEF Agrees, First
  <2> QED BY <1>1, <1>2, <1>3, <2>1, <2>2, <2>3, <2>5, <2>6, OnwardMoves DEF In
<1>7. CASE Refresh(p)
  <2> DEFINE t == [me.token EXCEPT !.access = issued + 1]
             new == [me EXCEPT !.pc = "load_old", !.fresh = FALSE, !.token = t]
  <2>1. proc' = [proc EXCEPT ![p] = new] /\ UNCHANGED written_off
    BY <1>7 DEF Refresh, history
  <2>2. me.pc = "refresh" BY <1>7 DEF Refresh, At
  <2>3. /\ new.pc = "load_old" /\ new.save = None /\ new.token = t /\ new.old = None
        /\ new.cmd = "ssh" /\ new.kind = "access" /\ new.host = me.host
    BY <1>1, <1>2, <1>4, <2>2 DEF Process
  <2>4. t # None
    <3>1. issued + 1 \in Tokens
      BY <1>7, StoreAssumption
      DEF StoreAssumption, Refresh, Alone, TypeInv, TypeOK, Tokens
    <3>2. t \in Token BY <1>4, <2>2, <3>1 DEF Token
    <3> QED BY <3>2, StandInsAssumption DEF StandInsAssumption
  <2>5. live' \subseteq live \cup In(t)
    <3>1. live' = live \cup {issued + 1} BY <1>7 DEF Refresh
    <3>2. issued + 1 \in In(t) BY <1>4, <1>5, <2>2, <2>4 DEF In, Token
    <3> QED BY <3>1, <3>2
  <2>6. Ours(p).token = [t EXCEPT !.access = None] BY <1>4, <2>2 DEF Token
  <2>7. In(me.token) \subseteq In(Ours(p).token) BY <1>4, <2>2
  <2> HIDE DEF new, t
  <2>8. Agrees(new, Ours(p)) BY <2>3, <2>6 DEF Agrees, First, Settled
  <2> QED BY <1>1, <1>2, <2>1, <2>3, <2>5, <2>7, <2>8, OnwardMoves DEF In
<1>8. CASE ReplyLost(p)
  <2>1. End(p, "error") /\ written_off \subseteq written_off' /\ live' \subseteq live \cup written_off'
    BY <1>8 DEF ReplyLost
  <2>2. In(me.token) \cup In(me.old) \subseteq In(Ours(p).token)
    BY <1>1, <1>2, <1>3, <1>4 DEF In
  <2> QED BY <1>1, <2>1, <2>2, EndMoves
<1> QED BY <1>6, <1>7, <1>8

\* A command that ends before it is done knows no token but those of the file.
LEMMA StopMoves ==
  ASSUME Alone, NEW p \in Procs,
         UNCHANGED <<file, live, written_off>>, proc[p].save = None,
         NEW result, End(p, result),
         \/ proc[p].pc \in First
         \/ (proc[p].cmd = "ssh" /\ proc[p].pc \in Settled)
         \/ proc[p].pc = "end"
  PROVE  Moves(p)
<1>1. proc[p].pc # "idle" BY DEF First, Settled
<1>2. Agrees(proc[p], Ours(p)) /\ Holds(proc[p]) BY <1>1, Of, OursType
<1>3. proc[p].old = None BY <1>2 DEF Agrees, First, Settled
<1>4. In(proc[p].token) \subseteq In(Ours(p).token)
  <2>1. CASE proc[p].pc \in First BY <1>2, <2>1 DEF Agrees, In
  <2>2. CASE proc[p].cmd = "ssh" /\ proc[p].pc \in Settled BY <1>2, <2>2 DEF Agrees
  <2>3. CASE proc[p].pc = "end"
    <3>1. proc[p].cmd \in Commands BY <1>1, <1>2 DEF Holds
    <3>2. CASE proc[p].cmd = "authorize" BY <1>2, <2>3, <3>2 DEF Agrees
    <3>3. CASE proc[p].cmd = "revoke" BY <1>2, <3>3 DEF Agrees, In
    <3>4. CASE proc[p].cmd = "ssh" BY <1>2, <2>3, <3>4 DEF Agrees, Settled
    <3> QED BY <3>1, <3>2, <3>3, <3>4 DEF Commands
  <2> QED BY <2>1, <2>2, <2>3
<1> QED BY <1>1, <1>3, <1>4, EndMoves DEF In

\* A failed call ends the command.
LEMMA CallFailsMoves ==
  ASSUME Alone, NEW p \in Procs, CallFails(p)
  PROVE  Moves(p)
<1>1. proc[p].save = None /\ End(p, "error") /\ UNCHANGED <<file, live, written_off>>
  BY DEF CallFails, globus, history
<1>2. proc[p].pc \in {"policy", "accounts", "grant", "refresh", "check_access", "check_refresh"}
  BY Of DEF CallFails, Requesting
<1>3. proc[p].pc \in First \/ (proc[p].cmd = "ssh" /\ proc[p].pc \in Settled)
  BY <1>2, Of DEF Holds, First, Settled, OfSsh
<1> QED BY <1>1, <1>3, StopMoves

\* authorize: the policy, and what is saved in the section that was deleted.
LEMMA AuthorizeMoves ==
  ASSUME Alone, NEW p \in Procs, GetPolicy(p) \/ SavePolicy(p) \/ SaveToken(p)
  PROVE  Moves(p)
<1> DEFINE me == proc[p]
<1>1. /\ me \in Process /\ me.save = None /\ UNCHANGED <<file, live, written_off>>
      /\ me.pc \in {"policy", "save_policy", "save_token"}
  BY Of DEF GetPolicy, SavePolicy, SaveToken, At, globus, history
<1>2. /\ Agrees(me, Ours(p)) /\ Ours(p) \in Section /\ Holds(me) /\ me.cmd = "authorize"
      /\ me.old = None
  BY <1>1, Of, OursType DEF Agrees, Holds, OfAuthorize
<1>3. CASE GetPolicy(p)
  <2>1. PICK t \in Timeouts : proc' = [proc EXCEPT ![p].policy = t, ![p].pc = "grant"]
    BY <1>3 DEF GetPolicy
  <2> DEFINE new == [me EXCEPT !.policy = t, !.pc = "grant"]
  <2>2. proc' = [proc EXCEPT ![p] = new] BY <2>1
  <2>3. me.pc = "policy" BY <1>3 DEF GetPolicy, At
  <2>4. /\ new.pc = "grant" /\ new.token = me.token /\ new.old = me.old /\ new.save = None
        /\ new.cmd = me.cmd /\ new.kind = me.kind /\ new.host = me.host
    BY <1>1 DEF Process
  <2> HIDE DEF new
  <2>5. Agrees(new, Ours(p)) BY <1>2, <2>3, <2>4 DEF Agrees, First
  <2> QED BY <1>1, <2>2, <2>4, <2>5, OnwardMoves
<1>4. CASE SavePolicy(p)
  <2> DEFINE s == [Ours(p) EXCEPT !["policy"] = me.policy]
             at == [me EXCEPT !.pc = "save_token"]
  <2>1. me.pc = "save_policy" /\ SaveThen(p, me, "policy", me.policy, "save_token")
    BY <1>4 DEF SavePolicy, At
  <2>2. me.policy \in Timeouts BY <1>2, <2>1 DEF Holds
  <2>3. s.token = Ours(p).token /\ s.policy = me.policy BY <1>2 DEF Section
  <2>4. /\ at.pc = "save_token" /\ at.token = me.token /\ at.old = me.old
        /\ at.cmd = me.cmd /\ at.kind = me.kind /\ at.policy = me.policy
    BY <1>1 DEF Process
  <2> HIDE DEF at, s
  <2>5. Agrees(at, s) BY <1>2, <2>1, <2>3, <2>4 DEF Agrees, First
  <2>6. s = [Ours(p) EXCEPT !["policy"] = me.policy] BY DEF s
  <2>7. \A t \in live' : t \in Carried(p) => t \in In(s.token) \cup In(me.token) \cup In(me.old)
    BY <2>3 DEF Carried
  <2> QED BY <1>1, <1>2, <2>1, <2>2, <2>5, <2>6, <2>7, SaveThenMoves DEF First, at
<1>5. CASE SaveToken(p)
  <2> DEFINE s == [Ours(p) EXCEPT !["token"] = me.token]
             at == [me EXCEPT !.pc = "end"]
  <2>1. me.pc = "save_token" /\ SaveThen(p, me, "token", me.token, "end")
    BY <1>5 DEF SaveToken, At
  <2>2. me.token \in Token BY <1>2, <2>1 DEF Holds
  <2>3. s.token = me.token /\ s.policy = Ours(p).policy BY <1>2 DEF Section
  <2>4. /\ at.pc = "end" /\ at.token = me.token /\ at.old = me.old
        /\ at.cmd = me.cmd /\ at.kind = me.kind /\ at.policy = me.policy
    BY <1>1 DEF Process
  <2> HIDE DEF at, s
  <2>5. Agrees(at, s) BY <1>2, <2>1, <2>3, <2>4 DEF Agrees, First
  <2>6. s = [Ours(p) EXCEPT !["token"] = me.token] BY DEF s
  <2>7. \A t \in live' : t \in Carried(p) => t \in In(s.token) \cup In(me.token) \cup In(me.old)
    BY <1>2, <2>1 DEF Carried, Agrees, In
  <2> QED BY <1>1, <1>2, <2>1, <2>2, <2>5, <2>6, <2>7, SaveThenMoves DEF First, at
<1> QED BY <1>3, <1>4, <1>5

\* oauth-ssh saves its object without a token that is not active.
LEMMA DropMoves ==
  ASSUME Alone, NEW p \in Procs, proc[p].save = None, UNCHANGED <<file, live, written_off>>,
         NEW kind, NEW label, Drop(p, kind, label), proc[p].token[kind] \notin live,
         \/ proc[p].pc = "check_access" /\ kind = "access" /\ label = "check_refresh"
         \/ proc[p].pc = "check_refresh" /\ kind = "refresh" /\ label = "give_up"
  PROVE  Moves(p)
<1> DEFINE me == proc[p]
           rest == [me.token EXCEPT ![kind] = None]
           mine == [me EXCEPT !.token = rest]
           at == [mine EXCEPT !.pc = label]
           s == [Ours(p) EXCEPT !["token"] = rest]
<1>1. me \in Process /\ Holds(me) /\ Agrees(me, Ours(p)) /\ Ours(p) \in Section
  BY Of, OursType
<1>2. me.cmd = "ssh" /\ me.token \in Token /\ me.token = Ours(p).token /\ me.old = None
  BY <1>1 DEF Holds, Agrees, Settled, OfSsh
<1>3. me.token # None BY <1>2, StandInsAssumption DEF StandInsAssumption
<1>4. /\ rest \in Token /\ rest.authorized_at = me.token.authorized_at
      /\ kind = "access" => rest.access = None /\ rest.refresh = me.token.refresh
      /\ kind = "refresh" => rest.refresh = None /\ rest.access = me.token.access
  BY <1>2 DEF Token
<1>5. rest # None BY <1>4, StandInsAssumption DEF StandInsAssumption
<1>6. s.token = rest /\ s.policy = Ours(p).policy BY <1>1 DEF Section
<1>7. SaveThen(p, mine, "token", rest, label) BY DEF Drop
<1>8. \A t \in live' : t \in Carried(p) => t \in In(rest)
  BY <1>2, <1>3, <1>4, <1>5 DEF Carried, In
<1> HIDE DEF rest
<1>9. mine \in Process /\ mine.host = me.host /\ mine.token = rest /\ mine.old = None
  BY <1>1, <1>2, <1>4 DEF Process
<1>10. /\ at.pc = label /\ at.token = rest /\ at.old = None
       /\ at.cmd = "ssh" /\ at.kind = me.kind
  BY <1>1, <1>2, <1>4 DEF Process
<1>11. s = [Ours(p) EXCEPT !["token"] = rest] OBVIOUS
<1> HIDE DEF s, at
<1>12. Agrees(at, s) BY <1>1, <1>2, <1>4, <1>6, <1>10 DEF Agrees, First, Settled
<1>13. Agrees([mine EXCEPT !.pc = label], s) BY <1>12 DEF at
<1> HIDE DEF mine
<1>14. s.token.refresh = Ours(p).token.refresh \/ Ours(p).token.refresh \notin live'
  BY <1>2, <1>4, <1>6
<1> QED BY <1>2, <1>3, <1>4, <1>5, <1>6, <1>7, <1>8, <1>9, <1>11, <1>13, <1>14, SaveThenMoves

\* find_access_token() up to the tokens.
LEMMA LookupMoves ==
  ASSUME Alone, NEW p \in Procs, LoadToken(p) \/ LoadPolicy(p)
  PROVE  Moves(p)
<1> DEFINE me == proc[p]
<1>1. /\ me \in Process /\ me.save = None /\ UNCHANGED <<file, live, written_off>>
      /\ me.pc \in {"load_token", "load_policy"}
  BY Of DEF LoadToken, LoadPolicy, At, globus, history
<1>2. /\ Agrees(me, Ours(p)) /\ Ours(p) = Mine(p) /\ Holds(me) /\ me.cmd = "ssh"
      /\ me.old = None
  BY <1>1, Of, OursType, OursIsMine DEF Agrees, Holds, OfSsh
<1>3. ASSUME NEW result, End(p, result) PROVE Moves(p)
  BY <1>1, <1>2, <1>3, StopMoves DEF First, Settled
<1>4. CASE LoadToken(p)
  <2>1. CASE Mine(p).token = None BY <1>3, <1>4, <2>1 DEF LoadToken, NeedToAuthorize
  <2>2. CASE Mine(p).token # None
    <3> DEFINE new == [me EXCEPT !.token = Mine(p).token, !.pc = "load_policy"]
    <3>1. proc' = [proc EXCEPT ![p] = new] BY <1>4, <2>2 DEF LoadToken
    <3>2. me.pc = "load_token" BY <1>4 DEF LoadToken, At
    <3>3. /\ new.pc = "load_policy" /\ new.token = Mine(p).token /\ new.old = None
          /\ new.save = None /\ new.cmd = "ssh" /\ new.kind = me.kind /\ new.host = me.host
      BY <1>1, <1>2 DEF Process
    <3> HIDE DEF new
    <3>4. Agrees(new, Ours(p)) BY <1>2, <3>2, <3>3 DEF Agrees, First, Settled
    <3>5. me.token = None BY <1>2, <3>2 DEF Agrees, First
    <3> QED BY <1>1, <1>2, <3>1, <3>3, <3>4, <3>5, OnwardMoves DEF In
  <2> QED BY <2>1, <2>2
<1>5. CASE LoadPolicy(p)
  <2>1. me.pc = "load_policy" BY <1>5 DEF LoadPolicy, At
  <2>2. CASE Goto(p, "check_access")
    <3> DEFINE at == [me EXCEPT !.pc = "check_access"]
    <3>1. /\ at.pc = "check_access" /\ at.token = me.token /\ at.old = None
          /\ at.cmd = "ssh" /\ at.kind = me.kind
      BY <1>1, <1>2 DEF Process
    <3> HIDE DEF at
    <3>2. Agrees(at, Ours(p)) BY <1>2, <2>1, <3>1 DEF Agrees, First, Settled
    <3> QED BY <1>1, <2>2, <3>2, GotoMoves DEF at
  <2> QED BY <1>3, <1>5, <2>2 DEF LoadPolicy, NeedToAuthorize
<1> QED BY <1>4, <1>5

\* Once oauth-ssh has the object of the file it moves on with it.
LEMMA SettledGoes ==
  ASSUME Alone, NEW p \in Procs, proc[p].save = None, UNCHANGED <<file, live, written_off>>,
         proc[p].cmd = "ssh", proc[p].pc \in Settled,
         NEW label \in Settled \ {"give_up"}, Goto(p, label),
         label \in {"check_refresh", "refresh"} => proc[p].token.access = None
  PROVE  Moves(p)
<1> DEFINE at == [proc[p] EXCEPT !.pc = label]
<1>1. proc[p].pc # "idle" /\ label # "idle" /\ label \notin First BY DEF Settled, First
<1>2. Agrees(proc[p], Ours(p)) /\ proc[p] \in Process BY <1>1, Of, OursType
<1>3. /\ at.pc = label /\ at.token = proc[p].token /\ at.old = proc[p].old
      /\ at.cmd = "ssh" /\ at.kind = proc[p].kind
  BY <1>2 DEF Process
<1> HIDE DEF at
<1>4. Agrees(at, Ours(p)) BY <1>1, <1>2, <1>3 DEF Agrees, Settled
<1> QED BY <1>1, <1>4, GotoMoves DEF at

\* The tokens are asked about; then the login, or the end.
LEMMA SshMoves ==
  ASSUME Alone, NEW p \in Procs,
         \/ CheckAccess(p) \/ CheckRefresh(p) \/ SaveNew(p) \/ GiveUp(p) \/ Got(p)
         \/ GetAccounts(p)
  PROVE  Moves(p)
<1> DEFINE me == proc[p]
<1>1. /\ me \in Process /\ me.save = None /\ UNCHANGED <<file, live, written_off>>
      /\ me.pc \in {"check_access", "check_refresh", "save_new", "give_up", "got", "accounts"}
  BY Of DEF CheckAccess, CheckRefresh, SaveNew, GiveUp, Got, GetAccounts, At, globus, history
<1>2. /\ Agrees(me, Ours(p)) /\ Ours(p) \in Section /\ Holds(me) /\ me.cmd = "ssh"
      /\ me.token \in Token /\ me.old = None
  BY <1>1, Of, OursType DEF Agrees, Holds, OfSsh
<1>3. me.token # None BY <1>2, StandInsAssumption DEF StandInsAssumption
<1>4. me.pc # "save_new" => me.pc \in Settled BY <1>1 DEF Settled
<1>5. ASSUME NEW result, End(p, result), me.pc # "save_new" PROVE Moves(p)
  BY <1>1, <1>2, <1>4, <1>5, StopMoves
<1>6. CASE CheckAccess(p)
  <2>1. me.pc = "check_access" BY <1>6 DEF CheckAccess, At
  <2>2. \/ Goto(p, "check_refresh") /\ me.token.access = None
        \/ Goto(p, "got")
        \/ Drop(p, "access", "check_refresh") /\ me.token.access \notin live
    BY <1>6 DEF CheckAccess
  <2> QED BY <1>1, <1>2, <1>4, <2>1, <2>2, SettledGoes, DropMoves DEF Settled
<1>7. CASE CheckRefresh(p)
  <2>1. me.pc = "check_refresh" /\ me.token.access = None
    BY <1>2, <1>7 DEF CheckRefresh, At, Agrees
  <2>2. \/ End(p, "NeedToAuthorize")
        \/ Goto(p, "refresh")
        \/ Drop(p, "refresh", "give_up") /\ me.token.refresh \notin live
    BY <1>7 DEF CheckRefresh, NeedToAuthorize
  <2> QED BY <1>1, <1>2, <1>4, <1>5, <2>1, <2>2, SettledGoes, DropMoves DEF Settled
<1>8. CASE SaveNew(p)
  <2> DEFINE s == [Ours(p) EXCEPT !["token"] = me.token]
             at == [me EXCEPT !.pc = "got"]
  <2>1. me.pc = "save_new" /\ SaveThen(p, me, "token", me.token, "got")
    BY <1>8 DEF SaveNew, At
  <2>2. Ours(p).token = [me.token EXCEPT !.access = None] BY <1>2, <2>1 DEF Agrees
  <2>3. /\ Ours(p).token \in Token /\ Ours(p).token.access = None
        /\ Ours(p).token.refresh = me.token.refresh
        /\ Ours(p).token.authorized_at = me.token.authorized_at
    BY <1>2, <2>2 DEF Token
  <2>4. Ours(p).token # None BY <2>3, StandInsAssumption DEF StandInsAssumption
  <2>5. s.token = me.token /\ s.policy = Ours(p).policy BY <1>2 DEF Section
  <2>6. /\ at.pc = "got" /\ at.token = me.token /\ at.old = None
        /\ at.cmd = "ssh" /\ at.kind = me.kind
    BY <1>1, <1>2 DEF Process
  <2>7. s = [Ours(p) EXCEPT !["token"] = me.token] OBVIOUS
  <2> HIDE DEF at, s
  <2>8. Agrees(at, s) BY <1>2, <2>1, <2>5, <2>6 DEF Agrees, First, Settled
  <2>9. \A t \in live' : t \in Carried(p) => t \in In(s.token)
    BY <1>2, <1>3, <2>3, <2>4, <2>5 DEF Carried, In
  <2> QED BY <1>1, <1>2, <1>3, <2>1, <2>3, <2>4, <2>5, <2>7, <2>8, <2>9, SaveThenMoves DEF at
<1>9. CASE GiveUp(p)
  BY <1>5, <1>9 DEF GiveUp, NeedToAuthorize, At
<1>10. CASE Got(p)
  <2>1. me.pc = "got" BY <1>10 DEF Got, At
  <2>2. End(p, "token") \/ Goto(p, "accounts") BY <1>10 DEF Got
  <2> QED BY <1>1, <1>2, <1>4, <1>5, <2>1, <2>2, SettledGoes DEF Settled
<1>11. CASE GetAccounts(p)
  <2> DEFINE s == [Ours(p) EXCEPT !["account_map"] = TRUE]
             at == [me EXCEPT !.pc = "end"]
  <2>1. me.pc = "accounts" /\ SaveThen(p, me, "account_map", TRUE, "end")
    BY <1>11 DEF GetAccounts, At
  <2>2. Ours(p).token = me.token BY <1>2, <2>1 DEF Agrees, Settled
  <2>3. s.token = me.token /\ s.policy = Ours(p).policy BY <1>2, <2>2 DEF Section
  <2>4. /\ at.pc = "end" /\ at.token = me.token /\ at.old = None
        /\ at.cmd = "ssh" /\ at.kind = me.kind
    BY <1>1, <1>2 DEF Process
  <2>5. s = [Ours(p) EXCEPT !["account_map"] = TRUE] OBVIOUS
  <2> HIDE DEF at, s
  <2>6. Agrees(at, s) BY <1>2, <2>1, <2>3, <2>4 DEF Agrees, First, Settled
  <2>7. \A t \in live' : t \in Carried(p) => t \in In(s.token)
    BY <1>2, <2>2, <2>3 DEF Carried, In
  <2> QED BY <1>1, <1>2, <1>3, <2>1, <2>2, <2>3, <2>5, <2>6, <2>7, SaveThenMoves DEF at
<1> QED BY <1>6, <1>7, <1>8, <1>9, <1>10, <1>11

\* Every step of a command moves the plan and the tokens as Moves says.
LEMMA StepMoves ==
  ASSUME Alone, NEW p \in Procs, Step(p)
  PROVE  Moves(p)
<1>1. CASE Finish(p)
  <2>1. proc[p].pc = "end" /\ proc[p].save = None /\ UNCHANGED <<file, live, written_off>>
        /\ \E result : End(p, result)
    BY <1>1 DEF Finish, At, globus
  <2> QED BY <2>1, StopMoves
<1> QED BY <1>1, SavingMoves, DeleteMoves, RegisterMoves, IssueMoves, CallFailsMoves,
           LoadOldMoves, RevokeOldMoves, AuthorizeMoves, LookupMoves, SshMoves DEF Step


----------------------------------------------------------------------------
(* The invariant.                                                           *)

\* A process that starts a command, or dies, plans nothing.
LEMMA StartMoves ==
  ASSUME Alone, NEW p \in Procs, NEW c \in Commands, NEW h \in Hosts, Start(p, c, h)
  PROVE  /\ proc'[p].pc = FirstLabel[c] /\ proc'[p].cmd = c /\ proc'[p].host = h
         /\ proc'[p].token = None /\ proc'[p].old = None /\ proc'[p].save = None
         /\ UNCHANGED <<file, live, issued, written_off>>
         /\ Plan(p)' = Plan(p) /\ Plan(p) = file.hosts
         /\ Fits(p)'
<1> DEFINE me == [Idle("none") EXCEPT !.pc = FirstLabel[c],
                    !.cmd = c, !.host = h, !.since = standing[h],
                    !.dead = IF c = "ssh" THEN 1 .. issued \ live ELSE {}]
<1>1. proc' = [proc EXCEPT ![p] = me] BY DEF Start
<1>2. /\ me.pc = FirstLabel[c] /\ me.cmd = c /\ me.host = h /\ me.token = None
      /\ me.old = None /\ me.save = None /\ me.kind = "access"
  BY DEF Idle
<1> HIDE DEF me
<1>3. proc'[p] = me BY <1>1, Placed DEF Alone
<1>4. UNCHANGED <<file, live, issued, written_off>> BY DEF Start, globus
<1>5. proc[p].save = None BY Of DEF Start, Holds
<1>6. Plan(p)' = file.hosts BY <1>2, <1>3, <1>4 DEF Plan, Saved
<1>7. me.pc \in {"policy", "load_old", "load_token"} /\ (me.pc = "load_old" => c = "revoke")
  BY <1>2 DEF FirstLabel, Commands
<1>8. \A s : Agrees(me, s) BY <1>2, <1>7 DEF Agrees, First, Settled
<1>9. Fits(p)' BY <1>3, <1>7, <1>8 DEF Fits
<1> QED BY <1>2, <1>3, <1>4, <1>5, <1>6, <1>9, PlanIsFile

\* What dies with the process is written off.
LEMMA CrashMoves ==
  ASSUME Alone, NEW p \in Procs, Crash(p)
  PROVE  /\ proc'[p].pc = "idle" /\ proc'[p].save = None /\ proc'[p].token = None
         /\ proc'[p].old = None /\ proc'[p].result = "crashed"
         /\ UNCHANGED <<file, live, issued, standing>>
         /\ written_off' = written_off \cup Memory(p)
         /\ Plan(p)' = file.hosts
         /\ Fits(p)'
<1> DEFINE me == [Idle("crashed") EXCEPT !.cmd = proc[p].cmd, !.host = proc[p].host]
<1>1. proc' = [proc EXCEPT ![p] = me] BY DEF Crash, End
<1>2. /\ me.pc = "idle" /\ me.save = None /\ me.token = None /\ me.old = None
      /\ me.result = "crashed"
  BY DEF Idle
<1> HIDE DEF me
<1>3. proc'[p] = me BY <1>1, Placed DEF Alone
<1>4. UNCHANGED <<file, live, issued, standing>> /\ written_off' = written_off \cup Memory(p)
  BY DEF Crash, globus
<1>5. Plan(p)' = file.hosts BY <1>2, <1>3, <1>4 DEF Plan, Saved
<1>6. Fits(p)' BY <1>2, <1>3 DEF Fits
<1> QED BY <1>2, <1>3, <1>4, <1>5, <1>6

\* Nobody else writes the file.
LEMMA QuietMoves ==
  ASSUME Alone, NEW p \in Procs, UNCHANGED <<file, proc>>
  PROVE  Plan(p)' = Plan(p) /\ (Fits(p)' <=> Fits(p))
<1>1. Plan(p)' = Plan(p) BY DEF Plan, Saved
<1> QED BY <1>1 DEF Fits

\* The steps there are when one process runs.
LEMMA OneRuns ==
  ASSUME NEW q, Procs = {q}, [Next]_vars
  PROVE  \/ Step(q)
         \/ Crash(q)
         \/ \E c \in Commands, h \in Hosts : Start(q, c, h)
         \/ /\ UNCHANGED <<file, proc, issued, standing, written_off>>
            /\ live' \subseteq live
BY DEF Next, Expire, Tick, vars, globus, history

\* One command at a time never garbles the file, and fits together with it.
LEMMA NextAlone ==
  ASSUME NEW q, Procs = {q}, Alone, [Next]_vars
  PROVE  Alone'
<1>1. q \in Procs OBVIOUS
<1>2. TypeInv' BY NextType DEF Alone
<1>3. SUFFICES /\ Readable' /\ Fits(q)'
               /\ proc'[q].save # None /\ proc'[q].save.phase = "write" => file' = EmptyFile
  BY <1>2 DEF Alone, AloneInv
<1>4. CASE Step(q) BY <1>1, <1>4, StepMoves DEF Moves
<1>5. CASE Crash(q) BY <1>1, <1>5, CrashMoves, Of DEF Readable
<1>6. CASE \E c \in Commands, h \in Hosts : Start(q, c, h)
  BY <1>1, <1>6, StartMoves, Of DEF Readable
<1>7. CASE UNCHANGED <<file, proc>> BY <1>1, <1>7, QuietMoves, Of DEF Readable
<1> QED BY <1>4, <1>5, <1>6, <1>7, OneRuns

\* What the known host has stored.
LEMMA KnownType ==
  ASSUME KnownHost # None
  PROVE  /\ KnownSection \in Section /\ KnownSection.token \in Token
         /\ KnownSection.policy = 0 /\ 0 # None
         /\ In(KnownSection.token) = {1, 2}
<1> USE StoreAssumption DEF StoreAssumption
<1>1. KnownSection.token \in Token /\ KnownSection \in Section
  BY DEF KnownSection, Section, Token, Tokens
<1>2. KnownSection.token # None BY <1>1, StandInsAssumption
<1>3. 1 # None /\ 2 # None /\ 0 # None OBVIOUS
<1>4. {KnownSection.token.access, KnownSection.token.refresh} = {1, 2} BY DEF KnownSection
<1>5. In(KnownSection.token) = {1, 2} BY <1>2, <1>3, <1>4 DEF In
<1> QED BY <1>1, <1>3, <1>5 DEF KnownSection

\* Nothing runs at first, and the file is whole.
LEMMA InitAlone == Init => Alone
<1> SUFFICES ASSUME Init PROVE AloneInv BY InitType DEF Alone
<1>1. NoSection \in Section BY DEF NoSection, Section
<1>2. file \in Content
  <2>1. \A h \in Hosts : h = KnownHost => KnownSection \in Section
    BY KnownType, StoreAssumption DEF StoreAssumption
  <2> QED BY <1>1, <2>1 DEF Init, Content
<1>3. Readable BY <1>2, StandInsAssumption DEF Readable
<1>4. \A p \in Procs : proc[p].save = None /\ Fits(p) BY DEF Init, Idle, Fits
<1> QED BY <1>3, <1>4 DEF AloneInv


----------------------------------------------------------------------------
(* No token is forgotten.                                                   *)

TokensIn(hosts) == UNION {In(hosts[h].token) : h \in Hosts}

\* Every active token is planned for the file, or in an object of the command.
KeptInv ==
  \A p \in Procs :
    live \subseteq TokensIn(Plan(p)) \cup In(proc[p].token) \cup In(proc[p].old) \cup written_off

\* A process that takes a step has a command.
LEMMA StepRuns ==
  ASSUME Alone, NEW p \in Procs, Step(p)
  PROVE  proc[p].pc # "idle" /\ proc[p].host \in Hosts /\ proc[p].cmd \in Commands
<1>1. CASE proc[p].save # None BY <1>1, Of DEF Holds
<1>2. CASE proc[p].save = None
  <2>1. ~Saving(p)
    BY <1>2, SMTT(60) DEF Saving, Load, Reload, Truncate, Write, SaveFails
  <2>2. proc[p].pc # "idle"
    BY <2>1 DEF Step, Delete, Register, Requesting, Grant, Refresh, ReplyLost, CallFails,
                LoadOld, RevokeOld, GetPolicy, SavePolicy, SaveToken, Finish, LoadToken,
                LoadPolicy, CheckAccess, CheckRefresh, SaveNew, GiveUp, Got, GetAccounts, At
  <2> QED BY <2>2, Of DEF Holds
<1> QED BY <1>1, <1>2

\* The tokens of the planned sections are in the file or in what is being saved.
LEMMA PlanIsKnown ==
  ASSUME Alone, NEW p \in Procs
  PROVE  TokensIn(Plan(p)) \subseteq Stored(file) \cup InSave(proc[p].save)
<1> DEFINE save == proc[p].save
<1> SUFFICES ASSUME NEW h \in Hosts, NEW t \in In(Plan(p)[h].token)
             PROVE  t \in Stored(file) \cup InSave(save)
  BY DEF TokensIn
<1>1. ASSUME t \in In(file.hosts[h].token) PROVE t \in Stored(file)
  BY <1>1, Of DEF Stored, Readable
<1>2. CASE save = None \/ (save.phase \in {"load", "reload"} /\ save.section = "general")
  BY <1>1, <1>2 DEF Plan, Saved
<1>3. CASE save # None /\ save.phase \in {"truncate", "write"}
  <2>1. save \in Save BY <1>3, Of DEF Process
  <2>2. save.image # Garbled BY <1>3, <2>1, SaveShape, StandInsAssumption
  <2>3. t \in Stored(save.image) BY <1>3, <2>2 DEF Stored, Plan, Saved
  <2> QED BY <1>3, <2>3 DEF InSave
<1>4. CASE save # None /\ save.phase \in {"load", "reload"} /\ save.section # "general"
  <2>1. save \in Save BY <1>4, Of DEF Process
  <2>2. file.hosts \in [Hosts -> Section] BY Of DEF Content
  <2>3. CASE h # save.section
    <3>1. Plan(p)[h] = file.hosts[h] BY <1>4, <2>2, <2>3 DEF Plan, Saved
    <3> QED BY <1>1, <3>1
  <2>4. CASE h = save.section /\ save.phase = "reload"
    <3>1. Plan(p)[h] = save.values BY <1>4, <2>2, <2>4 DEF Plan, Saved
    <3> QED BY <1>4, <2>4, <3>1 DEF InSave
  <2>5. CASE h = save.section /\ save.phase = "load"
    <3> DEFINE s == [file.hosts[h] EXCEPT ![save.object] = save.value]
    <3>1. Plan(p)[h] = s BY <1>4, <2>2, <2>5 DEF Plan, Saved
    <3>2. s.token = IF save.object = "token" THEN save.value ELSE file.hosts[h].token
      BY <1>4, <2>1, <2>2, <2>5, SaveShape DEF Section
    <3>3. InSave(save) = IF save.object = "token" THEN In(save.value) ELSE {}
      BY <1>4, <2>5 DEF InSave
    <3> HIDE DEF s
    <3> QED BY <1>1, <3>1, <3>2, <3>3
  <2> QED BY <1>4, <2>3, <2>4, <2>5
<1> QED BY <1>2, <1>3, <1>4, SaveShape, Of DEF Process, Save

\* At first the active tokens are those of the known host.
LEMMA InitKept == Init => KeptInv
<1> SUFFICES ASSUME Init, NEW p \in Procs, NEW t \in live PROVE t \in TokensIn(Plan(p))
  BY DEF KeptInv
<1>1. proc[p].save = None BY DEF Init, Idle
<1>2. KnownHost # None /\ t \in {1, 2} BY DEF Init
<1>3. KnownHost \in Hosts BY <1>2, StoreAssumption DEF StoreAssumption
<1>4. file.hosts[KnownHost] = KnownSection BY <1>3 DEF Init
<1>5. t \in In(file.hosts[KnownHost].token) BY <1>2, <1>4, KnownType
<1> QED BY <1>1, <1>3, <1>5, PlanIsFile DEF TokensIn

\* Every step keeps the active tokens.
LEMMA NextKept ==
  ASSUME NEW q, Procs = {q}, Alone, KeptInv, [Next]_vars
  PROVE  KeptInv'
<1>1. q \in Procs OBVIOUS
<1> DEFINE Held == TokensIn(Plan(q)) \cup In(proc[q].token) \cup In(proc[q].old) \cup written_off
<1>2. SUFFICES ASSUME NEW t \in live' PROVE t \in Held' BY DEF KeptInv
<1>3. live \subseteq Held BY DEF KeptInv
<1>4. CASE Step(q)
  <2>1. Moves(q) /\ proc[q].host \in Hosts BY <1>1, <1>4, StepMoves, StepRuns
  <2>2. written_off \subseteq written_off' BY <2>1 DEF Moves, CarriesOn
  <2>3. proc'[q].host \in Hosts BY <2>1 DEF Moves
  <2>4. CASE t \in Carried(q)' \cup written_off'
    BY <2>3, <2>4 DEF Carried, Ours, TokensIn
  <2>5. CASE t \in live /\ t \notin Carried(q)
    <3>1. t \in TokensIn(Plan(q)) \cup written_off BY <1>3, <2>5 DEF Carried
    <3>2. CASE t \in written_off BY <2>2, <3>2
    <3>3. CASE t \in TokensIn(Plan(q))
      <4>1. PICK h \in Hosts : t \in In(Plan(q)[h].token) BY <3>3 DEF TokensIn
      <4>2. h # proc[q].host BY <2>5, <4>1 DEF Carried, Ours
      <4>3. Plan(q)'[h] = Plan(q)[h] BY <2>1, <4>2 DEF Moves
      <4> QED BY <4>1, <4>3 DEF TokensIn
    <3> QED BY <3>1, <3>2, <3>3
  <2> QED BY <2>1, <2>4, <2>5 DEF Moves, CarriesOn
<1>5. CASE Crash(q)
  <2>1. t \in live BY <1>1, <1>5, CrashMoves
  <2>2. TokensIn(Plan(q)) \subseteq Stored(file) \cup Memory(q) BY PlanIsKnown DEF Memory
  <2>3. t \in Stored(file) \cup Memory(q) \cup written_off
    BY <1>3, <2>1, <2>2 DEF Memory
  <2>4. Stored(file) \subseteq TokensIn(file.hosts) BY DEF Stored, TokensIn
  <2>5. TokensIn(Plan(q))' = TokensIn(file.hosts) BY <1>1, <1>5, CrashMoves DEF TokensIn
  <2> QED BY <1>1, <1>5, <2>3, <2>4, <2>5, CrashMoves
<1>6. ASSUME NEW c \in Commands, NEW h \in Hosts, Start(q, c, h) PROVE t \in Held'
  <2>1. proc[q].pc = "idle" BY <1>6 DEF Start
  <2>2. proc[q].token = None /\ proc[q].old = None BY <1>1, <2>1, Of DEF Fits
  <2>3. t \in TokensIn(Plan(q)) \cup written_off BY <1>1, <1>3, <1>6, <2>2, StartMoves DEF In
  <2>4. TokensIn(Plan(q))' = TokensIn(Plan(q)) BY <1>1, <1>6, StartMoves DEF TokensIn
  <2> QED BY <1>1, <1>6, <2>3, <2>4, StartMoves
<1>7. CASE UNCHANGED <<file, proc, issued, standing, written_off>> /\ live' \subseteq live
  <2>1. TokensIn(Plan(q))' = TokensIn(Plan(q)) BY <1>1, <1>7, QuietMoves DEF TokensIn
  <2> QED BY <1>3, <1>7, <2>1
<1> QED BY <1>4, <1>5, <1>6, <1>7, OneRuns

\* A user who runs one command at a time loses no active token to the client,
\* whatever fails or dies, except for those of an ignored failure, a lost reply
\* or a crash.
THEOREM NoTokenIsForgotten ==
  ASSUME NEW q, Procs = {q}
  PROVE  Spec => []NoTokenForgotten
<1>1. Alone /\ KeptInv /\ [Next]_vars => (Alone /\ KeptInv)' BY NextAlone, NextKept
<1>2. Alone /\ KeptInv => NoTokenForgotten
  <2> SUFFICES ASSUME Alone, KeptInv PROVE NoTokenForgotten OBVIOUS
  <2>1. q \in Procs OBVIOUS
  <2>2. TokensIn(Plan(q)) \subseteq Stored(file) \cup Memory(q)
    BY <2>1, PlanIsKnown DEF Memory
  <2>3. live \subseteq Stored(file) \cup Memory(q) \cup written_off
    BY <2>1, <2>2 DEF KeptInv, Memory
  <2>4. Memory(q) \subseteq UNION {Memory(p) : p \in Procs} BY <2>1
  <2> QED BY <2>3, <2>4 DEF NoTokenForgotten
<1> QED BY <1>1, <1>2, InitAlone, InitKept, PTL DEF Spec
=============================================================================
