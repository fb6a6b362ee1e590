--------------------------- MODULE TokenStoreProofs ---------------------------
(***************************************************************************)
(* Theorems about TokenStore, for any number of processes, hosts, tokens    *)
(* and commands.  TypeOK needs to know what a process holds at each         *)
(* statement; NoDeadToken needs to know where a command still relies on a   *)
(* token it has validated or been issued.                                   *)
(***************************************************************************)
EXTENDS TokenStore, TLAPS

OfAuthorize == {"policy", "grant", "save_policy", "save_token"}
OfSsh == {"load_token", "load_policy", "check_access", "check_refresh", "refresh",
          "save_new", "give_up", "got", "accounts"}

\* What the record of a process holds, by the statement it is at.
Holds(me) ==
  /\ me.pc = "idle" => me.save = None
  /\ me.pc # "idle" => me.cmd \in Commands /\ me.host \in Hosts /\ me.result = "none"
  /\ me.pc \in OfAuthorize => me.cmd = "authorize"
  /\ me.pc \in OfSsh => me.cmd = "ssh"
  /\ me.cmd = "ssh" /\ me.pc \notin {"idle", "load_token"} => me.token \in Token
  /\ me.cmd = "authorize" /\ me.pc \notin {"idle", "policy"} => me.policy \in Timeouts
  /\ me.cmd = "authorize" /\ me.pc \notin {"idle", "policy", "grant"} => me.token \in Token
  /\ me.pc = "revoke_old" => me.old \in Token /\ me.old[me.kind] # None

Sound(me) == me \in Process /\ Holds(me)

ProcsSound == proc \in [Procs -> Process] /\ \A p \in Procs : Holds(proc[p])

TypeInv == TypeOK /\ \A p \in Procs : Holds(proc[p])

----------------------------------------------------------------------------
(* One process steps: only its own record has to be looked at.              *)

\* A step that gives one process a sound record keeps every record sound.
LEMMA PlaceSound ==
  ASSUME TypeInv, NEW p \in Procs, NEW me, Sound(me), proc' = [proc EXCEPT ![p] = me]
  PROVE  ProcsSound'
BY DEF TypeInv, TypeOK, Sound, ProcsSound

\* A command that ends leaves a sound record.
LEMMA EndSound ==
  ASSUME TypeInv, NEW p \in Procs, NEW result \in Results, End(p, result)
  PROVE  ProcsSound'
<1> DEFINE me == [Idle(result) EXCEPT !.cmd = proc[p].cmd, !.host = proc[p].host]
<1>1. proc[p] \in Process BY DEF TypeInv, TypeOK
<1>2. Never \in Standing BY DEF Never, Standing
<1>3. me \in Process BY <1>1, <1>2 DEF Idle, Process, Kinds
<1>4. me.pc = "idle" /\ me.save = None BY DEF Idle
<1>5. Holds(me) BY <1>4 DEF Holds, OfAuthorize, OfSsh
<1> QED BY <1>3, <1>5, PlaceSound DEF End, Sound

\* What a save begins with.
LEMMA SaveBegins ==
  ASSUME NEW section \in Hosts, NEW object, NEW value,
         \/ object = "token" /\ value \in Token
         \/ object = "policy" /\ value \in Timeouts
         \/ object = "account_map" /\ value \in BOOLEAN
  PROVE  [phase |-> "load", section |-> section, object |-> object, value |-> value] \in Save
BY DEF Save

\* save_object() leaves a sound record if the rest of the command is sound.
LEMMA SaveThenSound ==
  ASSUME TypeInv, NEW p \in Procs, NEW mine \in Process, NEW object, NEW value,
         NEW label \in Labels, SaveThen(p, mine, object, value, label),
         proc[p].host \in Hosts,
         \/ object = "token" /\ value \in Token
         \/ object = "policy" /\ value \in Timeouts
         \/ object = "account_map" /\ value \in BOOLEAN,
         Holds([mine EXCEPT !.pc = label, !.save = None])
  PROVE  ProcsSound'
<1> DEFINE save == [phase |-> "load", section |-> proc[p].host,
                    object |-> object, value |-> value]
           me == [mine EXCEPT !.pc = label, !.fresh = FALSE, !.save = save]
<1>1. save \in Save BY SaveBegins
<1>2. me \in Process BY <1>1 DEF Process
<1>3. me.pc # "idle" BY DEF Labels, Process
<1>4. Holds(me) BY <1>3 DEF Holds, Process
<1> QED BY <1>2, <1>4, PlaceSound DEF SaveThen, Sound

\* A statement that only moves on.
LEMMA GotoSound ==
  ASSUME TypeInv, NEW p \in Procs, NEW label \in Labels, Goto(p, label),
         Holds([proc[p] EXCEPT !.pc = label])
  PROVE  ProcsSound'
<1> DEFINE me == [proc[p] EXCEPT !.pc = label, !.fresh = FALSE]
<1>1. proc[p] \in Process BY DEF TypeInv, TypeOK
<1>2. me \in Process BY <1>1 DEF Process
<1>3. me.pc # "idle" BY <1>1 DEF Labels, Process
<1>4. Holds(me) BY <1>1, <1>3 DEF Holds, Process
<1>5. proc' = [proc EXCEPT ![p] = me] BY DEF Goto
<1> QED BY <1>2, <1>4, <1>5, PlaceSound DEF Sound

----------------------------------------------------------------------------
(* The four steps of a save.                                                *)

\* A save is one of five shapes.
LEMMA SaveShape ==
  ASSUME NEW save \in Save
  PROVE  /\ save.phase = "load" /\ save.section # "general" =>
              /\ save.section \in Hosts
              /\ \/ save.object = "token" /\ save.value \in Token
                 \/ save.object = "policy" /\ save.value \in Timeouts
                 \/ save.object = "account_map" /\ save.value \in BOOLEAN
         /\ save.phase \in {"load", "reload"} /\ save.section = "general" =>
              [save EXCEPT !.phase = "reload"] \in Save
         /\ save.phase = "reload" /\ save.section # "general" =>
              save.section \in Hosts /\ save.values \in Section
         /\ save.phase \in {"truncate", "write"} =>
              save.image \in Content /\ [save EXCEPT !.phase = "write"] \in Save
<1> USE StoreAssumption DEF StoreAssumption, Save
<1>1. CASE save \in [phase: {"load"}, section: Hosts, object: {"token"}, value: Token]
  BY <1>1
<1>2. CASE save \in [phase: {"load"}, section: Hosts, object: {"policy"}, value: Timeouts]
  BY <1>2
<1>3. CASE save \in [phase: {"load"}, section: Hosts, object: {"account_map"}, value: BOOLEAN]
  BY <1>3
<1>4. CASE save \in [phase: {"reload"}, section: Hosts, values: Section]
  BY <1>4
<1>5. CASE save \in [phase: {"load", "reload"}, section: {"general"}]
  <2>1. [save EXCEPT !.phase = "reload"] \in [phase: {"load", "reload"}, section: {"general"}]
    BY <1>5
  <2> QED BY <1>5, <2>1
<1>6. CASE save \in [phase: {"truncate", "write"}, image: Content]
  <2>1. [save EXCEPT !.phase = "write"] \in [phase: {"truncate", "write"}, image: Content]
    BY <1>6
  <2> QED BY <1>6, <2>1
<1> QED BY <1>1, <1>2, <1>3, <1>4, <1>5, <1>6

\* Only the save of a running command changes.
LEMMA SaveOnly ==
  ASSUME TypeInv, NEW p \in Procs, proc[p].pc # "idle", NEW save \in Save \cup {None},
         proc' = [proc EXCEPT ![p].save = save]
  PROVE  ProcsSound'
<1> DEFINE me == [proc[p] EXCEPT !.save = save]
<1>1. proc[p] \in Process /\ Holds(proc[p]) BY DEF TypeInv, TypeOK
<1>2. me \in Process BY <1>1 DEF Process
<1>3. Holds(me) BY <1>1 DEF Holds, Process
<1> QED BY <1>2, <1>3, PlaceSound DEF Sound

\* A process that saves is running a command.
LEMMA SavingRuns ==
  ASSUME TypeInv, NEW p \in Procs, proc[p].save # None
  PROVE  proc[p].pc # "idle" /\ proc[p].save \in Save
BY DEF TypeInv, TypeOK, Process, Holds

\* A text with a section replaced is a text.
LEMMA ReplaceSection ==
  ASSUME NEW content \in Content, NEW h \in Hosts, NEW s \in Section
  PROVE  [content EXCEPT !.hosts[h] = s] \in Content
BY DEF Content

\* The credential is saved in a section of its own.
LEMMA ReplaceGeneral ==
  ASSUME NEW content \in Content
  PROVE  [content EXCEPT !.general = TRUE] \in Content
BY DEF Content

\* load_section(): the save goes on with the whole section.
LEMMA LoadSound ==
  ASSUME TypeInv, NEW p \in Procs, Load(p) PROVE ProcsSound'
<1> DEFINE save == proc[p].save
<1>1. save \in Save /\ proc[p].pc # "idle" /\ save.phase = "load" BY SavingRuns DEF Load
<1>2. CASE save.section = "general"
  <2>1. [save EXCEPT !.phase = "reload"] \in Save BY <1>1, <1>2, SaveShape
  <2> QED BY <1>1, <1>2, <2>1, SaveOnly DEF Load
<1>3. CASE save.section # "general"
  <2> DEFINE s == [file.hosts[save.section] EXCEPT ![save.object] = save.value]
             new == [phase |-> "reload", section |-> save.section, values |-> s]
  <2>1. save.section \in Hosts /\ file.hosts[save.section] \in Section
    BY <1>1, <1>3, SaveShape DEF Load, Readable, TypeInv, TypeOK, Content
  <2>2. s \in Section BY <1>1, <1>3, <2>1, SaveShape DEF Section
  <2>3. new \in Save BY <2>1, <2>2 DEF Save
  <2>4. proc' = [proc EXCEPT ![p].save = new] BY <1>3 DEF Load
  <2> QED BY <1>1, <2>3, <2>4, SaveOnly
<1> QED BY <1>2, <1>3

\* save_section(): the save goes on with the whole text.
LEMMA ReloadSound ==
  ASSUME TypeInv, NEW p \in Procs, Reload(p) PROVE ProcsSound'
<1> DEFINE save == proc[p].save
           text == IF save.section = "general" THEN [file EXCEPT !.general = TRUE]
                   ELSE [file EXCEPT !.hosts[save.section] = save.values]
<1>1. save \in Save /\ proc[p].pc # "idle" /\ save.phase = "reload" BY SavingRuns DEF Reload
<1>2. file \in Content BY DEF Reload, Readable, TypeInv, TypeOK
<1>3. text \in Content BY <1>1, <1>2, SaveShape, ReplaceGeneral, ReplaceSection
<1>4. [phase |-> "truncate", image |-> text] \in Save BY <1>3 DEF Save
<1>5. proc' = [proc EXCEPT ![p].save = [phase |-> "truncate", image |-> text]] BY DEF Reload
<1> QED BY <1>1, <1>4, <1>5, SaveOnly

\* The file is emptied.
LEMMA EmptyFileType == EmptyFile \in Content
BY DEF EmptyFile, NoSection, Content, Section

\* The file is emptied and the save goes on.
LEMMA TruncateSound ==
  ASSUME TypeInv, NEW p \in Procs, Truncate(p)
  PROVE  ProcsSound' /\ file' \in Content \cup {Garbled}
<1>1. proc[p].save \in Save /\ proc[p].pc # "idle" BY SavingRuns DEF Truncate
<1>2. [proc[p].save EXCEPT !.phase = "write"] \in Save BY <1>1, SaveShape DEF Truncate
<1> QED BY <1>1, <1>2, SaveOnly, EmptyFileType DEF Truncate

\* The text is written, or what is left of two texts is garbled.
LEMMA WriteSound ==
  ASSUME TypeInv, NEW p \in Procs, Write(p)
  PROVE  ProcsSound' /\ file' \in Content \cup {Garbled}
<1>1. proc[p].save \in Save /\ proc[p].pc # "idle" BY SavingRuns DEF Write
<1>2. file' \in Content \cup {Garbled} BY <1>1, SaveShape DEF Write, TypeInv, TypeOK
<1>3. ProcsSound' BY <1>1, SaveOnly DEF Write
<1> QED BY <1>2, <1>3

----------------------------------------------------------------------------
(* revoke_token().                                                          *)

\* A record may move to another statement with the same needs.
LEMMA SameNeeds ==
  ASSUME NEW me \in Process, Holds(me), me.pc # "idle",
         NEW other \in Process, other.pc \in {"delete", "load_old", "save_new"},
         me.pc \notin {"policy", "grant", "load_token"},
         other.pc = "save_new" => me.cmd = "ssh",
         other.cmd = me.cmd, other.host = me.host, other.result = me.result,
         other.token = me.token, other.policy = me.policy
  PROVE  Holds(other)
BY DEF Holds, OfAuthorize, OfSsh

\* Where revoke_token() goes on is a statement of the command, and nothing but
\* the statement and the kind changes.
LEMMA AfterRevokeSame ==
  ASSUME NEW me \in Process
  PROVE  /\ AfterRevoke(me) \in Process
         /\ AfterRevoke(me).pc \in {"delete", "load_old", "save_new"}
         /\ AfterRevoke(me).pc = "save_new" => me.cmd = "ssh"
         /\ AfterRevoke(me).cmd = me.cmd /\ AfterRevoke(me).host = me.host
         /\ AfterRevoke(me).result = me.result
         /\ AfterRevoke(me).token = me.token /\ AfterRevoke(me).policy = me.policy
         /\ AfterRevoke(me).save = me.save
         /\ AfterRevoke(me).dead = me.dead
<1>1. CASE me.kind = "refresh"
  <2>1. AfterRevoke(me) = [me EXCEPT !.pc = "delete"] BY <1>1 DEF AfterRevoke
  <2> QED BY <2>1 DEF Process, Labels
<1>2. CASE me.kind # "refresh" /\ me.cmd = "ssh"
  <2>1. AfterRevoke(me) = [me EXCEPT !.pc = "save_new"] BY <1>2 DEF AfterRevoke
  <2> QED BY <1>2, <2>1 DEF Process, Labels
<1>3. CASE me.kind # "refresh" /\ me.cmd # "ssh"
  <2>1. AfterRevoke(me) = [me EXCEPT !.pc = "load_old", !.kind = "refresh"]
    BY <1>3 DEF AfterRevoke
  <2> QED BY <2>1, ZenonT(60) DEF Process, Labels, Kinds
<1> QED BY <1>1, <1>2, <1>3

\* revoke_token() has a token object with a token of the kind to revoke, or goes on.
LEMMA LoadOldSound ==
  ASSUME TypeInv, NEW p \in Procs, LoadOld(p) PROVE ProcsSound'
<1> DEFINE t == Mine(p).token
<1>1. proc[p] \in Process /\ Holds(proc[p]) /\ proc[p].pc = "load_old"
  BY DEF LoadOld, At, TypeInv, TypeOK
<1>2. t \in Token \cup {None}
  BY <1>1 DEF LoadOld, Readable, Mine, TypeInv, TypeOK, Content, Section, Holds
<1>3. CASE t # None /\ t[proc[p].kind] # None
  <2> DEFINE me == [proc[p] EXCEPT !.old = t, !.pc = "revoke_old"]
  <2>1. t \in Token BY <1>2, <1>3
  <2>2. me \in Process BY <1>1, <2>1 DEF Process, Labels
  <2>3. Holds(me) BY <1>1, <1>3, <2>1 DEF Holds, Process, OfAuthorize, OfSsh
  <2>4. proc' = [proc EXCEPT ![p] = me] BY <1>3 DEF LoadOld
  <2> QED BY <2>2, <2>3, <2>4, PlaceSound DEF Sound
<1>4. CASE ~(t # None /\ t[proc[p].kind] # None)
  <2> DEFINE me == AfterRevoke(proc[p])
  <2>1. proc' = [proc EXCEPT ![p] = me] BY <1>4 DEF LoadOld
  <2>2. me \in Process BY <1>1, AfterRevokeSame
  <2>3. Holds(me) BY <1>1, <2>2, AfterRevokeSame, SameNeeds
  <2> QED BY <2>1, <2>2, <2>3, PlaceSound DEF Sound
<1> QED BY <1>3, <1>4

\* revoke_token() saves its object without the token, which was one.
LEMMA DropOldSound ==
  ASSUME TypeInv, NEW p \in Procs, proc[p].pc = "revoke_old", DropOld(p)
  PROVE  ProcsSound' /\ proc[p].old[proc[p].kind] \in Tokens
<1> DEFINE me == proc[p]
           next == AfterRevoke([me EXCEPT !.old = None])
           rest == [me.old EXCEPT ![me.kind] = None]
<1>1. me \in Process /\ Holds(me) BY DEF TypeInv, TypeOK
<1>2. me.old \in Token /\ me.old[me.kind] # None /\ me.host \in Hosts /\ me.kind \in Kinds
  BY <1>1 DEF Holds, Process
<1>3. rest \in Token BY <1>2 DEF Token, Kinds
<1>4. me.old[me.kind] \in Tokens BY <1>2 DEF Token, Kinds
<1>5. SaveThen(p, next, "token", rest, next.pc) BY DEF DropOld
<1> DEFINE off == [me EXCEPT !.old = None]
<1>6. /\ off \in Process /\ off.cmd = me.cmd /\ off.host = me.host
      /\ off.result = me.result /\ off.token = me.token /\ off.policy = me.policy
  BY <1>1 DEF Process
<1> HIDE DEF off
<1>7. /\ next \in Process /\ next.pc \in {"delete", "load_old", "save_new"}
      /\ next.pc = "save_new" => me.cmd = "ssh"
      /\ next.cmd = me.cmd /\ next.host = me.host /\ next.result = me.result
      /\ next.token = me.token /\ next.policy = me.policy
  BY <1>6, AfterRevokeSame DEF off
<1> HIDE DEF next, rest
<1> DEFINE other == [next EXCEPT !.pc = next.pc, !.save = None]
<1>8. /\ other \in Process /\ other.pc = next.pc /\ other.cmd = next.cmd
      /\ other.host = next.host /\ other.result = next.result
      /\ other.token = next.token /\ other.policy = next.policy
  BY <1>7 DEF Process
<1> HIDE DEF other
<1>9. Holds(other) BY <1>1, <1>7, <1>8, SameNeeds
<1>10. next.pc \in Labels BY <1>7 DEF Labels
<1> QED BY <1>2, <1>3, <1>4, <1>5, <1>7, <1>9, <1>10, SaveThenSound DEF other

\* A revocation leaves a sound record, and no other token becomes active.
LEMMA RevokeOldSound ==
  ASSUME TypeInv, NEW p \in Procs, RevokeOld(p)
  PROVE  /\ ProcsSound' /\ live' \subseteq live
         /\ written_off' \subseteq Tokens
<1>1. proc[p].pc = "revoke_old" /\ DropOld(p) BY DEF RevokeOld, NotRevoked, At
<1>2. ProcsSound' /\ proc[p].old[proc[p].kind] \in Tokens BY <1>1, DropOldSound
<1>3. written_off \subseteq Tokens BY DEF TypeInv, TypeOK
<1> QED BY <1>2, <1>3 DEF RevokeOld, NotRevoked

\* A save that fails ends the command, or is ignored with a token written off.
LEMMA SaveFailsSound ==
  ASSUME TypeInv, NEW p \in Procs, SaveFails(p)
  PROVE  ProcsSound' /\ written_off' \subseteq Tokens
<1>1. written_off \subseteq Tokens BY DEF TypeInv, TypeOK
<1>2. CASE proc[p].pc = "revoke_old"
  <2>1. DropOld(p) BY <1>2 DEF SaveFails, NotRevoked
  <2>2. ProcsSound' /\ proc[p].old[proc[p].kind] \in Tokens BY <1>2, <2>1, DropOldSound
  <2> QED BY <1>1, <1>2, <2>2 DEF SaveFails, NotRevoked
<1>3. CASE proc[p].pc # "revoke_old"
  <2>1. End(p, "error") /\ UNCHANGED written_off BY <1>3 DEF SaveFails
  <2>2. "error" \in Results BY DEF Results
  <2> QED BY <1>1, <2>1, <2>2, EndSound
<1> QED BY <1>2, <1>3

----------------------------------------------------------------------------
(* The other statements of a command.                                       *)

\* A process that runs has a record of the right shape.
LEMMA Runs ==
  ASSUME TypeInv, NEW p \in Procs
  PROVE  proc[p] \in Process /\ Holds(proc[p])
BY DEF TypeInv, TypeOK

\* delete_section() moves on, with nothing to write or with the text without
\* the section.
LEMMA DeleteSound ==
  ASSUME TypeInv, NEW p \in Procs, Delete(p) PROVE ProcsSound'
<1> DEFINE next == IF proc[p].cmd = "authorize" THEN "save_policy" ELSE "end"
           text == [file EXCEPT !.hosts[proc[p].host] = NoSection]
           save == [phase |-> "truncate", image |-> text]
           moved == [proc[p] EXCEPT !.pc = next]
           me == [moved EXCEPT !.save = save]
<1>1. proc[p] \in Process /\ Holds(proc[p]) /\ proc[p].pc = "delete"
  BY Runs DEF Delete, At
<1>2. next \in Labels BY DEF Labels
<1>3. Holds(moved) /\ moved \in Process
  BY <1>1, <1>2 DEF Holds, Process, Labels, OfAuthorize, OfSsh
<1>4. CASE Mine(p) = NoSection
  <2>1. Goto(p, next) BY <1>4 DEF Delete
  <2> QED BY <1>2, <1>3, <2>1, GotoSound
<1>5. CASE Mine(p) # NoSection
  <2>1. NoSection \in Section BY DEF NoSection, Section
  <2>2. file \in Content /\ proc[p].host \in Hosts
    BY <1>1 DEF Delete, Readable, TypeInv, TypeOK, Holds
  <2>3. text \in Content BY <2>1, <2>2, ReplaceSection
  <2>4. save \in Save BY <2>3 DEF Save
  <2>5. moved.pc # "idle" BY <1>1 DEF Process
  <2>6. me \in Process /\ Holds(me) BY <1>3, <2>4, <2>5, ZenonT(60) DEF Holds, Process
  <2>7. proc' = [proc EXCEPT ![p] = me] BY <1>5 DEF Delete
  <2> QED BY <2>6, <2>7, PlaceSound DEF Sound
<1> QED BY <1>4, <1>5

\* register_client() begins a save of the credential.
LEMMA RegisterSound ==
  ASSUME TypeInv, NEW p \in Procs, Register(p) PROVE ProcsSound'
<1> DEFINE save == [phase |-> "load", section |-> "general"]
           me == [proc[p] EXCEPT !.fresh = TRUE, !.save = save]
<1>1. proc[p] \in Process /\ Holds(proc[p]) BY Runs
<1>2. proc[p].pc # "idle" BY DEF Register, Requesting
<1>3. save \in Save BY DEF Save
<1>4. me \in Process /\ Holds(me) BY <1>1, <1>2, <1>3 DEF Process, Holds
<1>5. proc' = [proc EXCEPT ![p] = me] BY DEF Register
<1> QED BY <1>4, <1>5, PlaceSound DEF Sound

\* A command may take a token object and move on.
LEMMA TakesToken ==
  ASSUME TypeInv, NEW p \in Procs, NEW t \in Token, NEW fresh \in BOOLEAN,
         NEW label \in {"load_old", "load_policy"},
         proc[p].pc \in {"grant", "refresh", "load_token"},
         label = "load_policy" => proc[p].cmd = "ssh",
         proc' = [proc EXCEPT ![p] =
                    [proc[p] EXCEPT !.pc = label, !.fresh = fresh, !.token = t]]
  PROVE  ProcsSound'
<1> DEFINE me == [proc[p] EXCEPT !.pc = label, !.fresh = fresh, !.token = t]
<1>1. proc[p] \in Process /\ Holds(proc[p]) BY Runs
<1>2. label \in Labels BY DEF Labels
<1>3. me \in Process BY <1>1, <1>2 DEF Process
<1>4. Holds(me) BY <1>1 DEF Holds, Process, OfAuthorize, OfSsh
<1> QED BY <1>3, <1>4, PlaceSound DEF Sound

\* do_auth_code_grant() gives the command a token object.
LEMMA GrantSound ==
  ASSUME TypeInv, NEW p \in Procs, Grant(p) PROVE ProcsSound'
<1> DEFINE t == [access |-> issued + 1, refresh |-> issued + 2, authorized_at |-> now]
<1>1. issued \in Nat /\ now \in Nat /\ issued + 2 <= MaxTokens /\ MaxTokens \in Nat
  BY StoreAssumption DEF StoreAssumption, Grant, TypeInv, TypeOK
<1>2. t \in Token BY <1>1 DEF Token, Tokens
<1>3. proc' = [proc EXCEPT ![p] =
                 [proc[p] EXCEPT !.pc = "load_old", !.fresh = FALSE, !.token = t]]
  BY DEF Grant
<1>4. proc[p].pc = "grant" BY DEF Grant, At
<1> QED BY <1>2, <1>3, <1>4, TakesToken

\* refresh_token() replaces the access token of the object.
LEMMA RefreshSound ==
  ASSUME TypeInv, NEW p \in Procs, Refresh(p) PROVE ProcsSound'
<1> DEFINE t == [proc[p].token EXCEPT !.access = issued + 1]
<1>1. proc[p] \in Process /\ Holds(proc[p]) /\ proc[p].pc = "refresh"
  BY Runs DEF Refresh, At
<1>2. proc[p].cmd = "ssh" /\ proc[p].token \in Token BY <1>1 DEF Holds, OfSsh
<1>3. issued + 1 \in Tokens
  BY StoreAssumption DEF StoreAssumption, Refresh, TypeInv, TypeOK, Tokens
<1>4. t \in Token BY <1>2, <1>3 DEF Token
<1>5. proc' = [proc EXCEPT ![p] =
                 [proc[p] EXCEPT !.pc = "load_old", !.fresh = FALSE, !.token = t]]
  BY DEF Refresh
<1> QED BY <1>1, <1>4, <1>5, TakesToken

\* get_security_policy() gives the command a policy object.
LEMMA GetPolicySound ==
  ASSUME TypeInv, NEW p \in Procs, GetPolicy(p) PROVE ProcsSound'
<1>1. PICK t \in Timeouts : proc' = [proc EXCEPT ![p].policy = t, ![p].pc = "grant"]
  BY DEF GetPolicy
<1> DEFINE me == [proc[p] EXCEPT !.policy = t, !.pc = "grant"]
<1>2. proc[p] \in Process /\ Holds(proc[p]) /\ proc[p].pc = "policy"
  BY Runs DEF GetPolicy, At
<1>3. me \in Process BY <1>2 DEF Process, Labels
<1>4. Holds(me) BY <1>2 DEF Holds, Process, OfAuthorize, OfSsh
<1>5. proc' = [proc EXCEPT ![p] = me] BY <1>1
<1> QED BY <1>3, <1>4, <1>5, PlaceSound DEF Sound

\* A command that saves an object of its own leaves a sound record.
LEMMA SavesOwn ==
  ASSUME TypeInv, NEW p \in Procs, NEW object, NEW value,
         NEW label \in {"save_token", "end", "got"}, proc[p].pc # "idle",
         label = "save_token" => proc[p].cmd = "authorize" /\ proc[p].pc = "save_policy",
         label = "got" => proc[p].cmd = "ssh" /\ proc[p].pc = "save_new",
         label = "end" => proc[p].pc \in {"save_token", "accounts"},
         \/ object = "token" /\ value \in Token
         \/ object = "policy" /\ value \in Timeouts
         \/ object = "account_map" /\ value \in BOOLEAN,
         SaveThen(p, proc[p], object, value, label)
  PROVE  ProcsSound'
<1> DEFINE after == [proc[p] EXCEPT !.pc = label, !.save = None]
<1>1. proc[p] \in Process /\ Holds(proc[p]) BY Runs
<1>2. proc[p].host \in Hosts BY <1>1 DEF Holds
<1>3. Holds(after) BY <1>1 DEF Holds, Process, OfAuthorize, OfSsh
<1>4. label \in Labels BY DEF Labels
<1> QED BY <1>1, <1>2, <1>3, <1>4, SaveThenSound

\* The objects authorize, ssh and get_accounts save are of their classes.
LEMMA SavesSound ==
  ASSUME TypeInv, NEW p \in Procs,
         SavePolicy(p) \/ SaveToken(p) \/ SaveNew(p) \/ GetAccounts(p)
  PROVE  ProcsSound'
<1>1. proc[p] \in Process /\ Holds(proc[p]) BY Runs
<1>2. CASE SavePolicy(p)
  <2>1. proc[p].pc = "save_policy" /\ SaveThen(p, proc[p], "policy", proc[p].policy, "save_token")
    BY <1>2 DEF SavePolicy, At
  <2>2. proc[p].cmd = "authorize" /\ proc[p].policy \in Timeouts
    BY <1>1, <2>1 DEF Holds, OfAuthorize
  <2> QED BY <2>1, <2>2, SavesOwn
<1>3. CASE SaveToken(p)
  <2>1. proc[p].pc = "save_token" /\ SaveThen(p, proc[p], "token", proc[p].token, "end")
    BY <1>3 DEF SaveToken, At
  <2>2. proc[p].token \in Token BY <1>1, <2>1 DEF Holds, OfAuthorize
  <2> QED BY <2>1, <2>2, SavesOwn
<1>4. CASE SaveNew(p)
  <2>1. proc[p].pc = "save_new" /\ SaveThen(p, proc[p], "token", proc[p].token, "got")
    BY <1>4 DEF SaveNew, At
  <2>2. proc[p].cmd = "ssh" /\ proc[p].token \in Token BY <1>1, <2>1 DEF Holds, OfSsh
  <2> QED BY <2>1, <2>2, SavesOwn
<1>5. CASE GetAccounts(p)
  <2>1. proc[p].pc = "accounts" /\ SaveThen(p, proc[p], "account_map", TRUE, "end")
    BY <1>5 DEF GetAccounts, At
  <2> QED BY <2>1, SavesOwn
<1> QED BY <1>2, <1>3, <1>4, <1>5

\* find_access_token() loads a token object or ends.
LEMMA LoadTokenSound ==
  ASSUME TypeInv, NEW p \in Procs, LoadToken(p) PROVE ProcsSound'
<1>1. proc[p] \in Process /\ Holds(proc[p]) /\ proc[p].pc = "load_token"
  BY Runs DEF LoadToken, At
<1>2. proc[p].cmd = "ssh" /\ proc[p].host \in Hosts BY <1>1 DEF Holds, OfSsh
<1>3. Mine(p).token \in Token \cup {None}
  BY <1>2 DEF LoadToken, Readable, Mine, TypeInv, TypeOK, Content, Section
<1>4. CASE Mine(p).token = None
  BY <1>4, EndSound DEF LoadToken, NeedToAuthorize, Results
<1>5. CASE Mine(p).token # None
  <2> DEFINE t == Mine(p).token
  <2>1. t \in Token BY <1>3, <1>5
  <2>2. proc[p].fresh \in BOOLEAN BY <1>1 DEF Process
  <2>3. proc' = [proc EXCEPT ![p] = [proc[p] EXCEPT !.pc = "load_policy",
                                       !.fresh = proc[p].fresh, !.token = t]]
    BY <1>1, <1>5 DEF LoadToken, Process
  <2> QED BY <1>1, <1>2, <2>1, <2>2, <2>3, TakesToken
<1> QED BY <1>4, <1>5

\* A statement of oauth-ssh may be followed by another.
LEMMA SshMovesOn ==
  ASSUME TypeInv, NEW p \in Procs, NEW label \in OfSsh \ {"load_token"},
         proc[p].pc \in OfSsh \ {"load_token"}
  PROVE  Holds([proc[p] EXCEPT !.pc = label]) /\ label \in Labels
<1>1. proc[p] \in Process /\ Holds(proc[p]) BY Runs
<1> QED BY <1>1 DEF Holds, Process, OfAuthorize, OfSsh, Labels

\* A statement of oauth-ssh that goes on or gives up.
LEMMA SshGoesOn ==
  ASSUME TypeInv, NEW p \in Procs, proc[p].pc \in OfSsh \ {"load_token"},
         NEW label \in OfSsh \ {"load_token"}, Goto(p, label)
  PROVE  ProcsSound'
BY SshMovesOn, GotoSound

\* An invalid token is deleted from the object and the object saved.
LEMMA DropSound ==
  ASSUME TypeInv, NEW p \in Procs, proc[p].pc \in OfSsh \ {"load_token"},
         NEW kind \in Kinds, NEW label \in OfSsh \ {"load_token"}, Drop(p, kind, label)
  PROVE  ProcsSound'
<1> DEFINE rest == [proc[p].token EXCEPT ![kind] = None]
           mine == [proc[p] EXCEPT !.token = rest]
           after == [mine EXCEPT !.pc = label, !.save = None]
<1>1. proc[p] \in Process /\ Holds(proc[p]) BY Runs
<1>2. proc[p].cmd = "ssh" /\ proc[p].token \in Token /\ proc[p].host \in Hosts
      /\ proc[p].result = "none"
  BY <1>1 DEF Holds, OfSsh
<1>3. rest \in Token BY <1>2 DEF Token, Kinds
<1>4. SaveThen(p, mine, "token", rest, label) BY DEF Drop
<1> HIDE DEF rest
<1>5. mine \in Process BY <1>1, <1>3 DEF Process
<1>6. Holds(after) BY <1>1, <1>2, <1>3 DEF Holds, Process, OfAuthorize, OfSsh
<1>7. label \in Labels BY DEF Labels, OfSsh
<1> QED BY <1>2, <1>3, <1>4, <1>5, <1>6, <1>7, SaveThenSound

\* The rest of find_access_token() and of oauth-ssh.
LEMMA SshSound ==
  ASSUME TypeInv, NEW p \in Procs,
         LoadPolicy(p) \/ CheckAccess(p) \/ CheckRefresh(p) \/ GiveUp(p) \/ Got(p)
  PROVE  ProcsSound'
<1> USE DEF OfSsh
<1>1. "NeedToAuthorize" \in Results /\ "token" \in Results /\ {"access", "refresh"} \subseteq Kinds
  BY DEF Results, Kinds
<1>2. CASE LoadPolicy(p)
  <2>1. proc[p].pc = "load_policy" BY <1>2 DEF LoadPolicy, At
  <2>2. End(p, "NeedToAuthorize") \/ Goto(p, "check_access")
    BY <1>2 DEF LoadPolicy, NeedToAuthorize
  <2> QED BY <1>1, <2>1, <2>2, EndSound, SshGoesOn
<1>3. CASE CheckAccess(p)
  <2>1. proc[p].pc = "check_access" BY <1>3 DEF CheckAccess, At
  <2>2. Goto(p, "check_refresh") \/ Goto(p, "got") \/ Drop(p, "access", "check_refresh")
    BY <1>3 DEF CheckAccess
  <2> QED BY <1>1, <2>1, <2>2, DropSound, SshGoesOn
<1>4. CASE CheckRefresh(p)
  <2>1. proc[p].pc = "check_refresh" BY <1>4 DEF CheckRefresh, At
  <2>2. End(p, "NeedToAuthorize") \/ Goto(p, "refresh") \/ Drop(p, "refresh", "give_up")
    BY <1>4 DEF CheckRefresh, NeedToAuthorize
  <2> QED BY <1>1, <2>1, <2>2, EndSound, DropSound, SshGoesOn
<1>5. CASE GiveUp(p)
  BY <1>1, <1>5, EndSound DEF GiveUp, NeedToAuthorize
<1>6. CASE Got(p)
  <2>1. proc[p].pc = "got" BY <1>6 DEF Got, At
  <2>2. End(p, "token") \/ Goto(p, "accounts") BY <1>6 DEF Got
  <2> QED BY <1>1, <2>1, <2>2, EndSound, SshGoesOn
<1> QED BY <1>2, <1>3, <1>4, <1>5, <1>6

----------------------------------------------------------------------------
(* The invariant.                                                           *)

\* A command begins with a sound record.
LEMMA StartSound ==
  ASSUME TypeInv, NEW p \in Procs, NEW c \in Commands, NEW h \in Hosts, Start(p, c, h)
  PROVE  ProcsSound' /\ standing' \in [Hosts -> Standing] /\ commands' \in 0 .. MaxCommands
<1> DEFINE dead == IF c = "ssh" THEN 1 .. issued \ live ELSE {}
           me == [Idle("none") EXCEPT !.pc = FirstLabel[c], !.cmd = c, !.host = h,
                    !.since = standing[h], !.dead = dead]
<1>1. 1 .. issued \subseteq Tokens
  BY StoreAssumption DEF StoreAssumption, TypeInv, TypeOK, Tokens
<1>2. dead \in SUBSET Tokens BY <1>1
<1>3. standing[h] \in Standing BY DEF TypeInv, TypeOK
<1>4. proc' = [proc EXCEPT ![p] = me] BY DEF Start
<1>5. FirstLabel[c] \in Labels /\ FirstLabel[c] \in {"policy", "load_old", "load_token"}
      /\ (FirstLabel[c] = "policy" <=> c = "authorize")
      /\ (FirstLabel[c] = "load_token" <=> c = "ssh")
  BY DEF FirstLabel, Labels, Commands
<1> HIDE DEF dead
<1>6. me \in Process BY <1>2, <1>3, <1>5 DEF Idle, Process, Kinds, Results
<1>7. Holds(me) BY <1>5 DEF Holds, Idle, OfAuthorize, OfSsh
<1>8. ProcsSound' BY <1>4, <1>6, <1>7, PlaceSound DEF Sound
<1>9. standing' \in [Hosts -> Standing]
  <2>1. [standing[h] EXCEPT !.state = "pending"] \in Standing BY <1>3 DEF Standing
  <2> QED BY <2>1 DEF Start, TypeInv, TypeOK
<1>10. commands' \in 0 .. MaxCommands
  BY StoreAssumption DEF StoreAssumption, Start, TypeInv, TypeOK
<1> QED BY <1>8, <1>9, <1>10

\* A command that ends records what the user has done about the host.
LEMMA FinishSound ==
  ASSUME TypeInv, NEW p \in Procs, Finish(p)
  PROVE  ProcsSound' /\ standing' \in [Hosts -> Standing]
<1>1. proc[p] \in Process /\ Holds(proc[p]) /\ proc[p].pc = "end"
  BY Runs DEF Finish, At
<1>2. proc[p].cmd \in Commands /\ proc[p].host \in Hosts BY <1>1 DEF Holds
<1>3. ProcsSound'
  <2>1. End(p, "token") \/ End(p, "done") BY DEF Finish
  <2>2. "token" \in Results /\ "done" \in Results BY DEF Results
  <2> QED BY <2>1, <2>2, EndSound
<1>4. CASE proc[p].cmd = "ssh"
  <2>1. standing' = standing BY <1>4 DEF Finish
  <2> QED BY <1>3, <2>1 DEF TypeInv, TypeOK
<1>5. CASE proc[p].cmd = "revoke"
  <2>1. standing' = [standing EXCEPT ![proc[p].host].state = "revoked"] BY <1>5 DEF Finish
  <2>2. standing[proc[p].host] \in Standing BY <1>2 DEF TypeInv, TypeOK
  <2>3. [standing[proc[p].host] EXCEPT !.state = "revoked"] \in Standing
    BY <2>2 DEF Standing
  <2> QED BY <1>3, <2>1, <2>3 DEF TypeInv, TypeOK
<1>6. CASE proc[p].cmd = "authorize"
  <2> DEFINE s == [state |-> "granted", token |-> proc[p].token, policy |-> proc[p].policy]
  <2>1. standing' = [standing EXCEPT ![proc[p].host] = s] BY <1>6 DEF Finish
  <2>2. s \in Standing BY <1>1 DEF Process, Standing
  <2> QED BY <1>3, <2>1, <2>2 DEF TypeInv, TypeOK
<1> QED BY <1>2, <1>4, <1>5, <1>6 DEF Commands

\* The tokens of a token object, of a text and of a save under way are tokens.
LEMMA MemoryTokens ==
  ASSUME TypeInv, NEW p \in Procs
  PROVE  Memory(p) \subseteq Tokens
<1>1. \A t \in Token \cup {None} : In(t) \subseteq Tokens BY DEF In, Token
<1>2. \A c \in Content : Stored(c) \subseteq Tokens
  BY <1>1 DEF Stored, Content, Section
<1>3. proc[p] \in Process BY Runs
<1>4. InSave(proc[p].save) \subseteq Tokens
  <2> DEFINE save == proc[p].save
  <2>1. CASE save = None BY <2>1 DEF InSave
  <2>2. CASE save # None
    <3>1. save \in Save BY <1>3, <2>2 DEF Process
    <3>2. save.phase \in {"load", "reload", "truncate", "write"} BY <3>1 DEF Save
    <3>3. CASE save.phase \in {"truncate", "write"}
      BY <1>2, <2>2, <3>1, <3>3, SaveShape DEF InSave
    <3>4. CASE save.phase \in {"load", "reload"} /\ save.section = "general"
      BY <2>2, <3>4 DEF InSave
    <3>5. CASE save.phase = "reload" /\ save.section # "general"
      <4>1. save.values \in Section BY <3>1, <3>5, SaveShape
      <4> QED BY <1>1, <2>2, <3>5, <4>1 DEF InSave, Section
    <3>6. CASE save.phase = "load" /\ save.section # "general"
      <4>1. save.object = "token" => save.value \in Token BY <3>1, <3>6, SaveShape
      <4> QED BY <1>1, <2>2, <3>6, <4>1 DEF InSave
    <3> QED BY <3>2, <3>3, <3>4, <3>5, <3>6
  <2> QED BY <2>1, <2>2
<1> QED BY <1>1, <1>3, <1>4 DEF Memory, Process

\* The program starts with a sound store and no command under way.
LEMMA InitType == Init => TypeInv
<1> SUFFICES ASSUME Init PROVE TypeInv OBVIOUS
<1> USE StoreAssumption DEF StoreAssumption
<1>1. NoSection \in Section /\ Never \in Standing BY DEF NoSection, Section, Never, Standing
<1>2. KnownHost # None => KnownSection.token \in Token /\ KnownSection \in Section
  BY DEF KnownSection, Section, Token, Tokens
<1>3. file \in Content BY <1>1, <1>2 DEF Init, Content
<1>4. standing \in [Hosts -> Standing] BY <1>1, <1>2 DEF Init, Standing
<1>5. Idle("none") \in Process BY <1>1 DEF Idle, Process, Kinds, Results
<1>6. Holds(Idle("none")) BY DEF Idle, Holds, OfAuthorize, OfSsh
<1>7. issued \in 0 .. MaxTokens /\ live \subseteq 1 .. issued BY DEF Init
<1> QED BY <1>3, <1>4, <1>5, <1>6, <1>7 DEF Init, TypeInv, TypeOK

\* A step that leaves the user's intent and the clocks alone, and the file or
\* what Globus Auth knows in their types, keeps the types.
LEMMA TypesKept ==
  ASSUME TypeInv, ProcsSound', UNCHANGED outside,
         file' \in Content \cup {Garbled},
         issued' \in 0 .. MaxTokens, live' \subseteq 1 .. issued',
         standing' \in [Hosts -> Standing], written_off' \subseteq Tokens
  PROVE  TypeInv'
BY DEF TypeInv, TypeOK, ProcsSound, outside

\* The types of what a step leaves alone.
LEMMA Types ==
  ASSUME TypeInv
  PROVE  /\ file \in Content \cup {Garbled}
         /\ issued \in 0 .. MaxTokens /\ live \subseteq 1 .. issued
         /\ standing \in [Hosts -> Standing] /\ written_off \subseteq Tokens
BY DEF TypeInv, TypeOK

\* Globus Auth issues the next tokens.
LEMMA IssueType ==
  ASSUME TypeInv, NEW n \in {1, 2}, issued + n <= MaxTokens
  PROVE  /\ issued + n \in 0 .. MaxTokens
         /\ live \cup (issued + 1 .. issued + n) \subseteq 1 .. issued + n
         /\ issued + 1 .. issued + n \subseteq Tokens
BY StoreAssumption DEF StoreAssumption, TypeInv, TypeOK, Tokens

\* A save keeps the types.
LEMMA SavingType ==
  ASSUME TypeInv, NEW p \in Procs, Saving(p) PROVE TypeInv'
<1> USE Types DEF globus, history
<1>1. CASE Load(p) BY <1>1, LoadSound, TypesKept DEF Load
<1>2. CASE Reload(p) BY <1>2, ReloadSound, TypesKept DEF Reload
<1>3. CASE Truncate(p) BY <1>3, TruncateSound, TypesKept DEF Truncate
<1>4. CASE Write(p)
  <2>1. UNCHANGED <<globus, outside, history>> BY <1>4 DEF Write
  <2> QED BY <1>4, <2>1, WriteSound, TypesKept
<1>5. CASE SaveFails(p)
  <2>1. UNCHANGED <<file, globus, outside, standing>> BY <1>5 DEF SaveFails
  <2> QED BY <1>5, <2>1, SaveFailsSound, TypesKept
<1> QED BY <1>1, <1>2, <1>3, <1>4, <1>5 DEF Saving

\* A request to Globus Auth that changes what it knows keeps the types.
LEMMA RequestType ==
  ASSUME TypeInv, NEW p \in Procs, Grant(p) \/ Refresh(p) \/ ReplyLost(p) \/ RevokeOld(p)
  PROVE  TypeInv'
<1> USE Types DEF globus, history
<1>1. CASE Grant(p)
  <2>1. standing' \in [Hosts -> Standing]
    <3>1. proc[p].host \in Hosts BY <1>1, Runs DEF Grant, At, Holds
    <3>2. [standing[proc[p].host] EXCEPT !.state = "pending"] \in Standing
      BY <3>1 DEF Standing
    <3> QED BY <1>1, <3>1, <3>2 DEF Grant
  <2>2. issued' \in 0 .. MaxTokens /\ live' \subseteq 1 .. issued'
    BY <1>1, StoreAssumption DEF Grant, StoreAssumption
  <2>3. UNCHANGED <<file, outside, written_off>> BY <1>1 DEF Grant
  <2> QED BY <1>1, <2>1, <2>2, <2>3, GrantSound, TypesKept
<1>2. CASE Refresh(p)
  <2>1. issued' \in 0 .. MaxTokens /\ live' \subseteq 1 .. issued'
    BY <1>2, StoreAssumption DEF Refresh, StoreAssumption
  <2>2. UNCHANGED <<file, outside, history>> BY <1>2 DEF Refresh
  <2> QED BY <1>2, <2>1, <2>2, RefreshSound, TypesKept
<1>3. CASE ReplyLost(p)
  <2> DEFINE n == IF proc[p].pc = "grant" THEN 2 ELSE 1
  <2>1. issued + n <= MaxTokens /\ issued' = issued + n
        /\ live' = live \cup (issued + 1 .. issued + n)
        /\ written_off' = written_off \cup (issued + 1 .. issued + n)
    BY <1>3 DEF ReplyLost
  <2>2. n \in {1, 2} OBVIOUS
  <2> HIDE DEF n
  <2>3. issued' \in 0 .. MaxTokens /\ live' \subseteq 1 .. issued' /\ written_off' \subseteq Tokens
    BY <2>1, <2>2, IssueType
  <2>4. UNCHANGED <<file, outside, standing>> /\ End(p, "error") BY <1>3 DEF ReplyLost
  <2>5. ProcsSound' BY <2>4, EndSound DEF Results
  <2> QED BY <2>3, <2>4, <2>5, TypesKept
<1>4. CASE RevokeOld(p)
  <2>1. UNCHANGED <<file, issued, outside, standing>> BY <1>4 DEF RevokeOld
  <2> QED BY <1>4, <2>1, RevokeOldSound, TypesKept
<1> QED BY <1>1, <1>2, <1>3, <1>4

\* The other steps of a command keep the types.
LEMMA StepType ==
  ASSUME TypeInv, NEW p \in Procs, Step(p) PROVE TypeInv'
<1> DEFINE Local == UNCHANGED <<file, globus, outside, history>>
<1>1. ASSUME Local, ProcsSound' PROVE TypeInv'
  BY <1>1, Types, TypesKept DEF globus, history
<1>2. CASE Saving(p) BY <1>2, SavingType
<1>3. CASE Grant(p) \/ Refresh(p) \/ ReplyLost(p) \/ RevokeOld(p) BY <1>3, RequestType
<1>4. CASE Delete(p) BY <1>1, <1>4, DeleteSound DEF Delete
<1>5. CASE Register(p) BY <1>1, <1>5, RegisterSound DEF Register
<1>6. CASE CallFails(p)
  <2>1. End(p, "error") /\ Local BY <1>6 DEF CallFails
  <2> QED BY <1>1, <2>1, EndSound DEF Results
<1>7. CASE LoadOld(p) BY <1>1, <1>7, LoadOldSound DEF LoadOld
<1>8. CASE GetPolicy(p) BY <1>1, <1>8, GetPolicySound DEF GetPolicy
<1>9. CASE SavePolicy(p) \/ SaveToken(p) \/ SaveNew(p) \/ GetAccounts(p)
  BY <1>1, <1>9, SavesSound DEF SavePolicy, SaveToken, SaveNew, GetAccounts
<1>10. CASE Finish(p)
  <2>1. UNCHANGED <<file, globus, outside, written_off>> BY <1>10 DEF Finish
  <2> QED BY <1>10, <2>1, FinishSound, Types, TypesKept DEF globus
<1>11. CASE LoadToken(p) BY <1>1, <1>11, LoadTokenSound DEF LoadToken
<1>12. CASE LoadPolicy(p) \/ CheckAccess(p) \/ CheckRefresh(p) \/ GiveUp(p) \/ Got(p)
  BY <1>1, <1>12, SshSound DEF LoadPolicy, CheckAccess, CheckRefresh, GiveUp, Got
<1> QED BY <1>2, <1>3, <1>4, <1>5, <1>6, <1>7, <1>8, <1>9, <1>10, <1>11, <1>12 DEF Step

\* Every step keeps the types.
LEMMA NextType == TypeInv /\ [Next]_vars => TypeInv'
<1> SUFFICES ASSUME TypeInv, [Next]_vars PROVE TypeInv' OBVIOUS
<1>1. ASSUME NEW p \in Procs, Step(p) PROVE TypeInv' BY <1>1, StepType
<1>2. ASSUME NEW p \in Procs, Crash(p) PROVE TypeInv'
  <2>1. ProcsSound' BY <1>2, EndSound DEF Crash, Results
  <2>2. written_off' \subseteq Tokens BY <1>2, MemoryTokens, Types DEF Crash
  <2>3. events' \in 0 .. MaxEvents
    BY <1>2, StoreAssumption DEF StoreAssumption, Crash, TypeInv, TypeOK
  <2> QED BY <1>2, <2>1, <2>2, <2>3 DEF Crash, TypeInv, TypeOK, ProcsSound, globus
<1>3. ASSUME NEW p \in Procs, NEW c \in Commands, NEW h \in Hosts, Start(p, c, h) PROVE TypeInv'
  BY <1>3, StartSound DEF Start, TypeInv, TypeOK, ProcsSound, globus
<1>4. ASSUME NEW t \in live, Expire(t) PROVE TypeInv'
  <2>1. events' \in 0 .. MaxEvents
    BY <1>4, StoreAssumption DEF StoreAssumption, Expire, TypeInv, TypeOK
  <2> QED BY <1>4, <2>1 DEF Expire, TypeInv, TypeOK, history
<1>5. CASE Tick
  <2>1. now' \in 0 .. MaxTime
    BY <1>5, StoreAssumption DEF StoreAssumption, Tick, TypeInv, TypeOK
  <2> QED BY <1>5, <2>1 DEF Tick, TypeInv, TypeOK, globus, history
<1>6. CASE UNCHANGED vars
  BY <1>6 DEF vars, TypeInv, TypeOK
<1> QED BY <1>1, <1>2, <1>3, <1>4, <1>5, <1>6 DEF Next

\* The file is a file of sections or garbled, and every process is at a statement
\* of its command with objects of the classes of token.py and policy.py.
THEOREM TypeCorrect == Spec => []TypeOK
<1>1. TypeInv => TypeOK BY DEF TypeInv
<1> QED BY <1>1, InitType, NextType, PTL DEF Spec

----------------------------------------------------------------------------
(* No dead token is handed out.                                             *)

\* From here on oauth-ssh relies on the access token of its object.
Relies == {"save_new", "got", "accounts", "load_old", "revoke_old", "delete", "end"}

\* It was validated, or issued, since the command began.
Trusted(me) == me.cmd = "ssh" /\ me.pc \in Relies => me.token.access \notin me.dead

\* What was dead when a command began was issued, and stays dead.
Buried(me) == me.dead \subseteq 1 .. issued /\ me.dead \cap live = {}

DeadInv == \A p \in Procs : Trusted(proc[p]) /\ Buried(proc[p])

\* Only p steps, it forgets its dead tokens only by ending, and it relies on no
\* dead token and hands none out.
Safe(p) ==
  /\ \A q \in Procs \ {p} : proc'[q] = proc[q]
  /\ proc'[p].dead \in {proc[p].dead, {}}
  /\ Trusted(proc'[p])
  /\ proc'[p].result = "token" => proc[p].token.access \notin proc[p].dead

\* A command that ends hands out a token it relied on, or none.
LEMMA EndSafe ==
  ASSUME TypeInv, NEW p \in Procs, NEW result, End(p, result),
         result = "token" => proc[p].token.access \notin proc[p].dead
  PROVE  Safe(p)
BY DEF TypeInv, TypeOK, End, Idle, Safe, Trusted, Relies

\* A statement that neither ends the command nor touches its token.
LEMMA OnwardSafe ==
  ASSUME TypeInv, DeadInv, NEW p \in Procs, proc[p].pc # "idle", NEW me,
         proc' = [proc EXCEPT ![p] = me], me.dead = proc[p].dead, me.result = proc[p].result,
         me.cmd = proc[p].cmd, me.token = proc[p].token,
         me.cmd = "ssh" /\ me.pc \in Relies =>
           proc[p].pc \in Relies \/ me.token.access \notin me.dead
  PROVE  Safe(p)
<1>1. proc[p].result = "none" BY Runs DEF Holds
<1>2. Trusted(proc[p]) BY DEF DeadInv
<1>3. proc'[p] = me /\ \A q \in Procs \ {p} : proc'[q] = proc[q] BY DEF TypeInv, TypeOK
<1>4. Trusted(me) BY <1>2 DEF Trusted
<1> QED BY <1>1, <1>3, <1>4 DEF Safe

\* goto.
LEMMA GotoSafe ==
  ASSUME TypeInv, DeadInv, NEW p \in Procs, proc[p].pc # "idle", NEW label, Goto(p, label),
         proc[p].cmd = "ssh" /\ label \in Relies =>
           proc[p].pc \in Relies \/ proc[p].token.access \notin proc[p].dead
  PROVE  Safe(p)
<1> DEFINE me == [proc[p] EXCEPT !.pc = label, !.fresh = FALSE]
<1>1. proc[p] \in Process BY Runs
<1>2. proc' = [proc EXCEPT ![p] = me] BY DEF Goto
<1>3. me.dead = proc[p].dead /\ me.result = proc[p].result /\ me.cmd = proc[p].cmd
      /\ me.token = proc[p].token /\ me.pc = label
  BY <1>1 DEF Process
<1> HIDE DEF me
<1> QED BY <1>2, <1>3, OnwardSafe

\* save_object().
LEMMA SaveThenSafe ==
  ASSUME TypeInv, DeadInv, NEW p \in Procs, proc[p].pc # "idle", NEW mine \in Process,
         NEW object, NEW value, NEW label, SaveThen(p, mine, object, value, label),
         mine.dead = proc[p].dead, mine.result = proc[p].result, mine.cmd = proc[p].cmd,
         mine.token = proc[p].token \/ label \notin Relies,
         proc[p].cmd = "ssh" /\ label \in Relies => proc[p].pc \in Relies
  PROVE  Safe(p)
<1> DEFINE save == [phase |-> "load", section |-> proc[p].host,
                    object |-> object, value |-> value]
           me == [mine EXCEPT !.pc = label, !.fresh = FALSE, !.save = save]
<1>1. proc' = [proc EXCEPT ![p] = me] BY DEF SaveThen
<1>2. me.dead = mine.dead /\ me.result = mine.result /\ me.cmd = mine.cmd
      /\ me.token = mine.token /\ me.pc = label
  BY DEF Process
<1> HIDE DEF me
<1>3. proc[p].result = "none" BY Runs DEF Holds
<1>4. proc'[p] = me /\ \A q \in Procs \ {p} : proc'[q] = proc[q]
  BY <1>1 DEF TypeInv, TypeOK
<1>5. Trusted(proc[p]) BY DEF DeadInv
<1>6. Trusted(me) BY <1>2, <1>5 DEF Trusted
<1> QED BY <1>2, <1>3, <1>4, <1>6 DEF Safe

\* Only the save moves on.
LEMMA SaveOnlySafe ==
  ASSUME TypeInv, DeadInv, NEW p \in Procs, proc[p].pc # "idle", NEW save,
         proc' = [proc EXCEPT ![p].save = save]
  PROVE  Safe(p)
<1> DEFINE me == [proc[p] EXCEPT !.save = save]
<1>1. proc[p] \in Process BY Runs
<1>2. proc' = [proc EXCEPT ![p] = me] OBVIOUS
<1>3. me.dead = proc[p].dead /\ me.result = proc[p].result /\ me.cmd = proc[p].cmd
      /\ me.token = proc[p].token /\ me.pc = proc[p].pc
  BY <1>1 DEF Process
<1> HIDE DEF me
<1> QED BY <1>2, <1>3, OnwardSafe

\* revoke_token() leaves the new token alone.
LEMMA DropOldSafe ==
  ASSUME TypeInv, DeadInv, NEW p \in Procs, proc[p].pc = "revoke_old", DropOld(p)
  PROVE  Safe(p)
<1> DEFINE off == [proc[p] EXCEPT !.old = None]
           next == AfterRevoke(off)
           rest == [proc[p].old EXCEPT ![proc[p].kind] = None]
<1>1. proc[p] \in Process BY Runs
<1>2. off \in Process /\ off.dead = proc[p].dead /\ off.result = proc[p].result
      /\ off.cmd = proc[p].cmd /\ off.token = proc[p].token
  BY <1>1 DEF Process
<1>3. SaveThen(p, next, "token", rest, next.pc) BY DEF DropOld
<1> HIDE DEF off, rest
<1>4. next \in Process /\ next.dead = off.dead /\ next.result = off.result
      /\ next.cmd = off.cmd /\ next.token = off.token
  BY <1>2, AfterRevokeSame
<1> HIDE DEF next
<1>5. proc[p].pc \in Relies /\ proc[p].pc # "idle" BY DEF Relies
<1> QED BY <1>2, <1>3, <1>4, <1>5, SaveThenSafe

\* The steps of a save, and of a statement that cannot save.
LEMMA SavingSafe ==
  ASSUME TypeInv, DeadInv, NEW p \in Procs, Saving(p) PROVE Safe(p)
<1>1. proc[p].save # None BY DEF Saving, Load, Reload, Truncate, Write, SaveFails
<1>2. proc[p].pc # "idle" BY <1>1, SavingRuns
<1>3. CASE Load(p)
  <2>1. PICK save : proc' = [proc EXCEPT ![p].save = save] BY <1>3 DEF Load
  <2> QED BY <1>2, <2>1, SaveOnlySafe
<1>4. CASE Reload(p)
  <2>1. PICK save : proc' = [proc EXCEPT ![p].save = save] BY <1>4 DEF Reload
  <2> QED BY <1>2, <2>1, SaveOnlySafe
<1>5. CASE Truncate(p)
  <2>1. PICK save : proc' = [proc EXCEPT ![p].save = save] BY <1>5 DEF Truncate
  <2> QED BY <1>2, <2>1, SaveOnlySafe
<1>6. CASE Write(p)
  <2>1. PICK save : proc' = [proc EXCEPT ![p].save = save] BY <1>6 DEF Write
  <2> QED BY <1>2, <2>1, SaveOnlySafe
<1>7. CASE SaveFails(p)
  <2>1. CASE proc[p].pc = "revoke_old"
    <3>1. DropOld(p) BY <1>7, <2>1 DEF SaveFails, NotRevoked
    <3> QED BY <2>1, <3>1, DropOldSafe
  <2>2. CASE proc[p].pc # "revoke_old"
    BY <1>7, <2>2, EndSafe DEF SaveFails
  <2> QED BY <2>1, <2>2
<1> QED BY <1>3, <1>4, <1>5, <1>6, <1>7 DEF Saving

\* delete_section() and register_client().
LEMMA DeleteRegisterSafe ==
  ASSUME TypeInv, DeadInv, NEW p \in Procs, Delete(p) \/ Register(p) PROVE Safe(p)
<1>1. proc[p] \in Process BY Runs
<1>2. CASE Delete(p)
  <2> DEFINE next == IF proc[p].cmd = "authorize" THEN "save_policy" ELSE "end"
             save == [phase |-> "truncate", image |->
                        [file EXCEPT !.hosts[proc[p].host] = NoSection]]
             me == [proc[p] EXCEPT !.pc = next, !.save = save]
  <2>1. proc[p].pc = "delete" /\ proc[p].pc \in Relies BY <1>2 DEF Delete, At, Relies
  <2>2. CASE Mine(p) = NoSection
    <3>1. Goto(p, next) BY <1>2, <2>2 DEF Delete
    <3> QED BY <2>1, <3>1, GotoSafe
  <2>3. CASE Mine(p) # NoSection
    <3>1. proc' = [proc EXCEPT ![p] = me] BY <1>2, <2>3 DEF Delete
    <3>2. me.dead = proc[p].dead /\ me.result = proc[p].result /\ me.cmd = proc[p].cmd
          /\ me.token = proc[p].token
      BY <1>1 DEF Process
    <3> HIDE DEF me
    <3> QED BY <2>1, <3>1, <3>2, OnwardSafe
  <2> QED BY <2>2, <2>3
<1>3. CASE Register(p)
  <2> DEFINE me == [proc[p] EXCEPT !.fresh = TRUE,
                      !.save = [phase |-> "load", section |-> "general"]]
  <2>1. proc[p].pc # "idle" BY <1>3 DEF Register, Requesting
  <2>2. proc' = [proc EXCEPT ![p] = me] BY <1>3 DEF Register
  <2>3. me.dead = proc[p].dead /\ me.result = proc[p].result /\ me.cmd = proc[p].cmd
        /\ me.token = proc[p].token /\ me.pc = proc[p].pc
    BY <1>1 DEF Process
  <2> HIDE DEF me
  <2> QED BY <2>1, <2>2, <2>3, OnwardSafe
<1> QED BY <1>2, <1>3

\* A token that Globus Auth issues now was not issued when the command began.
LEMMA NewTokenSafe ==
  ASSUME TypeInv, DeadInv, NEW p \in Procs, Grant(p) \/ Refresh(p) PROVE Safe(p)
<1>1. proc[p] \in Process /\ Holds(proc[p]) BY Runs
<1>2. proc[p].dead \subseteq 1 .. issued BY DEF DeadInv, Buried
<1>3. issued \in Nat BY StoreAssumption DEF StoreAssumption, TypeInv, TypeOK
<1>4. issued + 1 \notin proc[p].dead BY <1>2, <1>3
<1>5. CASE Grant(p)
  <2>1. proc[p].pc = "grant" BY <1>5 DEF Grant, At
  <2>2. proc[p].cmd = "authorize" /\ proc[p].result = "none"
    BY <1>1, <2>1 DEF Holds, OfAuthorize
  <2>3. proc'[p].cmd = "authorize" /\ proc'[p].dead = proc[p].dead /\ proc'[p].result = "none"
        /\ \A q \in Procs \ {p} : proc'[q] = proc[q]
    BY <1>1, <1>5, <2>2 DEF Grant, Process, TypeInv, TypeOK
  <2> QED BY <2>3 DEF Safe, Trusted
<1>6. CASE Refresh(p)
  <2>1. proc[p].pc = "refresh" BY <1>6 DEF Refresh, At
  <2>2. proc[p].token \in Token /\ proc[p].result = "none"
    BY <1>1, <2>1 DEF Holds, OfSsh
  <2>3. proc'[p].token.access = issued + 1 /\ proc'[p].dead = proc[p].dead
        /\ proc'[p].result = "none" /\ \A q \in Procs \ {p} : proc'[q] = proc[q]
    BY <1>1, <1>6, <2>2 DEF Refresh, Process, Token, TypeInv, TypeOK
  <2> QED BY <1>4, <2>3 DEF Safe, Trusted
<1> QED BY <1>5, <1>6

\* revoke_token() neither validates nor replaces the token of the command.
LEMMA RevokeSafe ==
  ASSUME TypeInv, DeadInv, NEW p \in Procs, LoadOld(p) \/ RevokeOld(p) PROVE Safe(p)
<1>1. proc[p] \in Process BY Runs
<1>2. CASE RevokeOld(p)
  <2>1. proc[p].pc = "revoke_old" /\ DropOld(p) BY <1>2 DEF RevokeOld, NotRevoked, At
  <2> QED BY <2>1, DropOldSafe
<1>3. CASE LoadOld(p)
  <2> DEFINE t == Mine(p).token
             onward == [proc[p] EXCEPT !.old = t, !.pc = "revoke_old"]
  <2>1. proc[p].pc \in Relies /\ proc[p].pc # "idle" BY <1>3 DEF LoadOld, At, Relies
  <2>2. CASE t # None /\ t[proc[p].kind] # None
    <3>1. proc' = [proc EXCEPT ![p] = onward] BY <1>3, <2>2 DEF LoadOld
    <3>2. onward.dead = proc[p].dead /\ onward.result = proc[p].result
          /\ onward.cmd = proc[p].cmd /\ onward.token = proc[p].token
      BY <1>1 DEF Process
    <3> HIDE DEF onward
    <3> QED BY <2>1, <3>1, <3>2, OnwardSafe
  <2>3. CASE ~(t # None /\ t[proc[p].kind] # None)
    <3>1. proc' = [proc EXCEPT ![p] = AfterRevoke(proc[p])] BY <1>3, <2>3 DEF LoadOld
    <3> QED BY <1>1, <2>1, <3>1, AfterRevokeSame, OnwardSafe
  <2> QED BY <2>2, <2>3
<1> QED BY <1>2, <1>3

\* The objects authorize, ssh and get_accounts save leave the token alone.
LEMMA SavesSafe ==
  ASSUME TypeInv, DeadInv, NEW p \in Procs,
         SavePolicy(p) \/ SaveToken(p) \/ SaveNew(p) \/ GetAccounts(p)
  PROVE  Safe(p)
<1>1. proc[p] \in Process /\ Holds(proc[p]) BY Runs
<1>2. CASE SavePolicy(p) \/ SaveToken(p)
  <2>1. proc[p].pc \in {"save_policy", "save_token"} BY <1>2 DEF SavePolicy, SaveToken, At
  <2>2. proc[p].cmd = "authorize" BY <1>1, <2>1 DEF Holds, OfAuthorize
  <2>3. PICK object, value, label : SaveThen(p, proc[p], object, value, label)
    BY <1>2 DEF SavePolicy, SaveToken
  <2> QED BY <1>1, <2>1, <2>2, <2>3, SaveThenSafe
<1>3. CASE SaveNew(p) \/ GetAccounts(p)
  <2>1. proc[p].pc \in Relies /\ proc[p].pc # "idle"
    BY <1>3 DEF SaveNew, GetAccounts, At, Relies
  <2>2. PICK object, value, label : SaveThen(p, proc[p], object, value, label)
    BY <1>3 DEF SaveNew, GetAccounts
  <2> QED BY <1>1, <2>1, <2>2, SaveThenSafe
<1> QED BY <1>2, <1>3

\* oauth-ssh relies on an access token only once Globus Auth has found it active.
LEMMA SshSafe ==
  ASSUME TypeInv, DeadInv, NEW p \in Procs,
         \/ GetPolicy(p) \/ LoadToken(p) \/ LoadPolicy(p)
         \/ CheckAccess(p) \/ CheckRefresh(p) \/ GiveUp(p) \/ Got(p)
  PROVE  Safe(p)
<1> USE DEF Relies
<1>1. proc[p] \in Process /\ Holds(proc[p]) BY Runs
<1>2. proc[p].dead \cap live = {} BY DEF DeadInv, Buried
<1>3. Trusted(proc[p]) BY DEF DeadInv
<1>4. CASE GetPolicy(p)
  <2>1. PICK t : proc' = [proc EXCEPT ![p].policy = t, ![p].pc = "grant"]
    BY <1>4 DEF GetPolicy
  <2> DEFINE me == [proc[p] EXCEPT !.policy = t, !.pc = "grant"]
  <2>2. proc' = [proc EXCEPT ![p] = me] BY <2>1
  <2>3. me.dead = proc[p].dead /\ me.result = proc[p].result /\ me.cmd = proc[p].cmd
        /\ me.token = proc[p].token /\ me.pc = "grant"
    BY <1>1 DEF Process
  <2> HIDE DEF me
  <2> QED BY <1>4, <2>2, <2>3, OnwardSafe DEF GetPolicy, At
<1>5. CASE LoadToken(p)
  <2>1. CASE Mine(p).token = None BY <1>5, <2>1, EndSafe DEF LoadToken, NeedToAuthorize
  <2>2. CASE Mine(p).token # None
    <3>1. proc[p].pc = "load_token" BY <1>5 DEF LoadToken, At
    <3>2. proc[p].result = "none" BY <1>1, <3>1 DEF Holds
    <3>3. proc'[p].pc = "load_policy" /\ proc'[p].dead = proc[p].dead
          /\ proc'[p].result = "none" /\ \A q \in Procs \ {p} : proc'[q] = proc[q]
      BY <1>1, <1>5, <2>2, <3>2 DEF LoadToken, Process, TypeInv, TypeOK
    <3> QED BY <3>3 DEF Safe, Trusted
  <2> QED BY <2>1, <2>2
<1>6. CASE LoadPolicy(p)
  <2>1. proc[p].pc = "load_policy" BY <1>6 DEF LoadPolicy, At
  <2>2. End(p, "NeedToAuthorize") \/ Goto(p, "check_access")
    BY <1>6 DEF LoadPolicy, NeedToAuthorize
  <2> QED BY <2>1, <2>2, EndSafe, GotoSafe
<1>7. ASSUME NEW kind, NEW label, Drop(p, kind, label), label \notin Relies,
             proc[p].pc # "idle", proc[p].token \in Token, kind \in Kinds
      PROVE  Safe(p)
  <2> DEFINE rest == [proc[p].token EXCEPT ![kind] = None]
             mine == [proc[p] EXCEPT !.token = rest]
  <2>1. rest \in Token BY <1>7 DEF Token, Kinds
  <2>2. SaveThen(p, mine, "token", rest, label) BY <1>7 DEF Drop
  <2> HIDE DEF rest
  <2>3. mine \in Process /\ mine.dead = proc[p].dead /\ mine.result = proc[p].result
        /\ mine.cmd = proc[p].cmd
    BY <1>1, <2>1 DEF Process
  <2> HIDE DEF mine
  <2> QED BY <1>7, <2>2, <2>3, SaveThenSafe
<1>8. CASE CheckAccess(p)
  <2>1. proc[p].pc = "check_access" BY <1>8 DEF CheckAccess, At
  <2>2. proc[p].token \in Token BY <1>1, <2>1 DEF Holds, OfSsh
  <2>3. \/ Goto(p, "check_refresh")
        \/ Goto(p, "got") /\ proc[p].token.access \in live
        \/ Drop(p, "access", "check_refresh")
    BY <1>8 DEF CheckAccess
  <2>4. proc[p].token.access \in live => proc[p].token.access \notin proc[p].dead
    BY <1>2
  <2> QED BY <1>7, <2>1, <2>2, <2>3, <2>4, GotoSafe DEF Kinds
<1>9. CASE CheckRefresh(p)
  <2>1. proc[p].pc = "check_refresh" BY <1>9 DEF CheckRefresh, At
  <2>2. proc[p].token \in Token BY <1>1, <2>1 DEF Holds, OfSsh
  <2>3. End(p, "NeedToAuthorize") \/ Goto(p, "refresh") \/ Drop(p, "refresh", "give_up")
    BY <1>9 DEF CheckRefresh, NeedToAuthorize
  <2> QED BY <1>7, <2>1, <2>2, <2>3, EndSafe, GotoSafe DEF Kinds
<1>10. CASE GiveUp(p) BY <1>10, EndSafe DEF GiveUp, NeedToAuthorize
<1>11. CASE Got(p)
  <2>1. proc[p].pc = "got" BY <1>11 DEF Got, At
  <2>2. proc[p].cmd = "ssh" BY <1>1, <2>1 DEF Holds, OfSsh
  <2>3. proc[p].token.access \notin proc[p].dead BY <1>3, <2>1, <2>2 DEF Trusted
  <2>4. End(p, "token") \/ Goto(p, "accounts") BY <1>11 DEF Got
  <2> QED BY <2>1, <2>3, <2>4, EndSafe, GotoSafe
<1> QED BY <1>4, <1>5, <1>6, <1>8, <1>9, <1>10, <1>11

\* Every step of a command is safe.
LEMMA StepSafe ==
  ASSUME TypeInv, DeadInv, NEW p \in Procs, Step(p) PROVE Safe(p)
<1>1. CASE ReplyLost(p) BY <1>1, EndSafe DEF ReplyLost
<1>2. CASE CallFails(p) BY <1>2, EndSafe DEF CallFails
<1>3. CASE Finish(p)
  <2>1. proc[p].pc = "end" /\ End(p, IF proc[p].cmd = "ssh" THEN "token" ELSE "done")
    BY <1>3 DEF Finish, At
  <2>2. proc[p].cmd = "ssh" => proc[p].token.access \notin proc[p].dead
    BY <2>1 DEF DeadInv, Trusted, Relies
  <2> QED BY <2>1, <2>2, EndSafe
<1> QED BY <1>1, <1>2, <1>3, SavingSafe, DeleteRegisterSafe, NewTokenSafe, RevokeSafe,
           SavesSafe, SshSafe DEF Step

\* Globus Auth never takes back a revocation: only new tokens become active.
LEMMA OnlyNewTokens ==
  ASSUME TypeInv, [Next]_vars
  PROVE  issued' \in Nat /\ issued <= issued' /\ live' \subseteq live \cup (issued + 1 .. issued')
<1>1. issued \in Nat BY StoreAssumption DEF StoreAssumption, TypeInv, TypeOK
<1>2. CASE UNCHANGED globus BY <1>1, <1>2 DEF globus
<1>3. ASSUME NEW p \in Procs, Step(p)
      PROVE  \/ UNCHANGED globus
             \/ issued' = issued /\ live' \subseteq live
             \/ /\ \E n \in {1, 2} : issued' = issued + n
                /\ live' = live \cup (issued + 1 .. issued')
  <2>1. CASE Grant(p)
    <3>1. issued' = issued + 2 /\ live' = live \cup {issued + 1, issued + 2}
      BY <2>1 DEF Grant
    <3>2. issued + 1 .. issued + 2 = {issued + 1, issued + 2} BY <1>1
    <3> QED BY <3>1, <3>2
  <2>2. CASE Refresh(p)
    <3>1. issued' = issued + 1 /\ live' = live \cup {issued + 1} BY <2>2 DEF Refresh
    <3>2. issued + 1 .. issued + 1 = {issued + 1} BY <1>1
    <3> QED BY <3>1, <3>2
  <2>3. CASE ReplyLost(p)
    <3> DEFINE n == IF proc[p].pc = "grant" THEN 2 ELSE 1
    <3>1. issued' = issued + n /\ live' = live \cup (issued + 1 .. issued + n)
      BY <2>3 DEF ReplyLost
    <3> QED BY <3>1
  <2>4. CASE RevokeOld(p) BY <2>4 DEF RevokeOld
  <2>5. CASE Saving(p)
    BY <2>5 DEF Saving, Load, Reload, Truncate, Write, SaveFails
  <2> QED BY <1>3, <2>1, <2>2, <2>3, <2>4, <2>5
      DEF Step, Delete, Register, CallFails, LoadOld, GetPolicy, SavePolicy, SaveToken,
          Finish, LoadToken, LoadPolicy, CheckAccess, CheckRefresh, SaveNew, GiveUp, Got,
          GetAccounts
<1>4. ASSUME NEW p \in Procs, Crash(p) PROVE UNCHANGED globus BY <1>4 DEF Crash
<1>5. ASSUME NEW p \in Procs, NEW c \in Commands, NEW h \in Hosts, Start(p, c, h)
      PROVE  UNCHANGED globus
  BY <1>5 DEF Start
<1>6. ASSUME NEW t \in live, Expire(t) PROVE issued' = issued /\ live' \subseteq live
  BY <1>6 DEF Expire
<1>7. CASE Tick BY <1>2, <1>7 DEF Tick
<1>8. CASE UNCHANGED vars BY <1>2, <1>8 DEF vars, globus
<1> QED BY <1>1, <1>2, <1>3, <1>4, <1>5, <1>6, <1>7, <1>8 DEF Next

\* Every step keeps what oauth-ssh relies on.
LEMMA NextDead ==
  ASSUME TypeInv, DeadInv, [Next]_vars PROVE DeadInv'
<1>1. issued \in Nat BY StoreAssumption DEF StoreAssumption, TypeInv, TypeOK
<1>2. issued' \in Nat /\ issued <= issued' /\ live' \subseteq live \cup (issued + 1 .. issued')
  BY OnlyNewTokens
<1>3. ASSUME NEW D, D \subseteq 1 .. issued, D \cap live = {}
      PROVE  D \subseteq 1 .. issued' /\ D \cap live' = {}
  <2>1. \A t \in D : t \in 1 .. issued /\ t \in 1 .. issued' BY <1>1, <1>2, <1>3
  <2>2. \A t \in D : t \notin issued + 1 .. issued' BY <1>1, <1>2, <2>1
  <2> QED BY <1>2, <1>3, <2>1, <2>2
<1>4. \A q \in Procs : proc[q].dead \subseteq 1 .. issued' /\ proc[q].dead \cap live' = {}
  BY <1>3 DEF DeadInv, Buried
<1>5. ASSUME NEW p \in Procs, Safe(p) PROVE DeadInv'
  BY <1>4, <1>5 DEF DeadInv, Safe, Trusted, Buried
<1>6. ASSUME UNCHANGED proc PROVE DeadInv'
  BY <1>4, <1>6 DEF DeadInv, Trusted, Buried
<1>7. ASSUME NEW p \in Procs, Step(p) PROVE DeadInv' BY <1>5, <1>7, StepSafe
<1>8. ASSUME NEW p \in Procs, Crash(p) PROVE DeadInv'
  <2>1. Safe(p) BY <1>8, EndSafe DEF Crash
  <2> QED BY <1>5, <2>1
<1>9. ASSUME NEW p \in Procs, NEW c \in Commands, NEW h \in Hosts, Start(p, c, h) PROVE DeadInv'
  <2> DEFINE dead == IF c = "ssh" THEN 1 .. issued \ live ELSE {}
  <2>1. \A q \in Procs \ {p} : proc'[q] = proc[q] BY <1>9 DEF Start, TypeInv, TypeOK
  <2>2. proc'[p].dead = dead /\ proc'[p].cmd = c /\ proc'[p].pc = FirstLabel[c]
    BY <1>9 DEF Start, Idle, TypeInv, TypeOK
  <2>3. Trusted(proc'[p]) BY <2>2 DEF Trusted, FirstLabel, Relies, Commands
  <2>4. UNCHANGED globus BY <1>9 DEF Start
  <2> QED BY <1>4, <2>1, <2>2, <2>3, <2>4 DEF DeadInv, Trusted, Buried, globus
<1>10. ASSUME NEW t \in live, Expire(t) PROVE DeadInv' BY <1>6, <1>10 DEF Expire
<1>11. CASE Tick BY <1>6, <1>11 DEF Tick
<1>12. CASE UNCHANGED vars BY <1>6, <1>12 DEF vars
<1> QED BY <1>7, <1>8, <1>9, <1>10, <1>11, <1>12 DEF Next

\* Only a step of the command itself makes it hand out a token.
LEMMA NextHandsOut ==
  ASSUME TypeInv, DeadInv, [Next]_vars, NEW p \in Procs,
         proc[p].pc # "idle", proc'[p].result = "token"
  PROVE  proc[p].token.access \notin proc[p].dead
<1>1. proc[p].result = "none" BY Runs DEF Holds
<1>2. ASSUME NEW q \in Procs, Safe(q) PROVE proc[p].token.access \notin proc[p].dead
  BY <1>1, <1>2 DEF Safe
<1>3. ASSUME NEW q \in Procs, Step(q) PROVE proc[p].token.access \notin proc[p].dead
  BY <1>2, <1>3, StepSafe
<1>4. ASSUME NEW q \in Procs, Crash(q) PROVE proc[p].token.access \notin proc[p].dead
  <2>1. Safe(q) BY <1>4, EndSafe DEF Crash
  <2> QED BY <1>2, <2>1
<1>5. ASSUME NEW q \in Procs, NEW c \in Commands, NEW h \in Hosts, Start(q, c, h) PROVE FALSE
  <2>1. q # p BY <1>5 DEF Start
  <2>2. proc'[p] = proc[p] BY <1>5, <2>1 DEF Start, TypeInv, TypeOK
  <2> QED BY <1>1, <2>2
<1>6. ~ UNCHANGED proc BY <1>1
<1> QED BY <1>3, <1>4, <1>5, <1>6 DEF Next, Expire, Tick, vars

\* A command has no dead tokens before it begins.
LEMMA InitDead == Init => DeadInv
<1> SUFFICES ASSUME Init, NEW p \in Procs PROVE Trusted(proc[p]) /\ Buried(proc[p])
  BY DEF DeadInv
<1>1. proc[p] = Idle("none") BY DEF Init
<1>2. proc[p].pc = "idle" /\ proc[p].dead = {} BY <1>1 DEF Idle
<1> QED BY <1>2 DEF Trusted, Buried, Relies

\* oauth-ssh and show token hand out no access token that was expired or revoked
\* when they started, although a save of another command may have put it back.
THEOREM NoDeadTokenHandedOut == Spec => NoDeadToken
<1> DEFINE Now == \A p \in Procs : proc[p].pc # "idle" /\ proc'[p].result = "token" =>
                    proc[p].token.access \notin proc[p].dead
<1>1. TypeInv /\ DeadInv /\ [Next]_vars => [Now]_vars BY NextHandsOut
<1>2. TypeInv /\ DeadInv /\ [Next]_vars => DeadInv' BY NextDead
<1> HIDE DEF Now
<1>3. Spec => [][Now]_vars BY <1>1, <1>2, InitDead, InitType, NextType, PTL DEF Spec
<1> QED BY <1>3 DEF NoDeadToken, Now
=============================================================================
