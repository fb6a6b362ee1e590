------------------------------ MODULE OAuthSsh ------------------------------
(***************************************************************************)
(* A user's oauth-ssh and oauth-ssh-token against one SSH service: the      *)
(* commands of client/oauth_ssh (ssh_service.py, transport.py,              *)
(* oauth_ssh.py), the keyboard-interactive rounds of sshd, the other PAM    *)
(* modules of the stack, and pam_sm_authenticate() of PamOAuth among them.  *)
(*                                                                          *)
(* sshd keeps a PAM module's texts until the next prompt and puts them in   *)
(* front of it; after the last module they come without a prompt, as        *)
(* instructions.                                                            *)
(***************************************************************************)
EXTENDS PamOAuth, FiniteSets

CONSTANTS
  Token,           \* the access token find_access_token() has found
  LocalUser,       \* getpass.getuser()
  GlobusAccount,   \* GLOBUS_ACCOUNT, the account of the other commands
  Stacks,          \* what the other PAM modules may do
  MaxCommands      \* bound: commands the user runs

\* Before our module: nothing, a notice, or a question for a one-time code.
\* After it: pam_deny, or a question for a password.  None asks with the text of
\* our own prompt.
Stack == [before: {"silent", "notice", "code"}, after: {"deny", "password"}]

ASSUME OAuthSshAssumption ==
  /\ Token \in Tokens
  /\ LocalUser \in Accounts /\ GlobusAccount \in Accounts
  /\ None \notin Accounts /\ None \notin [accounts: SUBSET Accounts, since: Nat]
  /\ None \notin {"token", "code", "password", "nothing"}
  /\ Stacks \subseteq Stack
  /\ MaxCommands \in Nat

VARIABLES
  stack,      \* the site's other modules
  command,    \* what the user runs, and its attempt under way
  handler,    \* CmdInjectHandler
  cache,      \* the account map in the file, or None
  commands,   \* how many commands were run
  at,         \* where sshd is in the attempt
  reached,    \* our module has been called in this attempt
  said,       \* the texts sshd keeps
  round,      \* the information request the client has not answered, or NoRound
  began       \* history: events when our module was called

user_side == <<command, handler, cache, commands>>
sshd      == <<at, reached, said, round, began>>
all_vars  == <<vars, stack, user_side, sshd>>

\* The text of another module, and a question that comes without one.
Text(t) == [code |-> t, layers |-> 0]

\* No information request is open.
NoRound == [instructions |-> <<>>, lead |-> <<>>, ask |-> "nothing"]

Idle == [name |-> "none", asked |-> None, op |-> "none", account |-> None]

OAuthSshInit ==
  /\ Init
  /\ stack \in Stacks
  /\ command = Idle
  /\ handler = [state |-> 0, reply |-> <<>>]
  /\ cache = None /\ commands = 0
  /\ at = "none" /\ reached = FALSE /\ said = <<>> /\ round = NoRound /\ began = 0

----------------------------------------------------------------------------
(* CmdInjectHandler and send_command().                                     *)

Stay(h)           == [handler |-> h, sends |-> FALSE]
Send(h)           == [handler |-> [h EXCEPT !.state = 1], sends |-> TRUE]
TakeReply(h, rep) == Stay([state |-> 0, reply |-> rep])

\* prompt_list[0][0] == PROMPT: the whole string, the texts in front included.
IsPrompt(r) == r.ask = "token" /\ r.lead = <<>>

\* The first line of the prompt.
FirstLine(r) == IF r.lead = <<>> THEN <<Text(r.ask)>> ELSE <<Head(r.lead)>>

\* Three plausible slips: any prompt is answered with the command, the whole
\* prompt is taken for the reply, and the state is counted up.
HandleAnyPrompt(h, r) ==
  IF h.state = 0
    THEN IF r.ask # None THEN Send(h) ELSE Stay(h)
    ELSE TakeReply(h, IF r.instructions # <<>> THEN r.instructions
                      ELSE IF r.ask # None THEN FirstLine(r) ELSE h.reply)

HandleWholePrompt(h, r) ==
  IF h.state = 0
    THEN IF IsPrompt(r) THEN Send(h) ELSE Stay(h)
    ELSE TakeReply(h, IF r.instructions # <<>> THEN r.instructions
                      ELSE IF r.ask # None THEN Append(r.lead, Text(r.ask)) ELSE h.reply)

HandleCounting(h, r) ==
  IF h.state = 0
    THEN IF IsPrompt(r) THEN Send(h) ELSE Stay(h)
    ELSE Stay([state |-> h.state + 1, reply |-> IF r.instructions # <<>> THEN r.instructions
                                                ELSE IF r.ask # None THEN FirstLine(r) ELSE h.reply])

\* One call of the handler: whether it hands over the command, and what it is
\* afterwards.  A reply once taken stays if a later round has none.
Handle(h, r) ==
  IF h.state = 0
    THEN IF IsPrompt(r) THEN Send(h) ELSE Stay(h)
    ELSE TakeReply(h, IF r.instructions # <<>> THEN r.instructions
                      ELSE IF r.ask # None THEN FirstLine(r) ELSE h.reply)

\* decode_reply() undoes one base64 encoding and parses JSON.
Decodable(rep) == Len(rep) = 1 /\ Head(rep).layers = 1

ErrorOutcome(code) ==
  CASE code = "SESSION_VIOLATION" -> "SessionViolation"
    [] code = "INVALID_TOKEN" -> "InvalidToken"
    [] OTHER -> "UnexpectedSSHReply"

\* Transport.send_command() once the attempt has ended.
SendCommandOutcome ==
  IF at = "accepted" THEN "channel"
  ELSE IF handler.reply = <<>> THEN "AuthorizationFailure"
  ELSE IF ~Decodable(handler.reply) THEN "UnexpectedSSHReply"
  ELSE IF Head(handler.reply).code \in ErrorCodes THEN ErrorOutcome(Head(handler.reply).code)
  ELSE "reply"

----------------------------------------------------------------------------
(* The user's commands.                                                     *)

\* A new Transport, and auth_interactive() for the account.
Open(name, asked, op, account) ==
  /\ command' = [name |-> name, asked |-> asked, op |-> op, account |-> account]
  /\ handler' = [state |-> 0, reply |-> <<>>]
  /\ at' = "before" /\ reached' = FALSE /\ said' = <<>> /\ round' = NoRound
  /\ UNCHANGED <<stack, began>>

End ==
  /\ command' = Idle
  /\ handler' = [state |-> 0, reply |-> <<>>]
  /\ at' = "none" /\ reached' = FALSE /\ said' = <<>> /\ round' = NoRound
  /\ UNCHANGED <<stack, began>>

\* A plausible slip: the local user's name is taken without a look at the map.
ChooseLocalUser(accounts) == IF accounts # {} THEN LocalUser ELSE None

\* Implicit account settings.
Choose(accounts) ==
  IF LocalUser \in accounts THEN LocalUser
  ELSE IF Cardinality(accounts) = 1 THEN CHOOSE a \in accounts : TRUE
  ELSE None

LoginWith(accounts) ==
  LET account == Choose(accounts) IN
  IF account = None THEN End                 \* could not determine the account
                    ELSE Open("ssh", None, "login", account)

Starts ==
  /\ command = Idle
  /\ commands < MaxCommands
  /\ commands' = commands + 1
  /\ UNCHANGED <<vars, cache>>

\* oauth-ssh-token authorize asks for the policy of the site.
AskPolicy == Starts /\ Open("policy", None, "get_security_policy", GlobusAccount)

\* oauth-ssh-token show accounts without a cached map.
ShowAccounts ==
  cache = None /\ Starts /\ Open("accounts", None, "get_account_map", GlobusAccount)

\* oauth-ssh, with an account on the command line or without.
OAuthSshTo(account) == Starts /\ Open("ssh", account, "login", account)

OAuthSsh ==
  /\ Starts
  /\ IF cache = None THEN Open("ssh", None, "get_account_map", GlobusAccount)
                     ELSE LoginWith(cache.accounts)

\* The handler answers the round: with the command, or with nothing.  Without an
\* answer to a question sshd ends the attempt, and the module its prompt.
Answered(handled) ==
  /\ handler' = handled.handler
  /\ round' = NoRound
  /\ \/ /\ handled.sends /\ at = "ours"
        /\ Receive([op |-> command.op,
                    token |-> IF command.op = "get_security_policy" THEN None ELSE Token])
        /\ UNCHANGED at
     \/ /\ round.ask # None /\ ~(handled.sends /\ at = "ours")
        /\ at' = "failed"
        /\ IF pc = "prompt" THEN HangUp ELSE UNCHANGED vars
     \/ /\ round.ask = None
        /\ UNCHANGED <<vars, at>>
  /\ UNCHANGED <<stack, command, cache, commands, reached, said, began>>

\* A plausible slip: a round in which the handler finds nothing for it is left
\* for the user.
AnswerRoundIfAny ==
  /\ round # NoRound
  /\ Handle(handler, round) # Stay(handler)
  /\ Answered(Handle(handler, round))

\* auth_interactive() calls the handler.
AnswerRound == round # NoRound /\ Answered(Handle(handler, round))

Over == command # Idle /\ at \in {"failed", "accepted"} /\ round = NoRound

\* send_command() has returned a reply to op.
RepliedTo(op) == command.op = op /\ SendCommandOutcome = "reply"

\* send_command() returns or raises, and the command goes on.  authorize, if the
\* user grants it, deletes the section of the host with the cached map in it.
EndAttempt ==
  /\ Over
  /\ IF RepliedTo("get_account_map")
       THEN LET accounts == Head(handler.reply).permitted_accounts IN
            /\ cache' = [accounts |-> accounts, since |-> began]
            /\ IF command.name = "ssh" THEN LoginWith(accounts) ELSE End
       ELSE /\ End
            /\ \/ UNCHANGED cache
               \/ RepliedTo("get_security_policy") /\ cache' = None
  /\ UNCHANGED <<vars, commands>>

Client ==
  \/ AskPolicy \/ ShowAccounts \/ (\E a \in Accounts : OAuthSshTo(a)) \/ OAuthSsh
  \/ AnswerRound \/ EndAttempt

----------------------------------------------------------------------------
(* sshd, the other modules, and ours.                                       *)

Question(q) == [instructions |-> <<>>, lead |-> said, ask |-> q]

\* The modules in front of ours.
CallOthers ==
  /\ at = "before" /\ round = NoRound
  /\ CASE stack.before = "silent" -> at' = "ours" /\ UNCHANGED <<said, round>>
       [] stack.before = "notice" -> at' = "ours" /\ said' = <<Text("notice")>> /\ UNCHANGED round
       [] stack.before = "code"   -> round' = Question("code") /\ UNCHANGED <<at, said>>
  /\ UNCHANGED <<vars, stack, user_side, reached, began>>

CallOurs ==
  /\ at = "ours" /\ ~reached
  /\ Begin(command.account)
  /\ reached' = TRUE /\ began' = events
  /\ UNCHANGED <<stack, user_side, at, said, round>>

\* _read_user_request()
AskToken ==
  /\ at = "ours" /\ reached /\ pc = "prompt" /\ round = NoRound
  /\ round' = Question("token") /\ said' = <<>>
  /\ UNCHANGED <<vars, stack, user_side, at, reached, began>>

Serve ==
  /\ pc \in Serving /\ Login
  /\ UNCHANGED <<stack, user_side, sshd>>

Say ==
  /\ SendReply
  /\ said' = IF wire' = None THEN said ELSE Append(said, wire')
  /\ UNCHANGED <<stack, user_side, at, reached, round, began>>

\* The control value decides: success=done maxtries=die default=ignore.  A
\* module that died takes the connection with it.
Returned ==
  /\ at = "ours" /\ reached /\ pc = "idle" /\ round = NoRound
  /\ CASE status = "SUCCESS" ->
            at' = "accepted" /\ said' = <<>>
            /\ round' = [instructions |-> <<>>, lead |-> <<>>, ask |-> None]
       [] status = "KILLED" -> at' = "failed" /\ UNCHANGED <<said, round>>
       [] status # "SUCCESS" /\ status # "KILLED" /\ status # "MAXTRIES"
            /\ stack.after = "password" ->
            at' = "after" /\ round' = Question("password") /\ said' = <<>>
       [] OTHER ->
            /\ at' = "failed" /\ said' = <<>>
            /\ round' = IF said = <<>> THEN NoRound
                        ELSE [instructions |-> said, lead |-> <<>>, ask |-> None]
  /\ UNCHANGED <<vars, stack, user_side, reached, began>>

Server == CallOthers \/ CallOurs \/ AskToken \/ Serve \/ Say \/ Returned

OAuthSshNext == Client \/ Server \/ (Outside /\ UNCHANGED <<stack, user_side, sshd>>)

\* The client does not stop in the middle of a command.  The server goes on: a
\* call of the module returns, fails, or ends with LoginGraceTime (Killed).
\* Nothing is assumed of prompts: sshd waits for an answer.
OAuthSshSpec ==
  /\ OAuthSshInit /\ [][OAuthSshNext]_all_vars
  /\ WF_all_vars(AnswerRound \/ EndAttempt)
  /\ WF_all_vars(Server)

----------------------------------------------------------------------------
ClientTypeOK ==
  /\ stack \in Stacks
  /\ command.name \in {"none", "policy", "accounts", "ssh"}
  /\ command.account \in Accounts \cup {None}
  /\ handler.state \in {0, 1}
  /\ \A k \in DOMAIN handler.reply : handler.reply[k].layers \in 0 .. 2
  /\ cache # None => cache.accounts \subseteq LocalAccounts
  /\ at \in {"none", "before", "ours", "after", "failed", "accepted"}

\* The command, with the token in it, is handed over only when our module asks
\* for it, once per attempt: to no other module of the stack, and not again.
TokenToOurPromptOnly ==
  [][handler.state = 0 /\ handler'.state = 1 =>
       at = "ours" /\ pc = "prompt" /\ pc' # "prompt" /\ handler.reply = <<>>]_all_vars

\* What our module has sent in this attempt.
Sent == IF reached THEN wire ELSE None

\* What send_command() returns or raises is what our module has decided in this
\* attempt: a channel for a success, each reply that was encoded once for what
\* it says, and no other module's text for a reply.
OutcomeIsOurs ==
  Over =>
    /\ SendCommandOutcome = "channel" <=> reached /\ status = "SUCCESS"
    /\ Sent = None => SendCommandOutcome \in {"channel", "AuthorizationFailure", "UnexpectedSSHReply"}
    /\ Sent # None /\ Sent.layers = 1 =>
         SendCommandOutcome =
           CASE Sent.code = "SESSION_VIOLATION" -> "SessionViolation"
             [] Sent.code = "INVALID_TOKEN" -> "InvalidToken"
             [] Sent.code \in {"POLICY", "ACCOUNT_MAP"} -> "reply"
             [] OTHER -> "UnexpectedSSHReply"
    /\ SendCommandOutcome = "reply" =>
         Sent.code = IF command.op = "get_security_policy" THEN "POLICY" ELSE "ACCOUNT_MAP"

\* An account that oauth-ssh chooses from the map the service has given is not
\* refused as unmapped, unless something has changed since: get_account_map and
\* login see the same mappings.
OfferedAccountsAccepted ==
  Over /\ command.op = "login" /\ command.asked = None
       /\ Sent # None /\ Sent.code = "INVALID_ACCOUNT" => events > cache.since

\* Every command ends, whatever the stack asks and whatever the calls do: the
\* client and sshd never wait for each other.
CommandEnds == command # Idle ~> command = Idle

\* README.md: a login that no longer meets the policy of the site is answered
\* "The access token no longer meets this site's security policy requirements."
\* (class SessionViolation).
SessionViolationReported ==
  Over /\ Sent # None =>
    (Sent.code = "SESSION_VIOLATION" => SendCommandOutcome = "SessionViolation")
=============================================================================
