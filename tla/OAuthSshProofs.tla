---------------------------- MODULE OAuthSshProofs ----------------------------
(***************************************************************************)
(* Theorems about OAuthSsh: the module keeps its contract when sshd calls   *)
(* it among other modules and CmdInjectHandler answers it, the token goes   *)
(* to its prompt only, and what the client makes of an attempt is what the  *)
(* module decided.  SysInv says how far the handler, sshd and the module    *)
(* may be apart; the proofs of PamOAuth are used as they are.               *)
(***************************************************************************)
EXTENDS OAuthSsh, LoginContractProofs, FiniteSetTheorems

ClientOps == {"get_security_policy", "get_account_map", "login"}

\* What sshd may hold: replies of our module and texts of the others.
Message == Reply(1 .. 2) \cup {Text(t) : t \in {"notice", "code", "token", "password"}}

Places == {"none", "before", "ours", "after", "failed", "accepted"}

\* A command is under way exactly while sshd has an attempt.
CommandKnown ==
  /\ command.op \in ClientOps \cup {"none"}
  /\ at = "none" <=> command.op = "none"
  /\ at # "none" => command.account \in Accounts
  /\ cache # None => cache.accounts \subseteq Accounts

TextsKnown ==
  /\ handler \in [state: {0, 1}, reply: Seq(Message)]
  /\ said \in Seq(Message)
  /\ round # NoRound => round.lead \in Seq(Message) /\ round.instructions \in Seq(Message)

\* Who has asked the question the client has not answered.
AskedBy(r) ==
  \/ at = "before" /\ r.ask = "code"
  \/ at = "ours" /\ reached /\ pc = "prompt" /\ r.ask = "token"
  \/ at = "after" /\ r.ask = "password"
  \/ at \in {"accepted", "failed"} /\ reached /\ r.ask = None

\* Where sshd is tells what our module has done.
Phase ==
  /\ stack \in Stack /\ at \in Places /\ reached \in BOOLEAN
  /\ pc # "idle" => at = "ours" /\ reached /\ status # "KILLED"
  /\ at \in {"none", "before"} => ~reached
  /\ at \in {"after", "accepted"} => reached
  /\ at = "accepted" => status = "SUCCESS" /\ wire = None
  /\ at \in {"after", "failed"} /\ reached => status # "SUCCESS"
  /\ round # NoRound => AskedBy(round)

Wired == IF wire = None THEN <<>> ELSE <<wire>>

\* A reply travels from the module through sshd to the handler.
Exchange ==
  /\ ~reached => handler.state = 0 /\ handler.reply = <<>>
  /\ at = "ours" \/ round # NoRound => handler.reply = <<>>
  /\ at = "ours" /\ reached /\ pc # "idle" => wire = None
  /\ at = "ours" /\ reached /\ handler.state = 0 => pc \in {"idle", "prompt"} /\ wire = None
  /\ at = "ours" /\ reached /\ handler.state = 1 => pc # "prompt" /\ said = Wired
  /\ at = "ours" /\ reached /\ pc = "idle" /\ status = "SUCCESS" => wire = None
  /\ at = "ours" /\ reached /\ pc = "idle" /\ status = "KILLED" => wire = None
  /\ at = "ours" /\ round # NoRound => said = <<>>
  /\ round # NoRound /\ round.ask # None => round.instructions = <<>>
  /\ at \in {"after", "failed", "accepted"} /\ reached /\ round # NoRound =>
       IF handler.state = 0 THEN wire = None
       ELSE (IF at = "after" THEN round.lead ELSE round.instructions) = Wired

Replied ==
  \/ Sent = None /\ handler.reply \in {<<>>, <<Text("password")>>}
  \/ Sent # None /\ handler.reply = <<Sent>>

\* A reply fits the command it answers.
Fits(rep, op) ==
  rep # None => /\ rep.code = "POLICY" => op = "get_security_policy"
                /\ rep.code = "ACCOUNT_MAP" => op = "get_account_map"

Answers ==
  /\ pc \in Serving \cup {"reply"} => request.op = command.op
  /\ pc = "reply" => Fits(reply, command.op)
  /\ reached => Fits(wire, command.op)
  /\ Over => Replied

SysInv == CommandKnown /\ TextsKnown /\ Phase /\ Exchange /\ Answers

IInv == TypeInv /\ OutcomeInv /\ SysInv

----------------------------------------------------------------------------
(* The steps of our module, as the others see them.                         *)

\* pam_status of a command that was decided.
Decided == {"SUCCESS", "AUTH_ERR", "AUTHINFO_UNAVAIL", "MAXTRIES"}

\* A command in the middle of its calls goes on, is decided or dies; it sends
\* nothing, and what it decides fits the request.
LEMMA ServeStep ==
  ASSUME TypeInv, OutcomeInv, pc \in Serving, Login
  PROVE  /\ pc' \in Serving \cup {"reply", "idle"}
         /\ wire' = wire
         /\ pc' # "idle" => request' = request /\ status' \in Decided \cup {status}
         /\ pc' = "idle" => status' = "KILLED"
         /\ pc' = "reply" => Fits(reply', request.op)
<1>1. pc \notin {"idle", "prompt", "reply"}
  BY DEF Serving
<1>2. reply = None
  BY <1>1 DEF OutcomeInv
<1>3. ASSUME NEW st \in Decided, NEW code \in ErrorCodes,
             NEW rep \in {None, ErrorReply(code), Encode(ErrorReply(code))}, Answer(st, rep)
      PROVE  /\ pc' = "reply" /\ wire' = wire /\ request' = request /\ status' = st
             /\ Fits(reply', request.op)
  <2>1. rep # None => rep.code = code
    BY <1>3 DEF ErrorReply, Encode
  <2> QED BY <1>3, <2>1 DEF Answer, Fits, ErrorCodes
<1>4. CASE Introspect \/ GetClient \/ GetIdentities
  BY <1>4 DEF Introspect, GetClient, GetIdentities, Continue, Serving
<1>5. CASE IntrospectInactive \/ IntrospectFails \/ GetClientFails \/ GetIdentitiesFails
  BY <1>3, <1>5 DEF IntrospectInactive, IntrospectFails, GetClientFails, GetIdentitiesFails,
      ErrorCodes, Decided
<1>6. CASE ValidateToken
  BY <1>3, <1>6 DEF ValidateToken, Continue, ErrorCodes, Decided, Serving
<1>7. CASE CheckSession
  BY <1>3, <1>7 DEF CheckSession, Continue, ErrorCodes, Decided, Serving
<1>8. CASE \E f \in MapFiles : ReadMapFile(f)
  BY <1>8 DEF ReadMapFile, Continue, Serving
<1>9. CASE MapAccounts
  <2>1. PICK accts : UseMap(accts)
    BY <1>9 DEF MapAccounts
  <2>2. CASE request.op = "get_account_map"
    BY <2>1, <2>2 DEF UseMap, Answer, Fits, Decided
  <2>3. CASE request.op # "get_account_map"
    BY <1>3, <2>1, <2>3 DEF UseMap, ErrorCodes, Decided
  <2> QED BY <2>2, <2>3
<1>10. CASE VerifySciToken \/ VerifySciTokenFails
  BY <1>3, <1>10 DEF VerifySciToken, VerifySciTokenFails, ErrorCodes, Decided
<1>11. CASE VerifySciTokenCrashes \/ Killed
  BY <1>11 DEF VerifySciTokenCrashes, Killed, Return
<1> QED BY <1>1, <1>4, <1>5, <1>6, <1>7, <1>8, <1>9, <1>10, <1>11
    DEF Login, Begin, HangUp, Receive, SendReply

\* The command that answers the prompt is served or decided.
LEMMA ReceiveStep ==
  ASSUME TypeInv, OutcomeInv, NEW q, Receive(q)
  PROVE  /\ pc = "prompt" /\ pc' \in Serving \cup {"reply"}
         /\ wire' = wire /\ request' = q /\ status' \in Decided \cup {status}
         /\ pc' = "reply" => Fits(reply', q.op)
<1>1. reply = None
  BY DEF Receive, OutcomeInv
<1>2. Encode(ErrorReply("UNKNOWN_COMMAND")).code = "UNKNOWN_COMMAND"
  BY DEF ErrorReply, Encode
<1> QED BY <1>1, <1>2 DEF Receive, Fits, Serving, Decided

\* _send_our_reply() sends the reply decided, or nothing; nothing after a success.
LEMMA SendStep ==
  ASSUME TypeInv, OutcomeInv, SendReply
  PROVE  /\ pc = "reply" /\ pc' = "idle" /\ status' = status
         /\ wire' # None => wire' \in Reply(1 .. 2)
         /\ status = "SUCCESS" => wire' = None
         /\ \A op : Fits(reply, op) => Fits(wire', op)
<1>1. reply # None => Encode(reply) \in Reply(1 .. 2) /\ Encode(reply).code = reply.code
  <2> SUFFICES ASSUME reply # None
               PROVE  Encode(reply) \in Reply(1 .. 2) /\ Encode(reply).code = reply.code
    OBVIOUS
  <2>1. reply \in Reply(0 .. 1)
    BY DEF TypeInv, TypeOK
  <2>2. Encode(reply).code = reply.code
    BY <2>1 DEF Reply, Encode
  <2> QED BY <2>1, <2>2, EncodeType
<1>2. pc = "reply" /\ pc' = "idle" /\ status' = status
  BY DEF SendReply, Return
<1>3. status = "SUCCESS" => reply = None
  BY <1>2 DEF OutcomeInv
<1>4. wire' = None \/ (reply # None /\ wire' = Encode(reply))
  BY DEF SendReply
<1> QED BY <1>1, <1>2, <1>3, <1>4 DEF Fits

\* Nothing outside of an attempt is seen by sshd or the client.
LEMMA OutsideStep ==
  ASSUME Outside PROVE UNCHANGED <<pc, request, status, reply, wire>>
  BY DEF Outside, Tick, Deactivate, Link, Unlink, Authenticate, EditMap, EditConf,
         Register, Event, Becomes

----------------------------------------------------------------------------
(* What the client makes of a reply.                                        *)

\* A decodable reply that is no error is the answer to the command; a reply the
\* client can read is one our module has sent.
LEMMA ReplyRead ==
  ASSUME TypeInv, SysInv, Over, handler.reply # <<>>, Decodable(handler.reply)
  PROVE  /\ Sent # None /\ Head(handler.reply) = Sent /\ Sent \in Reply(1 .. 2)
         /\ Sent.code \notin ErrorCodes =>
              \/ Sent.code = "POLICY" /\ command.op = "get_security_policy"
              \/ /\ Sent.code = "ACCOUNT_MAP" /\ command.op = "get_account_map"
                 /\ Sent.permitted_accounts \subseteq Accounts
<1>1. handler.reply # <<Text("password")>>
  BY DEF Decodable, Text
<1>2. Sent # None /\ handler.reply = <<Sent>>
  BY <1>1 DEF SysInv, Answers, Replied
<1>3. Head(handler.reply) = Sent
  BY <1>2
<1>4. reached /\ Sent = wire /\ wire # None
  BY <1>2 DEF Sent
<1>5. Sent \in Reply(1 .. 2)
  BY <1>4 DEF TypeInv, TypeOK
<1>6. Sent.code \notin ErrorCodes =>
        \/ Sent.code = "POLICY"
        \/ Sent.code = "ACCOUNT_MAP" /\ Sent.permitted_accounts \subseteq Accounts
  BY <1>5 DEF Reply
<1>7. Fits(Sent, command.op)
  BY <1>4 DEF SysInv, Answers
<1> QED BY <1>2, <1>3, <1>5, <1>6, <1>7 DEF Fits

\* The account that is chosen from a map is one of its accounts.
LEMMA ChosenAccount ==
  ASSUME NEW accounts, Choose(accounts) # None PROVE Choose(accounts) \in accounts
<1>1. Cardinality(accounts) = 1 => (CHOOSE a \in accounts : TRUE) \in accounts
  <2> SUFFICES ASSUME Cardinality(accounts) = 1 PROVE (CHOOSE a \in accounts : TRUE) \in accounts
    OBVIOUS
  <2>1. accounts # {}
    BY FS_EmptySet
  <2> QED BY <2>1
<1> QED BY <1>1 DEF Choose

----------------------------------------------------------------------------
(* The steps of the client.                                                 *)

\* A new attempt starts from nothing.
LEMMA OpenStep ==
  ASSUME SysInv, pc = "idle", UNCHANGED vars,
         NEW name, NEW asked, NEW op \in ClientOps, NEW account \in Accounts,
         Open(name, asked, op, account), cache' # None => cache'.accounts \subseteq Accounts
  PROVE  SysInv'
<1>1. CommandKnown'
  BY DEF CommandKnown, Open, ClientOps
<1>2. TextsKnown'
  BY DEF TextsKnown, Open
<1>3. Phase'
  BY DEF SysInv, Phase, Open, Places, vars
<1>4. Exchange'
  BY <1>3 DEF Phase, Exchange, Open
<1>5. Answers'
  BY DEF Answers, Open, vars, Over, Serving
<1> QED BY <1>1, <1>2, <1>3, <1>4, <1>5 DEF SysInv

\* After a command nothing is left of its attempt.
LEMMA EndStep ==
  ASSUME SysInv, pc = "idle", UNCHANGED vars, End,
         cache' # None => cache'.accounts \subseteq Accounts
  PROVE  SysInv'
<1>1. CommandKnown'
  BY DEF CommandKnown, End, Idle, ClientOps
<1>2. TextsKnown'
  BY DEF TextsKnown, End
<1>3. Phase'
  BY DEF SysInv, Phase, End, Places, vars
<1>4. Exchange'
  BY <1>3 DEF Phase, Exchange, End
<1>5. Answers'
  BY DEF Answers, End, vars, Over, Serving
<1> QED BY <1>1, <1>2, <1>3, <1>4, <1>5 DEF SysInv

\* So does a login with an account from the map, or none.
LEMMA LoginWithStep ==
  ASSUME SysInv, pc = "idle", UNCHANGED vars,
         NEW accounts, accounts \subseteq Accounts, LoginWith(accounts),
         cache' # None => cache'.accounts \subseteq Accounts
  PROVE  SysInv'
<1>1. CASE Choose(accounts) = None
  BY <1>1, EndStep DEF LoginWith
<1>2. CASE Choose(accounts) # None
  BY <1>2, ChosenAccount, OpenStep DEF LoginWith, ClientOps
<1> QED BY <1>1, <1>2

\* A command is started when the last one is over.
LEMMA StartsIdle ==
  ASSUME SysInv, Starts PROVE pc = "idle"
  BY DEF SysInv, CommandKnown, Phase, Starts, Idle

\* A command that begins finds no attempt under way, and leaves the module alone.
LEMMA CommandStep ==
  ASSUME SysInv, AskPolicy \/ ShowAccounts \/ (\E a \in Accounts : OAuthSshTo(a)) \/ OAuthSsh
  PROVE  SysInv' /\ UNCHANGED vars
<1>1. Starts
  BY DEF AskPolicy, ShowAccounts, OAuthSshTo, OAuthSsh
<1>2. /\ pc = "idle" /\ UNCHANGED <<vars, cache>>
      /\ cache' # None => cache'.accounts \subseteq Accounts
  BY <1>1, StartsIdle DEF Starts, SysInv, CommandKnown
<1>3. GlobusAccount \in Accounts
  BY OAuthSshAssumption DEF OAuthSshAssumption
<1>4. CASE AskPolicy
  BY <1>2, <1>3, <1>4, OpenStep DEF AskPolicy, ClientOps
<1>5. CASE ShowAccounts
  BY <1>2, <1>3, <1>5, OpenStep DEF ShowAccounts, ClientOps
<1>6. CASE \E a \in Accounts : OAuthSshTo(a)
  BY <1>2, <1>6, OpenStep DEF OAuthSshTo, ClientOps
<1>7. CASE OAuthSsh
  <2>1. CASE cache = None
    BY <1>2, <1>3, <1>7, <2>1, OpenStep DEF OAuthSsh, ClientOps
  <2>2. CASE cache # None
    BY <1>2, <1>7, <2>2, LoginWithStep DEF OAuthSsh, SysInv, CommandKnown
  <2> QED BY <2>1, <2>2
<1> QED BY <1>2, <1>4, <1>5, <1>6, <1>7

\* The end of an attempt leaves the module alone, also where oauth-ssh goes on to log in.
LEMMA EndAttemptStep ==
  ASSUME TypeInv, SysInv, EndAttempt PROVE SysInv' /\ UNCHANGED vars
<1>1. pc = "idle" /\ UNCHANGED vars /\ Over
  BY DEF EndAttempt, Over, SysInv, Phase
<1>2. CASE RepliedTo("get_account_map")
  <2> DEFINE accounts == Head(handler.reply).permitted_accounts
  <2>1. /\ handler.reply # <<>> /\ Decodable(handler.reply)
        /\ Head(handler.reply).code \notin ErrorCodes
    BY <1>2 DEF RepliedTo, SendCommandOutcome, ErrorOutcome
  <2>2. accounts \subseteq Accounts
    BY <1>1, <1>2, <2>1, ReplyRead DEF RepliedTo
  <2>3. cache' = [accounts |-> accounts, since |-> began]
    BY <1>2 DEF EndAttempt
  <2>4. LoginWith(accounts) \/ End
    BY <1>2 DEF EndAttempt
  <2> HIDE DEF accounts
  <2> QED BY <1>1, <2>2, <2>3, <2>4, LoginWithStep, EndStep
<1>3. CASE ~RepliedTo("get_account_map")
  BY <1>1, <1>3, EndStep DEF EndAttempt, SysInv, CommandKnown
<1> QED BY <1>1, <1>2, <1>3

\* The handler keeps its types; it hands over the command only for the token
\* prompt, and takes the first text it is shown after that for the reply.
LEMMA HandleStep ==
  ASSUME TextsKnown, round # NoRound, AskedBy(round), NEW handled, handled = Handle(handler, round)
  PROVE  /\ handled.handler \in [state: {0, 1}, reply: Seq(Message)]
         /\ handled.sends => /\ handler.state = 0 /\ round.ask = "token" /\ round.lead = <<>>
                             /\ handled.handler = [state |-> 1, reply |-> handler.reply]
         /\ ~handled.sends /\ handler.state = 0 => handled.handler = handler
         /\ handler.state = 1 =>
              /\ ~handled.sends /\ handled.handler.state = 0
              /\ handled.handler.reply =
                   IF round.instructions # <<>> THEN round.instructions
                   ELSE IF round.ask # None THEN FirstLine(round) ELSE handler.reply
<1>1. handler.state \in {0, 1} /\ handler.reply \in Seq(Message)
      /\ handler = [state |-> handler.state, reply |-> handler.reply]
  BY DEF TextsKnown
<1>2. round.ask # None => FirstLine(round) \in Seq(Message)
  <2>1. CASE round.lead = <<>>
    <3>1. round.ask # None => Text(round.ask) \in Message
      BY DEF AskedBy, Message
    <3> QED BY <2>1, <3>1 DEF FirstLine
  <2>2. CASE round.lead # <<>>
    BY <2>2 DEF FirstLine, TextsKnown
  <2> QED BY <2>1, <2>2
<1>3. round.instructions \in Seq(Message)
  BY DEF TextsKnown
<1>4. CASE handler.state = 0 /\ IsPrompt(round)
  BY <1>1, <1>4 DEF Handle, Send, IsPrompt
<1>5. CASE handler.state = 0 /\ ~IsPrompt(round)
  BY <1>1, <1>5 DEF Handle, Stay
<1>6. CASE handler.state = 1
  BY <1>1, <1>2, <1>3, <1>6 DEF Handle, TakeReply, Stay
<1> QED BY <1>1, <1>4, <1>5, <1>6

\* The command goes to the token prompt: our module serves it.
LEMMA AnswerPrompt ==
  ASSUME IInv, AnswerRound, at = "ours", Handle(handler, round).sends
  PROVE  /\ SysInv' /\ Next
         /\ pc = "prompt" /\ pc' # "prompt" /\ handler.reply = <<>>
<1> DEFINE q == [op |-> command.op,
                 token |-> IF command.op = "get_security_policy" THEN None ELSE Token]
<1>1. /\ round # NoRound /\ AskedBy(round) /\ round' = NoRound
      /\ handler' = Handle(handler, round).handler
      /\ UNCHANGED <<stack, command, cache, commands, reached, said, began>>
  BY DEF IInv, SysInv, Phase, AnswerRound, Answered
<1>2. reached /\ pc = "prompt" /\ round.ask = "token"
  BY <1>1, OAuthSshAssumption DEF AskedBy, OAuthSshAssumption
<1>3. handler.reply = <<>> /\ wire = None /\ said = <<>>
  BY <1>1, <1>2 DEF IInv, SysInv, Exchange
<1>4. handler' = [state |-> 1, reply |-> <<>>]
  BY <1>1, <1>3, HandleStep DEF IInv, SysInv
<1>5. Receive(q) /\ at' = at
  BY <1>2, OAuthSshAssumption DEF OAuthSshAssumption, AnswerRound, Answered
<1>6. q \in Request
  BY OAuthSshAssumption DEF OAuthSshAssumption, IInv, SysInv, CommandKnown, ClientOps, Request, Ops
<1>7. /\ pc' \in Serving \cup {"reply"} /\ wire' = None /\ request'.op = command.op
      /\ status' # "KILLED"
      /\ pc' = "reply" => Fits(reply', command.op)
  BY <1>2, <1>3, <1>5, ReceiveStep DEF IInv, SysInv, Phase, Decided
<1>8. pc' \notin {"idle", "prompt"}
  BY <1>7 DEF Serving
<1>9. Next
  BY <1>5, <1>6 DEF Next, Login
<1>10. CommandKnown' /\ Phase'
  BY <1>1, <1>2, <1>5, <1>7 DEF IInv, SysInv, CommandKnown, Phase
<1>11. TextsKnown'
  BY <1>1, <1>4 DEF IInv, SysInv, TextsKnown
<1>12. Exchange'
  BY <1>1, <1>2, <1>3, <1>4, <1>5, <1>7, <1>8 DEF Exchange, Wired
<1>13. Answers'
  BY <1>1, <1>5, <1>7 DEF Answers, Over, Fits
<1> QED BY <1>2, <1>3, <1>8, <1>9, <1>10, <1>11, <1>12, <1>13 DEF SysInv

\* Any other answer leaves the handler with what our module has sent, and the
\* attempt at its end.
LEMMA AnswerOther ==
  ASSUME IInv, AnswerRound, ~(at = "ours" /\ Handle(handler, round).sends)
  PROVE  SysInv' /\ [Next]_vars
<1> DEFINE h == Handle(handler, round).handler
<1>1. /\ round # NoRound /\ AskedBy(round) /\ round' = NoRound /\ handler' = h
      /\ handler.reply = <<>> /\ handler.state \in {0, 1}
      /\ UNCHANGED <<stack, command, cache, commands, reached, said, began>>
  BY DEF IInv, SysInv, TextsKnown, Phase, Exchange, AnswerRound, Answered
<1>2. None \notin {"token", "code", "password"}
  BY OAuthSshAssumption DEF OAuthSshAssumption
<1>3. ~Handle(handler, round).sends
  BY <1>1, <1>2, HandleStep DEF AskedBy, IInv, SysInv
<1>4. /\ handler.state = 0 => h = handler
      /\ handler.state = 1 =>
           /\ h.state = 0
           /\ h.reply = IF round.instructions # <<>> THEN round.instructions
                        ELSE IF round.ask # None THEN FirstLine(round) ELSE <<>>
  BY <1>1, <1>3, HandleStep DEF IInv, SysInv
<1>5. handler' \in [state: {0, 1}, reply: Seq(Message)]
  BY <1>1, HandleStep DEF IInv, SysInv
<1>6. TextsKnown'
  BY <1>1, <1>5 DEF IInv, SysInv, TextsKnown
<1> HIDE DEF h
<1>7. CASE at = "ours"
  <2>1. /\ reached /\ pc = "prompt" /\ round.ask # None
    BY <1>1, <1>2, <1>7 DEF AskedBy
  <2>2. HangUp /\ at' = "failed"
    BY <1>3, <2>1 DEF AnswerRound, Answered
  <2>3. pc' = "idle" /\ status' = "AUTHINFO_UNAVAIL" /\ wire' = wire
    BY <2>2 DEF HangUp, Return
  <2>4. handler.state = 0 /\ wire = None
    BY <1>1, <1>7, <2>1 DEF IInv, SysInv, Exchange
  <2>5. handler' = handler
    BY <1>1, <1>4, <2>4
  <2>6. CommandKnown' /\ Phase'
    BY <1>1, <1>7, <2>1, <2>2, <2>3 DEF IInv, SysInv, CommandKnown, Phase, Places
  <2>7. Exchange'
    BY <1>1, <2>1, <2>2, <2>3, <2>4, <2>5 DEF Exchange
  <2>8. Answers'
    BY <1>1, <2>1, <2>3, <2>4, <2>5 DEF Answers, Replied, Sent, Fits, Serving
  <2> QED BY <1>6, <2>2, <2>6, <2>7, <2>8 DEF SysInv, Next, Login
<1>8. CASE at # "ours"
  <2>1. pc = "idle"
    BY <1>8 DEF IInv, SysInv, Phase
  <2>2. UNCHANGED vars /\ at' = IF round.ask = None THEN at ELSE "failed"
    BY <1>3, <1>8, <2>1 DEF AnswerRound, Answered
  <2>3. UNCHANGED <<pc, status, wire, request, reply>>
    BY <2>2 DEF vars
  <2>4. at' \in {"failed", "accepted"} /\ at \in {"before", "after", "failed", "accepted"}
    BY <1>1, <1>2, <1>8, <2>2 DEF AskedBy
  <2>5. CommandKnown' /\ Phase'
    BY <1>1, <1>2, <1>8, <2>1, <2>2, <2>3 DEF IInv, SysInv, CommandKnown, Phase, Places, AskedBy
  <2>6. Replied'
    <3>1. CASE handler.state = 0
      <4>1. Sent = None /\ handler' = handler
        BY <1>1, <1>4, <2>4, <3>1 DEF IInv, SysInv, Phase, Exchange, Sent, AskedBy
      <4> QED BY <1>1, <2>3, <4>1 DEF Replied, Sent
    <3>2. CASE handler.state = 1
      <4>1. reached /\ at \in {"after", "failed", "accepted"}
        BY <1>1, <2>4, <3>2 DEF IInv, SysInv, Exchange, Phase
      <4>2. /\ (IF at = "after" THEN round.lead ELSE round.instructions) = Wired
            /\ round.ask # None => round.instructions = <<>>
            /\ round.ask = IF at = "after" THEN "password" ELSE None
        BY <1>1, <3>2, <4>1 DEF IInv, SysInv, Exchange, AskedBy
      <4>3. handler'.reply = IF at = "after" THEN FirstLine(round) ELSE Wired
        BY <1>1, <1>2, <1>4, <3>2, <4>2
      <4>4. handler'.reply = IF wire # None THEN <<wire>>
                             ELSE IF at = "after" THEN <<Text("password")>> ELSE <<>>
        BY <1>2, <4>2, <4>3 DEF FirstLine, Wired
      <4> QED BY <1>1, <2>3, <4>1, <4>4 DEF Replied, Sent
    <3> QED BY <1>1, <3>1, <3>2
  <2>7. Exchange'
    BY <1>1, <1>4, <2>1, <2>3, <2>4 DEF IInv, SysInv, Exchange
  <2>8. Answers'
    BY <1>1, <2>1, <2>3, <2>6 DEF IInv, SysInv, Answers, Serving
  <2> QED BY <1>6, <2>2, <2>5, <2>7, <2>8 DEF SysInv
<1> QED BY <1>7, <1>8

----------------------------------------------------------------------------
(* The steps of sshd and of the module it calls.                            *)

\* The modules in front of ours leave it alone.
LEMMA CallOthersStep ==
  ASSUME IInv, CallOthers PROVE SysInv' /\ UNCHANGED vars
<1>1. /\ at = "before" /\ round = NoRound /\ ~reached /\ pc = "idle"
      /\ UNCHANGED <<vars, stack, command, handler, cache, commands, reached, began>>
  BY DEF IInv, SysInv, Phase, CallOthers, user_side
<1>2. /\ UNCHANGED <<pc, status, wire, request, reply>>
      /\ said \in Seq(Message) /\ Text("notice") \in Message
  BY <1>1 DEF vars, IInv, SysInv, TextsKnown, Message
<1>3. \/ at' = "ours" /\ said' \in Seq(Message) /\ round' = NoRound
      \/ at' = "before" /\ said' = said /\ round' = Question("code")
  <2>1. stack.before \in {"silent", "notice", "code"}
    BY DEF IInv, SysInv, Phase, Stack
  <2>2. CASE stack.before = "silent"
    BY <1>1, <1>2, <2>2 DEF CallOthers
  <2>3. CASE stack.before = "notice"
    <3>1. at' = "ours" /\ said' = <<Text("notice")>> /\ round' = round
      BY <1>1, <2>3 DEF CallOthers
    <3> QED BY <1>1, <1>2, <3>1
  <2>4. CASE stack.before = "code"
    BY <1>1, <1>2, <2>4 DEF CallOthers
  <2> QED BY <2>1, <2>2, <2>3, <2>4
<1>4. CommandKnown'
  BY <1>1, <1>3 DEF IInv, SysInv, CommandKnown
<1>7. TextsKnown'
  <2>1. <<>> \in Seq(Message)
    OBVIOUS
  <2>2. handler' = handler /\ TextsKnown
    BY <1>1 DEF IInv, SysInv
  <2>3. CASE said' \in Seq(Message) /\ round' = NoRound
    BY <2>2, <2>3 DEF TextsKnown
  <2>4. CASE said' = said /\ round' = Question("code")
    <3>1. round'.lead = said /\ round'.instructions = <<>>
      BY <2>4 DEF Question
    <3> QED BY <1>2, <2>1, <2>2, <2>4, <3>1 DEF TextsKnown
  <2> QED BY <1>3, <2>3, <2>4
<1>6. Phase'
  BY <1>1, <1>2, <1>3 DEF IInv, SysInv, Phase, Places, Question, AskedBy
<1>5. Exchange' /\ Answers'
  BY <1>1, <1>2, <1>3 DEF IInv, SysInv, Exchange, Answers, Over, Question, Serving
<1> QED BY <1>1, <1>4, <1>5, <1>6, <1>7 DEF SysInv

\* Our module reads its configuration and asks, or returns.
LEMMA CallOursStep ==
  ASSUME IInv, CallOurs PROVE SysInv' /\ Next
<1>1. /\ at = "ours" /\ ~reached /\ reached' /\ Begin(command.account)
      /\ UNCHANGED <<stack, command, handler, cache, commands, at, said, round>>
  BY DEF CallOurs, user_side
<1>2. command.account \in Accounts /\ round = NoRound
  BY <1>1 DEF IInv, SysInv, CommandKnown, Phase, AskedBy
<1>3. /\ wire' = None /\ pc' \in {"idle", "prompt"}
      /\ handler.state = 0 /\ handler.reply = <<>> /\ status' # "KILLED"
  BY <1>1 DEF Begin, IInv, SysInv, Exchange
<1>4. reached' = TRUE
  BY DEF CallOurs
<1>5. CommandKnown' /\ Phase' /\ TextsKnown'
  BY <1>1, <1>2, <1>3, <1>4 DEF IInv, SysInv, CommandKnown, Phase, TextsKnown
<1>6. Exchange' /\ Answers'
  BY <1>1, <1>2, <1>3 DEF Exchange, Answers, Over, Fits, Serving
<1> QED BY <1>1, <1>2, <1>5, <1>6 DEF SysInv, Next, Login

\* The prompt goes out with the texts shown before it, and leaves the module alone.
LEMMA AskTokenStep ==
  ASSUME IInv, AskToken PROVE SysInv' /\ UNCHANGED vars
<1>1. /\ at = "ours" /\ reached /\ pc = "prompt" /\ round = NoRound
      /\ round' = Question("token") /\ said' = <<>>
      /\ UNCHANGED <<vars, stack, command, handler, cache, at, reached>>
      /\ UNCHANGED <<pc, status, wire, request, reply>>
  BY DEF AskToken, user_side, vars
<1>2. round'.lead = said /\ round'.instructions = <<>> /\ round'.ask = "token"
  BY <1>1 DEF Question
<1>3. CommandKnown'
  BY <1>1 DEF IInv, SysInv, CommandKnown
<1>6. TextsKnown'
  <2>1. <<>> \in Seq(Message)
    OBVIOUS
  <2> QED BY <1>1, <1>2, <2>1 DEF IInv, SysInv, TextsKnown
<1>5. Phase'
  BY <1>1, <1>2 DEF IInv, SysInv, Phase, AskedBy
<1>4. Exchange' /\ Answers'
  BY <1>1, <1>2 DEF IInv, SysInv, Exchange, Answers, Over, Serving
<1> QED BY <1>1, <1>3, <1>4, <1>5, <1>6 DEF SysInv

\* A command in the middle of its calls.
LEMMA ServeSysStep ==
  ASSUME IInv, Serve PROVE SysInv' /\ Next
<1>1. /\ pc \in Serving /\ Login
      /\ UNCHANGED <<stack, command, handler, cache, at, reached, said, round>>
  BY DEF Serve, user_side, sshd
<1>2. pc \notin {"idle", "prompt", "reply"}
  BY <1>1 DEF Serving
<1>3. /\ pc' \in Serving \cup {"reply", "idle"} /\ wire' = wire
      /\ pc' # "idle" => request' = request /\ status' # "KILLED"
      /\ pc' = "idle" => status' = "KILLED"
      /\ pc' = "reply" => Fits(reply', request.op)
  BY <1>1, <1>2, ServeStep DEF IInv, SysInv, Phase, Decided
<1>4. at = "ours" /\ reached /\ round = NoRound /\ request.op = command.op
  BY <1>1, <1>2 DEF IInv, SysInv, Phase, Answers, AskedBy
<1>5. pc' # "prompt"
  BY <1>3 DEF Serving
<1>6. CommandKnown' /\ Phase' /\ TextsKnown'
  BY <1>1, <1>3, <1>4 DEF IInv, SysInv, CommandKnown, Phase, TextsKnown
<1>7. Exchange'
  BY <1>1, <1>2, <1>3, <1>4, <1>5 DEF IInv, SysInv, Exchange, Wired
<1>8. Answers'
  BY <1>1, <1>3, <1>4 DEF IInv, SysInv, Answers, Over, Fits, Serving
<1> QED BY <1>1, <1>6, <1>7, <1>8 DEF SysInv, Next

\* _send_our_reply()
LEMMA SayStep ==
  ASSUME IInv, Say PROVE SysInv' /\ Next
<1>1. /\ SendReply
      /\ UNCHANGED <<stack, command, handler, cache, at, reached, round>>
      /\ said' = IF wire' = None THEN said ELSE Append(said, wire')
  BY DEF Say, user_side
<1>2. /\ pc = "reply" /\ pc' = "idle" /\ status' = status
      /\ wire' # None => wire' \in Reply(1 .. 2)
      /\ status = "SUCCESS" => wire' = None
      /\ \A op : Fits(reply, op) => Fits(wire', op)
  BY <1>1, SendStep DEF IInv
<1>3. at = "ours" /\ reached /\ round = NoRound /\ status' # "KILLED"
  BY <1>1, <1>2 DEF IInv, SysInv, Phase, AskedBy
<1>4. handler.state = 1 /\ wire = None /\ said = <<>>
  BY <1>2, <1>3 DEF IInv, SysInv, TextsKnown, Exchange, Wired
<1>5. said' = Wired' /\ said' \in Seq(Message)
  <2>1. CASE wire' = None
    BY <1>1, <1>4, <2>1 DEF Wired
  <2>2. CASE wire' # None
    <3>1. said' = <<wire'>>
      BY <1>1, <1>4, <2>2
    <3>2. wire' \in Message
      BY <1>2, <2>2 DEF Message
    <3> QED BY <2>2, <3>1, <3>2 DEF Wired
  <2> QED BY <2>1, <2>2
<1>6. CommandKnown' /\ Phase' /\ TextsKnown'
  BY <1>1, <1>2, <1>3, <1>5 DEF IInv, SysInv, CommandKnown, Phase, TextsKnown
<1>7. Exchange'
  BY <1>1, <1>2, <1>3, <1>4, <1>5 DEF IInv, SysInv, Exchange
<1>8. Answers'
  BY <1>1, <1>2, <1>3 DEF IInv, SysInv, Answers, Over, Serving
<1> QED BY <1>1, <1>6, <1>7, <1>8 DEF SysInv, Next, Login

\* Our module has returned: the control value decides what comes next.
LEMMA ReturnedStep ==
  ASSUME IInv, Returned PROVE SysInv' /\ UNCHANGED vars
<1>1. /\ at = "ours" /\ reached /\ pc = "idle" /\ round = NoRound
      /\ UNCHANGED <<vars, stack, command, handler, cache, reached>>
      /\ UNCHANGED <<pc, status, wire, request, reply>>
  BY DEF Returned, user_side, vars
<1>2. /\ handler.state \in {0, 1} /\ handler.reply = <<>> /\ said \in Seq(Message)
      /\ handler.state = 0 => wire = None
      /\ handler.state = 1 => said = Wired
      /\ status \in {"SUCCESS", "KILLED"} => wire = None
  BY <1>1 DEF IInv, SysInv, TextsKnown, Exchange
<1>3. CommandKnown'
  BY <1>1 DEF IInv, SysInv, CommandKnown, Returned
<1>4. CASE status = "SUCCESS"
  <2>1. at' = "accepted" /\ said' = <<>>
        /\ round' = [instructions |-> <<>>, lead |-> <<>>, ask |-> None]
    BY <1>4 DEF Returned
  <2>2. Phase' /\ TextsKnown'
    BY <1>1, <1>2, <1>4, <2>1 DEF IInv, SysInv, Phase, Places, TextsKnown, AskedBy
  <2>3. Exchange'
    BY <1>1, <1>2, <1>4, <2>1 DEF Exchange, Wired
  <2>4. Answers'
    BY <1>1, <1>2, <1>4, <2>1 DEF IInv, SysInv, Answers, Over, Serving, Replied, Sent
  <2> QED BY <1>1, <1>3, <2>2, <2>3, <2>4 DEF SysInv
<1>5. CASE status = "KILLED"
  <2>1. at' = "failed" /\ UNCHANGED <<said, round>>
    BY <1>5 DEF Returned
  <2>2. Phase' /\ TextsKnown'
    BY <1>1, <1>2, <1>5, <2>1 DEF IInv, SysInv, Phase, Places, TextsKnown
  <2>3. Exchange'
    BY <1>1, <1>2, <2>1 DEF Exchange
  <2>4. Answers'
    BY <1>1, <1>2, <1>5, <2>1 DEF IInv, SysInv, Answers, Over, Serving, Replied, Sent
  <2> QED BY <1>1, <1>3, <2>2, <2>3, <2>4 DEF SysInv
<1>6. CASE status # "SUCCESS" /\ status # "KILLED"
  <2>1. \/ at' = "after" /\ round' = Question("password") /\ said' = <<>>
        \/ /\ at' = "failed" /\ said' = <<>>
           /\ round' = IF said = <<>> THEN NoRound
                       ELSE [instructions |-> said, lead |-> <<>>, ask |-> None]
    BY <1>6 DEF Returned
  <2>2. Phase' /\ TextsKnown'
    BY <1>1, <1>2, <1>6, <2>1
       DEF IInv, SysInv, Phase, Places, TextsKnown, AskedBy, Question
  <2>3. Exchange'
    BY <1>1, <1>2, <2>1, OAuthSshAssumption DEF OAuthSshAssumption, Exchange, Question, Wired
  <2>4. Answers'
    <3>1. ASSUME Over' PROVE wire = None
      <4>1. at' = "failed" /\ round' = NoRound
        BY <2>1, <3>1 DEF Over
      <4>2. CASE said = <<>>
        BY <1>2, <4>2 DEF Wired
      <4>3. CASE said # <<>>
        <5> DEFINE r == [instructions |-> said, lead |-> <<>>, ask |-> None]
        <5>1. r.ask = None /\ NoRound.ask = "nothing"
          BY DEF NoRound
        <5>2. round' = r
          BY <2>1, <4>1, <4>3
        <5> QED BY <4>1, <5>1, <5>2, OAuthSshAssumption DEF OAuthSshAssumption
      <4> QED BY <4>2, <4>3
    <3> QED BY <1>1, <1>2, <3>1 DEF IInv, SysInv, Answers, Serving, Replied, Sent
  <2> QED BY <1>1, <1>3, <2>2, <2>3, <2>4 DEF SysInv
<1> QED BY <1>4, <1>5, <1>6

\* What happens outside is seen by neither.
LEMMA OutsideSysStep ==
  ASSUME IInv, Outside, UNCHANGED <<stack, user_side, sshd>> PROVE SysInv'
<1>1. UNCHANGED <<pc, request, status, reply, wire>>
      /\ UNCHANGED <<command, handler, cache, at, reached, said, round>>
  BY OutsideStep DEF user_side, sshd
<1> QED BY <1>1 DEF IInv, SysInv, CommandKnown, TextsKnown, Phase, AskedBy, Exchange, Wired,
        Answers, Over, Replied, Sent

----------------------------------------------------------------------------
(* The invariant, and what follows from it.                                 *)

\* The invariant at the start of the system.
LEMMA SystemInit == OAuthSshInit => IInv
<1> SUFFICES ASSUME OAuthSshInit PROVE IInv
  OBVIOUS
<1>1. Init
  BY DEF OAuthSshInit
<1>2. TypeInv
  BY <1>1, InitType DEF TypeInv, ConfKnown, LocalsKnown, Init, Serving
<1>3. OutcomeInv
  BY <1>1, InitOutcome
<1>4. pc = "idle"
  BY <1>1 DEF Init
<1>5. CommandKnown
  BY DEF OAuthSshInit, CommandKnown, Idle
<1>6. TextsKnown
  BY DEF OAuthSshInit, TextsKnown
<1>7. Phase
  BY <1>4, OAuthSshAssumption DEF OAuthSshAssumption, OAuthSshInit, Phase, Places
<1>8. Exchange
  BY DEF OAuthSshInit, Exchange
<1>9. Answers
  BY <1>4 DEF OAuthSshInit, Answers, Over, Serving
<1> QED BY <1>2, <1>3, <1>5, <1>6, <1>7, <1>8, <1>9 DEF IInv, SysInv

\* Every step of the system keeps the invariant and is a step of the module or none.
LEMMA SystemStep ==
  ASSUME IInv, [OAuthSshNext]_all_vars PROVE IInv' /\ [Next]_vars
<1>1. ASSUME SysInv', [Next]_vars PROVE IInv' /\ [Next]_vars
  <2>1. TypeInv'
    <3>1. CASE UNCHANGED vars
      BY <3>1 DEF IInv, TypeInv, TypeOK, ConfKnown, LocalsKnown, vars
    <3> QED BY <1>1, <3>1, LoginInv, OutsideInv DEF IInv, Next
  <2> QED BY <1>1, <2>1, OutcomeStep DEF IInv
<1>2. CASE UNCHANGED all_vars
  <2>1. SysInv'
    BY <1>2 DEF all_vars, user_side, sshd, vars, IInv, SysInv, CommandKnown, TextsKnown, Phase,
         AskedBy, Exchange, Wired, Answers, Over, Replied, Sent
  <2> QED BY <1>1, <1>2, <2>1 DEF all_vars
<1>3. CASE AskPolicy \/ ShowAccounts \/ (\E a \in Accounts : OAuthSshTo(a)) \/ OAuthSsh
  BY <1>1, <1>3, CommandStep DEF IInv
<1>4. CASE AnswerRound
  BY <1>1, <1>4, AnswerPrompt, AnswerOther
<1>5. CASE EndAttempt
  BY <1>1, <1>5, EndAttemptStep DEF IInv
<1>6. CASE CallOthers \/ AskToken \/ Returned
  BY <1>1, <1>6, CallOthersStep, AskTokenStep, ReturnedStep
<1>7. CASE CallOurs \/ Serve \/ Say
  BY <1>1, <1>7, CallOursStep, ServeSysStep, SayStep
<1>8. CASE Outside /\ UNCHANGED <<stack, user_side, sshd>>
  BY <1>1, <1>8, OutsideSysStep DEF Next
<1> QED BY <1>2, <1>3, <1>4, <1>5, <1>6, <1>7, <1>8 DEF OAuthSshNext, Client, Server

\* pam_sm_authenticate() keeps its contract towards real clients: called by sshd
\* among other modules, asked by CmdInjectHandler, whatever the site's stack, the
\* users' commands and the realm.
THEOREM SystemKeepsContract == OAuthSshSpec => ContractSpec
<1>1. OAuthSshInit => Init
  BY DEF OAuthSshInit
<1>2. OAuthSshSpec => Spec
  BY <1>1, SystemInit, SystemStep, PTL DEF OAuthSshSpec, Spec
<1> QED BY <1>2, ImplementsContract, PTL

\* The token of the user goes to the prompt of our module and nowhere else.
THEOREM TokenStaysOurs == OAuthSshSpec => TokenToOurPromptOnly
<1>1. IInv /\ [OAuthSshNext]_all_vars =>
        [handler.state = 0 /\ handler'.state = 1 =>
           at = "ours" /\ pc = "prompt" /\ pc' # "prompt" /\ handler.reply = <<>>]_all_vars
  <2> SUFFICES ASSUME IInv, OAuthSshNext, handler.state = 0, handler'.state = 1
               PROVE  at = "ours" /\ pc = "prompt" /\ pc' # "prompt" /\ handler.reply = <<>>
    OBVIOUS
  <2>1. AnswerRound
    <3>1. \A name, asked, op, account : Open(name, asked, op, account) => handler'.state = 0
      BY DEF Open
    <3>2. End => handler'.state = 0
      BY DEF End
    <3>3. \A accounts : LoginWith(accounts) => handler'.state = 0
      BY <3>1, <3>2 DEF LoginWith
    <3>4. ~(AskPolicy \/ ShowAccounts \/ (\E a \in Accounts : OAuthSshTo(a)) \/ OAuthSsh)
      BY <3>1, <3>3 DEF AskPolicy, ShowAccounts, OAuthSshTo, OAuthSsh
    <3>5. ~EndAttempt
      BY <3>2, <3>3 DEF EndAttempt
    <3>6. Server \/ UNCHANGED user_side => handler' = handler
      BY DEF Server, CallOthers, CallOurs, AskToken, Serve, Say, Returned, user_side
    <3> QED BY <3>4, <3>5, <3>6 DEF OAuthSshNext, Client
  <2>2. round # NoRound /\ AskedBy(round) /\ handler' = Handle(handler, round).handler
    BY <2>1 DEF IInv, SysInv, Phase, AnswerRound, Answered
  <2>3. Handle(handler, round).sends /\ round.ask = "token"
    BY <2>2, HandleStep DEF IInv, SysInv
  <2>4. at = "ours"
    BY <2>2, <2>3, OAuthSshAssumption DEF AskedBy, OAuthSshAssumption
  <2> QED BY <2>1, <2>3, <2>4, AnswerPrompt
<1> QED BY <1>1, SystemInit, SystemStep, PTL DEF OAuthSshSpec, TokenToOurPromptOnly

\* Where an attempt ends, the invariant says its outcome is the decision of the module.
LEMMA OutcomeFollows ==
  ASSUME IInv PROVE OutcomeIsOurs
<1> SUFFICES ASSUME Over PROVE OutcomeIsOurs
  BY DEF OutcomeIsOurs
<1>1. Replied /\ at \in {"failed", "accepted"} /\ (Sent # None => reached /\ Sent = wire)
  BY DEF IInv, SysInv, Answers, Over, Sent
<1>2. at = "accepted" => reached /\ status = "SUCCESS" /\ Sent = None
  BY DEF IInv, SysInv, Phase, Sent
<1>3. at = "failed" /\ reached => status # "SUCCESS"
  BY DEF IInv, SysInv, Phase
<1>4. SendCommandOutcome = "channel" <=> at = "accepted"
  BY DEF SendCommandOutcome, ErrorOutcome
<1>5. ~Decodable(<<Text("password")>>)
  BY DEF Decodable, Text
<1>6. Sent = None => SendCommandOutcome \in {"channel", "AuthorizationFailure", "UnexpectedSSHReply"}
  BY <1>1, <1>5 DEF SendCommandOutcome, Replied
<1>7. ASSUME Sent # None, Sent.layers = 1
      PROVE  SendCommandOutcome =
               CASE Sent.code = "SESSION_VIOLATION" -> "SessionViolation"
                 [] Sent.code = "INVALID_TOKEN" -> "InvalidToken"
                 [] Sent.code \in {"POLICY", "ACCOUNT_MAP"} -> "reply"
                 [] OTHER -> "UnexpectedSSHReply"
  <2>1. handler.reply = <<Sent>> /\ at = "failed"
    BY <1>1, <1>2, <1>7 DEF Replied
  <2>2. Head(handler.reply) = Sent /\ handler.reply # <<>> /\ Decodable(handler.reply)
    BY <1>7, <2>1 DEF Decodable
  <2>3. Sent.code \in ErrorCodes \cup {"POLICY", "ACCOUNT_MAP"}
    BY <1>1, <1>7 DEF IInv, TypeInv, TypeOK, Reply
  <2>4. SendCommandOutcome = IF Sent.code \in ErrorCodes THEN ErrorOutcome(Sent.code) ELSE "reply"
    BY <2>1, <2>2 DEF SendCommandOutcome
  <2> QED BY <2>3, <2>4 DEF ErrorOutcome, ErrorCodes
<1>8. SendCommandOutcome = "reply" =>
        Sent.code = IF command.op = "get_security_policy" THEN "POLICY" ELSE "ACCOUNT_MAP"
  <2> SUFFICES ASSUME SendCommandOutcome = "reply"
               PROVE  Sent.code = IF command.op = "get_security_policy" THEN "POLICY"
                                  ELSE "ACCOUNT_MAP"
    OBVIOUS
  <2>1. /\ handler.reply # <<>> /\ Decodable(handler.reply)
        /\ Head(handler.reply).code \notin ErrorCodes
    BY DEF SendCommandOutcome, ErrorOutcome
  <2> QED BY <2>1, ReplyRead DEF IInv
<1> QED BY <1>1, <1>2, <1>3, <1>4, <1>6, <1>7, <1>8 DEF OutcomeIsOurs

\* What send_command() makes of an attempt is what our module decided in it.
THEOREM OutcomeDecided == OAuthSshSpec => []OutcomeIsOurs
  BY OutcomeFollows, SystemInit, SystemStep, PTL DEF OAuthSshSpec

----------------------------------------------------------------------------
(* What a map is worth.  As long as nothing changes after our module was    *)
(* called, all it reads is the world's, and a reply says what the world's   *)
(* mappings are; the cached map keeps the count of changes it was made at.  *)

\* Nothing has changed since our module was called.
Quiet == events = began

\* The accounts the files of `read' and the suffix give in the world w.
MapOf(w, read) == UNION {FileAccounts(w.linked, w.files[f]) : f \in read}
Mappings(w)    == MapOf(w, w.conf.map_files) \cup SuffixAccounts(w.conf, w.linked)

\* A reply is true of the world.
Says(rep) ==
  rep # None =>
    /\ rep.code = "ACCOUNT_MAP" => rep.permitted_accounts = Mappings(world) \cap LocalAccounts
    /\ rep.code = "INVALID_ACCOUNT" => user \notin Mappings(world)

Reading ==
  Quiet =>
    /\ pc \in Serving \cup {"prompt"} => conf = world.conf
    /\ pc \in Fetched => introspect.identities_set = world.linked
    /\ pc \in {"session", "accounts"} => identities = world.linked
    /\ pc = "accounts" =>
         /\ account_map.unread \subseteq conf.map_files
         /\ account_map.accounts = MapOf(world, conf.map_files \ account_map.unread)
    /\ pc = "reply" => Says(reply)
    /\ Says(wire)

\* A map names accounts of the host only.
LocalMap(rep) ==
  rep # None =>
    (rep.code = "ACCOUNT_MAP" => rep.permitted_accounts \subseteq LocalAccounts)

Counted == began \in Nat /\ events \in Nat /\ began <= events

Remembered ==
  cache # None =>
    /\ cache.since \in Nat /\ cache.since <= events
    /\ reached => cache.since <= began
    /\ cache.accounts \subseteq LocalAccounts
    /\ events = cache.since => cache.accounts = Mappings(world) \cap LocalAccounts

\* The command, and where the account of a login comes from.
Named ==
  /\ stack \in Stacks
  /\ command.name \in {"none", "policy", "accounts", "ssh"}
  /\ command.account \in Accounts \cup {None}
  /\ reached => user = command.account
  /\ command.op = "login" /\ command.asked = None =>
       cache # None /\ command.account \in cache.accounts

OfferInv ==
  Counted /\ Reading /\ LocalMap(reply) /\ LocalMap(wire) /\ Remembered /\ Named

\* Encoding a reply leaves what it says.
LEMMA EncodeSays ==
  ASSUME TypeInv, reply # None
  PROVE  /\ Encode(reply) # None => Encode(reply).code = reply.code
         /\ reply.code = "ACCOUNT_MAP" =>
              Encode(reply).permitted_accounts = reply.permitted_accounts
<1>1. reply \in Reply(0 .. 1)
  BY DEF TypeInv, TypeOK
<1>2. CASE reply \in [code: ErrorCodes, layers: 0 .. 1]
  BY <1>2 DEF Encode, ErrorCodes
<1>3. CASE reply \in [code: {"POLICY"}, layers: 0 .. 1, permitted_idps: SUBSET IdpNames,
                      authentication_timeout: Int]
  BY <1>3 DEF Encode
<1>4. CASE reply \in [code: {"ACCOUNT_MAP"}, layers: 0 .. 1, permitted_accounts: SUBSET Accounts]
  BY <1>4 DEF Encode
<1> QED BY <1>1, <1>2, <1>3, <1>4 DEF Reply

\* A decision is true of the world if its reply is.
LEMMA AnswerReads ==
  ASSUME Reading, NEW st, NEW rep, Answer(st, rep), UNCHANGED began,
         Quiet => Says(rep), LocalMap(rep), LocalMap(wire)
  PROVE  Reading' /\ LocalMap(reply)' /\ LocalMap(wire)'
  BY DEF Answer, Reading, Says, LocalMap, Quiet, environment, Serving, Fetched

\* So is a return, if what it sends is.
LEMMA ReturnReads ==
  ASSUME Reading, NEW st, Return(st), UNCHANGED began,
         Quiet => Says(wire'), LocalMap(wire')
  PROVE  Reading' /\ LocalMap(reply)' /\ LocalMap(wire)'
  BY DEF Return, Reading, Says, LocalMap, Quiet, environment, Serving, Fetched

\* An error other than INVALID_ACCOUNT says nothing of the map.
LEMMA ErrorSays ==
  ASSUME NEW code \in ErrorCodes \ {"INVALID_ACCOUNT"}
  PROVE  /\ Says(ErrorReply(code)) /\ LocalMap(ErrorReply(code))
         /\ Says(Encode(ErrorReply(code))) /\ LocalMap(Encode(ErrorReply(code)))
<1>1. ErrorReply(code).code = code /\ Encode(ErrorReply(code)).code = code
  BY DEF ErrorReply, Encode
<1>2. code # "ACCOUNT_MAP" /\ code # "INVALID_ACCOUNT"
  BY DEF ErrorCodes
<1> QED BY <1>1, <1>2 DEF Says, LocalMap

\* There is no reply to be false.
LEMMA NothingSaid == Says(None) /\ LocalMap(None)
  BY DEF Says, LocalMap

\* A map file more is its accounts more.
LEMMA OneMore ==
  ASSUME NEW w, NEW read, NEW f
  PROVE  MapOf(w, read \cup {f}) = MapOf(w, read) \cup FileAccounts(w.linked, w.files[f])
  BY DEF MapOf

\* The calls and the checks of a command carry on what they read, and what it
\* ends with is true of what was read.
LEMMA LoginReads ==
  ASSUME TypeInv, OutcomeInv, Reading, LocalMap(reply), LocalMap(wire), UNCHANGED began,
         Login, ~ \E u \in Accounts : Begin(u)
  PROVE  /\ Reading' /\ LocalMap(reply)' /\ LocalMap(wire)'
         /\ UNCHANGED <<world, events, user>>
<1> DEFINE Goal == Reading' /\ LocalMap(reply)' /\ LocalMap(wire)'
<1>0. UNCHANGED <<world, events, user>>
  BY DEF Login, HangUp, Receive, Introspect, IntrospectInactive, IntrospectFails,
         GetClient, GetClientFails, ValidateToken, GetIdentities, GetIdentitiesFails,
         CheckSession, ReadMapFile, MapAccounts, UseMap, VerifySciToken,
         VerifySciTokenFails, VerifySciTokenCrashes, SendReply, Killed, Answer, Return,
         Continue, environment
<1>1. ASSUME NEW label \in Serving, Continue(label), Quiet,
             label \in Fetched => introspect'.identities_set = world.linked,
             label \in {"session", "accounts"} => identities' = world.linked,
             label = "accounts" =>
               /\ account_map'.unread \subseteq conf.map_files
               /\ account_map'.accounts = MapOf(world, conf.map_files \ account_map'.unread),
             pc \in Serving
      PROVE  Reading'
  <2>1. UNCHANGED <<world, events, conf, wire, user>> /\ pc' = label
    BY <1>1 DEF Continue, environment
  <2>2. conf = world.conf /\ Says(wire)
    BY <1>1 DEF Reading
  <2>3. Says(wire)'
    BY <2>1, <2>2 DEF Says
  <2>4. label \notin {"reply", "prompt"}
    BY DEF Serving
  <2> QED BY <1>1, <2>1, <2>2, <2>3, <2>4 DEF Reading
<1>2. ASSUME NEW label, Continue(label) PROVE (~Quiet => Reading') /\ LocalMap(reply)' /\ LocalMap(wire)'
  BY <1>2 DEF Continue, LocalMap, Reading, Quiet, environment
<1>3. CASE HangUp \/ VerifySciTokenCrashes \/ Killed
  <2>1. (Quiet => Says(wire')) /\ LocalMap(wire')
    BY <1>3 DEF HangUp, VerifySciTokenCrashes, Killed, Reading
  <2> QED BY <1>0, <1>3, <2>1, ReturnReads DEF HangUp, VerifySciTokenCrashes, Killed
<1>4. CASE \E q \in Request : Receive(q)
  <2>1. PICK q \in Request : Receive(q)
    BY <1>4
  <2>2. /\ pc = "prompt" /\ UNCHANGED <<wire, conf>>
        /\ pc' \in {"reply", "introspect", "scitoken"} /\ reply = None
    BY <2>1 DEF Receive, OutcomeInv
  <2>3. reply' = None \/ (reply' # None /\ reply'.code \in {"POLICY", "UNKNOWN_COMMAND"})
    BY <2>1, <2>2 DEF Receive, ErrorReply, Encode
  <2>4. Says(reply)' /\ LocalMap(reply)'
    BY <2>3 DEF Says, LocalMap
  <2>5. Quiet => conf = world.conf /\ Says(wire)
    BY <2>2 DEF Reading
  <2>6. Quiet => Says(wire)'
    BY <1>0, <2>2, <2>5 DEF Says
  <2>7. Reading'
    BY <1>0, <2>2, <2>4, <2>5, <2>6 DEF Reading, Quiet, Fetched
  <2> QED BY <1>0, <2>2, <2>4, <2>7 DEF LocalMap
<1>5. CASE Introspect
  <2>1. introspect'.identities_set = world.linked
    BY <1>5 DEF Introspect
  <2> QED BY <1>0, <1>1, <1>2, <1>5, <2>1 DEF Introspect, Serving
<1>6. CASE GetClient \/ GetIdentities
  <2>1. Quiet => introspect'.identities_set = world.linked
    BY <1>6 DEF GetClient, GetIdentities, Reading, Fetched
  <2>2. Quiet /\ GetIdentities => identities' = world.linked
    BY <1>6 DEF GetIdentities, Reading, Fetched
  <2> QED BY <1>0, <1>1, <1>2, <1>6, <2>1, <2>2 DEF GetClient, GetIdentities, Serving
<1>7. CASE IntrospectInactive \/ IntrospectFails \/ GetClientFails \/ GetIdentitiesFails
  <2>1. PICK rep \in {None, ErrorReply("UNEXPECTED_ERROR")} : Answer("AUTHINFO_UNAVAIL", rep)
    BY <1>7 DEF IntrospectInactive, IntrospectFails, GetClientFails, GetIdentitiesFails
  <2>2. Says(rep) /\ LocalMap(rep)
    BY ErrorSays, NothingSaid DEF ErrorCodes
  <2> QED BY <1>0, <2>1, <2>2, AnswerReads
<1>8. CASE ValidateToken
  <2>1. CASE Continue("identities") /\ UNCHANGED locals
    <3>1. Quiet => introspect'.identities_set = world.linked
      BY <1>8, <2>1 DEF ValidateToken, Reading, Fetched, locals
    <3> QED BY <1>0, <1>1, <1>2, <1>8, <2>1, <3>1 DEF ValidateToken, Serving
  <2>2. CASE Answer("AUTH_ERR", ErrorReply("INVALID_TOKEN"))
    <3>1. Says(ErrorReply("INVALID_TOKEN")) /\ LocalMap(ErrorReply("INVALID_TOKEN"))
      BY ErrorSays DEF ErrorCodes
    <3> QED BY <1>0, <2>2, <3>1, AnswerReads
  <2> QED BY <1>8, <2>1, <2>2 DEF ValidateToken
<1>9. CASE CheckSession
  <2>1. CASE /\ Continue("accounts")
             /\ account_map' = [unread |-> conf.map_files, accounts |-> {}]
             /\ UNCHANGED <<introspect, client, identities>>
    <3>1. account_map'.unread = conf.map_files /\ account_map'.accounts = {}
      BY <2>1
    <3>2. conf.map_files \ conf.map_files = {}
      OBVIOUS
    <3>3. account_map'.accounts = MapOf(world, conf.map_files \ account_map'.unread)
      BY <3>1, <3>2 DEF MapOf
    <3>4. Quiet => introspect'.identities_set = world.linked /\ identities' = world.linked
      BY <1>9, <2>1 DEF CheckSession, Reading, Fetched
    <3> QED BY <1>0, <1>1, <1>2, <1>9, <2>1, <3>1, <3>3, <3>4 DEF CheckSession, Serving
  <2>2. CASE Answer("AUTH_ERR", IF request.op = "get_account_map"
                                    THEN ErrorReply("SESSION_VIOLATION")
                                    ELSE Encode(ErrorReply("SESSION_VIOLATION")))
    <3>1. PICK rep \in {ErrorReply("SESSION_VIOLATION"), Encode(ErrorReply("SESSION_VIOLATION"))} :
            Answer("AUTH_ERR", rep)
      BY <2>2
    <3>2. Says(rep) /\ LocalMap(rep)
      BY ErrorSays DEF ErrorCodes
    <3> QED BY <1>0, <3>1, <3>2, AnswerReads
  <2> QED BY <1>9, <2>1, <2>2 DEF CheckSession
<1>10. CASE \E f \in MapFiles : ReadMapFile(f)
  <2>1. PICK f \in MapFiles : ReadMapFile(f)
    BY <1>10
  <2>2. /\ account_map'.unread = account_map.unread \ {f}
        /\ account_map'.accounts = account_map.accounts \cup FileAccounts(identities, world.files[f])
        /\ pc = "accounts" /\ f \in account_map.unread
    BY <2>1 DEF ReadMapFile
  <2>3. ASSUME Quiet
        PROVE  /\ introspect'.identities_set = world.linked /\ identities' = world.linked
               /\ account_map'.unread \subseteq conf.map_files
               /\ account_map'.accounts = MapOf(world, conf.map_files \ account_map'.unread)
    <3>1. /\ introspect.identities_set = world.linked /\ identities = world.linked
          /\ account_map.unread \subseteq conf.map_files
          /\ account_map.accounts = MapOf(world, conf.map_files \ account_map.unread)
      BY <2>2, <2>3 DEF Reading, Fetched
    <3>2. account_map'.accounts = MapOf(world, conf.map_files \ (account_map.unread \ {f}))
      <4>1. MapOf(world, conf.map_files \ account_map.unread) \cup FileAccounts(world.linked, world.files[f])
              = MapOf(world, conf.map_files \ (account_map.unread \ {f}))
        <5>1. conf.map_files \ (account_map.unread \ {f})
                = (conf.map_files \ account_map.unread) \cup {f}
          BY <2>2, <3>1
        <5> QED BY <5>1, OneMore
      <4> QED BY <2>2, <3>1, <4>1
    <3> QED BY <2>1, <2>2, <3>1, <3>2 DEF ReadMapFile
  <2> QED BY <1>0, <1>1, <1>2, <2>1, <2>2, <2>3 DEF ReadMapFile, Serving
<1>11. CASE MapAccounts
  <2> DEFINE accts == account_map.accounts \cup SuffixAccounts(conf, identities)
             map   == [code |-> "ACCOUNT_MAP", layers |-> 0,
                       permitted_accounts |-> accts \cap LocalAccounts]
  <2>1. pc = "accounts" /\ account_map.unread = {} /\ UseMap(accts)
    BY <1>11 DEF MapAccounts
  <2>2. Quiet => accts = Mappings(world)
    <3>1. conf.map_files \ {} = conf.map_files
      OBVIOUS
    <3> QED BY <2>1, <3>1 DEF Reading, Mappings, Serving
  <2> HIDE DEF accts
  <2>3. PICK st, rep : Answer(st, rep) /\ (\/ rep = map
                                           \/ rep = None
                                           \/ user \notin accts /\ rep = ErrorReply("INVALID_ACCOUNT"))
    BY <2>1 DEF UseMap
  <2>4. (Quiet => Says(rep)) /\ LocalMap(rep)
    <3>1. CASE rep = map
      BY <2>2, <3>1 DEF Says, LocalMap
    <3>2. CASE rep = None
      BY <3>2, NothingSaid
    <3>3. CASE user \notin accts /\ rep = ErrorReply("INVALID_ACCOUNT")
      <4>1. rep.code = "INVALID_ACCOUNT"
        BY <3>3 DEF ErrorReply
      <4> QED BY <2>2, <3>3, <4>1 DEF Says, LocalMap
    <3> QED BY <2>3, <3>1, <3>2, <3>3
  <2> QED BY <1>0, <2>3, <2>4, AnswerReads
<1>12. CASE VerifySciToken \/ VerifySciTokenFails
  <2>1. PICK st : Answer(st, None)
    BY <1>12 DEF VerifySciToken, VerifySciTokenFails
  <2> QED BY <1>0, <2>1, NothingSaid, AnswerReads
<1>13. CASE SendReply
  <2>1. Return(status) /\ pc = "reply" /\ (wire' = None \/ (reply # None /\ wire' = Encode(reply)))
    BY <1>13 DEF SendReply
  <2>2. (Quiet => Says(reply)) /\ LocalMap(reply)
    BY <2>1 DEF Reading
  <2>3. (Quiet => Says(wire')) /\ LocalMap(wire')
    BY <2>1, <2>2, EncodeSays DEF Says, LocalMap
  <2> QED BY <1>0, <2>1, <2>3, ReturnReads
<1> QED BY <1>0, <1>3, <1>4, <1>5, <1>6, <1>7, <1>8, <1>9, <1>10, <1>11, <1>12, <1>13 DEF Login

\* The clock, and whatever leaves the outside alone, leave all of it standing.
Unmoved ==
  UNCHANGED events /\ world'.conf = world.conf /\ world'.linked = world.linked
    /\ world'.files = world.files

\* The mappings stay what they are while the configuration, the links and the files do.
LEMMA MappingsStand ==
  ASSUME Unmoved
  PROVE  /\ Mappings(world)' = Mappings(world)
         /\ \A read : MapOf(world, read)' = MapOf(world, read)
  BY DEF Unmoved, Mappings, MapOf

\* What has been read of the mappings stays true while nothing of them moves.
LEMMA ReadingStands ==
  ASSUME Reading, LocalMap(reply), LocalMap(wire), Unmoved,
         UNCHANGED <<pc, user, conf, introspect, identities, account_map, reply, wire, began>>
  PROVE  Reading' /\ LocalMap(reply)' /\ LocalMap(wire)'
<1>1. /\ Mappings(world)' = Mappings(world)
      /\ \A read : MapOf(world', read) = MapOf(world, read)
  BY MappingsStand DEF Unmoved, MapOf
<1>2. Quiet' <=> Quiet
  BY DEF Quiet, Unmoved
<1>3. (Says(reply)' <=> Says(reply)) /\ (Says(wire)' <=> Says(wire))
  BY <1>1 DEF Says
<1>4. /\ LocalMap(reply)' /\ LocalMap(wire)'
  BY DEF LocalMap
<1>5. world'.conf = world.conf /\ world'.linked = world.linked
  BY DEF Unmoved
<1>6. pc = "accounts" /\ account_map.accounts = MapOf(world, conf.map_files \ account_map.unread)
        => account_map'.accounts = MapOf(world', conf'.map_files \ account_map'.unread)
  BY <1>1
<1> QED BY <1>2, <1>3, <1>4, <1>5, <1>6 DEF Reading

\* The cached map is worth the same after a step of the attempt: our module was
\* not called, or is called now.
LEMMA RememberedStands ==
  ASSUME Counted, Remembered, Unmoved, UNCHANGED cache,
         reached' => (reached /\ began' = began) \/ began' = events
  PROVE  Remembered'
<1>1. Mappings(world)' = Mappings(world)
  BY MappingsStand
<1> QED BY <1>1 DEF Remembered, Counted, Unmoved

\* The steps that are no call of our module and leave the client its command.
LEMMA OfferStands ==
  ASSUME OfferInv, Unmoved,
         Reading' /\ LocalMap(reply)' /\ LocalMap(wire)',
         UNCHANGED <<stack, command, cache, user, reached, began>>
  PROVE  OfferInv'
<1>1. Counted'
  BY DEF OfferInv, Counted, Unmoved
<1>2. Remembered'
  BY RememberedStands DEF OfferInv
<1>3. Named'
  BY DEF OfferInv, Named
<1> QED BY <1>1, <1>2, <1>3 DEF OfferInv

\* A change of the outside makes nothing false: it is counted.
LEMMA OutsideOffer ==
  ASSUME OfferInv, TypeInv, Outside, UNCHANGED <<stack, user_side, sshd>> PROVE OfferInv'
<1>1. UNCHANGED <<stack, command, cache, reached, began, pc, user, conf, introspect, identities,
                  account_map, reply, wire>>
  BY DEF Outside, Tick, Deactivate, Link, Unlink, Authenticate, EditMap, EditConf,
         Register, Event, Becomes, locals, user_side, sshd
<1>2. CASE Tick
  <2>1. Unmoved
    BY <1>2 DEF Tick, Becomes, Unmoved, TypeInv, TypeOK, World
  <2> QED BY <1>1, <2>1, ReadingStands, OfferStands DEF OfferInv
<1>3. CASE ~Tick
  <2>1. events' = events + 1
    BY <1>3 DEF Outside, Deactivate, Link, Unlink, Authenticate, EditMap, EditConf,
         Register, Event
  <2>2. Counted' /\ ~Quiet'
    BY <1>1, <2>1 DEF OfferInv, Counted, Quiet
  <2>3. Reading' /\ LocalMap(reply)' /\ LocalMap(wire)'
    BY <1>1, <2>2 DEF OfferInv, Reading, LocalMap
  <2>4. Remembered'
    BY <1>1, <2>1 DEF OfferInv, Counted, Remembered
  <2>5. Named'
    BY <1>1 DEF OfferInv, Named
  <2> QED BY <2>2, <2>3, <2>4, <2>5 DEF OfferInv
<1> QED BY <1>2, <1>3

\* Our module is called: from now on it reads what the world is.
LEMMA CallOursOffer ==
  ASSUME OfferInv, IInv, CallOurs PROVE OfferInv'
<1>1. /\ Begin(command.account) /\ reached' = TRUE /\ began' = events
      /\ UNCHANGED <<stack, command, cache>>
  BY DEF CallOurs, user_side
<1>2. /\ user' = command.account /\ conf' = world.conf /\ wire' = None
      /\ pc' \in {"idle", "prompt"} /\ UNCHANGED <<world, events, reply>>
  BY <1>1 DEF Begin, environment
<1>3. Counted' /\ Unmoved
  BY <1>1, <1>2 DEF OfferInv, Counted, Unmoved
<1>4. Reading' /\ LocalMap(reply)' /\ LocalMap(wire)'
  BY <1>2 DEF OfferInv, Reading, LocalMap, Says, Fetched
<1>5. Remembered'
  BY <1>1, <1>3, RememberedStands DEF OfferInv
<1>6. Named'
  BY <1>1, <1>2 DEF OfferInv, Named
<1> QED BY <1>3, <1>4, <1>5, <1>6 DEF OfferInv

\* A new attempt, with or without an account chosen from the cached map.
LEMMA OpenOffer ==
  ASSUME OfferInv, UNCHANGED vars, NEW name \in {"policy", "accounts", "ssh"}, NEW asked, NEW op,
         NEW account \in Accounts, Open(name, asked, op, account), Remembered',
         op = "login" /\ asked = None => cache' # None /\ account \in cache'.accounts
  PROVE  OfferInv'
<1>1. /\ UNCHANGED <<stack, began>> /\ reached' = FALSE
      /\ command'.name = name /\ command'.asked = asked /\ command'.op = op
      /\ command'.account = account
  BY DEF Open
<1>2. Unmoved /\ UNCHANGED <<pc, user, conf, introspect, identities, account_map, reply, wire>>
  BY DEF Unmoved, vars
<1>3. Reading' /\ LocalMap(reply)' /\ LocalMap(wire)'
  BY <1>1, <1>2, ReadingStands DEF OfferInv
<1>4. Counted'
  BY <1>1, <1>2 DEF OfferInv, Counted, Unmoved
<1>5. Named'
  BY <1>1 DEF OfferInv, Named
<1> QED BY <1>3, <1>4, <1>5 DEF OfferInv

\* A command that ends leaves the offer to the next one.
LEMMA EndOffer ==
  ASSUME OfferInv, UNCHANGED vars, End, Remembered' PROVE OfferInv'
<1>1. /\ UNCHANGED <<stack, began>> /\ reached' = FALSE
      /\ command'.name = "none" /\ command'.op = "none" /\ command'.account = None
  BY DEF End, Idle
<1>2. Unmoved /\ UNCHANGED <<pc, user, conf, introspect, identities, account_map, reply, wire>>
  BY DEF Unmoved, vars
<1>3. Reading' /\ LocalMap(reply)' /\ LocalMap(wire)'
  BY <1>1, <1>2, ReadingStands DEF OfferInv
<1>4. Counted'
  BY <1>1, <1>2 DEF OfferInv, Counted, Unmoved
<1>5. Named'
  BY <1>1 DEF OfferInv, Named
<1> QED BY <1>3, <1>4, <1>5 DEF OfferInv

\* An account taken from the cached map is one that was offered.
LEMMA LoginWithOffer ==
  ASSUME OfferInv, UNCHANGED vars, cache' # None, cache'.accounts \subseteq Accounts,
         LoginWith(cache'.accounts), Remembered'
  PROVE  OfferInv'
<1> DEFINE account == Choose(cache'.accounts)
<1>1. CASE account = None
  BY <1>1, EndOffer DEF LoginWith
<1>2. CASE account # None
  <2>1. account \in cache'.accounts /\ account \in Accounts
    BY <1>2, ChosenAccount
  <2>2. Open("ssh", None, "login", account)
    BY <1>2 DEF LoginWith
  <2> HIDE DEF account
  <2> QED BY <2>1, <2>2, OpenOffer
<1> QED BY <1>1, <1>2

\* A command starts with the cache as it is.
LEMMA CommandOffer ==
  ASSUME IInv, OfferInv, AskPolicy \/ ShowAccounts \/ (\E a \in Accounts : OAuthSshTo(a)) \/ OAuthSsh
  PROVE  OfferInv'
<1>1. UNCHANGED <<vars, cache>>
  BY DEF AskPolicy, ShowAccounts, OAuthSshTo, OAuthSsh, Starts
<1>2. GlobusAccount \in Accounts /\ None \notin Accounts
  BY OAuthSshAssumption DEF OAuthSshAssumption
<1>3. ASSUME reached' = FALSE PROVE Remembered'
  BY <1>1, <1>3, RememberedStands DEF OfferInv, Unmoved, vars
<1>4. \A name, asked, op, account : Open(name, asked, op, account) => reached' = FALSE
  BY DEF Open
<1>5. CASE AskPolicy
  BY <1>1, <1>2, <1>3, <1>4, <1>5, OpenOffer DEF AskPolicy
<1>6. CASE ShowAccounts
  BY <1>1, <1>2, <1>3, <1>4, <1>6, OpenOffer DEF ShowAccounts
<1>7. CASE \E a \in Accounts : OAuthSshTo(a)
  <2>1. PICK a \in Accounts : Open("ssh", a, "login", a)
    BY <1>7 DEF OAuthSshTo
  <2>2. a # None
    BY <1>2
  <2> QED BY <1>1, <1>3, <1>4, <2>1, <2>2, OpenOffer
<1>8. CASE OAuthSsh /\ cache = None
  BY <1>1, <1>2, <1>3, <1>4, <1>8, OpenOffer DEF OAuthSsh
<1>9. CASE OAuthSsh /\ cache # None
  <2>1. LoginWith(cache'.accounts) /\ cache' # None /\ cache'.accounts \subseteq Accounts
    BY <1>1, <1>9 DEF OAuthSsh, IInv, SysInv, CommandKnown
  <2>2. reached' = FALSE
    BY <2>1, <1>4 DEF LoginWith, End
  <2> QED BY <1>1, <1>3, <2>1, <2>2, LoginWithOffer
<1> QED BY <1>5, <1>6, <1>7, <1>8, <1>9

\* The map that send_command() has returned is put into the cache.
LEMMA EndAttemptOffer ==
  ASSUME IInv, OfferInv, EndAttempt PROVE OfferInv'
<1>1. Over /\ UNCHANGED vars
  BY DEF EndAttempt
<1>2. \A name, asked, op, account : Open(name, asked, op, account) => reached' = FALSE
  BY DEF Open
<1>3. reached' = FALSE
  BY <1>2 DEF EndAttempt, LoginWith, End
<1>4. CASE RepliedTo("get_account_map")
  <2> DEFINE accounts == Head(handler.reply).permitted_accounts
  <2>1. /\ handler.reply # <<>> /\ Decodable(handler.reply)
        /\ Head(handler.reply).code \notin ErrorCodes
    BY <1>4 DEF RepliedTo, SendCommandOutcome, ErrorOutcome
  <2>2. /\ reached /\ wire # None /\ Head(handler.reply) = wire
        /\ wire.code = "ACCOUNT_MAP" /\ accounts \subseteq Accounts
    BY <1>1, <1>4, <2>1, ReplyRead DEF RepliedTo, IInv, Sent
  <2>3. accounts \subseteq LocalAccounts
    BY <2>2 DEF OfferInv, LocalMap
  <2>4. Quiet => accounts = Mappings(world) \cap LocalAccounts
    BY <2>2 DEF OfferInv, Reading, Says
  <2>5. cache' = [accounts |-> accounts, since |-> began]
    BY <1>4 DEF EndAttempt
  <2>6. LoginWith(accounts) \/ End
    BY <1>4 DEF EndAttempt
  <2> HIDE DEF accounts
  <2>7. cache'.accounts = accounts /\ cache'.since = began
    BY <2>5
  <2>8. cache' # None
    <3>1. began \in Nat /\ accounts \in SUBSET Accounts
      BY <2>2 DEF OfferInv, Counted
    <3>2. cache' \in [accounts: SUBSET Accounts, since: Nat]
      BY <2>5, <3>1
    <3> QED BY <3>2, OAuthSshAssumption DEF OAuthSshAssumption
  <2>9. Remembered'
    <3>1. Mappings(world)' = Mappings(world) /\ UNCHANGED events
      BY <1>1, MappingsStand DEF vars, Unmoved
    <3> QED BY <1>3, <2>3, <2>4, <2>7, <3>1 DEF Remembered, OfferInv, Counted, Quiet
  <2>10. CASE End
    BY <1>1, <2>9, <2>10, EndOffer
  <2>11. CASE LoginWith(accounts)
    BY <1>1, <2>2, <2>7, <2>8, <2>9, <2>11, LoginWithOffer
  <2> QED BY <2>6, <2>10, <2>11
<1>5. CASE ~RepliedTo("get_account_map")
  <2>1. End /\ (UNCHANGED cache \/ cache' = None)
    BY <1>5 DEF EndAttempt
  <2>2. ASSUME UNCHANGED cache PROVE Remembered'
    BY <1>1, <1>3, <2>2, RememberedStands DEF OfferInv, Unmoved, vars
  <2>3. ASSUME cache' = None PROVE Remembered'
    BY <2>3 DEF Remembered
  <2>4. Remembered'
    BY <2>1, <2>2, <2>3
  <2> QED BY <1>1, <2>1, <2>4, EndOffer
<1> QED BY <1>4, <1>5

\* A step of the module that serves a command.
LEMMA ServedOffer ==
  ASSUME IInv, OfferInv, Login, ~ \E u \in Accounts : Begin(u),
         UNCHANGED <<stack, command, cache, reached, began>>
  PROVE  OfferInv'
<1>1. /\ Reading' /\ LocalMap(reply)' /\ LocalMap(wire)'
      /\ UNCHANGED <<world, events, user>>
  BY LoginReads DEF IInv, OfferInv
<1>2. Unmoved
  BY <1>1 DEF Unmoved
<1> QED BY <1>1, <1>2, OfferStands

\* A step that is not the module's.
LEMMA StillOffer ==
  ASSUME OfferInv, UNCHANGED vars, UNCHANGED <<stack, command, cache, reached, began>>
  PROVE  OfferInv'
<1>1. Unmoved /\ UNCHANGED <<pc, user, conf, introspect, identities, account_map, reply, wire>>
  BY DEF Unmoved, vars
<1> QED BY <1>1, ReadingStands, OfferStands DEF OfferInv

\* The handler's answer is a request, or ends the prompt, or is none of ours.
LEMMA AnswerRoundOffer ==
  ASSUME IInv, OfferInv, AnswerRound PROVE OfferInv'
<1> DEFINE q == [op |-> command.op,
                 token |-> IF command.op = "get_security_policy" THEN None ELSE Token]
<1>1. UNCHANGED <<stack, command, cache, reached, began>>
  BY DEF AnswerRound, Answered
<1>2. \/ Handle(handler, round).sends /\ at = "ours" /\ Receive(q)
      \/ HangUp \/ UNCHANGED vars
  BY DEF AnswerRound, Answered
<1>3. CASE Handle(handler, round).sends /\ at = "ours" /\ Receive(q)
  <2>1. at # "none"
    BY <1>3
  <2>2. q \in Request
    BY <2>1, OAuthSshAssumption
       DEF OAuthSshAssumption, IInv, SysInv, CommandKnown, ClientOps, Request, Ops
  <2>3. pc = "prompt"
    BY <1>3 DEF Receive
  <2> HIDE DEF q
  <2> QED BY <1>1, <1>3, <2>2, <2>3, ServedOffer DEF Login, Begin
<1>4. CASE HangUp
  BY <1>1, <1>4, ServedOffer DEF Login, HangUp, Begin
<1>5. CASE UNCHANGED vars
  BY <1>1, <1>5, StillOffer
<1> QED BY <1>2, <1>3, <1>4, <1>5

\* Every step of the system keeps OfferInv.
LEMMA OfferStep ==
  ASSUME IInv, OfferInv, [OAuthSshNext]_all_vars PROVE OfferInv'
<1>1. CASE UNCHANGED all_vars
  BY <1>1, StillOffer DEF all_vars, user_side, sshd
<1>2. CASE AskPolicy \/ ShowAccounts \/ (\E a \in Accounts : OAuthSshTo(a)) \/ OAuthSsh
  BY <1>2, CommandOffer
<1>3. CASE AnswerRound
  BY <1>3, AnswerRoundOffer
<1>4. CASE EndAttempt
  BY <1>4, EndAttemptOffer
<1>5. CASE CallOthers \/ AskToken \/ Returned
  <2>1. UNCHANGED vars /\ UNCHANGED <<stack, command, cache, reached, began>>
    BY <1>5 DEF CallOthers, AskToken, Returned, user_side
  <2> QED BY <2>1, StillOffer
<1>6. CASE CallOurs
  BY <1>6, CallOursOffer
<1>7. CASE Serve
  <2>1. Login /\ pc \in Serving /\ UNCHANGED <<stack, command, cache, reached, began>>
    BY <1>7 DEF Serve, user_side, sshd
  <2> QED BY <2>1, ServedOffer DEF Begin, Serving
<1>8. CASE Say
  <2>1. SendReply /\ UNCHANGED <<stack, command, cache, reached, began>>
    BY <1>8 DEF Say, user_side
  <2> QED BY <2>1, ServedOffer DEF Begin, Login, SendReply
<1>9. CASE Outside /\ UNCHANGED <<stack, user_side, sshd>>
  BY <1>9, OutsideOffer DEF IInv
<1> QED BY <1>1, <1>2, <1>3, <1>4, <1>5, <1>6, <1>7, <1>8, <1>9 DEF OAuthSshNext, Client, Server

\* Nothing is offered before the first command.
LEMMA OfferInit == OAuthSshInit => OfferInv
<1> SUFFICES ASSUME OAuthSshInit PROVE OfferInv
  OBVIOUS
<1>1. began = 0 /\ events = 0 /\ pc = "idle" /\ reply = None /\ wire = None /\ cache = None
  BY DEF OAuthSshInit, Init
<1>2. /\ stack \in Stacks /\ command.name = "none" /\ command.op = "none" /\ command.account = None
      /\ reached = FALSE
  BY DEF OAuthSshInit, Idle
<1>3. Reading /\ LocalMap(reply) /\ LocalMap(wire)
  BY <1>1 DEF Reading, LocalMap, Says, Serving, Fetched
<1> QED BY <1>1, <1>2, <1>3 DEF OfferInv, Counted, Remembered, Named

\* An account that oauth-ssh has chosen from the map of the service is refused
\* as unmapped only if something has changed since the map was made: the two
\* commands of the module build the same mappings.
LEMMA OfferKept ==
  ASSUME IInv, OfferInv PROVE OfferedAccountsAccepted
<1> SUFFICES ASSUME Over, command.op = "login", command.asked = None,
                    Sent # None, Sent.code = "INVALID_ACCOUNT", ~(events > cache.since)
             PROVE  FALSE
  BY DEF OfferedAccountsAccepted
<1>1. reached /\ wire # None /\ wire.code = "INVALID_ACCOUNT"
  BY DEF Sent
<1>2. cache # None /\ command.account \in cache.accounts /\ user = command.account
  BY <1>1 DEF OfferInv, Named
<1>3. events = cache.since /\ Quiet
  BY <1>1, <1>2 DEF OfferInv, Counted, Remembered, Quiet
<1>4. user \in Mappings(world)
  BY <1>2, <1>3 DEF OfferInv, Remembered
<1>5. user \notin Mappings(world)
  BY <1>1, <1>3 DEF OfferInv, Reading, Says
<1> QED BY <1>4, <1>5

\* For every realm, stack, configuration and number of commands.
THEOREM MapsAgree == OAuthSshSpec => []OfferedAccountsAccepted
  BY OfferKept, OfferInit, OfferStep, SystemInit, SystemStep, PTL DEF OAuthSshSpec

\* What sshd and the handler pass on has at most two encodings.
LEMMA ClientTypes ==
  ASSUME IInv, OfferInv PROVE ClientTypeOK
<1>1. \A m \in Message : m.layers \in 0 .. 2
  BY DEF Message, Reply, Text
<1>2. handler.state \in {0, 1} /\ handler.reply \in Seq(Message)
  BY DEF IInv, SysInv, TextsKnown
<1>3. \A k \in DOMAIN handler.reply : handler.reply[k].layers \in 0 .. 2
  BY <1>1, <1>2
<1>4. at \in {"none", "before", "ours", "after", "failed", "accepted"}
  BY DEF IInv, SysInv, Phase, Places
<1> QED BY <1>2, <1>3, <1>4 DEF ClientTypeOK, OfferInv, Named, Remembered

\* Every variable of the client and of sshd keeps its type.
THEOREM ClientTypeCorrect == OAuthSshSpec => []ClientTypeOK
  BY ClientTypes, OfferInit, OfferStep, SystemInit, SystemStep, PTL DEF OAuthSshSpec
=============================================================================
