# A verification project for oauth-ssh

oauth-ssh lets a user log in to an SSH server with an OAuth bearer token. The
server side is a PAM module in C (`src/server/src/pam`), the client side two
Python commands, `oauth-ssh` and `oauth-ssh-token` (`src/client/oauth_ssh`).
This directory holds TLA+ models of both, TLC configurations that check them on
small instances, and TLAPS proofs.

## 1. Inventory

| Part | State it keeps | Operations | Modelled in |
|---|---|---|---|
| PAM login module (`pam.c`) | per connection: configuration, request, results of the calls, `pam_status`, `*reply`; nothing survives the attempt | `pam_sm_authenticate()`: read configuration, prompt, decode and route a command (`get_security_policy`, `get_account_map`, `login`, a pasted token), reply | `PamOAuth` |
| Globus Auth client of the server (`globus_auth.c`, `http.c`, `introspect.c`, `client.c`, `identities.c`) | none | introspect a token, get the service's own client record, get the identities; parse their replies | `GlobusReply`; one action per call in `PamOAuth` |
| Account map (`account_map.c`) | the map under way | read each map file, add the `idp_suffix` mapping | `ReadMapFile`, `MapAccounts` of `PamOAuth` |
| Configuration (`config.c`) | `struct config`, the `*_set` flags | `parse_file()`, once per attempt | `ConfigFile`; its result is `Config` of `Realm` and `Accepted`, `Begin` of `PamOAuth` |
| SciToken verification (`scitokens_verify.c`) | none | `scitoken_verify()` | `VerifySciToken*` of `PamOAuth` |
| Command exchange of the client (`transport.py`, `ssh_service.py`) | handler state, reply | `send_command()`, `CmdInjectHandler` in each prompt round | `OAuthSsh` |
| oauth-ssh (`oauth_ssh.py`) | the account to use, the cached account map | choose the account, log in | `OAuthSsh`, `TokenStore` |
| Token store of the client (`oauth_ssh_token.py`, `config.py`) | `~/.oauth-ssh.cfg`: per host a token, a policy and an account map; the client's own credential | authorize, revoke, find an access token, show; load, save and delete in the file | `TokenStore` |
| Globus Auth client of the client (`globus_auth.py`) | none (the credential is in the file) | register, grant, refresh, validate, revoke | actions of `TokenStore` |
| FQDN registration (`oauth_ssh_config.py`) | records at Globus Auth | register | not modelled (section 6); an outside action of `PamOAuth` |
| Line reader (`parser.c`) | line buffer | `read_next_pair()` | `LineReader` |
| JSON (`json.c`) | none | typed access to a reply | `GlobusReply` |
| base64, strings, logging | none | conversions | not modelled |

How they interact: a client command opens an SSH connection; sshd runs the PAM
module in a process of that connection; the module prompts, the client answers
the prompt with a command in base64-encoded JSON; the module calls Globus Auth
up to three times, blocking, reads the map files, and returns a control value
to PAM and possibly a reply to the client. The commands of one user share the
file and the tokens at Globus Auth, and nothing else. Connections share only
what is outside of them: Globus Auth, the clock, the administrator's files.

What is hard:

* *Evidence ages.* What the module decides on was fetched at different instants
  during which tokens are revoked, identities unlinked and files edited.
* *Partial failure.* Each call may fail after others succeeded, and the
  control value and the reply must fit the failure.
* *Replies.* They may be encoded once or twice, must be withheld from users
  who pasted a token, and must not accompany a success.
* *The shared file.* It is neither locked nor replaced atomically, and every
  save is a load, a change and a rewrite of everything.
* *Prompts are guessed.* The client tells the module's prompt, its reply and the
  questions of other PAM modules apart by their shape.
* *Files and replies are written by others.* Lines of any length, repeated and
  misspelt directives, members that are missing or of another type.
* *Tokens are live outside the file.* A crash, a lost reply or an ignored
  failure can leave a token active that nobody knows any more.

What makes each part correct is stated in section 3; all hazards are listed,
at their lines, in `PROJECT.json`.

## 2. Modules

    Realm                what exists: tokens, identities, providers, files
      LoginContract        abstract: what a login attempt promises
      PamOAuth             detailed: pam_sm_authenticate()
        PamOAuthProofs       theorems about PamOAuth
          LoginContractProofs  PamOAuth implements LoginContract
        MCPamOAuth           instances for TLC
        OAuthSsh             composition: the client's commands, sshd, the
                             other PAM modules, and PamOAuth
          OAuthSshProofs       theorems about the composition
          MCOAuthSsh           instances for TLC
    GlobusReply          one call to Globus Auth and the parsers of its reply
      GlobusReplyProofs    theorems about GlobusReply
    LineReader           parser.c: lines and their words
      ConfigFile           config.c: from the file to struct config
        ConfigFileProofs     theorems about both
        MCConfigFile         instances for TLC
    TokenStore           detailed: the client's commands over one file
      TokenStoreProofs     theorems for any number of commands at once
        TokenStoreAloneProofs  for one command at a time: no token is forgotten
          TokenStoreIntentProofs  what the user meant by authorize and revoke
      MCTokenStore         instances for TLC

### PamOAuth

`pc` is where `pam_sm_authenticate()` is. Each action is the code from one
blocking point to the next: `Begin` (`config_init`), `Receive`
(`_process_command` with the routing in `_cmd_login`), `Introspect`,
`GetClient`, `GetIdentities` with the variants in which the call fails, the
checks `ValidateToken` and `CheckSession`, `ReadMapFile` for each file,
`MapAccounts`, `VerifySciToken*`, `SendReply`. `introspect`, `client`,
`identities` and `account_map` are the local variables of the two commands;
`status` and `reply` are `pam_status` and `*reply`; `wire` is what the
conversation function was given. `Killed` is a client that disconnects or
sshd's `LoginGraceTime`, since curl has no timeout here.

`world` is the outside: clock, active tokens, linked identities, session,
registered names, map files, configuration. Between any two steps it may
change (`Outside`). `seen` and `unreachable` are history variables: the worlds
since the request arrived, and whether a call failed.

One attempt at a time, repeated, is modelled: the module keeps nothing from
one attempt to the next, and attempts of other connections can affect it only
through the outside, which may do anything anyway.

Abstractions: a reply is its code, its payload and the number of base64 layers
around it; a map file is a set of (identity, account) pairs, since a line
matches an identity by its id or by its username and the order of lines does
not matter. A file is read in one step, and the files in any order: most are
read through a single buffer of stdio. A line of commas alone, on which
`account_map.c:94` follows a NULL key, ends the process as `Killed` does. The `ssh` suffix of scopes is left out; debug builds, where
`ASSERT` stops the process, are not modelled. `get_account_map` does not check
that `globus_auth` is among the authentication methods; neither does the model.

### LoginContract

The promise, without calls or control points: a request is `open`, `evidence`
is the set of instants seen since it arrived, and `Decide` may answer only
what `Justified` allows. It is two-sided. A login or a list of accounts needs
one instant at which the token was active and unexpired, the session met the
policy and the identities were linked; each map file may have been read at an
instant of its own, and the scope and the lower ends of the token's lifetime
may have been established at another. A refusal that blames the user
(`INVALID_TOKEN`, `SESSION_VIOLATION`, `INVALID_ACCOUNT`) needs an instant at
which it was true; for a session, the instant whose description of it is judged
is not later than the instant of the clock it is judged by. A login with a
SciToken needs an instant at which the token was active, and that it was issued for
the account by a listed issuer. `PamOAuth!ContractSpec` is this specification under the
refinement mapping `open <- pc \in Serving`, `evidence <- seen`.

The policy operators of the contract (`Permits`, `Meets`, `Mapped`) are
written from what the comments of `oauth-ssh.conf` and `README.adoc` say, for
instance "when used with permitted_idps, the user must use mfa with one of the
permitted_idps"; those of `PamOAuth` are translated from the loops of the code.

### TokenStore

`proc[p]` is a process with the command it runs: the statement it is at, its
`Token` objects, and a save under way. A save is the four steps of
`config.py`: `Load` the section and put the object in it, `Reload` the file
and put the section in it, `Truncate`, `Write`. `revoke_token()` is `LoadOld`
and `RevokeOld`; `find_access_token()` is `LoadToken` ... `GiveUp`. At Globus
Auth, tokens are numbered as they are issued and `live` are the active ones.
Any call may fail, a grant or refresh may be carried out with its reply lost,
a process may die at any statement, a token may expire.

The file is a record, or `Garbled`: two processes that write over each other
may leave the end of the longer text behind, so what remains is the new text,
the old longer one it is the beginning of, or something configparser refuses.
A save longer than one buffer would be several writes; it is one here.
`refresh_token()` stores the whole reply (`oauth_ssh_token.py:66`); the model replaces
the access token only, which assumes that Globus Auth answers a refresh without a new
refresh token.

A command named `ssh` stands for `oauth-ssh` up to the login, `show token`, and
`show accounts` without a cached map: all three are `find_access_token()`,
then possibly a fetched account map that is saved. The History variables
`standing`, `since`, `dead` and `written_off` are what the properties compare
with; no step of the code depends on them.

### OAuthSsh

The variables of `PamOAuth` and, around them, the two other sides of a login.
`command`, `handler` and `cache` are the client's: the command it runs with the
operation under way, `CmdInjectHandler`, and the account map in the user's file.
`at`, `said` and `round` are sshd's: which module of the PAM stack it is in, the
texts it has been given since the last prompt, and the information request the
client has not answered. `stack` is what the other modules of a site do: in
front of ours nothing, a notice or a question for a one-time code, after it a
denial or a question for a password.

`AnswerRound` is one call of the handler. It hands over the command if the
first prompt is exactly the module's own; afterwards the first text it is shown
is the reply. `EndAttempt` is `send_command()` and what the command does next:
`oauth-ssh` without an account fetches the account map, caches it, chooses the
local user's name or the only account, and logs in. `authorize` asks for the
policy and, if the user goes on to grant it, deletes the section of the host
(`oauth_ssh_token.py:168`), so that `EndAttempt` may forget the cached map then; the
rest of `authorize` is `TokenStore`. On the server's side
`CallOurs`, `AskToken`, `Serve`, `Say` and `Returned` are the actions of
`PamOAuth`, each at the place where sshd lets it happen: the proof of
`SystemKeepsContract` is that these are all of them. `Returned` is the control
`success=done maxtries=die default=ignore` of `README.adoc`.

What sshd and PAM do is external, modelled from what the comments of
`CmdInjectHandler` show of it. No other module asks with the text of our prompt; one
that did, in front of ours, would be given the command. The access token is there from the start: how it
is found is `TokenStore`.

### GlobusReply

A reply is a function from the members of its document to what stands there: a
type, null, or nothing. `Members` lists the members of each object in the order
in which the code gets them, `Element` what a list holds. `Value` is
`get_value()` of the three parsers with the functions for containers, `List`
those for lists, `Object` one object, member by member. No document has an
object more than two levels below it, so that `Innermost`, `Middle` and
`Document` are the parser at the three levels, without recursion. `Parsed` is
the three `*_init()`. A parser stops at the first member it refuses; `got` is
what the resource then holds. `Request`, `Decode`, `Parse` and `Verify` are the
steps of `get_*_resource()`. `AsDocumented` is the table of `introspect.h` read
as a whole, without order. `PamOAuth` rests on `NothingMissing`: it takes a
resource as whole.

### LineReader and ConfigFile

A file is a sequence of bytes, of which only a few matter to the reader: the
line end, space, comma, `#`, NUL and other white space; a word of the file that
matters as a whole is one byte. `Fill` is one round of `_read_full_line()`: the buffer
grows, `fgets()` puts up to `ReadLen - 1` bytes at the end of the C string,
and what stands behind a NUL is lost. `written` is how far `fgets()` wrote.
`ConfigFile` takes the pairs as `parse_file()` does: `ParseSingle` for the five
directives that may occur once, `ParseMerged` for the four that accumulate,
then `Complete`. `status` is the one variable every branch assigns and every
`goto cleanup` returns. `ToInt` is a long or a product stored in an int of
`2*IntHalf` values, as the compiler wraps it; where the code leaves the overflow
undefined (`60*authentication_timeout`), `Limits` holds both results a build can
produce. `convert_bool()` ignores case: of each word the model has the lower-case form
and one more that stands for every other capitalisation.

`WellFormed` and `Means` say what a file must be and mean, without its order. Two
demands of the comments in `oauth-ssh.conf` are left out of `WellFormed`, since the code
does not make them: that the word after `mfa` is `true` or `false` (line 95), and that
issuers are given for `scitokens` (line 101). The first is `MfaValueChecked`, which a
violation run refutes; the second is told in section 3.

## 3. Runs

All bounds are constants. `MaxEvents` bounds the changes of the outside (in
`TokenStore`: expired tokens and crashes), `MaxTime` the clock, `MaxTokens` and
`MaxCommands` what is issued and started.

| Run | Checks | Expected |
|---|---|---|
| `login` | `TypeOK`, `OutageIsUnavailable`, `SilentLogin`, `ContractSpec`, from three families of initial worlds and configurations: one token, two identities of two providers and three policies (none with suffix mapping; provider by domain, timeout and MFA at once; provider by id), the token good at tick 1 only and for one scope, under a name that may lose its registration; two SciTokens, of a listed issuer and of another, also where none is listed; two map files, between which lines move while they are read | pass |
| `client_server` | `ClientTypeOK`, `OutcomeIsOurs`, `OfferedAccountsAccepted`, `TokenToOurPromptOnly`, `CommandEnds`: every stack, maps with no, one or two accounts, with and without a session policy, two commands, one outside event, a token that expires | pass |
| `config_file` | `ConfigTypeOK`, `NoOverrun`, `PairsAsWritten`, `AcceptedAsMeant`, `NeverLaxer`, `Terminates`: the four lines of a Globus Auth site with any of them missing and one more, or all with two more out of 26, in a build with `WITH_SCITOKENS`; every short string of special bytes | pass |
| `replies` | `ReplyTypeOK`, `AcceptedAsDocumented`, `NothingMissing`, `RefusedOtherwise`: three calls, replies with up to two members replaced by any of eight kinds, and bodies that are no document | pass |
| `store_alone` | `TypeOK`, `AuthorizedOnce`: one command at a time, three commands from an empty file, sites with and without timeout, lost replies and failed calls | pass |
| `store_crash` | `NoTokenForgotten`, `RevokeIsFinal`: one command at a time that may die anywhere, two hosts, one authorized before | pass |
| `store_concurrent` | `NoDeadToken`: two commands at once, any pair of authorize, revoke and ssh, an authorized host | pass |
| `unavailable`, `session_reply`, `mfa_value`, `store_race`, `store_revoke_race` | what a document says and the code does not do, see below | violation |

Why the bounds are enough. In `PamOAuth` a behaviour is one attempt after the
other, each of at most ten steps; an outcome depends on which fact changed
between which two calls, and each fact is changed at most once or twice in any
scenario that matters: once to spoil evidence, once more to restore it. Two
identities are needed to tell whose provider and whose account are meant, two
map files to tell at which instant each was read, a clock of three ticks to go
from before a token is issued to after it expired. `Minute` is 1 there, so that
a timeout passes within the clock's range. In `TokenStore` a hazard is a race
between the saves of two commands or between one command and the crash of
another; a third command after them shows the damage. `MaxTokens` leaves room
for the known pair and two refreshes, or for two grants and a refresh.
`Minute` is 2, so that minutes and ticks differ. `Symmetry` exchanges the two
processes, which the specification never names; it is used for an action
property only.

In `OAuthSsh` one command is an attempt or two, and what goes wrong between them
takes one event; the second command starts from the first one's cache.
`ReadLen` (`PARSER_READ_LEN`) is 3 and the short strings have up to five bytes, so
that a line ends before, at and after each border of a read and of the buffer;
`IntHalf` is 16 and `Minute` 4, so that of the three timeouts a file may give one fits
an int with its product, one without, and one does not fit. Two faults in a reply are a member and
one of the members around it or before it.

`CHECK_DEADLOCK FALSE` is set in the runs of `TokenStore`, `OAuthSsh`, `ConfigFile` and
`GlobusReply`, where the bounded number of commands, the file or the call ends.
The runs of `PamOAuth` never stop: a new attempt may always begin.

What the passing runs show:

* `ContractSpec`: no schedule of revocations, relinking, edits and ticks
  between the calls gets a user in, or shows them accounts, or has them
  refused with a reason, without an instant within the request that justifies
  it. This is the answer to the module's time-of-check questions: its evidence
  ages, but never beyond the arrival of the request.
* `OutageIsUnavailable`: a failed call neither logs in nor blames the user.
* `SilentLogin`: nothing is sent to the client on success or for a pasted token.
* `AuthorizedOnce`: while the refresh token is active and the site's timeout has not
  passed, a command never sends the user to authorize again, whatever calls failed
  before it. This holds for one command at a time, none of which is killed, and
  only for those (`store_race`, and below it the crash).
* `NoTokenForgotten`: every active token is in the file or in a running
  command, except after an ignored failure, a lost reply or a crash. Those tokens the
  property writes off: it shows where tokens are not lost, and says nothing of a
  cleanup after such a failure, which the code does not attempt.
* `RevokeIsFinal`: after a revoke that reported success no command obtains a
  token until authorize is run, also when others crashed before. This holds for one
  command at a time, and only for that (`store_revoke_race`).
* `NoDeadToken`: with two commands at once no access token is handed out that was
  already inactive when the command began, although saves may
  resurrect old objects in the file: every token is validated before use, and that is
  why it holds. The property says nothing of the file.
* `TokenToOurPromptOnly`: no stack makes the client give its token to another
  module, or twice in an attempt.
* `OutcomeIsOurs`: a channel means the module said yes in this attempt, a reply
  once encoded arrives as what it says, and no other module's text is taken
  for one. (Where another module puts a text in front of the prompt, the client
  does not recognize the prompt and the login fails as a misconfigured service.)
* `OfferedAccountsAccepted`: `get_account_map` and `login` agree: an account chosen
  from the map is refused as unmapped only if something has changed since.
* `CommandEnds`: client and server never wait for each other.
* `AcceptedAsMeant`: `parse_file()` accepts the well-formed files in any order of
  their lines and nothing else, with their values; only a line with commas and
  no word kills the process. The run is of a build with SciTokens, where both
  branches of the last checks are taken; the theorem is of both builds. Well-formed
  is weaker than the documentation in the word after `mfa` and in the issuers
  (section 2). `PairsAsWritten`, `NoOverrun`, `Terminates`: the growing buffer neither
  overruns nor loses or splits a line nor hangs.
* `NeverLaxer`: a timeout in minutes that fits an int is never enforced as a longer
  one. (A number that does not fit an int is cut to one: 4294967296 becomes 0,
  which switches the check off, and so does a word that is no number.)
* `AcceptedAsDocumented`, `NothingMissing`, `RefusedOtherwise`: the parsers accept an
  introspection exactly if it is one by `introspect.h`; what the decision follows
  later is there; and but for three shapes (no body, a body that is no object, an
  authentication that is none) a malformed reply is refused and kills nothing.

What the violation runs show, with the quoted documents in `PROJECT.json`:

* `unavailable`: a revoked or expired token is answered as an outage
  (`globus_auth.c:75`), although `README.adoc` reserves that for Globus Auth
  being out of reach.
* `session_reply`: the reply to a refused session is encoded twice
  (`pam.c:525` and `pam.c:669`), so the client cannot tell the user to
  reauthorize.
* `store_race`: the truncated file is read by another command, and the user
  must authorize again (`config.py:55`). The same file stays behind when a command
  dies between truncating and writing it: with `Procs = {p1}`, `MayCrash = TRUE`,
  `MaxCommands = 2` and `MaxEvents = 2` in `TokenStoreRace.cfg` TLC finds that.
* `store_revoke_race`: a revoke that meets the truncated file does nothing and reports
  success, the other command writes the section, and a token is obtained from it. The
  lost update does the same without the truncated file: `save_object()` writes
  back the section it loaded before revoke deleted it (`config.py:96`).
* `mfa_value`: a misspelt value after `mfa` is accepted and means true
  (`config.c:198`).

Seen while reading, plain in the model and given no run of their own:

* `README.adoc:159` lists a control value `user_unknown` that no path of the module
  returns (it is not in `Statuses`); an unmapped account ends in `auth_err`
  (`pam.c:535`).
* `oauth-ssh.conf:104` documents a list of issuers, but `scitokens_verify.c:32`
  computes its length from the size of a pointer, which gives one: only the first
  issuer counts (`Head(conf.issuers)` in `VerifySciToken`).
* `oauth-ssh.conf:101` says that the issuers must be completed for `scitokens`, but
  `parse_file()` does not ask for them (`Complete` of `ConfigFile`), and the first
  SciToken kills the process (`scitokens_verify.c:37`, `VerifySciTokenCrashes`).

Each property of a passing run has a mutant: an operator next to the
definition it replaces, commented as the slip it is, under which TLC finds the
property violated.

## 4. Fairness and liveness

`OAuthSshSpec` assumes weak fairness of `AnswerRound \/ EndAttempt` and of
`Server`. paramiko calls the handler for each information request and
`send_command()` returns when the attempt has ended; no person is asked on the
way. The server's part goes on because every step of it is local or a call that
returns, fails or is ended by sshd: curl has no timeout here (`http.c`), so what
bounds a call is `LoginGraceTime`, the action `Killed`. Nothing is assumed of a
prompt, which waits for the client. Under this, every command ends
(`CommandEnds`).

`ConfigFile!Spec` assumes weak fairness of its next-state action: a local file
is read and nothing waits. Every file is then accepted, refused or crashes the
process (`Terminates`).

`PamOAuth` alone and `TokenStore` assume none: alone, the prompt waits for a
person, `do_auth_code_grant()` waits for a person, and a process of the client
may be stopped at any time, so the code promises nothing there that must
eventually happen.

## 5. Proofs

Assumed of the constants are their types and which stand-ins differ from what,
never a bound:

* `RealmAssumption` and `PamAssumption` for `PamOAuth`: types, `None` is no
  domain, provider, token or configuration, and the two kinds of tokens differ;
* `OAuthSshAssumption` for `OAuthSsh`: types, and `None` is neither an account
  nor a cached map;
* `ReaderAssumption` and `ConfigFileAssumption` for the file: types, at least two
  bytes a read, and the names of the directives can be written in a file;
* `StoreAssumption` and `StandInsAssumption` for `TokenStore`: types, and `None` and
  `Garbled` are no value a variable may hold otherwise.

TLC evaluates all of them. Three theorems have a hypothesis of their own, the one
under which the runs check their property and without which it does not hold:
`NoTokenIsForgotten` and `RevokedStaysRevoked` speak of one command at a time
(`Procs = {q}`), and so does `AuthorizedOnceOnly`, of commands none of which is
killed (`MayCrash = FALSE`).

The login:

* `PamOAuthProofs!TypeCorrect`: `Spec => []TypeOK`. `TypeOK` alone is not
  inductive: `ValidateToken` reads `introspect` and `client`, `CheckSession`
  reads `identities`. The strengthening adds that what a call returned is
  there from the next control point on, and that a served request has a
  configuration.
* `PamOAuthProofs!OutageNeverDecides` and `NothingLeaks`: from an invariant on
  where a failed call leads and which status a pending reply comes with.
* `LoginContractProofs!ImplementsContract`: `Spec => ContractSpec`, the
  refinement, for any number of identities, tokens, accounts, files and any
  bounds. The witness is the world `w` at the instant of the introspection:
  `Described(w)` says the local variables are what `w` holds, `Established(w)`
  what the checks passed so far have shown of it, `Collected(w)` that the map
  under way is made of files as they were at instants of `seen`. Checks that
  compare with the clock could only have been passed more easily earlier
  (`MeetsEarlier`), which is why one instant suffices.

The client's token store:

* `TokenStoreProofs!TypeCorrect`: `Spec => []TypeOK` for any number of
  processes, hosts and tokens. `TypeOK` alone is not inductive: a save reads its
  section, `revoke_token()` the object it loaded, `refresh_token()` the token of
  the command. `Holds(proc[p])` says what the record holds at each statement.
* `TokenStoreProofs!NoDeadTokenHandedOut`: `Spec => NoDeadToken`, for any
  number of concurrent commands. What was dead when `oauth-ssh` began was issued
  by then and stays dead (`Buried`), and from the statement after its validation
  or its refresh on the token in use is not among it (`Trusted`). `Safe(p)` says
  the same of a step, and one lemma per group of statements establishes it.
* `TokenStoreAloneProofs!NoTokenIsForgotten`: `Spec => []NoTokenForgotten`, with
  whatever fails or dies. Between the statements of a save the file lags behind
  what the command does, so the invariant looks through the save: `Plan(p)` is the
  sections as they will stand once it is over, `Agrees` says at each statement how
  the section of the command's host and its objects fit together (`Alone`), and
  `KeptInv` that every active token is in the plan, in an object of the command or
  written off.
* `TokenStoreIntentProofs!RevokedStaysRevoked`: `Spec => RevokeIsFinal`. A host that
  was revoked has no token, neither in the file nor in a plan, and one that a running
  command may still change is not counted as revoked (`RevokedInv`).
* `TokenStoreIntentProofs!AuthorizedOnceOnly`: `Spec => AuthorizedOnce`. What was
  granted stands in the plan, with its refresh token as long as that is active
  (`GrantedInv`, `Like`); a token once inactive does not come back (`NeverAgain`),
  and the client gives up only without one.

Client and server:

* `OAuthSshProofs!SystemKeepsContract`: `OAuthSshSpec => ContractSpec`. Each step of
  the composition is a step of `PamOAuth` or leaves its variables alone, so that
  `ImplementsContract` carries over; for this the account sshd asks for must be an
  account and the request one the module knows, which is `CommandKnown`.
* `OAuthSshProofs!TokenStaysOurs` and `OutcomeDecided`: for every stack, any number of
  commands and any realm. `OutcomeIsOurs` speaks of the end of an attempt; the
  invariant `SysInv` follows the reply on its way there: `Phase` ties the place
  of sshd to the module's `pc` and `status`, `Exchange` says that what was sent
  is in the module, in sshd's texts, in the open round or in the handler, and
  nowhere twice, and `Answers` that it fits the command.
* `OAuthSshProofs!MapsAgree`: `OAuthSshSpec => []OfferedAccountsAccepted`. What has
  been read of the map files, what a reply says and what is cached is measured
  against the mappings of the world: as long as no event has moved them since, the
  map under way is made of exactly the files read so far (`Reading`), the cached map
  is the world's (`Remembered`), and an account `oauth-ssh` chose by itself is from
  it (`Named`). `MapOf` is what reading map files at one instant yields.
* `OAuthSshProofs!ClientTypeCorrect`: `OAuthSshSpec => []ClientTypeOK`, from the same
  invariants.

Replies:

* `GlobusReplyProofs!AcceptsWhatIsDocumented`, `ResourceIsWhole`, `OnlyThreeKill` and
  `ReplyTypeCorrect`: the four properties of the run for any number of faults in a
  reply and for all of its members at once. One lemma per level says that an object is
  whole if each of its members is, or ends as one of them does (`InnermostOutcome`,
  `MiddleOutcome`, `DocumentOutcome`); from it, one lemma per object says when it is
  accepted, what is kept and what kills, in terms of the reply alone. `ParsedMeans`
  collects them, and `ReplyInv` carries them through the steps of the call.

Files:

* `ConfigFileProofs!BufferSuffices`: `Spec => []NoOverrun`, from the invariant that
  the C string and one `fgets()` fit into `length` at every round, for every
  file and `ReadLen`.
* `ConfigFileProofs!TimeoutNeverLaxer`: `Spec => []NeverLaxer`, from the lemma that
  wrapping never enlarges a positive number (`ToIntShrinks`) and that the timeout
  in `config` is that of the one line that gave it.
* `ConfigFileProofs!AcceptsWhatIsMeant`: `Spec => []AcceptedAsMeant`, for any number of
  lines in any order. `FileInv` says that the configuration is what the lines taken in
  so far mean (`Taken`), that one line is taken in at a time, and that the verdict is
  on all of them. What the accumulating directives mean is a fold over all lines; that
  one more line appends its values to it is `FlattenAppend`, shown by the least place
  at which two folds would differ, since the induction theorems of the library cannot
  be used here.
* `ConfigFileProofs!HandsOverWhatIsWritten`: `Spec => []PairsAsWritten`, for lines of
  any length and every `ReadLen`. `PairsAsWritten` cuts the whole file into lines at
  once; the reader sees it a few bytes at a time. `LineInv` says that the pairs so far
  are those of some `done`, and that the file is `done`, the line under way and `rest`.
  What `done` gives is not disturbed by what follows: text after a line end leaves the
  lines before it alone (`LinesStand`), a line adds what it gives (`LinesMore`,
  `PairsMore`), its end adds nothing (`LinesEnd`).
* `ConfigFileProofs!ConfigTypeCorrect`: `Spec => []ConfigTypeOK`, in particular that a
  timeout stored in an int fits one.

So every safety property the passing runs check is a theorem. Only model-checked
are the liveness properties (`CommandEnds`, `Terminates`), since this prover neither
reasons about `ENABLED` nor knows fairness beyond propositional steps, and the
violations, each of which is a behaviour that TLC shows. That the mutants break the
properties is TLC's finding too.

## 6. Not modelled

* FQDN registration (`oauth_ssh_config.py`). `register` applies `len()` to a filter
  object (lines 126 and 153); under Python 3, which `setup.cfg` requires, that
  raises a `TypeError` after the first GET and before any change. There is no
  behaviour to model beyond the effect a registration may have on the service,
  the outside action `Register` of `PamOAuth`. The loop over older scopes behind
  it (lines 164-184) is unreachable; it would write the name being registered
  into every scope it corrects.
* Host key acceptance (`Transport.__init__`): a dialogue with the user before the
  exchange, without effect on it. The terminal loop of `oauth_ssh.py` after the
  login: I/O.
* `base64.c`, `strings.c`: conversions and list helpers without state; a layer of
  base64 is counted in `PamOAuth`. Integers of replies: json-c saturates them at
  the largest int (`introspect.c:69`), which matters from 2038 on.
* Logging, `debug.c`, tests, build, packaging, the SELinux policy and the manual: no
  behaviour of their own. Debug builds, where `ASSERT` stops the process, are not
  modelled.
* The client's cached policy and account map against a site that changes later:
  the service decides by its own policy at each login (`ContractSpec`); the copies
  only cost a needless `authorize` or a refused login, which no property forbids.
