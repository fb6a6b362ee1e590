------------------------------ MODULE ConfigFile ------------------------------
(***************************************************************************)
(* server/src/pam/config.c: parse_file() over the pairs of LineReader, from *)
(* the file to struct config or its rejection.                              *)
(***************************************************************************)
EXTENDS LineReader

CONSTANTS
  Number,         \* what atol() makes of the words that are numbers
  IntHalf,        \* an int is -IntHalf .. IntHalf - 1: 2^31 in the code
  Minute,         \* 60 in the code
  WithSciTokens   \* the build option WITH_SCITOKENS

\* Directives that may occur once, and those whose values accumulate.
Single == {"client_id", "client_secret", "idp_suffix", "authentication_timeout", "mfa"}
Merged == {"auth_method", "map_file", "permitted_idps", "issuers"}

\* A file can spell the directives.
ASSUME ConfigFileAssumption ==
  /\ Single \cup Merged \subseteq Byte
  /\ DOMAIN Number \subseteq Seq(Byte) /\ Number \in [DOMAIN Number -> Int]
  /\ IntHalf \in Nat \ {0}
  /\ Minute \in Nat \ {0}
  /\ WithSciTokens \in BOOLEAN

VARIABLES
  config,     \* struct config while it is filled
  is_set,     \* the *_set flags of parse_file()
  status      \* its status_t

vars == <<reader_vars, config, is_set, status>>

\* calloc() of struct config.
NoConfig == [auth_method |-> <<>>, client_id |-> None, client_secret |-> None,
             idp_suffix |-> None, map_file |-> <<>>, permitted_idps |-> <<>>,
             authentication_timeout |-> 0, mfa |-> FALSE, issuers |-> <<>>]

ConfigInit ==
  /\ ReaderInit
  /\ config = NoConfig
  /\ is_set = {}
  /\ status = "failure"

----------------------------------------------------------------------------
Atol(word) == IF word \in DOMAIN Number THEN Number[word] ELSE 0

\* A long or a product that is stored in an int, as the compiler wraps it.
ToInt(n) == ((n + IntHalf) % (2 * IntHalf)) - IntHalf

\* strcasecmp(): the word in small letters, or with any capitals in it.
TrueWords  == {<<"true">>, <<"TRUE">>}
FalseWords == {<<"false">>, <<"FALSE">>}

ConvertBool(word) ==
  CASE word \in TrueWords -> 1
    [] word \in FalseWords -> 0
    [] OTHER -> -1

\* Two plausible slips: the number is kept as a long, and it is converted to
\* seconds here although pam.c does that.
ConvertLong(name, word) ==
  CASE name = "authentication_timeout" -> Atol(word)
    [] name = "mfa" -> ConvertBool(word) # 0
    [] OTHER -> word

ConvertToSeconds(name, word) ==
  CASE name = "authentication_timeout" -> ToInt(Minute * ToInt(Atol(word)))
    [] name = "mfa" -> ConvertBool(word) # 0
    [] OTHER -> word

\* The assignment to the member of struct config.  A bool that is given -1 is
\* true, and never equal to -1 again.
Convert(name, word) ==
  CASE name = "authentication_timeout" -> ToInt(Atol(word))
    [] name = "mfa" -> ConvertBool(word) # 0
    [] OTHER -> word

ValidSingle(name, values) == name \notin is_set /\ Len(values) = 1

Stop(st) == pc' = "cleanup" /\ status' = st

\* The next call of read_next_pair(), at the head of the loop.
NextPair == pc' = "fill" /\ NewBuffer

Named(name) == pc = "pair" /\ pair.key = <<name>>

\* A plausible slip: an int takes the result of convert_bool(), so that the
\* comparison with -1 works, and the cleanup returns the status as it stands.
ParseMfaChecked(name) ==
  /\ Named(name)
  /\ IF ~ValidSingle(name, pair.values)
       THEN Stop("failure") /\ UNCHANGED <<buffer, length, written, config, is_set>>
     ELSE IF name = "mfa" /\ ConvertBool(pair.values[1]) = -1
       THEN Stop("success") /\ UNCHANGED <<buffer, length, written, config, is_set>>
     ELSE /\ config' = [config EXCEPT ![name] = Convert(name, pair.values[1])]
          /\ is_set' = is_set \cup {name}
          /\ status' = "success"
          /\ NextPair
  /\ UNCHANGED <<file, rest, pair, handed>>

ParseSingle(name) ==
  /\ Named(name)
  /\ IF ValidSingle(name, pair.values)
       THEN /\ config' = [config EXCEPT ![name] = Convert(name, pair.values[1])]
            /\ is_set' = is_set \cup {name}
            /\ status' = "success"
            /\ NextPair
       ELSE Stop("failure") /\ UNCHANGED <<buffer, length, written, config, is_set>>
  /\ UNCHANGED <<file, rest, pair, handed>>

\* merge_values()
ParseMerged(name) ==
  /\ Named(name)
  /\ config' = [config EXCEPT ![name] = @ \o pair.values]
  /\ NextPair
  /\ UNCHANGED <<file, rest, pair, handed, is_set, status>>

ParseUnknown ==
  /\ pc = "pair" /\ pair.key # None
  /\ \A name \in Single \cup Merged : pair.key # <<name>>
  /\ Stop("failure")
  /\ UNCHANGED <<file, rest, buffer, length, written, pair, handed, config, is_set>>

\* A line of commas only: strcmp() is called with a NULL key.
ParseNoKey ==
  /\ pc = "pair" /\ pair.key = None
  /\ pc' = "crashed"
  /\ UNCHANGED <<file, rest, buffer, length, written, pair, handed, config, is_set, status>>

\* config_auth_method()
Uses(method) == <<method>> \in ToSet(config.auth_method)

\* A plausible slip: every site is asked for what one with globus_auth needs.
CompleteForAll ==
  /\ config.auth_method # <<>>
  /\ \A m \in ToSet(config.auth_method) :
       m = <<"globus_auth">> \/ (m = <<"scitokens">> /\ WithSciTokens)
  /\ {"client_id", "client_secret"} \subseteq is_set
  /\ config.idp_suffix # None \/ config.map_file # <<>>

\* What is checked once the file has been read.  Nothing is asked of issuers.
Complete ==
  /\ config.auth_method # <<>>
  /\ \A m \in ToSet(config.auth_method) :
       m = <<"globus_auth">> \/ (m = <<"scitokens">> /\ WithSciTokens)
  /\ Uses("globus_auth") =>
       /\ {"client_id", "client_secret"} \subseteq is_set
       /\ config.idp_suffix # None \/ config.map_file # <<>>

EndOfFile ==
  /\ pc = "eof"
  /\ Stop(IF Complete THEN "success" ELSE "failure")
  /\ UNCHANGED <<file, rest, buffer, length, written, pair, handed, config, is_set>>

\* fclose(); config_init() frees a configuration that is not accepted.
Cleanup ==
  /\ pc = "cleanup"
  /\ pc' = IF status = "success" THEN "accepted" ELSE "rejected"
  /\ UNCHANGED <<file, rest, buffer, length, written, pair, handed, config, is_set, status>>

ConfigNext ==
  \/ ReadNextPair /\ UNCHANGED <<config, is_set, status>>
  \/ \E name \in Single : ParseSingle(name)
  \/ \E name \in Merged : ParseMerged(name)
  \/ ParseUnknown \/ ParseNoKey \/ EndOfFile \/ Cleanup

\* Nothing in this loop waits: a local file is read, and fgets() returns.
Spec == ConfigInit /\ [][ConfigNext]_vars /\ WF_vars(ConfigNext)

----------------------------------------------------------------------------
(* The file as its author means it, whatever the order of the lines.        *)

With(ps, name)  == {k \in DOMAIN ps : ps[k].key = <<name>>}
Given(ps, name) == FlattenSeq([k \in DOMAIN ps |->
                                 IF k \in With(ps, name) THEN ps[k].values ELSE <<>>])

\* Two demands of oauth-ssh.conf are not made here, because the code makes none:
\* that the word after mfa is true or false (MfaValueChecked), any other counting
\* as true, and that a site with scitokens lists its issuers.
WellFormed(ps) ==
  LET methods == ToSet(Given(ps, "auth_method")) IN
  /\ \A k \in DOMAIN ps : \E name \in Single \cup Merged : ps[k].key = <<name>>
  /\ \A name \in Single : \A j, k \in With(ps, name) : j = k /\ Len(ps[k].values) = 1
  /\ methods # {}
  /\ methods \subseteq {<<"globus_auth">>} \cup IF WithSciTokens THEN {<<"scitokens">>} ELSE {}
  /\ <<"globus_auth">> \in methods =>
       /\ With(ps, "client_id") # {} /\ With(ps, "client_secret") # {}
       /\ With(ps, "idp_suffix") # {} \/ Given(ps, "map_file") # <<>>

\* What the service must enforce for such a file.  A word in place of a number of
\* minutes asks for nothing.
Means(ps, c) ==
  /\ \A name \in Merged : c[name] = Given(ps, name)
  /\ \A name \in {"client_id", "client_secret", "idp_suffix"} :
       c[name] = IF With(ps, name) = {} THEN None ELSE Head(Given(ps, name))
  /\ c.mfa <=> With(ps, "mfa") # {} /\ Head(Given(ps, "mfa")) \notin FalseWords

Ended == pc \in {"accepted", "rejected", "crashed"}

\* read_next_pair() hands over the lines as they were written, for any length
\* of line and any place where a read of ReadLen - 1 bytes ends.  (A NUL byte
\* cuts its line off and glues the next one to it.)
PairsAsWritten ==
  Ended /\ Nul \notin ToSet(file) =>
    /\ IsPrefix(handed, PairsOf(file))
    /\ pc = "accepted" => handed = PairsOf(file)

\* parse_file() accepts exactly the well-formed files, in any order of their
\* lines, and with the values they give: no early end, no stale status and no
\* flag of another directive decides.  Only a line without any word, but with
\* commas, takes the login process down.
AcceptedAsMeant ==
  Ended =>
    /\ pc = "accepted" <=> WellFormed(handed) /\ rest = <<>>
    /\ pc = "accepted" => Means(handed, config)
    /\ pc = "crashed" <=> \E k \in DOMAIN handed : handed[k].key = None

\* _is_session_valid() compares the age of an authentication with
\* 60*timeout, an int product whose overflow either wraps or is computed in
\* the 64 bits of the comparison.  Neither accepts an older authentication
\* than the file does, as long as the number of minutes itself fits an int.
Limits(timeout) == {Minute * timeout, ToInt(Minute * timeout)}

NeverLaxer ==
  pc = "accepted" =>
    \A k \in With(handed, "authentication_timeout") :
      LET minutes == Atol(handed[k].values[1]) IN
      minutes \in 1 .. IntHalf - 1 =>
        /\ config.authentication_timeout # 0
        /\ \A limit \in Limits(config.authentication_timeout) : limit <= Minute * minutes

\* Every file is read to its end or refused before it.
Terminates == <>Ended

ConfigTypeOK ==
  /\ ReaderTypeOK
  /\ pc \in {"fill", "line", "pair", "eof", "cleanup", "accepted", "rejected", "crashed"}
  /\ config.mfa \in BOOLEAN
  /\ config.authentication_timeout \in -IntHalf .. IntHalf - 1
  /\ is_set \subseteq Single
  /\ status \in {"success", "failure"}

\* oauth-ssh.conf says of mfa "Valid values are 'true' and 'false'", and
\* parse_file() has an error message for any other.
MfaValueChecked ==
  pc = "accepted" =>
    \A k \in With(handed, "mfa") : ConvertBool(handed[k].values[1]) # -1
=============================================================================
