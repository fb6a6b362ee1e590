------------------------------- MODULE Realm -------------------------------
(***************************************************************************)
(* What the SSH service and Globus Auth know: bearer tokens, linked         *)
(* identities, identity providers, local accounts, and the two files the    *)
(* administrator edits (oauth-ssh.conf and the account map files).          *)
(*                                                                          *)
(* Strings are abstracted to model values.  The structs of config.h,        *)
(* introspect.h and identities.h keep the members that decide something.    *)
(***************************************************************************)
EXTENDS Integers, Sequences

CONSTANTS
  GlobusTokens,     \* opaque bearer strings, none contains a '.'
  SciTokens,        \* JWTs, every one contains a '.'
  Identities,       \* Globus Auth identity ids
  Providers,        \* identity provider ids
  Domains,          \* DNS domains of providers, also the suffix of usernames
  Accounts,         \* names of local accounts a login may ask for
  LocalAccounts,    \* the accounts getpwnam() knows
  Fqdns,            \* names a service can be registered under
  ClientId,         \* the client id of this service
  MapFiles,         \* paths that map_file directives name
  Issuers,          \* SciToken issuers
  None              \* NULL

CONSTANTS
  TokenInfo,        \* what an introspection says of a Globus Auth token
  ProviderOf,       \* the provider that issued an identity
  ProviderDomains,  \* the domains of a provider
  UserName,         \* the part of an identity's username before the '@'
  UserDomain,       \* the part after it
  SciIssuer,        \* the issuer claim of a SciToken
  SciUser,          \* the account a SciToken's scope authorizes
  Minute            \* ticks of the clock in a minute: 60 in the code

Tokens == GlobusTokens \cup SciTokens

\* A directive that accepts an IdP by id or by domain.
IdpNames == Providers \cup Domains

\* The claims of an access token that _is_token_valid() reads.
Claims == [iat: Int, nbf: Int, exp: Int, scopes: SUBSET (Fqdns \cup {ClientId})]

ASSUME RealmAssumption ==
  /\ None \notin Domains \cup Providers \cup Tokens
  /\ GlobusTokens \cap SciTokens = {}
  /\ LocalAccounts \subseteq Accounts
  /\ TokenInfo \in [GlobusTokens -> Claims]
  /\ ProviderOf \in [Identities -> Providers]
  /\ ProviderDomains \in [Providers -> SUBSET Domains]
  /\ UserName \in [Identities -> Accounts]
  /\ UserDomain \in [Identities -> Domains]
  /\ SciIssuer \in [SciTokens -> Issuers]
  /\ SciUser \in [SciTokens -> Accounts]
  /\ Minute \in Int

(***************************************************************************)
(* struct config, as parse_file() accepts it.  An absent permitted_idps is  *)
(* the empty set (merge_values() yields NULL for no value), an absent        *)
(* timeout is 0.                                                             *)
(***************************************************************************)
Config ==
  [ auth_method: SUBSET {"globus_auth", "scitokens"},
    idp_suffix: Domains \cup {None},
    map_files: SUBSET MapFiles,
    permitted_idps: SUBSET IdpNames,
    authentication_timeout: Int,
    mfa: BOOLEAN,
    issuers: Seq(Issuers) ]

\* struct authentication: the session of a token holds the last authentication
\* with each identity that took part in it.
Authentication == [identity: Identities, auth_time: Int, mfa: BOOLEAN]

\* The lines of a map file, as pairs: an identity is named there by its id or
\* by its username, and a line with several accounts is several pairs.
MapLines == Identities \X Accounts

\* The world outside one login attempt, as it is at one instant.
World ==
  [ now: Int,                            \* time(NULL) on the server
    active: SUBSET Tokens,               \* neither revoked nor expired at the issuer
    linked: SUBSET Identities,           \* identities of the user's account
    session: SUBSET Authentication,      \* the session behind the tokens
    fqdns: SUBSET Fqdns,                 \* names registered for the service
    files: [MapFiles -> SUBSET MapLines],\* an unreadable file counts as empty
    conf: Config \cup {None} ]           \* None: parse_file() rejects the file

\* What a user types at the prompt: a command, or a token pasted as it is.
Ops == {"get_security_policy", "get_account_map", "login", "paste", "other"}
Request == [op: Ops, token: Tokens \cup {None}]
=============================================================================
