----------------------------- MODULE GlobusReply -----------------------------
(***************************************************************************)
(* One call to Globus Auth and what its reply is made into: http.c, json.c  *)
(* and globus_auth.c, and the parsers of introspect.c, client.c and         *)
(* identities.c.  PamOAuth takes a call as one step that yields a resource, *)
(* yields none, or kills the process; this module is about which.           *)
(*                                                                          *)
(* A reply is a function from the members of its document to what stands    *)
(* there, "absent" included.  Lists have one element or none.               *)
(***************************************************************************)
EXTENDS Integers, Sequences, FiniteSetsExt

CONSTANT MaxFaults    \* bound: the members of a reply that are not as they should be

Calls == {"introspect", "client", "identities"}

\* The document of a call, and the members of its objects in the order in which
\* the code gets them.
Root == [introspect |-> "introspection", client |-> "client_reply",
         identities |-> "identities_reply"]

Members ==
  [introspection     |-> <<"active", "scope", "client_id", "sub", "username", "iss", "email", "exp",
                           "iat", "nbf", "aud", "identities_set", "session_info">>,
   session_info      |-> <<"session_id", "authentications">>,
   authentication    |-> <<"idp", "auth_time", "amr">>,
   client_reply      |-> <<"client">>,
   client            |-> <<"scopes", "redirect_uris", "grant_types", "fqdns", "client_name",
                           "visibility", "project", "id", "public_client">>,
   identities_reply  |-> <<"included", "identities">>,
   included          |-> <<"identity_providers">>,
   identity_provider |-> <<"domains", "alternative_names", "idp_id", "short_name", "idp_name">>,
   identity          |-> <<"identity_username", "status", "identity_id", "identity_provider_id">>]

\* What a list holds; authentications is an object that is used as a list.
Element ==
  [aud |-> "aud[0]", identities_set |-> "identities_set[0]", amr |-> "amr[0]",
   authentications |-> "authentication", scopes |-> "scopes[0]",
   redirect_uris |-> "redirect_uris[0]", grant_types |-> "grant_types[0]", fqdns |-> "fqdns[0]",
   domains |-> "domains[0]", alternative_names |-> "alternative_names[0]",
   identity_providers |-> "identity_provider", identities |-> "identity"]

Below(p) ==
  IF p \in DOMAIN Members THEN {Members[p][k] : k \in DOMAIN Members[p]}
  ELSE IF p \in DOMAIN Element THEN {Element[p]} ELSE {}

Deeper(S) == S \cup UNION {Below(p) : p \in S}

\* The places of a call's document: at most five deep.
Places ==
  [c \in Calls |-> Deeper(Deeper(Deeper(Deeper(Deeper({Root[c]}))))) \ {Root[c]}]

Kinds == {"absent", "null", "false", "true", "int", "string", "array", "object"}

\* What is expected at a place.
Expected(p) ==
  CASE p \in {"active", "public_client"} -> {"false", "true"}
    [] p \in {"exp", "iat", "nbf", "auth_time"} -> {"int"}
    [] p \in DOMAIN Members \cup {"authentications"} -> {"object"}
    [] p \in DOMAIN Element \ {"authentications"} -> {"array"}
    [] OTHER -> {"string"}

VARIABLES
  call,     \* the call
  body,     \* what curl has received
  reply,    \* the document, if the body is one
  pc,       \* where the call is
  got,      \* the members the resource holds
  result    \* "resource", "none", or "died"

vars == <<call, body, reply, pc, got, result>>

Bodies == {"unreachable", "empty", "garbled", "null", "list", "errors", "document"}

Good == [c \in Calls |-> [p \in Places[c] |-> CHOOSE k \in Expected(p) : k # "false"]]

Init ==
  /\ call \in Calls /\ body \in Bodies
  /\ \E n \in 0 .. (IF body = "document" THEN MaxFaults ELSE 0) :
       \E faulty \in kSubset(n, Places[call]) : \E f \in [faulty -> Kinds] :
         reply = [p \in Places[call] |-> IF p \in faulty THEN f[p] ELSE Good[call][p]]
  /\ pc = "http" /\ got = {} /\ result = "none"

----------------------------------------------------------------------------
(* The parsers.  An outcome is a status and the members that were kept.     *)

Fine(kept) == [status |-> "success", kept |-> kept]
Failure    == [status |-> "failure", kept |-> {}]
Died       == [status |-> "died", kept |-> {}]

\* One after the other, up to the first that does not succeed.
InOrder(outcomes) ==
  LET bad == {k \in DOMAIN outcomes : outcomes[k].status # "success"}
  IN  IF bad = {} THEN Fine(UNION {outcomes[k].kept : k \in DOMAIN outcomes})
                  ELSE outcomes[Min(bad)]

\* Three plausible slips: the provider of an authentication is optional, a null
\* is not taken for a missing member, and the identities are not looked at before
\* they are followed.
OptionalIdp == {"identities_set", "session_info", "authentications", "amr", "idp"}
Optional == {"identities_set", "session_info", "authentications", "amr"}

OmittedAbsent(p) == p \in Optional /\ reply[p] = "absent"
Omitted(p) == p \in Optional /\ reply[p] \in {"absent", "null"}

\* An element that is not an object is refused; among the authentications it
\* is followed, as an object.
FollowedToo(p) == p \in {"authentications", "identities"}
Followed(p) == p = "authentications"

\* A list with the one element it may have; inside is what that element, if an
\* object, gives.
List(p, inside) ==
  LET e == Element[p] IN
  IF reply[e] = "absent" THEN Fine({})
  ELSE IF reply[e] \notin Expected(e) THEN IF Followed(p) THEN Died ELSE Failure
  ELSE IF inside.status = "success" THEN Fine(inside.kept \cup {e})
  ELSE inside

\* get_value() of the three parsers, with the function for a container.  client.c
\* and identities.c have no optional members.
Value(p, inside) ==
  LET contents == IF p \in DOMAIN Element THEN List(p, inside) ELSE inside
  IN  IF Omitted(p) THEN Fine({})
      ELSE IF reply[p] \notin Expected(p) THEN Failure
      ELSE IF contents.status = "success" THEN Fine(contents.kept \cup {p})
      ELSE contents

\* What stands in a container: its element, or the container itself.
Holds(p) == IF p \in DOMAIN Element THEN Element[p] ELSE p

\* An object, by the members of the objects within it.
Object(o, Within(_)) ==
  InOrder([k \in DOMAIN Members[o] |->
             LET p == Members[o][k]
             IN  Value(p, IF Holds(p) \in DOMAIN Members THEN Within(Holds(p)) ELSE Fine({}))])

\* No document has more than two objects around a third.
Innermost(o) == LET None(i) == Fine({}) IN Object(o, None)
Middle(o)    == Object(o, Innermost)
Document(o)  == Object(o, Middle)

\* introspect_init() gets nothing else of an inactive token.
Introspection ==
  IF reply["active"] = "false" THEN Fine({"active"}) ELSE Document("introspection")

Parsed == IF call = "introspect" THEN Introspection ELSE Document(Root[call])

----------------------------------------------------------------------------
(* get_introspect_resource(), get_client_resource() and                     *)
(* get_identities_resource().                                               *)

Return(r) == pc' = "done" /\ result' = r

\* http_request()
Request ==
  /\ pc = "http"
  /\ IF body = "unreachable" THEN Return("none") ELSE pc' = "json" /\ UNCHANGED result
  /\ UNCHANGED <<call, body, reply, got>>

\* A plausible slip: nobody looks for "errors".
DecodeErrors ==
  /\ pc = "json"
  /\ CASE body \in {"empty", "list"}        -> Return("died")
       [] body \in {"garbled", "null"}      -> Return("none")
       [] body \in {"errors", "document"}   -> pc' = "init" /\ UNCHANGED result
  /\ UNCHANGED <<call, body, reply, got>>

\* jobj_init() measures a body that is not there, and gives nothing for null;
\* jobj_key_exists() follows a list as if it were an object.
Decode ==
  /\ pc = "json"
  /\ CASE body \in {"empty", "list"}              -> Return("died")
       [] body \in {"garbled", "null", "errors"} -> Return("none")
       [] body = "document"                      -> pc' = "init" /\ UNCHANGED result
  /\ UNCHANGED <<call, body, reply, got>>

\* introspect_init(), client_init(), identities_init()
Parse ==
  /\ pc = "init"
  /\ LET parsed == Parsed IN
     \/ parsed.status = "died" /\ Return("died") /\ UNCHANGED got
     \/ parsed.status = "failure" /\ Return("none") /\ UNCHANGED got
     \/ /\ parsed.status = "success"
        /\ got' = parsed.kept /\ pc' = "verify" /\ UNCHANGED result
  /\ UNCHANGED <<call, body, reply>>

\* identities_set must not be empty, and session_info be there.
Verify ==
  /\ pc = "verify"
  /\ IF call = "introspect"
        /\ ~({"identities_set", "identities_set[0]", "session_info"} \subseteq got)
       THEN Return("none") /\ got' = {}
       ELSE Return("resource") /\ UNCHANGED got
  /\ UNCHANGED <<call, body, reply>>

Next == Request \/ Decode \/ Parse \/ Verify

Spec == Init /\ [][Next]_vars

----------------------------------------------------------------------------
ReplyTypeOK ==
  /\ pc \in {"http", "json", "init", "verify", "done"}
  /\ result \in {"resource", "none", "died"}
  /\ got \subseteq Places[call]
  /\ result # "none" => pc = "done"
  /\ pc \in {"init", "verify"} \/ result = "resource" => body = "document"

\* introspect.h: "Requried fields are guaranteed to be present if the
\* introspect_init() succeeds.  Optional fields can either be missing from the
\* JSON response or set to 'null'; these are treated as equivalent."
RequiredFields ==
  [introspection  |-> {"active", "scope", "client_id", "sub", "username", "aud", "iss", "exp", "iat",
                       "nbf", "email"},
   session_info   |-> {"session_id"},
   authentication |-> {"idp", "auth_time"}]
OptionalFields ==
  [introspection  |-> {"identities_set", "session_info"},
   session_info   |-> {"authentications"},
   authentication |-> {"amr"}]

Given(p)  == reply[p] \notin {"absent", "null"}
Typed(p)  == reply[p] \in Expected(p)
Sound(o)  == /\ \A p \in RequiredFields[o] : Typed(p)
             /\ \A p \in OptionalFields[o] : Given(p) => Typed(p)

\* The table read as a whole: no order, no early return.
AsDocumented ==
  /\ reply["active"] = "true"
  /\ Sound("introspection")
  /\ Typed("identities_set") /\ Typed("session_info") /\ Sound("session_info")
  /\ Typed("aud[0]") \/ reply["aud[0]"] = "absent"
  /\ Typed("identities_set[0]")
  /\ Typed("authentications") /\ reply["authentication"] # "absent" =>
       /\ Typed("authentication") /\ Sound("authentication")
       /\ Typed("amr") => Typed("amr[0]") \/ reply["amr[0]"] = "absent"

\* An introspection becomes a resource exactly if it is one by the table of
\* introspect.h and has what get_introspect_resource() adds to it.
AcceptedAsDocumented ==
  call = "introspect" /\ body = "document" /\ pc = "done" =>
    (result = "resource" <=> AsDocumented)

\* Members the code follows wherever their object is, without a look for NULL:
\* in build_id_list(), _lookup_idp(), _is_session_valid(), account_map_init() and
\* _add_acct_mapping().
FollowedLater ==
  [introspect |-> {<<"introspection", "identities_set">>, <<"introspection", "session_info">>,
                   <<"identities_set", "identities_set[0]">>, <<"authentication", "idp">>},
   client     |-> {},
   identities |-> {<<"identities_reply", "identities">>, <<"identity_provider", "idp_id">>,
                   <<"identity", "identity_username">>, <<"identity", "identity_id">>}]

\* What is followed later is there in every resource a call yields: PamOAuth may
\* take a resource as whole.
NothingMissing ==
  result = "resource" =>
    \A m \in FollowedLater[call] : m[1] \in got \cup {Root[call]} => m[2] \in got

\* Only three replies kill the process: none at all, one that is no object, and
\* an authentication that is none.  Every other malformed reply is refused.
RefusedOtherwise ==
  result = "died" =>
    \/ body \in {"empty", "list"}
    \/ call = "introspect" /\ reply["active"] = "true" /\ Typed("authentications")
       /\ ~Typed("authentication")
=============================================================================
