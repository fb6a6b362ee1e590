--------------------------- MODULE GlobusReplyProofs ---------------------------
(***************************************************************************)
(* Theorems about GlobusReply: for every document, with any number of       *)
(* members missing, null or of another type.                                *)
(***************************************************************************)
EXTENDS GlobusReply, WellFoundedInduction, TLAPS

----------------------------------------------------------------------------
(* One member after the other.                                              *)

\* A set of indexes that is not empty has a first one.
LEMMA FirstIndex ==
  ASSUME NEW S, S \subseteq Nat, S # {}
  PROVE  Min(S) \in S /\ \A k \in S : Min(S) <= k
<1> DEFINE less == OpToRel(<, Nat)
<1>1. PICK m \in S : \A k \in S : <<k, m>> \notin less
  BY NatLessThanWellFounded, WFMin
<1>2. \A k \in S : ~(k < m)
  BY <1>1, Zenon DEF OpToRel
<1>3. \A k \in S : m <= k
  BY <1>2
<1> QED BY <1>3 DEF Min

\* Either every member succeeds and all that was kept is kept, or the outcome is
\* that of a member that did not.
LEMMA InOrderOutcome ==
  ASSUME NEW outcomes, DOMAIN outcomes \subseteq Nat
  PROVE  \/ /\ \A k \in DOMAIN outcomes : outcomes[k].status = "success"
            /\ InOrder(outcomes) = Fine(UNION {outcomes[k].kept : k \in DOMAIN outcomes})
         \/ \E k \in DOMAIN outcomes :
              outcomes[k].status # "success" /\ InOrder(outcomes) = outcomes[k]
<1> DEFINE bad == {k \in DOMAIN outcomes : outcomes[k].status # "success"}
<1>1. CASE bad = {}
  BY <1>1 DEF InOrder
<1>2. CASE bad # {}
  <2>1. InOrder(outcomes) = outcomes[Min(bad)]
    BY <1>2 DEF InOrder
  <2>2. Min(bad) \in bad
    <3>1. bad \subseteq Nat
      OBVIOUS
    <3> HIDE DEF bad
    <3> QED BY <1>2, <3>1, FirstIndex
  <2> QED BY <2>1, <2>2
<1> QED BY <1>1, <1>2

----------------------------------------------------------------------------
(* The tables.                                                              *)

\* The members of an introspection, as introspect_init() gets them.
LEMMA IntrospectionTable ==
  /\ DOMAIN Members["introspection"] = 1 .. 13
  /\ Below("introspection") =
       {"active", "scope", "client_id", "sub", "username", "iss", "email", "exp", "iat", "nbf",
        "aud", "identities_set", "session_info"}
<1>1. /\ "introspection" \in DOMAIN Members
      /\ Members["introspection"] =
           <<"active", "scope", "client_id", "sub", "username", "iss", "email", "exp",
             "iat", "nbf", "aud", "identities_set", "session_info">>
  BY DEF Members
<1> QED BY <1>1 DEF Below

\* The members of session_info, as get_session_info() gets them.
LEMMA SessionTable ==
  /\ DOMAIN Members["session_info"] = 1 .. 2
  /\ Below("session_info") = {"session_id", "authentications"}
<1>1. "session_info" \in DOMAIN Members /\ Members["session_info"] = <<"session_id", "authentications">>
  BY DEF Members
<1> QED BY <1>1 DEF Below

\* The members of an authentication, as get_authentications() gets them.
LEMMA AuthenticationTable ==
  /\ DOMAIN Members["authentication"] = 1 .. 3
  /\ Below("authentication") = {"idp", "auth_time", "amr"}
<1>1. "authentication" \in DOMAIN Members /\ Members["authentication"] = <<"idp", "auth_time", "amr">>
  BY DEF Members
<1> QED BY <1>1 DEF Below

\* The members of the reply about a client, as client_init() gets them.
LEMMA ClientTable ==
  /\ DOMAIN Members["client_reply"] = 1 .. 1 /\ Below("client_reply") = {"client"}
  /\ DOMAIN Members["client"] = 1 .. 9
  /\ Below("client") = {"scopes", "redirect_uris", "grant_types", "fqdns", "client_name",
                        "visibility", "project", "id", "public_client"}
<1>1. /\ "client_reply" \in DOMAIN Members /\ Members["client_reply"] = <<"client">>
      /\ "client" \in DOMAIN Members
      /\ Members["client"] = <<"scopes", "redirect_uris", "grant_types", "fqdns", "client_name",
                               "visibility", "project", "id", "public_client">>
  BY DEF Members
<1> QED BY <1>1 DEF Below

\* The members of the reply about identities, as identities_init() gets them.
LEMMA IdentitiesTable ==
  /\ DOMAIN Members["identities_reply"] = 1 .. 2
  /\ Below("identities_reply") = {"included", "identities"}
  /\ DOMAIN Members["included"] = 1 .. 1
  /\ Below("included") = {"identity_providers"}
  /\ DOMAIN Members["identity_provider"] = 1 .. 5
  /\ Below("identity_provider") =
       {"domains", "alternative_names", "idp_id", "short_name", "idp_name"}
  /\ DOMAIN Members["identity"] = 1 .. 4
  /\ Below("identity") =
       {"identity_username", "status", "identity_id", "identity_provider_id"}
<1>1. /\ "identities_reply" \in DOMAIN Members
      /\ Members["identities_reply"] = <<"included", "identities">>
      /\ "included" \in DOMAIN Members /\ Members["included"] = <<"identity_providers">>
  BY DEF Members
<1>2. /\ "identity_provider" \in DOMAIN Members
      /\ Members["identity_provider"] =
           <<"domains", "alternative_names", "idp_id", "short_name", "idp_name">>
  BY DEF Members
<1>3. /\ "identity" \in DOMAIN Members
      /\ Members["identity"] =
           <<"identity_username", "status", "identity_id", "identity_provider_id">>
  BY DEF Members
<1> QED BY <1>1, <1>2, <1>3 DEF Below

Objects == {"introspection", "session_info", "authentication", "client_reply", "client",
            "identities_reply", "included", "identity_provider", "identity"}

\* Each object has its members in a sequence.
LEMMA ObjectTable ==
  /\ DOMAIN Members = Objects
  /\ \A o \in Objects : DOMAIN Members[o] \subseteq Nat
<1>1. DOMAIN Members = Objects
  BY DEF Members, Objects
<1>2. \A o \in Objects : DOMAIN Members[o] \subseteq Nat
  BY IntrospectionTable, SessionTable, AuthenticationTable, ClientTable, IdentitiesTable
     DEF Objects
<1> QED BY <1>1, <1>2

Lists == {"aud", "identities_set", "amr", "authentications", "scopes", "redirect_uris",
          "grant_types", "fqdns", "domains", "alternative_names", "identity_providers", "identities"}

\* What each list of the three replies holds.
LEMMA ElementTable ==
  /\ DOMAIN Element = Lists
  /\ Element["aud"] = "aud[0]" /\ Element["identities_set"] = "identities_set[0]"
  /\ Element["amr"] = "amr[0]" /\ Element["authentications"] = "authentication"
  /\ Element["scopes"] = "scopes[0]" /\ Element["redirect_uris"] = "redirect_uris[0]"
  /\ Element["grant_types"] = "grant_types[0]" /\ Element["fqdns"] = "fqdns[0]"
  /\ Element["domains"] = "domains[0]" /\ Element["alternative_names"] = "alternative_names[0]"
  /\ Element["identity_providers"] = "identity_provider" /\ Element["identities"] = "identity"
  BY DEF Element, Lists

\* Nothing is expected to be missing.
LEMMA ExpectedGiven ==
  ASSUME NEW p PROVE Expected(p) \cap {"absent", "null"} = {}
  BY DEF Expected

----------------------------------------------------------------------------
(* Values and objects.                                                      *)

Ends == {"success", "failure", "died"}

\* What get_value() makes of a member that is no list, with what stands in it.
LEMMA MemberOutcome ==
  ASSUME NEW p, p \notin Lists, NEW inside, inside.status \in Ends
  PROVE  /\ Value(p, inside).status \in Ends
         /\ Value(p, inside).status = "success" <=>
              Omitted(p) \/ (Typed(p) /\ inside.status = "success")
         /\ Value(p, inside).status = "success" /\ Omitted(p) => Value(p, inside).kept = {}
         /\ Value(p, inside).status = "success" /\ ~Omitted(p) =>
              Value(p, inside).kept = inside.kept \cup {p}
         /\ Value(p, inside).status = "died" =>
              ~Omitted(p) /\ Typed(p) /\ inside.status = "died"
<1>1. /\ Failure.status = "failure"
      /\ \A kept : Fine(kept).status = "success" /\ Fine(kept).kept = kept
  BY DEF Failure, Fine
<1>2. p \notin DOMAIN Element
  BY ElementTable
<1>3. CASE Omitted(p)
  BY <1>1, <1>3 DEF Value, Ends
<1>4. CASE ~Omitted(p) /\ ~Typed(p)
  BY <1>1, <1>4 DEF Value, Typed, Ends
<1>5. CASE ~Omitted(p) /\ Typed(p)
  BY <1>1, <1>2, <1>5 DEF Value, Typed, Ends
<1> QED BY <1>3, <1>4, <1>5

\* And of one that is.
LEMMA ListOutcome ==
  ASSUME NEW p \in Lists, NEW e, e = Element[p], NEW inside, inside.status \in Ends
  PROVE  /\ Value(p, inside).status \in Ends
         /\ Value(p, inside).status = "success" <=>
              \/ Omitted(p)
              \/ Typed(p) /\ reply[e] = "absent"
              \/ Typed(p) /\ Typed(e) /\ inside.status = "success"
         /\ Value(p, inside).status = "success" /\ Omitted(p) => Value(p, inside).kept = {}
         /\ Value(p, inside).status = "success" /\ ~Omitted(p) /\ reply[e] = "absent" =>
              Value(p, inside).kept = {p}
         /\ Value(p, inside).status = "success" /\ ~Omitted(p) /\ reply[e] # "absent" =>
              Value(p, inside).kept = inside.kept \cup {e, p}
         /\ Value(p, inside).status = "died" =>
              /\ ~Omitted(p) /\ Typed(p) /\ reply[e] # "absent"
              /\ inside.status = "died" \/ (Followed(p) /\ ~Typed(e))
<1>1. /\ Failure.status = "failure" /\ Died.status = "died"
      /\ \A kept : Fine(kept).status = "success" /\ Fine(kept).kept = kept
  BY DEF Failure, Died, Fine
<1>2. "absent" \notin Expected(e)
  BY ExpectedGiven
<1>3. CASE Omitted(p)
  BY <1>1, <1>3 DEF Value, Ends
<1>4. CASE ~Omitted(p) /\ ~Typed(p)
  BY <1>1, <1>4 DEF Value, Typed, Ends
<1>5. CASE ~Omitted(p) /\ Typed(p)
  <2>1. Value(p, inside) = IF List(p, inside).status = "success"
                             THEN Fine(List(p, inside).kept \cup {p}) ELSE List(p, inside)
    BY <1>5, ElementTable DEF Value, Typed
  <2>2. CASE reply[e] = "absent"
    BY <1>1, <1>2, <1>5, <2>1, <2>2 DEF List, Typed, Ends
  <2>3. CASE reply[e] # "absent" /\ ~Typed(e)
    BY <1>1, <1>5, <2>1, <2>3 DEF List, Typed, Ends
  <2>4. CASE reply[e] # "absent" /\ Typed(e)
    BY <1>1, <1>5, <2>1, <2>4 DEF List, Typed, Ends
  <2> QED BY <2>2, <2>3, <2>4
<1> QED BY <1>3, <1>4, <1>5

\* In any case it ends one way or another.
LEMMA ValueEnds ==
  ASSUME NEW p, NEW inside, inside.status \in Ends PROVE Value(p, inside).status \in Ends
<1>1. CASE p \in Lists
  BY <1>1, ListOutcome
<1>2. CASE p \notin Lists
  BY <1>2, MemberOutcome
<1> QED BY <1>1, <1>2

\* A first member that does not succeed decides.
LEMMA FirstDecides ==
  ASSUME NEW outcomes, DOMAIN outcomes \subseteq Nat \ {0}, 1 \in DOMAIN outcomes,
         outcomes[1].status # "success"
  PROVE  InOrder(outcomes) = outcomes[1]
<1> DEFINE bad == {k \in DOMAIN outcomes : outcomes[k].status # "success"}
<1>1. InOrder(outcomes) = outcomes[Min(bad)] /\ 1 \in bad /\ bad \subseteq Nat \ {0}
  BY DEF InOrder
<1> HIDE DEF bad
<1>2. Min(bad) \in bad /\ Min(bad) <= 1
  BY <1>1, FirstIndex
<1>3. Min(bad) \in Nat \ {0}
  BY <1>1, <1>2
<1>4. Min(bad) = 1
  BY <1>2, <1>3
<1> QED BY <1>1, <1>4

\* The members of an object, at each of the three depths.
InnermostOf(p) == Value(p, Fine({}))
MiddleOf(p)    == Value(p, IF Holds(p) \in Objects THEN Innermost(Holds(p)) ELSE Fine({}))
DocumentOf(p)  == Value(p, IF Holds(p) \in Objects THEN Middle(Holds(p)) ELSE Fine({}))

\* An innermost object is whole if all its members are, or ends as one of them does.
LEMMA InnermostOutcome ==
  ASSUME NEW o \in Objects
  PROVE  \/ /\ \A p \in Below(o) : InnermostOf(p).status = "success"
            /\ Innermost(o) = Fine(UNION {InnermostOf(p).kept : p \in Below(o)})
         \/ \E p \in Below(o) :
              InnermostOf(p).status # "success" /\ Innermost(o) = InnermostOf(p)
<1> DEFINE outcomes == [k \in DOMAIN Members[o] |-> InnermostOf(Members[o][k])]
<1>1. Innermost(o) = InOrder(outcomes)
  BY DEF Innermost, Object, InnermostOf
<1>2. Below(o) = {Members[o][k] : k \in DOMAIN Members[o]}
  BY ObjectTable DEF Below
<1>3. DOMAIN outcomes \subseteq Nat /\ DOMAIN outcomes = DOMAIN Members[o]
  BY ObjectTable
<1>4. \A k \in DOMAIN Members[o] : outcomes[k] = InnermostOf(Members[o][k])
  OBVIOUS
<1>5. UNION {outcomes[k].kept : k \in DOMAIN outcomes} = UNION {InnermostOf(p).kept : p \in Below(o)}
  <2> HIDE DEF outcomes
  <2> QED BY <1>2, <1>3, <1>4
<1>6. \/ /\ \A k \in DOMAIN outcomes : outcomes[k].status = "success"
         /\ InOrder(outcomes) = Fine(UNION {outcomes[k].kept : k \in DOMAIN outcomes})
      \/ \E k \in DOMAIN outcomes :
           outcomes[k].status # "success" /\ InOrder(outcomes) = outcomes[k]
  <2> HIDE DEF outcomes
  <2> QED BY <1>3, InOrderOutcome
<1> HIDE DEF outcomes
<1>7. CASE \A k \in DOMAIN outcomes : outcomes[k].status = "success"
  BY <1>1, <1>2, <1>3, <1>4, <1>5, <1>6, <1>7
<1>8. CASE \E k \in DOMAIN outcomes :
             outcomes[k].status # "success" /\ InOrder(outcomes) = outcomes[k]
  BY <1>1, <1>2, <1>3, <1>4, <1>8
<1> QED BY <1>6, <1>7, <1>8

\* The same of an object around the innermost ones.
LEMMA MiddleOutcome ==
  ASSUME NEW o \in Objects
  PROVE  \/ /\ \A p \in Below(o) : MiddleOf(p).status = "success"
            /\ Middle(o) = Fine(UNION {MiddleOf(p).kept : p \in Below(o)})
         \/ \E p \in Below(o) :
              MiddleOf(p).status # "success" /\ Middle(o) = MiddleOf(p)
<1> DEFINE outcomes == [k \in DOMAIN Members[o] |-> MiddleOf(Members[o][k])]
<1>1. Middle(o) = InOrder(outcomes)
  BY ObjectTable DEF Middle, Object, MiddleOf
<1>2. Below(o) = {Members[o][k] : k \in DOMAIN Members[o]}
  BY ObjectTable DEF Below
<1>3. DOMAIN outcomes \subseteq Nat /\ DOMAIN outcomes = DOMAIN Members[o]
  BY ObjectTable
<1>4. \A k \in DOMAIN Members[o] : outcomes[k] = MiddleOf(Members[o][k])
  OBVIOUS
<1>5. UNION {outcomes[k].kept : k \in DOMAIN outcomes} = UNION {MiddleOf(p).kept : p \in Below(o)}
  <2> HIDE DEF outcomes
  <2> QED BY <1>2, <1>3, <1>4
<1>6. \/ /\ \A k \in DOMAIN outcomes : outcomes[k].status = "success"
         /\ InOrder(outcomes) = Fine(UNION {outcomes[k].kept : k \in DOMAIN outcomes})
      \/ \E k \in DOMAIN outcomes :
           outcomes[k].status # "success" /\ InOrder(outcomes) = outcomes[k]
  <2> HIDE DEF outcomes
  <2> QED BY <1>3, InOrderOutcome
<1> HIDE DEF outcomes
<1>7. CASE \A k \in DOMAIN outcomes : outcomes[k].status = "success"
  BY <1>1, <1>2, <1>3, <1>4, <1>5, <1>6, <1>7
<1>8. CASE \E k \in DOMAIN outcomes :
             outcomes[k].status # "success" /\ InOrder(outcomes) = outcomes[k]
  BY <1>1, <1>2, <1>3, <1>4, <1>8
<1> QED BY <1>6, <1>7, <1>8

\* The same of a document.
LEMMA DocumentOutcome ==
  ASSUME NEW o \in Objects
  PROVE  \/ /\ \A p \in Below(o) : DocumentOf(p).status = "success"
            /\ Document(o) = Fine(UNION {DocumentOf(p).kept : p \in Below(o)})
         \/ \E p \in Below(o) :
              DocumentOf(p).status # "success" /\ Document(o) = DocumentOf(p)
<1> DEFINE outcomes == [k \in DOMAIN Members[o] |-> DocumentOf(Members[o][k])]
<1>1. Document(o) = InOrder(outcomes)
  BY ObjectTable DEF Document, Object, DocumentOf
<1>2. Below(o) = {Members[o][k] : k \in DOMAIN Members[o]}
  BY ObjectTable DEF Below
<1>3. DOMAIN outcomes \subseteq Nat /\ DOMAIN outcomes = DOMAIN Members[o]
  BY ObjectTable
<1>4. \A k \in DOMAIN Members[o] : outcomes[k] = DocumentOf(Members[o][k])
  OBVIOUS
<1>5. UNION {outcomes[k].kept : k \in DOMAIN outcomes} = UNION {DocumentOf(p).kept : p \in Below(o)}
  <2> HIDE DEF outcomes
  <2> QED BY <1>2, <1>3, <1>4
<1>6. \/ /\ \A k \in DOMAIN outcomes : outcomes[k].status = "success"
         /\ InOrder(outcomes) = Fine(UNION {outcomes[k].kept : k \in DOMAIN outcomes})
      \/ \E k \in DOMAIN outcomes :
           outcomes[k].status # "success" /\ InOrder(outcomes) = outcomes[k]
  <2> HIDE DEF outcomes
  <2> QED BY <1>3, InOrderOutcome
<1> HIDE DEF outcomes
<1>7. CASE \A k \in DOMAIN outcomes : outcomes[k].status = "success"
  BY <1>1, <1>2, <1>3, <1>4, <1>5, <1>6, <1>7
<1>8. CASE \E k \in DOMAIN outcomes :
             outcomes[k].status # "success" /\ InOrder(outcomes) = outcomes[k]
  BY <1>1, <1>2, <1>3, <1>4, <1>8
<1> QED BY <1>6, <1>7, <1>8

\* An object ends as one of its members, or well.
LEMMA ObjectEnds ==
  ASSUME NEW o \in Objects
  PROVE  Innermost(o).status \in Ends /\ Middle(o).status \in Ends /\ Document(o).status \in Ends
<1>1. \A kept : Fine(kept).status \in Ends
  BY DEF Fine, Ends
<1>2. ASSUME NEW p PROVE InnermostOf(p).status \in Ends
  BY <1>1, ValueEnds DEF InnermostOf
<1>3. ASSUME NEW q \in Objects PROVE Innermost(q).status \in Ends
  BY <1>1, <1>2, InnermostOutcome
<1>4. ASSUME NEW p PROVE MiddleOf(p).status \in Ends
  <2> DEFINE inside == IF Holds(p) \in Objects THEN Innermost(Holds(p)) ELSE Fine({})
  <2>1. inside.status \in Ends
    BY <1>1, <1>3
  <2> HIDE DEF inside
  <2> QED BY <2>1, ValueEnds DEF MiddleOf, inside
<1>5. ASSUME NEW q \in Objects PROVE Middle(q).status \in Ends
  BY <1>1, <1>4, MiddleOutcome
<1>6. ASSUME NEW p PROVE DocumentOf(p).status \in Ends
  <2> DEFINE inside == IF Holds(p) \in Objects THEN Middle(Holds(p)) ELSE Fine({})
  <2>1. inside.status \in Ends
    BY <1>1, <1>5
  <2> HIDE DEF inside
  <2> QED BY <2>1, ValueEnds DEF DocumentOf, inside
<1>7. Document(o).status \in Ends
  BY <1>1, <1>6, DocumentOutcome
<1> QED BY <1>3, <1>5, <1>7

\* The optional members are omitted when they are not given.
LEMMA OmittedMeans ==
  ASSUME NEW p
  PROVE  Omitted(p) <=> p \in {"identities_set", "session_info", "authentications", "amr"} /\ ~Given(p)
  BY DEF Omitted, Optional, Given

\* A list that is empty, or whose element is as it should be.
ListTyped(p) == Typed(p) /\ (reply[Element[p]] = "absent" \/ Typed(Element[p]))

\* Members without an object in them.
LEMMA ScalarValue ==
  ASSUME NEW p, p \notin Lists
  PROVE  LET v == Value(p, Fine({})) IN
         /\ v.status \in {"success", "failure"}
         /\ v.status = "success" <=> Omitted(p) \/ Typed(p)
         /\ v.status = "success" /\ ~Omitted(p) => v.kept = {p}
<1>1. /\ Fine({}).status \in Ends /\ Fine({}).status = "success" /\ Fine({}).kept = {}
      /\ Fine({}).status # "died"
  BY DEF Fine, Ends
<1> DEFINE v == Value(p, Fine({}))
<1>2. /\ v.status \in Ends /\ v.status # "died"
      /\ v.status = "success" <=> Omitted(p) \/ Typed(p)
      /\ v.status = "success" /\ ~Omitted(p) => v.kept = {} \cup {p}
  BY <1>1, MemberOutcome
<1> HIDE DEF v
<1>3. v.status \in {"success", "failure"}
  BY <1>2 DEF Ends
<1> QED BY <1>2, <1>3 DEF v

\* A list that holds no object: when it is accepted, and what is kept of it.
LEMMA ListValue ==
  ASSUME NEW p \in Lists, p # "authentications", NEW e, e = Element[p]
  PROVE  LET v == Value(p, Fine({})) IN
         /\ v.status \in {"success", "failure"}
         /\ v.status = "success" <=> Omitted(p) \/ ListTyped(p)
         /\ v.status = "success" /\ Omitted(p) => v.kept = {}
         /\ v.status = "success" /\ ~Omitted(p) /\ reply[e] = "absent" => v.kept = {p}
         /\ v.status = "success" /\ ~Omitted(p) /\ reply[e] # "absent" => v.kept = {e, p}
<1>1. /\ Fine({}).status \in Ends /\ Fine({}).status = "success" /\ Fine({}).kept = {}
      /\ Fine({}).status # "died"
  BY DEF Fine, Ends
<1>2. ~Followed(p)
  BY DEF Followed
<1> DEFINE v == Value(p, Fine({}))
<1>3. /\ v.status \in Ends /\ v.status # "died"
      /\ v.status = "success" <=> Omitted(p) \/ (Typed(p) /\ reply[e] = "absent")
                                               \/ (Typed(p) /\ Typed(e))
      /\ v.status = "success" /\ Omitted(p) => v.kept = {}
      /\ v.status = "success" /\ ~Omitted(p) /\ reply[e] = "absent" => v.kept = {p}
      /\ v.status = "success" /\ ~Omitted(p) /\ reply[e] # "absent" => v.kept = {} \cup {e, p}
  BY <1>1, <1>2, ListOutcome
<1> HIDE DEF v
<1>4. v.status \in {"success", "failure"}
  BY <1>3 DEF Ends
<1> QED BY <1>3, <1>4 DEF v, ListTyped

----------------------------------------------------------------------------
(* The document of an introspection.                                        *)

\* One authentication of the session.
LEMMA AuthenticationParsed ==
  LET a == Innermost("authentication") IN
  /\ a.status \in {"success", "failure"}
  /\ a.status = "success" <=>
       Typed("idp") /\ Typed("auth_time") /\ (Given("amr") => ListTyped("amr"))
  /\ a.status = "success" =>
       "idp" \in a.kept /\ a.kept \subseteq {"idp", "auth_time", "amr", "amr[0]"}
<1>1. "authentication" \in Objects /\ Below("authentication") = {"idp", "auth_time", "amr"}
  BY AuthenticationTable DEF Objects
<1>2. \A kept : Fine(kept).status = "success" /\ Fine(kept).kept = kept
  BY DEF Fine
<1>3. \A p \in {"idp", "auth_time"} :
        /\ InnermostOf(p).status \in {"success", "failure"}
        /\ InnermostOf(p).status = "success" <=> Typed(p)
        /\ InnermostOf(p).status = "success" => InnermostOf(p).kept = {p}
  BY ScalarValue, OmittedMeans DEF InnermostOf, Lists
<1>4. /\ InnermostOf("amr").status \in {"success", "failure"}
      /\ InnermostOf("amr").status = "success" <=> (Given("amr") => ListTyped("amr"))
      /\ InnermostOf("amr").status = "success" => InnermostOf("amr").kept \subseteq {"amr", "amr[0]"}
  BY ListValue, OmittedMeans, ElementTable DEF InnermostOf, Lists
<1>5. CASE \A p \in Below("authentication") : InnermostOf(p).status = "success"
  <2>1. Innermost("authentication") = Fine(UNION {InnermostOf(p).kept : p \in Below("authentication")})
    BY <1>1, <1>5, InnermostOutcome
  <2>2. Innermost("authentication").kept
          = InnermostOf("idp").kept \cup InnermostOf("auth_time").kept \cup InnermostOf("amr").kept
    BY <1>1, <1>2, <2>1
  <2>3. Innermost("authentication").status = "success"
    BY <1>2, <2>1
  <2> QED BY <1>1, <1>3, <1>4, <1>5, <2>2, <2>3
<1>6. CASE \E p \in Below("authentication") :
             InnermostOf(p).status # "success" /\ Innermost("authentication") = InnermostOf(p)
  BY <1>1, <1>3, <1>4, <1>6
<1> QED BY <1>1, <1>5, <1>6, InnermostOutcome

\* The authentications: none, or one.
AuthenticationsTyped ==
  /\ Typed("authentications")
  /\ \/ reply["authentication"] = "absent"
     \/ /\ Typed("authentication") /\ Typed("idp") /\ Typed("auth_time")
        /\ Given("amr") => ListTyped("amr")

NoAuthentication ==
  Typed("authentications") /\ reply["authentication"] # "absent" /\ ~Typed("authentication")

\* When session_info is accepted, what is kept of it, and what may kill the process in it.
LEMMA SessionParsed ==
  LET s == Middle("session_info") IN
  /\ s.status = "success" <=>
       Typed("session_id") /\ (Given("authentications") => AuthenticationsTyped)
  /\ s.status = "success" =>
       /\ s.kept \subseteq {"session_id", "authentications", "authentication", "idp", "auth_time",
                            "amr", "amr[0]"}
       /\ "authentication" \in s.kept => "idp" \in s.kept
  /\ s.status = "died" => NoAuthentication
<1>1. /\ "session_info" \in Objects /\ "authentication" \in Objects
      /\ Below("session_info") = {"session_id", "authentications"}
      /\ "session_id" \notin Objects /\ "session_id" \notin Lists
  BY SessionTable DEF Objects, Lists
<1>2. \A kept : Fine(kept).status = "success" /\ Fine(kept).kept = kept
  BY DEF Fine
<1>3. MiddleOf("session_id") = Value("session_id", Fine({}))
  BY <1>1, ElementTable DEF MiddleOf, Holds
<1>4. /\ MiddleOf("session_id").status \in {"success", "failure"}
      /\ MiddleOf("session_id").status = "success" <=> Typed("session_id")
      /\ MiddleOf("session_id").status = "success" => MiddleOf("session_id").kept = {"session_id"}
  BY <1>1, <1>3, ScalarValue, OmittedMeans
<1>5. /\ "authentications" \in Lists /\ Element["authentications"] = "authentication"
      /\ Holds("authentications") = "authentication"
  BY ElementTable DEF Lists, Holds
<1> DEFINE a == Innermost("authentication")
           v == MiddleOf("authentications")
<1>6. v = Value("authentications", a)
  BY <1>1, <1>5 DEF MiddleOf
<1>7. /\ a.status \in {"success", "failure"} /\ a.status \in Ends
      /\ a.status = "success" <=>
           Typed("idp") /\ Typed("auth_time") /\ (Given("amr") => ListTyped("amr"))
      /\ a.status = "success" =>
           "idp" \in a.kept /\ a.kept \subseteq {"idp", "auth_time", "amr", "amr[0]"}
  BY AuthenticationParsed DEF Ends
<1> HIDE DEF a, v
<1>8. Omitted("authentications") <=> ~Given("authentications")
  BY OmittedMeans
<1>9. v.status = "success" <=> (Given("authentications") => AuthenticationsTyped)
  BY <1>5, <1>6, <1>7, <1>8, ListOutcome DEF AuthenticationsTyped
<1>10. v.status = "success" =>
         /\ v.kept \subseteq {"authentications", "authentication", "idp", "auth_time", "amr", "amr[0]"}
         /\ "authentication" \in v.kept => "idp" \in v.kept
  <2>1. /\ v.status = "success" /\ Omitted("authentications") => v.kept = {}
        /\ v.status = "success" /\ ~Omitted("authentications") /\ reply["authentication"] = "absent" =>
             v.kept = {"authentications"}
        /\ v.status = "success" /\ ~Omitted("authentications") /\ reply["authentication"] # "absent" =>
             v.kept = a.kept \cup {"authentication", "authentications"}
    BY <1>5, <1>6, <1>7, ListOutcome
  <2>2. v.status = "success" /\ Given("authentications") /\ reply["authentication"] # "absent"
          => a.status = "success"
    BY <1>7, <1>9 DEF AuthenticationsTyped
  <2>3. CASE Omitted("authentications")
    BY <2>1, <2>3
  <2>4. CASE ~Omitted("authentications") /\ reply["authentication"] = "absent"
    BY <2>1, <2>4
  <2>5. CASE ~Omitted("authentications") /\ reply["authentication"] # "absent"
    <3>1. v.status = "success" =>
            /\ v.kept = a.kept \cup {"authentication", "authentications"}
            /\ "idp" \in a.kept /\ a.kept \subseteq {"idp", "auth_time", "amr", "amr[0]"}
      BY <1>7, <1>8, <2>1, <2>2, <2>5
    <3> QED BY <3>1
  <2> QED BY <2>3, <2>4, <2>5
<1>11. v.status = "died" => NoAuthentication
  BY <1>5, <1>6, <1>7, ListOutcome DEF NoAuthentication
<1>12. CASE \A p \in Below("session_info") : MiddleOf(p).status = "success"
  <2>1. Middle("session_info") = Fine(UNION {MiddleOf(p).kept : p \in Below("session_info")})
    BY <1>1, <1>12, MiddleOutcome
  <2>2. Middle("session_info").kept = MiddleOf("session_id").kept \cup v.kept
    BY <1>1, <1>2, <2>1 DEF v
  <2>3. Middle("session_info").status = "success"
    BY <1>2, <2>1
  <2>4. v.status = "success" /\ MiddleOf("session_id").status = "success"
    BY <1>1, <1>12 DEF v
  <2> QED BY <1>4, <1>9, <1>10, <2>2, <2>3, <2>4
<1>13. CASE \E p \in Below("session_info") :
              MiddleOf(p).status # "success" /\ Middle("session_info") = MiddleOf(p)
  <2>1. \/ MiddleOf("session_id").status = "failure" /\ Middle("session_info").status = "failure"
        \/ v.status # "success" /\ Middle("session_info") = v
    BY <1>1, <1>4, <1>13 DEF v
  <2> QED BY <1>4, <1>9, <1>11, <2>1
<1> QED BY <1>1, <1>12, <1>13, MiddleOutcome

\* A member that is neither a list nor has an object in it.
Plain == {"active", "scope", "client_id", "sub", "username", "iss", "email", "exp", "iat", "nbf"}

\* What introspect_init() asks of a reply: the table of introspect.h, read in the
\* order of the code, down to the authentications.
ParsedWhen ==
  /\ \A p \in Plain : Typed(p)
  /\ ListTyped("aud")
  /\ Given("identities_set") => ListTyped("identities_set")
  /\ Given("session_info") =>
       /\ Typed("session_info") /\ Typed("session_id")
       /\ Given("authentications") => AuthenticationsTyped

IntrospectionPlaces ==
  Plain \cup {"aud", "aud[0]", "identities_set", "identities_set[0]", "session_info", "session_id",
              "authentications", "authentication", "idp", "auth_time", "amr", "amr[0]"}

\* An introspection is parsed exactly if it is as the table says; what it keeps of
\* the optional members is what was given; and only an authentication that is no
\* object kills the process.
LEMMA IntrospectionParsed ==
  LET d == Document("introspection") IN
  /\ d.status = "success" <=> ParsedWhen
  /\ d.status = "success" =>
       /\ d.kept \subseteq IntrospectionPlaces
       /\ "authentication" \in d.kept => "idp" \in d.kept
       /\ "identities_set" \in d.kept <=> Given("identities_set")
       /\ "identities_set[0]" \in d.kept <=>
            Given("identities_set") /\ reply["identities_set[0]"] # "absent"
       /\ "session_info" \in d.kept <=> Given("session_info")
  /\ d.status = "died" => NoAuthentication /\ Typed("active")
<1>1. /\ "introspection" \in Objects /\ "session_info" \in Objects
      /\ Below("introspection") = Plain \cup {"aud", "identities_set", "session_info"}
      /\ Plain \cap Objects = {} /\ Plain \cap Lists = {}
      /\ "session_info" \notin Lists
  BY IntrospectionTable DEF Objects, Lists, Plain
<1>2. \A kept : Fine(kept).status = "success" /\ Fine(kept).kept = kept
  BY DEF Fine
<1>3. ASSUME NEW p \in Plain
      PROVE  /\ DocumentOf(p).status \in {"success", "failure"}
             /\ DocumentOf(p).status = "success" <=> Typed(p)
             /\ DocumentOf(p).status = "success" => DocumentOf(p).kept = {p}
  <2>1. DocumentOf(p) = Value(p, Fine({})) /\ p \notin Lists
    BY <1>1, ElementTable DEF DocumentOf, Holds
  <2>2. ~Omitted(p)
    BY OmittedMeans DEF Plain
  <2> QED BY <2>1, <2>2, ScalarValue
<1>0. Document("introspection").status = "died" => Typed("active")
  <2> DEFINE outcomes == [k \in DOMAIN Members["introspection"] |->
                            DocumentOf(Members["introspection"][k])]
  <2>1. Document("introspection") = InOrder(outcomes)
    BY ObjectTable DEF Document, Object, DocumentOf
  <2>2. /\ DOMAIN outcomes = 1 .. 13 /\ outcomes[1] = DocumentOf("active")
    BY IntrospectionTable DEF Members
  <2> HIDE DEF outcomes
  <2>3. DOMAIN outcomes \subseteq Nat \ {0} /\ 1 \in DOMAIN outcomes
    BY <2>2
  <2>4. "active" \in Plain
    BY DEF Plain
  <2>5. CASE Typed("active")
    BY <2>5
  <2>6. CASE ~Typed("active")
    <3>1. outcomes[1].status = "failure"
      BY <1>3, <2>2, <2>4, <2>6
    <3>2. InOrder(outcomes) = outcomes[1]
      BY <2>3, <3>1, FirstDecides
    <3> QED BY <2>1, <3>1, <3>2
  <2> QED BY <2>5, <2>6
<1> DEFINE aud  == DocumentOf("aud")
           set  == DocumentOf("identities_set")
           info == DocumentOf("session_info")
           s    == Middle("session_info")
<1>4. /\ aud.status \in {"success", "failure"}
      /\ aud.status = "success" <=> ListTyped("aud")
      /\ aud.status = "success" => aud.kept \subseteq {"aud", "aud[0]"}
  <2>1. aud = Value("aud", Fine({})) /\ "aud" \in Lists /\ Element["aud"] = "aud[0]"
    BY ElementTable DEF DocumentOf, Holds, Lists, Objects
  <2>2. ~Omitted("aud")
    BY OmittedMeans
  <2> HIDE DEF aud
  <2> QED BY <2>1, <2>2, ListValue
<1>5. /\ set.status \in {"success", "failure"}
      /\ set.status = "success" <=> (Given("identities_set") => ListTyped("identities_set"))
      /\ set.status = "success" =>
           /\ set.kept \subseteq {"identities_set", "identities_set[0]"}
           /\ "identities_set" \in set.kept <=> Given("identities_set")
           /\ "identities_set[0]" \in set.kept <=>
                Given("identities_set") /\ reply["identities_set[0]"] # "absent"
  <2>1. /\ set = Value("identities_set", Fine({})) /\ "identities_set" \in Lists
        /\ Element["identities_set"] = "identities_set[0]"
    BY ElementTable DEF DocumentOf, Holds, Lists, Objects
  <2>2. Omitted("identities_set") <=> ~Given("identities_set")
    BY OmittedMeans
  <2> HIDE DEF set
  <2>3. /\ set.status \in {"success", "failure"}
        /\ set.status = "success" <=> Omitted("identities_set") \/ ListTyped("identities_set")
        /\ set.status = "success" /\ Omitted("identities_set") => set.kept = {}
        /\ set.status = "success" /\ ~Omitted("identities_set") /\ reply["identities_set[0]"] = "absent"
             => set.kept = {"identities_set"}
        /\ set.status = "success" /\ ~Omitted("identities_set") /\ reply["identities_set[0]"] # "absent"
             => set.kept = {"identities_set[0]", "identities_set"}
    BY <2>1, ListValue
  <2>4. CASE ~Given("identities_set")
    BY <2>2, <2>3, <2>4
  <2>5. CASE Given("identities_set") /\ reply["identities_set[0]"] = "absent"
    BY <2>2, <2>3, <2>5
  <2>6. CASE Given("identities_set") /\ reply["identities_set[0]"] # "absent"
    BY <2>2, <2>3, <2>6
  <2> QED BY <2>4, <2>5, <2>6
<1>6. /\ s.status \in Ends
      /\ s.status = "success" <=>
           Typed("session_id") /\ (Given("authentications") => AuthenticationsTyped)
      /\ s.status = "success" =>
           /\ s.kept \subseteq {"session_id", "authentications", "authentication", "idp",
                                "auth_time", "amr", "amr[0]"}
           /\ "authentication" \in s.kept => "idp" \in s.kept
      /\ s.status = "died" => NoAuthentication
  BY <1>1, SessionParsed, ObjectEnds
<1>7. info = Value("session_info", s)
  BY <1>1, ElementTable DEF DocumentOf, Holds
<1> HIDE DEF aud, set, info, s
<1>8. /\ Omitted("session_info") <=> ~Given("session_info")
      /\ info.status \in Ends
      /\ info.status = "success" <=>
           Omitted("session_info") \/ (Typed("session_info") /\ s.status = "success")
      /\ info.status = "success" /\ Omitted("session_info") => info.kept = {}
      /\ info.status = "success" /\ ~Omitted("session_info") => info.kept = s.kept \cup {"session_info"}
      /\ info.status = "died" => s.status = "died"
  BY <1>1, <1>6, <1>7, MemberOutcome, OmittedMeans
<1>9. /\ info.status = "success" <=>
           (Given("session_info") =>
              /\ Typed("session_info") /\ Typed("session_id")
              /\ Given("authentications") => AuthenticationsTyped)
      /\ info.status = "success" =>
           /\ info.kept \subseteq {"session_info", "session_id", "authentications", "authentication",
                                   "idp", "auth_time", "amr", "amr[0]"}
           /\ "authentication" \in info.kept => "idp" \in info.kept
           /\ "session_info" \in info.kept <=> Given("session_info")
      /\ info.status = "died" => NoAuthentication
  <2>1. CASE Omitted("session_info")
    BY <1>6, <1>8, <2>1
  <2>2. CASE ~Omitted("session_info")
    <3>1. info.status = "success" => s.status = "success" /\ info.kept = s.kept \cup {"session_info"}
      BY <1>8, <2>2
    <3>2. info.status = "success" =>
           /\ info.kept \subseteq {"session_info", "session_id", "authentications", "authentication",
                                   "idp", "auth_time", "amr", "amr[0]"}
           /\ "authentication" \in info.kept => "idp" \in info.kept
           /\ "session_info" \in info.kept
      BY <1>6, <3>1
    <3> QED BY <1>6, <1>8, <2>2, <3>2
  <2> QED BY <2>1, <2>2
<1>10. CASE \A p \in Below("introspection") : DocumentOf(p).status = "success"
  <2> DEFINE d == Document("introspection")
  <2>1. d = Fine(UNION {DocumentOf(p).kept : p \in Below("introspection")})
    BY <1>1, <1>10, DocumentOutcome
  <2>2. d.status = "success" /\ d.kept = UNION {DocumentOf(p).kept : p \in Below("introspection")}
    BY <1>2, <2>1
  <2>3. /\ \A p \in Plain : DocumentOf(p).kept = {p} /\ Typed(p)
        /\ aud.status = "success" /\ set.status = "success" /\ info.status = "success"
    BY <1>1, <1>3, <1>10 DEF aud, set, info
  <2>4. d.kept = Plain \cup aud.kept \cup set.kept \cup info.kept
    <3>1. UNION {DocumentOf(p).kept : p \in Plain} = Plain
      BY <2>3
    <3>2. UNION {DocumentOf(p).kept : p \in Below("introspection")}
            = (UNION {DocumentOf(p).kept : p \in Plain}) \cup aud.kept \cup set.kept \cup info.kept
      BY <1>1 DEF aud, set, info
    <3> QED BY <2>2, <3>1, <3>2
  <2> HIDE DEF d
  <2>5. ParsedWhen
    BY <1>4, <1>5, <1>9, <2>3 DEF ParsedWhen
  <2>6. d.kept \subseteq IntrospectionPlaces
    BY <1>4, <1>5, <1>9, <2>3, <2>4 DEF IntrospectionPlaces
  <2>7. /\ "authentication" \in d.kept => "idp" \in d.kept
        /\ "identities_set" \in d.kept <=> "identities_set" \in set.kept
        /\ "identities_set[0]" \in d.kept <=> "identities_set[0]" \in set.kept
        /\ "session_info" \in d.kept <=> "session_info" \in info.kept
    BY <1>4, <1>5, <1>9, <2>3, <2>4 DEF Plain
  <2> QED BY <1>5, <1>9, <2>2, <2>3, <2>5, <2>6, <2>7 DEF d
<1>11. CASE \E p \in Below("introspection") :
              DocumentOf(p).status # "success" /\ Document("introspection") = DocumentOf(p)
  <2>1. PICK p \in Below("introspection") :
              DocumentOf(p).status # "success" /\ Document("introspection") = DocumentOf(p)
    BY <1>11
  <2>2. CASE p \in Plain
    BY <1>3, <2>1, <2>2 DEF ParsedWhen
  <2>3. CASE p = "aud"
    BY <1>4, <2>1, <2>3 DEF ParsedWhen, aud
  <2>4. CASE p = "identities_set"
    BY <1>5, <2>1, <2>4 DEF ParsedWhen, set
  <2>5. CASE p = "session_info"
    BY <1>0, <1>9, <2>1, <2>5 DEF ParsedWhen, info
  <2> QED BY <1>0, <1>1, <2>2, <2>3, <2>4, <2>5
<1> QED BY <1>1, <1>10, <1>11, DocumentOutcome

----------------------------------------------------------------------------
(* The documents of the other two calls.                                    *)

\* A member that must be there and holds no object is there once parsed, and
\* nothing else but its element is.
LEMMA FlatMember ==
  ASSUME NEW p, p \notin Optional
  PROVE  LET v == Value(p, Fine({})) IN
         /\ v.status \in {"success", "failure"}
         /\ v.status = "success" => p \in v.kept /\ v.kept \subseteq {p} \cup Below(p)
<1>1. ~Omitted(p) /\ p # "authentications"
  BY DEF Omitted, Optional
<1>2. CASE p \notin Lists
  BY <1>1, <1>2, ScalarValue
<1>3. CASE p \in Lists
  <2>1. Element[p] \in Below(p)
    <3>1. p \notin DOMAIN Members /\ p \in DOMAIN Element
      BY <1>3, ObjectTable, ElementTable DEF Objects, Lists
    <3> QED BY <3>1 DEF Below
  <2> DEFINE v == Value(p, Fine({}))
  <2>2. /\ v.status \in {"success", "failure"}
        /\ v.status = "success" /\ reply[Element[p]] = "absent" => v.kept = {p}
        /\ v.status = "success" /\ reply[Element[p]] # "absent" => v.kept = {Element[p], p}
    BY <1>1, <1>3, ListValue
  <2> HIDE DEF v
  <2>3. /\ v.status \in {"success", "failure"}
        /\ v.status = "success" => p \in v.kept /\ v.kept \subseteq {p} \cup Below(p)
    BY <2>1, <2>2
  <2> QED BY <2>3 DEF v
<1> QED BY <1>2, <1>3

\* An object without an object in it, and without optional members.
Flat(o) == \A p \in Below(o) : Holds(p) \notin Objects /\ p \notin Optional

\* An object without objects and without optional members never kills the process, and is kept whole.
LEMMA FlatInnermost ==
  ASSUME NEW o \in Objects, Flat(o)
  PROVE  LET v == Innermost(o) IN
         /\ v.status \in {"success", "failure"}
         /\ v.status = "success" => Below(o) \subseteq v.kept /\ v.kept \subseteq Deeper(Below(o))
<1>1. ASSUME NEW p \in Below(o)
      PROVE  /\ InnermostOf(p).status \in {"success", "failure"}
             /\ InnermostOf(p).status = "success" =>
                  p \in InnermostOf(p).kept /\ InnermostOf(p).kept \subseteq {p} \cup Below(p)
  BY FlatMember DEF InnermostOf, Flat
<1>2. CASE /\ \A p \in Below(o) : InnermostOf(p).status = "success"
           /\ Innermost(o) = Fine(UNION {InnermostOf(p).kept : p \in Below(o)})
  <2>1. /\ Innermost(o).status = "success"
        /\ Innermost(o).kept = UNION {InnermostOf(p).kept : p \in Below(o)}
    BY <1>2 DEF Fine
  <2>2. Below(o) \subseteq Innermost(o).kept
    BY <1>1, <1>2, <2>1
  <2>3. Innermost(o).kept \subseteq Deeper(Below(o))
    BY <1>1, <1>2, <2>1 DEF Deeper
  <2> QED BY <2>1, <2>2, <2>3
<1>3. CASE \E p \in Below(o) : InnermostOf(p).status # "success" /\ Innermost(o) = InnermostOf(p)
  BY <1>1, <1>3
<1> QED BY <1>2, <1>3, InnermostOutcome

\* The same of such an object one level up.
LEMMA FlatMiddle ==
  ASSUME NEW o \in Objects, Flat(o)
  PROVE  LET v == Middle(o) IN
         /\ v.status \in {"success", "failure"}
         /\ v.status = "success" => Below(o) \subseteq v.kept /\ v.kept \subseteq Deeper(Below(o))
<1>1. ASSUME NEW p \in Below(o)
      PROVE  /\ MiddleOf(p).status \in {"success", "failure"}
             /\ MiddleOf(p).status = "success" =>
                  p \in MiddleOf(p).kept /\ MiddleOf(p).kept \subseteq {p} \cup Below(p)
  BY FlatMember DEF MiddleOf, Flat
<1>2. CASE /\ \A p \in Below(o) : MiddleOf(p).status = "success"
           /\ Middle(o) = Fine(UNION {MiddleOf(p).kept : p \in Below(o)})
  <2>1. /\ Middle(o).status = "success"
        /\ Middle(o).kept = UNION {MiddleOf(p).kept : p \in Below(o)}
    BY <1>2 DEF Fine
  <2>2. Below(o) \subseteq Middle(o).kept
    BY <1>1, <1>2, <2>1
  <2>3. Middle(o).kept \subseteq Deeper(Below(o))
    BY <1>1, <1>2, <2>1 DEF Deeper
  <2> QED BY <2>1, <2>2, <2>3
<1>3. CASE \E p \in Below(o) : MiddleOf(p).status # "success" /\ Middle(o) = MiddleOf(p)
  BY <1>1, <1>3
<1> QED BY <1>2, <1>3, MiddleOutcome

\* What stands below a place is one deeper.
LEMMA DeeperHas ==
  ASSUME NEW S, NEW p \in S PROVE p \in Deeper(S) /\ Below(p) \subseteq Deeper(S)
  BY DEF Deeper

\* More members have more below them.
LEMMA DeeperGrows ==
  ASSUME NEW S, NEW T, S \subseteq T PROVE Deeper(S) \subseteq Deeper(T)
  BY DEF Deeper

\* The reply about a client never kills the process.
LEMMA ClientParsed ==
  LET d == Document("client_reply") IN
  /\ d.status \in {"success", "failure"}
  /\ d.status = "success" => d.kept \subseteq {"client"} \cup Deeper(Below("client"))
<1>1. /\ "client_reply" \in Objects /\ "client" \in Objects /\ Below("client_reply") = {"client"}
      /\ "client" \notin Lists /\ "client" \notin Optional
  BY ClientTable DEF Objects, Lists, Optional
<1>2. Flat("client")
  BY ClientTable, ElementTable DEF Flat, Holds, Objects, Optional, Lists
<1> DEFINE c == Middle("client")
<1>3. /\ c.status \in {"success", "failure"}
      /\ c.status = "success" => c.kept \subseteq Deeper(Below("client"))
  BY <1>1, <1>2, FlatMiddle
<1>4. DocumentOf("client") = Value("client", c)
  BY <1>1, ElementTable DEF DocumentOf, Holds
<1> HIDE DEF c
<1>5. c.status \in Ends /\ c.status # "died" /\ ~Omitted("client")
  BY <1>1, <1>3 DEF Ends, Omitted
<1> DEFINE v == Value("client", c)
<1>6. /\ v.status \in Ends /\ v.status # "died"
      /\ v.status = "success" <=> (Typed("client") /\ c.status = "success")
      /\ v.status = "success" => v.kept = c.kept \cup {"client"}
  BY <1>1, <1>5, MemberOutcome
<1> HIDE DEF v
<1>7. v.status \in {"success", "failure"}
  BY <1>6 DEF Ends
<1>8. CASE v.status = "success" /\ Document("client_reply") = Fine(UNION {DocumentOf(p).kept : p \in {"client"}})
  <2>1. /\ Document("client_reply").status = "success"
        /\ Document("client_reply").kept = v.kept
    <3>1. UNION {DocumentOf(p).kept : p \in {"client"}} = v.kept
      BY <1>4 DEF v
    <3> QED BY <1>8, <3>1 DEF Fine
  <2> QED BY <1>3, <1>6, <1>8, <2>1
<1>9. CASE v.status # "success" /\ Document("client_reply") = v
  BY <1>7, <1>9
<1>10. \/ DocumentOf("client").status = "success"
            /\ Document("client_reply") = Fine(UNION {DocumentOf(p).kept : p \in {"client"}})
       \/ DocumentOf("client").status # "success" /\ Document("client_reply") = DocumentOf("client")
  BY <1>1, DocumentOutcome
<1> QED BY <1>4, <1>8, <1>9, <1>10 DEF v

\* Nor does the one about identities; and what account_map_init() and
\* _lookup_idp() follow in it is there.
LEMMA IdentitiesParsed ==
  LET d == Document("identities_reply") IN
  /\ d.status \in {"success", "failure"}
  /\ d.status = "success" =>
       /\ d.kept \subseteq {"included", "identity_providers", "identity_provider", "identities",
                            "identity"}
                           \cup Deeper(Below("identity_provider")) \cup Deeper(Below("identity"))
       /\ "identities" \in d.kept
       /\ "identity_provider" \in d.kept => "idp_id" \in d.kept
       /\ "identity" \in d.kept => {"identity_username", "identity_id"} \subseteq d.kept
<1>1. /\ {"identities_reply", "included", "identity_provider", "identity"} \subseteq Objects
      /\ Below("identities_reply") = {"included", "identities"}
      /\ Below("included") = {"identity_providers"}
      /\ "idp_id" \in Below("identity_provider")
      /\ {"identity_username", "identity_id"} \subseteq Below("identity")
      /\ "included" \notin Lists /\ {"identities", "identity_providers"} \subseteq Lists
      /\ Element["identities"] = "identity" /\ Element["identity_providers"] = "identity_provider"
      /\ ~Omitted("included") /\ ~Omitted("identities") /\ ~Omitted("identity_providers")
      /\ ~Followed("identities") /\ ~Followed("identity_providers")
  BY IdentitiesTable, ElementTable DEF Objects, Lists, Omitted, Optional, Followed
<1>2. Flat("identity_provider") /\ Flat("identity")
  BY IdentitiesTable, ElementTable DEF Flat, Holds, Objects, Optional, Lists
<1> DEFINE provider  == Innermost("identity_provider")
           providers == Value("identity_providers", provider)
           within    == Middle("included")
           included  == Value("included", within)
           identity  == Middle("identity")
           all       == Value("identities", identity)
           Providers == {"identity_providers", "identity_provider"} \cup Deeper(Below("identity_provider"))
           Identities == {"identities", "identity"} \cup Deeper(Below("identity"))
<1>3. /\ provider.status \in Ends /\ provider.status # "died"
      /\ provider.status = "success" =>
           "idp_id" \in provider.kept /\ provider.kept \subseteq Deeper(Below("identity_provider"))
      /\ identity.status \in Ends /\ identity.status # "died"
      /\ identity.status = "success" =>
           /\ {"identity_username", "identity_id"} \subseteq identity.kept
           /\ identity.kept \subseteq Deeper(Below("identity"))
  BY <1>1, <1>2, FlatInnermost, FlatMiddle DEF Ends
<1> HIDE DEF provider, identity
<1>4. /\ providers.status \in Ends /\ providers.status # "died"
      /\ providers.status = "success" =>
           /\ providers.kept \subseteq Providers
           /\ "identity_provider" \in providers.kept => "idp_id" \in providers.kept
  <2> DEFINE e == "identity_provider"
  <2>1. /\ providers.status \in Ends /\ providers.status # "died"
        /\ providers.status = "success" =>
             \/ Typed("identity_providers") /\ reply[e] = "absent"
             \/ Typed("identity_providers") /\ Typed(e) /\ provider.status = "success"
        /\ providers.status = "success" /\ reply[e] = "absent" =>
             providers.kept = {"identity_providers"}
        /\ providers.status = "success" /\ reply[e] # "absent" =>
             providers.kept = provider.kept \cup {e, "identity_providers"}
    BY <1>1, <1>3, ListOutcome
  <2> HIDE DEF providers
  <2>2. CASE reply[e] = "absent"
    BY <2>1, <2>2
  <2>3. CASE reply[e] # "absent"
    BY <1>3, <2>1, <2>3
  <2> QED BY <2>2, <2>3
<1>5. /\ all.status \in Ends /\ all.status # "died"
      /\ all.status = "success" =>
           /\ all.kept \subseteq Identities /\ "identities" \in all.kept
           /\ "identity" \in all.kept => {"identity_username", "identity_id"} \subseteq all.kept
  <2> DEFINE e == "identity"
  <2>1. /\ all.status \in Ends /\ all.status # "died"
        /\ all.status = "success" =>
             \/ Typed("identities") /\ reply[e] = "absent"
             \/ Typed("identities") /\ Typed(e) /\ identity.status = "success"
        /\ all.status = "success" /\ reply[e] = "absent" => all.kept = {"identities"}
        /\ all.status = "success" /\ reply[e] # "absent" => all.kept = identity.kept \cup {e, "identities"}
    BY <1>1, <1>3, ListOutcome
  <2> HIDE DEF all
  <2>2. CASE reply[e] = "absent"
    BY <2>1, <2>2
  <2>3. CASE reply[e] # "absent"
    BY <1>3, <2>1, <2>3
  <2> QED BY <2>2, <2>3
<1>6. MiddleOf("identity_providers") = providers
  BY <1>1, ElementTable DEF MiddleOf, Holds, Lists, provider
<1>7. DocumentOf("included") = included /\ DocumentOf("identities") = all
  BY <1>1, ElementTable DEF DocumentOf, Holds, Lists, identity
<1>8. /\ within.status \in Ends /\ within.status # "died"
      /\ within.status = "success" => providers.status = "success" /\ within.kept = providers.kept
  <2>1. \/ /\ \A p \in {"identity_providers"} : MiddleOf(p).status = "success"
           /\ within = Fine(UNION {MiddleOf(p).kept : p \in {"identity_providers"}})
        \/ \E p \in {"identity_providers"} : MiddleOf(p).status # "success" /\ within = MiddleOf(p)
    BY <1>1, MiddleOutcome
  <2>2. UNION {MiddleOf(p).kept : p \in {"identity_providers"}} = providers.kept
    BY <1>6
  <2> HIDE DEF within, providers
  <2>3. CASE providers.status = "success" /\ within = Fine(providers.kept)
    BY <2>3 DEF Fine, Ends
  <2>4. CASE providers.status # "success" /\ within = providers
    BY <1>4, <2>4
  <2> QED BY <1>6, <2>1, <2>2, <2>3, <2>4
<1> HIDE DEF within, providers, all
<1>9. /\ included.status \in Ends /\ included.status # "died"
      /\ included.status = "success" => within.status = "success" /\ included.kept = within.kept \cup {"included"}
  BY <1>1, <1>8, MemberOutcome
<1> HIDE DEF included
<1> DEFINE d == Document("identities_reply")
<1>10. CASE included.status = "success" /\ all.status = "success" /\ d = Fine(included.kept \cup all.kept)
  <2>1. d.status = "success" /\ d.kept = providers.kept \cup {"included"} \cup all.kept
    BY <1>8, <1>9, <1>10 DEF Fine
  <2> HIDE DEF d
  <2>2. /\ providers.kept \subseteq Providers
        /\ "identity_provider" \in providers.kept => "idp_id" \in providers.kept
    BY <1>4, <1>8, <1>9, <1>10
  <2>3. /\ "identity_provider" \notin Identities /\ "identity" \notin Providers
    BY IdentitiesTable, ElementTable, ObjectTable DEF Deeper, Below, Objects, Lists
  <2>4. d.kept \subseteq Providers \cup {"included"} \cup Identities
    BY <1>5, <1>10, <2>1, <2>2
  <2>5. /\ "identities" \in d.kept
        /\ "identity_provider" \in d.kept => "idp_id" \in d.kept
        /\ "identity" \in d.kept => {"identity_username", "identity_id"} \subseteq d.kept
    <3> HIDE DEF Providers, Identities
    <3> QED BY <1>5, <1>10, <2>1, <2>2, <2>3
  <2>6. d.kept \subseteq {"included", "identity_providers", "identity_provider", "identities", "identity"}
                           \cup Deeper(Below("identity_provider")) \cup Deeper(Below("identity"))
    BY <2>4
  <2> QED BY <2>1, <2>5, <2>6 DEF d
<1>11. CASE d = included /\ included.status # "success"
  BY <1>9, <1>11 DEF Ends
<1>12. CASE d = all /\ all.status # "success"
  BY <1>5, <1>12 DEF Ends
<1>13. \/ included.status = "success" /\ all.status = "success" /\ d = Fine(included.kept \cup all.kept)
       \/ d = included /\ included.status # "success"
       \/ d = all /\ all.status # "success"
  <2>1. \/ /\ \A p \in {"included", "identities"} : DocumentOf(p).status = "success"
           /\ d = Fine(UNION {DocumentOf(p).kept : p \in {"included", "identities"}})
        \/ \E p \in {"included", "identities"} : DocumentOf(p).status # "success" /\ d = DocumentOf(p)
    BY <1>1, DocumentOutcome
  <2>2. UNION {DocumentOf(p).kept : p \in {"included", "identities"}} = included.kept \cup all.kept
    BY <1>7 DEF included, all
  <2> QED BY <1>7, <2>1, <2>2 DEF included, all
<1> QED BY <1>10, <1>11, <1>12, <1>13 DEF d

\* What a document may keep are places of it; the document itself is none.
LEMMA IntrospectionPlaced == IntrospectionPlaces \subseteq Places["introspect"]
<1> DEFINE D1 == Deeper({"introspection"})
           D2 == Deeper(D1)
           D3 == Deeper(D2)
           D4 == Deeper(D3)
           D5 == Deeper(D4)
<1>1. Places["introspect"] = D5 \ {"introspection"}
  BY DEF Places, Root, Calls
<1>2. Below("introspection") \subseteq D1
  BY DeeperHas
<1>3. D1 \subseteq D2 /\ D2 \subseteq D3 /\ D3 \subseteq D4 /\ D4 \subseteq D5
  BY DEF Deeper
<1>4. /\ Below("aud") = {"aud[0]"} /\ Below("identities_set") = {"identities_set[0]"}
      /\ Below("authentications") = {"authentication"} /\ Below("amr") = {"amr[0]"}
  BY ElementTable, ObjectTable DEF Below, Objects, Lists
<1> HIDE DEF D1, D2, D3, D4, D5
<1>5. /\ "aud" \in D1 /\ "identities_set" \in D1 /\ "session_info" \in D1 /\ Plain \subseteq D1
  BY <1>2, IntrospectionTable DEF Plain
<1>6. Below("aud") \subseteq D2 /\ Below("identities_set") \subseteq D2 /\ Below("session_info") \subseteq D2
  BY <1>5, DeeperHas DEF D2
<1>7. "authentications" \in D2 /\ "session_id" \in D2
  BY <1>6, SessionTable
<1>8. "authentication" \in D3
  BY <1>4, <1>7, DeeperHas DEF D3
<1>9. "idp" \in D4 /\ "auth_time" \in D4 /\ "amr" \in D4
  BY <1>8, DeeperHas, AuthenticationTable DEF D4
<1>10. "amr[0]" \in D5
  BY <1>4, <1>9, DeeperHas DEF D5
<1>11. IntrospectionPlaces \subseteq D5
  BY <1>3, <1>4, <1>5, <1>6, <1>7, <1>8, <1>9, <1>10 DEF IntrospectionPlaces
<1>12. "introspection" \notin IntrospectionPlaces
  BY DEF IntrospectionPlaces, Plain
<1> QED BY <1>1, <1>11, <1>12

\* What is kept of a client is in the reply about a client.
LEMMA ClientPlaced == {"client"} \cup Deeper(Below("client")) \subseteq Places["client"]
<1> DEFINE D1 == Deeper({"client_reply"})
           D2 == Deeper(D1)
           D3 == Deeper(D2)
           D5 == Deeper(Deeper(D3))
<1>1. Places["client"] = D5 \ {"client_reply"}
  BY DEF Places, Root, Calls
<1>2. D1 \subseteq D2 /\ D2 \subseteq D3 /\ D3 \subseteq D5
  BY DEF Deeper
<1>3. "client" \in D1
  BY DeeperHas, ClientTable
<1>4. "client_reply" \notin Deeper(Below("client"))
  BY ClientTable, ElementTable, ObjectTable DEF Deeper, Below, Objects, Lists
<1> HIDE DEF D1
<1>5. Below("client") \subseteq D2
  BY <1>3, DeeperHas
<1> HIDE DEF D2
<1>6. Deeper(Below("client")) \subseteq D3
  BY <1>5, DeeperGrows
<1> HIDE DEF D3, D5
<1> QED BY <1>1, <1>2, <1>3, <1>4, <1>6

\* What is kept of identities is in the reply about identities.
LEMMA IdentitiesPlaced ==
  {"included", "identity_providers", "identity_provider", "identities", "identity"}
    \cup Deeper(Below("identity_provider")) \cup Deeper(Below("identity")) \subseteq Places["identities"]
<1> DEFINE D1 == Deeper({"identities_reply"})
           D2 == Deeper(D1)
           D3 == Deeper(D2)
           D4 == Deeper(D3)
           D5 == Deeper(D4)
<1>1. Places["identities"] = D5 \ {"identities_reply"}
  BY DEF Places, Root, Calls
<1>2. D1 \subseteq D2 /\ D2 \subseteq D3 /\ D3 \subseteq D4 /\ D4 \subseteq D5
  BY DEF Deeper
<1>3. "included" \in D1 /\ "identities" \in D1
  BY DeeperHas, IdentitiesTable
<1>4. /\ "identities_reply" \notin Deeper(Below("identity_provider"))
      /\ "identities_reply" \notin Deeper(Below("identity"))
  BY IdentitiesTable, ElementTable, ObjectTable DEF Deeper, Below, Objects, Lists
<1>5. Below("identities") = {"identity"} /\ Below("identity_providers") = {"identity_provider"}
  BY ElementTable, ObjectTable DEF Below, Objects, Lists
<1> HIDE DEF D1
<1>6. "identity_providers" \in D2 /\ "identity" \in D2
  BY <1>3, <1>5, DeeperHas, IdentitiesTable
<1> HIDE DEF D2
<1>7. "identity_provider" \in D3 /\ Below("identity") \subseteq D3
  BY <1>5, <1>6, DeeperHas
<1> HIDE DEF D3
<1>8. Below("identity_provider") \subseteq D4 /\ Deeper(Below("identity")) \subseteq D4
  BY <1>7, DeeperHas, DeeperGrows
<1> HIDE DEF D4
<1>9. Deeper(Below("identity_provider")) \subseteq D5
  BY <1>8, DeeperGrows
<1> HIDE DEF D5
<1> QED BY <1>1, <1>2, <1>3, <1>4, <1>6, <1>7, <1>8, <1>9

----------------------------------------------------------------------------
(* The call.                                                                *)

\* What get_introspect_resource() adds to the parser.
Whole(kept) == {"identities_set", "identities_set[0]", "session_info"} \subseteq kept

\* What the parser of a call gives, in terms of the reply alone.
Kept(kept) ==
  /\ kept \subseteq Places[call]
  /\ call = "introspect" =>
       /\ reply["active"] = "false" => ~Whole(kept)
       /\ reply["active"] # "false" =>
            /\ ParsedWhen
            /\ Whole(kept) <=> /\ Given("identities_set") /\ reply["identities_set[0]"] # "absent"
                               /\ Given("session_info")
            /\ "authentication" \in kept => "idp" \in kept
  /\ call = "identities" =>
       /\ "identities" \in kept
       /\ "identity_provider" \in kept => "idp_id" \in kept
       /\ "identity" \in kept => {"identity_username", "identity_id"} \subseteq kept

\* The replies that kill the process in the parser.
Fatal == call = "introspect" /\ reply["active"] = "true" /\ NoAuthentication

\* The replies get_introspect_resource() returns a resource for.
Accepted ==
  /\ reply["active"] # "false" /\ ParsedWhen
  /\ Given("identities_set") /\ reply["identities_set[0]"] # "absent" /\ Given("session_info")

\* What each of the three parsers returns, in terms of the reply alone.
LEMMA ParsedMeans ==
  ASSUME call \in Calls
  PROVE  /\ Parsed.status \in Ends
         /\ Parsed.status = "success" => Kept(Parsed.kept)
         /\ call = "introspect" /\ Parsed.status # "success" => ~Accepted
         /\ Parsed.status = "died" => Fatal
<1>1. CASE call = "introspect" /\ reply["active"] = "false"
  <2>1. Parsed.status = "success" /\ Parsed.kept = {"active"}
    BY <1>1 DEF Parsed, Introspection, Fine
  <2>2. "active" \in Places["introspect"]
    BY IntrospectionPlaced DEF IntrospectionPlaces, Plain
  <2>3. ~Whole({"active"})
    BY DEF Whole
  <2> QED BY <1>1, <2>1, <2>2, <2>3 DEF Kept, Ends
<1>2. CASE call = "introspect" /\ reply["active"] # "false"
  <2> DEFINE d == Document("introspection")
  <2>1. Parsed = d
    BY <1>2 DEF Parsed, Introspection
  <2>2. d.status \in Ends
    BY ObjectEnds DEF Objects
  <2>3. /\ d.status = "success" <=> ParsedWhen
        /\ d.status = "success" =>
             /\ d.kept \subseteq IntrospectionPlaces
             /\ "authentication" \in d.kept => "idp" \in d.kept
             /\ "identities_set" \in d.kept <=> Given("identities_set")
             /\ "identities_set[0]" \in d.kept <=>
                  Given("identities_set") /\ reply["identities_set[0]"] # "absent"
             /\ "session_info" \in d.kept <=> Given("session_info")
        /\ d.status = "died" => NoAuthentication /\ Typed("active")
    BY IntrospectionParsed
  <2> HIDE DEF d
  <2>4. d.status = "success" => Kept(d.kept)
    <3>1. SUFFICES ASSUME d.status = "success" PROVE Kept(d.kept)
      OBVIOUS
    <3>2. d.kept \subseteq Places[call]
      BY <1>2, <2>3, <3>1, IntrospectionPlaced
    <3>3. Whole(d.kept) <=> /\ Given("identities_set") /\ reply["identities_set[0]"] # "absent"
                            /\ Given("session_info")
      BY <2>3, <3>1 DEF Whole
    <3> QED BY <1>2, <2>3, <3>1, <3>2, <3>3 DEF Kept
  <2>5. d.status = "died" => Fatal
    <3>1. Typed("active") => reply["active"] = "true"
      <4>1. Expected("active") = {"false", "true"}
        BY ObjectTable, ElementTable DEF Expected, Objects, Lists
      <4> QED BY <1>2, <4>1 DEF Typed
    <3> QED BY <1>2, <2>3, <3>1 DEF Fatal
  <2> QED BY <2>1, <2>2, <2>3, <2>4, <2>5 DEF Accepted
<1>3. CASE call = "client"
  <2> DEFINE d == Document("client_reply")
  <2>1. Parsed = d
    BY <1>3 DEF Parsed, Root
  <2>2. /\ d.status \in {"success", "failure"}
        /\ d.status = "success" => d.kept \subseteq Places["client"]
    BY ClientParsed, ClientPlaced
  <2> HIDE DEF d
  <2> QED BY <1>3, <2>1, <2>2 DEF Kept, Ends
<1>4. CASE call = "identities"
  <2> DEFINE d == Document("identities_reply")
  <2>1. Parsed = d
    BY <1>4 DEF Parsed, Root
  <2>2. /\ d.status \in {"success", "failure"}
        /\ d.status = "success" =>
             /\ d.kept \subseteq Places["identities"]
             /\ "identities" \in d.kept
             /\ "identity_provider" \in d.kept => "idp_id" \in d.kept
             /\ "identity" \in d.kept => {"identity_username", "identity_id"} \subseteq d.kept
    BY IdentitiesParsed, IdentitiesPlaced
  <2> HIDE DEF d
  <2> QED BY <1>4, <2>1, <2>2 DEF Kept, Ends
<1> QED BY <1>1, <1>2, <1>3, <1>4 DEF Calls

\* The inductive invariant: where a call is, and what its resource holds, follow
\* from what was received.
ReplyInv ==
  /\ call \in Calls /\ body \in Bodies
  /\ pc \in {"http", "json", "init", "verify", "done"}
  /\ result \in {"resource", "none", "died"}
  /\ result # "none" => pc = "done"
  /\ pc = "json" => body # "unreachable"
  /\ pc \in {"init", "verify"} \/ result = "resource" => body = "document"
  /\ pc # "verify" /\ result # "resource" => got = {}
  /\ pc = "verify" => Kept(got)
  /\ result = "resource" => Kept(got) /\ (call = "introspect" => Whole(got))
  /\ result = "died" => body \in {"empty", "list"} \/ Fatal
  /\ pc = "done" /\ call = "introspect" /\ body = "document" /\ result # "resource" => ~Accepted

\* Before the request there is nothing to say of the reply.
LEMMA ReplyInit == Init => ReplyInv
  BY DEF Init, ReplyInv

\* What the reply is does not change under the call.
LEMMA ReplyStands ==
  ASSUME UNCHANGED <<call, body, reply>>
  PROVE  /\ Fatal' <=> Fatal
         /\ Accepted' <=> Accepted
         /\ \A kept : Kept(kept)' <=> Kept(kept)
<1>1. ASSUME NEW p PROVE (Given(p)' <=> Given(p)) /\ (Typed(p)' <=> Typed(p))
  BY DEF Given, Typed
<1>2. ASSUME NEW p PROVE ListTyped(p)' <=> ListTyped(p)
  BY DEF ListTyped, Typed
<1>3. (AuthenticationsTyped' <=> AuthenticationsTyped) /\ (NoAuthentication' <=> NoAuthentication)
  BY <1>1, <1>2 DEF AuthenticationsTyped, NoAuthentication
<1>4. ParsedWhen' <=> ParsedWhen
  BY <1>1, <1>2, <1>3 DEF ParsedWhen
<1>5. Fatal' <=> Fatal
  BY <1>3 DEF Fatal
<1>6. Accepted' <=> Accepted
  BY <1>1, <1>4 DEF Accepted
<1>7. ASSUME NEW kept PROVE Kept(kept)' <=> Kept(kept)
  BY <1>1, <1>4 DEF Kept
<1> QED BY <1>5, <1>6, <1>7

\* Every step of a call keeps the invariant.
LEMMA ReplyStep == ReplyInv /\ [Next]_vars => ReplyInv'
<1> SUFFICES ASSUME ReplyInv, [Next]_vars PROVE ReplyInv'
  OBVIOUS
<1> USE DEF Return
<1>1. CASE Request
  BY <1>1 DEF Request, ReplyInv
<1>2. CASE Decode
  <2>1. UNCHANGED <<call, body, reply>>
    BY <1>2 DEF Decode
  <2>2. CASE body \in {"empty", "list"}
    BY <1>2, <2>1, <2>2 DEF Decode, ReplyInv
  <2>3. CASE body \in {"garbled", "null", "errors"}
    BY <1>2, <2>1, <2>3 DEF Decode, ReplyInv
  <2>4. CASE body = "document"
    BY <1>2, <2>1, <2>4 DEF Decode, ReplyInv
  <2>5. pc = "json" /\ got' = got
    BY <1>2 DEF Decode
  <2>6. body # "unreachable"
    BY <2>5 DEF ReplyInv
  <2> QED BY <2>2, <2>3, <2>4, <2>6 DEF ReplyInv, Bodies
<1>3. CASE Parse
  <2>1. /\ pc = "init" /\ UNCHANGED <<call, body, reply>> /\ body = "document" /\ call \in Calls
        /\ result = "none" /\ got = {}
    BY <1>3 DEF Parse, ReplyInv
  <2>2. /\ Parsed.status = "success" => Kept(Parsed.kept)
        /\ call = "introspect" /\ Parsed.status # "success" => ~Accepted
        /\ Parsed.status = "died" => Fatal
    BY <2>1, ParsedMeans
  <2>3. /\ Fatal' <=> Fatal
        /\ Accepted' <=> Accepted
        /\ \A kept : Kept(kept)' <=> Kept(kept)
    BY <2>1, ReplyStands
  <2>4. CASE Parsed.status = "died" /\ pc' = "done" /\ result' = "died" /\ got' = got
    BY <2>1, <2>2, <2>3, <2>4 DEF ReplyInv
  <2>5. CASE Parsed.status = "failure" /\ pc' = "done" /\ result' = "none" /\ got' = got
    BY <2>1, <2>2, <2>3, <2>5 DEF ReplyInv
  <2>6. CASE /\ Parsed.status = "success" /\ got' = Parsed.kept
             /\ pc' = "verify" /\ result' = result
    <3>1. Kept(got)'
      BY <2>1, <2>2, <2>6 DEF Kept, ParsedWhen, ListTyped, AuthenticationsTyped, Typed, Given, Whole
    <3> QED BY <2>1, <2>6, <3>1 DEF ReplyInv
  <2> QED BY <1>3, <2>4, <2>5, <2>6 DEF Parse
<1>4. CASE Verify
  <2>1. /\ pc = "verify" /\ UNCHANGED <<call, body, reply>> /\ body = "document" /\ call \in Calls
        /\ result = "none" /\ Kept(got)
    BY <1>4 DEF Verify, ReplyInv
  <2>2. /\ Accepted' <=> Accepted
        /\ \A kept : Kept(kept)' <=> Kept(kept)
    BY <2>1, ReplyStands
  <2>3. CASE call = "introspect" /\ ~Whole(got)
    <3>1. got' = {} /\ pc' = "done" /\ result' = "none"
      BY <1>4, <2>3 DEF Verify, Whole
    <3>2. ~Accepted
      BY <2>1, <2>3 DEF Accepted, Kept
    <3> QED BY <2>1, <2>2, <3>1, <3>2 DEF ReplyInv
  <2>4. CASE ~(call = "introspect" /\ ~Whole(got))
    <3>1. got' = got /\ pc' = "done" /\ result' = "resource"
      BY <1>4, <2>4 DEF Verify, Whole
    <3>2. Kept(got)'
      BY <2>1, <3>1 DEF Kept, ParsedWhen, ListTyped, AuthenticationsTyped, Typed, Given, Whole
    <3>3. call = "introspect" => Whole(got)'
      BY <2>4, <3>1 DEF Whole
    <3> QED BY <2>1, <3>1, <3>2, <3>3 DEF ReplyInv
  <2> QED BY <2>3, <2>4
<1>5. CASE UNCHANGED vars
  BY <1>5 DEF vars, ReplyInv, Kept, Fatal, Accepted, NoAuthentication, ParsedWhen, ListTyped,
              AuthenticationsTyped, Typed, Given, Whole
<1> QED BY <1>1, <1>2, <1>3, <1>4, <1>5 DEF Next

\* The invariant of the call, for every number of faults in the reply.
LEMMA ReplyInvariant == Spec => []ReplyInv
  BY ReplyInit, ReplyStep, PTL DEF Spec

----------------------------------------------------------------------------
\* A call is in one of its places, and a resource holds members of its document.
THEOREM ReplyTypeCorrect == Spec => []ReplyTypeOK
<1>1. ReplyInv => ReplyTypeOK
  BY DEF ReplyInv, ReplyTypeOK, Kept
<1> QED BY <1>1, ReplyInvariant, PTL

\* Of the malformed replies only three kill the process, whatever is wrong with
\* the rest of the document and however much: jobj_init(), jobj_key_exists() and
\* get_authentications() follow what is not there, every other getter refuses.
THEOREM OnlyThreeKill == Spec => []RefusedOtherwise
<1>1. ReplyInv => RefusedOtherwise
  BY DEF ReplyInv, RefusedOtherwise, Fatal, NoAuthentication
<1> QED BY <1>1, ReplyInvariant, PTL

\* Every resource a call yields has what build_id_list(), _lookup_idp(),
\* _is_session_valid(), account_map_init() and _add_acct_mapping() follow in it
\* without a look for NULL.
THEOREM ResourceIsWhole == Spec => []NothingMissing
<1>1. ReplyInv => NothingMissing
  <2> SUFFICES ASSUME ReplyInv, result = "resource", NEW m \in FollowedLater[call],
                      m[1] \in got \cup {Root[call]}
               PROVE  m[2] \in got
    BY DEF NothingMissing
  <2>1. call \in Calls /\ Kept(got) /\ (call = "introspect" => Whole(got))
    BY DEF ReplyInv
  <2>2. CASE call = "introspect"
    <3>1. m \in {<<"introspection", "identities_set">>, <<"introspection", "session_info">>,
                 <<"identities_set", "identities_set[0]">>, <<"authentication", "idp">>}
      BY <2>2 DEF FollowedLater
    <3>2. Root[call] = "introspection"
      BY <2>2 DEF Root
    <3>3. "authentication" \in got => "idp" \in got
      BY <2>1, <2>2 DEF Kept
    <3> QED BY <2>1, <2>2, <3>1, <3>2, <3>3 DEF Whole
  <2>3. CASE call = "client"
    BY <2>3 DEF FollowedLater
  <2>4. CASE call = "identities"
    <3>1. m \in {<<"identities_reply", "identities">>, <<"identity_provider", "idp_id">>,
                 <<"identity", "identity_username">>, <<"identity", "identity_id">>}
      BY <2>4 DEF FollowedLater
    <3>2. Root[call] = "identities_reply"
      BY <2>4 DEF Root
    <3> QED BY <2>1, <2>4, <3>1, <3>2 DEF Kept
  <2> QED BY <2>1, <2>2, <2>3, <2>4 DEF Calls
<1> QED BY <1>1, ReplyInvariant, PTL

\* The order in which the code gets the members and the places where it returns
\* early come to the table of introspect.h.
LEMMA AcceptedIsDocumented == Accepted <=> AsDocumented
<1>1. \A p : Typed(p) => Given(p)
  BY ExpectedGiven DEF Typed, Given
<1>2. \A p : Typed(p) => reply[p] # "absent"
  BY ExpectedGiven DEF Typed
<1>3. Typed("active") <=> reply["active"] \in {"false", "true"}
  <2>1. Expected("active") = {"false", "true"}
    BY ObjectTable, ElementTable DEF Expected, Objects, Lists
  <2> QED BY <2>1 DEF Typed
<1>4. \A p \in {"aud", "identities_set", "amr"} :
        ListTyped(p) <=> Typed(p) /\ (reply[Element[p]] = "absent" \/ Typed(Element[p]))
  BY DEF ListTyped
<1>5. Sound("introspection") <=>
        /\ \A p \in Plain : Typed(p)
        /\ Typed("aud")
        /\ Given("identities_set") => Typed("identities_set")
        /\ Given("session_info") => Typed("session_info")
  BY DEF Sound, RequiredFields, OptionalFields, Plain
<1>6. Sound("session_info") <=>
        Typed("session_id") /\ (Given("authentications") => Typed("authentications"))
  BY DEF Sound, RequiredFields, OptionalFields
<1>7. Sound("authentication") <=> Typed("idp") /\ Typed("auth_time") /\ (Given("amr") => Typed("amr"))
  BY DEF Sound, RequiredFields, OptionalFields
<1>8. /\ ListTyped("aud") <=> Typed("aud") /\ (reply["aud[0]"] = "absent" \/ Typed("aud[0]"))
      /\ ListTyped("identities_set") <=>
           Typed("identities_set") /\ (reply["identities_set[0]"] = "absent" \/ Typed("identities_set[0]"))
      /\ ListTyped("amr") <=> Typed("amr") /\ (reply["amr[0]"] = "absent" \/ Typed("amr[0]"))
  BY <1>4, ElementTable
<1>9. (/\ Given("authentications") => AuthenticationsTyped)
        <=> /\ Given("authentications") => Typed("authentications")
            /\ Typed("authentications") /\ reply["authentication"] # "absent" =>
                 /\ Typed("authentication") /\ Sound("authentication")
                 /\ Typed("amr") => Typed("amr[0]") \/ reply["amr[0]"] = "absent"
  <2> HIDE DEF Typed, Given
  <2> QED BY <1>1, <1>7, <1>8 DEF AuthenticationsTyped
<1>10. "active" \in Plain
  BY DEF Plain
<1>11. ParsedWhen <=>
         /\ Sound("introspection")
         /\ reply["aud[0]"] = "absent" \/ Typed("aud[0]")
         /\ Given("identities_set") =>
              reply["identities_set[0]"] = "absent" \/ Typed("identities_set[0]")
         /\ Given("session_info") =>
              /\ Sound("session_info")
              /\ Given("authentications") => AuthenticationsTyped
  BY <1>1, <1>5, <1>6, <1>8 DEF ParsedWhen, AuthenticationsTyped
<1>12. ASSUME Accepted PROVE AsDocumented
  <2>1. reply["active"] = "true"
    BY <1>3, <1>10, <1>12 DEF Accepted, ParsedWhen
  <2>2. /\ Sound("introspection") /\ Sound("session_info")
        /\ reply["aud[0]"] = "absent" \/ Typed("aud[0]")
        /\ Given("authentications") => AuthenticationsTyped
    BY <1>11, <1>12 DEF Accepted
  <2>3. Typed("identities_set") /\ Typed("session_info") /\ Typed("identities_set[0]")
    BY <1>5, <1>11, <1>12 DEF Accepted
  <2> QED BY <1>9, <2>1, <2>2, <2>3 DEF AsDocumented
<1>13. ASSUME AsDocumented PROVE Accepted
  <2>1. Given("authentications") => AuthenticationsTyped
    BY <1>6, <1>9, <1>13 DEF AsDocumented
  <2>2. /\ Typed("identities_set[0]") /\ Given("identities_set") /\ Given("session_info")
        /\ reply["identities_set[0]"] # "absent" /\ reply["active"] # "false"
    BY <1>1, <1>2, <1>13 DEF AsDocumented
  <2>3. ParsedWhen
    BY <1>11, <1>13, <2>1, <2>2 DEF AsDocumented
  <2> QED BY <2>2, <2>3 DEF Accepted
<1> QED BY <1>12, <1>13

\* A reply to an introspection is made into a resource exactly if it is as
\* introspect.h says, for every reply.
THEOREM AcceptsWhatIsDocumented == Spec => []AcceptedAsDocumented
<1>1. ReplyInv => AcceptedAsDocumented
  <2> SUFFICES ASSUME ReplyInv, call = "introspect", body = "document", pc = "done"
               PROVE  result = "resource" <=> Accepted
    BY AcceptedIsDocumented DEF AcceptedAsDocumented
  <2>1. result # "resource" => ~Accepted
    BY DEF ReplyInv
  <2>2. ASSUME result = "resource" PROVE Accepted
    <3>1. Kept(got) /\ Whole(got)
      BY <2>2 DEF ReplyInv
    <3> QED BY <3>1 DEF Kept, Accepted
  <2> QED BY <2>1, <2>2
<1> QED BY <1>1, ReplyInvariant, PTL
=============================================================================
