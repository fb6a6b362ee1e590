---------------------------- MODULE MCConfigFile ----------------------------
(***************************************************************************)
(* Small files for ConfigFile: the four lines of a Globus Auth site, any of *)
(* them missing after one more line, or all with two more lines after them; *)
(* and every short string of the bytes the reader treats specially.         *)
(***************************************************************************)
EXTENDS ConfigFile, TLC

CONSTANT MaxLength    \* bound: the strings of special bytes

Words == Single \cup Merged \cup {"globus_auth", "scitokens", "true", "false",
                                  "TRUE", "FALSE", "word", "little", "much", "more"}
MCByte == Words \cup {Newline, Space, Comma, Tab, Hash, Nul}

\* little fits an int and its seconds do, much fits an int and its seconds do
\* not, more does not fit an int.
MCNumber ==
  (<<"little">> :> 2) @@ (<<"much">> :> IntHalf - 1) @@ (<<"more">> :> 2 * IntHalf + 1)

Given1(name, value) == <<name, Space, value>>

BaseLines ==
  << Given1("auth_method", "globus_auth"), Given1("client_id", "word"),
     Given1("client_secret", "word"), <<"map_file", Space, "word", Comma, "word">> >>

ExtraLines ==
  {Given1("auth_method", v) : v \in {"scitokens", "word"}}
  \cup {Given1("mfa", v) : v \in {"true", "false", "TRUE", "FALSE", "word"}}
  \cup {Given1("authentication_timeout", v) : v \in {"little", "much", "more", "word"}}
  \cup { Given1("idp_suffix", "word"), Given1("client_id", "true"),
         Given1("permitted_idps", "word"), Given1("issuers", "word"),
         <<"mfa">>, <<"mfa", Space, "true", Comma, "false">>, <<"auth_method">>,
         <<"mfa", Hash, "true">>, <<"mfa", Tab, "true">>, <<"mfa", Space, "true", Nul, "word">>,
         <<Space, "mfa", Comma, Space, "true", Space, Hash, "word">>,
         <<"word", Space, "word">>, <<Comma>>, <<Space, Tab>>, <<Hash, "mfa">> }

\* The lines of ls whose index is in keep, and end with a newline or not.
Text(ls, keep, ended) ==
  LET kept == SelectSeq([k \in DOMAIN ls |-> <<k, ls[k]>>], LAMBDA l : l[1] \in keep)
      text == FlattenSeq([k \in DOMAIN kept |-> kept[k][2] \o <<Newline>>])
  IN  IF ended \/ text = <<>> THEN text ELSE Front(text)

SiteFiles ==
  LET all == 1 .. Len(BaseLines) IN
  {Text(<<before>> \o BaseLines, {1} \cup {k + 1 : k \in keep}, TRUE) :
     before \in ExtraLines, keep \in SUBSET all}
  \cup {Text(BaseLines \o <<x, y>>, 1 .. Len(BaseLines) + 2, ended) :
          x \in ExtraLines, y \in ExtraLines, ended \in BOOLEAN}

ShortFiles ==
  UNION {[1 .. n -> {"word", Hash, Space, Comma, Newline, Nul}] : n \in 0 .. MaxLength}

MCFiles == SiteFiles \cup ShortFiles
=============================================================================
