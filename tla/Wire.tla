--------------------------------- MODULE Wire ---------------------------------
(***************************************************************************)
(* What goes over the wire (core/hlm_client.c): the bodies and the paths   *)
(* of the requests, and what is made of a refusal.  A text is a sequence   *)
(* of characters; the characters that quoting and encoding are about keep  *)
(* their names, a word that stands in every request is one character.      *)
(* The idempotency keys are left out.                                      *)
(***************************************************************************)
EXTENDS Json, SequencesExt

CONSTANTS Control, Unreserved,       \* of the characters
          CodeOf,                    \* the two hexadecimal digits of a character
          MachineRoom, NameRoom, CodeRoom, HostRoom,
          PathRoom, UrlRoom,         \* 512 both
          BodyRoom,                  \* 256, of the body that asks for a license
          DetailTooLong,             \* texts that overflow last_error
          ErrorToks                  \* 32

NoFit == <<"(size_t)-1">>
NoText == <<>>

\* Mutant: a backslash goes out as it came.
JsonCharQuotes(c) ==
    CASE c = "quote"    -> <<"backslash", c>>
      [] c \in Control  -> <<"backslash", "u", "0", "0">> \o CodeOf[c]
      [] OTHER          -> <<c>>

JsonChar(c) ==
    CASE c \in {"quote", "backslash"} -> <<"backslash", c>>
      [] c \in Control                -> <<"backslash", "u", "0", "0">> \o CodeOf[c]
      [] OTHER                        -> <<c>>

EscapeText(text) == FlattenSeq([i \in DOMAIN text |-> JsonChar(text[i])])
JsonEscape(text, cap) == IF Len(EscapeText(text)) >= cap THEN NoFit ELSE EscapeText(text)

UrlChar(c) == IF c \in Unreserved THEN <<c>> ELSE <<"%">> \o CodeOf[c]
Percent(text) == FlattenSeq([i \in DOMAIN text |-> UrlChar(text[i])])

\* Stops before the first character there is no room for.
UrlEncode(text, cap) ==
    LET fits == {n \in 0..Len(text) : Len(Percent(SubSeq(text, 1, n))) < cap}
    IN Percent(SubSeq(text, 1, Max(fits)))

Quoted(text) == <<"quote">> \o text \o <<"quote">>
Field(name, value) == Quoted(<<name>>) \o <<":">> \o value
Record(fields) ==
    <<"{">> \o FlattenSeq([i \in DOMAIN fields |-> IF i = 1 THEN fields[i] ELSE <<",">> \o fields[i]]) \o <<"}">>

\* me.legacy is NoText on a machine that has no older identity.
ComputerBody(me) ==
    LET mac    == JsonEscape(me.machine, 2 * MachineRoom)
        name   == JsonEscape(me.name, 2 * NameRoom)
        legacy == JsonEscape(me.legacy, 2 * MachineRoom)
        two    == <<Field("MacAddress", Quoted(mac)), Field("Name", Quoted(name))>>
    IN CASE NoFit \in {mac, name, legacy}                       -> NoFit
         [] NoFit \notin {mac, name, legacy} /\ me.legacy = NoText -> Record(two)
         [] OTHER -> Record(two \o <<Field("LegacyMacAddress", Quoted(legacy))>>)

\* The identities go into the query as they are, the name encoded.
ComputerPath(me) ==
    <<"computer", "?", "macAddress", "=">> \o me.machine \o
    (IF me.legacy = NoText THEN <<>>
     ELSE <<"&", "legacyMacAddress", "=">> \o me.legacy
          \o <<"&", "name", "=">> \o UrlEncode(me.name, 3 * NameRoom))

\* What snprintf leaves of a text.
Cut(text, room) == SubSeq(text, 1, Min({Len(text), room - 1}))

LicenseBody(product, computer) ==
    Cut(Record(<<Field("Product", Quoted(product)), Field("Computer", Quoted(computer))>>), BodyRoom)

FormatParam(alg) == CASE alg = "ES256" -> "es256" [] alg = "EdDSA" -> "eddsa" [] OTHER -> "jws"

LicensePath(product, computer, days, alg) ==
    <<"license", "?", "computer", "=">> \o computer \o <<"&", "product", "=">> \o product
        \o <<"&", "validDays", "=", days, "&", "format", "=", FormatParam(alg)>>

\* code is <<>> for a deactivation and <<text>> for an activation.
PatchBody(license, code) ==
    LET text == JsonEscape(code[1], 2 * CodeRoom)
    IN CASE code = <<>>                   -> Record(<<Field("License", Quoted(license)), Field("Code", <<"null">>)>>)
         [] code # <<>> /\ text = NoFit   -> NoFit
         [] code # <<>> /\ text # NoFit   -> Record(<<Field("License", Quoted(license)), Field("Code", Quoted(text))>>)

\* The path is cut at its buffer, which the length of the whole then shows.
Url(base, path) ==
    LET whole == base \o Cut(path, PathRoom)
    IN IF Len(whole) >= UrlRoom THEN NoFit ELSE whole

\* What ensure_computer sends: nothing, the POST alone, or POST and GET.
ComputerRequests(base, me) ==
    LET body == ComputerBody(me)
        url  == Url(base, ComputerPath(me))
    IN IF body = NoFit THEN <<>> ELSE IF url = NoFit THEN <<body>> ELSE <<body, url>>

\* The host for the user's message: between the scheme and the port, path or query.
BaseUrlHost(url) ==
    LET schemes == {i \in 1..(Len(url) - 2) : SubSeq(url, i, i + 2) = <<":", "/", "/">>}
        from    == IF schemes = {} THEN 1 ELSE Min(schemes) + 3
        ends    == {i \in from..Len(url) : url[i] \in {"/", ":", "?"}} \cup {Len(url) + 1, from + HostRoom - 1}
    IN SubSeq(url, from, Min(ends) - 1)

(***************************************************************************)
(* A refusal: its detail is the first readable one of four members, and    *)
(* its kind what markers its text contains.                                *)
(***************************************************************************)
ErrorFields == <<"detail", "message", "title", "error">>

DetailIn(toks) ==
    LET at == [i \in DOMAIN ErrorFields |-> JsonMember(toks, 1, ErrorFields[i])]
        readable == {i \in DOMAIN at : at[i] # NoTok /\ toks[at[i]].type = "string" /\ toks[at[i]].text \notin DetailTooLong}
    IN IF readable = {} THEN "" ELSE toks[at[Min(readable)]].text

CaptureErrorDetail(text) ==
    LET parsed == JsonParse(text, ErrorToks) IN IF parsed.err = 0 THEN DetailIn(parsed.toks) ELSE ""

MapApiError(status, markers) ==
    CASE status \in {401, 403} -> "E_AUTH"
      [] status \notin {401, 403} /\ "trial_quota" \in markers -> "E_TRIAL_QUOTA"
      [] status \notin {401, 403} /\ "trial_quota" \notin markers
         /\ "embedded-format-requires-receipt" \in markers -> "E_PAID_FORMAT_REQUIRED"
      [] OTHER -> IF markers \cap {"sandbox_limit", "ALU limit"} # {} THEN "E_PLAN_LIMIT" ELSE "E_API"
=============================================================================
