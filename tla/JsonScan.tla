------------------------------ MODULE JsonScan ------------------------------
(***************************************************************************)
(* From characters to the lexical items of Json: where a string and where  *)
(* a primitive ends (parse_string_tok, parse_primitive_tok and the blanks  *)
(* of hlm_json_parse in core/hlm_json.c).  A character is named; "hex" is  *)
(* any digit or letter of a hex number that is no other escape's name, and *)
(* "ctrl" and "high" stand for bytes below 0x20 and from 0x7f.             *)
(***************************************************************************)
EXTENDS Json

Blanks == {"space", "newline"}
Brackets == Open \cup Close
EndsPrimitive == {",", ":"} \cup Close \cup Blanks
Escapable == {"quote", "backslash", "n", "b"}     \* the others are like n; b is also a hex digit
HexDigits == {"hex", "b"}
ControlCharacters == {"ctrl", "newline"}

Ends(p, kind) == [end |-> p, kind |-> kind]

\* The first of the four characters after \u that is none of a hex number; 5 when all are.
FirstNoHex(s, p) == Min({k \in 1..4 : p + k > Len(s) \/ s[p + k] \notin HexDigits} \cup {5})

\* The closing quote of the string whose text begins at `from`, or where it goes wrong.
StringEnd(s, from) ==
    LET scan[p \in from..(Len(s) + 1)] ==
            CASE p > Len(s)                                -> Ends(Len(s), "unended")
              [] p <= Len(s) /\ s[p] = "quote"             -> Ends(p, "string")
              [] p <= Len(s) /\ s[p] \in ControlCharacters -> Ends(p, "illformed")
              [] p <= Len(s) /\ s[p] = "backslash"         ->
                   CASE p = Len(s)                         -> Ends(p, "unended")
                     [] p < Len(s) /\ s[p + 1] \in Escapable -> scan[p + 2]
                     [] p < Len(s) /\ s[p + 1] = "u"       ->
                          LET k == FirstNoHex(s, p + 1)
                          IN IF k = 5 THEN scan[p + 6]
                             ELSE Ends(Len(s), IF p + 1 + k > Len(s) THEN "unended" ELSE "illformed")
                     [] OTHER                              -> Ends(p, "illformed")
              [] OTHER                                     -> scan[p + 1]
    IN scan[from]

\* Whatever begins with another character is a primitive up to a separator: a quote does not end it.
PrimitiveEnd(s, from) ==
    LET stop == Min({i \in from..Len(s) : s[i] \in EndsPrimitive} \cup {Len(s) + 1})
    IN IF \E i \in from..(stop - 1) : s[i] \in {"ctrl", "high"} THEN Ends(stop - 1, "illformed")
       ELSE Ends(stop - 1, "primitive")

\* An item and where its text lies, as a token's start and end do; an error takes the rest.
ItemAt(s, p) ==
    LET e     == IF s[p] = "quote" THEN StringEnd(s, p + 1) ELSE PrimitiveEnd(s, p)
        fails == e.kind \in {"unended", "illformed"}
    IN CASE s[p] \in Brackets \cup {",", ":"} -> Item(s[p], <<p, p>>)
         [] s[p] \notin Brackets \cup {",", ":"} /\ fails   -> Item(e.kind, <<p, Len(s)>>)
         [] s[p] \notin Brackets \cup {",", ":"} /\ ~ fails ->
              Item(e.kind, IF e.kind = "string" THEN <<p + 1, e.end - 1>> ELSE <<p, e.end>>)

After(item) == IF item.kind = "string" THEN item.text[2] + 2 ELSE item.text[2] + 1

JsonItems(s) ==
    LET from[p \in 1..(Len(s) + 1)] ==
            CASE p > Len(s)                          -> <<>>
              [] p <= Len(s) /\ s[p] \in Blanks      -> from[p + 1]
              [] p <= Len(s) /\ s[p] \notin Blanks   ->
                   LET item == ItemAt(s, p) IN <<item>> \o from[After(item)]
    IN from[1]
=============================================================================
