-------------------------------- MODULE Json --------------------------------
(***************************************************************************)
(* The JSON tokenizer and its navigation (core/hlm_json.c).  A text is a   *)
(* sequence of lexical items: brackets, separators, and strings and        *)
(* primitives with what they say.  The tokenizer keeps one token per       *)
(* container, string and primitive, in order, in an array of MaxTokens.    *)
(* A token names its parent; a key is the parent of its value.             *)
(***************************************************************************)
EXTENDS Integers, Sequences, FiniteSetsExt

NoTok == 0
Open == {"{", "["}
Close == {"}", "]"}
ItemKinds == Open \cup Close \cup {":", ",", "string", "primitive", "unended", "illformed"}
Item(kind, text) == [kind |-> kind, text |-> text]

TooMany == -1
Malformed == -2
Truncated == -3

Token(type, text, parent) == [type |-> type, text |-> text, closed |-> type \notin Open, size |-> 0, parent |-> parent]

Start == [toks |-> <<>>, parent |-> NoTok, depth |-> 0, err |-> 0]

TypeOfParent(p) == IF p.parent = NoTok THEN "none" ELSE p.toks[p.parent].type

PopKey(p) == IF TypeOfParent(p) = "string" THEN [p EXCEPT !.parent = p.toks[p.parent].parent] ELSE p

\* A value under a key is the key's only one: the parent is the object again.
Counted(p, toks) == [toks EXCEPT ![p.parent].size = @ + 1]

OpenContainer(p, item) ==
    LET toks == Append(p.toks, Token(item.kind, "", p.parent))
    IN [p EXCEPT !.toks = IF TypeOfParent(p) \in Open THEN Counted(p, toks) ELSE toks,
                 !.parent = Len(toks), !.depth = @ + 1]

\* Mutant: a bracket closes whatever is open.
CloseAny(p, item) ==
    LET q == PopKey(p)
    IN IF q.parent = NoTok THEN [p EXCEPT !.err = Malformed]
       ELSE [q EXCEPT !.toks[q.parent].closed = TRUE, !.parent = q.toks[q.parent].parent, !.depth = @ - 1]

CloseContainer(p, item) ==
    LET q    == PopKey(p)
        want == IF item.kind = "}" THEN "{" ELSE "["
    IN IF q.parent = NoTok \/ TypeOfParent(q) # want \/ q.toks[q.parent].closed
       THEN [p EXCEPT !.err = Malformed]
       ELSE [q EXCEPT !.toks[q.parent].closed = TRUE, !.parent = q.toks[q.parent].parent, !.depth = @ - 1]

\* In an object a string is a key, whatever came before it.
StringToken(p, item) ==
    LET toks == Append(p.toks, Token("string", item.text, p.parent))
    IN CASE TypeOfParent(p) = "{"      -> [p EXCEPT !.toks = Counted(p, toks), !.parent = Len(toks)]
         [] TypeOfParent(p) = "["      -> [p EXCEPT !.toks = Counted(p, toks)]
         [] TypeOfParent(p) = "string" -> PopKey([p EXCEPT !.toks = Counted(p, toks)])
         [] OTHER                      -> [p EXCEPT !.toks = toks]

PrimitiveToken(p, item) ==
    LET toks == Append(p.toks, Token("primitive", item.text, p.parent))
    IN CASE TypeOfParent(p) = "{"      -> [p EXCEPT !.err = Malformed]
         [] TypeOfParent(p) = "["      -> [p EXCEPT !.toks = Counted(p, toks)]
         [] TypeOfParent(p) = "string" -> PopKey([p EXCEPT !.toks = Counted(p, toks)])
         [] OTHER                      -> [p EXCEPT !.toks = toks]

\* One turn of the loop; an unterminated or ill-formed string still takes its token first.
Step(p, item, max) ==
    LET full == Len(p.toks) >= max
    IN CASE p.err # 0 -> p
         [] p.err = 0 /\ full /\ item.kind \notin Close \cup {":", ","} -> [p EXCEPT !.err = TooMany]
         [] p.err = 0 /\ ~ full /\ item.kind = "unended"                -> [p EXCEPT !.err = Truncated]
         [] p.err = 0 /\ ~ full /\ item.kind = "illformed"              -> [p EXCEPT !.err = Malformed]
         [] p.err = 0 /\ ~ full /\ item.kind \in Open                   -> OpenContainer(p, item)
         [] p.err = 0 /\ ~ full /\ item.kind = "string"                 -> StringToken(p, item)
         [] p.err = 0 /\ ~ full /\ item.kind = "primitive"              -> PrimitiveToken(p, item)
         [] p.err = 0 /\ item.kind \in Close                            -> CloseContainer(p, item)
         [] p.err = 0 /\ item.kind = ","                                -> PopKey(p)
         [] p.err = 0 /\ item.kind = ":"                                -> p

\* The parser's state is a field, so that TLC finishes each turn before it begins the next.
JsonParse(text, max) ==
    LET run[i \in 0..Len(text)] ==
            IF i = 0 THEN [parser |-> Start] ELSE [run[i - 1] EXCEPT !.parser = Step(@, text[i], max)]
        end == run[Len(text)].parser
    IN [err  |-> CASE end.err # 0                    -> end.err
                   [] end.err = 0 /\ end.depth # 0   -> Truncated
                   [] end.err = 0 /\ end.depth = 0 /\ end.toks = <<>> -> Malformed
                   [] OTHER -> 0,
        toks |-> end.toks]

Children(toks, tok) == {j \in (tok + 1)..Len(toks) : toks[j].parent = tok}
FirstOf(S) == IF S = {} THEN NoTok ELSE Min(S)

\* Mutant: a key of a nested object is as good.
JsonMemberAnywhere(toks, obj, key) ==
    LET named == FirstOf({k \in (obj + 1)..Len(toks) : toks[k].text = key /\ Children(toks, k) # {}})
    IN IF obj \notin DOMAIN toks \/ named = NoTok THEN NoTok ELSE FirstOf(Children(toks, named))

\* The value of the first key of that name: the first token parented to the key.
JsonMember(toks, obj, key) ==
    LET named == FirstOf({k \in Children(toks, obj) : toks[k].type = "string" /\ toks[k].text = key})
    IN IF obj \notin DOMAIN toks \/ toks[obj].type # "{" \/ named = NoTok THEN NoTok
       ELSE FirstOf(Children(toks, named))

JsonElement(toks, arr, idx) ==
    LET nth == {j \in Children(toks, arr) : Cardinality({i \in Children(toks, arr) : i < j}) = idx}
    IN IF arr \notin DOMAIN toks \/ toks[arr].type # "[" THEN NoTok ELSE FirstOf(nth)
=============================================================================
