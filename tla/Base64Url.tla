------------------------------ MODULE Base64Url ------------------------------
(***************************************************************************)
(* base64url (core/hlm_b64url.c).  A symbol carries SymbolBits bits and a  *)
(* byte OctetBits, 6 and 8 in the code and 3 and 4 here: four symbols make *)
(* three bytes in both.  A symbol is its value, or one of the two others.  *)
(***************************************************************************)
EXTENDS Bits, Sequences

CONSTANTS SymbolBits, OctetBits, AccBits   \* AccBits: width of the accumulator, 32

ASSUME Base64Assumption == /\ {SymbolBits, OctetBits, AccBits} \subseteq Nat \ {0}
                           /\ 3 * OctetBits = 4 * SymbolBits /\ AccBits >= SymbolBits + OctetBits

Equals == -2     \* '=', which dec_val calls padding
Foreign == -1    \* any character outside the alphabet
Values == 0..(TwoTo(SymbolBits) - 1)

Undecodable == [ok |-> FALSE, bytes |-> <<>>]
Decoded(bytes) == [ok |-> TRUE, bytes |-> bytes]

\* All the padding at the end goes, however much there is.
Unpadded(in) ==
    LET keep == {n \in 0..Len(in) : \A i \in (n + 1)..Len(in) : in[i] = Equals}
    IN SubSeq(in, 1, CHOOSE n \in keep : \A m \in keep : n <= m)

\* One symbol: six more bits, and a byte out as soon as there are eight.
Take(st, v, cap) ==
    LET acc  == (st.acc * TwoTo(SymbolBits) + v) % TwoTo(AccBits)
        bits == st.bits + SymbolBits
        out  == (acc \div TwoTo(bits - OctetBits)) % TwoTo(OctetBits)
    IN CASE ~ st.ok \/ v \notin Values -> [st EXCEPT !.ok = FALSE]
         [] st.ok /\ v \in Values /\ bits < OctetBits -> [st EXCEPT !.acc = acc, !.bits = bits]
         [] OTHER -> [ok |-> Len(st.out) < cap, acc |-> acc, bits |-> bits - OctetBits,
                      out |-> Append(st.out, out)]

\* Mutant: bits that make no byte are thrown away.
LeftoverIgnored(end) == TRUE

\* The bits that make no byte have to be zero.
LeftoverIsZero(end) == end.acc % TwoTo(end.bits) = 0

B64Decode(in, cap) ==
    LET s == Unpadded(in)
        run[i \in 0..Len(s)] == IF i = 0 THEN [ok |-> TRUE, acc |-> 0, bits |-> 0, out |-> <<>>]
                                ELSE Take(run[i - 1], s[i], cap)
        end == run[Len(s)]
    IN IF Len(s) % 4 # 1 /\ end.ok /\ LeftoverIsZero(end) THEN Decoded(end.out) ELSE Undecodable

EncodedSize(len) == (len \div 3) * 4 + (CASE len % 3 = 0 -> 0 [] len % 3 = 1 -> 2 [] len % 3 = 2 -> 3)

\* Three bytes at a time, high bits first; a last group of one or two is short.
B64Encode(bytes) ==
    LET Octet(i) == IF i <= Len(bytes) THEN bytes[i] ELSE 0
        Group(g) == Octet(3 * g + 1) * TwoTo(2 * OctetBits) + Octet(3 * g + 2) * TwoTo(OctetBits) + Octet(3 * g + 3)
    IN [o \in 1..EncodedSize(Len(bytes)) |->
            (Group((o - 1) \div 4) \div TwoTo(SymbolBits * (3 - ((o - 1) % 4)))) % TwoTo(SymbolBits)]
=============================================================================
