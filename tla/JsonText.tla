------------------------------ MODULE JsonText ------------------------------
(***************************************************************************)
(* What a token says: hlm_json_string, hlm_json_int64 (core/hlm_json.c).   *)
(* The text of a string is a sequence of units: a byte as it stands        *)
(* ("plain"), an escape by name with the byte it stands for ("escape"), or *)
(* a \u escape with the 16 bits its hex digits give ("u").                 *)
(***************************************************************************)
EXTENDS Integers, Sequences

CONSTANTS IntMax      \* INT64_MAX, smaller here

ASSUME JsonTextAssumption == IntMax \in Nat

Bad == [ok |-> FALSE, out |-> <<>>]

Utf8(cp) ==
    LET Low6(unit) == 128 + ((cp \div unit) % 64)
    IN CASE cp < 128                    -> <<cp>>
         [] 128 <= cp /\ cp < 2048      -> <<192 + cp \div 64, Low6(1)>>
         [] 2048 <= cp /\ cp < 65536    -> <<224 + cp \div 4096, Low6(64), Low6(1)>>
         [] OTHER                       -> <<240 + cp \div 262144, Low6(4096), Low6(64), Low6(1)>>

High(u) == u.kind = "u" /\ 55296 <= u.value /\ u.value < 56320
Low(u) == u.kind = "u" /\ 56320 <= u.value /\ u.value < 57344
Pair(hi, lo) == 65536 + (hi.value - 55296) * 1024 + (lo.value - 56320)

\* Room for the bytes, and at the end for the terminating zero.
Put(st, bytes, cap) ==
    IF Len(st.out) + Len(bytes) > cap THEN [st EXCEPT !.ok = FALSE] ELSE [st EXCEPT !.out = @ \o bytes]

\* st.high is the first half of a surrogate pair that still needs its second.
Unescape(st, u, cap) ==
    CASE ~ st.ok                                    -> st
      [] st.ok /\ st.high # <<>> /\ ~ Low(u)        -> [st EXCEPT !.ok = FALSE]
      [] st.ok /\ st.high # <<>> /\ Low(u)          -> Put([st EXCEPT !.high = <<>>], Utf8(Pair(st.high[1], u)), cap)
      [] st.ok /\ st.high = <<>> /\ High(u)         -> [st EXCEPT !.high = <<u>>]
      [] st.ok /\ st.high = <<>> /\ Low(u)          -> [st EXCEPT !.ok = FALSE]
      [] st.ok /\ st.high = <<>> /\ u.kind = "u" /\ ~ High(u) /\ ~ Low(u) -> Put(st, Utf8(u.value), cap)
      [] st.ok /\ st.high = <<>> /\ u.kind # "u"    -> Put(st, <<u.value>>, cap)

JsonString(units, cap) ==
    LET run[i \in 0..Len(units)] ==
            IF i = 0 THEN [ok |-> TRUE, out |-> <<>>, high |-> <<>>] ELSE Unescape(run[i - 1], units[i], cap)
        end == run[Len(units)]
    IN IF end.ok /\ end.high = <<>> /\ Len(end.out) + 1 <= cap THEN [ok |-> TRUE, out |-> end.out] ELSE Bad

\* Mutant: the digit to come is left out of the check.
AddDigitLate(v, d) == IF v = -1 \/ v > IntMax \div 10 THEN -1 ELSE v * 10 + d

\* The check before each digit keeps the product from overflowing.
AddDigit(v, d) == IF v = -1 \/ v > (IntMax - d) \div 10 THEN -1 ELSE v * 10 + d

JsonInt(negative, digits) ==
    LET run[i \in 0..Len(digits)] == IF i = 0 THEN 0 ELSE AddDigit(run[i - 1], digits[i])
        v == run[Len(digits)]
    IN IF digits = <<>> \/ v = -1 THEN Bad ELSE [ok |-> TRUE, out |-> IF negative THEN -v ELSE v]
=============================================================================
