------------------------------- MODULE KeySet -------------------------------
(***************************************************************************)
(* The vendor's public keys (parse_jwks in core/hlm_ffi.c, hlm_jwk_parse   *)
(* in core/hlm_jws.c): one JWK or an array of them, whose members are      *)
(* decoded one behind the other into the handle's key buffer.  A JWK is    *)
(* its kty, the decoded lengths of its members (Missing for one that is    *)
(* absent or does not decode) and the number of its JSON tokens.           *)
(***************************************************************************)
EXTENDS Integers, Sequences

CONSTANTS KeyBuf,      \* bytes of the key buffer, 2048 in the code
          MaxKeys,     \* 4
          SetToks,     \* 128
          KeyToks,     \* 32
          CoordLen     \* 32

ASSUME KeySetAssumption == {KeyBuf, SetToks, KeyToks, CoordLen} \subseteq Nat /\ MaxKeys \in Nat \ {0}

Missing == -1
Lengths == Nat \cup {Missing}

\* A JWK with the members of its type; those of an unknown or absent type are not read.
Jwks == [kty : {"RSA"}, toks : Nat, len : [{"n", "e"} -> Lengths]]
        \cup [kty : {"EC"}, toks : Nat, len : [{"x", "y"} -> Lengths]]
        \cup [kty : {"OKP"}, toks : Nat, len : [{"x"} -> Lengths]]
        \cup [kty : STRING \ {"RSA", "EC", "OKP"}, toks : Nat, len : [{"x"} -> Lengths]]
Span(at, len) == [at |-> at, len |-> len]
Refusal(err) == [err |-> err, keys |-> <<>>]

\* Which members a key type has, in the order they are decoded, and the one length they may have.
Members(kty) == CASE kty = "RSA" -> <<"n", "e">> [] kty = "EC" -> <<"x", "y">> [] OTHER -> <<"x">>
AlgOf(kty) == CASE kty = "RSA" -> "RS256" [] kty = "EC" -> "ES256" [] OTHER -> "EdDSA"

\* jwk_decode_member for each in turn; the cursor moves by what was decoded.
DecodeMembers(jwk, cursor) ==
    LET names == Members(jwk.kty)
        at[i \in 1..(Len(names) + 1)] == IF i = 1 THEN cursor ELSE at[i - 1] + jwk.len[names[i - 1]]
    IN IF \E i \in DOMAIN names : jwk.len[names[i]] = Missing \/ at[i] + jwk.len[names[i]] > KeyBuf
       THEN <<>>
       ELSE [i \in DOMAIN names |-> Span(at[i], jwk.len[names[i]])]

ParseJwk(jwk, cursor) ==
    LET spans == DecodeMembers(jwk, cursor)
    IN CASE jwk.toks > KeyToks \/ jwk.kty = "absent" -> Refusal("E_FORMAT")
         [] jwk.toks <= KeyToks /\ jwk.kty \notin {"RSA", "EC", "OKP", "absent"} -> Refusal("E_UNSUPPORTED_ALG")
         [] OTHER -> IF spans = <<>> \/ (jwk.kty # "RSA" /\ \E i \in DOMAIN spans : spans[i].len # CoordLen)
                     THEN Refusal("E_FORMAT")
                     ELSE [err |-> "OK", keys |-> <<[alg |-> AlgOf(jwk.kty), spans |-> spans]>>]

\* Mutant: the exponent of an RSA key is forgotten.
AdvanceByModulus(key) == IF key.alg = "ES256" THEN 2 * CoordLen ELSE key.spans[1].len

\* By how much the cursor moves on, told from the key's algorithm.
Advance(key) == CASE key.alg = "RS256" -> key.spans[1].len + key.spans[2].len
                  [] key.alg = "ES256" -> 2 * CoordLen
                  [] key.alg = "EdDSA" -> CoordLen

TokensOf(set) ==
    LET sum[i \in 0..Len(set)] == IF i = 0 THEN 1 ELSE sum[i - 1] + set[i].toks IN sum[Len(set)]

\* The next key of an array; after one that fails nothing is read.
NextKey(before, jwk) ==
    LET key == ParseJwk(jwk, before.cursor)
    IN CASE before.err # "OK" -> before
         [] before.err = "OK" /\ key.err # "OK" -> [before EXCEPT !.err = key.err]
         [] OTHER -> [err |-> "OK", keys |-> before.keys \o key.keys,
                      cursor |-> before.cursor + Advance(key.keys[1])]

\* The keys of an array, one behind the other; the first that fails fails the set, what follows the last is not read.
ParseKeys(set) ==
    LET n == IF Len(set) < MaxKeys THEN Len(set) ELSE MaxKeys
        run[i \in 0..n] == IF i = 0 THEN [err |-> "OK", keys |-> <<>>, cursor |-> 0] ELSE NextKey(run[i - 1], set[i])
    IN [err |-> run[n].err, keys |-> run[n].keys]

ParseJwks(doc) ==
    CASE doc.shape = "object" -> ParseJwk(doc.set[1], 0)
      [] doc.shape = "array" /\ (doc.set = <<>> \/ TokensOf(doc.set) > SetToks) -> Refusal("E_FORMAT")
      [] doc.shape = "array" /\ doc.set # <<>> /\ TokensOf(doc.set) <= SetToks ->
           LET parsed == ParseKeys(doc.set) IN IF parsed.err = "OK" THEN parsed ELSE Refusal(parsed.err)
      [] doc.shape \notin {"object", "array"} -> Refusal("E_FORMAT")
=============================================================================
