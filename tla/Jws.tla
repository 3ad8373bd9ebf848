--------------------------------- MODULE Jws ---------------------------------
(***************************************************************************)
(* Verifying a signed license (hlm_jws_verify in core/hlm_jws.c) and what  *)
(* the crypto ports answer it (crypto/hlm_crypto_portable.c, _cng.c).  A   *)
(* document is the record of what the decisions look at: how many parts    *)
(* the dots make, which of them is empty, what the header names, which key *)
(* made the signature and how long the payload is.                         *)
(***************************************************************************)
EXTENDS Integers, Sequences

CONSTANTS Algs        \* the algorithms alg_from_name knows

ASSUME JwsAssumption == Algs \cap {"undecodable", "noalg"} = {}

\* A key is "good", "unusable" (refused by its own check) or, with CNG alone, without a provider.
Health == {"good", "unusable", "noprovider"}
NoneSigned == "none"

\* What crypto.verify returns: 1, 0, or an error.
CryptoVerify(key, jws) ==
    CASE key.health = "noprovider" -> "E_UNSUPPORTED_ALG"
      [] key.health = "unusable"   -> "error"
      [] OTHER -> IF jws.signedBy = key.id THEN "yes" ELSE "no"

\* The loop over the keys: the first key that verifies ends it, and so does a missing provider.
Decides(keys, jws, i) ==
    keys[i].alg = jws.header /\ CryptoVerify(keys[i], jws) \in {"yes", "E_UNSUPPORTED_ALG"}

KeyVerdict(keys, jws) ==
    LET deciding == {i \in DOMAIN keys : Decides(keys, jws, i) /\ \A j \in 1..(i - 1) : ~ Decides(keys, jws, j)}
    IN CASE \A i \in DOMAIN keys : keys[i].alg # jws.header -> "E_UNSUPPORTED_ALG"
         [] \E i \in deciding : CryptoVerify(keys[i], jws) = "yes" -> "OK"
         [] \E i \in deciding : CryptoVerify(keys[i], jws) # "yes" -> "E_UNSUPPORTED_ALG"
         [] OTHER -> "E_SIGNATURE"

\* The order of the checks is the code's: what is wrong first decides the answer.
JwsVerify(jws, keys, cap) ==
    CASE keys = <<>>                                              -> "E_ARG"
      [] keys # <<>> /\ (jws.parts # 3 \/ jws.empty \in 1..3)     -> "E_FORMAT"
      [] keys # <<>> /\ jws.parts = 3 /\ jws.empty \notin 1..3    ->
           CASE jws.header \in {"undecodable", "noalg"}           -> "E_FORMAT"
             [] jws.header \notin Algs \cup {"undecodable", "noalg"} -> "E_UNSUPPORTED_ALG"
             [] jws.header \in Algs /\ ~ jws.sigDecodes           -> "E_FORMAT"
             [] jws.header \in Algs /\ jws.sigDecodes             ->
                  LET verdict == KeyVerdict(keys, jws)
                  IN IF verdict = "OK" /\ (~ jws.payloadDecodes \/ jws.payload > cap)
                     THEN "E_BUFFER" ELSE verdict
=============================================================================
