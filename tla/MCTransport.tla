---------------------------- MODULE MCTransport ----------------------------
(***************************************************************************)
(* An instance of Transport for TLC: a client with a cache and one         *)
(* without.  The first sends a request with its cached handle unopened and *)
(* then reuses it or opens another, as it is destroyed in between or not.  *)
(***************************************************************************)
EXTENDS Transport, TLC

CONSTANTS cached, plain

BothThreads == {cached, plain}
OneCached   == {cached}
SomeSends   == cached :> 2 @@ plain :> 1
============================================================================
