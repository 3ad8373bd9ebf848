----------------------------- MODULE MCFileStore -----------------------------
(***************************************************************************)
(* Instances of FileStore for TLC: documents of one, two and three parts,  *)
(* the last of which is as large as the buffer it is read into.            *)
(***************************************************************************)
EXTENDS FileStore, TLC

CONSTANTS short, long, huge

SomeParts == short :> 1 @@ long :> 2 @@ huge :> 3
TwoParts  == short :> 1 @@ long :> 2
==============================================================================
