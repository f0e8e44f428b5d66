----------------------------- MODULE MCCallView -----------------------------
(* Instances of CallView: the constants are numbers given by the cfg.      *)
EXTENDS CallView

(* One of the two never says "do not disturb".                             *)
MCBound == ~dnd[1]
=============================================================================
