------------------------------ MODULE MCReqRes ------------------------------
(***************************************************************************)
(* Small instances of ReqRes for TLC.                                      *)
(***************************************************************************)
EXTENDS ReqRes, TLC

CONSTANTS s, a
ActorsDef == {s, a}
=============================================================================
