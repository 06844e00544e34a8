----------------------------- MODULE MCTransfer -----------------------------
(* Instance of Transfer for TLC.                                           *)
EXTENDS Transfer, TLC
=============================================================================
