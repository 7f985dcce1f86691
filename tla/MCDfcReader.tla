----------------------------- MODULE MCDfcReader -----------------------------
(***************************************************************************)
(* DfcReader with three cards, one of them with a UID that does not fit,     *)
(* and a credential of three files, the middle one of another application.   *)
(***************************************************************************)
EXTENDS DfcReader

MCAppIndex == <<0, 1, 0>>
=============================================================================
