------------------------------ MODULE MCDfcApp ------------------------------
(***************************************************************************)
(* DfcApp with two names, one of them with both a text and a compiled file, *)
(* so that a save beside the compiled file meets an existing text file, and *)
(* room for two writes.                                                     *)
(***************************************************************************)
EXTENDS DfcApp

CONSTANTS n1, n2
MCNames == {n1, n2}
MCSaved == {<<n1, "dfc">>, <<n1, "dfcb">>}
=============================================================================
