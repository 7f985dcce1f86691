---------------------------- MODULE MCIsoDepLink ----------------------------
(***************************************************************************)
(* IsoDepLink on small instances.  A frame of 3 octets carries 2 octets of  *)
(* response, or 1 behind a CID, so a response of 3 octets takes two or      *)
(* three chunks; a command octet is one I-block.                            *)
(***************************************************************************)
EXTENDS IsoDepLink

MCReplyLengths == {1, 3}
MCNative == {"native"}
MCNoPayloads == {}
MCUnchained == {1}
MCChained == {1, 2, 3}
MCLong == {1, 4}
=============================================================================
