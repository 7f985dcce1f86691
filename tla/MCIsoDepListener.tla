-------------------------- MODULE MCIsoDepListener --------------------------
(***************************************************************************)
(* IsoDepListener against an arbitrary reader.  A frame of 3 octets leaves  *)
(* 2 octets of payload without a CID and 1 with one; a command buffer of 2  *)
(* octets is filled by two blocks, overflowed by a third, and exceeded by   *)
(* one unchained block of 3; a response of 3 octets takes two or three      *)
(* chunks and one of 0 octets an empty I-block.                             *)
(***************************************************************************)
EXTENDS IsoDepListener

MCReplyLengths == {0, 3}
MCPayloads == {0, 1, 3}
MCClasses == {"select", "wrapped_bad", "native"}
=============================================================================
