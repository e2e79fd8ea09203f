------------------------------ MODULE MCFileBytes -----------------------------
(***************************************************************************)
(* FileBytes for TLC: writes of one byte and of four, which differ from   *)
(* each other, from their neighbours and from sizes.                       *)
(***************************************************************************)
EXTENDS FileBytes

WriteData == {<<8>>, <<7, 8, 7, 8>>}
=============================================================================
