----------------------------- MODULE MCXDRStream -----------------------------
(***************************************************************************)
(* Two kinds of object, of XDR sizes 4 and 8, at most two writeOne calls,  *)
(* and a reader whose mSizeLimit is 4: the 4-byte object sits exactly at   *)
(* the limit and the 8-byte one is over it.                               *)
(***************************************************************************)
EXTENDS XDRStream

MCMsgs == {<<0, 0, 0, 1>>, <<0, 0, 0, 2, 0, 0, 0, 3>>}

=============================================================================
