----------------------------- MODULE MC_SockOpt -----------------------------
(***************************************************************************)
(* Model-checking instance of SockOpt: an int of four bytes in a buffer   *)
(* of eight bytes holding zeros and ones.  optlen is 0, shorter than an   *)
(* int, an int, or the whole buffer.                                      *)
(***************************************************************************)
EXTENDS SockOpt

MC_IntSize == 4
MC_BufLen == 8
MC_OptLens == {0, 2, 4, 8}

=============================================================================
