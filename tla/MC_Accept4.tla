----------------------------- MODULE MC_Accept4 -----------------------------
(***************************************************************************)
(* Model-checking instance of Accept4: three threads accepting on one     *)
(* listening socket (two or three in the cfg), two free descriptor        *)
(* numbers, so that descriptors are reused and a third accept finds the   *)
(* table full (EMFILE), and three connections.                            *)
(***************************************************************************)
EXTENDS Accept4, TLC

MC_Fds == {3, 4}
MC_MaxConns == 3

(* The threads run the same code. *)
Symmetry == Permutations(Threads)

=============================================================================
