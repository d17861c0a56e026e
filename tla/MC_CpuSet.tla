----------------------------- MODULE MC_CpuSet -----------------------------
EXTENDS CpuSet

(* A negative i, the first and last bit of a byte and of a word, the last *)
(* CPU of the set and the first one past it.                              *)
MC_Indices == {-1, 0, 7, 8, 9, 15, 16, 1023, 1024}

(* No bytes, one byte, an odd number of bytes, the whole set. *)
MC_Sizes == {0, 1, 3, 128}

=============================================================================
