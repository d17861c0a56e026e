---------------------------- MODULE MC_Memtest ----------------------------
(* memtest started with the arguments the test harness passes and with    *)
(* wrong, extra and missing ones.                                         *)
EXTENDS Memtest

(* abc def ghi, one wrong argument, a wrong first argument, an extra one. *)
MC_Argvs ==
  {<<"abc", "def", "ghi">>, <<"abc", "def", "xyz">>,
   <<"xyz", "def", "ghi">>, <<"abc", "def", "ghi", "xyz">>}

(* Started with fewer than three arguments. *)
MC_ShortArgvs == {<<"abc">>, <<"abc", "def">>}

=============================================================================
