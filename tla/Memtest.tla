------------------------------ MODULE Memtest ------------------------------
(***************************************************************************)
(* The memtest program (src/apps/c/memtest/memtest.c): the allocations of *)
(* lines 8-20, the frees of lines 21-24, the setenv/getenv checks of      *)
(* lines 28-30 and the argv checks of lines 33-35, in program order.      *)
(* Printing carries no state; a "... is wrong" message is recorded by     *)
(* the number of the line that prints it.                                 *)
(*                                                                         *)
(* malloc returns a fresh block or NULL: malloc(0) may always return      *)
(* NULL, other sizes only when MallocMayFail.  Block b is the program's   *)
(* (b+1)-th allocation: 0 is brk, 1 is p, i + 2 is p[i].  A store through *)
(* NULL, a read of argv past its terminator or a free of anything but a   *)
(* live block is undefined: the program faults or carries on.             *)
(***************************************************************************)
EXTENDS Integers, Sequences

CONSTANTS
  N,             \* n of line 11
  Argvs,         \* the argument vectors the program may be started with
  MallocMayFail, \* malloc of a non-zero size may return NULL
  NULL

ASSUME MemtestAssumption == N \in Nat \ {0} /\ MallocMayFail \in BOOLEAN

(* The arguments that lines 33-35 expect. *)
Expected == <<"abc", "def", "ghi">>

(* argv[k]: an argument, the NULL that ends argv at argc, or past it. *)
Arg(argv, k) ==
  IF k < Len(argv) THEN argv[k + 1] ELSE IF k = Len(argv) THEN NULL ELSE "past_end"

VARIABLES
  pc,      \* the statement to run; "done" after return, "faulted" after a fault
  argv,    \* main's argv, argc = Len(argv)
  p,       \* line 13: the block of n pointers, or NULL
  slots,   \* the pointers stored in p's block (Garbage before line 17)
  i,       \* i of lines 16 and 21; then the index of the argument line 34
           \* compares
  live,    \* blocks allocated and not freed
  corrupt, \* a store or free went through an invalid pointer and carried on
  env,     \* the value of env1 in the environment, or "unset"
  wrong    \* lines whose "... is wrong" message has been printed

vars == <<pc, argv, p, slots, i, live, corrupt, env, wrong>>

Blocks == 0 .. N + 1

(* An indeterminate pointer: the contents of p's block before line 17. *)
Garbage == -1

(* Mutant: the || chain of line 34 without its last strcmp. *)
LastArgShort == 1

(* Line 34: the index of the last argument the || chain compares. *)
LastArg == 2

TypeOK ==
  /\ pc \in {"start", "alloc", "free", "env1", "env2", "env3", "argc", "argv",
             "argvend", "done", "faulted"}
  /\ argv \in Argvs
  /\ p \in Blocks \cup {NULL}
  /\ slots \in [0 .. N - 1 -> Blocks \cup {NULL, Garbage}]
  /\ i \in (0 .. N) \cup (0 .. LastArg)
  /\ live \subseteq Blocks
  /\ corrupt \in BOOLEAN
  /\ env \in {"unset", "ex1", "ex2"}
  /\ wrong \subseteq {28, 29, 30, 33, 34, 35}

(* What malloc(size), as the program's allocation b, may return. *)
Malloc(b, size) == {b} \cup (IF size = 0 \/ MallocMayFail THEN {NULL} ELSE {})

(* The outcomes of a statement: next, and a fault when it is undefined. *)
After(ok, next) == IF ok THEN {next} ELSE {next, "faulted"}

Init ==
  /\ pc = "start"
  /\ argv \in Argvs
  /\ p = NULL
  /\ slots = [k \in 0 .. N - 1 |-> Garbage]
  /\ i = 0
  /\ live = {}
  /\ corrupt = FALSE
  /\ env = "unset"
  /\ wrong = {}

(* Lines 7-15: brk = malloc(0), only printed; p = malloc(n * 8); line 14  *)
(* passes p[1] to printf, a read through p.                               *)
Start ==
  /\ pc = "start"
  /\ \E brk \in Malloc(0, 0), q \in Malloc(1, 8 * N) :
       /\ p' = q
       /\ live' = {brk, q} \ {NULL}
       /\ pc' \in After(q # NULL, "alloc")
  /\ UNCHANGED <<argv, slots, i, corrupt, env, wrong>>

(* Mutant: the loop condition i <= n. *)
AllocIterPastEnd ==
  /\ pc = "alloc"
  /\ i <= N
  /\ \E b \in Malloc(i + 2, 8) :
       /\ slots' = IF p # NULL THEN [slots EXCEPT ![i] = b] ELSE slots
       /\ live' = live \cup ({b} \ {NULL})
       /\ corrupt' = (corrupt \/ p = NULL \/ b = NULL)
       /\ pc' \in After(p # NULL /\ b # NULL, "alloc")
  /\ i' = i + 1
  /\ UNCHANGED <<argv, p, env, wrong>>

(* Lines 16-20, one iteration: p[i] = malloc(8); *p[i] = 233. *)
AllocIter ==
  /\ pc = "alloc"
  /\ i < N
  /\ \E b \in Malloc(i + 2, 8) :
       /\ slots' = IF p # NULL THEN [slots EXCEPT ![i] = b] ELSE slots
       /\ live' = live \cup ({b} \ {NULL})
       /\ corrupt' = (corrupt \/ p = NULL \/ b = NULL)
       /\ pc' \in After(p # NULL /\ b # NULL, "alloc")
  /\ i' = i + 1
  /\ UNCHANGED <<argv, p, env, wrong>>

(* Line 16: the allocation loop ends when i reaches n. *)
AllocExit ==
  /\ pc = "alloc" /\ i = N
  /\ i' = 0 /\ pc' = "free"
  /\ UNCHANGED <<argv, p, slots, live, corrupt, env, wrong>>

(* free(q) and the statement after it: free(NULL) does nothing, a free of *)
(* anything but a live block is undefined.                                *)
Free(q, next) ==
  /\ live' = live \ {q}
  /\ corrupt' = (corrupt \/ q \notin live \cup {NULL})
  /\ pc' \in After(q \in live \cup {NULL}, next)

(* Lines 21-23, one iteration: free(p[i]), with p[i] read through p. *)
FreeIter ==
  /\ pc = "free"
  /\ i < N
  /\ Free(IF p = NULL THEN Garbage ELSE slots[i], "free")
  /\ i' = i + 1
  /\ UNCHANGED <<argv, p, slots, env, wrong>>

(* Mutant: the free loop ending at i = n - 1. *)
FreePEarly ==
  /\ pc = "free"
  /\ i = N - 1
  /\ Free(p, "env1")
  /\ i' = 0
  /\ UNCHANGED <<argv, p, slots, env, wrong>>

(* Lines 21 and 24: the free loop ends at i = n, then free(p). *)
FreeP ==
  /\ pc = "free"
  /\ i = N
  /\ Free(p, "env1")
  /\ i' = 0
  /\ UNCHANGED <<argv, p, slots, env, wrong>>

(* Mutant: setenv ignoring its overwrite argument. *)
SetEnvAlways(val, overwrite) == val

(* POSIX setenv(env1, val, overwrite): the new value of env1. *)
SetEnv(val, overwrite) == IF env # "unset" /\ overwrite = 0 THEN env ELSE val

(* Lines 28-30: if (setenv(env1, val, ow) || strcmp(expect,               *)
(* getenv(env1))) puts(... wrong).                                        *)
EnvTest(at, next, line, val, ow, expect) ==
  /\ pc = at
  /\ env' = SetEnv(val, ow)
  /\ wrong' = IF env' = expect THEN wrong ELSE wrong \cup {line}
  /\ pc' = next
  /\ UNCHANGED <<argv, p, slots, i, live, corrupt>>

(* Line 33. *)
ArgcTest ==
  /\ pc = "argc"
  /\ wrong' = IF Len(argv) # 3 THEN wrong \cup {33} ELSE wrong
  /\ pc' = "argv"
  /\ UNCHANGED <<argv, p, slots, i, live, corrupt, env>>

(* Line 34, one strcmp(argv[i], ...) of the || chain, undefined (any      *)
(* result, or a fault) when argv[i] is the terminating NULL or past it.   *)
ArgvCmp ==
  /\ pc = "argv"
  /\ LET a == Arg(argv, i) IN
     \E differs \in IF a \in {NULL, "past_end"} THEN BOOLEAN ELSE {a # Expected[i + 1]} :
       LET more == ~differs /\ i < LastArg IN
       /\ pc' \in After(a \notin {NULL, "past_end"}, IF more THEN "argv" ELSE "argvend")
       /\ i' = IF more THEN i + 1 ELSE 0
       /\ wrong' = IF differs THEN wrong \cup {34} ELSE wrong
  /\ UNCHANGED <<argv, p, slots, live, corrupt, env>>

(* Mutant: the terminator looked for one slot too far. *)
EndIdxPast == 4

(* Line 35: the argv slot that must be NULL. *)
EndIdx == 3

(* Lines 35-37: if (argv[3] != NULL) puts(...); return 0.  argv[3] lies  *)
(* past the terminator when argc < 3.                                     *)
ArgvEnd ==
  /\ pc = "argvend"
  /\ LET a == Arg(argv, EndIdx) IN
     \E isNull \in IF a = "past_end" THEN BOOLEAN ELSE {a = NULL} :
       /\ pc' \in After(a # "past_end", "done")
       /\ wrong' = IF isNull THEN wrong ELSE wrong \cup {35}
  /\ UNCHANGED <<argv, p, slots, i, live, corrupt, env>>

Next ==
  \/ Start
  \/ AllocIter
  \/ AllocExit
  \/ FreeIter
  \/ FreeP
  \/ EnvTest("env1", "env2", 28, "ex1", 1, "ex1")
  \/ EnvTest("env2", "env3", 29, "ex2", 1, "ex2")
  \/ EnvTest("env3", "argc", 30, "ex1", 0, "ex2")
  \/ ArgcTest
  \/ ArgvCmp
  \/ ArgvEnd

(* main returns or the program dies of a fault: then it stops. *)
Spec == Init /\ [][Next]_vars

-----------------------------------------------------------------------------
(* The program takes no memory fault: no store through a NULL from malloc *)
(* (lines 14-18) and no read of argv past its terminator (lines 34-35).  *)
NoFault == pc # "faulted"

(* When main returns, every block of lines 13 and 17 has been freed once  *)
(* and nothing was stored or freed through a bad pointer: only brk's      *)
(* block, never freed, is still live.                                     *)
HeapClean == pc = "done" => live \subseteq {0} /\ ~corrupt

(* The environment checks of lines 28-30 pass: overwrite = 0 at line 30  *)
(* keeps the value line 29 set.                                           *)
EnvTestsPass == wrong \cap {28, 29, 30} = {}

(* When main returns, line 33 has complained iff argc is not 3, and line  *)
(* 34 or 35 iff argv is not exactly abc def ghi.                          *)
ArgvChecked ==
  pc = "done" =>
    /\ (33 \in wrong <=> Len(argv) # 3)
    /\ (wrong \cap {34, 35} # {} <=> argv # Expected)

=============================================================================
