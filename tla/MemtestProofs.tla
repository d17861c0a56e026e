--------------------------- MODULE MemtestProofs ---------------------------
(***************************************************************************)
(* Proofs about the memtest program of Memtest, for every n.              *)
(*                                                                         *)
(* The environment checks hold for every start.  The other properties     *)
(* hold for the starts the test harness makes (WellStarted): malloc of a  *)
(* non-zero size succeeds, and argv holds at least three arguments, each *)
(* a string (never the NULL pointer, never the model's past-the-end      *)
(* marker).  NULL is a pointer: never a block's number, never past argv. *)
(*                                                                         *)
(* The invariant follows the program counter through main: which blocks  *)
(* are live at each point of the two loops, which p[k] hold which block, *)
(* and which "wrong" lines can have been printed before each check.      *)
(***************************************************************************)
EXTENDS Memtest, SequenceTheorems, TLAPS

(* The starts the harness makes. *)
WellStarted ==
  /\ MallocMayFail = FALSE
  /\ NULL \notin Int \cup {"past_end"}
  /\ \A a \in Argvs :
       /\ a \in Seq(STRING)
       /\ Len(a) >= 3
       /\ \A k \in 1 .. Len(a) : a[k] \notin {NULL, "past_end"}

-----------------------------------------------------------------------------
(* The environment checks, for any start. *)

(* Line 30 runs after line 29 set env1 to ex2. *)
EnvIInv == TypeOK /\ (pc = "env3" => env = "ex2") /\ EnvTestsPass

-----------------------------------------------------------------------------
(* The heap, for the harness's starts. *)

(* The statements after the free loop. *)
AfterFree == {"env1", "env2", "env3", "argc", "argv", "argvend", "done"}

(* At line 16 after i iterations: p and p[0..i-1] are live, and p[k]      *)
(* holds block k + 2.  At line 21 after i iterations: p and p[i..n-1]     *)
(* are live.  After line 24 at most brk's block is.                        *)
HeapPhases ==
  /\ pc = "start" => live = {} /\ i = 0
  /\ pc = "alloc" =>
       /\ p = 1
       /\ live \ {0} = {1} \cup (2 .. i + 1)
       /\ \A k \in 0 .. i - 1 : slots[k] = k + 2
  /\ pc = "free" =>
       /\ p = 1
       /\ live \ {0} = {1} \cup (i + 2 .. N + 1)
       /\ \A k \in 0 .. N - 1 : slots[k] = k + 2
  /\ pc \in AfterFree => live \subseteq {0}
  /\ ~corrupt

-----------------------------------------------------------------------------
(* The argument checks, for the harness's starts. *)

(* Some argument of the first three is not the expected one. *)
Mismatch == \E k \in 1 .. 3 : argv[k] # Expected[k]

(* Before line 33 no argument line has complained; line 34 has compared  *)
(* the first i arguments and found them as expected; after line 34 it   *)
(* has complained iff one of the three differs, after line 35 it has   *)
(* complained iff argc is not 3.                                         *)
ArgPhases ==
  /\ pc \in {"start", "alloc", "free", "env1", "env2", "env3", "argc"} =>
       wrong \cap {33, 34, 35} = {}
  /\ pc \in {"env1", "env2", "env3", "argc"} => i = 0
  /\ pc \in {"argv", "argvend", "done"} => (33 \in wrong <=> Len(argv) # 3)
  /\ pc = "argv" =>
       /\ i \in 0 .. LastArg
       /\ wrong \cap {34, 35} = {}
       /\ \A k \in 1 .. i : argv[k] = Expected[k]
  /\ pc = "argvend" => 35 \notin wrong /\ (34 \in wrong <=> Mismatch)
  /\ pc = "done" =>
       /\ 34 \in wrong <=> Mismatch
       /\ 35 \in wrong <=> Len(argv) # 3

IInv == EnvIInv /\ HeapPhases /\ ArgPhases /\ NoFault

-----------------------------------------------------------------------------
USE MemtestAssumption

LEMMA InitEnvIInv == Init => EnvIInv
<1> SUFFICES ASSUME Init PROVE EnvIInv
  OBVIOUS
<1>1. slots \in [0 .. N - 1 -> Blocks \cup {NULL, Garbage}]
  BY DEF Init
<1>2. i \in (0 .. N) \cup (0 .. LastArg)
  BY DEF Init
<1>3. corrupt \in BOOLEAN
  BY Zenon DEF Init
<1>. QED
  BY <1>1, <1>2, <1>3 DEF Init, EnvIInv, TypeOK, EnvTestsPass, Blocks

LEMMA NextEnvIInv == EnvIInv /\ [Next]_vars => EnvIInv'
<1> SUFFICES ASSUME EnvIInv, [Next]_vars PROVE EnvIInv'
  OBVIOUS
<1>. USE DEF EnvIInv, TypeOK, EnvTestsPass, Blocks, Garbage, After, LastArg
<1>1. CASE Start
  BY <1>1 DEF Start, Malloc
<1>2. CASE AllocIter
  <2>1. PICK b \in Malloc(i + 2, 8) :
          /\ slots' = IF p # NULL THEN [slots EXCEPT ![i] = b] ELSE slots
          /\ live' = live \cup ({b} \ {NULL})
          /\ corrupt' = (corrupt \/ p = NULL \/ b = NULL)
          /\ pc' \in After(p # NULL /\ b # NULL, "alloc")
    BY <1>2 DEF AllocIter
  <2>2. b \in Blocks \cup {NULL} /\ i \in 0 .. N - 1
    BY <1>2, <2>1 DEF AllocIter, Malloc
  <2>3. slots' \in [0 .. N - 1 -> Blocks \cup {NULL, Garbage}]
    BY <2>1, <2>2
  <2>4. corrupt' \in BOOLEAN
    BY <2>1, Zenon
  <2>5. live' \subseteq Blocks
    BY <2>1, <2>2
  <2>6. i' \in 0 .. N /\ pc' \in {"alloc", "faulted"}
    BY <1>2, <2>1, <2>2 DEF AllocIter
  <2>. QED
    BY <1>2, <2>3, <2>4, <2>5, <2>6 DEF AllocIter
<1>3. CASE AllocExit
  BY <1>3 DEF AllocExit
<1>4. CASE FreeIter
  <2>1. corrupt' \in BOOLEAN
    BY <1>4, Zenon DEF FreeIter, Free
  <2>2. i' \in 0 .. N /\ pc' \in {"free", "faulted"}
    BY <1>4 DEF FreeIter, Free
  <2>3. live' \subseteq Blocks
    BY <1>4 DEF FreeIter, Free
  <2>. QED
    BY <1>4, <2>1, <2>2, <2>3 DEF FreeIter
<1>5. CASE FreeP
  BY <1>5 DEF FreeP, Free
<1>6. CASE EnvTest("env1", "env2", 28, "ex1", 1, "ex1")
  BY <1>6 DEF EnvTest, SetEnv
<1>7. CASE EnvTest("env2", "env3", 29, "ex2", 1, "ex2")
  BY <1>7 DEF EnvTest, SetEnv
<1>8. CASE EnvTest("env3", "argc", 30, "ex1", 0, "ex2")
  BY <1>8 DEF EnvTest, SetEnv
<1>9. CASE ArgcTest
  BY <1>9 DEF ArgcTest
<1>10. CASE ArgvCmp
  BY <1>10 DEF ArgvCmp, LastArg
<1>11. CASE ArgvEnd
  BY <1>11 DEF ArgvEnd
<1>12. CASE UNCHANGED vars
  BY <1>12 DEF vars
<1>13. QED
  BY <1>1, <1>2, <1>3, <1>4, <1>5, <1>6, <1>7, <1>8, <1>9, <1>10, <1>11,
     <1>12 DEF Next

(* Type correctness of memtest's state, for any start. *)
THEOREM TypeCorrect == Spec => []TypeOK
<1>1. EnvIInv => TypeOK
  BY DEF EnvIInv
<1>. QED
  BY <1>1, InitEnvIInv, NextEnvIInv, PTL DEF Spec

(* The setenv/getenv checks of lines 28-30 never print "wrong", however  *)
(* the program was started: line 30's setenv with overwrite 0 keeps the *)
(* value line 29 set.                                                    *)
THEOREM EnvChecksPass == Spec => []EnvTestsPass
<1>1. EnvIInv => EnvTestsPass
  BY DEF EnvIInv
<1>. QED
  BY <1>1, InitEnvIInv, NextEnvIInv, PTL DEF Spec

-----------------------------------------------------------------------------
(* The heap and the argument checks, for the harness's starts. *)

(* An argument vector of at least three arguments is abc def ghi       *)
(* exactly when its first three arguments are and it has no fourth.      *)
LEMMA ExpectedArgv ==
  ASSUME NEW S, NEW a \in Seq(S), Len(a) >= 3
  PROVE  a = Expected <=> (\A k \in 1 .. 3 : a[k] = Expected[k]) /\ Len(a) = 3
<1>. DEFINE T == S \cup {"abc", "def", "ghi"}
<1>1. Expected \in Seq(T) /\ Len(Expected) = 3
  BY DEF Expected
<1>2. a \in Seq(T)
  <2>1. S \subseteq T
    OBVIOUS
  <2>. QED
    BY <2>1, SeqMonotonic
<1>3. ASSUME \A k \in 1 .. 3 : a[k] = Expected[k], Len(a) = 3
      PROVE  a = Expected
  BY <1>1, <1>2, <1>3, SeqEqual
<1>. QED
  BY <1>1, <1>3

LEMMA InitIInv == Init => IInv
<1> SUFFICES ASSUME Init PROVE IInv
  OBVIOUS
<1>1. ~corrupt
  BY Zenon DEF Init
<1>. QED
  BY <1>1, InitEnvIInv DEF Init, IInv, HeapPhases, ArgPhases, NoFault, AfterFree

(* One step of main keeps the invariant, for the harness's starts. *)
LEMMA NextIInv ==
  ASSUME WellStarted PROVE IInv /\ [Next]_vars => IInv'
<1> SUFFICES ASSUME IInv, [Next]_vars PROVE IInv'
  OBVIOUS
<1>1. EnvIInv'
  BY NextEnvIInv DEF IInv
<1>2. /\ TypeOK /\ TypeOK'
      /\ pc # "faulted"
      /\ ~corrupt
  BY <1>1 DEF IInv, EnvIInv, NoFault, HeapPhases
<1>3. /\ MallocMayFail = FALSE
      /\ NULL \notin Int \cup {"past_end"}
      /\ argv \in Seq(STRING)
      /\ Len(argv) >= 3
      /\ \A k \in 1 .. Len(argv) : argv[k] \notin {NULL, "past_end"}
  BY <1>2 DEF WellStarted, TypeOK
<1>. USE MemtestAssumption
<1>4. CASE Start
  <2>1. pc = "start" /\ live = {} /\ i = 0
    BY <1>4 DEF Start, IInv, HeapPhases
  <2>2. PICK brk \in Malloc(0, 0), q \in Malloc(1, 8 * N) :
          /\ p' = q
          /\ live' = {brk, q} \ {NULL}
          /\ pc' \in After(q # NULL, "alloc")
    BY <1>4 DEF Start
  <2>3. q = 1 /\ brk \in {0, NULL}
    BY <2>2, <1>3 DEF Malloc
  <2>4. pc' = "alloc" /\ p' = 1 /\ live' \ {0} = {1}
    BY <2>2, <2>3, <1>3 DEF After
  <2>5. ~corrupt' /\ i' = i /\ wrong' = wrong
    BY <1>4, <1>2, Zenon DEF Start
  <2>6. HeapPhases'
    BY <2>1, <2>4, <2>5 DEF HeapPhases, AfterFree
  <2>7. ArgPhases'
    BY <2>1, <2>4, <2>5 DEF IInv, ArgPhases
  <2>. QED
    BY <1>1, <2>4, <2>6, <2>7 DEF IInv, NoFault
<1>5. CASE AllocIter
  <2>1. pc = "alloc" /\ i < N /\ p = 1
        /\ live \ {0} = {1} \cup (2 .. i + 1)
        /\ \A k \in 0 .. i - 1 : slots[k] = k + 2
    BY <1>5 DEF AllocIter, IInv, HeapPhases
  <2>2. PICK b \in Malloc(i + 2, 8) :
          /\ slots' = IF p # NULL THEN [slots EXCEPT ![i] = b] ELSE slots
          /\ live' = live \cup ({b} \ {NULL})
          /\ corrupt' = (corrupt \/ p = NULL \/ b = NULL)
          /\ pc' \in After(p # NULL /\ b # NULL, "alloc")
    BY <1>5 DEF AllocIter
  <2>3. b = i + 2 /\ p # NULL /\ b # NULL
    BY <2>1, <2>2, <1>2, <1>3 DEF Malloc, TypeOK
  <2>4. /\ slots' = [slots EXCEPT ![i] = i + 2]
        /\ live' = live \cup {i + 2}
        /\ pc' = "alloc"
    BY <2>2, <2>3 DEF After
  <2>5. ~corrupt'
    BY <2>2, <2>3, <1>2, Zenon
  <2>6. i' = i + 1 /\ p' = p /\ wrong' = wrong
    BY <1>5 DEF AllocIter
  <2>7. live' \ {0} = {1} \cup (2 .. i' + 1)
    BY <2>1, <2>4, <2>6, <1>2 DEF TypeOK
  <2>8. \A k \in 0 .. i' - 1 : slots'[k] = k + 2
    BY <2>1, <2>4, <2>6, <1>2 DEF TypeOK
  <2>9. HeapPhases'
    BY <2>1, <2>4, <2>5, <2>6, <2>7, <2>8 DEF HeapPhases, AfterFree
  <2>10. ArgPhases'
    BY <2>1, <2>4, <2>6 DEF IInv, ArgPhases
  <2>. QED
    BY <1>1, <2>4, <2>9, <2>10 DEF IInv, NoFault
<1>6. CASE AllocExit
  <2>1. pc = "alloc" /\ i = N /\ p = 1
        /\ live \ {0} = {1} \cup (2 .. N + 1)
        /\ \A k \in 0 .. N - 1 : slots[k] = k + 2
    BY <1>6 DEF AllocExit, IInv, HeapPhases
  <2>2. pc' = "free" /\ i' = 0 /\ UNCHANGED <<p, slots, live, corrupt, wrong>>
    BY <1>6 DEF AllocExit
  <2>3. HeapPhases'
    BY <2>1, <2>2, <1>2 DEF HeapPhases, AfterFree
  <2>4. ArgPhases'
    BY <2>1, <2>2 DEF IInv, ArgPhases
  <2>. QED
    BY <1>1, <2>2, <2>3, <2>4 DEF IInv, NoFault
<1>7. CASE FreeIter
  <2>1. pc = "free" /\ i < N /\ p = 1
        /\ live \ {0} = {1} \cup (i + 2 .. N + 1)
        /\ \A k \in 0 .. N - 1 : slots[k] = k + 2
    BY <1>7 DEF FreeIter, IInv, HeapPhases
  <2>2. i \in 0 .. N - 1
    BY <2>1, <1>2 DEF TypeOK
  <2>3. slots[i] = i + 2 /\ i + 2 \in live /\ p # NULL
    BY <2>1, <2>2, <1>3
  <2>4. /\ live' = live \ {i + 2}
        /\ corrupt' = (corrupt \/ i + 2 \notin live \cup {NULL})
        /\ pc' \in After(i + 2 \in live \cup {NULL}, "free")
        /\ i' = i + 1 /\ UNCHANGED <<p, slots, wrong>>
    BY <1>7, <2>3 DEF FreeIter, Free
  <2>5. pc' = "free"
    BY <2>3, <2>4 DEF After
  <2>6. ~corrupt'
    BY <2>3, <2>4, <1>2, Zenon
  <2>7. live' \ {0} = {1} \cup (i' + 2 .. N + 1)
    BY <2>1, <2>2, <2>4
  <2>8. HeapPhases'
    BY <2>1, <2>4, <2>5, <2>6, <2>7 DEF HeapPhases, AfterFree
  <2>9. ArgPhases'
    BY <2>1, <2>4, <2>5 DEF IInv, ArgPhases
  <2>. QED
    BY <1>1, <2>5, <2>8, <2>9 DEF IInv, NoFault
<1>8. CASE FreeP
  <2>1. pc = "free" /\ i = N /\ p = 1 /\ live \ {0} = {1}
    BY <1>8 DEF FreeP, IInv, HeapPhases
  <2>2. /\ live' = live \ {1}
        /\ corrupt' = (corrupt \/ 1 \notin live \cup {NULL})
        /\ pc' \in After(1 \in live \cup {NULL}, "env1")
        /\ i' = 0 /\ UNCHANGED <<p, slots, wrong>>
    BY <1>8, <2>1 DEF FreeP, Free
  <2>3. 1 \in live
    BY <2>1
  <2>4. pc' = "env1" /\ live' \subseteq {0}
    BY <2>1, <2>2, <2>3 DEF After
  <2>5. ~corrupt'
    BY <2>2, <2>3, <1>2, Zenon
  <2>6. HeapPhases'
    BY <2>4, <2>5 DEF HeapPhases, AfterFree
  <2>7. ArgPhases'
    BY <2>1, <2>2, <2>4 DEF IInv, ArgPhases
  <2>. QED
    BY <1>1, <2>4, <2>6, <2>7 DEF IInv, NoFault
<1>9. ASSUME NEW at \in {"env1", "env2", "env3"},
             NEW nxt \in {"env2", "env3", "argc"},
             NEW line \in {28, 29, 30}, NEW val, NEW ow, NEW expect,
             EnvTest(at, nxt, line, val, ow, expect)
      PROVE  IInv'
  <2>1. /\ pc = at /\ pc' = nxt
        /\ wrong' \cap {33, 34, 35} = wrong \cap {33, 34, 35}
        /\ UNCHANGED <<argv, p, slots, i, live, corrupt>>
    BY <1>9 DEF EnvTest
  <2>2. HeapPhases'
    BY <2>1 DEF IInv, HeapPhases, AfterFree
  <2>3. ArgPhases'
    BY <2>1 DEF IInv, ArgPhases
  <2>. QED
    BY <1>1, <2>1, <2>2, <2>3 DEF IInv, NoFault
<1>10. CASE ArgcTest
  <2>1. /\ pc = "argc" /\ i = 0 /\ wrong \cap {33, 34, 35} = {}
        /\ live \subseteq {0}
    BY <1>10 DEF ArgcTest, IInv, ArgPhases, HeapPhases, AfterFree
  <2>2. /\ pc' = "argv"
        /\ wrong' = IF Len(argv) # 3 THEN wrong \cup {33} ELSE wrong
        /\ UNCHANGED <<argv, p, slots, i, live, corrupt>>
    BY <1>10 DEF ArgcTest
  <2>3. HeapPhases'
    BY <1>2, <2>1, <2>2 DEF HeapPhases, AfterFree
  <2>4. ArgPhases'
    BY <2>1, <2>2 DEF ArgPhases, LastArg
  <2>. QED
    BY <1>1, <2>2, <2>3, <2>4 DEF IInv, NoFault
<1>11. CASE ArgvCmp
  <2>1. /\ pc = "argv" /\ i \in 0 .. LastArg
        /\ wrong \cap {34, 35} = {}
        /\ \A k \in 1 .. i : argv[k] = Expected[k]
        /\ 33 \in wrong <=> Len(argv) # 3
        /\ live \subseteq {0}
    BY <1>11 DEF ArgvCmp, IInv, ArgPhases, HeapPhases, AfterFree
  <2>2. Arg(argv, i) = argv[i + 1] /\ argv[i + 1] \notin {NULL, "past_end"}
    BY <2>1, <1>3 DEF Arg, LastArg
  <2>. DEFINE d == argv[i + 1] # Expected[i + 1]
              more == ~d /\ i < LastArg
  <2>3. /\ pc' = IF more THEN "argv" ELSE "argvend"
        /\ i' = IF more THEN i + 1 ELSE 0
        /\ wrong' = IF d THEN wrong \cup {34} ELSE wrong
        /\ UNCHANGED <<argv, p, slots, live, corrupt>>
    BY <1>11, <2>2 DEF ArgvCmp, After
  <2>4. HeapPhases'
    BY <1>2, <2>1, <2>3 DEF HeapPhases, AfterFree
  <2>5. CASE more
    <3>1. \A k \in 1 .. i + 1 : argv[k] = Expected[k]
      BY <2>1, <2>5
    <3>. QED
      BY <1>1, <2>1, <2>3, <2>4, <2>5, <3>1 DEF IInv, ArgPhases, NoFault, LastArg
  <2>6. CASE d
    <3>1. Mismatch
      BY <2>1, <2>6 DEF Mismatch, LastArg
    <3>. QED
      BY <1>1, <2>1, <2>3, <2>4, <2>6, <3>1 DEF IInv, ArgPhases, NoFault, Mismatch
  <2>7. CASE ~d /\ i = LastArg
    <3>1. ~Mismatch
      BY <2>1, <2>7 DEF Mismatch, LastArg
    <3>. QED
      BY <1>1, <2>1, <2>3, <2>4, <2>7, <3>1 DEF IInv, ArgPhases, NoFault, Mismatch
  <2>. QED
    BY <2>1, <2>5, <2>6, <2>7 DEF LastArg
<1>12. CASE ArgvEnd
  <2>1. /\ pc = "argvend"
        /\ 35 \notin wrong /\ (34 \in wrong <=> Mismatch)
        /\ 33 \in wrong <=> Len(argv) # 3
        /\ live \subseteq {0}
    BY <1>12 DEF ArgvEnd, IInv, ArgPhases, HeapPhases, AfterFree
  <2>2. /\ Arg(argv, EndIdx) # "past_end"
        /\ Arg(argv, EndIdx) = NULL <=> Len(argv) = 3
    <3>1. CASE Len(argv) = 3
      BY <1>3, <3>1 DEF Arg, EndIdx
    <3>2. CASE Len(argv) > 3
      <4>1. Arg(argv, EndIdx) = argv[4] /\ 4 \in 1 .. Len(argv)
        BY <3>2 DEF Arg, EndIdx
      <4>2. argv[4] \notin {NULL, "past_end"}
        BY <1>3, <4>1
      <4>. QED
        BY <3>2, <4>1, <4>2
    <3>3. Len(argv) = 3 \/ Len(argv) > 3
      <4>1. Len(argv) \in Nat /\ Len(argv) >= 3
        BY <1>3, LenProperties
      <4>2. \A x \in Nat : x >= 3 => x = 3 \/ x > 3
        OBVIOUS
      <4>. QED
        BY <4>1, <4>2
    <3>. QED
      BY <3>1, <3>2, <3>3
  <2>3. /\ pc' = "done"
        /\ wrong' = IF Len(argv) = 3 THEN wrong ELSE wrong \cup {35}
        /\ UNCHANGED <<argv, p, slots, i, live, corrupt>>
    BY <1>12, <2>2 DEF ArgvEnd, After
  <2>4. HeapPhases'
    BY <1>2, <2>1, <2>3 DEF HeapPhases, AfterFree
  <2>5. ArgPhases'
    BY <2>1, <2>3 DEF ArgPhases, Mismatch
  <2>. QED
    BY <1>1, <2>3, <2>4, <2>5 DEF IInv, NoFault
<1>13. CASE UNCHANGED vars
  <2>1. HeapPhases' /\ NoFault'
    BY <1>13, <1>2 DEF vars, IInv, HeapPhases, NoFault, AfterFree
  <2>2. ArgPhases'
    BY <1>13 DEF vars, IInv, ArgPhases, Mismatch
  <2>. QED
    BY <1>1, <2>1, <2>2 DEF IInv
<1>14. QED
  BY <1>4, <1>5, <1>6, <1>7, <1>8, <1>9, <1>10, <1>11, <1>12, <1>13 DEF Next

(* For the harness's starts, every state of a run satisfies the          *)
(* invariant.                                                              *)
THEOREM Invariant == ASSUME WellStarted PROVE Spec => []IInv
BY InitIInv, NextIInv, PTL DEF Spec

(* Started as the harness starts it, memtest takes no memory fault: the  *)
(* stores of lines 14-18 go through the blocks malloc returned and the   *)
(* reads of argv at lines 34-35 stay before its terminator.              *)
THEOREM NoFaultProved == ASSUME WellStarted PROVE Spec => []NoFault
<1>1. IInv => NoFault
  BY DEF IInv
<1>. QED
  BY <1>1, Invariant, PTL

(* Started as the harness starts it, when main returns every block of    *)
(* lines 13 and 17 has been freed exactly once by lines 21-24 and no     *)
(* store or free went through a bad pointer.                             *)
THEOREM HeapCleanProved == ASSUME WellStarted PROVE Spec => []HeapClean
<1>1. IInv => HeapClean
  BY DEF IInv, HeapPhases, HeapClean, AfterFree
<1>. QED
  BY <1>1, Invariant, PTL

(* Started with at least three arguments, when main returns line 33 has *)
(* complained exactly when argc is not 3, and line 34 or 35 exactly when *)
(* argv is not abc def ghi.                                               *)
THEOREM ArgvCheckedProved == ASSUME WellStarted PROVE Spec => []ArgvChecked
<1>1. IInv => ArgvChecked
  <2> SUFFICES ASSUME IInv, pc = "done" PROVE ArgvChecked
    BY DEF ArgvChecked
  <2>1. argv \in Seq(STRING) /\ Len(argv) >= 3
    BY DEF IInv, EnvIInv, TypeOK, WellStarted
  <2>2. argv = Expected <=>
          (\A k \in 1 .. 3 : argv[k] = Expected[k]) /\ Len(argv) = 3
    BY <2>1, ExpectedArgv
  <2>3. /\ 33 \in wrong <=> Len(argv) # 3
        /\ 34 \in wrong <=> Mismatch
        /\ 35 \in wrong <=> Len(argv) # 3
    BY DEF IInv, ArgPhases
  <2>. QED
    BY <2>2, <2>3 DEF ArgvChecked, Mismatch
<1>. QED
  BY <1>1, Invariant, PTL

=============================================================================
