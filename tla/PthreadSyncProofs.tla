-------------------------- MODULE PthreadSyncProofs --------------------------
(***************************************************************************)
(* Proofs about the pthread test program: the mutex lock of main.c keeps  *)
(* at most one thread between pthread_mutex_lock and _unlock, so no       *)
(* increment of data by ThreadFunc3 is lost and the assert of line 126    *)
(* holds for every NUM_THREADS; second leaves its wait loop only after A  *)
(* is set; and the create tests print what their joined thread returned.  *)
(***************************************************************************)
EXTENDS PthreadSync, FiniteSetTheorems, TLAPS

(* The places in which thread t holds lock: between its lock and its     *)
(* unlock (lines 40-50, 137-140, 148-155).                                *)
InCS(t) ==
  \/ t \in Workers /\ tpc[t] \in {"read", "write", "unlock"}
  \/ t = First /\ tpc[t] \in {"set", "signal", "unlock"}
  \/ t = Second /\ tpc[t] \in {"check", "unlock"}

(* The mutex: a thread inside its critical section is the holder. *)
MutualExclusion == \A t \in Threads : InCS(t) => lock = t

(* The ThreadFunc3 threads that have written data, when their places are *)
(* f.                                                                      *)
WrittenBy(f) == {t \in Workers : f[t] \in {"unlock", "done"}}

(* DataCountsWrites, with the written set named. *)
CountInv == data = Cardinality(WrittenBy(tpc))

(* A thread about to write data read it under the same holding of lock, *)
(* so what it read is still data.                                          *)
ReadIsCurrent == \A t \in Workers : tpc[t] = "write" => value[t] = data

(* The places of main before test_mutex. *)
BeforeMutex == {"cj_create1", "cj_join1", "cj_create2", "cj_join2", "cj_print",
                "ce_create", "ce_join", "ce_print"}

(* test_mutex creates thread i + 1 only after 1..i, and joins them in     *)
(* order: which ThreadFunc3 threads exist, and which have ended, at each  *)
(* place of main.                                                         *)
MutexPhases ==
  /\ mpc \in BeforeMutex => i = 0 /\ \A w \in Workers : tpc[w] = "new"
  /\ mpc = "mx_create" => \A w \in Workers : w > i => tpc[w] = "new"
  /\ mpc = "mx_join" => \A w \in 1 .. i : tpc[w] = "done"
  /\ mpc = "mx_assert" => \A w \in Workers : tpc[w] = "done"

(* What a thread of the create tests ended with, and what thread_result  *)
(* holds when the test prints it.                                          *)
ResultsKnown ==
  /\ tpc[CjT1] = "done" => retval[CjT1] = "NULL"
  /\ tpc[CjT2] = "done" => retval[CjT2] = "ChildReturnMessage"
  /\ tpc[CeT1] = "done" => retval[CeT1] = "ExitMessage"
  /\ mpc = "cj_print" => result = "ChildReturnMessage"
  /\ mpc = "ce_print" => result = "ExitMessage"

(* The inductive invariant. *)
IInv ==
  /\ TypeOK
  /\ MutualExclusion
  /\ ReadIsCurrent
  /\ CountInv
  /\ MutexPhases
  /\ ResultsKnown
  /\ JoinedResultPrinted
  /\ SecondSeesA

USE NAssumption, CreateMayFailAssumption, MaxSpuriousAssumption

USE DEF Threads, Workers, First, Second, NoThread, CjT1, CjT2, CeT1,
        CreateThreads, RetVals

-----------------------------------------------------------------------------
(* The threads that have written data are finitely many, at most N. *)
LEMMA WrittenBounded ==
  ASSUME NEW f
  PROVE  /\ IsFiniteSet(WrittenBy(f))
         /\ Cardinality(WrittenBy(f)) \in 0 .. N
<1>1. /\ IsFiniteSet(1 .. N)
      /\ Cardinality(1 .. N) = N
  BY FS_Interval
<1>2. WrittenBy(f) \subseteq 1 .. N
  BY DEF WrittenBy
<1>3. /\ IsFiniteSet(WrittenBy(f))
      /\ Cardinality(WrittenBy(f)) <= N
  BY <1>1, <1>2, FS_Subset
<1>4. Cardinality(WrittenBy(f)) \in Nat
  BY <1>3, FS_CardinalityType
<1>. QED
  BY <1>3, <1>4

(* A step that leaves the place of every ThreadFunc3 thread in or out of *)
(* the written set leaves the set as it is.                               *)
LEMMA WrittenSame ==
  ASSUME NEW f, NEW g,
         \A w \in Workers : (f[w] \in {"unlock", "done"}) <=> (g[w] \in {"unlock", "done"})
  PROVE  WrittenBy(f) = WrittenBy(g)
BY DEF WrittenBy

-----------------------------------------------------------------------------
(* The initial state satisfies the inductive invariant. *)
LEMMA InitIInv == Init => IInv
<1> SUFFICES ASSUME Init PROVE IInv
  OBVIOUS
<1>1. WrittenBy(tpc) = {}
  BY DEF Init, WrittenBy
<1>2. Cardinality(WrittenBy(tpc)) = 0
  BY <1>1, FS_EmptySet
<1>3. TypeOK
  <2>1. tpc \in [Threads -> {"new"}]
    BY DEF Init
  <2>2. printed \in [{"cj", "ce"} -> {"none"}]
    BY DEF Init
  <2>3. /\ \A t \in Workers : tpc[t] = "new"
        /\ tpc[First] = "new" /\ tpc[Second] = "new"
        /\ \A t \in CreateThreads : tpc[t] = "new"
    BY DEF Init
  <2>4. /\ value \in [Workers -> 0 .. N]
        /\ retval \in [CreateThreads -> RetVals]
    BY DEF Init
  <2>5. /\ mpc = "cj_create1" /\ i \in 0 .. N /\ data \in 0 .. N
        /\ lock = NoThread /\ spurious \in 0 .. MaxSpurious
    BY DEF Init
  <2>. QED
    BY <2>1, <2>2, <2>3, <2>4, <2>5 DEF Init, TypeOK
<1>4. CountInv
  BY <1>2 DEF Init, CountInv
<1>. QED
  BY <1>3, <1>4 DEF Init, IInv, MutualExclusion, InCS, ReadIsCurrent,
     MutexPhases, BeforeMutex, ResultsKnown, JoinedResultPrinted, SecondSeesA

-----------------------------------------------------------------------------
(* Every step of the program keeps the inductive invariant: one case per *)
(* action, and in each one step per part of the invariant.               *)
LEMMA NextIInv == IInv /\ [Next]_vars => IInv'
<1> SUFFICES ASSUME IInv, [Next]_vars PROVE IInv'
  OBVIOUS
<1>1. CASE UNCHANGED vars
  BY <1>1 DEF vars, IInv, TypeOK, MutualExclusion, InCS, ReadIsCurrent, CountInv,
       MutexPhases, BeforeMutex, ResultsKnown, JoinedResultPrinted, SecondSeesA, WrittenBy
<1>2. ASSUME NEW t \in Workers, MxLock(t)
       PROVE  IInv'
  <3>1. WrittenBy(tpc') = WrittenBy(tpc)
    BY <1>2 DEF MxLock, IInv, TypeOK, MutexPhases, BeforeMutex, WrittenBy
  <3>2. TypeOK'
    BY <1>2 DEF MxLock, cjVars, IInv, TypeOK
  <3>3. MutualExclusion'
    BY <1>2 DEF MxLock, IInv, TypeOK, MutualExclusion, InCS
  <3>4. ReadIsCurrent' /\ CountInv'
    BY <1>2, <3>1 DEF MxLock, cjVars, IInv, TypeOK, ReadIsCurrent, CountInv
  <3>5. MutexPhases'
    BY <1>2 DEF MxLock, IInv, TypeOK, MutexPhases, BeforeMutex
  <3>6. (ResultsKnown /\ JoinedResultPrinted /\ SecondSeesA)'
    BY <1>2 DEF MxLock, cjVars, IInv, TypeOK, ResultsKnown, JoinedResultPrinted, SecondSeesA
  <3>. QED
    BY <3>2, <3>3, <3>4, <3>5, <3>6 DEF IInv
<1>3. ASSUME NEW t \in Workers, MxRead(t)
       PROVE  IInv'
  <3>1. WrittenBy(tpc') = WrittenBy(tpc)
    BY <1>3 DEF MxRead, IInv, TypeOK, MutexPhases, BeforeMutex, WrittenBy
  <3>2. TypeOK'
    BY <1>3 DEF MxRead, cjVars, IInv, TypeOK
  <3>3. MutualExclusion'
    BY <1>3 DEF MxRead, IInv, TypeOK, MutualExclusion, InCS
  <3>4. ReadIsCurrent' /\ CountInv'
    BY <1>3, <3>1 DEF MxRead, cjVars, IInv, TypeOK, ReadIsCurrent, CountInv
  <3>5. MutexPhases'
    BY <1>3 DEF MxRead, IInv, TypeOK, MutexPhases, BeforeMutex
  <3>6. (ResultsKnown /\ JoinedResultPrinted /\ SecondSeesA)'
    BY <1>3 DEF MxRead, cjVars, IInv, TypeOK, ResultsKnown, JoinedResultPrinted, SecondSeesA
  <3>. QED
    BY <3>2, <3>3, <3>4, <3>5, <3>6 DEF IInv
<1>4. ASSUME NEW t \in Workers, MxUnlock(t)
       PROVE  IInv'
  <3>1. WrittenBy(tpc') = WrittenBy(tpc)
    BY <1>4 DEF MxUnlock, IInv, TypeOK, MutexPhases, BeforeMutex, WrittenBy
  <3>2. TypeOK'
    BY <1>4 DEF MxUnlock, cjVars, IInv, TypeOK
  <3>3. MutualExclusion'
    BY <1>4 DEF MxUnlock, IInv, TypeOK, MutualExclusion, InCS
  <3>4. ReadIsCurrent' /\ CountInv'
    BY <1>4, <3>1 DEF MxUnlock, cjVars, IInv, TypeOK, ReadIsCurrent, CountInv
  <3>5. MutexPhases'
    BY <1>4 DEF MxUnlock, IInv, TypeOK, MutexPhases, BeforeMutex
  <3>6. (ResultsKnown /\ JoinedResultPrinted /\ SecondSeesA)'
    BY <1>4 DEF MxUnlock, cjVars, IInv, TypeOK, ResultsKnown, JoinedResultPrinted, SecondSeesA
  <3>. QED
    BY <3>2, <3>3, <3>4, <3>5, <3>6 DEF IInv
<1>5. ASSUME FirstSleep
       PROVE  IInv'
  <3>1. WrittenBy(tpc') = WrittenBy(tpc)
    BY <1>5 DEF FirstSleep, IInv, TypeOK, MutexPhases, BeforeMutex, WrittenBy
  <3>2. TypeOK'
    BY <1>5 DEF FirstSleep, cjVars, IInv, TypeOK
  <3>3. MutualExclusion'
    BY <1>5 DEF FirstSleep, IInv, TypeOK, MutualExclusion, InCS
  <3>4. ReadIsCurrent' /\ CountInv'
    BY <1>5, <3>1 DEF FirstSleep, cjVars, IInv, TypeOK, ReadIsCurrent, CountInv
  <3>5. MutexPhases'
    BY <1>5 DEF FirstSleep, IInv, TypeOK, MutexPhases, BeforeMutex
  <3>6. (ResultsKnown /\ JoinedResultPrinted /\ SecondSeesA)'
    BY <1>5 DEF FirstSleep, cjVars, IInv, TypeOK, ResultsKnown, JoinedResultPrinted, SecondSeesA
  <3>. QED
    BY <3>2, <3>3, <3>4, <3>5, <3>6 DEF IInv
<1>6. ASSUME FirstLock
       PROVE  IInv'
  <3>1. WrittenBy(tpc') = WrittenBy(tpc)
    BY <1>6 DEF FirstLock, IInv, TypeOK, MutexPhases, BeforeMutex, WrittenBy
  <3>2. TypeOK'
    BY <1>6 DEF FirstLock, cjVars, IInv, TypeOK
  <3>3. MutualExclusion'
    BY <1>6 DEF FirstLock, IInv, TypeOK, MutualExclusion, InCS
  <3>4. ReadIsCurrent' /\ CountInv'
    BY <1>6, <3>1 DEF FirstLock, cjVars, IInv, TypeOK, ReadIsCurrent, CountInv
  <3>5. MutexPhases'
    BY <1>6 DEF FirstLock, IInv, TypeOK, MutexPhases, BeforeMutex
  <3>6. (ResultsKnown /\ JoinedResultPrinted /\ SecondSeesA)'
    BY <1>6 DEF FirstLock, cjVars, IInv, TypeOK, ResultsKnown, JoinedResultPrinted, SecondSeesA
  <3>. QED
    BY <3>2, <3>3, <3>4, <3>5, <3>6 DEF IInv
<1>7. ASSUME FirstSet
       PROVE  IInv'
  <3>1. WrittenBy(tpc') = WrittenBy(tpc)
    BY <1>7 DEF FirstSet, IInv, TypeOK, MutexPhases, BeforeMutex, WrittenBy
  <3>2. TypeOK'
    BY <1>7 DEF FirstSet, cjVars, IInv, TypeOK
  <3>3. MutualExclusion'
    BY <1>7 DEF FirstSet, IInv, TypeOK, MutualExclusion, InCS
  <3>4. ReadIsCurrent' /\ CountInv'
    BY <1>7, <3>1 DEF FirstSet, cjVars, IInv, TypeOK, ReadIsCurrent, CountInv
  <3>5. MutexPhases'
    BY <1>7 DEF FirstSet, IInv, TypeOK, MutexPhases, BeforeMutex
  <3>6. (ResultsKnown /\ JoinedResultPrinted /\ SecondSeesA)'
    BY <1>7 DEF FirstSet, cjVars, IInv, TypeOK, ResultsKnown, JoinedResultPrinted, SecondSeesA
  <3>. QED
    BY <3>2, <3>3, <3>4, <3>5, <3>6 DEF IInv
<1>8. ASSUME FirstSignal
       PROVE  IInv'
  <3>1. WrittenBy(tpc') = WrittenBy(tpc)
    BY <1>8 DEF FirstSignal, IInv, TypeOK, MutexPhases, BeforeMutex, WrittenBy
  <3>2. TypeOK'
    BY <1>8 DEF FirstSignal, cjVars, IInv, TypeOK
  <3>3. MutualExclusion'
    BY <1>8 DEF FirstSignal, IInv, TypeOK, MutualExclusion, InCS
  <3>4. ReadIsCurrent' /\ CountInv'
    BY <1>8, <3>1 DEF FirstSignal, cjVars, IInv, TypeOK, ReadIsCurrent, CountInv
  <3>5. MutexPhases'
    BY <1>8 DEF FirstSignal, IInv, TypeOK, MutexPhases, BeforeMutex
  <3>6. (ResultsKnown /\ JoinedResultPrinted /\ SecondSeesA)'
    BY <1>8 DEF FirstSignal, cjVars, IInv, TypeOK, ResultsKnown, JoinedResultPrinted, SecondSeesA
  <3>. QED
    BY <3>2, <3>3, <3>4, <3>5, <3>6 DEF IInv
<1>9. ASSUME FirstUnlock
       PROVE  IInv'
  <3>1. WrittenBy(tpc') = WrittenBy(tpc)
    BY <1>9 DEF FirstUnlock, IInv, TypeOK, MutexPhases, BeforeMutex, WrittenBy
  <3>2. TypeOK'
    BY <1>9 DEF FirstUnlock, cjVars, IInv, TypeOK
  <3>3. MutualExclusion'
    BY <1>9 DEF FirstUnlock, IInv, TypeOK, MutualExclusion, InCS
  <3>4. ReadIsCurrent' /\ CountInv'
    BY <1>9, <3>1 DEF FirstUnlock, cjVars, IInv, TypeOK, ReadIsCurrent, CountInv
  <3>5. MutexPhases'
    BY <1>9 DEF FirstUnlock, IInv, TypeOK, MutexPhases, BeforeMutex
  <3>6. (ResultsKnown /\ JoinedResultPrinted /\ SecondSeesA)'
    BY <1>9 DEF FirstUnlock, cjVars, IInv, TypeOK, ResultsKnown, JoinedResultPrinted, SecondSeesA
  <3>. QED
    BY <3>2, <3>3, <3>4, <3>5, <3>6 DEF IInv
<1>10. ASSUME SecondLock
       PROVE  IInv'
  <3>1. WrittenBy(tpc') = WrittenBy(tpc)
    BY <1>10 DEF SecondLock, IInv, TypeOK, MutexPhases, BeforeMutex, WrittenBy
  <3>2. TypeOK'
    BY <1>10 DEF SecondLock, cjVars, IInv, TypeOK
  <3>3. MutualExclusion'
    BY <1>10 DEF SecondLock, IInv, TypeOK, MutualExclusion, InCS
  <3>4. ReadIsCurrent' /\ CountInv'
    BY <1>10, <3>1 DEF SecondLock, cjVars, IInv, TypeOK, ReadIsCurrent, CountInv
  <3>5. MutexPhases'
    BY <1>10 DEF SecondLock, IInv, TypeOK, MutexPhases, BeforeMutex
  <3>6. (ResultsKnown /\ JoinedResultPrinted /\ SecondSeesA)'
    BY <1>10 DEF SecondLock, cjVars, IInv, TypeOK, ResultsKnown, JoinedResultPrinted, SecondSeesA
  <3>. QED
    BY <3>2, <3>3, <3>4, <3>5, <3>6 DEF IInv
<1>11. ASSUME SecondCheck
       PROVE  IInv'
  <2>1. CASE A = 0
    <3>1. WrittenBy(tpc') = WrittenBy(tpc)
      BY <1>11, <2>1 DEF SecondCheck, IInv, TypeOK, MutexPhases, BeforeMutex, WrittenBy
    <3>2. TypeOK'
      <4>1. /\ tpc' \in [Threads -> {"new", "lock", "read", "write", "unlock", "done",
                                     "sleep", "set", "signal", "check", "waiting",
                                     "relock", "run"}]
            /\ \A w \in Threads \ {Second} : tpc'[w] = tpc[w]
            /\ tpc'[Second] \in {"waiting", "unlock"}
        BY <1>11, <2>1 DEF SecondCheck, IInv, TypeOK
      <4>. QED
        BY <1>11, <2>1, <4>1 DEF SecondCheck, cjVars, IInv, TypeOK
    <3>3. MutualExclusion'
      BY <1>11, <2>1 DEF SecondCheck, IInv, TypeOK, MutualExclusion, InCS
    <3>4. ReadIsCurrent' /\ CountInv'
      BY <1>11, <2>1, <3>1 DEF SecondCheck, cjVars, IInv, TypeOK, ReadIsCurrent, CountInv
    <3>5. MutexPhases'
      <4>1. /\ tpc' = [tpc EXCEPT ![Second] = "waiting"]
            /\ i' = i
        BY <1>11, <2>1 DEF SecondCheck
      <4>2. \A w \in Workers : tpc'[w] = tpc[w]
        BY <4>1 DEF IInv, TypeOK
      <4>. QED
        BY <1>11, <2>1, <4>1, <4>2 DEF SecondCheck, IInv, MutexPhases, BeforeMutex
    <3>6. (ResultsKnown /\ JoinedResultPrinted /\ SecondSeesA)'
      BY <1>11, <2>1 DEF SecondCheck, cjVars, IInv, TypeOK, ResultsKnown, JoinedResultPrinted, SecondSeesA
    <3>. QED
      BY <3>2, <3>3, <3>4, <3>5, <3>6 DEF IInv
  <2>2. CASE A # 0
    <3>1. WrittenBy(tpc') = WrittenBy(tpc)
      BY <1>11, <2>2 DEF SecondCheck, IInv, TypeOK, MutexPhases, BeforeMutex, WrittenBy
    <3>2. TypeOK'
      <4>1. /\ tpc' \in [Threads -> {"new", "lock", "read", "write", "unlock", "done",
                                     "sleep", "set", "signal", "check", "waiting",
                                     "relock", "run"}]
            /\ \A w \in Threads \ {Second} : tpc'[w] = tpc[w]
            /\ tpc'[Second] \in {"waiting", "unlock"}
        BY <1>11, <2>2 DEF SecondCheck, IInv, TypeOK
      <4>. QED
        BY <1>11, <2>2, <4>1 DEF SecondCheck, cjVars, IInv, TypeOK
    <3>3. MutualExclusion'
      BY <1>11, <2>2 DEF SecondCheck, IInv, TypeOK, MutualExclusion, InCS
    <3>4. ReadIsCurrent' /\ CountInv'
      BY <1>11, <2>2, <3>1 DEF SecondCheck, cjVars, IInv, TypeOK, ReadIsCurrent, CountInv
    <3>5. MutexPhases'
      <4>1. /\ tpc' = [tpc EXCEPT ![Second] = "unlock"]
            /\ i' = i
        BY <1>11, <2>2 DEF SecondCheck
      <4>2. \A w \in Workers : tpc'[w] = tpc[w]
        BY <4>1 DEF IInv, TypeOK
      <4>. QED
        BY <1>11, <2>2, <4>1, <4>2 DEF SecondCheck, IInv, MutexPhases, BeforeMutex
    <3>6. (ResultsKnown /\ JoinedResultPrinted /\ SecondSeesA)'
      BY <1>11, <2>2 DEF SecondCheck, cjVars, IInv, TypeOK, ResultsKnown, JoinedResultPrinted, SecondSeesA
    <3>. QED
      BY <3>2, <3>3, <3>4, <3>5, <3>6 DEF IInv
  <2>. QED
    BY <1>11, <2>1, <2>2 DEF SecondCheck
<1>12. ASSUME SecondRelock
       PROVE  IInv'
  <3>1. WrittenBy(tpc') = WrittenBy(tpc)
    BY <1>12 DEF SecondRelock, IInv, TypeOK, MutexPhases, BeforeMutex, WrittenBy
  <3>2. TypeOK'
    BY <1>12 DEF SecondRelock, cjVars, IInv, TypeOK
  <3>3. MutualExclusion'
    BY <1>12 DEF SecondRelock, IInv, TypeOK, MutualExclusion, InCS
  <3>4. ReadIsCurrent' /\ CountInv'
    BY <1>12, <3>1 DEF SecondRelock, cjVars, IInv, TypeOK, ReadIsCurrent, CountInv
  <3>5. MutexPhases'
    BY <1>12 DEF SecondRelock, IInv, TypeOK, MutexPhases, BeforeMutex
  <3>6. (ResultsKnown /\ JoinedResultPrinted /\ SecondSeesA)'
    BY <1>12 DEF SecondRelock, cjVars, IInv, TypeOK, ResultsKnown, JoinedResultPrinted, SecondSeesA
  <3>. QED
    BY <3>2, <3>3, <3>4, <3>5, <3>6 DEF IInv
<1>13. ASSUME SecondUnlock
       PROVE  IInv'
  <3>1. WrittenBy(tpc') = WrittenBy(tpc)
    BY <1>13 DEF SecondUnlock, IInv, TypeOK, MutexPhases, BeforeMutex, WrittenBy
  <3>2. TypeOK'
    BY <1>13 DEF SecondUnlock, cjVars, IInv, TypeOK
  <3>3. MutualExclusion'
    BY <1>13 DEF SecondUnlock, IInv, TypeOK, MutualExclusion, InCS
  <3>4. ReadIsCurrent' /\ CountInv'
    BY <1>13, <3>1 DEF SecondUnlock, cjVars, IInv, TypeOK, ReadIsCurrent, CountInv
  <3>5. MutexPhases'
    BY <1>13 DEF SecondUnlock, IInv, TypeOK, MutexPhases, BeforeMutex
  <3>6. (ResultsKnown /\ JoinedResultPrinted /\ SecondSeesA)'
    BY <1>13 DEF SecondUnlock, cjVars, IInv, TypeOK, ResultsKnown, JoinedResultPrinted, SecondSeesA
  <3>. QED
    BY <3>2, <3>3, <3>4, <3>5, <3>6 DEF IInv
<1>14. ASSUME SecondSpurious
       PROVE  IInv'
  <3>1. WrittenBy(tpc') = WrittenBy(tpc)
    BY <1>14 DEF SecondSpurious, IInv, TypeOK, MutexPhases, BeforeMutex, WrittenBy
  <3>2. TypeOK'
    BY <1>14 DEF SecondSpurious, cjVars, IInv, TypeOK
  <3>3. MutualExclusion'
    BY <1>14 DEF SecondSpurious, IInv, TypeOK, MutualExclusion, InCS
  <3>4. ReadIsCurrent' /\ CountInv'
    BY <1>14, <3>1 DEF SecondSpurious, cjVars, IInv, TypeOK, ReadIsCurrent, CountInv
  <3>5. MutexPhases'
    BY <1>14 DEF SecondSpurious, IInv, TypeOK, MutexPhases, BeforeMutex
  <3>6. (ResultsKnown /\ JoinedResultPrinted /\ SecondSeesA)'
    BY <1>14 DEF SecondSpurious, cjVars, IInv, TypeOK, ResultsKnown, JoinedResultPrinted, SecondSeesA
  <3>. QED
    BY <3>2, <3>3, <3>4, <3>5, <3>6 DEF IInv
<1>15. ASSUME Func2
       PROVE  IInv'
  <3>1. WrittenBy(tpc') = WrittenBy(tpc)
    BY <1>15 DEF Func2, IInv, TypeOK, MutexPhases, BeforeMutex, WrittenBy
  <3>2. TypeOK'
    BY <1>15 DEF Func2, cjVars, IInv, TypeOK
  <3>3. MutualExclusion'
    BY <1>15 DEF Func2, IInv, TypeOK, MutualExclusion, InCS
  <3>4. ReadIsCurrent' /\ CountInv'
    BY <1>15, <3>1 DEF Func2, cjVars, IInv, TypeOK, ReadIsCurrent, CountInv
  <3>5. MutexPhases'
    BY <1>15 DEF Func2, IInv, TypeOK, MutexPhases, BeforeMutex
  <3>6. (ResultsKnown /\ JoinedResultPrinted /\ SecondSeesA)'
    BY <1>15 DEF Func2, cjVars, IInv, TypeOK, ResultsKnown, JoinedResultPrinted, SecondSeesA
  <3>. QED
    BY <3>2, <3>3, <3>4, <3>5, <3>6 DEF IInv
<1>16. ASSUME NEW t \in {CjT1, CjT2}, Func1(t)
       PROVE  IInv'
  <3>1. WrittenBy(tpc') = WrittenBy(tpc)
    BY <1>16 DEF Func1, IInv, TypeOK, MutexPhases, BeforeMutex, WrittenBy
  <3>2. TypeOK'
    BY <1>16 DEF Func1, cjVars, IInv, TypeOK
  <3>3. MutualExclusion'
    BY <1>16 DEF Func1, IInv, TypeOK, MutualExclusion, InCS
  <3>4. ReadIsCurrent' /\ CountInv'
    BY <1>16, <3>1 DEF Func1, cjVars, IInv, TypeOK, ReadIsCurrent, CountInv
  <3>5. MutexPhases'
    BY <1>16 DEF Func1, IInv, TypeOK, MutexPhases, BeforeMutex
  <3>6. (ResultsKnown /\ JoinedResultPrinted /\ SecondSeesA)'
    BY <1>16 DEF Func1, cjVars, IInv, TypeOK, ResultsKnown, JoinedResultPrinted, SecondSeesA
  <3>. QED
    BY <3>2, <3>3, <3>4, <3>5, <3>6 DEF IInv
<1>17. ASSUME TestCreate(CjT1, "cj_create1", "cj_join1", "ce_create")
       PROVE  IInv'
  <2>1. CASE mpc' = "cj_join1"
    <3>0. mxLive' \in BOOLEAN /\ failed' \in BOOLEAN
      BY <1>17, <2>1, Zenon DEF TestCreate, IInv, TypeOK
    <3>1. WrittenBy(tpc') = WrittenBy(tpc)
      BY <1>17, <2>1 DEF TestCreate, IInv, TypeOK, MutexPhases, BeforeMutex, WrittenBy
    <3>2. TypeOK'
      <4>1. /\ tpc' \in [Threads -> {"new", "lock", "read", "write", "unlock", "done",
                                     "sleep", "set", "signal", "check", "waiting",
                                     "relock", "run"}]
            /\ \A w \in Threads \ CreateThreads : tpc'[w] = tpc[w]
            /\ \A w \in CreateThreads : tpc'[w] \in {"new", "run", "done"}
        BY <1>17, <2>1, <3>0 DEF TestCreate, IInv, TypeOK
      <4>. QED
        BY <1>17, <2>1, <3>0, <4>1 DEF TestCreate, cjVars, IInv, TypeOK
    <3>3. MutualExclusion'
      BY <1>17, <2>1 DEF TestCreate, IInv, TypeOK, MutualExclusion, InCS
    <3>4. ReadIsCurrent' /\ CountInv'
      BY <1>17, <2>1, <3>1 DEF TestCreate, cjVars, IInv, TypeOK, ReadIsCurrent, CountInv
    <3>5. MutexPhases'
      <4>1. /\ \A w \in Workers : tpc'[w] = tpc[w]
            /\ i' = i
        BY <1>17, <2>1 DEF TestCreate, IInv, TypeOK
      <4>. QED
        BY <1>17, <2>1, <4>1 DEF TestCreate, IInv, MutexPhases, BeforeMutex
    <3>6. (ResultsKnown /\ JoinedResultPrinted /\ SecondSeesA)'
      BY <1>17, <2>1 DEF TestCreate, cjVars, IInv, TypeOK, ResultsKnown, JoinedResultPrinted, SecondSeesA
    <3>. QED
      BY <3>2, <3>3, <3>4, <3>5, <3>6 DEF IInv
  <2>2. CASE mpc' = "ce_create"
    <3>0. mxLive' \in BOOLEAN /\ failed' \in BOOLEAN
      BY <1>17, <2>2, Zenon DEF TestCreate, IInv, TypeOK
    <3>1. WrittenBy(tpc') = WrittenBy(tpc)
      BY <1>17, <2>2 DEF TestCreate, IInv, TypeOK, MutexPhases, BeforeMutex, WrittenBy
    <3>2. TypeOK'
      <4>1. /\ tpc' \in [Threads -> {"new", "lock", "read", "write", "unlock", "done",
                                     "sleep", "set", "signal", "check", "waiting",
                                     "relock", "run"}]
            /\ \A w \in Threads \ CreateThreads : tpc'[w] = tpc[w]
            /\ \A w \in CreateThreads : tpc'[w] \in {"new", "run", "done"}
        BY <1>17, <2>2, <3>0 DEF TestCreate, IInv, TypeOK
      <4>. QED
        BY <1>17, <2>2, <3>0, <4>1 DEF TestCreate, cjVars, IInv, TypeOK
    <3>3. MutualExclusion'
      BY <1>17, <2>2 DEF TestCreate, IInv, TypeOK, MutualExclusion, InCS
    <3>4. ReadIsCurrent' /\ CountInv'
      BY <1>17, <2>2, <3>1 DEF TestCreate, cjVars, IInv, TypeOK, ReadIsCurrent, CountInv
    <3>5. MutexPhases'
      <4>1. /\ \A w \in Workers : tpc'[w] = tpc[w]
            /\ i' = i
        BY <1>17, <2>2 DEF TestCreate, IInv, TypeOK
      <4>. QED
        BY <1>17, <2>2, <4>1 DEF TestCreate, IInv, MutexPhases, BeforeMutex
    <3>6. (ResultsKnown /\ JoinedResultPrinted /\ SecondSeesA)'
      BY <1>17, <2>2 DEF TestCreate, cjVars, IInv, TypeOK, ResultsKnown, JoinedResultPrinted, SecondSeesA
    <3>. QED
      BY <3>2, <3>3, <3>4, <3>5, <3>6 DEF IInv
  <2>. QED
    BY <1>17, <2>1, <2>2 DEF TestCreate
<1>18. ASSUME TestCreate(CjT2, "cj_create2", "cj_join2", "ce_create")
       PROVE  IInv'
  <2>1. CASE mpc' = "cj_join2"
    <3>0. mxLive' \in BOOLEAN /\ failed' \in BOOLEAN
      BY <1>18, <2>1, Zenon DEF TestCreate, IInv, TypeOK
    <3>1. WrittenBy(tpc') = WrittenBy(tpc)
      BY <1>18, <2>1 DEF TestCreate, IInv, TypeOK, MutexPhases, BeforeMutex, WrittenBy
    <3>2. TypeOK'
      <4>1. /\ tpc' \in [Threads -> {"new", "lock", "read", "write", "unlock", "done",
                                     "sleep", "set", "signal", "check", "waiting",
                                     "relock", "run"}]
            /\ \A w \in Threads \ CreateThreads : tpc'[w] = tpc[w]
            /\ \A w \in CreateThreads : tpc'[w] \in {"new", "run", "done"}
        BY <1>18, <2>1, <3>0 DEF TestCreate, IInv, TypeOK
      <4>. QED
        BY <1>18, <2>1, <3>0, <4>1 DEF TestCreate, cjVars, IInv, TypeOK
    <3>3. MutualExclusion'
      BY <1>18, <2>1 DEF TestCreate, IInv, TypeOK, MutualExclusion, InCS
    <3>4. ReadIsCurrent' /\ CountInv'
      BY <1>18, <2>1, <3>1 DEF TestCreate, cjVars, IInv, TypeOK, ReadIsCurrent, CountInv
    <3>5. MutexPhases'
      <4>1. /\ \A w \in Workers : tpc'[w] = tpc[w]
            /\ i' = i
        BY <1>18, <2>1 DEF TestCreate, IInv, TypeOK
      <4>. QED
        BY <1>18, <2>1, <4>1 DEF TestCreate, IInv, MutexPhases, BeforeMutex
    <3>6. (ResultsKnown /\ JoinedResultPrinted /\ SecondSeesA)'
      BY <1>18, <2>1 DEF TestCreate, cjVars, IInv, TypeOK, ResultsKnown, JoinedResultPrinted, SecondSeesA
    <3>. QED
      BY <3>2, <3>3, <3>4, <3>5, <3>6 DEF IInv
  <2>2. CASE mpc' = "ce_create"
    <3>0. mxLive' \in BOOLEAN /\ failed' \in BOOLEAN
      BY <1>18, <2>2, Zenon DEF TestCreate, IInv, TypeOK
    <3>1. WrittenBy(tpc') = WrittenBy(tpc)
      BY <1>18, <2>2 DEF TestCreate, IInv, TypeOK, MutexPhases, BeforeMutex, WrittenBy
    <3>2. TypeOK'
      <4>1. /\ tpc' \in [Threads -> {"new", "lock", "read", "write", "unlock", "done",
                                     "sleep", "set", "signal", "check", "waiting",
                                     "relock", "run"}]
            /\ \A w \in Threads \ CreateThreads : tpc'[w] = tpc[w]
            /\ \A w \in CreateThreads : tpc'[w] \in {"new", "run", "done"}
        BY <1>18, <2>2, <3>0 DEF TestCreate, IInv, TypeOK
      <4>. QED
        BY <1>18, <2>2, <3>0, <4>1 DEF TestCreate, cjVars, IInv, TypeOK
    <3>3. MutualExclusion'
      BY <1>18, <2>2 DEF TestCreate, IInv, TypeOK, MutualExclusion, InCS
    <3>4. ReadIsCurrent' /\ CountInv'
      BY <1>18, <2>2, <3>1 DEF TestCreate, cjVars, IInv, TypeOK, ReadIsCurrent, CountInv
    <3>5. MutexPhases'
      <4>1. /\ \A w \in Workers : tpc'[w] = tpc[w]
            /\ i' = i
        BY <1>18, <2>2 DEF TestCreate, IInv, TypeOK
      <4>. QED
        BY <1>18, <2>2, <4>1 DEF TestCreate, IInv, MutexPhases, BeforeMutex
    <3>6. (ResultsKnown /\ JoinedResultPrinted /\ SecondSeesA)'
      BY <1>18, <2>2 DEF TestCreate, cjVars, IInv, TypeOK, ResultsKnown, JoinedResultPrinted, SecondSeesA
    <3>. QED
      BY <3>2, <3>3, <3>4, <3>5, <3>6 DEF IInv
  <2>. QED
    BY <1>18, <2>1, <2>2 DEF TestCreate
<1>19. ASSUME TestCreate(CeT1, "ce_create", "ce_join", "mx_create")
       PROVE  IInv'
  <2>1. CASE mpc' = "ce_join"
    <3>0. mxLive' \in BOOLEAN /\ failed' \in BOOLEAN
      BY <1>19, <2>1, Zenon DEF TestCreate, IInv, TypeOK
    <3>1. WrittenBy(tpc') = WrittenBy(tpc)
      BY <1>19, <2>1 DEF TestCreate, IInv, TypeOK, MutexPhases, BeforeMutex, WrittenBy
    <3>2. TypeOK'
      <4>1. /\ tpc' \in [Threads -> {"new", "lock", "read", "write", "unlock", "done",
                                     "sleep", "set", "signal", "check", "waiting",
                                     "relock", "run"}]
            /\ \A w \in Threads \ CreateThreads : tpc'[w] = tpc[w]
            /\ \A w \in CreateThreads : tpc'[w] \in {"new", "run", "done"}
        BY <1>19, <2>1, <3>0 DEF TestCreate, IInv, TypeOK
      <4>. QED
        BY <1>19, <2>1, <3>0, <4>1 DEF TestCreate, cjVars, IInv, TypeOK
    <3>3. MutualExclusion'
      BY <1>19, <2>1 DEF TestCreate, IInv, TypeOK, MutualExclusion, InCS
    <3>4. ReadIsCurrent' /\ CountInv'
      BY <1>19, <2>1, <3>1 DEF TestCreate, cjVars, IInv, TypeOK, ReadIsCurrent, CountInv
    <3>5. MutexPhases'
      <4>1. /\ \A w \in Workers : tpc'[w] = tpc[w]
            /\ i' = i
        BY <1>19, <2>1 DEF TestCreate, IInv, TypeOK
      <4>. QED
        BY <1>19, <2>1, <4>1 DEF TestCreate, IInv, MutexPhases, BeforeMutex
    <3>6. (ResultsKnown /\ JoinedResultPrinted /\ SecondSeesA)'
      BY <1>19, <2>1 DEF TestCreate, cjVars, IInv, TypeOK, ResultsKnown, JoinedResultPrinted, SecondSeesA
    <3>. QED
      BY <3>2, <3>3, <3>4, <3>5, <3>6 DEF IInv
  <2>2. CASE mpc' = "mx_create"
    <3>0. mxLive' \in BOOLEAN /\ failed' \in BOOLEAN
      BY <1>19, <2>2, Zenon DEF TestCreate, IInv, TypeOK
    <3>1. WrittenBy(tpc') = WrittenBy(tpc)
      BY <1>19, <2>2 DEF TestCreate, IInv, TypeOK, MutexPhases, BeforeMutex, WrittenBy
    <3>2. TypeOK'
      <4>1. /\ tpc' \in [Threads -> {"new", "lock", "read", "write", "unlock", "done",
                                     "sleep", "set", "signal", "check", "waiting",
                                     "relock", "run"}]
            /\ \A w \in Threads \ CreateThreads : tpc'[w] = tpc[w]
            /\ \A w \in CreateThreads : tpc'[w] \in {"new", "run", "done"}
        BY <1>19, <2>2, <3>0 DEF TestCreate, IInv, TypeOK
      <4>. QED
        BY <1>19, <2>2, <3>0, <4>1 DEF TestCreate, cjVars, IInv, TypeOK
    <3>3. MutualExclusion'
      BY <1>19, <2>2 DEF TestCreate, IInv, TypeOK, MutualExclusion, InCS
    <3>4. ReadIsCurrent' /\ CountInv'
      BY <1>19, <2>2, <3>1 DEF TestCreate, cjVars, IInv, TypeOK, ReadIsCurrent, CountInv
    <3>5. MutexPhases'
      <4>1. /\ \A w \in Workers : tpc'[w] = tpc[w]
            /\ i' = i
        BY <1>19, <2>2 DEF TestCreate, IInv, TypeOK
      <4>. QED
        BY <1>19, <2>2, <4>1 DEF TestCreate, IInv, MutexPhases, BeforeMutex
    <3>6. (ResultsKnown /\ JoinedResultPrinted /\ SecondSeesA)'
      BY <1>19, <2>2 DEF TestCreate, cjVars, IInv, TypeOK, ResultsKnown, JoinedResultPrinted, SecondSeesA
    <3>. QED
      BY <3>2, <3>3, <3>4, <3>5, <3>6 DEF IInv
  <2>. QED
    BY <1>19, <2>1, <2>2 DEF TestCreate
<1>20. ASSUME TestJoin(CjT1, "cj_join1", "cj_create2", FALSE)
       PROVE  IInv'
  <3>1. WrittenBy(tpc') = WrittenBy(tpc)
    BY <1>20 DEF TestJoin, IInv, TypeOK, MutexPhases, BeforeMutex, WrittenBy
  <3>2. TypeOK'
    BY <1>20 DEF TestJoin, cjVars, IInv, TypeOK
  <3>3. MutualExclusion'
    BY <1>20 DEF TestJoin, IInv, TypeOK, MutualExclusion, InCS
  <3>4. ReadIsCurrent' /\ CountInv'
    BY <1>20, <3>1 DEF TestJoin, cjVars, IInv, TypeOK, ReadIsCurrent, CountInv
  <3>5. MutexPhases'
    BY <1>20 DEF TestJoin, IInv, TypeOK, MutexPhases, BeforeMutex
  <3>6. (ResultsKnown /\ JoinedResultPrinted /\ SecondSeesA)'
    BY <1>20 DEF TestJoin, cjVars, IInv, TypeOK, ResultsKnown, JoinedResultPrinted, SecondSeesA
  <3>. QED
    BY <3>2, <3>3, <3>4, <3>5, <3>6 DEF IInv
<1>21. ASSUME TestJoin(CjT2, "cj_join2", "cj_print", TRUE)
       PROVE  IInv'
  <3>1. WrittenBy(tpc') = WrittenBy(tpc)
    BY <1>21 DEF TestJoin, IInv, TypeOK, MutexPhases, BeforeMutex, WrittenBy
  <3>2. TypeOK'
    BY <1>21 DEF TestJoin, cjVars, IInv, TypeOK
  <3>3. MutualExclusion'
    BY <1>21 DEF TestJoin, IInv, TypeOK, MutualExclusion, InCS
  <3>4. ReadIsCurrent' /\ CountInv'
    BY <1>21, <3>1 DEF TestJoin, cjVars, IInv, TypeOK, ReadIsCurrent, CountInv
  <3>5. MutexPhases'
    BY <1>21 DEF TestJoin, IInv, TypeOK, MutexPhases, BeforeMutex
  <3>6. (ResultsKnown /\ JoinedResultPrinted /\ SecondSeesA)'
    BY <1>21 DEF TestJoin, cjVars, IInv, TypeOK, ResultsKnown, JoinedResultPrinted, SecondSeesA
  <3>. QED
    BY <3>2, <3>3, <3>4, <3>5, <3>6 DEF IInv
<1>22. ASSUME TestJoin(CeT1, "ce_join", "ce_print", TRUE)
       PROVE  IInv'
  <3>1. WrittenBy(tpc') = WrittenBy(tpc)
    BY <1>22 DEF TestJoin, IInv, TypeOK, MutexPhases, BeforeMutex, WrittenBy
  <3>2. TypeOK'
    BY <1>22 DEF TestJoin, cjVars, IInv, TypeOK
  <3>3. MutualExclusion'
    BY <1>22 DEF TestJoin, IInv, TypeOK, MutualExclusion, InCS
  <3>4. ReadIsCurrent' /\ CountInv'
    BY <1>22, <3>1 DEF TestJoin, cjVars, IInv, TypeOK, ReadIsCurrent, CountInv
  <3>5. MutexPhases'
    BY <1>22 DEF TestJoin, IInv, TypeOK, MutexPhases, BeforeMutex
  <3>6. (ResultsKnown /\ JoinedResultPrinted /\ SecondSeesA)'
    BY <1>22 DEF TestJoin, cjVars, IInv, TypeOK, ResultsKnown, JoinedResultPrinted, SecondSeesA
  <3>. QED
    BY <3>2, <3>3, <3>4, <3>5, <3>6 DEF IInv
<1>23. ASSUME TestPrint("cj", "cj_print", "ce_create")
       PROVE  IInv'
  <3>1. WrittenBy(tpc') = WrittenBy(tpc)
    BY <1>23 DEF TestPrint, IInv, TypeOK, MutexPhases, BeforeMutex, WrittenBy
  <3>2. TypeOK'
    BY <1>23 DEF TestPrint, cjVars, IInv, TypeOK
  <3>3. MutualExclusion'
    BY <1>23 DEF TestPrint, IInv, TypeOK, MutualExclusion, InCS
  <3>4. ReadIsCurrent' /\ CountInv'
    BY <1>23, <3>1 DEF TestPrint, cjVars, IInv, TypeOK, ReadIsCurrent, CountInv
  <3>5. MutexPhases'
    BY <1>23 DEF TestPrint, IInv, TypeOK, MutexPhases, BeforeMutex
  <3>6. (ResultsKnown /\ JoinedResultPrinted /\ SecondSeesA)'
    BY <1>23 DEF TestPrint, cjVars, IInv, TypeOK, ResultsKnown, JoinedResultPrinted, SecondSeesA
  <3>. QED
    BY <3>2, <3>3, <3>4, <3>5, <3>6 DEF IInv
<1>24. ASSUME TestPrint("ce", "ce_print", "mx_create")
       PROVE  IInv'
  <3>1. WrittenBy(tpc') = WrittenBy(tpc)
    BY <1>24 DEF TestPrint, IInv, TypeOK, MutexPhases, BeforeMutex, WrittenBy
  <3>2. TypeOK'
    BY <1>24 DEF TestPrint, cjVars, IInv, TypeOK
  <3>3. MutualExclusion'
    BY <1>24 DEF TestPrint, IInv, TypeOK, MutualExclusion, InCS
  <3>4. ReadIsCurrent' /\ CountInv'
    BY <1>24, <3>1 DEF TestPrint, cjVars, IInv, TypeOK, ReadIsCurrent, CountInv
  <3>5. MutexPhases'
    BY <1>24 DEF TestPrint, IInv, TypeOK, MutexPhases, BeforeMutex
  <3>6. (ResultsKnown /\ JoinedResultPrinted /\ SecondSeesA)'
    BY <1>24 DEF TestPrint, cjVars, IInv, TypeOK, ResultsKnown, JoinedResultPrinted, SecondSeesA
  <3>. QED
    BY <3>2, <3>3, <3>4, <3>5, <3>6 DEF IInv
<1>25. ASSUME MxCreate
       PROVE  IInv'
  <3>1. WrittenBy(tpc') = WrittenBy(tpc)
    BY <1>25 DEF MxCreate, IInv, TypeOK, MutexPhases, BeforeMutex, WrittenBy
  <3>2. TypeOK'
    BY <1>25 DEF MxCreate, cjVars, IInv, TypeOK
  <3>3. MutualExclusion'
    BY <1>25 DEF MxCreate, IInv, TypeOK, MutualExclusion, InCS
  <3>4. ReadIsCurrent' /\ CountInv'
    BY <1>25, <3>1 DEF MxCreate, cjVars, IInv, TypeOK, ReadIsCurrent, CountInv
  <3>5. MutexPhases'
    BY <1>25 DEF MxCreate, IInv, TypeOK, MutexPhases, BeforeMutex
  <3>6. (ResultsKnown /\ JoinedResultPrinted /\ SecondSeesA)'
    BY <1>25 DEF MxCreate, cjVars, IInv, TypeOK, ResultsKnown, JoinedResultPrinted, SecondSeesA
  <3>. QED
    BY <3>2, <3>3, <3>4, <3>5, <3>6 DEF IInv
<1>26. ASSUME MxCreateFail
       PROVE  IInv'
  <3>0. mxLive' \in BOOLEAN /\ failed' \in BOOLEAN
    BY <1>26, Zenon DEF MxCreateFail, IInv, TypeOK
  <3>1. WrittenBy(tpc') = WrittenBy(tpc)
    BY <1>26 DEF MxCreateFail, IInv, TypeOK, MutexPhases, BeforeMutex, WrittenBy
  <3>2. TypeOK'
    BY <1>26, <3>0 DEF MxCreateFail, cjVars, IInv, TypeOK
  <3>3. MutualExclusion'
    BY <1>26 DEF MxCreateFail, IInv, TypeOK, MutualExclusion, InCS
  <3>4. ReadIsCurrent' /\ CountInv'
    BY <1>26, <3>1 DEF MxCreateFail, cjVars, IInv, TypeOK, ReadIsCurrent, CountInv
  <3>5. MutexPhases'
    BY <1>26 DEF MxCreateFail, IInv, TypeOK, MutexPhases, BeforeMutex
  <3>6. (ResultsKnown /\ JoinedResultPrinted /\ SecondSeesA)'
    BY <1>26 DEF MxCreateFail, cjVars, IInv, TypeOK, ResultsKnown, JoinedResultPrinted, SecondSeesA
  <3>. QED
    BY <3>2, <3>3, <3>4, <3>5, <3>6 DEF IInv
<1>27. ASSUME MxCreateEnd
       PROVE  IInv'
  <3>1. WrittenBy(tpc') = WrittenBy(tpc)
    BY <1>27 DEF MxCreateEnd, IInv, TypeOK, MutexPhases, BeforeMutex, WrittenBy
  <3>2. TypeOK'
    BY <1>27 DEF MxCreateEnd, cjVars, IInv, TypeOK
  <3>3. MutualExclusion'
    BY <1>27 DEF MxCreateEnd, IInv, TypeOK, MutualExclusion, InCS
  <3>4. ReadIsCurrent' /\ CountInv'
    BY <1>27, <3>1 DEF MxCreateEnd, cjVars, IInv, TypeOK, ReadIsCurrent, CountInv
  <3>5. MutexPhases'
    BY <1>27 DEF MxCreateEnd, IInv, TypeOK, MutexPhases, BeforeMutex
  <3>6. (ResultsKnown /\ JoinedResultPrinted /\ SecondSeesA)'
    BY <1>27 DEF MxCreateEnd, cjVars, IInv, TypeOK, ResultsKnown, JoinedResultPrinted, SecondSeesA
  <3>. QED
    BY <3>2, <3>3, <3>4, <3>5, <3>6 DEF IInv
<1>28. ASSUME MxJoin
       PROVE  IInv'
  <3>1. WrittenBy(tpc') = WrittenBy(tpc)
    BY <1>28 DEF MxJoin, IInv, TypeOK, MutexPhases, BeforeMutex, WrittenBy
  <3>2. TypeOK'
    BY <1>28 DEF MxJoin, cjVars, IInv, TypeOK
  <3>3. MutualExclusion'
    BY <1>28 DEF MxJoin, IInv, TypeOK, MutualExclusion, InCS
  <3>4. ReadIsCurrent' /\ CountInv'
    BY <1>28, <3>1 DEF MxJoin, cjVars, IInv, TypeOK, ReadIsCurrent, CountInv
  <3>5. MutexPhases'
    BY <1>28 DEF MxJoin, IInv, TypeOK, MutexPhases, BeforeMutex
  <3>6. (ResultsKnown /\ JoinedResultPrinted /\ SecondSeesA)'
    BY <1>28 DEF MxJoin, cjVars, IInv, TypeOK, ResultsKnown, JoinedResultPrinted, SecondSeesA
  <3>. QED
    BY <3>2, <3>3, <3>4, <3>5, <3>6 DEF IInv
<1>29. ASSUME MxAssert
       PROVE  IInv'
  <3>0. mxLive' \in BOOLEAN /\ failed' \in BOOLEAN
    BY <1>29, Zenon DEF MxAssert, IInv, TypeOK
  <3>1. WrittenBy(tpc') = WrittenBy(tpc)
    BY <1>29 DEF MxAssert, IInv, TypeOK, MutexPhases, BeforeMutex, WrittenBy
  <3>2. TypeOK'
    BY <1>29, <3>0 DEF MxAssert, cjVars, IInv, TypeOK
  <3>3. MutualExclusion'
    BY <1>29 DEF MxAssert, IInv, TypeOK, MutualExclusion, InCS
  <3>4. ReadIsCurrent' /\ CountInv'
    BY <1>29, <3>1 DEF MxAssert, cjVars, IInv, TypeOK, ReadIsCurrent, CountInv
  <3>5. MutexPhases'
    BY <1>29 DEF MxAssert, IInv, TypeOK, MutexPhases, BeforeMutex
  <3>6. (ResultsKnown /\ JoinedResultPrinted /\ SecondSeesA)'
    BY <1>29 DEF MxAssert, cjVars, IInv, TypeOK, ResultsKnown, JoinedResultPrinted, SecondSeesA
  <3>. QED
    BY <3>2, <3>3, <3>4, <3>5, <3>6 DEF IInv
<1>30. ASSUME CvInit
       PROVE  IInv'
  <3>1. WrittenBy(tpc') = WrittenBy(tpc)
    BY <1>30 DEF CvInit, IInv, TypeOK, MutexPhases, BeforeMutex, WrittenBy
  <3>2. TypeOK'
    BY <1>30 DEF CvInit, cjVars, IInv, TypeOK
  <3>3. MutualExclusion'
    BY <1>30 DEF CvInit, IInv, TypeOK, MutualExclusion, InCS
  <3>4. ReadIsCurrent' /\ CountInv'
    BY <1>30, <3>1 DEF CvInit, cjVars, IInv, TypeOK, ReadIsCurrent, CountInv
  <3>5. MutexPhases'
    BY <1>30 DEF CvInit, IInv, TypeOK, MutexPhases, BeforeMutex
  <3>6. (ResultsKnown /\ JoinedResultPrinted /\ SecondSeesA)'
    BY <1>30 DEF CvInit, cjVars, IInv, TypeOK, ResultsKnown, JoinedResultPrinted, SecondSeesA
  <3>. QED
    BY <3>2, <3>3, <3>4, <3>5, <3>6 DEF IInv
<1>31. ASSUME CvCreate(First, "cv_create1", "cv_create2", "sleep")
       PROVE  IInv'
  <2>1. CASE tpc' = [tpc EXCEPT ![First] = "sleep"]
    <3>0. mxLive' \in BOOLEAN /\ failed' \in BOOLEAN
      BY <1>31, <2>1, Zenon DEF CvCreate, IInv, TypeOK
    <3>1. WrittenBy(tpc') = WrittenBy(tpc)
      BY <1>31, <2>1 DEF CvCreate, IInv, TypeOK, MutexPhases, BeforeMutex, WrittenBy
    <3>2. TypeOK'
      BY <1>31, <2>1, <3>0 DEF CvCreate, cjVars, IInv, TypeOK
    <3>3. MutualExclusion'
      BY <1>31, <2>1 DEF CvCreate, IInv, TypeOK, MutualExclusion, InCS
    <3>4. ReadIsCurrent' /\ CountInv'
      BY <1>31, <2>1, <3>1 DEF CvCreate, cjVars, IInv, TypeOK, ReadIsCurrent, CountInv
    <3>5. MutexPhases'
      BY <1>31, <2>1 DEF CvCreate, IInv, TypeOK, MutexPhases, BeforeMutex
    <3>6. (ResultsKnown /\ JoinedResultPrinted /\ SecondSeesA)'
      BY <1>31, <2>1 DEF CvCreate, cjVars, IInv, TypeOK, ResultsKnown, JoinedResultPrinted, SecondSeesA
    <3>. QED
      BY <3>2, <3>3, <3>4, <3>5, <3>6 DEF IInv
  <2>2. CASE tpc' = tpc
    <3>0. mxLive' \in BOOLEAN /\ failed' \in BOOLEAN
      BY <1>31, <2>2, Zenon DEF CvCreate, IInv, TypeOK
    <3>1. WrittenBy(tpc') = WrittenBy(tpc)
      BY <1>31, <2>2 DEF CvCreate, IInv, TypeOK, MutexPhases, BeforeMutex, WrittenBy
    <3>2. TypeOK'
      BY <1>31, <2>2, <3>0 DEF CvCreate, cjVars, IInv, TypeOK
    <3>3. MutualExclusion'
      BY <1>31, <2>2 DEF CvCreate, IInv, TypeOK, MutualExclusion, InCS
    <3>4. ReadIsCurrent' /\ CountInv'
      BY <1>31, <2>2, <3>1 DEF CvCreate, cjVars, IInv, TypeOK, ReadIsCurrent, CountInv
    <3>5. MutexPhases'
      BY <1>31, <2>2 DEF CvCreate, IInv, TypeOK, MutexPhases, BeforeMutex
    <3>6. (ResultsKnown /\ JoinedResultPrinted /\ SecondSeesA)'
      BY <1>31, <2>2 DEF CvCreate, cjVars, IInv, TypeOK, ResultsKnown, JoinedResultPrinted, SecondSeesA
    <3>. QED
      BY <3>2, <3>3, <3>4, <3>5, <3>6 DEF IInv
  <2>. QED
    BY <1>31, <2>1, <2>2 DEF CvCreate
<1>32. ASSUME CvCreate(Second, "cv_create2", "cv_join1", "lock")
       PROVE  IInv'
  <2>1. CASE tpc' = [tpc EXCEPT ![Second] = "lock"]
    <3>0. mxLive' \in BOOLEAN /\ failed' \in BOOLEAN
      BY <1>32, <2>1, Zenon DEF CvCreate, IInv, TypeOK
    <3>1. WrittenBy(tpc') = WrittenBy(tpc)
      BY <1>32, <2>1 DEF CvCreate, IInv, TypeOK, MutexPhases, BeforeMutex, WrittenBy
    <3>2. TypeOK'
      BY <1>32, <2>1, <3>0 DEF CvCreate, cjVars, IInv, TypeOK
    <3>3. MutualExclusion'
      BY <1>32, <2>1 DEF CvCreate, IInv, TypeOK, MutualExclusion, InCS
    <3>4. ReadIsCurrent' /\ CountInv'
      BY <1>32, <2>1, <3>1 DEF CvCreate, cjVars, IInv, TypeOK, ReadIsCurrent, CountInv
    <3>5. MutexPhases'
      BY <1>32, <2>1 DEF CvCreate, IInv, TypeOK, MutexPhases, BeforeMutex
    <3>6. (ResultsKnown /\ JoinedResultPrinted /\ SecondSeesA)'
      BY <1>32, <2>1 DEF CvCreate, cjVars, IInv, TypeOK, ResultsKnown, JoinedResultPrinted, SecondSeesA
    <3>. QED
      BY <3>2, <3>3, <3>4, <3>5, <3>6 DEF IInv
  <2>2. CASE tpc' = tpc
    <3>0. mxLive' \in BOOLEAN /\ failed' \in BOOLEAN
      BY <1>32, <2>2, Zenon DEF CvCreate, IInv, TypeOK
    <3>1. WrittenBy(tpc') = WrittenBy(tpc)
      BY <1>32, <2>2 DEF CvCreate, IInv, TypeOK, MutexPhases, BeforeMutex, WrittenBy
    <3>2. TypeOK'
      BY <1>32, <2>2, <3>0 DEF CvCreate, cjVars, IInv, TypeOK
    <3>3. MutualExclusion'
      BY <1>32, <2>2 DEF CvCreate, IInv, TypeOK, MutualExclusion, InCS
    <3>4. ReadIsCurrent' /\ CountInv'
      BY <1>32, <2>2, <3>1 DEF CvCreate, cjVars, IInv, TypeOK, ReadIsCurrent, CountInv
    <3>5. MutexPhases'
      BY <1>32, <2>2 DEF CvCreate, IInv, TypeOK, MutexPhases, BeforeMutex
    <3>6. (ResultsKnown /\ JoinedResultPrinted /\ SecondSeesA)'
      BY <1>32, <2>2 DEF CvCreate, cjVars, IInv, TypeOK, ResultsKnown, JoinedResultPrinted, SecondSeesA
    <3>. QED
      BY <3>2, <3>3, <3>4, <3>5, <3>6 DEF IInv
  <2>. QED
    BY <1>32, <2>1, <2>2 DEF CvCreate
<1>33. ASSUME CvJoin(First, "cv_join1", "cv_join2")
       PROVE  IInv'
  <3>1. WrittenBy(tpc') = WrittenBy(tpc)
    BY <1>33 DEF CvJoin, IInv, TypeOK, MutexPhases, BeforeMutex, WrittenBy
  <3>2. TypeOK'
    BY <1>33 DEF CvJoin, cjVars, IInv, TypeOK
  <3>3. MutualExclusion'
    BY <1>33 DEF CvJoin, IInv, TypeOK, MutualExclusion, InCS
  <3>4. ReadIsCurrent' /\ CountInv'
    BY <1>33, <3>1 DEF CvJoin, cjVars, IInv, TypeOK, ReadIsCurrent, CountInv
  <3>5. MutexPhases'
    BY <1>33 DEF CvJoin, IInv, TypeOK, MutexPhases, BeforeMutex
  <3>6. (ResultsKnown /\ JoinedResultPrinted /\ SecondSeesA)'
    BY <1>33 DEF CvJoin, cjVars, IInv, TypeOK, ResultsKnown, JoinedResultPrinted, SecondSeesA
  <3>. QED
    BY <3>2, <3>3, <3>4, <3>5, <3>6 DEF IInv
<1>34. ASSUME CvJoin(Second, "cv_join2", "done")
       PROVE  IInv'
  <3>1. WrittenBy(tpc') = WrittenBy(tpc)
    BY <1>34 DEF CvJoin, IInv, TypeOK, MutexPhases, BeforeMutex, WrittenBy
  <3>2. TypeOK'
    BY <1>34 DEF CvJoin, cjVars, IInv, TypeOK
  <3>3. MutualExclusion'
    BY <1>34 DEF CvJoin, IInv, TypeOK, MutualExclusion, InCS
  <3>4. ReadIsCurrent' /\ CountInv'
    BY <1>34, <3>1 DEF CvJoin, cjVars, IInv, TypeOK, ReadIsCurrent, CountInv
  <3>5. MutexPhases'
    BY <1>34 DEF CvJoin, IInv, TypeOK, MutexPhases, BeforeMutex
  <3>6. (ResultsKnown /\ JoinedResultPrinted /\ SecondSeesA)'
    BY <1>34 DEF CvJoin, cjVars, IInv, TypeOK, ResultsKnown, JoinedResultPrinted, SecondSeesA
  <3>. QED
    BY <3>2, <3>3, <3>4, <3>5, <3>6 DEF IInv
<1>35. ASSUME NEW t \in Workers, MxWrite(t)
       PROVE  IInv'
  <2>1. /\ t \notin WrittenBy(tpc)
        /\ WrittenBy(tpc') = WrittenBy(tpc) \cup {t}
    BY <1>35 DEF MxWrite, IInv, TypeOK, WrittenBy
  <2>2. Cardinality(WrittenBy(tpc')) = Cardinality(WrittenBy(tpc)) + 1
    BY <2>1, WrittenBounded, FS_AddElement
  <2>3. data' = Cardinality(WrittenBy(tpc'))
    BY <1>35, <2>2 DEF MxWrite, IInv, ReadIsCurrent, CountInv
  <2>4. data' \in 0 .. N
    BY <2>3, WrittenBounded
  <2>5. TypeOK'
    BY <1>35, <2>4 DEF MxWrite, cjVars, IInv, TypeOK
  <2>6. MutualExclusion' /\ ReadIsCurrent'
    BY <1>35 DEF MxWrite, IInv, TypeOK, MutualExclusion, InCS, ReadIsCurrent
  <2>7. (MutexPhases /\ ResultsKnown /\ JoinedResultPrinted /\ SecondSeesA)'
    BY <1>35 DEF MxWrite, cjVars, IInv, TypeOK, MutexPhases, BeforeMutex, ResultsKnown,
       JoinedResultPrinted, SecondSeesA
  <2>. QED
    BY <2>3, <2>5, <2>6, <2>7 DEF IInv, CountInv
<1>. QED
  BY <1>1, <1>2, <1>3, <1>4, <1>5, <1>6, <1>7, <1>8, <1>9, <1>10, <1>11, <1>12, <1>13, <1>14, <1>15, <1>16, <1>17, <1>18, <1>19, <1>20, <1>21, <1>22, <1>23, <1>24, <1>25, <1>26, <1>27, <1>28, <1>29, <1>30, <1>31, <1>32, <1>33, <1>34, <1>35
     DEF Next, MainStep, ThreadStep

-----------------------------------------------------------------------------
(* Only the write of line 47 changes the shared counter: every other     *)
(* step of main or of a thread leaves data as it was.                    *)
LEMMA DataOnlyByWrite ==
  [Next]_vars => data' = data \/ \E t \in Workers : MxWrite(t)
<1> SUFFICES ASSUME [Next]_vars, ~\E t \in Workers : MxWrite(t)
             PROVE  data' = data
  OBVIOUS
<1>1. CASE UNCHANGED vars
  BY <1>1 DEF vars
<1>2. ASSUME NEW t \in Workers, MxLock(t)
      PROVE  data' = data
  BY <1>2 DEF MxLock
<1>3. ASSUME NEW t \in Workers, MxRead(t)
      PROVE  data' = data
  BY <1>3 DEF MxRead
<1>4. ASSUME NEW t \in Workers, MxUnlock(t)
      PROVE  data' = data
  BY <1>4 DEF MxUnlock
<1>5. ASSUME FirstSleep
      PROVE  data' = data
  BY <1>5 DEF FirstSleep
<1>6. ASSUME FirstLock
      PROVE  data' = data
  BY <1>6 DEF FirstLock
<1>7. ASSUME FirstSet
      PROVE  data' = data
  BY <1>7 DEF FirstSet
<1>8. ASSUME FirstSignal
      PROVE  data' = data
  BY <1>8 DEF FirstSignal
<1>9. ASSUME FirstUnlock
      PROVE  data' = data
  BY <1>9 DEF FirstUnlock
<1>10. ASSUME SecondLock
      PROVE  data' = data
  BY <1>10 DEF SecondLock
<1>11. ASSUME SecondCheck
      PROVE  data' = data
  BY <1>11 DEF SecondCheck
<1>12. ASSUME SecondRelock
      PROVE  data' = data
  BY <1>12 DEF SecondRelock
<1>13. ASSUME SecondUnlock
      PROVE  data' = data
  BY <1>13 DEF SecondUnlock
<1>14. ASSUME SecondSpurious
      PROVE  data' = data
  BY <1>14 DEF SecondSpurious
<1>15. ASSUME Func2
      PROVE  data' = data
  BY <1>15 DEF Func2
<1>16. ASSUME NEW t \in {CjT1, CjT2}, Func1(t)
      PROVE  data' = data
  BY <1>16 DEF Func1
<1>17. ASSUME TestCreate(CjT1, "cj_create1", "cj_join1", "ce_create")
      PROVE  data' = data
  BY <1>17 DEF TestCreate
<1>18. ASSUME TestCreate(CjT2, "cj_create2", "cj_join2", "ce_create")
      PROVE  data' = data
  BY <1>18 DEF TestCreate
<1>19. ASSUME TestCreate(CeT1, "ce_create", "ce_join", "mx_create")
      PROVE  data' = data
  BY <1>19 DEF TestCreate
<1>20. ASSUME TestJoin(CjT1, "cj_join1", "cj_create2", FALSE)
      PROVE  data' = data
  BY <1>20 DEF TestJoin
<1>21. ASSUME TestJoin(CjT2, "cj_join2", "cj_print", TRUE)
      PROVE  data' = data
  BY <1>21 DEF TestJoin
<1>22. ASSUME TestJoin(CeT1, "ce_join", "ce_print", TRUE)
      PROVE  data' = data
  BY <1>22 DEF TestJoin
<1>23. ASSUME TestPrint("cj", "cj_print", "ce_create")
      PROVE  data' = data
  BY <1>23 DEF TestPrint
<1>24. ASSUME TestPrint("ce", "ce_print", "mx_create")
      PROVE  data' = data
  BY <1>24 DEF TestPrint
<1>25. ASSUME MxCreate
      PROVE  data' = data
  BY <1>25 DEF MxCreate
<1>26. ASSUME MxCreateFail
      PROVE  data' = data
  BY <1>26 DEF MxCreateFail
<1>27. ASSUME MxCreateEnd
      PROVE  data' = data
  BY <1>27 DEF MxCreateEnd
<1>28. ASSUME MxJoin
      PROVE  data' = data
  BY <1>28 DEF MxJoin
<1>29. ASSUME MxAssert
      PROVE  data' = data
  BY <1>29 DEF MxAssert
<1>30. ASSUME CvInit
      PROVE  data' = data
  BY <1>30 DEF CvInit
<1>31. ASSUME CvCreate(First, "cv_create1", "cv_create2", "sleep")
      PROVE  data' = data
  BY <1>31 DEF CvCreate
<1>32. ASSUME CvCreate(Second, "cv_create2", "cv_join1", "lock")
      PROVE  data' = data
  BY <1>32 DEF CvCreate
<1>33. ASSUME CvJoin(First, "cv_join1", "cv_join2")
      PROVE  data' = data
  BY <1>33 DEF CvJoin
<1>34. ASSUME CvJoin(Second, "cv_join2", "done")
      PROVE  data' = data
  BY <1>34 DEF CvJoin
<1>. QED
  BY <1>1, <1>2, <1>3, <1>4, <1>5, <1>6, <1>7, <1>8, <1>9, <1>10, <1>11, <1>12, <1>13, <1>14, <1>15, <1>16, <1>17, <1>18, <1>19, <1>20, <1>21, <1>22, <1>23, <1>24, <1>25, <1>26, <1>27, <1>28, <1>29, <1>30, <1>31, <1>32, <1>33, <1>34
     DEF Next, MainStep, ThreadStep

-----------------------------------------------------------------------------
(* The inductive invariant holds in every state the program reaches. *)
THEOREM Invariant == Spec => []IInv
BY InitIInv, NextIInv, PTL DEF Spec

(* Every variable of the program keeps its type, for every NUM_THREADS. *)
THEOREM TypeCorrect == Spec => []TypeOK
BY Invariant, PTL DEF IInv

(* The lock of ThreadFunc3 (lines 40-50) is mutual exclusion: a thread   *)
(* between pthread_mutex_lock and _unlock, in ThreadFunc3, first or       *)
(* second, is the one holding lock.                                       *)
THEOREM MutexHeld == Spec => []MutualExclusion
BY Invariant, PTL DEF IInv

(* No increment of data is lost: the read of line 42 and the write of    *)
(* line 47, under the mutex, leave data equal to the number of threads   *)
(* that have written it, for every NUM_THREADS and interleaving.         *)
THEOREM NoLostUpdate == Spec => []DataCountsWrites
<1>1. IInv => DataCountsWrites
  BY DEF IInv, CountInv, DataCountsWrites, WrittenBy
<1>. QED
  BY <1>1, Invariant, PTL

(* The assert of line 126, data == NUM_THREADS, holds whenever main      *)
(* reaches it: the join loop has seen every thread end.                   *)
THEOREM AssertProved == Spec => []AssertHolds
<1>1. ASSUME IInv, mpc = "mx_assert" PROVE data = N
  <2>1. WrittenBy(tpc) = 1 .. N
    BY <1>1 DEF IInv, MutexPhases, WrittenBy
  <2>2. Cardinality(1 .. N) = N
    BY FS_Interval
  <2>. QED
    BY <1>1, <2>1, <2>2 DEF IInv, CountInv
<1>2. IInv => AssertHolds
  BY <1>1 DEF AssertHolds
<1>. QED
  BY <1>2, Invariant, PTL

(* second leaves its wait loop (line 153) only once first has set A = 1, *)
(* spurious wakeups included.                                             *)
THEOREM SecondWaitsForA == Spec => []SecondSeesA
BY Invariant, PTL DEF IInv

(* The create tests print what their joined thread returned or passed    *)
(* to pthread_exit (lines 81 and 101), never an unset thread_result.      *)
THEOREM PrintsJoinedResult == Spec => []JoinedResultPrinted
BY Invariant, PTL DEF IInv

(* The counter of test_mutex changes only at the write of line 47, by   *)
(* the ThreadFunc3 thread that holds the mutex, and then by exactly one:  *)
(* the value it wrote back is the one it read under the lock.            *)
THEOREM CounterIncrementsProved == Spec => CounterIncrements
<1>1. ASSUME IInv, [Next]_vars, data' # data
      PROVE  /\ data' = data + 1
             /\ \E t \in Workers : lock = t /\ tpc[t] = "write"
  <2>1. PICK t \in Workers : MxWrite(t)
    BY <1>1, DataOnlyByWrite
  <2>2. tpc[t] = "write" /\ data' = value[t] + 1
    BY <2>1 DEF MxWrite
  <2>3. lock = t
    BY <1>1, <2>2 DEF IInv, MutualExclusion, InCS
  <2>4. value[t] = data
    BY <1>1, <2>2 DEF IInv, ReadIsCurrent
  <2>. QED
    BY <2>2, <2>3, <2>4
<1>2. IInv /\ [Next]_vars =>
        [data' # data =>
           /\ data' = data + 1
           /\ \E t \in Workers : lock = t /\ tpc[t] = "write"]_vars
  BY <1>1
<1>. QED
  BY <1>2, Invariant, PTL DEF Spec, CounterIncrements

=============================================================================
