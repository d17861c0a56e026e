------------------------ MODULE PthreadMutexRefinement ------------------------
(***************************************************************************)
(* The pthread test program uses its mutex and condition variable as     *)
(* MutexCondvar says (MutexSpec), for every number of ThreadFunc3        *)
(* threads.  The mapping is the identity on the mutex's holder and the   *)
(* wait set: holder <- lock, waiting <- waiters.                          *)
(*                                                                         *)
(* A step of the program is an abstract step when it touches the mutex:  *)
(* a lock is Acquire, an unlock Release, the wait of line 151 Wait, the *)
(* signal of line 139 Signal and a spurious wakeup Wake; every other step *)
(* leaves lock and waiters alone and is a stutter.  That the releasing,  *)
(* waiting or signalling thread is the holder is MutualExclusion of      *)
(* PthreadSyncProofs; that a thread taking the mutex is not waiting, and *)
(* that the signal wakes at most one waiter, is WaitInv: only second     *)
(* ever waits, and it is in the wait set exactly while it waits.         *)
(***************************************************************************)
EXTENDS PthreadSyncProofs

(* main's places before line 164 creates second. *)
BeforeSecond ==
  BeforeMutex \cup {"mx_create", "mx_join", "mx_assert", "cv_init", "cv_create1",
                    "cv_create2"}

(* condvar's wait set holds second exactly while second is blocked in    *)
(* pthread_cond_wait, and second does not run before main creates it.   *)
WaitInv ==
  /\ waiters = IF tpc[Second] = "waiting" THEN {Second} ELSE {}
  /\ mpc \in BeforeSecond => tpc[Second] = "new"

(* The threads are distinct numbers. *)
LEMMA ThreadsDistinct ==
  /\ \A t \in Workers : t # First /\ t # Second /\ t \in Threads
  /\ First # Second /\ First \in Threads /\ Second \in Threads
  /\ \A t \in CreateThreads : t # Second
BY NAssumption DEF Threads, Workers, First, Second, CreateThreads, CjT1, CjT2, CeT1

-----------------------------------------------------------------------------

(* Every step keeps WaitInv. *)
LEMMA NextWaitInv == IInv /\ WaitInv /\ [Next]_vars => WaitInv'
<1> SUFFICES ASSUME IInv, WaitInv, [Next]_vars PROVE WaitInv'
  OBVIOUS
<1>0. TypeOK
  BY DEF IInv
<1>1. CASE UNCHANGED vars
  <2>1. waiters' = waiters
    BY <1>1 DEF vars
  <2>2. tpc'[Second] = tpc[Second]
    BY <1>1, <1>0, ThreadsDistinct DEF vars, TypeOK, CreateThreads, Workers
  <2>3. mpc' \in BeforeSecond => mpc \in BeforeSecond
    BY <1>1 DEF vars, BeforeSecond, BeforeMutex
  <2>. QED
    BY <2>1, <2>2, <2>3 DEF WaitInv
<1>2. ASSUME NEW t \in Workers, MxLock(t)
      PROVE  WaitInv'
  <2>1. waiters' = waiters
    BY <1>2 DEF MxLock
  <2>2. tpc'[Second] = tpc[Second]
    BY <1>2, <1>0, ThreadsDistinct DEF MxLock, TypeOK, CreateThreads, Workers
  <2>3. mpc' \in BeforeSecond => mpc \in BeforeSecond
    BY <1>2 DEF MxLock, BeforeSecond, BeforeMutex
  <2>. QED
    BY <2>1, <2>2, <2>3 DEF WaitInv
<1>3. ASSUME NEW t \in Workers, MxRead(t)
      PROVE  WaitInv'
  <2>1. waiters' = waiters
    BY <1>3 DEF MxRead
  <2>2. tpc'[Second] = tpc[Second]
    BY <1>3, <1>0, ThreadsDistinct DEF MxRead, TypeOK, CreateThreads, Workers
  <2>3. mpc' \in BeforeSecond => mpc \in BeforeSecond
    BY <1>3 DEF MxRead, BeforeSecond, BeforeMutex
  <2>. QED
    BY <2>1, <2>2, <2>3 DEF WaitInv
<1>4. ASSUME NEW t \in Workers, MxWrite(t)
      PROVE  WaitInv'
  <2>1. waiters' = waiters
    BY <1>4 DEF MxWrite
  <2>2. tpc'[Second] = tpc[Second]
    BY <1>4, <1>0, ThreadsDistinct DEF MxWrite, TypeOK, CreateThreads, Workers
  <2>3. mpc' \in BeforeSecond => mpc \in BeforeSecond
    BY <1>4 DEF MxWrite, BeforeSecond, BeforeMutex
  <2>. QED
    BY <2>1, <2>2, <2>3 DEF WaitInv
<1>5. ASSUME NEW t \in Workers, MxUnlock(t)
      PROVE  WaitInv'
  <2>1. waiters' = waiters
    BY <1>5 DEF MxUnlock
  <2>2. tpc'[Second] = tpc[Second]
    BY <1>5, <1>0, ThreadsDistinct DEF MxUnlock, TypeOK, CreateThreads, Workers
  <2>3. mpc' \in BeforeSecond => mpc \in BeforeSecond
    BY <1>5 DEF MxUnlock, BeforeSecond, BeforeMutex
  <2>. QED
    BY <2>1, <2>2, <2>3 DEF WaitInv
<1>6. ASSUME FirstSleep
      PROVE  WaitInv'
  <2>1. waiters' = waiters
    BY <1>6 DEF FirstSleep
  <2>2. tpc'[Second] = tpc[Second]
    BY <1>6, <1>0, ThreadsDistinct DEF FirstSleep, TypeOK, CreateThreads, Workers
  <2>3. mpc' \in BeforeSecond => mpc \in BeforeSecond
    BY <1>6 DEF FirstSleep, BeforeSecond, BeforeMutex
  <2>. QED
    BY <2>1, <2>2, <2>3 DEF WaitInv
<1>7. ASSUME FirstLock
      PROVE  WaitInv'
  <2>1. waiters' = waiters
    BY <1>7 DEF FirstLock
  <2>2. tpc'[Second] = tpc[Second]
    BY <1>7, <1>0, ThreadsDistinct DEF FirstLock, TypeOK, CreateThreads, Workers
  <2>3. mpc' \in BeforeSecond => mpc \in BeforeSecond
    BY <1>7 DEF FirstLock, BeforeSecond, BeforeMutex
  <2>. QED
    BY <2>1, <2>2, <2>3 DEF WaitInv
<1>8. ASSUME FirstSet
      PROVE  WaitInv'
  <2>1. waiters' = waiters
    BY <1>8 DEF FirstSet
  <2>2. tpc'[Second] = tpc[Second]
    BY <1>8, <1>0, ThreadsDistinct DEF FirstSet, TypeOK, CreateThreads, Workers
  <2>3. mpc' \in BeforeSecond => mpc \in BeforeSecond
    BY <1>8 DEF FirstSet, BeforeSecond, BeforeMutex
  <2>. QED
    BY <2>1, <2>2, <2>3 DEF WaitInv
<1>9. ASSUME FirstSignal
      PROVE  WaitInv'
  BY <1>9, <1>0, ThreadsDistinct DEF FirstSignal, WaitInv, TypeOK, BeforeSecond, BeforeMutex
<1>10. ASSUME FirstUnlock
      PROVE  WaitInv'
  <2>1. waiters' = waiters
    BY <1>10 DEF FirstUnlock
  <2>2. tpc'[Second] = tpc[Second]
    BY <1>10, <1>0, ThreadsDistinct DEF FirstUnlock, TypeOK, CreateThreads, Workers
  <2>3. mpc' \in BeforeSecond => mpc \in BeforeSecond
    BY <1>10 DEF FirstUnlock, BeforeSecond, BeforeMutex
  <2>. QED
    BY <2>1, <2>2, <2>3 DEF WaitInv
<1>11. ASSUME SecondLock
      PROVE  WaitInv'
  BY <1>11, <1>0, ThreadsDistinct DEF SecondLock, WaitInv, TypeOK, BeforeSecond, BeforeMutex
<1>12. ASSUME SecondCheck
      PROVE  WaitInv'
  BY <1>12, <1>0, ThreadsDistinct DEF SecondCheck, WaitInv, TypeOK, BeforeSecond, BeforeMutex
<1>13. ASSUME SecondRelock
      PROVE  WaitInv'
  BY <1>13, <1>0, ThreadsDistinct DEF SecondRelock, WaitInv, TypeOK, BeforeSecond, BeforeMutex
<1>14. ASSUME SecondUnlock
      PROVE  WaitInv'
  BY <1>14, <1>0, ThreadsDistinct DEF SecondUnlock, WaitInv, TypeOK, BeforeSecond, BeforeMutex
<1>15. ASSUME SecondSpurious
      PROVE  WaitInv'
  BY <1>15, <1>0, ThreadsDistinct DEF SecondSpurious, WaitInv, TypeOK, BeforeSecond, BeforeMutex
<1>16. ASSUME Func2
      PROVE  WaitInv'
  <2>1. waiters' = waiters
    BY <1>16 DEF Func2
  <2>2. tpc'[Second] = tpc[Second]
    BY <1>16, <1>0, ThreadsDistinct DEF Func2, TypeOK, CreateThreads, Workers
  <2>3. mpc' \in BeforeSecond => mpc \in BeforeSecond
    BY <1>16 DEF Func2, BeforeSecond, BeforeMutex
  <2>. QED
    BY <2>1, <2>2, <2>3 DEF WaitInv
<1>17. ASSUME NEW t \in {CjT1, CjT2}, Func1(t)
      PROVE  WaitInv'
  <2>1. waiters' = waiters
    BY <1>17 DEF Func1
  <2>2. tpc'[Second] = tpc[Second]
    BY <1>17, <1>0, ThreadsDistinct DEF Func1, TypeOK, CreateThreads, Workers
  <2>3. mpc' \in BeforeSecond => mpc \in BeforeSecond
    BY <1>17 DEF Func1, BeforeSecond, BeforeMutex
  <2>. QED
    BY <2>1, <2>2, <2>3 DEF WaitInv
<1>18. ASSUME TestCreate(CjT1, "cj_create1", "cj_join1", "ce_create")
      PROVE  WaitInv'
  <2>0. tpc' = [tpc EXCEPT ![CjT1] = tpc'[CjT1]] \/ tpc' = tpc
    BY <1>18, <1>0 DEF TestCreate, TypeOK
  <2>1. waiters' = waiters
    BY <1>18 DEF TestCreate
  <2>2. tpc'[Second] = tpc[Second]
    BY <1>18, <1>0, <2>0, ThreadsDistinct DEF TestCreate, TypeOK, CreateThreads, Workers
  <2>3. mpc' \in BeforeSecond => mpc \in BeforeSecond
    BY <1>18 DEF TestCreate, BeforeSecond, BeforeMutex
  <2>. QED
    BY <2>1, <2>2, <2>3 DEF WaitInv
<1>19. ASSUME TestCreate(CjT2, "cj_create2", "cj_join2", "ce_create")
      PROVE  WaitInv'
  <2>0. tpc' = [tpc EXCEPT ![CjT2] = tpc'[CjT2]] \/ tpc' = tpc
    BY <1>19, <1>0 DEF TestCreate, TypeOK
  <2>1. waiters' = waiters
    BY <1>19 DEF TestCreate
  <2>2. tpc'[Second] = tpc[Second]
    BY <1>19, <1>0, <2>0, ThreadsDistinct DEF TestCreate, TypeOK, CreateThreads, Workers
  <2>3. mpc' \in BeforeSecond => mpc \in BeforeSecond
    BY <1>19 DEF TestCreate, BeforeSecond, BeforeMutex
  <2>. QED
    BY <2>1, <2>2, <2>3 DEF WaitInv
<1>20. ASSUME TestCreate(CeT1, "ce_create", "ce_join", "mx_create")
      PROVE  WaitInv'
  <2>0. tpc' = [tpc EXCEPT ![CeT1] = tpc'[CeT1]] \/ tpc' = tpc
    BY <1>20, <1>0 DEF TestCreate, TypeOK
  <2>1. waiters' = waiters
    BY <1>20 DEF TestCreate
  <2>2. tpc'[Second] = tpc[Second]
    BY <1>20, <1>0, <2>0, ThreadsDistinct DEF TestCreate, TypeOK, CreateThreads, Workers
  <2>3. mpc' \in BeforeSecond => mpc \in BeforeSecond
    BY <1>20 DEF TestCreate, BeforeSecond, BeforeMutex
  <2>. QED
    BY <2>1, <2>2, <2>3 DEF WaitInv
<1>21. ASSUME TestJoin(CjT1, "cj_join1", "cj_create2", FALSE)
      PROVE  WaitInv'
  <2>1. waiters' = waiters
    BY <1>21 DEF TestJoin
  <2>2. tpc'[Second] = tpc[Second]
    BY <1>21, <1>0, ThreadsDistinct DEF TestJoin, TypeOK, CreateThreads, Workers
  <2>3. mpc' \in BeforeSecond => mpc \in BeforeSecond
    BY <1>21 DEF TestJoin, BeforeSecond, BeforeMutex
  <2>. QED
    BY <2>1, <2>2, <2>3 DEF WaitInv
<1>22. ASSUME TestJoin(CjT2, "cj_join2", "cj_print", TRUE)
      PROVE  WaitInv'
  <2>1. waiters' = waiters
    BY <1>22 DEF TestJoin
  <2>2. tpc'[Second] = tpc[Second]
    BY <1>22, <1>0, ThreadsDistinct DEF TestJoin, TypeOK, CreateThreads, Workers
  <2>3. mpc' \in BeforeSecond => mpc \in BeforeSecond
    BY <1>22 DEF TestJoin, BeforeSecond, BeforeMutex
  <2>. QED
    BY <2>1, <2>2, <2>3 DEF WaitInv
<1>23. ASSUME TestJoin(CeT1, "ce_join", "ce_print", TRUE)
      PROVE  WaitInv'
  <2>1. waiters' = waiters
    BY <1>23 DEF TestJoin
  <2>2. tpc'[Second] = tpc[Second]
    BY <1>23, <1>0, ThreadsDistinct DEF TestJoin, TypeOK, CreateThreads, Workers
  <2>3. mpc' \in BeforeSecond => mpc \in BeforeSecond
    BY <1>23 DEF TestJoin, BeforeSecond, BeforeMutex
  <2>. QED
    BY <2>1, <2>2, <2>3 DEF WaitInv
<1>24. ASSUME TestPrint("cj", "cj_print", "ce_create")
      PROVE  WaitInv'
  <2>1. waiters' = waiters
    BY <1>24 DEF TestPrint
  <2>2. tpc'[Second] = tpc[Second]
    BY <1>24, <1>0, ThreadsDistinct DEF TestPrint, TypeOK, CreateThreads, Workers
  <2>3. mpc' \in BeforeSecond => mpc \in BeforeSecond
    BY <1>24 DEF TestPrint, BeforeSecond, BeforeMutex
  <2>. QED
    BY <2>1, <2>2, <2>3 DEF WaitInv
<1>25. ASSUME TestPrint("ce", "ce_print", "mx_create")
      PROVE  WaitInv'
  <2>1. waiters' = waiters
    BY <1>25 DEF TestPrint
  <2>2. tpc'[Second] = tpc[Second]
    BY <1>25, <1>0, ThreadsDistinct DEF TestPrint, TypeOK, CreateThreads, Workers
  <2>3. mpc' \in BeforeSecond => mpc \in BeforeSecond
    BY <1>25 DEF TestPrint, BeforeSecond, BeforeMutex
  <2>. QED
    BY <2>1, <2>2, <2>3 DEF WaitInv
<1>26. ASSUME MxCreate
      PROVE  WaitInv'
  <2>0. i + 1 \in Workers
    BY <1>26, <1>0, NAssumption DEF MxCreate, TypeOK, Workers
  <2>1. waiters' = waiters
    BY <1>26 DEF MxCreate
  <2>2. tpc'[Second] = tpc[Second]
    BY <1>26, <1>0, <2>0, ThreadsDistinct DEF MxCreate, TypeOK, CreateThreads, Workers
  <2>3. mpc' \in BeforeSecond => mpc \in BeforeSecond
    BY <1>26 DEF MxCreate, BeforeSecond, BeforeMutex
  <2>. QED
    BY <2>1, <2>2, <2>3 DEF WaitInv
<1>27. ASSUME MxCreateFail
      PROVE  WaitInv'
  <2>1. waiters' = waiters
    BY <1>27 DEF MxCreateFail
  <2>2. tpc'[Second] = tpc[Second]
    BY <1>27, <1>0, ThreadsDistinct DEF MxCreateFail, TypeOK, CreateThreads, Workers
  <2>3. mpc' \in BeforeSecond => mpc \in BeforeSecond
    BY <1>27 DEF MxCreateFail, BeforeSecond, BeforeMutex
  <2>. QED
    BY <2>1, <2>2, <2>3 DEF WaitInv
<1>28. ASSUME MxCreateEnd
      PROVE  WaitInv'
  <2>1. waiters' = waiters
    BY <1>28 DEF MxCreateEnd
  <2>2. tpc'[Second] = tpc[Second]
    BY <1>28, <1>0, ThreadsDistinct DEF MxCreateEnd, TypeOK, CreateThreads, Workers
  <2>3. mpc' \in BeforeSecond => mpc \in BeforeSecond
    BY <1>28 DEF MxCreateEnd, BeforeSecond, BeforeMutex
  <2>. QED
    BY <2>1, <2>2, <2>3 DEF WaitInv
<1>29. ASSUME MxJoin
      PROVE  WaitInv'
  <2>1. waiters' = waiters
    BY <1>29 DEF MxJoin
  <2>2. tpc'[Second] = tpc[Second]
    BY <1>29, <1>0, ThreadsDistinct DEF MxJoin, TypeOK, CreateThreads, Workers
  <2>3. mpc' \in BeforeSecond => mpc \in BeforeSecond
    BY <1>29 DEF MxJoin, BeforeSecond, BeforeMutex
  <2>. QED
    BY <2>1, <2>2, <2>3 DEF WaitInv
<1>30. ASSUME MxAssert
      PROVE  WaitInv'
  <2>1. waiters' = waiters
    BY <1>30 DEF MxAssert
  <2>2. tpc'[Second] = tpc[Second]
    BY <1>30, <1>0, ThreadsDistinct DEF MxAssert, TypeOK, CreateThreads, Workers
  <2>3. mpc' \in BeforeSecond => mpc \in BeforeSecond
    BY <1>30 DEF MxAssert, BeforeSecond, BeforeMutex
  <2>. QED
    BY <2>1, <2>2, <2>3 DEF WaitInv
<1>31. ASSUME CvInit
      PROVE  WaitInv'
  BY <1>31, <1>0, ThreadsDistinct DEF CvInit, WaitInv, TypeOK, BeforeSecond, BeforeMutex
<1>32. ASSUME CvCreate(First, "cv_create1", "cv_create2", "sleep")
      PROVE  WaitInv'
  <2>0. tpc' = [tpc EXCEPT ![First] = tpc'[First]] \/ tpc' = tpc
    BY <1>32, <1>0 DEF CvCreate, TypeOK
  <2>1. waiters' = waiters
    BY <1>32 DEF CvCreate
  <2>2. tpc'[Second] = tpc[Second]
    BY <1>32, <1>0, <2>0, ThreadsDistinct DEF CvCreate, TypeOK, CreateThreads, Workers
  <2>3. mpc' \in BeforeSecond => mpc \in BeforeSecond
    BY <1>32 DEF CvCreate, BeforeSecond, BeforeMutex
  <2>. QED
    BY <2>1, <2>2, <2>3 DEF WaitInv
<1>33. ASSUME CvCreate(Second, "cv_create2", "cv_join1", "lock")
      PROVE  WaitInv'
  BY <1>33, <1>0, ThreadsDistinct DEF CvCreate, WaitInv, TypeOK, BeforeSecond, BeforeMutex
<1>34. ASSUME CvJoin(First, "cv_join1", "cv_join2")
      PROVE  WaitInv'
  <2>1. waiters' = waiters
    BY <1>34 DEF CvJoin
  <2>2. tpc'[Second] = tpc[Second]
    BY <1>34, <1>0, ThreadsDistinct DEF CvJoin, TypeOK, CreateThreads, Workers
  <2>3. mpc' \in BeforeSecond => mpc \in BeforeSecond
    BY <1>34 DEF CvJoin, BeforeSecond, BeforeMutex
  <2>. QED
    BY <2>1, <2>2, <2>3 DEF WaitInv
<1>35. ASSUME CvJoin(Second, "cv_join2", "done")
      PROVE  WaitInv'
  <2>1. waiters' = waiters
    BY <1>35 DEF CvJoin
  <2>2. tpc'[Second] = tpc[Second]
    BY <1>35, <1>0, ThreadsDistinct DEF CvJoin, TypeOK, CreateThreads, Workers
  <2>3. mpc' \in BeforeSecond => mpc \in BeforeSecond
    BY <1>35 DEF CvJoin, BeforeSecond, BeforeMutex
  <2>. QED
    BY <2>1, <2>2, <2>3 DEF WaitInv
<1>. QED
  BY <1>1, <1>2, <1>3, <1>4, <1>5, <1>6, <1>7, <1>8, <1>9, <1>10, <1>11, <1>12, <1>13, <1>14, <1>15, <1>16, <1>17, <1>18, <1>19, <1>20, <1>21, <1>22, <1>23, <1>24, <1>25, <1>26, <1>27, <1>28, <1>29, <1>30, <1>31, <1>32, <1>33, <1>34, <1>35
     DEF Next, MainStep, ThreadStep

(* Every step of the program is a step of MutexCondvar or leaves the   *)
(* mutex and the wait set alone.                                          *)
LEMMA MutexStep ==
  IInv /\ WaitInv /\ [Next]_vars => [Mutex!Next]_Mutex!mvars
<1> SUFFICES ASSUME IInv, WaitInv, [Next]_vars PROVE [Mutex!Next]_Mutex!mvars
  OBVIOUS
<1>0. TypeOK /\ MutualExclusion
  BY DEF IInv
<1>1. CASE UNCHANGED vars
  <2>1. UNCHANGED <<lock, waiters>>
    BY <1>1 DEF vars
  <2>. QED
    BY <2>1 DEF Mutex!mvars
<1>2. ASSUME NEW t \in Workers, MxLock(t)
      PROVE  [Mutex!Next]_Mutex!mvars
  <2>1. t \in Threads /\ t \notin waiters
    BY <1>2, <1>0, ThreadsDistinct DEF MxLock, WaitInv
  <2>2. Mutex!Acquire(t)
    BY <1>2, <2>1 DEF MxLock, Mutex!Acquire
  <2>. QED
    BY <2>1, <2>2 DEF Mutex!Next
<1>3. ASSUME NEW t \in Workers, MxRead(t)
      PROVE  [Mutex!Next]_Mutex!mvars
  <2>1. UNCHANGED <<lock, waiters>>
    BY <1>3 DEF MxRead
  <2>. QED
    BY <2>1 DEF Mutex!mvars
<1>4. ASSUME NEW t \in Workers, MxWrite(t)
      PROVE  [Mutex!Next]_Mutex!mvars
  <2>1. UNCHANGED <<lock, waiters>>
    BY <1>4 DEF MxWrite
  <2>. QED
    BY <2>1 DEF Mutex!mvars
<1>5. ASSUME NEW t \in Workers, MxUnlock(t)
      PROVE  [Mutex!Next]_Mutex!mvars
  <2>1. t \in Threads /\ lock = t
    BY <1>5, <1>0, ThreadsDistinct DEF MxUnlock, MutualExclusion, InCS
  <2>2. Mutex!Release(t)
    BY <1>5, <2>1 DEF MxUnlock, Mutex!Release
  <2>. QED
    BY <2>1, <2>2 DEF Mutex!Next
<1>6. ASSUME FirstSleep
      PROVE  [Mutex!Next]_Mutex!mvars
  <2>1. UNCHANGED <<lock, waiters>>
    BY <1>6 DEF FirstSleep
  <2>. QED
    BY <2>1 DEF Mutex!mvars
<1>7. ASSUME FirstLock
      PROVE  [Mutex!Next]_Mutex!mvars
  <2>1. First \in Threads /\ First \notin waiters
    BY <1>7, <1>0, ThreadsDistinct DEF FirstLock, WaitInv
  <2>2. Mutex!Acquire(First)
    BY <1>7, <2>1 DEF FirstLock, Mutex!Acquire
  <2>. QED
    BY <2>1, <2>2 DEF Mutex!Next
<1>8. ASSUME FirstSet
      PROVE  [Mutex!Next]_Mutex!mvars
  <2>1. UNCHANGED <<lock, waiters>>
    BY <1>8 DEF FirstSet
  <2>. QED
    BY <2>1 DEF Mutex!mvars
<1>9. ASSUME FirstSignal
      PROVE  [Mutex!Next]_Mutex!mvars
  <2>1. lock = First
    BY <1>9, <1>0, ThreadsDistinct DEF FirstSignal, MutualExclusion, InCS
  <2>2. waiters' = {} /\ lock' = lock
    BY <1>9 DEF FirstSignal
  <2>3. waiters = {} \/ waiters = {Second}
    BY DEF WaitInv
  <2>4. Mutex!Signal(First)
    BY <2>1, <2>2, <2>3 DEF Mutex!Signal
  <2>. QED
    BY <2>4, ThreadsDistinct DEF Mutex!Next
<1>10. ASSUME FirstUnlock
      PROVE  [Mutex!Next]_Mutex!mvars
  <2>1. First \in Threads /\ lock = First
    BY <1>10, <1>0, ThreadsDistinct DEF FirstUnlock, MutualExclusion, InCS
  <2>2. Mutex!Release(First)
    BY <1>10, <2>1 DEF FirstUnlock, Mutex!Release
  <2>. QED
    BY <2>1, <2>2 DEF Mutex!Next
<1>11. ASSUME SecondLock
      PROVE  [Mutex!Next]_Mutex!mvars
  <2>1. Second \in Threads /\ Second \notin waiters
    BY <1>11, <1>0, ThreadsDistinct DEF SecondLock, WaitInv
  <2>2. Mutex!Acquire(Second)
    BY <1>11, <2>1 DEF SecondLock, Mutex!Acquire
  <2>. QED
    BY <2>1, <2>2 DEF Mutex!Next
<1>12. ASSUME SecondCheck
      PROVE  [Mutex!Next]_Mutex!mvars
  <2>1. lock = Second
    BY <1>12, <1>0, ThreadsDistinct DEF SecondCheck, MutualExclusion, InCS
  <2>2. CASE A = 0
    <3>1. Mutex!Wait(Second)
      BY <1>12, <2>1, <2>2 DEF SecondCheck, Mutex!Wait
    <3>. QED
      BY <3>1, ThreadsDistinct DEF Mutex!Next
  <2>3. CASE A # 0
    <3>1. UNCHANGED <<lock, waiters>>
      BY <1>12, <2>3 DEF SecondCheck
    <3>. QED
      BY <3>1 DEF Mutex!mvars
  <2>. QED
    BY <2>2, <2>3
<1>13. ASSUME SecondRelock
      PROVE  [Mutex!Next]_Mutex!mvars
  <2>1. Second \in Threads /\ Second \notin waiters
    BY <1>13, <1>0, ThreadsDistinct DEF SecondRelock, WaitInv
  <2>2. Mutex!Acquire(Second)
    BY <1>13, <2>1 DEF SecondRelock, Mutex!Acquire
  <2>. QED
    BY <2>1, <2>2 DEF Mutex!Next
<1>14. ASSUME SecondUnlock
      PROVE  [Mutex!Next]_Mutex!mvars
  <2>1. Second \in Threads /\ lock = Second
    BY <1>14, <1>0, ThreadsDistinct DEF SecondUnlock, MutualExclusion, InCS
  <2>2. Mutex!Release(Second)
    BY <1>14, <2>1 DEF SecondUnlock, Mutex!Release
  <2>. QED
    BY <2>1, <2>2 DEF Mutex!Next
<1>15. ASSUME SecondSpurious
      PROVE  [Mutex!Next]_Mutex!mvars
  <2>1. Mutex!Wake(Second)
    BY <1>15 DEF SecondSpurious, Mutex!Wake
  <2>. QED
    BY <2>1, ThreadsDistinct DEF Mutex!Next
<1>16. ASSUME Func2
      PROVE  [Mutex!Next]_Mutex!mvars
  <2>1. UNCHANGED <<lock, waiters>>
    BY <1>16 DEF Func2
  <2>. QED
    BY <2>1 DEF Mutex!mvars
<1>17. ASSUME NEW t \in {CjT1, CjT2}, Func1(t)
      PROVE  [Mutex!Next]_Mutex!mvars
  <2>1. UNCHANGED <<lock, waiters>>
    BY <1>17 DEF Func1
  <2>. QED
    BY <2>1 DEF Mutex!mvars
<1>18. ASSUME TestCreate(CjT1, "cj_create1", "cj_join1", "ce_create")
      PROVE  [Mutex!Next]_Mutex!mvars
  <2>1. UNCHANGED <<lock, waiters>>
    BY <1>18 DEF TestCreate
  <2>. QED
    BY <2>1 DEF Mutex!mvars
<1>19. ASSUME TestCreate(CjT2, "cj_create2", "cj_join2", "ce_create")
      PROVE  [Mutex!Next]_Mutex!mvars
  <2>1. UNCHANGED <<lock, waiters>>
    BY <1>19 DEF TestCreate
  <2>. QED
    BY <2>1 DEF Mutex!mvars
<1>20. ASSUME TestCreate(CeT1, "ce_create", "ce_join", "mx_create")
      PROVE  [Mutex!Next]_Mutex!mvars
  <2>1. UNCHANGED <<lock, waiters>>
    BY <1>20 DEF TestCreate
  <2>. QED
    BY <2>1 DEF Mutex!mvars
<1>21. ASSUME TestJoin(CjT1, "cj_join1", "cj_create2", FALSE)
      PROVE  [Mutex!Next]_Mutex!mvars
  <2>1. UNCHANGED <<lock, waiters>>
    BY <1>21 DEF TestJoin
  <2>. QED
    BY <2>1 DEF Mutex!mvars
<1>22. ASSUME TestJoin(CjT2, "cj_join2", "cj_print", TRUE)
      PROVE  [Mutex!Next]_Mutex!mvars
  <2>1. UNCHANGED <<lock, waiters>>
    BY <1>22 DEF TestJoin
  <2>. QED
    BY <2>1 DEF Mutex!mvars
<1>23. ASSUME TestJoin(CeT1, "ce_join", "ce_print", TRUE)
      PROVE  [Mutex!Next]_Mutex!mvars
  <2>1. UNCHANGED <<lock, waiters>>
    BY <1>23 DEF TestJoin
  <2>. QED
    BY <2>1 DEF Mutex!mvars
<1>24. ASSUME TestPrint("cj", "cj_print", "ce_create")
      PROVE  [Mutex!Next]_Mutex!mvars
  <2>1. UNCHANGED <<lock, waiters>>
    BY <1>24 DEF TestPrint
  <2>. QED
    BY <2>1 DEF Mutex!mvars
<1>25. ASSUME TestPrint("ce", "ce_print", "mx_create")
      PROVE  [Mutex!Next]_Mutex!mvars
  <2>1. UNCHANGED <<lock, waiters>>
    BY <1>25 DEF TestPrint
  <2>. QED
    BY <2>1 DEF Mutex!mvars
<1>26. ASSUME MxCreate
      PROVE  [Mutex!Next]_Mutex!mvars
  <2>1. UNCHANGED <<lock, waiters>>
    BY <1>26 DEF MxCreate
  <2>. QED
    BY <2>1 DEF Mutex!mvars
<1>27. ASSUME MxCreateFail
      PROVE  [Mutex!Next]_Mutex!mvars
  <2>1. UNCHANGED <<lock, waiters>>
    BY <1>27 DEF MxCreateFail
  <2>. QED
    BY <2>1 DEF Mutex!mvars
<1>28. ASSUME MxCreateEnd
      PROVE  [Mutex!Next]_Mutex!mvars
  <2>1. UNCHANGED <<lock, waiters>>
    BY <1>28 DEF MxCreateEnd
  <2>. QED
    BY <2>1 DEF Mutex!mvars
<1>29. ASSUME MxJoin
      PROVE  [Mutex!Next]_Mutex!mvars
  <2>1. UNCHANGED <<lock, waiters>>
    BY <1>29 DEF MxJoin
  <2>. QED
    BY <2>1 DEF Mutex!mvars
<1>30. ASSUME MxAssert
      PROVE  [Mutex!Next]_Mutex!mvars
  <2>1. UNCHANGED <<lock, waiters>>
    BY <1>30 DEF MxAssert
  <2>. QED
    BY <2>1 DEF Mutex!mvars
<1>31. ASSUME CvInit
      PROVE  [Mutex!Next]_Mutex!mvars
  <2>1. UNCHANGED <<lock, waiters>>
    BY <1>31, <1>0 DEF CvInit, WaitInv, BeforeSecond, BeforeMutex
  <2>. QED
    BY <2>1 DEF Mutex!mvars
<1>32. ASSUME CvCreate(First, "cv_create1", "cv_create2", "sleep")
      PROVE  [Mutex!Next]_Mutex!mvars
  <2>1. UNCHANGED <<lock, waiters>>
    BY <1>32 DEF CvCreate
  <2>. QED
    BY <2>1 DEF Mutex!mvars
<1>33. ASSUME CvCreate(Second, "cv_create2", "cv_join1", "lock")
      PROVE  [Mutex!Next]_Mutex!mvars
  <2>1. UNCHANGED <<lock, waiters>>
    BY <1>33 DEF CvCreate
  <2>. QED
    BY <2>1 DEF Mutex!mvars
<1>34. ASSUME CvJoin(First, "cv_join1", "cv_join2")
      PROVE  [Mutex!Next]_Mutex!mvars
  <2>1. UNCHANGED <<lock, waiters>>
    BY <1>34 DEF CvJoin
  <2>. QED
    BY <2>1 DEF Mutex!mvars
<1>35. ASSUME CvJoin(Second, "cv_join2", "done")
      PROVE  [Mutex!Next]_Mutex!mvars
  <2>1. UNCHANGED <<lock, waiters>>
    BY <1>35 DEF CvJoin
  <2>. QED
    BY <2>1 DEF Mutex!mvars
<1>. QED
  BY <1>1, <1>2, <1>3, <1>4, <1>5, <1>6, <1>7, <1>8, <1>9, <1>10, <1>11, <1>12, <1>13, <1>14, <1>15, <1>16, <1>17, <1>18, <1>19, <1>20, <1>21, <1>22, <1>23, <1>24, <1>25, <1>26, <1>27, <1>28, <1>29, <1>30, <1>31, <1>32, <1>33, <1>34, <1>35
     DEF Next, MainStep, ThreadStep

-----------------------------------------------------------------------------
(* The program's mutex and condvar behave as MutexCondvar says, for any  *)
(* number of ThreadFunc3 threads: lock is taken only when free by a      *)
(* thread that is not waiting, released, waited on and signalled only by *)
(* its holder, and a signal of line 139 wakes at most one waiter.        *)
THEOREM MutexRefinement == Spec => MutexSpec
<1>1. Init => Mutex!Init /\ WaitInv
  BY ThreadsDistinct DEF Init, Mutex!Init, WaitInv, BeforeSecond, BeforeMutex
<1>2. IInv /\ WaitInv /\ [Next]_vars => (IInv /\ WaitInv)'
  BY NextIInv, NextWaitInv
<1>3. Init => IInv
  BY InitIInv
<1>. QED
  BY <1>1, <1>2, <1>3, MutexStep, PTL DEF Spec, MutexSpec, Mutex!Spec
=============================================================================
