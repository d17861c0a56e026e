----------------------------- MODULE PthreadSync -----------------------------
(***************************************************************************)
(* The pthread test program (src/apps/c/pthread/basic/main.c): main runs *)
(* test_create_join, test_create_exit, test_mutex and test_condvar; the   *)
(* last two share the static mutex lock.                                  *)
(*                                                                         *)
(* test_create_join creates and joins a thread running ThreadFunc1 on     *)
(* NULL, then one on a string, and prints what the second returned;       *)
(* test_create_exit does the same with ThreadFunc2, which ends by         *)
(* pthread_exit.                                                           *)
(* test_mutex creates NUM_THREADS threads running ThreadFunc3 on the       *)
(* local int data of its own stack frame, joins them in order and asserts *)
(* data == NUM_THREADS.  test_condvar creates first, which sets A = 1 and  *)
(* signals condvar under lock, and second, which waits under lock while    *)
(* A == 0; then it joins both.                                             *)
(*                                                                         *)
(* The threads are 1..N (ThreadFunc3), First, Second and the three      *)
(* threads of the create tests.  The pthread     *)
(* primitives are those of POSIX: a mutex is held by at most one thread,  *)
(* pthread_cond_wait releases the mutex and joins the wait set in one     *)
(* step and takes the mutex back once woken, a wakeup may be spurious,     *)
(* pthread_cond_signal wakes one waiter if there is one, and               *)
(* pthread_create may fail (EAGAIN) when CreateMayFail holds.  Printing,   *)
(* sleep(5) and the getpid() loop are delays without state.                *)
(***************************************************************************)
EXTENDS Naturals, FiniteSets

CONSTANTS
  N,             \* NUM_THREADS of test_mutex (100 in the code)
  CreateMayFail, \* pthread_create may fail for want of resources
  MaxSpurious    \* bound on the spurious wakeups of one behaviour

ASSUME NAssumption == N \in Nat \ {0}
ASSUME CreateMayFailAssumption == CreateMayFail \in BOOLEAN
ASSUME MaxSpuriousAssumption == MaxSpurious \in Nat

(* The threads test_condvar creates, and "no thread" for a free mutex. *)
First == N + 1
Second == N + 2
NoThread == 0
Workers == 1 .. N
CjT1 == N + 3   \* t1 of test_create_join, ThreadFunc1(NULL)
CjT2 == N + 4   \* t2 of test_create_join, ThreadFunc1(s)
CeT1 == N + 5   \* t1 of test_create_exit, ThreadFunc2(NULL)
CreateThreads == {CjT1, CjT2, CeT1}
Threads == Workers \cup {First, Second} \cup CreateThreads

(* The pointers a thread of the create tests may end with: NULL, the two *)
(* string literals of lines 25 and 32 ("Child thread return message"    *)
(* and "Exit message"), and an indeterminate value.                       *)
RetVals == {"NULL", "ChildReturnMessage", "ExitMessage", "garbage"}

VARIABLES
  mpc,      \* main's place: "mx_create", "mx_join", "mx_assert",
            \* "cv_init", "cv_create1", "cv_create2", "cv_join1",
            \* "cv_join2", "done"
  i,        \* the loop counter of test_mutex
  tpc,      \* tpc[t]: the place of thread t, "new" before it is created
  value,    \* value[t]: the local value of ThreadFunc3 in thread t
  data,     \* data of test_mutex
  mxLive,   \* the stack frame of test_mutex, holding data, is live
  lock,     \* the holder of the mutex lock, or NoThread
  A,        \* the global A
  waiters,  \* the threads waiting on condvar
  spurious, \* spurious wakeups so far
  failed,   \* some pthread_create call has failed
  retval,   \* retval[t]: what thread t of the create tests ended with
  result,   \* thread_result, local to test_create_join or test_create_exit
  printed   \* printed[f]: the thread_result that f printed, "none" before

cjVars == <<retval, result, printed>>
vars == <<mpc, i, tpc, value, data, mxLive, lock, A, waiters, spurious, failed,
          retval, result, printed>>

TypeOK ==
  /\ mpc \in {"cj_create1", "cj_join1", "cj_create2", "cj_join2", "cj_print",
              "ce_create", "ce_join", "ce_print", "mx_create", "mx_join", "mx_assert", "cv_init", "cv_create1",
              "cv_create2", "cv_join1", "cv_join2", "done"}
  /\ i \in 0 .. N
  /\ tpc \in [Threads -> {"new", "lock", "read", "write", "unlock", "done",
                          "sleep", "set", "signal", "check", "waiting",
                          "relock", "run"}]
  /\ \A t \in Workers : tpc[t] \in {"new", "lock", "read", "write", "unlock", "done"}
  /\ tpc[First] \in {"new", "sleep", "lock", "set", "signal", "unlock", "done"}
  /\ tpc[Second] \in {"new", "lock", "check", "waiting", "relock", "unlock", "done"}
  /\ value \in [Workers -> 0 .. N]
  /\ data \in 0 .. N
  /\ mxLive \in BOOLEAN
  /\ lock \in Threads \cup {NoThread}
  /\ A \in {0, 1}
  /\ waiters \subseteq {Second}
  /\ spurious \in 0 .. MaxSpurious
  /\ failed \in BOOLEAN
  /\ \A t \in CreateThreads : tpc[t] \in {"new", "run", "done"}
  /\ retval \in [CreateThreads -> RetVals]
  /\ result \in RetVals
  /\ printed \in [{"cj", "ce"} -> RetVals \cup {"none"}]

Init ==
  /\ mpc = "cj_create1"
  /\ i = 0
  /\ tpc = [t \in Threads |-> "new"]
  /\ value = [t \in Workers |-> 0]
  /\ data = 0
  /\ mxLive = TRUE
  /\ lock = NoThread
  /\ A = 0
  /\ waiters = {}
  /\ spurious = 0
  /\ failed = FALSE
  /\ retval = [t \in CreateThreads |-> "garbage"]
  /\ result = "garbage"
  /\ printed = [f \in {"cj", "ce"} |-> "none"]

-----------------------------------------------------------------------------
(* ThreadFunc3 (lines 38-51), thread t. *)

(* Mutant: the lock is not taken (ThreadFunc3 without its mutex). *)
MxLockIgnored(t) ==
  /\ tpc[t] = "lock"
  /\ tpc' = [tpc EXCEPT ![t] = "read"]
  /\ UNCHANGED <<cjVars, mpc, i, value, data, mxLive, lock, A, waiters, spurious, failed>>

(* Mutant: the lock taken without waiting for its holder to release it *)
(* (a trylock whose failure is ignored).                                 *)
MxLockNoWait(t) ==
  /\ tpc[t] = "lock"
  /\ lock' = t
  /\ tpc' = [tpc EXCEPT ![t] = "read"]
  /\ UNCHANGED <<cjVars, mpc, i, value, data, mxLive, A, waiters, spurious, failed>>

(* Line 40: pthread_mutex_lock(&lock), blocking while another holds it. *)
MxLock(t) ==
  /\ tpc[t] = "lock"
  /\ lock = NoThread
  /\ lock' = t
  /\ tpc' = [tpc EXCEPT ![t] = "read"]
  /\ UNCHANGED <<cjVars, mpc, i, value, data, mxLive, A, waiters, spurious, failed>>

(* Line 42: value = the int that arg points to, data. *)
MxRead(t) ==
  /\ tpc[t] = "read"
  /\ value' = [value EXCEPT ![t] = data]
  /\ tpc' = [tpc EXCEPT ![t] = "write"]
  /\ UNCHANGED <<cjVars, mpc, i, data, mxLive, lock, A, waiters, spurious, failed>>

(* Line 47, after the getpid() loop: data (what arg points to) = value + 1. *)
MxWrite(t) ==
  /\ tpc[t] = "write"
  /\ data' = value[t] + 1
  /\ tpc' = [tpc EXCEPT ![t] = "unlock"]
  /\ UNCHANGED <<cjVars, mpc, i, value, mxLive, lock, A, waiters, spurious, failed>>

(* Lines 49-50: pthread_mutex_unlock(&lock); return 0. *)
MxUnlock(t) ==
  /\ tpc[t] = "unlock"
  /\ lock' = NoThread
  /\ tpc' = [tpc EXCEPT ![t] = "done"]
  /\ UNCHANGED <<cjVars, mpc, i, value, data, mxLive, A, waiters, spurious, failed>>

-----------------------------------------------------------------------------
(* first (lines 133-143). *)

(* Line 135: sleep(5); it orders nothing, the scheduler may run second   *)
(* or not meanwhile.                                                      *)
FirstSleep ==
  /\ tpc[First] = "sleep"
  /\ tpc' = [tpc EXCEPT ![First] = "lock"]
  /\ UNCHANGED <<cjVars, mpc, i, value, data, mxLive, lock, A, waiters, spurious, failed>>

(* Line 137: pthread_mutex_lock(&lock). *)
FirstLock ==
  /\ tpc[First] = "lock"
  /\ lock = NoThread
  /\ lock' = First
  /\ tpc' = [tpc EXCEPT ![First] = "set"]
  /\ UNCHANGED <<cjVars, mpc, i, value, data, mxLive, A, waiters, spurious, failed>>

(* Line 138: A = 1. *)
FirstSet ==
  /\ tpc[First] = "set"
  /\ A' = 1
  /\ tpc' = [tpc EXCEPT ![First] = "signal"]
  /\ UNCHANGED <<cjVars, mpc, i, value, data, mxLive, lock, waiters, spurious, failed>>

(* Mutant: the wakeup is lost, nobody waiting is woken. *)
FirstSignalLost ==
  /\ tpc[First] = "signal"
  /\ tpc' = [tpc EXCEPT ![First] = "unlock"]
  /\ UNCHANGED <<cjVars, mpc, i, value, data, mxLive, lock, A, waiters, spurious, failed>>

(* Line 139: pthread_cond_signal(&condvar) wakes one waiter, if any; the *)
(* woken thread has to take the mutex back before it returns from wait.  *)
FirstSignal ==
  /\ tpc[First] = "signal"
  /\ waiters' = {}
  /\ tpc' = [t \in Threads |-> IF t = First THEN "unlock"
                               ELSE IF t \in waiters THEN "relock" ELSE tpc[t]]
  /\ UNCHANGED <<cjVars, mpc, i, value, data, mxLive, lock, A, spurious, failed>>

(* Lines 140-141: pthread_mutex_unlock(&lock); return NULL. *)
FirstUnlock ==
  /\ tpc[First] = "unlock"
  /\ lock' = NoThread
  /\ tpc' = [tpc EXCEPT ![First] = "done"]
  /\ UNCHANGED <<cjVars, mpc, i, value, data, mxLive, A, waiters, spurious, failed>>

-----------------------------------------------------------------------------
(* second (lines 145-156). *)

(* Line 148: pthread_mutex_lock(&lock). *)
SecondLock ==
  /\ tpc[Second] = "lock"
  /\ lock = NoThread
  /\ lock' = Second
  /\ tpc' = [tpc EXCEPT ![Second] = "check"]
  /\ UNCHANGED <<cjVars, mpc, i, value, data, mxLive, A, waiters, spurious, failed>>

(* Lines 149-152, holding the mutex: while A == 0, pthread_cond_wait     *)
(* releases it and joins the wait set in one step; once A # 0 the loop    *)
(* is left.                                                               *)
SecondCheck ==
  /\ tpc[Second] = "check"
  /\ \/ /\ A = 0
        /\ lock' = NoThread
        /\ waiters' = waiters \cup {Second}
        /\ tpc' = [tpc EXCEPT ![Second] = "waiting"]
     \/ /\ A # 0
        /\ tpc' = [tpc EXCEPT ![Second] = "unlock"]
        /\ UNCHANGED <<lock, waiters>>
  /\ UNCHANGED <<cjVars, mpc, i, value, data, mxLive, A, spurious, failed>>

(* Line 151: a spurious wakeup ends the wait without a signal. *)
SecondSpurious ==
  /\ tpc[Second] = "waiting"
  /\ Second \in waiters
  /\ spurious < MaxSpurious
  /\ spurious' = spurious + 1
  /\ waiters' = waiters \ {Second}
  /\ tpc' = [tpc EXCEPT ![Second] = "relock"]
  /\ UNCHANGED <<cjVars, mpc, i, value, data, mxLive, lock, A, failed>>

(* Mutant: the wait is an if, not a while: once woken, A is not checked  *)
(* again.                                                                 *)
SecondRelockNoRecheck ==
  /\ tpc[Second] = "relock"
  /\ lock = NoThread
  /\ lock' = Second
  /\ tpc' = [tpc EXCEPT ![Second] = "unlock"]
  /\ UNCHANGED <<cjVars, mpc, i, value, data, mxLive, A, waiters, spurious, failed>>

(* Line 151: woken, pthread_cond_wait takes the mutex back and returns;  *)
(* the while condition is evaluated again.                                *)
SecondRelock ==
  /\ tpc[Second] = "relock"
  /\ lock = NoThread
  /\ lock' = Second
  /\ tpc' = [tpc EXCEPT ![Second] = "check"]
  /\ UNCHANGED <<cjVars, mpc, i, value, data, mxLive, A, waiters, spurious, failed>>

(* Lines 153-155: pthread_mutex_unlock(&lock); return NULL. *)
SecondUnlock ==
  /\ tpc[Second] = "unlock"
  /\ lock' = NoThread
  /\ tpc' = [tpc EXCEPT ![Second] = "done"]
  /\ UNCHANGED <<cjVars, mpc, i, value, data, mxLive, A, waiters, spurious, failed>>

-----------------------------------------------------------------------------
(* ThreadFunc1 (lines 16-27) and ThreadFunc2 (lines 29-34). *)

(* ThreadFunc1(arg): NULL for CjT1, which puts a line and returns NULL;  *)
(* the string s for CjT2, which prints it and returns the literal of      *)
(* line 25.                                                               *)
Func1(t) ==
  /\ tpc[t] = "run"
  /\ retval' = [retval EXCEPT ![t] = IF t = CjT1 THEN "NULL"
                                    ELSE "ChildReturnMessage"]
  /\ tpc' = [tpc EXCEPT ![t] = "done"]
  /\ UNCHANGED <<mpc, i, value, data, mxLive, lock, A, waiters, spurious, failed,
                 result, printed>>

(* Mutant: ThreadFunc2 runs on after pthread_exit and falls off its end, *)
(* so its value is indeterminate.                                         *)
Func2NoExit ==
  /\ tpc[CeT1] = "run"
  /\ retval' = [retval EXCEPT ![CeT1] = "garbage"]
  /\ tpc' = [tpc EXCEPT ![CeT1] = "done"]
  /\ UNCHANGED <<mpc, i, value, data, mxLive, lock, A, waiters, spurious, failed,
                 result, printed>>

(* Lines 31-32: puts, then pthread_exit("Exit message") ends the thread; *)
(* line 33 is never reached.                                              *)
Func2 ==
  /\ tpc[CeT1] = "run"
  /\ retval' = [retval EXCEPT ![CeT1] = "ExitMessage"]
  /\ tpc' = [tpc EXCEPT ![CeT1] = "done"]
  /\ UNCHANGED <<mpc, i, value, data, mxLive, lock, A, waiters, spurious, failed,
                 result, printed>>

-----------------------------------------------------------------------------
(* main (lines 170-182).  Lines 172-173, pthread_self() # 0, change       *)
(* nothing.                                                                *)

(* pthread_create(&t, NULL, f, arg) in a create test at place at: on     *)
(* success t runs and main goes on to next; on failure the test prints    *)
(* and returns (lines 60-63, 71-74, 91-94), main going on to ret.         *)
TestCreate(t, at, next, ret) ==
  /\ mpc = at
  /\ \/ /\ tpc' = [tpc EXCEPT ![t] = "run"]
        /\ mpc' = next
        /\ UNCHANGED failed
     \/ /\ CreateMayFail
        /\ failed' = TRUE
        /\ mpc' = ret
        /\ UNCHANGED tpc
  /\ UNCHANGED <<cjVars, i, value, data, mxLive, lock, A, waiters, spurious>>

(* Mutant: pthread_join returns before the thread has ended. *)
TestJoinEarly(t, at, next, keep) ==
  /\ mpc = at
  /\ tpc[t] # "new"
  /\ result' = IF keep THEN retval[t] ELSE result
  /\ mpc' = next
  /\ UNCHANGED <<retval, printed, i, tpc, value, data, mxLive, lock, A, waiters,
                 spurious, failed>>

(* pthread_join(t, p) of a create test (lines 65, 76, 96): it blocks     *)
(* until t has ended and, when keep (p = &thread_result), stores t's      *)
(* value in thread_result.  A join of a created, joinable thread does not *)
(* fail: the branches of lines 66-68, 77-79 and 97-99 only print.         *)
TestJoin(t, at, next, keep) ==
  /\ mpc = at
  /\ tpc[t] = "done"
  /\ result' = IF keep THEN retval[t] ELSE result
  /\ mpc' = next
  /\ UNCHANGED <<retval, printed, i, tpc, value, data, mxLive, lock, A, waiters,
                 spurious, failed>>

(* printf of thread_result (lines 81 and 101) by test f; the function    *)
(* returns and the thread_result of the next one is a new, uninitialized  *)
(* local.                                                                 *)
TestPrint(f, at, next) ==
  /\ mpc = at
  /\ printed' = [printed EXCEPT ![f] = result]
  /\ result' = "garbage"
  /\ mpc' = next
  /\ UNCHANGED <<retval, i, tpc, value, data, mxLive, lock, A, waiters, spurious,
                 failed>>

(* test_mutex (lines 104-127). *)

(* Mutant: the create loop runs while i <= NUM_THREADS. *)
MxCreateOffByOne ==
  /\ mpc = "mx_create"
  /\ i <= N
  /\ tpc' = [tpc EXCEPT ![i + 1] = "lock"]
  /\ i' = i + 1
  /\ UNCHANGED <<cjVars, mpc, value, data, mxLive, lock, A, waiters, spurious, failed>>

(* Lines 110-111: pthread_create(&t[i], NULL, ThreadFunc3, &data). *)
MxCreate ==
  /\ mpc = "mx_create"
  /\ i < N
  /\ tpc' = [tpc EXCEPT ![i + 1] = "lock"]
  /\ i' = i + 1
  /\ UNCHANGED <<cjVars, mpc, value, data, mxLive, lock, A, waiters, spurious, failed>>

(* Lines 112-115: pthread_create failed; test_mutex returns at once, its *)
(* frame (and data) is gone, the threads created so far run on.  main     *)
(* goes on with test_condvar.                                             *)
MxCreateFail ==
  /\ mpc = "mx_create"
  /\ i < N
  /\ CreateMayFail
  /\ failed' = TRUE
  /\ mxLive' = FALSE
  /\ mpc' = "cv_init"
  /\ UNCHANGED <<cjVars, i, tpc, value, data, lock, A, waiters, spurious>>

(* Lines 110 and 118: the create loop is done, the join loop starts. *)
MxCreateEnd ==
  /\ mpc = "mx_create"
  /\ i = N
  /\ mpc' = "mx_join"
  /\ i' = 0
  /\ UNCHANGED <<cjVars, tpc, value, data, mxLive, lock, A, waiters, spurious, failed>>

(* Mutant: the join loop stops one thread short. *)
MxJoinOffByOne ==
  /\ mpc = "mx_join"
  /\ \/ /\ i < N - 1
        /\ tpc[i + 1] = "done"
        /\ i' = i + 1
        /\ UNCHANGED mpc
     \/ /\ i = N - 1
        /\ mpc' = "mx_assert"
        /\ UNCHANGED i
  /\ UNCHANGED <<cjVars, tpc, value, data, mxLive, lock, A, waiters, spurious, failed>>

(* Lines 118-123: pthread_join(t[i], NULL) blocks until thread i+1 has   *)
(* returned; after the last one main goes on to the assert.  A join of a  *)
(* created, joinable thread does not fail.                                *)
MxJoin ==
  /\ mpc = "mx_join"
  /\ \/ /\ i < N
        /\ tpc[i + 1] = "done"
        /\ i' = i + 1
        /\ UNCHANGED mpc
     \/ /\ i = N
        /\ mpc' = "mx_assert"
        /\ UNCHANGED i
  /\ UNCHANGED <<cjVars, tpc, value, data, mxLive, lock, A, waiters, spurious, failed>>

(* Lines 125-127: printf, assert(data == NUM_THREADS) (stated as the     *)
(* invariant AssertHolds) and return: the frame of test_mutex is gone.    *)
MxAssert ==
  /\ mpc = "mx_assert"
  /\ mxLive' = FALSE
  /\ mpc' = "cv_init"
  /\ UNCHANGED <<cjVars, i, tpc, value, data, lock, A, waiters, spurious, failed>>

(* Line 161: pthread_cond_init(&condvar, NULL): nobody waits on it. *)
CvInit ==
  /\ mpc = "cv_init"
  /\ waiters' = {}
  /\ mpc' = "cv_create1"
  /\ UNCHANGED <<cjVars, i, tpc, value, data, mxLive, lock, A, spurious, failed>>

(* Lines 163-164: pthread_create of first (t = First, after "cv_create1") *)
(* or of second; its result is not looked at, main goes on either way.    *)
CvCreate(t, at, next, start) ==
  /\ mpc = at
  /\ mpc' = next
  /\ \/ /\ tpc' = [tpc EXCEPT ![t] = start]
        /\ UNCHANGED failed
     \/ /\ CreateMayFail
        /\ failed' = TRUE
        /\ UNCHANGED tpc
  /\ UNCHANGED <<cjVars, i, value, data, mxLive, lock, A, waiters, spurious>>

(* Lines 166-167: pthread_join(t, NULL) blocks until t has returned.  On *)
(* a handle whose pthread_create failed (t1 or t2 never written) it       *)
(* returns at once with an error.                                          *)
CvJoin(t, at, next) ==
  /\ mpc = at
  /\ tpc[t] \in {"new", "done"}
  /\ mpc' = next
  /\ UNCHANGED <<cjVars, i, tpc, value, data, mxLive, lock, A, waiters, spurious, failed>>

MainStep ==
  \/ TestCreate(CjT1, "cj_create1", "cj_join1", "ce_create")
  \/ TestJoin(CjT1, "cj_join1", "cj_create2", FALSE)
  \/ TestCreate(CjT2, "cj_create2", "cj_join2", "ce_create")
  \/ TestJoin(CjT2, "cj_join2", "cj_print", TRUE)
  \/ TestPrint("cj", "cj_print", "ce_create")
  \/ TestCreate(CeT1, "ce_create", "ce_join", "mx_create")
  \/ TestJoin(CeT1, "ce_join", "ce_print", TRUE)
  \/ TestPrint("ce", "ce_print", "mx_create")
  \/ MxCreate \/ MxCreateFail \/ MxCreateEnd \/ MxJoin \/ MxAssert \/ CvInit
  \/ CvCreate(First, "cv_create1", "cv_create2", "sleep")
  \/ CvCreate(Second, "cv_create2", "cv_join1", "lock")
  \/ CvJoin(First, "cv_join1", "cv_join2")
  \/ CvJoin(Second, "cv_join2", "done")

(* The steps of thread t, its spurious wakeups left out. *)
ThreadStep(t) ==
  \/ t \in Workers /\ (MxLock(t) \/ MxRead(t) \/ MxWrite(t) \/ MxUnlock(t))
  \/ t = First /\ (FirstSleep \/ FirstLock \/ FirstSet \/ FirstSignal \/ FirstUnlock)
  \/ t = Second /\ (SecondLock \/ SecondCheck \/ SecondRelock \/ SecondUnlock)
  \/ t \in {CjT1, CjT2} /\ Func1(t)
  \/ t = CeT1 /\ Func2

Next ==
  \/ MainStep
  \/ \E t \in Threads : ThreadStep(t)
  \/ SecondSpurious

(* Every thread that can run is eventually scheduled.  Each thread takes *)
(* the mutex a bounded number of times (spurious wakeups are bounded), so *)
(* weak fairness suffices even though the mutex does not queue waiters.   *)
Fairness ==
  /\ WF_vars(MainStep)
  /\ \A t \in Threads : WF_vars(ThreadStep(t))

Spec == Init /\ [][Next]_vars /\ Fairness

-----------------------------------------------------------------------------
(* The read-modify-write of ThreadFunc3 loses no update: data always     *)
(* counts the threads that have written it, however their lock, read and *)
(* write steps interleave.                                                *)
DataCountsWrites ==
  data = Cardinality({t \in Workers : tpc[t] \in {"unlock", "done"}})

(* Every step that changes data is the write of line 47 by a ThreadFunc3 *)
(* thread that holds the mutex, and it adds exactly one: the counter is  *)
(* written only under the lock and never moves back or skips.            *)
CounterIncrements ==
  [][data' # data =>
       /\ data' = data + 1
       /\ \E t \in Workers : lock = t /\ tpc[t] = "write"]_vars

(* The assert of line 126: when main reaches it, data == NUM_THREADS. *)
AssertHolds ==
  mpc = "mx_assert" => data = N

(* second leaves its wait loop (line 153) only once first has set A = 1, *)
(* spurious wakeups notwithstanding.                                      *)
SecondSeesA ==
  tpc[Second] = "unlock" => A = 1

(* When every pthread_create succeeds, the program runs to its end: no   *)
(* wakeup of second is lost and every join returns.                       *)
MainCompletes ==
  []~failed => <>(mpc = "done")

(* The mutex and condvar seen through lock and waiters. *)
Mutex == INSTANCE MutexCondvar WITH holder <- lock, waiting <- waiters

(* The program uses lock and condvar as MutexCondvar says: the mutex is *)
(* taken only when free, released, waited on and signalled only by its  *)
(* holder, and a signal wakes at most one waiter.                       *)
MutexSpec == Mutex!Spec

(* What the create tests print is what their joined thread ended with:  *)
(* the return value of ThreadFunc1(s) in test_create_join, the value      *)
(* passed to pthread_exit in test_create_exit, never an indeterminate     *)
(* thread_result.                                                          *)
JoinedResultPrinted ==
  /\ printed["cj"] \in {"none", "ChildReturnMessage"}
  /\ printed["ce"] \in {"none", "ExitMessage"}

(* When test_mutex has returned, no thread it created still has to read  *)
(* or write data, which lived in its stack frame.                         *)
NoDanglingData ==
  ~mxLive => \A t \in Workers : tpc[t] \in {"new", "unlock", "done"}

(* main() runs to its end: "(C)Pthread basic tests run OK!" is printed.  *)
MainReturns ==
  <>(mpc = "done")

=============================================================================
