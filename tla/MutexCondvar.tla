--------------------------- MODULE MutexCondvar ---------------------------
(***************************************************************************)
(* What the pthread test program (src/apps/c/pthread/basic/main.c) asks  *)
(* of the static mutex lock (line 36) and of condvar (line 130), as its  *)
(* threads use them: a thread takes the mutex only when it is free and   *)
(* not waiting; only the holder releases it, waits on condvar (releasing *)
(* it and joining the wait set in one step) or signals; a signal wakes   *)
(* at most one waiter; a waiter may also wake spuriously.                *)
(***************************************************************************)
CONSTANTS
  Threads,  \* the program's threads
  NoThread  \* the holder of a free mutex

VARIABLES
  holder,   \* the thread holding the mutex, or NoThread
  waiting   \* the threads blocked in pthread_cond_wait

mvars == <<holder, waiting>>

(* PTHREAD_MUTEX_INITIALIZER; condvar has no waiter. *)
Init == holder = NoThread /\ waiting = {}

(* pthread_mutex_lock by t, or the relock inside pthread_cond_wait. *)
Acquire(t) ==
  /\ holder = NoThread
  /\ t \notin waiting
  /\ holder' = t
  /\ UNCHANGED waiting

(* pthread_mutex_unlock by the holder. *)
Release(t) ==
  /\ holder = t
  /\ holder' = NoThread
  /\ UNCHANGED waiting

(* pthread_cond_wait by the holder: release the mutex and block, at once. *)
Wait(t) ==
  /\ holder = t
  /\ holder' = NoThread
  /\ waiting' = waiting \cup {t}

(* pthread_cond_signal by the holder: at most one waiter is woken. *)
Signal(t) ==
  /\ holder = t
  /\ \/ waiting = {} /\ UNCHANGED waiting
     \/ \E w \in waiting : waiting' = waiting \ {w}
  /\ UNCHANGED holder

(* A spurious wakeup of waiter t. *)
Wake(t) ==
  /\ t \in waiting
  /\ waiting' = waiting \ {t}
  /\ UNCHANGED holder

Next ==
  \E t \in Threads :
    Acquire(t) \/ Release(t) \/ Wait(t) \/ Signal(t) \/ Wake(t)

Spec == Init /\ [][Next]_mvars

=============================================================================
