------------------------------ MODULE Accept4 ------------------------------
(***************************************************************************)
(* accept4() of axlibc (src/ulib/axlibc/c/socket.c, lines 19-35), called  *)
(* by several threads of one process on one listening socket.            *)
(*                                                                         *)
(* accept4 is emulated on top of accept(): flags are checked, accept()    *)
(* takes a connection and a new descriptor, and then one fcntl() call per *)
(* requested flag sets FD_CLOEXEC and O_NONBLOCK on it.  accept() and     *)
(* fcntl() are the primitives of the kernel layer, each one atomic step;  *)
(* between them other threads run.  One of them may replace the process   *)
(* image (fork and exec), which inherits every open descriptor that does  *)
(* not carry FD_CLOEXEC at that moment.                                    *)
(*                                                                         *)
(* A flags argument is the set of its bits: SOCK_CLOEXEC, SOCK_NONBLOCK  *)
(* and SOCK_OTHER, the last standing for any bit outside                 *)
(* SOCK_CLOEXEC | SOCK_NONBLOCK.                                          *)
(***************************************************************************)
EXTENDS Integers

CONSTANTS
  Threads,         \* the threads calling accept4
  Fds,             \* descriptor numbers free for new sockets
  MaxConns,        \* number of connections clients make in a behaviour
  ListenBlocking,  \* the listening socket is in blocking mode
  FcntlMayFail,    \* an fcntl() call of the kernel layer may fail
  SOCK_CLOEXEC, SOCK_NONBLOCK, SOCK_OTHER  \* flag bits

ASSUME FdsAssumption == Fds \subseteq Nat
ASSUME MaxConnsAssumption == MaxConns \in Nat
ASSUME ListenBlockingAssumption == ListenBlocking \in BOOLEAN
ASSUME FcntlMayFailAssumption == FcntlMayFail \in BOOLEAN
ASSUME BitsAssumption == SOCK_CLOEXEC # SOCK_NONBLOCK /\ SOCK_OTHER \notin {SOCK_CLOEXEC, SOCK_NONBLOCK}

(* The flags arguments a caller may pass. *)
FlagArgs == SUBSET {SOCK_CLOEXEC, SOCK_NONBLOCK, SOCK_OTHER}

(* errno values a call may leave, "none" when it succeeds. *)
Errnos == {"none", "EINVAL", "EAGAIN", "EMFILE"}

VARIABLES
  pc,         \* pc[t]: "idle", "entry", "setfd", "setfl" or "returned"
  flg,        \* flg[t]: the flags argument of t's call
  ret,        \* ret[t]: the accepted descriptor, or -1
  errno,      \* errno[t]: t's errno after its call
  pending,    \* connections queued on the listening socket
  arrived,    \* connections made so far
  open,       \* descriptors in use
  cloexec,    \* open descriptors carrying FD_CLOEXEC
  nonblock,   \* open descriptors carrying O_NONBLOCK
  reqCloexec, \* open descriptors whose accept4 call asked for SOCK_CLOEXEC
  inherited   \* descriptors a replaced image inherited, with whether
              \* their accept4 call had asked for SOCK_CLOEXEC

vars == <<pc, flg, ret, errno, pending, arrived, open, cloexec, nonblock,
          reqCloexec, inherited>>

TypeOK ==
  /\ pc \in [Threads -> {"idle", "entry", "setfd", "setfl", "returned"}]
  /\ flg \in [Threads -> FlagArgs]
  /\ ret \in [Threads -> Fds \cup {-1}]
  /\ errno \in [Threads -> Errnos]
  /\ pending \in 0 .. MaxConns
  /\ arrived \in 0 .. MaxConns
  /\ open \subseteq Fds
  /\ cloexec \subseteq open
  /\ nonblock \subseteq open
  /\ reqCloexec \subseteq open
  /\ inherited \subseteq [fd : Fds, requested : BOOLEAN]

Init ==
  /\ pc = [t \in Threads |-> "idle"]
  /\ flg = [t \in Threads |-> {}]
  /\ ret = [t \in Threads |-> -1]
  /\ errno = [t \in Threads |-> "none"]
  /\ pending = 0
  /\ arrived = 0
  /\ open = {}
  /\ cloexec = {}
  /\ nonblock = {}
  /\ reqCloexec = {}
  /\ inherited = {}

(* A client connects: the connection waits in the listen queue. *)
Connect ==
  /\ arrived < MaxConns
  /\ arrived' = arrived + 1
  /\ pending' = pending + 1
  /\ UNCHANGED <<pc, flg, ret, errno, open, cloexec, nonblock, reqCloexec, inherited>>

(* Thread t calls accept4(fd, addr, len, f). *)
Call(t, f) ==
  /\ pc[t] = "idle"
  /\ pc' = [pc EXCEPT ![t] = "entry"]
  /\ flg' = [flg EXCEPT ![t] = f]
  /\ ret' = [ret EXCEPT ![t] = -1]
  /\ errno' = [errno EXCEPT ![t] = "none"]
  /\ UNCHANGED <<pending, arrived, open, cloexec, nonblock, reqCloexec, inherited>>

(* The lowest free descriptor, the one a new socket gets. *)
LowestFree == CHOOSE d \in Fds \ open : \A e \in Fds \ open : d <= e

(* accept(fd, addr, len) of thread t: it takes the first queued        *)
(* connection and gives it the lowest free descriptor, with neither flag *)
(* set; with no free descriptor it fails with EMFILE, and on an empty    *)
(* queue it blocks, or fails with EAGAIN on a non-blocking listening     *)
(* socket.  The result is left in ret[t] and errno[t].                    *)
PrimAccept(t) ==
  \/ /\ pending > 0
     /\ open # Fds
     /\ pending' = pending - 1
     /\ open' = open \cup {LowestFree}
     /\ cloexec' = cloexec \ {LowestFree}
     /\ nonblock' = nonblock \ {LowestFree}
     /\ reqCloexec' = IF SOCK_CLOEXEC \in flg[t] THEN reqCloexec \cup {LowestFree}
                                                 ELSE reqCloexec \ {LowestFree}
     /\ ret' = [ret EXCEPT ![t] = LowestFree]
     /\ UNCHANGED errno
  \/ /\ pending > 0
     /\ open = Fds
     /\ ret' = [ret EXCEPT ![t] = -1]
     /\ errno' = [errno EXCEPT ![t] = "EMFILE"]
     /\ UNCHANGED <<pending, open, cloexec, nonblock, reqCloexec>>
  \/ /\ pending = 0
     /\ ~ListenBlocking
     /\ ret' = [ret EXCEPT ![t] = -1]
     /\ errno' = [errno EXCEPT ![t] = "EAGAIN"]
     /\ UNCHANGED <<pending, open, cloexec, nonblock, reqCloexec>>

(* Lines 21-22: no flags, return accept(fd, addr, len) as it is. *)
AcceptPlain(t) ==
  /\ pc[t] = "entry"
  /\ flg[t] = {}
  /\ PrimAccept(t)
  /\ pc' = [pc EXCEPT ![t] = "returned"]
  /\ UNCHANGED <<flg, arrived, inherited>>

(* Mutant: the flags checked only after accept() took a connection. *)
RejectAfterAccept(t) ==
  /\ pc[t] = "entry"
  /\ flg[t] \ {SOCK_CLOEXEC, SOCK_NONBLOCK} # {}
  /\ pending > 0
  /\ open # Fds
  /\ pending' = pending - 1
  /\ open' = open \cup {LowestFree}
  /\ ret' = [ret EXCEPT ![t] = -1]
  /\ errno' = [errno EXCEPT ![t] = "EINVAL"]
  /\ pc' = [pc EXCEPT ![t] = "returned"]
  /\ UNCHANGED <<flg, arrived, cloexec, nonblock, reqCloexec, inherited>>

(* Lines 23-26: a bit outside SOCK_CLOEXEC | SOCK_NONBLOCK is rejected  *)
(* with EINVAL before anything is done.                                   *)
Reject(t) ==
  /\ pc[t] = "entry"
  /\ flg[t] \ {SOCK_CLOEXEC, SOCK_NONBLOCK} # {}
  /\ ret' = [ret EXCEPT ![t] = -1]
  /\ errno' = [errno EXCEPT ![t] = "EINVAL"]
  /\ pc' = [pc EXCEPT ![t] = "returned"]
  /\ UNCHANGED <<flg, pending, arrived, open, cloexec, nonblock, reqCloexec, inherited>>

(* Mutant: a failed accept() goes on to the fcntl() calls (the early    *)
(* return of lines 28-29 dropped).                                       *)
AcceptFlagsNoEarlyReturn(t) ==
  /\ pc[t] = "entry"
  /\ flg[t] # {}
  /\ flg[t] \subseteq {SOCK_CLOEXEC, SOCK_NONBLOCK}
  /\ PrimAccept(t)
  /\ pc' = [pc EXCEPT ![t] = "setfd"]
  /\ UNCHANGED <<flg, arrived, inherited>>

(* Lines 27-29: accept(); a failure is returned as it is. *)
AcceptFlags(t) ==
  /\ pc[t] = "entry"
  /\ flg[t] # {}
  /\ flg[t] \subseteq {SOCK_CLOEXEC, SOCK_NONBLOCK}
  /\ PrimAccept(t)
  /\ pc' = [pc EXCEPT ![t] = IF ret'[t] < 0 THEN "returned" ELSE "setfd"]
  /\ UNCHANGED <<flg, arrived, inherited>>

(* Mutant: FD_CLOEXEC set whatever the flags (the test of line 30      *)
(* dropped).                                                              *)
SetFdAlways(t) ==
  /\ pc[t] = "setfd"
  /\ cloexec' = cloexec \cup {ret[t]}
  /\ pc' = [pc EXCEPT ![t] = "setfl"]
  /\ UNCHANGED <<flg, ret, errno, pending, arrived, open, nonblock, reqCloexec, inherited>>

(* Lines 30-31: fcntl(ret, F_SETFD, FD_CLOEXEC) when asked for.  When   *)
(* the call fails the flag is not set, and its result is ignored.       *)
SetFd(t) ==
  /\ pc[t] = "setfd"
  /\ \/ cloexec' = IF SOCK_CLOEXEC \in flg[t] THEN cloexec \cup {ret[t]} ELSE cloexec
     \/ /\ FcntlMayFail
        /\ SOCK_CLOEXEC \in flg[t]
        /\ UNCHANGED cloexec
  /\ pc' = [pc EXCEPT ![t] = "setfl"]
  /\ UNCHANGED <<flg, ret, errno, pending, arrived, open, nonblock, reqCloexec, inherited>>

(* Lines 32-34: fcntl(ret, F_SETFL, O_NONBLOCK) when asked for, its     *)
(* failure ignored as well, then return ret.                              *)
SetFl(t) ==
  /\ pc[t] = "setfl"
  /\ \/ nonblock' = IF SOCK_NONBLOCK \in flg[t] THEN nonblock \cup {ret[t]} ELSE nonblock
     \/ /\ FcntlMayFail
        /\ SOCK_NONBLOCK \in flg[t]
        /\ UNCHANGED nonblock
  /\ pc' = [pc EXCEPT ![t] = "returned"]
  /\ UNCHANGED <<flg, ret, errno, pending, arrived, open, cloexec, reqCloexec, inherited>>

(* The caller takes the result; it serves an accepted connection and     *)
(* closes its descriptor, which becomes free again.                      *)
Finish(t) ==
  /\ pc[t] = "returned"
  /\ pc' = [pc EXCEPT ![t] = "idle"]
  /\ open' = open \ {ret[t]}
  /\ cloexec' = cloexec \ {ret[t]}
  /\ nonblock' = nonblock \ {ret[t]}
  /\ reqCloexec' = reqCloexec \ {ret[t]}
  /\ UNCHANGED <<flg, ret, errno, pending, arrived, inherited>>

(* Another thread of the process forks and executes a new image, which   *)
(* inherits every open descriptor without FD_CLOEXEC.                    *)
Exec ==
  /\ inherited' = inherited \cup
       {[fd |-> d, requested |-> d \in reqCloexec] : d \in open \ cloexec}
  /\ UNCHANGED <<pc, flg, ret, errno, pending, arrived, open, cloexec, nonblock, reqCloexec>>

Next ==
  \/ Connect
  \/ Exec
  \/ \E t \in Threads :
       \/ \E f \in FlagArgs : Call(t, f)
       \/ AcceptPlain(t)
       \/ Reject(t)
       \/ AcceptFlags(t)
       \/ SetFd(t)
       \/ SetFl(t)
       \/ Finish(t)

Spec == Init /\ [][Next]_vars

-----------------------------------------------------------------------------
(* When accept4 returns a descriptor, its FD_CLOEXEC and O_NONBLOCK      *)
(* attributes are exactly the flags the call asked for (spec.md 8, first *)
(* property), whatever the other threads did in between.                 *)
FlagsApplied ==
  \A t \in Threads :
    pc[t] = "returned" /\ ret[t] \in Fds =>
      /\ ret[t] \in cloexec <=> SOCK_CLOEXEC \in flg[t]
      /\ ret[t] \in nonblock <=> SOCK_NONBLOCK \in flg[t]

(* Even when an fcntl() call fails, a descriptor accept4 returns never  *)
(* carries an attribute its call did not ask for, although descriptor    *)
(* numbers are reused: an attribute set for an earlier connection on the *)
(* same number, by another thread's call, does not survive to the next.  *)
FlagsNeverExtra ==
  \A t \in Threads :
    pc[t] = "returned" /\ ret[t] \in Fds =>
      /\ ret[t] \in cloexec => SOCK_CLOEXEC \in flg[t]
      /\ ret[t] \in nonblock => SOCK_NONBLOCK \in flg[t]

(* accept4 takes a connection off the listen queue only in a step of a  *)
(* call whose flags lines 23-26 let through, and that step hands the     *)
(* connection's new descriptor to that call.  So a call with an invalid  *)
(* flag never consumes a client connection or a descriptor, at any step  *)
(* of the call, whatever the other threads do (spec.md 8: rejection is   *)
(* idempotent).                                                           *)
OnlyValidCallsAccept ==
  [][pending' < pending =>
       \E t \in Threads :
         /\ pc[t] = "entry"
         /\ flg[t] \subseteq {SOCK_CLOEXEC, SOCK_NONBLOCK}
         /\ ret'[t] \in open' \ open]_vars

(* No descriptor accepted with SOCK_CLOEXEC is ever inherited by a       *)
(* replaced process image: the point of the flag, which accept4 gives    *)
(* atomically in POSIX.                                                   *)
NoCloexecLeak ==
  \A e \in inherited : ~e.requested

=============================================================================
