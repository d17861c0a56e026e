--------------------------- MODULE Accept4Proofs ---------------------------
(***************************************************************************)
(* Proofs about Accept4 for every set of threads and descriptors: the     *)
(* variables keep their types, a returned descriptor carries no attribute *)
(* its call did not ask for, it carries every attribute asked for when   *)
(* fcntl() cannot fail, and only a call with valid flags takes a        *)
(* connection off the listen queue, receiving its new descriptor.        *)
(***************************************************************************)
EXTENDS Accept4, WellFoundedInduction, TLAPS

-----------------------------------------------------------------------------
(* accept() of the kernel layer: while a descriptor is free, the lowest  *)
(* free one exists.                                                       *)
LEMMA LowestFreeFree ==
  ASSUME NEW o \in SUBSET Fds, o # Fds
  PROVE  (CHOOSE d \in Fds \ o : \A e \in Fds \ o : d <= e) \in Fds \ o
<1> DEFINE T == Fds \ o
           R == OpToRel(<, Nat)
<1>1. T \subseteq Nat /\ T # {}
  BY FdsAssumption
<1>2. \E x \in T : \A y \in T : ~(<<y, x>> \in R)
  BY <1>1, NatLessThanWellFounded, WFMin
<1>3. PICK x \in T : \A y \in T : ~(<<y, x>> \in R)
  BY <1>2
<1>4. \A y \in T : x <= y
  <2> TAKE y \in T
  <2>1. <<y, x>> \in Nat \X Nat
    BY <1>1
  <2>2. ~(y < x)
    BY <1>3, <2>1, Zenon DEF OpToRel
  <2>3. QED
    BY <1>1, <2>2
<1>5. QED
  BY <1>4

(* The same, for the operator of Accept4. *)
LEMMA LowestFreeIn ==
  ASSUME open \subseteq Fds, open # Fds
  PROVE  LowestFree \in Fds \ open
BY LowestFreeFree DEF LowestFree

-----------------------------------------------------------------------------
(* A thread holds a descriptor between a successful accept() and the     *)
(* close that follows its return.                                         *)
Held(t) == pc[t] \in {"setfd", "setfl", "returned"} /\ ret[t] \in Fds

(* The inductive invariant: ThreadInv(t) for every thread t, and        *)
(* Distinct.  FlagsApplied and FlagsNeverExtra are not inductive: a step *)
(* of another thread must be shown not to touch the attributes of t's    *)
(* descriptor, which needs that a held descriptor is open and held by no *)
(* other thread (accept() only hands out free ones); and the attributes  *)
(* must be tracked across the two fcntl() steps.                          *)
ThreadInv(t) ==
  /\ pc[t] \in {"entry", "setfd", "setfl"} => errno[t] = "none"
  /\ pc[t] \in {"setfd", "setfl"} => ret[t] \in Fds
  /\ Held(t) => ret[t] \in open
  /\ pc[t] = "setfd" => ret[t] \notin cloexec \cup nonblock
  /\ pc[t] = "setfl" =>
       /\ ret[t] \notin nonblock
       /\ ret[t] \in cloexec => SOCK_CLOEXEC \in flg[t]
       /\ ~FcntlMayFail /\ SOCK_CLOEXEC \in flg[t] => ret[t] \in cloexec
  /\ pc[t] = "returned" /\ ret[t] \in Fds =>
       /\ ret[t] \in cloexec => SOCK_CLOEXEC \in flg[t]
       /\ ret[t] \in nonblock => SOCK_NONBLOCK \in flg[t]
       /\ ~FcntlMayFail /\ SOCK_CLOEXEC \in flg[t] => ret[t] \in cloexec
       /\ ~FcntlMayFail /\ SOCK_NONBLOCK \in flg[t] => ret[t] \in nonblock

(* No two threads hold the same descriptor. *)
Distinct == \A t, u \in Threads : t # u /\ Held(t) /\ Held(u) => ret[t] # ret[u]

IInv ==
  /\ TypeOK
  /\ pending <= arrived
  /\ \A t \in Threads : ThreadInv(t)
  /\ Distinct

-----------------------------------------------------------------------------
(* What accept() does, for the proofs: it either hands t the lowest free *)
(* descriptor, fresh without either attribute, or fails and leaves the   *)
(* queue and the table alone.                                             *)
LEMMA PrimAcceptEffect ==
  ASSUME IInv, NEW t \in Threads, PrimAccept(t)
  PROVE  \/ /\ LowestFree \in Fds \ open
            /\ pending > 0
            /\ pending' = pending - 1
            /\ open' = open \cup {LowestFree}
            /\ cloexec' = cloexec \ {LowestFree}
            /\ nonblock' = nonblock \ {LowestFree}
            /\ reqCloexec' \subseteq reqCloexec \cup {LowestFree}
            /\ ret' = [ret EXCEPT ![t] = LowestFree]
            /\ errno' = errno
         \/ /\ ret' = [ret EXCEPT ![t] = -1]
            /\ errno' \in [Threads -> Errnos]
            /\ \A u \in Threads \ {t} : errno'[u] = errno[u]
            /\ errno'[t] \in {"EMFILE", "EAGAIN"}
            /\ UNCHANGED <<pending, open, cloexec, nonblock, reqCloexec>>
<1>1. CASE pending > 0 /\ open # Fds
  <2>1. LowestFree \in Fds \ open
    BY <1>1, LowestFreeIn DEF IInv, TypeOK
  <2>2. QED
    BY <1>1, <2>1 DEF PrimAccept
<1>2. CASE ~(pending > 0 /\ open # Fds)
  BY <1>2 DEF PrimAccept, IInv, TypeOK, Errnos
<1>3. QED
  BY <1>1, <1>2

(* Descriptors are natural numbers (so never the -1 of a failed call), *)
(* and the connection bound is a natural number.                       *)
USE FdsAssumption, MaxConnsAssumption

(* The invariant holds initially. *)
LEMMA InitIInv == Init => IInv
BY DEF Init, IInv, TypeOK, ThreadInv, Distinct, Held, FlagArgs, Errnos

(* Every step keeps the invariant. *)
LEMMA NextIInv == IInv /\ [Next]_vars => IInv'
<1> SUFFICES ASSUME IInv, [Next]_vars PROVE IInv'
  OBVIOUS
<1> USE FdsAssumption, MaxConnsAssumption
<1>1. CASE Connect
  BY <1>1 DEF Connect, IInv, TypeOK, ThreadInv, Distinct, Held
<1>2. CASE Exec
  <2>0. ASSUME NEW d \in open \ cloexec
        PROVE  [fd |-> d, requested |-> d \in reqCloexec] \in [fd : Fds, requested : BOOLEAN]
    BY DEF IInv, TypeOK
  <2>1. inherited' \subseteq [fd : Fds, requested : BOOLEAN]
    <3>1. inherited \subseteq [fd : Fds, requested : BOOLEAN]
      BY DEF IInv, TypeOK
    <3>2. QED
      BY <1>2, <2>0, <3>1, Zenon DEF Exec
  <2>2. QED
    BY <1>2, <2>1 DEF Exec, IInv, TypeOK, ThreadInv, Distinct, Held
<1>3. ASSUME NEW t \in Threads, NEW f \in FlagArgs, Call(t, f) PROVE IInv'
  BY <1>3 DEF Call, IInv, TypeOK, ThreadInv, Distinct, Held, Errnos
<1>4. ASSUME NEW t \in Threads, AcceptPlain(t) PROVE IInv'
  <2>1. flg[t] = {}
    BY <1>4 DEF AcceptPlain
  <2>2. CASE /\ LowestFree \in Fds \ open
             /\ pending > 0
             /\ pending' = pending - 1
             /\ open' = open \cup {LowestFree}
             /\ cloexec' = cloexec \ {LowestFree}
             /\ nonblock' = nonblock \ {LowestFree}
             /\ reqCloexec' \subseteq reqCloexec \cup {LowestFree}
             /\ ret' = [ret EXCEPT ![t] = LowestFree]
             /\ errno' = errno
    BY <1>4, <2>1, <2>2 DEF AcceptPlain, IInv, TypeOK, ThreadInv, Distinct, Held
  <2>3. CASE /\ ret' = [ret EXCEPT ![t] = -1]
             /\ errno' \in [Threads -> Errnos]
             /\ \A u \in Threads \ {t} : errno'[u] = errno[u]
             /\ errno'[t] \in {"EMFILE", "EAGAIN"}
             /\ UNCHANGED <<pending, open, cloexec, nonblock, reqCloexec>>
    BY <1>4, <2>3 DEF AcceptPlain, IInv, TypeOK, ThreadInv, Distinct, Held
  <2>4. QED
    BY <1>4, <2>2, <2>3, PrimAcceptEffect DEF AcceptPlain
<1>5. ASSUME NEW t \in Threads, Reject(t) PROVE IInv'
  BY <1>5 DEF Reject, IInv, TypeOK, ThreadInv, Distinct, Held, Errnos
<1>6. ASSUME NEW t \in Threads, AcceptFlags(t) PROVE IInv'
  <2>2. CASE /\ LowestFree \in Fds \ open
             /\ pending > 0
             /\ pending' = pending - 1
             /\ open' = open \cup {LowestFree}
             /\ cloexec' = cloexec \ {LowestFree}
             /\ nonblock' = nonblock \ {LowestFree}
             /\ reqCloexec' \subseteq reqCloexec \cup {LowestFree}
             /\ ret' = [ret EXCEPT ![t] = LowestFree]
             /\ errno' = errno
    <3>0. ret'[t] = LowestFree /\ LowestFree \in Nat
      BY <2>2 DEF IInv, TypeOK
    <3>1. pc' = [pc EXCEPT ![t] = "setfd"]
      <4>1. ~(ret'[t] < 0)
        BY <3>0
      <4>2. QED
        BY <1>6, <4>1, Zenon DEF AcceptFlags
    <3>2. QED
      BY <1>6, <2>2, <3>1 DEF AcceptFlags, IInv, TypeOK, ThreadInv, Distinct, Held
  <2>3. CASE /\ ret' = [ret EXCEPT ![t] = -1]
             /\ errno' \in [Threads -> Errnos]
             /\ \A u \in Threads \ {t} : errno'[u] = errno[u]
             /\ errno'[t] \in {"EMFILE", "EAGAIN"}
             /\ UNCHANGED <<pending, open, cloexec, nonblock, reqCloexec>>
    <3>1. pc' = [pc EXCEPT ![t] = "returned"]
      BY <1>6, <2>3 DEF AcceptFlags, IInv, TypeOK
    <3>2. QED
      BY <1>6, <2>3, <3>1 DEF AcceptFlags, IInv, TypeOK, ThreadInv, Distinct, Held
  <2>4. QED
    BY <1>6, <2>2, <2>3, PrimAcceptEffect DEF AcceptFlags
<1>7. ASSUME NEW t \in Threads, SetFd(t) PROVE IInv'
  BY <1>7 DEF SetFd, IInv, TypeOK, ThreadInv, Distinct, Held
<1>8. ASSUME NEW t \in Threads, SetFl(t) PROVE IInv'
  BY <1>8 DEF SetFl, IInv, TypeOK, ThreadInv, Distinct, Held
<1>9. ASSUME NEW t \in Threads, Finish(t) PROVE IInv'
  BY <1>9 DEF Finish, IInv, TypeOK, ThreadInv, Distinct, Held
<1>10. CASE UNCHANGED vars
  BY <1>10 DEF vars, IInv, TypeOK, ThreadInv, Distinct, Held
<1>11. QED
  BY <1>1, <1>2, <1>3, <1>4, <1>5, <1>6, <1>7, <1>8, <1>9, <1>10 DEF Next

-----------------------------------------------------------------------------
(* The variables of accept4 keep their types in every reachable state. *)
THEOREM TypeCorrect == Spec => []TypeOK
<1>1. IInv => TypeOK
  BY DEF IInv
<1>2. QED
  BY <1>1, InitIInv, NextIInv, PTL DEF Spec

(* Whatever the other threads do between accept() and the two fcntl()    *)
(* calls, and even when an fcntl() fails unnoticed (line 31 and line 33  *)
(* ignore its result), a descriptor accept4 returns carries no attribute *)
(* its call did not ask for.                                              *)
THEOREM NoExtraFlags == Spec => []FlagsNeverExtra
<1>1. IInv => FlagsNeverExtra
  BY DEF IInv, ThreadInv, FlagsNeverExtra
<1>2. QED
  BY <1>1, InitIInv, NextIInv, PTL DEF Spec

(* When fcntl() does not fail, a descriptor accept4 returns carries      *)
(* exactly the attributes its call asked for, whatever the other threads *)
(* did in between.                                                        *)
THEOREM FlagsExact ==
  ASSUME ~FcntlMayFail
  PROVE  Spec => []FlagsApplied
<1>1. IInv => FlagsApplied
  BY FcntlMayFailAssumption DEF IInv, ThreadInv, FlagsApplied
<1>2. QED
  BY <1>1, InitIInv, NextIInv, PTL DEF Spec

(* A step that takes a connection off the listen queue is the accept() *)
(* of a call at lines 27-28 or 21-22, past the flag test of lines 23-26, *)
(* and hands the new descriptor to that call: a call with an invalid     *)
(* flag never consumes a connection, at any of its steps.                 *)
THEOREM OnlyValidAccepts == Spec => OnlyValidCallsAccept
<1> DEFINE Valid(t) == /\ pc[t] = "entry"
                       /\ flg[t] \subseteq {SOCK_CLOEXEC, SOCK_NONBLOCK}
           A == pending' < pending =>
                  \E t \in Threads :
                    /\ pc[t] = "entry"
                    /\ flg[t] \subseteq {SOCK_CLOEXEC, SOCK_NONBLOCK}
                    /\ ret'[t] \in open' \ open
<1>1. ASSUME IInv, NEW t \in Threads, PrimAccept(t), Valid(t) PROVE A
  <2>1. CASE pending' = pending - 1 /\ open' = open \cup {LowestFree}
             /\ LowestFree \in Fds \ open /\ ret' = [ret EXCEPT ![t] = LowestFree]
    <3>1. ret'[t] \in open' \ open
      BY <1>1, <2>1 DEF IInv, TypeOK
    <3>. QED
      BY <1>1, <3>1, Zenon
  <2>2. CASE pending' = pending
    BY <1>1, <2>2 DEF IInv, TypeOK
  <2>3. \/ /\ pending' = pending - 1 /\ open' = open \cup {LowestFree}
           /\ LowestFree \in Fds \ open /\ ret' = [ret EXCEPT ![t] = LowestFree]
        \/ pending' = pending
    BY <1>1, PrimAcceptEffect
  <2>. QED
    BY <2>1, <2>2, <2>3
<1>2. IInv /\ [Next]_vars => [A]_vars
  <2> SUFFICES ASSUME IInv, [Next]_vars PROVE [A]_vars
    OBVIOUS
  <2> USE DEF IInv, TypeOK
  <2>1. CASE Connect
    BY <2>1 DEF Connect
  <2>2. CASE Exec
    BY <2>2 DEF Exec
  <2>3. ASSUME NEW t \in Threads, NEW f \in FlagArgs, Call(t, f) PROVE [A]_vars
    BY <2>3 DEF Call
  <2>4. ASSUME NEW t \in Threads, AcceptPlain(t) PROVE [A]_vars
    <3>1. Valid(t)
      BY <2>4 DEF AcceptPlain
    <3>. QED
      BY <2>4, <3>1, <1>1 DEF AcceptPlain
  <2>5. ASSUME NEW t \in Threads, Reject(t) PROVE [A]_vars
    BY <2>5 DEF Reject
  <2>6. ASSUME NEW t \in Threads, AcceptFlags(t) PROVE [A]_vars
    <3>1. Valid(t)
      BY <2>6 DEF AcceptFlags
    <3>. QED
      BY <2>6, <3>1, <1>1 DEF AcceptFlags
  <2>7. ASSUME NEW t \in Threads, SetFd(t) PROVE [A]_vars
    BY <2>7 DEF SetFd
  <2>8. ASSUME NEW t \in Threads, SetFl(t) PROVE [A]_vars
    BY <2>8 DEF SetFl
  <2>9. ASSUME NEW t \in Threads, Finish(t) PROVE [A]_vars
    BY <2>9 DEF Finish
  <2>10. CASE UNCHANGED vars
    BY <2>10 DEF vars
  <2>11. QED
    BY <2>1, <2>2, <2>3, <2>4, <2>5, <2>6, <2>7, <2>8, <2>9, <2>10 DEF Next
<1>3. QED
  BY <1>2, InitIInv, NextIInv, PTL DEF Spec, OnlyValidCallsAccept

=============================================================================
