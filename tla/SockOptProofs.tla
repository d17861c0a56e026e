--------------------------- MODULE SockOptProofs ---------------------------
(***************************************************************************)
(* Proofs about the getsockopt/setsockopt stubs of SockOpt, for every     *)
(* size of int and of the option buffer.                                  *)
(*                                                                         *)
(* TypeOK is not inductive by itself: a step that returns from a call     *)
(* keeps optval and optlen, so they must be arguments the caller can     *)
(* pass, which holds because the call in progress is the call made.       *)
(***************************************************************************)
EXTENDS SockOpt, TLAPS

(* A call in progress is the call the caller made, with arguments the    *)
(* caller may pass.                                                       *)
CallShape ==
  /\ pc \in {"get", "set"} => op = pc
  /\ pc \in {"get", "set", "returned", "faulted"} =>
       optval \in Optvals /\ optlen \in OptLens

StubIInv == TypeOK /\ CallShape

LEMMA InitStubIInv == Init => StubIInv
BY DEF Init, StubIInv, TypeOK, CallShape

LEMMA NextStubIInv == StubIInv /\ [Next]_vars => StubIInv'
<1> SUFFICES ASSUME StubIInv, [Next]_vars PROVE StubIInv'
  OBVIOUS
<1>1. ASSUME NEW o \in {"get", "set"}, NEW v \in Optvals, NEW l \in OptLens,
             NEW b \in Buffers, Call(o, v, l, b)
      PROVE StubIInv'
  BY <1>1 DEF StubIInv, TypeOK, CallShape, Call
<1>2. CASE Getsockopt
  BY <1>2 DEF StubIInv, TypeOK, CallShape, Getsockopt
<1>3. CASE Setsockopt
  BY <1>3 DEF StubIInv, TypeOK, CallShape, Setsockopt
<1>4. CASE Return
  BY <1>4 DEF StubIInv, TypeOK, CallShape, Return
<1>5. CASE UNCHANGED vars
  BY <1>5 DEF StubIInv, TypeOK, CallShape, vars
<1>6. QED
  BY <1>1, <1>2, <1>3, <1>4, <1>5 DEF Next

(* Type correctness of the stubs' state: in particular setsockopt       *)
(* (lines 43-48) returns only 0 and getsockopt (lines 37-41) only -1, and *)
(* neither writes errno.                                                  *)
THEOREM TypeCorrect == Spec => []TypeOK
<1>1. StubIInv => TypeOK
  BY DEF StubIInv
<1>. QED
  BY <1>1, InitStubIInv, NextStubIInv, PTL DEF Spec
=============================================================================
