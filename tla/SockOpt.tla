------------------------------ MODULE SockOpt ------------------------------
(***************************************************************************)
(* getsockopt() and setsockopt() of axlibc (src/ulib/axlibc/c/socket.c,   *)
(* lines 37-48): stubs.  getsockopt calls unimplemented() and returns -1; *)
(* setsockopt passes its arguments to unimplemented(), among them the     *)
(* value read as the int at optval, and returns 0.  Neither writes errno  *)
(* nor the caller's buffer.                                               *)
(*                                                                         *)
(* The stubs keep no state between calls, so one caller is modelled.  Its *)
(* option buffer is BufLen bytes; optval points to it or is NULL.  optlen *)
(* only goes to the log line: the read at line 46 is of sizeof(int) bytes *)
(* whatever optlen says.  The read is undefined when optval is NULL (or   *)
(* the buffer is shorter than an int): the build either reads whatever    *)
(* lies there or takes a memory fault, and the model lets either happen. *)
(***************************************************************************)
EXTENDS Integers

CONSTANTS
  IntSize,    \* sizeof(int)
  BufLen,     \* size of the caller's option buffer
  OptLens,    \* optlen values the caller passes
  Optvals,    \* optval arguments: "buf" (the caller's buffer) and/or "NULL"
  ByteVals    \* values a byte of the buffer may hold

ASSUME IntSizeAssumption == IntSize \in Nat \ {0}
ASSUME OptLensAssumption == OptLens \subseteq Nat
ASSUME OptvalsAssumption == Optvals \subseteq {"buf", "NULL"}

Buffers == [0 .. BufLen - 1 -> ByteVals]

VARIABLES
  pc,     \* "idle", "get" or "set" during a call, "returned", "faulted"
  op,     \* the call in progress or last made: "get" or "set"
  optval, \* its optval argument
  optlen, \* its optlen argument
  buf,    \* the caller's option buffer
  ret,    \* the call's result
  errno   \* the caller's errno, "none" before any failing call

vars == <<pc, op, optval, optlen, buf, ret, errno>>

TypeOK ==
  /\ pc \in {"idle", "get", "set", "returned", "faulted"}
  /\ op \in {"none", "get", "set"}
  /\ optval \in Optvals \cup {"none"}
  /\ optlen \in OptLens \cup {0}
  /\ buf \in Buffers
  /\ ret \in {-1, 0}
  /\ errno = "none"

(* No call made yet; the caller's buffer holds whatever it last wrote   *)
(* there.                                                                 *)
Init ==
  /\ pc = "idle"
  /\ op = "none"
  /\ optval = "none"
  /\ optlen = 0
  /\ buf \in Buffers
  /\ ret = 0
  /\ errno = "none"

(* The caller fills its buffer and calls getsockopt or setsockopt. *)
Call(o, v, l, b) ==
  /\ pc = "idle"
  /\ pc' = o
  /\ op' = o
  /\ optval' = v
  /\ optlen' = l
  /\ buf' = b
  /\ UNCHANGED <<ret, errno>>

(* Lines 37-41: unimplemented(), then return -1.  No errno is set. *)
Getsockopt ==
  /\ pc = "get"
  /\ pc' = "returned"
  /\ ret' = -1
  /\ UNCHANGED <<op, optval, optlen, buf, errno>>

(* Whether the int read at optval (line 46) lies inside memory the      *)
(* caller owns: optval is its buffer and the buffer holds an int.  The   *)
(* length read is sizeof(int), not optlen.                                *)
ReadsOption(v) == v = "buf" /\ BufLen >= IntSize

(* Mutant: setsockopt returning the length of the option it consumed.  *)
SetsockoptReturnsLen ==
  /\ pc = "set"
  /\ \/ ReadsOption(optval) /\ pc' = "returned"
     \/ ~ReadsOption(optval) /\ pc' \in {"returned", "faulted"}
  /\ ret' = optlen
  /\ UNCHANGED <<op, optval, optlen, buf, errno>>

(* Lines 43-48: unimplemented(...) with the int at optval among its    *)
(* arguments, then return 0.  An undefined read may fault.              *)
Setsockopt ==
  /\ pc = "set"
  /\ \/ ReadsOption(optval) /\ pc' = "returned"
     \/ ~ReadsOption(optval) /\ pc' \in {"returned", "faulted"}
  /\ ret' = 0
  /\ UNCHANGED <<op, optval, optlen, buf, errno>>

(* The caller takes the result. *)
Return ==
  /\ pc = "returned"
  /\ pc' = "idle"
  /\ UNCHANGED <<op, optval, optlen, buf, ret, errno>>

Next ==
  \/ \E o \in {"get", "set"}, v \in Optvals, l \in OptLens, b \in Buffers :
       Call(o, v, l, b)
  \/ Getsockopt
  \/ Setsockopt
  \/ Return

Spec == Init /\ [][Next]_vars

-----------------------------------------------------------------------------
(* Spec.md 6: setsockopt returns 0 on any input, rather than faulting on *)
(* the read of the option value at line 46.                              *)
SetsockoptTotal == pc # "faulted"

=============================================================================
