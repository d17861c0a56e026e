------------------------------- MODULE CpuSet -------------------------------
(***************************************************************************)
(* The CPU-set macros of axlibc's sched.h (lines 15-28) acting on one     *)
(* cpu_set_t: an array of 128 / sizeof(long) unsigned longs (line 16).    *)
(* CPU_SET_S ORs bit i % (8 * sizeof(long)) into word i / 8 /            *)
(* sizeof(long) unless i / 8U >= size (lines 19-24); CPU_ZERO_S is        *)
(* memset(set, 0, size) (line 25), which on the little-endian targets     *)
(* clears the low bytes of a word first.  CPU_SET and CPU_ZERO pass       *)
(* sizeof(cpu_set_t) as size (lines 27-28).  A write outside the array    *)
(* is recorded in overrun.  The set starts uninitialized: the model       *)
(* starts it all zeros or all ones.                                       *)
(***************************************************************************)
EXTENDS Integers, Bitwise

CONSTANTS
  LongSize, \* sizeof(long)
  Indices,  \* the values of i passed to CPU_SET_S and CPU_SET (an int)
  Sizes     \* the sizes passed to CPU_SET_S and CPU_ZERO_S

ASSUME CpuSetAssumption ==
  /\ LongSize \in Nat \ {0} /\ 128 % LongSize = 0
  /\ Indices \subseteq Int
  /\ Sizes \subseteq 0 .. 2^28

(* Line 16: sizeof(cpu_set_t) and the words of __bits. *)
SetBytes == 128
Words == 0 .. 128 \div LongSize - 1
WordBits == 8 * LongSize
WordVals == 0 .. 2^WordBits - 1

VARIABLES
  bits,    \* __bits
  overrun  \* a macro wrote outside the cpu_set_t

vars == <<bits, overrun>>

TypeOK == bits \in [Words -> WordVals] /\ overrun \in BOOLEAN

(* Mutant: the guard computed in signed int, i / 8 >= size. *)
OutOfRangeSigned(i, size) == i \div 8 >= size

(* Line 20: (i) / 8U >= (size).  The int i is converted to unsigned int,  *)
(* so a negative i is i + 2^32 (computed here in 32-bit steps).           *)
OutOfRange(i, size) ==
  (IF i >= 0 THEN i \div 8 ELSE 2^28 + ((i + 2^30) + 2^30) \div 8) >= size

(* Line 21: the word of bit i. *)
WordOf(i) == (i \div 8) \div LongSize

(* Mutant: the bit counted within its byte. *)
BitOfByte(i) == i % 8

(* Line 22: the bit of i within its word, 1UL << (i % (8 * sizeof(long))). *)
BitOf(i) == i % WordBits

(* Mutant: |= written as +=. *)
SetBitAdd(w, b) == w + 2^b

(* Lines 21-24: the op of CPU_SET_S, word |= 1UL << b. *)
SetBit(w, b) == w | 2^b

(* Lines 19-24: CPU_SET_S(i, size, set). *)
CpuSetS(i, size) ==
  IF OutOfRange(i, size)
    THEN UNCHANGED vars
    ELSE LET w == WordOf(i) IN
         IF w \in Words
           THEN /\ bits' = [bits EXCEPT ![w] = SetBit(@, BitOf(i))]
                /\ UNCHANGED overrun
           ELSE /\ overrun' = TRUE
                /\ UNCHANGED bits

(* Word value w with its low n bytes cleared. *)
ClearLowBytes(w, n) == w - (w % 2^(8 * n))

(* Line 25: CPU_ZERO_S(size, set) is memset(set, 0, size). *)
CpuZeroS(size) ==
  /\ bits' = [k \in Words |->
                ClearLowBytes(bits[k], IF size - k * LongSize >= LongSize THEN LongSize
                                       ELSE IF size > k * LongSize THEN size - k * LongSize
                                       ELSE 0)]
  /\ overrun' = (overrun \/ size > SetBytes)

Init ==
  /\ bits \in {[k \in Words |-> 0], [k \in Words |-> 2^WordBits - 1]}
  /\ overrun = FALSE

(* Lines 24-28: the _S macros with the caller's size, CPU_SET and        *)
(* CPU_ZERO with sizeof(cpu_set_t).                                       *)
Next ==
  \/ \E i \in Indices, size \in Sizes : CpuSetS(i, size)
  \/ \E size \in Sizes : CpuZeroS(size)
  \/ \E i \in Indices : CpuSetS(i, SetBytes)
  \/ CpuZeroS(SetBytes)

Spec == Init /\ [][Next]_vars

-----------------------------------------------------------------------------
(* The CPUs whose bit is set: bit c of the set is bit c % (8 * sizeof     *)
(* long) of word c / (8 * sizeof long).                                   *)
Members(b) ==
  {c \in 0 .. 8 * SetBytes - 1 : (b[c \div WordBits] \div 2^(c % WordBits)) % 2 = 1}

Abs == INSTANCE CpuSetAbstract WITH cpus <- Members(bits), Sizes <- Sizes \cup {SetBytes}

(* The macros implement a set of CPU numbers: CPU_SET_S adds exactly CPU  *)
(* i when i is in range for size (a negative i included) and nothing      *)
(* else, CPU_ZERO_S of a size that is not a multiple of sizeof(long)      *)
(* clears exactly the CPUs below 8 * size.                                *)
AbstractSpec == Abs!Spec

(* No macro call with a size up to sizeof(cpu_set_t) writes outside the   *)
(* set, whatever i is.                                                    *)
NoOverrun == ~overrun

=============================================================================
