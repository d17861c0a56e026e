--------------------------- MODULE CpuSetAbstract ---------------------------
(***************************************************************************)
(* What the CPU-set macros of sched.h promise: a cpu_set_t is a set of    *)
(* CPU numbers below 8 * sizeof(cpu_set_t).  CPU_SET_S(i, size, set) adds *)
(* i when it is a CPU number below 8 * size and otherwise does nothing;   *)
(* CPU_ZERO_S(size, set) removes the CPUs below 8 * size.                 *)
(***************************************************************************)
EXTENDS Integers

CONSTANTS
  SetBytes, \* sizeof(cpu_set_t)
  Indices,  \* the CPU numbers i passed to CPU_SET_S
  Sizes     \* the sizes passed to the _S macros

VARIABLE cpus

(* The CPU numbers a set of SetBytes bytes can hold. *)
Cpus == 0 .. 8 * SetBytes - 1

(* An uninitialized cpu_set_t holds any set. *)
Init == cpus \in SUBSET Cpus

Add(i, size) == cpus' = IF 0 <= i /\ i < 8 * size THEN cpus \cup {i} ELSE cpus

Clear(size) == cpus' = {c \in cpus : c >= 8 * size}

Next ==
  \/ \E i \in Indices, size \in Sizes : Add(i, size)
  \/ \E size \in Sizes : Clear(size)

Spec == Init /\ [][Next]_cpus

=============================================================================
