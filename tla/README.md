# Verification of the rukos axlibc socket shim and the C test programs

This directory holds TLA+ models of the C code under `src/`, the TLC
configurations that model-check them, and TLAPS proofs about them. The
models are derived from the source. Each model definition is mapped to the
lines it translates in `PROJECT.json` ("map").

## 1. The system and its parts

| Part | Source | What it does | Module(s) | Status |
|---|---|---|---|---|
| SendMessageShim + AncillaryRepacker | `src/ulib/axlibc/c/socket.c` 53-91 | `sendmsg`: copies the `msghdr` and clears its padding. On LP64 it copies the control block into the stack buffer `chbuf` (ENOMEM if the block is too large) and clears `__pad1` of every `cmsghdr` it walks. It then calls `ax_sendmsg`. | `SendMsg`, `SendMsgAbstract`, `CmsgRecords`, `MC_SendMsg`, `SendMsgProofs`, `SendMsgRefinement` | modelled |
| AcceptFlagAdapter | `socket.c` 19-35 | `accept4` emulated as `accept` followed by one `fcntl` per flag. | `Accept4`, `MC_Accept4`, `Accept4Proofs` | modelled |
| OptionStubPolicy | `socket.c` 37-48 | `getsockopt` calls `unimplemented()` and returns -1. `setsockopt` logs its arguments, among them the int at `optval`, and returns 0. | `SockOpt`, `MC_SockOpt` | modelled |
| pthread test program | `src/apps/c/pthread/basic/main.c` | `test_create_join` and `test_create_exit` join threads and print what they returned. `test_mutex` runs `NUM_THREADS` increments under `lock`. `test_condvar` has `second` wait on `condvar` until `first` sets `A`. | `PthreadSync`, `MutexCondvar` | modelled |
| memtest program | `src/apps/c/memtest/memtest.c` | Allocates and frees `n` blocks, checks `setenv`/`getenv`, checks `argc` and `argv`. | `Memtest`, `MC_Memtest` | modelled |
| systime program | `src/apps/c/systime/main.c` | Reads the clock, sleeps 3 s, reads it, sets it, reads it. | none | not modelled (clock I/O, see section 6) |
| CPU-set macros | `src/ulib/axlibc/include/sched.h` 15-28 | `cpu_set_t` and `CPU_SET_S`, `CPU_ZERO_S`, `CPU_SET`, `CPU_ZERO`. | `CpuSet`, `CpuSetAbstract`, `MC_CpuSet` | modelled |
| `unistd.h` | `src/ulib/axlibc/include/unistd.h` | Prototypes and `sysconf` constants | none | not modelled (no behaviour) |

The socket components share no state (spec section 5): every buffer lives on
the caller's stack. Their only interactions are with the kernel primitives
they call (`accept`, `fcntl`, `ax_sendmsg`) and, for `accept4`, with the rest
of the process through the descriptor table: another thread may fork and
exec while a call is in progress. The pthread program is the one part where
threads share memory: `data`, `A`, the static mutex `lock` and `condvar`.
The other test programs are sequential; what makes them interesting is
what the library may return to them (a NULL from `malloc`, a `setenv`
that keeps or replaces a value) and what they do with it.

## 2. The modules

### `SendMsg` (sendmsg)

- **State.** `pc` is the place in `sendmsg`: idle, entry, walk (the `for` loop), send, or returned.
- **Message abstraction.** A message is a record:
  - `ctllen` is `msg_controllen`.
  - `cmsgLen[o]` is the `cmsg_len` field at each word-aligned offset `o` where a whole header fits.
  - `cmsgPad[o]` is the `__pad1` field at that offset.
  - `pad1` and `pad2` are the `msghdr` padding.

  Level, type and payload bytes are never touched by the code, so they are left out.
- **Variables.** `msg` is the caller's message. `h` is the local copy, and its control block is `chbuf`. `c` is the loop cursor. `sent` is what reached `ax_sendmsg`. `ret` is the result.
- **Macros as operators.** `CmsgAlign`, `CmsgSpace`, `Cap` (the size of `chbuf`), `FitsChbuf` (the test at line 79), `FirstHdr` and `NxtHdr` translate the macros of lines 53-64 literally. That includes `>=` in `CMSG_NXTHDR` and the malformed-length test.
- **Actions.** `Call`, then `Entry` (lines 74-84, with one disjunct each for: no repacking, empty block, ENOMEM, copy and first header), `WalkStep` (line 86 followed by `CMSG_NXTHDR`), `WalkExit`, `Send` and `Return`. `Return` ends the call and discards its stack.
- **Concurrency.** Calls of different threads share nothing, so one call at a time is modelled.

`CmsgRecords` states the reference: the records of a block as spec section
4.2 defines them. It is a recursive function that steps from offset 0
across records whose header and declared length fit. It is used only by
TLC's runs.

`SendMsgAbstract` is what a caller can rely on, one atomic step per call
(`Complete`). The call either forwards the message unchanged (a null
message, or a non-LP64 build), or fails with ENOMEM without sending when the
block does not fit, or sends a member of `Repacks(msg)`. `Repacks(msg)` is
the set of copies whose lengths are the caller's and which differ from it only
in zeroed padding. Which `__pad1` words are cleared is left open there; the
walk decides it. `SendMsg` defines `Abs`, an `INSTANCE` of it: entry, walk
and send all map to the abstract `busy`, and `h` and `c` are hidden.

### `Accept4` (accept4)

- **Threads.** Each thread has a `pc`: idle, entry, setfd, setfl, or returned.
- **Shared state.** The listen queue (`pending`), the open descriptors, the descriptors that carry FD_CLOEXEC (`cloexec`) or O_NONBLOCK (`nonblock`), and the history `inherited` of descriptors that an exec'd image received.
- **Actions.**
  - `AcceptPlain` is lines 21-22.
  - `Reject` is lines 23-26.
  - `AcceptFlags` is lines 27-29, with the early return.
  - `SetFd` is lines 30-31.
  - `SetFl` is lines 32-34.
- **`accept()` itself.** `PrimAccept` models it from its POSIX contract, because it is not in `src/`. It takes a connection, gives the lowest free descriptor with no flags, and fails with EMFILE on a full table or EAGAIN on an empty queue.
- **Fault mode.** When `FcntlMayFail`, either `fcntl` call may fail and leave the attribute unset. The code ignores both results, so the thread goes on as if it had succeeded. POSIX `fcntl(F_SETFD)`/`F_SETFL` on a valid descriptor has no failure of its own. Spec section 9 leaves open what happens if the kernel layer rejects the call, so the mode is a separate run.
- **Environment actions.** `Connect` is a client. `Finish` is the caller closing the descriptor. `Exec` is another thread doing fork and exec.

### `SockOpt` (getsockopt, setsockopt)

- **State.** One caller: its call (`op`, `optval`, `optlen`), its option buffer `buf`, the result and the caller's `errno`.
- **Actions.**
  - `Getsockopt` (lines 37-41) returns -1. Neither `unimplemented()` nor anything else in the stub sets errno, so `errno` keeps its value.
  - `Setsockopt` (lines 43-48) returns 0. Its log line reads `sizeof(int)` bytes at `optval`; `optlen` is only logged. `ReadsOption` says whether that read is in the caller's memory: `optval` is the caller's buffer, which holds an int. With a NULL `optval` the read is undefined, so the model lets it fault or go on.

### `PthreadSync` (pthread test program)

- **Main.** `main` runs `test_create_join`, `test_create_exit`, `test_mutex` and `test_condvar` in order:
  - `TestCreate`, `TestJoin` and `TestPrint` are the create, join and print steps of the two create tests, including their early returns.
  - `MxCreate`, `MxCreateFail` and `MxCreateEnd` are the create loop and its early return.
  - `MxJoin` is the join loop.
  - `MxAssert` is the assert and the return.
  - `CvInit`, `CvCreate` and `CvJoin` are the steps of `test_condvar`.
- **ThreadFunc1 and ThreadFunc2.** `Func1` returns NULL for a NULL argument and the literal of line 25 otherwise. `Func2` ends the thread through `pthread_exit("Exit message")`, so line 33 is never reached. The values are the pointers, named by tokens: `"ChildReturnMessage"` and `"ExitMessage"` for the two literals; an unset `thread_result` is `"garbage"`.
- **ThreadFunc3, per thread.** `MxLock`, `MxRead` (line 42), `MxWrite` (line 47) and `MxUnlock`. The `getpid()` loop between read and write is a delay during which other threads run.
- **`first`.** Sleep, lock, `A = 1`, signal, unlock.
- **`second`.** Lock, then the `while (A == 0)` test with `pthread_cond_wait`. That wait releases the mutex and joins the wait set in one step, and after a signal or a spurious wakeup it takes the mutex back (`SecondRelock`). Then unlock.
- **Failing `pthread_create`.** It is a nondeterministic choice when `CreateMayFail` holds.
- **`mxLive`.** It records whether the frame of `test_mutex`, which holds `data`, is still live.

### `MutexCondvar` (the contract of `lock` and `condvar`)

This is what the threads of `main.c` rely on from the static mutex `lock` (line 36) and from `condvar` (line 129). Its state is the `holder` of the mutex and the set of threads `waiting` on the condvar. There is one action per operation:
- `Acquire(t)` takes a free mutex, for a thread that is not waiting.
- `Release(t)` is done by the holder only.
- `Wait(t)` is `pthread_cond_wait` by the holder: it releases the mutex and joins the wait set in one step.
- `Signal(t)` is done by the holder and wakes at most one waiter.
- `Wake(t)` is a spurious wakeup.

`PthreadSync` maps onto it through `Mutex == INSTANCE MutexCondvar WITH holder <- lock, waiting <- waiters`. Its steps on `lock` and `waiters` map this way:
- The lock steps of ThreadFunc3, `first` and `second` (and `SecondRelock`) are `Acquire`.
- The unlocks are `Release`.
- `second`'s check with `A == 0` is `Wait`.
- `first`'s signal is `Signal`.
- A spurious wakeup is `Wake`.
- Every other step is a stutter.

### `Memtest` (memtest program)

- **Blocks.** Block `b` is the program's (b+1)-th allocation: 0 is `brk`, 1 is `p`, and `i + 2` is `p[i]`. `live` is the set of allocated blocks not yet freed. `slots` is the contents of `p`'s block (`Garbage` before line 17 writes it).
- **Actions.**
  - `Start` is lines 7-15: `malloc(0)`, `malloc(n * 8)`, and the `printf` that reads `p[1]`.
  - `AllocIter` and `AllocExit` are the loop of lines 16-20.
  - `FreeIter` is the loop of lines 21-23, and `FreeP` is its exit and `free(p)`.
  - `EnvTest` is lines 28-30, with POSIX `setenv` semantics in `SetEnv`.
  - `ArgcTest` is line 33.
  - `ArgvCmp` is one `strcmp` of line 34's `||` chain.
  - `ArgvEnd` is lines 35-37.
- **The library.** `malloc(0)` may always return NULL; other sizes may return NULL only when `MallocMayFail`. A store through NULL, a `free` of something other than a live block, and a read of `argv` at or past its terminator are undefined. Each may fault (`pc = "faulted"`) or carry on: a store or free that carries on sets `corrupt`, and a `strcmp` that carries on returns any result. A "... is wrong" message is recorded in `wrong` by its line number.

### `CpuSet` and `CpuSetAbstract` (sched.h)

- **State.** `bits` is `__bits`: `128 / sizeof(long)` words of `8 * sizeof(long)` bits. `overrun` records a write outside the `cpu_set_t`.
- **Operators.**
  - `OutOfRange` is the guard `(i)/8U >= (size)`. A negative `int` i is first converted to `unsigned`.
  - `WordOf` and `BitOf` are line 21's word index and line 22's bit index.
  - `SetBit` is line 24's `|=`, using Bitwise's `|`.
  - `ClearLowBytes` is what `memset` does to a word on a little-endian target: it clears the low bytes.
- **Actions.** `CpuSetS` (lines 19-24) and `CpuZeroS` (line 25), each with the caller's size and, as `CPU_SET` and `CPU_ZERO`, with `sizeof(cpu_set_t)`.
- **Initial state.** A `cpu_set_t` on the stack is uninitialized. The model starts it all zeros or all ones, two representatives of indeterminate contents.
- **The abstract set.** `CpuSetAbstract` is a set of CPU numbers, with `Add(i, size)` (when 0 <= i < 8 * size) and `Clear(size)` (the CPUs below 8 * size). `CpuSet` maps to it through `Members(bits)`, the CPUs whose bit is set.

## 3. Runs

| Run | Config | Checks | Result |
|---|---|---|---|
| `sendmsg_repack` | `MC_SendMsg.cfg` | TypeOK, WalkInBounds, PayloadRecordsZeroed, Termination, AbstractSpec | pass, 32k states |
| `sendmsg_empty_record` | `MC_SendMsg_EmptyRecord.cfg` | SpecRecordsZeroed | violation |
| `accept4_flags` | `MC_Accept4.cfg` | TypeOK, FlagsNeverExtra, OnlyValidCallsAccept | pass, 1.04M states |
| `accept4_cloexec_race` | `MC_Accept4_CloexecRace.cfg` | NoCloexecLeak | violation |
| `accept4_fcntl_lost_flag` | `MC_Accept4_FcntlFlags.cfg` | FlagsApplied | violation |
| `sockopt_stubs` | `MC_SockOpt.cfg` | TypeOK | pass, 17.7k states |
| `sockopt_any_args` | `MC_SockOpt_AnyArgs.cfg` | SetsockoptTotal | violation |
| `pthread_sync` | `MC_PthreadSync.cfg` | TypeOK, DataCountsWrites, AssertHolds, SecondSeesA, JoinedResultPrinted, CounterIncrements, MutexSpec, MainCompletes | pass, 11k states |
| `pthread_orphan_threads` | `MC_PthreadSync_NoDanglingData.cfg` | NoDanglingData | violation |
| `pthread_condvar_hang` | `MC_PthreadSync_MainReturns.cfg` | MainReturns | violation |
| `memtest_run` | `MC_Memtest.cfg` | TypeOK, NoFault, HeapClean, EnvTestsPass, ArgvChecked | pass, 232 states |
| `cpuset_refines` | `MC_CpuSet.cfg` | TypeOK, NoOverrun, AbstractSpec | pass, 197 states |

The memtest, pthread and sockopt runs say `CHECK_DEADLOCK FALSE`: the
program ends (`main` returns, or a fault kills the process), and its
final states have no successor. A hang of the pthread program is caught
by its liveness properties instead (`MainCompletes`, `MainReturns`). The
sendmsg, accept4 and CPU-set runs check deadlock.

### What the passing runs show

- **WalkInBounds.** Each `__pad1` the loop writes lies in a whole header inside the copied bytes, and the copy fits in `chbuf`.
- **PayloadRecordsZeroed.** Every record of spec section 4.2 that has a payload is sent with `__pad1` = 0.
- **Termination.** The walk terminates on any `cmsg_len` values, malformed ones included.
- **AbstractSpec** (sendmsg). Seen from the caller, each call is one `SendMsgAbstract` step, fairness included: every call completes.
- **FlagsNeverExtra.** `accept4_flags` runs in the fault mode (`FcntlMayFail`), with three threads that accept, close and reuse descriptor numbers while another forks and execs. Even when an `fcntl` fails unnoticed, a returned descriptor carries no attribute that was not requested. For example, it never carries one left over from a closed descriptor whose number was reused.
- **OnlyValidCallsAccept** (action property). A step that takes a connection off the listen queue is the `accept()` of a call whose flags passed lines 23-26, and it hands the new descriptor to that call. So a call with an invalid flag consumes no connection and no descriptor at any of its steps: validating after `accept()`, in one step or two, is caught.
- **TypeOK** (sockopt). Over any arguments, `getsockopt` returns only -1, `setsockopt` only 0, and neither writes errno. This differs from spec section 6, which says `getsockopt` fails with the error code "not implemented": a caller of the stub (`socket.c:39`) reads whatever errno held before. `SockOptProofs.TypeCorrect` proves it for every size.
- **JoinedResultPrinted.** The create tests print the value their joined thread returned or passed to `pthread_exit`, never an unset `thread_result`.
- **DataCountsWrites.** No increment of `data` is lost.
- **CounterIncrements** (action property). A step that changes `data` is line 47's write by the worker holding the mutex, and it adds exactly one.
- **AssertHolds.** `data == NUM_THREADS` at the assert.
- **MutexSpec** (refinement). The program's steps on `lock` and `condvar` implement `MutexCondvar`. No thread takes a held mutex or takes it while it waits, only the holder unlocks, waits or signals, and a signal wakes at most one waiter.
- **SecondSeesA.** `second` leaves its loop only with `A == 1`, even with a spurious wakeup.
- **MainCompletes.** When every create succeeds, the program runs to its end.
- **NoFault, HeapClean** (memtest). When `malloc` succeeds and there are at least three arguments, nothing faults, every block of lines 13 and 17 is freed exactly once, and only `brk` stays live.
- **EnvTestsPass.** `setenv(env1, ex1, 0)` keeps the value set before it.
- **ArgvChecked.** `main` has complained about `argc` exactly when it is not 3, and about `argv` exactly when it is not `abc def ghi`.
- **NoOverrun, AbstractSpec** (CPU set). The macros never write outside the set, for negative, boundary and past-the-end CPU numbers. Every call adds exactly CPU `i` when it is in range, or clears exactly the CPUs below `8 * size`, also when `size` is not a multiple of `sizeof(long)`.

### What the violations show

These are the findings in `PROJECT.json`.

1. **Trailing header-only record** (`socket.c:57`). `CMSG_NXTHDR` returns null when the next header would end exactly at the end of the block. So a trailing record with `cmsg_len == sizeof(struct cmsghdr)` that fills the block is never visited, and its `__pad1` is sent unchanged.
   - Trace: `msg_controllen` 8, two 4-byte records.
   - This contradicts spec sections 4.2 and 8. Payload-carrying records are not affected, which is what `PayloadRecordsZeroed` checks.
2. **CLOEXEC race** (`socket.c:27-31`). A fork+exec between `accept()` and `fcntl(F_SETFD)` inherits the descriptor. POSIX `accept4` closes this window; the emulation does not.
3. **Lost flag** (`socket.c:31`). Both `fcntl` results are ignored. If one fails, `accept4` reports success on a descriptor without the requested attribute. Spec section 8 says a successful call applies exactly the requested flags.
4. **setsockopt dereferences a NULL optval** (`socket.c:46`). The log line reads the int at `optval` unchecked. With a NULL `optval` that read is undefined and may fault. Spec section 6 says `setsockopt` always returns 0. A short `optlen` does not matter: the read is of the caller's buffer.
5. **Orphaned threads** (`main.c:114`). When a `pthread_create` in `test_mutex` fails, the function returns while the threads it already created will still use `data`, which lived in its frame.
6. **Condvar hang** (`main.c:163`). The results of `pthread_create` in `test_condvar` are ignored. If `first` is not created, `second` waits forever and `main` never returns.

`FlagsApplied` (exact flags) is the one property of `accept4` that fails in
the fault mode (finding 3); without faults it is proved by `FlagsExact`
(section 4).

Two limits of memtest are listed as hazards rather than runs. `memtest_run`
starts the program with at least three arguments and a `malloc` that
succeeds. With `MC_ShortArgvs` as `Argvs`, `NoFault` fails at line 34, which
hands the NULL terminator to `strcmp`. With `MallocMayFail = TRUE` it fails
at line 14 or 18, which use `malloc`'s result unchecked.

### Bounds and why they are enough

- **`MC_SendMsg`** uses scaled sizes:
  - word 2 and header 4.
  - `MaxFds` 3 with `IntSize` 1, so `Cap` = (CMSG_SPACE(3)/4 + 1)·4 = 12. That is the same formula as the real 66·16 = 1056 bytes.
  - `msg_controllen` ranges over 0..13, so it covers below one header, exactly one header, exactly `Cap` and `Cap + 1`.
  - `cmsg_len` ranges over {0, 4, 5, 6, 14}. These are malformed (0), header-only (4), an odd length that aligns up (5), one aligned payload word (6) and one overrunning the block (14).

  These classes take each branch of `CMSG_NXTHDR` at every offset, including the equality case of `>=`. Caller padding is 1, so a zero in `sent` can only have been written by the code.
- **`MC_Accept4`** uses three threads and two descriptor numbers, so numbers are reused and a third accept meets a full table (EMFILE). It allows three connections, so the queue empties (EAGAIN on a non-blocking listener). Every flag set is allowed, including an invalid bit. Symmetry over the threads is sound because they run the same code. `accept4_flags` and the lost-flag run let `fcntl` fail, so a failed `fcntl` meets a reused descriptor number.
- **`MC_SockOpt`** uses a 4-byte int and an 8-byte buffer with two byte values. `optlen` is 0, 2 (shorter than an int), 4 and 8, and `optval` is the buffer or NULL, in every run.
- **`MC_PthreadSync`** uses 3 ThreadFunc3 threads (100 in the code). That is enough for two threads to interleave a read and a write while a third waits for the mutex. It allows one spurious wakeup and lets creates fail.
- **`MC_Memtest`** uses `n` = 9, as in the code. The argument vectors are the expected one, one with a wrong last argument, one with a wrong first argument, and one with an extra argument. `MC_ShortArgvs` (one and two arguments) is defined for the short-argv case above.
- **`MC_CpuSet`** uses `sizeof(long)` = 2, because TLC's integers have 32 bits; the index arithmetic has the same shape for 8. The set keeps its real 128 bytes (64 words, 1024 CPUs). The values of `i` are -1, the first and last bit of a byte and of a word (0, 7, 8, 9, 15, 16), the last CPU (1023) and the first one past the set (1024). The sizes are 0, 1, 3 (not a multiple of a word) and 128.

### Fairness

- **`SendMsg`.** There is weak fairness on the steps of a call: `sendmsg` runs on its calling thread and never blocks. `SendMsgAbstract` has weak fairness on `Complete`, and `AbstractSpec` checks that the implementation's fairness gives it.
- **`PthreadSync`.** There is weak fairness on each thread and on `main`, because the scheduler runs every runnable thread. Spurious wakeups have no fairness and are bounded. So each thread takes the mutex a bounded number of times, and weak fairness is enough even though a pthread mutex does not queue its waiters.
- **`Accept4`, `SockOpt`, `Memtest`, `CpuSet`.** These have no liveness property and no fairness.

## 4. What is proved

Every theorem holds for every value of the constants that satisfies the
ASSUMEs of its module. A theorem of the form `ASSUME H PROVE ...` also
needs the hypothesis `H`. `H` describes the callers or the starts the
property is claimed for, and a violation run shows what happens without it.

**`SendMsgProofs`** proves:

- **`TypeCorrect`**: `Spec => []TypeOK`.
- **`WalkMemorySafe`**: `Spec => []WalkInBounds`.

The ASSUMEs are: a positive word size, and a header size that is a positive
multiple of it. Those theorems rest on an inductive invariant, `IInv`:

- It contains `TypeOK`.
- In the walk, `h` is a message that fits `chbuf`, and the cursor is null or a slot of `h`'s block.
- ENOMEM is returned only in the "returned" state, for a message that does not fit.

`TypeOK` alone is not inductive: the cursor's range needs `h.ctllen <= Cap`.
The central lemma is `NxtHdrInSlots`. When `CMSG_NXTHDR` returns a header,
that header is word-aligned and lies wholly inside the block. The lemma
rests on `AlignedSum`: the sum of two multiples of the word size is again
one. `IInv` was also checked with TLC as an invariant of `MC_SendMsg`.

**`SendMsgRefinement`** proves **`Refinement`**: `Spec => Abs!SafeSpec`.
That is, `sendmsg` implements the safety part of `SendMsgAbstract`. The
proof has three parts:

1. `Init` maps to `AInit`.
2. Every step maps to an abstract step or a stutter. Entry, the walk and send keep the abstract `busy`; line 90's send or the ENOMEM return is `Complete`.
3. PTL combines them with `[]RInv`.

`RInv` strengthens `IInv`. While the call is between entry and send, `h` is a
member of `Repacks(msg)` for a message that fits. Three lemmas carry this
along the walk:

- `RepackStart`: line 76's copy is a repacked copy with nothing cleared yet.
- `RepackClear`: clearing one more `__pad1` keeps a repacked copy.
- `RepacksElim`: a repacked copy has the caller's lengths.

**`Accept4Proofs`** proves, for any threads and descriptor numbers
(descriptors are natural numbers, and the two flag bits differ):

- **`TypeCorrect`**: `Spec => []TypeOK`.
- **`NoExtraFlags`**: `Spec => []FlagsNeverExtra`, with or without the fcntl fault mode.
- **`FlagsExact`**: under `~FcntlMayFail`, `Spec => []FlagsApplied`.
- **`OnlyValidAccepts`**: `Spec => OnlyValidCallsAccept`. Only `AcceptPlain` and `AcceptFlags` take a connection, both past the flag test, and `PrimAcceptEffect` gives that the new descriptor is free before the step and goes to the caller.

The inductive invariant `IInv` is `TypeOK`, `pending <= arrived`,
`ThreadInv(t)` for every thread, and `Distinct`.

- `ThreadInv(t)` tracks a call's descriptor across its two `fcntl` steps: which attributes it can have at `setfd`, `setfl` and `returned`, and that a held descriptor is open.
- `Distinct` says no two threads hold the same descriptor.

`FlagsApplied` alone is not inductive. A step of another thread must be
shown not to touch t's descriptor, and that needs `Distinct` and that
`accept()` hands out only free descriptors. That last fact is the lemma
`LowestFreeIn`: the lowest free descriptor exists and is free. It is proved
from the well-foundedness of `<` on `Nat` (`WFMin` of
`WellFoundedInduction`). `PrimAcceptEffect` states what `accept()` does,
once, for the accept actions.

**`PthreadSyncProofs`** proves, for every number `N` of ThreadFunc3
threads, every `CreateMayFail` and every bound on spurious wakeups:

- **`TypeCorrect`**: `Spec => []TypeOK`.
- **`MutexHeld`**: a thread inside a critical section holds the mutex.
- **`NoLostUpdate`**: `Spec => []DataCountsWrites`.
- **`AssertProved`**: `Spec => []AssertHolds`.
- **`SecondWaitsForA`**: `Spec => []SecondSeesA`.
- **`PrintsJoinedResult`**: `Spec => []JoinedResultPrinted`.
- **`CounterIncrementsProved`**: `Spec => CounterIncrements`.

The inductive invariant `IInv` has these conjuncts:

- `TypeOK`.
- `MutualExclusion`: a thread at its read, write or unlock (a worker), at set, signal or unlock (`first`), or at check or unlock (`second`) is the lock holder.
- `ReadIsCurrent`: a worker about to write holds the value `data` has now.
- `CountInv`: `data` is the number of workers past their write.
- `MutexPhases`: before `test_mutex` every worker is new. During the create loop the workers above `i` are new, and during the join loop workers `1..i` are done.
- `ResultsKnown`: what each create-test thread returns, and what main holds at each print.
- `JoinedResultPrinted` and `SecondSeesA` themselves.

`DataCountsWrites` alone is not inductive. A write keeps the count only if
the writer read the current value, so the proof needs `ReadIsCurrent`. That
in turn holds only because no other worker writes between the read and the
write, which needs `MutualExclusion`. `AssertHolds` needs `MutexPhases`,
because the join loop has seen all `N` workers end. The count uses
`FS_AddElement` and `FS_Interval` of `FiniteSetTheorems`.

**`PthreadMutexRefinement`** proves **`MutexRefinement`**:
`Spec => MutexSpec`, for every `N`, `CreateMayFail` and `MaxSpurious`.
In words, the program's mutex and condvar steps implement `MutexCondvar`
under the mapping `holder <- lock`, `waiting <- waiters`. `MutexStep`
shows that each step of `Next` is a step of `Mutex!Next` or leaves
`lock` and `waiters` unchanged.

- `MutualExclusion` from `IInv` gives that an unlock, a signal or a wait is
  done by the holder.
- `IInv` alone is not enough for the rest, so the proof adds `WaitInv`:
  - `waiters` is `{Second}` exactly when `second` is at its wait, and `{}`
    otherwise;
  - before `test_condvar` creates `second`, `second` is new.
- `WaitInv` is what shows that a thread taking the mutex is not waiting.
  It also shows that `first`'s signal removes at most the one waiter.
  Its second conjunct carries `waiters = {}` through `CvInit`.
- `NextWaitInv` proves `WaitInv` inductive relative to `IInv`, with one
  case per action. `ThreadsDistinct` states that the worker, create-test,
  `first` and `second` thread ids are distinct, for every `N`.
- TLC checked `WaitInv` first, as an invariant of a run.

`DataOnlyByWrite` shows that only `MxWrite` changes `data`. With
`MutualExclusion` and `ReadIsCurrent` it gives the action property.

The string values of the model are tokens without spaces, such as
`"ChildReturnMessage"` for the literal of line 25. The SMT backend of
tlapm 1.4.5 fails on string literals that contain spaces.

**`SockOptProofs`** proves, for any `sizeof(int)`, buffer size and option
arguments:

- **`TypeCorrect`**: `Spec => []TypeOK`.
Its invariant adds `CallShape`: the call in progress is the call that was
made, with arguments a caller can pass.

The stubs keep no state, so there is nothing deeper to prove about them:
what is wrong with them is the NULL `optval` of `sockopt_any_args`, and
the errno `TypeCorrect` shows is never set.

**`MemtestProofs`** proves, for every `n`:

- **`TypeCorrect`**: `Spec => []TypeOK`, for any start.
- **`EnvChecksPass`**: `Spec => []EnvTestsPass`, for any start. Its invariant adds only that line 30 runs with `env1 = ex2`.
- **`NoFaultProved`**, **`HeapCleanProved`**, **`ArgvCheckedProved`**: these hold under `ASSUME WellStarted`.

`WellStarted` describes the starts the harness makes:

- `malloc` of a non-zero size succeeds.
- `argv` is a sequence of at least three strings.
- No argument is NULL or the model's past-the-end marker.
- NULL is not a block number.

The invariant follows the program counter:

- **`HeapPhases`.** At the allocation loop after `i` rounds, `p` and `p[0..i-1]` are the live blocks besides `brk`, and `p[k]` holds block `k + 2`. At the free loop after `i` rounds, `p` and `p[i..n-1]` are live. After `free(p)`, at most `brk` is live. Nothing was freed or stored through a bad pointer.
- **`ArgPhases`.** It records which "wrong" lines may have been printed before each check, which arguments line 34 has matched so far, and what lines 33-35 have reported after each of them.

The lemma `ExpectedArgv` turns the report into `ArgvChecked`: an argument
vector of at least three arguments equals `abc def ghi` exactly when its
first three arguments do and it has no fourth. It rests on `SeqEqual` of
`SequenceTheorems`.

The proof found that `TypeOK` was too narrow. Line 34 reuses `i` as the
index of the argument it compares, which can be 2, and that exceeds `n`
for `n = 1`. The run uses `n = 9`, so TLC could not see this. `TypeOK` now
lets `i` range over the loop indices and the argument indices.

## 5. What is only model-checked, and why

- **Liveness** (`Termination`, `MainCompletes`, and the fairness part of sendmsg's `AbstractSpec`). TLAPS does not handle liveness under fairness or ENABLED.
- **`SpecRecordsZeroed` and `PayloadRecordsZeroed`.** They use the recursive reference `SpecRecords` of `CmsgRecords`. What a recursive definition computes for every input cannot be proved with the installed provers.
- **`CpuSet`.** It uses Bitwise (for `|=`), which a module with theorems cannot reach. Its arithmetic on `2^b` and `\div` is also beyond what the SMT backend proves reliably.
- **What the violation runs show** (`NoDanglingData`, `MainReturns`, `SetsockoptTotal`, and the others). These are counterexamples found by TLC. A proof cannot replace them.
- **The memtest properties outside their hypotheses.** For a failing `malloc` or a short `argv`, the properties do not hold. The runs with the wrong arguments exercise those cases.

## 6. Not modelled

- **`unistd.h`.** It has prototypes and `sysconf` constants only.
- **The systime program** (`src/apps/c/systime/main.c`). It reads the external clock, calls `usleep(3000000)` with its result ignored, and sets the clock. Its only state is the clock, which lies outside `src/`, and its only control is two early returns. One hazard is listed for it: `settimeofday` may fail without privilege.
- **Printing.** `printf`, `puts`, `perror` and the format strings carry no state. The models record only which "wrong" messages were printed, and which times.
- **The primitives outside `src/`.** `ax_sendmsg`, `accept`, `fcntl`, `malloc` and `setenv` are modelled by their POSIX contracts, as described for each module.

## 7. Plan for the remaining work

- Action properties for Accept4 (a descriptor's attributes change only through its own call's `fcntl`), proved from `Distinct`.
- A liveness refinement: `MutexCondvar` with fairness. This stays with TLC, like `MainCompletes`.
