# KUAF in TLA+

KUAF schedules zlib, RSA and SM2 calls between the Kunpeng accelerators and
software.  An adapter (zlib functions, an OpenSSL engine) creates a *scheduler
context* per stream or algorithm; the scheduler decides once, when the context
is scheduled, whether it runs on an accelerator (`dev_id` other than 0, a
*hard* context) or in software.  Every process decides for itself, but on state
that all processes of the host share through System V semaphores and shared
memory.  That shared state is where the code is hard: processes come and go, are
killed, fork, and share it with nobody in charge.

Paths below are relative to the repository's root.

## Inventory

| Component | Source | State | Operations | What makes it correct |
|---|---|---|---|---|
| parallel strategy | `src/core/strategy/parallel/kuaf_paral.c` | `paral_sem`, a segment used only for its attach count, a counting semaphore per (algorithm, device), the process's list of them | create at load, try_P, V, remove at unload | never more hard contexts than `parallel`; units survive crashes; only the last process removes |
| semaphore helpers | `src/core/strategy/kuaf_shm.c` | kernel objects | semget + SETVAL, P, try_P, V, all with SEM_UNDO | exclusion; nothing stays locked by the dead |
| scheduler | `src/core/scheduler/kuaf_sc.c` | contexts: algorithm, strategy, `dev_id`, data | create, schedule, process, end, free; constructor, destructor, atfork handler | what scheduling takes, free gives back |
| bandwidth strategy, shared | `src/core/strategy/bandwidth/kuaf_bw.c` | per device an array that is a list of samples and a free list; a semaphore | cleanup, calculate, insert (daemon of every process) | the array stays a list; samples count until they expire |
| bandwidth strategy, local | same file | per device a list with a record per thread, a spinlock, the last usage calculated | report (threads), detach, add up and upload (daemon) | everything reported is counted once |
| bandwidth strategy, life | same file | the segment, the table of devices in it, a semaphore per device, `global_sem`, the process's `kuaf_shmid`, `shared_devs`, list of local devices, daemon | load, fork, register a device, upload, unload | one segment for all; the table names live semaphores; nobody waits for ever |
| ratio strategy | `src/core/strategy/ratio/kuaf_ratio.c` | a pool of random numbers | draw | - |
| device identification | `src/core/device/kuaf_dev.c` | CPU type | CPU and NUMA node to device | devices and algorithms match |
| process dispatch | `src/core/process/*.c` | - | call hardware, fall back to software | - |
| zlib adapter | `adapter/kuaf_comp/zlib_adapter/src/*.c` | software and hardware state of a stream, its context in `sche_ctx` | init, process, reset, end | each error path leaves a stream that can be ended, and no unit behind |
| OpenSSL engine | `adapter/kuaf_crypto/src/e_kuaf.c` | one RSA and one SM2 context, `ctx_mutex` | bind, process, finish | exclusion of the shared contexts |
| RSA adapter | `adapter/kuaf_crypto/src/rsa_hard.c` | engine contexts of a call | encrypt, decrypt, sign, verify, key generation | fallback; every error reported |
| SM2 adapter | `adapter/kuaf_crypto/src/sm2_hard.c` | a pool of engine contexts, sessions | keys, encrypt, decrypt, sign, verify | the pool is neither drained nor shared; errors reported |
| configuration | `src/common/kuaf_config.c` | tables of files, sections and pairs of fixed size | parse, look up | a lookup finds what the file says |
| log | `src/common/kuaf_log.c` | a file and its mutex | write, rotate | - |

How they interact: adapters call the scheduler (create, schedule, process, end,
free); the scheduler calls a strategy when it schedules and frees, and the
process layer when it processes; the process layer reports the bytes it sends to
the local records of the bandwidth strategy; a daemon thread per process carries
them into shared memory; the library's constructor and destructor create and
remove the shared objects; `pthread_atfork` runs part of the constructor again in
a child.  The hard behaviours - races on shared memory, crashes between two
calls, failing system calls, the last process leaving while the next one comes,
forks - are listed with their lines under `hazards` in `PROJECT.json`.

## Modules

| Module | Models | Checked by | Proofs |
|---|---|---|---|
| `ParalSem` | `kuaf_paral.c`, `kuaf_shm.c`, the parallel part of `kuaf_sc.c` | `ParalLimit`, `ParalFaults` | `ParalSemProofs` |
| `Permits` | what the parallel strategy promises (abstract) | `PoolSpec` in `ParalLimit` | `ParalSemProofs` |
| `ParalFork` | fork of a process that uses the parallel strategy | `ParalForkLast` | `ParalSemProofs` |
| `BwRecords` | the shared records of a device | `BwWindowed`, `BwRace` | `BwProofs` |
| `BwWindow` | what they promise: a window of samples (abstract) | `WindowSpec` in `BwWindowed` | `BwProofs` |
| `BwLife` | the segment, the table of devices and their semaphores, from the first load to the last unload | `BwLife` | `BwLifeProofs` |
| `LocalRecords` | the records of the threads of one process | `LocalUsage` | `LocalProofs` |
| `Config` | the parser's tables and the lookups in them | through `Scheduler` | `SchedulerProofs` (lemmas) |
| `Scheduler` (extends `Config`) | contexts, strategies, devices: what the adapters call | through the two below | `SchedulerProofs` (lemmas) |
| `ZlibStream` (extends `Scheduler`) | both zlib adapters | `ZlibUnits` | `ZlibProofs` |
| `EngineBind` (extends `Scheduler`) | the OpenSSL engine: binding, initialisation, finish, `ctx_mutex` | with `RsaEngine` | `RsaProofs` |
| `RsaEngine` (extends `EngineBind`) | the five RSA methods | `EngineCalls`, `Sm2Unbound` | `RsaProofs` |
| `Sm2Engine` | the SM2 adapter's queues, sessions and keys | `Sm2Queues`, `Sm2Shared` | `Sm2Proofs` |

`Config`, `Scheduler`, `EngineBind`, `RsaEngine` and `ZlibStream` are composed: a stream or the
engine schedules and frees its contexts with `Scheduler`'s operations, which read the tables
that `Config`'s parser made of a directory.

`MC...` modules give the constants of an instance their values.  Definitions
introduced as "Mutant" are not part of a specification: each is a wrong form of
the definition after it, used to show that a property notices the difference.

### ParalSem

A process's `pc` is its place in the constructor or the destructor; a step of the
kernel (semget, SETVAL, a P, an attach, a removal) is a step of the model, so
processes interleave between them.  `lock` is `paral_sem`, `sem[k]` a counting
semaphore (-1: it does not exist), `att` who is attached to the segment, `map` the
process's list.  Identifiers are not numbers: an entry is `live` or `stale`, stale
when the object was removed since (or semget failed).  `taken` (units) and `undo`
(`paral_sem`) are the kernel's SEM_UNDO tables; `KernelExit` applies them.

`semaphore_P` only logs a semop that fails (`kuaf_shm.c:139`).  On a stale identifier it
always fails.  On a live one it may (`"semop"` in `Failing`: a signal, no memory for the undo
entry): `Slip` enters the section without the semaphore, and the V that follows raises it,
so that one more process may be inside even after the slip: until the process ends and SEM_UNDO
lowers the semaphore, and beyond that if it is 0 then.  `slips` counts these, up to the
bound `MaxSlips`.  `Release` may fail too, where the process has no undo entry yet; a failed
`semaphore_try_P` leaves the context in software.  `SectionsExclude` therefore says what
the code can promise: never more processes in the sections than one and the slips.
`HardwareWithinLimit` and `RemovedWhenLast` are stated until the first slip - two processes
in the sections may make a semaphore go that a third has just found - while conservation, the
units that processes owe, `SectionsEnd` and the refinement of `Permits` hold all the same.

`CrashAt` lists where a process may be killed,
`Failing` which calls may fail.  `LockFirst` says whether `paral_sem` got identifier
0.  Malloc failures of the list are left out, and so is a failing SETVAL.  A
context's device is chosen freely: `kuaf_dev_get_id` depends on the CPU the thread
happens to run on.

`Permits` has a pool for each *semaphore*: a step grants a permit only while the limit
allows, and removing the semaphore revokes all of its permits.  So it is implemented whatever fails; that
the contexts of a removed semaphore are no longer on the accelerator is the matter of
`HardwareWithinLimit`.

### ParalFork

A child copies the parent's variables, attachment included, but no SEM_UNDO entry.
Processes are slots that fork fills; `MaxForks` bounds the forks of a behaviour.
Copying the contexts without the units they have is what the code does, so a child that
frees them gives back units its parent still uses (`kuaf_paral_V`), and the limit does
not hold; the runs claim of forks only what is true.

### BwRecords, BwWindow

`dev` is a `SharedDev` with its array; the operators on it are the C functions,
written as functions of the array's value.  The cleanup's loop is one step per
record, so that time and other processes pass between them (the semaphore is
held).  Reading the head and taking the semaphore are two steps, as in the code.
The locals `cur` and `now` are reset when their function returns.  A sample's
length is 1, and pid is left out (only the unused `shared_update_dev_record` reads
it).  Constant `Overlap` says whether a process may take the semaphore while
another is between its read of the head and its P: FALSE isolates that one race,
so that the rest of the structure can be judged without it.  `sem` is the semaphore's value; a
P whose semop fails goes on (`slips`, bounded by `MaxSlips`), and its V raises the semaphore.
After that sections of two processes may overlap, and those that are one step here (insert, addition) may
interleave in the code: every property but the types is stated until then, and
the run looks no further (`NoneFailed`).  `BwWindow` knows
nothing of slots: samples in order of upload, leaving when expired or as the
oldest of a full window; a measurement is the number of samples not expired.

### LocalRecords

Threads and the daemon over a heap of records with explicit addresses, so that a
record may be freed and its address used again.  A thread looks for its record without the
spinlock (`kuaf_bw.c:252`), one step per record; the daemon detaches the list under the lock,
adds it up and frees it, one step per record, without waiting for the threads that are in it.
Such a thread is `overtaken` (a history variable).  It may add to a record the daemon
has already passed - `late` counts these lengths - walk on into freed memory, or into a
record that another thread made at the same address.  A thread that touches freed memory stops (`Garbage`): what
the build does then is undefined, and no claim is made about it; a write to an address that
is in use again is made in the model as in the code.

The properties say how far the damage goes.  `UsageAccounted`: nothing is ever counted twice, and only what was
added late can be missing.  `ReachableLive`: only overtaken threads reach what the daemon frees, and the two
parts of the heap never mix.  `OneRecord` holds whatever overlaps: the record that a
thread falls off to create never doubles one it has in the list.

### BwLife

A process has the application's thread, which also loads, forks and unloads, and the
daemon; `pc` is where each is.  `key` is the segment that `BW_GLOBAL_SHM_KEY` names,
`att` the attachments (a forked child inherits its parent's and makes its own, as
`kuaf_init_after_fork` runs `kuaf_bw_init_async` again), `table` the `SharedDevList` of each
segment with a device's semaphore, `sem` the semaphore that the device's key names now,
`owner` who has each, `lock` `global_sem`.  Every system call, and every section between two
of them, is a step.  `KernelExit` is what the kernel does for the dead: detach, SEM_UNDO.
A semaphore of value 0 that a thread has created and will set has owner `Created(t)`.
`last` is the device of `nodes[dev_count - 1]`: registration computes the address it returns after its V
(`kuaf_bw.c:213`), so that `Return` is a step of its own and hands out another device's node when
that was registered in between.  The thread then uses that node's semaphore and array:
`DevicesExclude` is about the node, and its sample goes to the wrong device's window.

pthread_cancel is deferred: a cancelled daemon ends where it sleeps or, when the log's level
lets debug messages through (`Debug`), in a message of `init_lock_semaphore`
(`kuaf_shm.c:82`, `:98`), which is called with `global_sem` taken (`EndInLog`).  The kernel
gives it back only when the process ends, so `WaitsEnd` excepts the time until then (`Orphaned`).
The message at `kuaf_shm.c:140` comes after a failed semop, of which nothing is claimed.
`Segs` and `Sems` are identifiers; one may be used again when nothing refers to it, so both
bound what can be there at a time, not a behaviour.

A thread that touches `shared_devs` after shmdt ends its process (`Touch`); this does
happen, to a daemon that was cancelled in an update, and the properties hold all the same.

`torn` is a history variable: a load that failed after the segment was found (shmat,
pthread_create) removed it while one *other* process was attached (`kuaf_bw.c:502`, "<= 1").
Then two segments exist, each process believes in its own, and the last of one
generation removes semaphores that the other uses.  `slipped` is another: a semop failed
(`kuaf_shm.c:139`) and a section of `global_sem` or of a device was entered without its semaphore.  All
properties but the types are stated until then (`Whole`), and the run explores no further.

Not in the model: a kill between semget and SETVAL of a device's semaphore (it stays 0 and
all daemons wait for it), a child that forks, and a semaphore that cannot be created.

### Config, Scheduler

`load_kuaf_configs` folds the lines of each file into tables of `MAX_FILES`,
`MAX_SECTIONS` and `MAX_KEYS` slots, as the parser does: what does not fit is dropped, and pairs
after a section that did not fit go to the section before.  `Find` is the search through
files, sections and pairs.  Lines come trimmed and cut; a value is a text and the number that
atoi makes of it.  `LookupMatches` compares a lookup with what a reader of the text would
say, for directories that fit.

`Scheduler` has the contexts (`ctx`, `Null` for none) and the semaphores' values (`units`).
`kuaf_ctx_scheduler` creates and schedules; the strategy named by the configuration decides:
the measured bandwidth against the configured one, a draw against the ratio, a try_P.
NUMA nodes, draws and bandwidths are any of the given sets.  The semaphores here are those
of one generation; generations, crashes and failing calls of the kernel are `ParalSem`'s.

### ZlibStream

Streams in both directions on a machine with an accelerator (`kz_get_devices`;
without one every function just calls its `lz_` twin).  `Opened` and `NotOpened`
together are `deflateInit2_`.  When `kz_deflateInit2_` fails the context keeps its unit
and nothing can free it (`deflate_adapter.c:61`): `UnitsTaken` therefore only bounds
the hard streams by the units taken.  The application ends a stream it opened, whatever an
earlier call returned, as zlib asks and `compress2` does; after a deflate that failed this
follows a null `sche_ctx` (`deflate_adapter.c:138`), and the stream stays `crashed`.

### EngineBind, RsaEngine

`bind_fn_kae_alg` is four steps: schedule and bind SM2, schedule and bind RSA, each with the
failures that its calls can have; `meths` is what the engine then offers.  Functional
references are OpenSSL's: a thread with an RSA key (`pc` other than `out`) has one, and who
gives the last one back runs `eng_finish`, while another thread may take a new one.  It
frees both contexts under `ctx_mutex`; `get_dev_by_sync_mode` of a call reads the RSA
context under it.

A call of `RsaEngine` goes through `get` (engine context), `dev` and `section` (report the
length), `prepare`, `crypto`, `result`, `end` (give the engine context back) and, when any of
them failed and marked it so, `soft`.  The five methods differ in their last steps; `ret` is
the C variable, which several error paths overwrite or fail to.  `SuccessMeansOutput`
excepts one of them: a private encryption whose result cannot be converted jumps to the end with the
accelerator's success (`rsa_hard.c:465`).  `untaken` (history) marks exactly those calls; a private
encryption that lost its output on another path would be caught.

### Sm2Engine

`sm` is the `hpre_sm2_priv_ctx` of each EVP_PKEY_CTX, `wd` the session (`wd_ctx`) in the
engine context of each queue, `hash` the digest that its setup keeps between sessions,
`pool` the queues in `g_hpre_sm2_qnode_pool`.  The pool (`kae_get_node_from_pool`) is
outside the repository and modelled as a set.  `NoSession` is a null `wd_ctx`: the driver
refuses calls on it, and the call is served in software.  A call of encrypt, decrypt,
sign or verify is a step each for the check, the buffers, the key and the computation, and
other contexts step between them; `hpre_sm2_update_sess` is one step, as its context's
queue is its own (after a queue was put back and kept this is coarser than the code).  Whether a
key is in the session is remembered (`smctx->pubkey`, `smctx->prikey`) apart from the
session itself, and that the two agree is what is checked.  Encodings, results and the
arithmetic of the ID's digest are left out; wherever one of them can fail the call may go to
software.  A failing `malloc` also stands for a queue that the pool will not give.

`strayed` is a history variable: an error path of `hpre_sm2_update_sess` put the queue
back, and the context goes on using it.  `QueuesOwned` and `OwnSession` speak of the
time before; `Sm2Shared` shows what comes after.

## Runs

Passing:

* `ParalLimit` (3 processes, 2 contexts each, one key, limit 2, 1 slip; crashes anywhere
  but before SETVAL; the file lock and semop may fail): the limit, exclusion of the
  sections, and refinement of `Permits` (removal only by the last is proved, and checked
  with forks below).  Six contexts
  compete for two units over any number of generations of the semaphores: load
  and unload are in the loop.  Three processes are one holding, one removing, one
  arriving.
* `ParalFaults` (2 processes, 2 keys, 1 slip, all failures, `LockFirst`): conservation of
  units where the limit itself does not hold.  Two keys let a removal be half done.
* `ParalForkLast` (3 slots, 1 fork, 1 slip, no contexts, which the two properties do not
  speak of): removal only by the last, with children,
  and a process that waits for `paral_sem` gets through, although its holders may be
  killed and others be in the section without it.  The third process is the one that waits while parent
  and child leave.
* `BwWindowed` (2 processes, 3 usable slots, interval 1, time 0..2): with three
  slots a list has a first, a middle and a last record, so every branch of the
  deletion is taken, the array fills, and records expire while others stay.  Every
  daemon's update ends.  A semop may fail, in any state, and nothing is claimed after it.
* `BwLife` (2 processes, one of which may be forked by the other, 2 devices, 3 segments, 3
  semaphores, debug messages on; shmget, shmat, the creation of the daemon and semop may fail; kills): one
  segment, a current table, exclusion in the section of a device's node, and no waiter waits for
  ever.  Each process has two threads, and either may be in any generation of the segment: a third
  segment is used while one is dying and one is new.  `Bounded` keeps this within reach: the
  applications of parent and child register one device each, and only the parent's daemon has anything to do.
  That is enough for a thread to be given the other's node, in both directions, and for a cancelled daemon to
  be where any thread can be.  122,324 states.
* `LocalUsage` (3 threads, 2 calls each, 3 addresses; threads and daemon overlap freely): addresses are used
  again and malloc may fail.  Three threads are one in the detached list, one that takes the address
  freed, and one in the new list.  1,381,104 states.
* `ZlibUnits` (2 + 1 streams, one unit per direction and device where the directory says so,
  every call may fail; 1,742 directories, those of the strategies and those that try the parser:
  lines in any order, keys and sections twice, files that do not open, one too many): more
  streams than units, so some are soft.  Units may be lost but are never returned twice or
  by a stream that has none; lookups are those a reader expects; the devices with semaphores
  are those next to the process that loaded.
* `EngineCalls` (2 threads, 1 engine context, 5 directories, every call may fail): 84,280
  states.  Two threads are enough for one to finish the engine while the other comes back
  or is in a call, and they compete for one engine context.
* `Sm2Queues` (2 contexts, 2 queues, a supported and an unsupported digest; every call may
  fail but the setting of a key): no queue is lost, and queues and sessions are used by one
  context each.  Two contexts are enough to meet in one queue, and the second queue lets
  a context hold one while another moves.

Violations, each a finding in `PROJECT.json`:

* `BwRace`: a cleanup that starts in the free list drops samples.  Interval 2 and time 0..3: the
  samples that are dropped must be younger than those that are due.  From there the array
  decays: with `Overlap` TRUE a stale walk deletes free slots again, the free list becomes
  cyclic, and a slot is used and free at once.
* `Sm2Shared`: a queue put back and kept, so that two contexts set their keys in one session.
* `Sm2Unbound`: a process that gets SM2 on the accelerator and RSA in software offers no
  SM2 methods at all.  With `config/kae.cnf` that is the second process.

Other faults met while modelling have no run of their own.  Where one breaks a property, the
property says for which behaviours it is stated:

| Fault | Where | How it is treated |
|---|---|---|
| `paral_sem` with identifier 0 is removed through the list's head (`semctl(0, ...)`), while others use it | `kuaf_paral.c:50` | `LockFirst`; `LimitHolds` assumes it is not |
| a shmat that fails removes the segment of the one other process | `kuaf_paral.c:182` | `"shmat" \in Failing`; `LimitHolds` assumes it is not |
| the same for the bandwidth segment | `kuaf_bw.c:502` | `torn` |
| a process killed between semget and SETVAL leaves a semaphore of 0 | `kuaf_shm.c:54`, `:94` | `CrashAt`; left out of `BwLife` |
| a child frees units that its parent has | `kuaf_paral.c:211` | `ParalFork` claims no limit |
| a semop that fails lets its caller into the section, and its V raises the semaphore | `kuaf_shm.c:139` | `slips`, `slipped`; `SectionsExclude` counts them, other properties hold until then |
| a thread that is in the list when the daemon detaches it adds to a record already counted, or touches a freed one | `kuaf_bw.c:252` | modelled; `late` and `overtaken` in `LocalRecords` |
| registration may return another device's node, and the sample goes to its window | `kuaf_bw.c:213` | modelled (`Return`); `DevicesExclude` is about the node returned |
| a daemon cancelled in a debug message keeps `global_sem` until its process ends | `kuaf_shm.c:82` | modelled (`EndInLog`); excepted in `WaitsEnd` |
| deflateEnd after a failed deflate follows a null pointer | `deflate_adapter.c:138` | `crashed` |
| kz_deflateInit2_ fails, and the unit is lost | `deflate_adapter.c:61` | `UnitsTaken` is a bound |
| RSA private encryption reports success without a result | `rsa_hard.c:465` | `untaken`; those calls are excepted in `SuccessMeansOutput` |
| after eng_finish the engine may be used again, without contexts | `e_kuaf.c:205` | modelled; lengths are then not reported |

Deadlock checking is off where the model stops for a reason of its own: threads
that have made all their calls, a process left waiting for a `paral_sem` whose
creator was killed before SETVAL (`ParalFaults`), threads and daemons that wait for `global_sem` of an
orphan, a stream or an SM2 context after a null pointer
was followed, an engine whose binding failed, a segment that was torn or a semop that failed.

### Bounds

`MaxTime` (clock of `BwRecords`), `MaxSent` (calls of a thread), `MaxForks`, `Segs` and `Sems`
(identifiers in use at a time; with 3 of each in `BwLife` none is ever missing when one is
asked for), `MaxSlips` (semops of `ParalSem` and `BwRecords` that fail; 1 in the runs, any number in the
theorems), and the sizes of the constant sets.  Apart from slips `ParalSem` counts nothing, nor do `BwLife`,
`Scheduler`, `RsaEngine` and `Sm2Engine`: their state spaces are finite without a bound on behaviours.  Two runs
have a constraint: `BwWindowed` stops at a failed semop (`NoneFailed`), beyond which
its properties claim nothing, and `BwLife` stops there and at a torn segment, and is kept to the
devices described above (`Bounded`).  Liveness is thus checked of behaviours that stay within: those in which
no semop fails and each process keeps to its devices.

### Fairness

`ParalSem`: weak fairness of each process's own steps in the library - the kernel
schedules it - and strong fairness of its P: System V semaphores wake their waiters
in order, so a P enabled again and again is served.  It is assumed of the P that takes the
semaphore only: no semop ever has to fail, here and below.  Nothing is assumed of the
application: it need not unload.  `BwRecords`: strong fairness of the daemon threads,
for the same two reasons.  `LocalRecords`: weak fairness of the daemon, which polls for ever, and
of a thread that has begun a call.
`BwLife`: strong fairness of what a process has begun (load, section, unload) and of the
daemon's section; nobody must load, use or unload.  `RsaEngine`: strong fairness of the steps
of a call and of `eng_finish`, for `ctx_mutex`, whose waiters the scheduler serves; no
thread must make a call.

## Proofs

`ParalSemProofs` proves, for any finite sets of processes and contexts, any keys,
limits, crash points and failures:

* `TypeCorrect`, `UnitsConserved` (what a semaphore has left plus what processes must
  give back is the limit, or 0), `HardContextsOweUnits`.

The inductive invariant `Inv` is `TypeOK` with: `LockOK` (the processes that may be inside
a section are counted: their number and the value of `paral_sem` are together at most one and the slips, because
a slip adds one to the first and its V one to the second), `CreatingOK` (a semaphore being created has
value 0 and no units out), `RefsOK` (a live entry denotes an existing semaphore),
`CtxOK` (no hard context before the process runs), `TakenOK` (adjustments lie between 0
and the limit).  Conservation is not inductive without them: a step of `SetSem` sets
the value without looking at the units, and only `CreatingOK` says that there are none.
The count of units is the cardinality of a set of pairs (process, number), and the
`Units...` lemmas say how it changes when an adjustment moves by one.

The limit rests on one more invariant, `UseInv` - identifiers of `paral_sem` are never stale (`IdsInv`) and, until
the first slip, who removes is alone and hard contexts have live entries (`AloneInv`) - which needs the assumption `Undisturbed`: `paral_sem` is not
identifier 0 and no shmat fails.  The first is needed because the list's head, which is zeroed
memory, is removed like an entry: with identifier 0 that is `paral_sem`, under everybody who waits.
The second is too: a failing shmat removes the segment when one process
is attached (`kuaf_paral.c:182`), which is another process's, as the failing one is not
attached; attach counts are then kept on two segments, and the last process of one removes
the semaphores that those of the other use.  From it:

* `LimitHolds`: never more hard contexts than configured, until a slip.  The hard contexts of a key are
  numbered by the units their processes owe, an injection into the units out, of
  which conservation leaves no more than the limit.
* `SectionsAreExclusive`: the processes in the sections are at most one and the slips, for any number of slips.

`PoolImplemented` needs none of this, only `Inv`: the strategy implements `Permits` whatever fails.  The one
step that gives a context an accelerator takes a unit (`GainStep`), so that there was room for it (`RoomLeft`), and every
other step only takes permits back.

From `UseInv` again:

* `RemovedWhenLastForked`: until a slip no semaphore goes while a running process has its identifier, in
  programs that fork.  A child that frees its copies of the parent's contexts breaks `UnitsInv`, so this is
  proved from what survives that: `RemovalInv`, which is the types, `LockOK`, `CtxOK`, `UseInv` and
  `AttInv` - who has the identifier of a semaphore is attached, or is the one that
  removes.  A fork keeps it because a child starts as what its parent is: a running process
  with the same attachment, list and contexts (`ForkStep`).  `SectionsExclusiveForked` follows too, and
  `RemovedWhenLastCorrect` is the same for `ParalSem` alone.

`Sm2Proofs` proves of the SM2 adapter, for any contexts, queues, digests and failures:

* `TypeCorrect`, and `QueuesKeptCorrect`: no queue is lost.  Its invariant adds that a closed
  context has no queue, so that opening it again drops none.
* `QueuesOwnedCorrect` and `OwnSessionCorrect` from `Inv`: until `strayed`, a context's queue is
  outside the pool and of no other context, has a session with the context's digest, and
  has each key that the context remembers (`SessionOK`); a call has a queue, and its key is
  set before the hardware computes (`CallOK`).  Ownership is needed for the keys: a step of
  another context changes only its own session.  `OwnSessionCorrect` assumes that the driver
  accepts keys (`"set_key" \notin Failing`), because `hpre_sm2_set_public_key` reports success
  when it does not.

`BwLifeProofs` proves of the life of the bandwidth segment, for any processes (any of which may
be forked), devices, failures, and kills where `BwLife` has them:

* `TypeCorrect`, `OneSegmentCorrect`, `TableCurrentCorrect`, `DevicesExcludeCorrect`.

`TypeCorrect` is of all behaviours (`Typed` strengthens the types so that no step after a torn
segment or a failed semop breaks them); the others are of the time until then, proved from
`Unslipped`: the types always, and `Inv` until a semop fails.  `Inv` in turn says of a torn
segment only what its types and sections are.  Its parts: `LockInv` (who is in a section of `global_sem` owns it), `SegInv` (a process
that is through its load is attached to the segment that its variables name, the key's while it
loads), `StaleInv`, `LastInv` (a thread about to be given the last node finds one), `NodeInv`, `OwnInv`.  The heart is `StaleInv`: the table may name semaphores
that are gone only while nobody is attached, or one process that is about to empty it or to
remove it.  Exclusion then follows: two threads in the section of a device's node, whichever device each had looked up, went through the same table
entry (`NodeInv`), which is the semaphore everybody has, and both own it (`OwnInv`).  A step that
changes neither a thread's place nor its table entry nor its ownership keeps the last two
(`KeptNodes`), which is shown per action.

`SchedulerProofs` has what the scheduler's operations do to the set of contexts that have a
unit and to the units left: `SchedulerInv`, kept by schedule and free.  On it rest:

* `ZlibProofs`: `TypeCorrect`, `UnitsTakenCorrect`, `HardMeansPreparedCorrect`, for any streams,
  configurations and failures.  Together they are inductive.
* `RsaProofs`: `TypeCorrect`, `MutexHeldCorrect`, `ContextAliveCorrect`, `UnitsAccountedCorrect`,
  `EngCtxsKeptCorrect`, `SuccessMeansOutputCorrect`, for any threads, engine contexts,
  configurations and failures.  `BoundInv` adds that nobody is in a call before binding is done
  and that the pointer the adapter follows is set only while its context is there or being freed;
  `CallOK` that a call has an engine context exactly in its middle, and that a result which
  the caller may see is backed by output.

The zlib module's invariant is also where two facts about the scheduler are stated:

* `LookupMatchesCorrect`: for every directory that fits the tables, of any number of files, of any
  number of lines, a lookup is the reference's (`LookupsMatch`).  The parser is a fold over the
  lines; `ParsedPrefixes` turns it into a sequence of tables, one per line, and a least line at which
  they were wrong is refuted.  What is right is `Laid`: the slots of a file are those of its headers, in
  increasing order of their lines (`Enum`), and the slots of a section those of the pairs
  under its header.  So the first slot that matches is the first line that does (`EnumFirst`).  `Kept` says the
  same of the files of a directory.  That a lookup gives a number at all (`NumberOfText`) is proved
  of every directory, those that do not fit included, and was an assumption before.
* `DevicesPreparedCorrect`: loading on any of the first four NUMA nodes prepares all devices that
  a thread can be scheduled on (`BaseIsFirst`: the truncated division finds the first device of each
  type), and no schedule or free takes a semaphore away.

`LocalProofs` proves, for any threads, addresses and number of calls:

* `TypeCorrect`, `ReachableLiveCorrect`, `OneRecordCorrect`, `UsageAccountedCorrect`, without an assumption on when
  threads and daemon meet.

The records fall into two parts that do not point to each other, one of the threads and one of the daemon; no record
has two predecessors (`Chained`), so that the one the daemon frees is pointed to by nobody afterwards, but for the
first, whose link to what was freed is cut before it is freed itself.  `Inv` adds `Accounts`: there is a set `L` of
records that is the list (`Lists`) and a set `D` of those the daemon has still to add (`Counted`), and the lengths on
them, with what threads are about to add, what is uploaded and what malloc refused, are all that was called
for, less at most what was late.  A list is the closed set that holds its first record and has no smaller such set in
it.  A thread that looks for its record and was not overtaken still has it ahead, if it has one (`Found`).  One
that was overtaken is the delicate case of `OneRecord`: it may add a record at the end of its walk, and must then
have none in the new list; it has none, as a thread's records are only made by itself, and the
list was emptied when it was overtaken.  Sums are sizes of sets of pairs,
as with the units above, so that adding to a record adds to the sum.

`BwProofs` proves of the shared records of a device, for any processes, capacity, interval and
length of time:

* `TypeCorrect`: every link stays within the array, whoever overlaps and whichever semop fails.  This is all that is
  claimed with `Overlap`: `BwRace` shows why.
* For `~Overlap`, until a semop fails: `WellFormedCorrect`, `WalkOnListCorrect`, `UsageCollectedCorrect` - the very property that
  `BwRace` breaks - and `WindowImplemented`, the refinement of `BwWindow`.

The invariant is `Unslipped`: the types and, until a semop fails, `IInv`: the array is represented by two sequences of slots, samples and free ones
(`Arranged`); a process that walks has the semaphore, and a head that was read before P is still the
head (`Alone`, where `~Overlap` is needed); and `WalkOnList`.  The last is needed for the first: what is
deleted must be a sample's slot.  `shared_delete_dev_records_by_idx` and
`shared_insert_dev_record` are shown to cut a slot out of one sequence and to push it on, or append
it to, the other, for each of the branches of the C code; that walking along `next` finds
exactly the sequence (`WalkIs`) is shown by a least step at which it would not.  A step then maps to one
of `BwWindow` by what it does to the sequence of samples: drops an expired one, appends one (and
drops the oldest of a full array), or nothing.

The induction that these proofs need over lists, folds and lines is always the same: a
nonempty set of naturals has a least element (`Least`, from the library's well-foundedness of
strict subsets of finite sets), taken of the places where the claim fails.

Only model-checked: liveness (`SectionsEnd`, `UpdateEnds`, `AllUploaded`, `WaitsEnd`, `CallsEnd`), as fairness
is out of the prover's reach.  Every other property of a passing run has a theorem.

## Not modelled

* The log: text, and rotation of a file that no other component reads.  A
  fork while another thread has its mutex leaves the child waiting at its first message.
* A child of a child (each fork registers the handler again and attaches once more), and a fork
  while the parent unloads.
* A kill between semget and SETVAL of a device's semaphore, and one in the middle of a list
  operation of `BwRecords`, which is one step there.  Either leaves shared memory that no later
  process repairs, so nothing is claimed after it.
* Failing semget and SETVAL for devices' semaphores; malloc failures of the lists.  A failing semop on
  a counting semaphore's V: the process has an undo entry then, and the kernel needs no memory for it.
* What two processes do to the shared array after a failed semop let both into it.
* Cancellation of a daemon in the log's own functions with the log's mutex taken.
* Keys, data, digests, encodings and paddings of RSA and SM2, compressed data: each check on them
  may have any outcome.
* `inflateCopy`, whose code is not in the repository, and the engine's control commands; machines with shared addresses (UADK).
* The pool of the ratio strategy's random numbers: any draw.
* `shared_update_dev_record`, which nobody calls; test drivers, packaging, patches of third-party code.

## What is left

`BwRecords` and `LocalRecords` are not composed: that what one uploads is what the other collects is only
an argument about their interfaces.  A composition of the streams with `ParalSem` itself, and not only
through the units of one generation, would show what a stream sees when semaphores are removed
under it.  What holds of the units when a child frees what its parent has - a bound on how far
the limit is exceeded - is neither checked nor proved.
