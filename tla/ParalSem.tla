------------------------------ MODULE ParalSem ------------------------------
(***************************************************************************)
(* The "parallel" strategy: at most `parallel' contexts of all processes   *)
(* use one accelerator for one algorithm.  Each (algorithm, device) pair   *)
(* is a System V semaphore shared by every process that loads the library; *)
(* a context that gets a unit is hard, the others run in software.         *)
(*                                                                         *)
(* kuaf_paral.c creates the semaphores when the library is loaded and      *)
(* removes them when the last process unloads it; both sections run under  *)
(* one more semaphore, paral_sem.  Who is last is read off the attach      *)
(* count of a shared segment that holds nothing else.                      *)
(*                                                                         *)
(* Crashes (CrashAt) and failing calls (Failing) are part of the model,    *)
(* and so is SEM_UNDO, by which the kernel gives back what a dead process  *)
(* had taken.  A semop on paral_sem may fail as well: the library logs it  *)
(* and goes on into the section.                                           *)
(***************************************************************************)
EXTENDS Integers, FiniteSets

CONSTANTS
  Procs,       \* processes that load the library
  Ctxs,        \* scheduler contexts of one process
  Keys,        \* parallel ids: an algorithm on a device
  Limit,       \* the configured `parallel' value of each key
  CrashAt,     \* program points at which a process may be killed
  Failing,     \* calls that may fail: "lock", "shmget", "shmat", "semget", "semop"
  MaxSlips,    \* bound: P's of paral_sem that fail, if "semop" may
  LockFirst    \* paral_sem is the host's first semaphore: identifier 0

NoCtx == "noctx"              \* no context is allocated
DevUnknown == "dev_unknown"   \* DEV_ID_UNKNOWN: software

Critical == {"shmat", "sems", "initV", "shmdt", "rmid0", "rmid", "freeV"}
PCs == {"off", "setval", "initP", "run", "freeP", "exit"} \cup Critical

ASSUME ParalAssumption ==
  /\ IsFiniteSet(Procs) /\ IsFiniteSet(Ctxs)
  /\ Limit \in [Keys -> Nat \ {0}]
  /\ Keys \cap {NoCtx, DevUnknown} = {}
  /\ CrashAt \subseteq PCs \ {"off"}
  /\ Failing \subseteq {"lock", "shmget", "shmat", "semget", "semop"}
  /\ MaxSlips \in Nat
  /\ LockFirst \in BOOLEAN

VARIABLES
  pc,       \* where each process is in its library constructor or destructor
  lock,     \* value of paral_sem, -1 when it does not exist
  lockref,  \* what a process's paral_sem identifier denotes
  undo,     \* the kernel's SEM_UNDO adjustment of paral_sem for each process
  slips,    \* P's of paral_sem that failed, and let a process in all the same
  idzero,   \* paral_sem has identifier 0
  shm,      \* the segment's key denotes a segment
  att,      \* is the process attached to that segment, to a removed one, or not
  sem,      \* value of each parallel semaphore, -1 when it does not exist
  map,      \* each process's paral_head list: what its entry of a key denotes
  taken,    \* the kernel's SEM_UNDO adjustment: units a process must give back
  ctx       \* each process's contexts: a key when hard

vars == <<pc, lock, lockref, undo, slips, idzero, shm, att, sem, map, taken, ctx>>

PNull(v) == [p \in Procs |-> v]
PKeys(v) == [p \in Procs |-> [k \in Keys |-> v]]

Init ==
  /\ pc = PNull("off")
  /\ lock = -1 /\ lockref = PNull("none") /\ undo = PNull(0) /\ slips = 0
  /\ idzero = LockFirst
  /\ shm = FALSE /\ att = PNull("no")
  /\ sem = [k \in Keys |-> -1] /\ map = PKeys("absent") /\ taken = PKeys(0)
  /\ ctx = [p \in Procs |-> [c \in Ctxs |-> NoCtx]]

\* Each P that failed may raise paral_sem by one, for its V does not fail.
TypeOK ==
  /\ pc \in [Procs -> PCs]
  /\ slips \in Nat /\ lock \in -1 .. (1 + slips)
  /\ undo \in [Procs -> Int]
  /\ lockref \in [Procs -> {"none", "live", "stale"}]
  /\ idzero \in BOOLEAN /\ shm \in BOOLEAN
  /\ att \in [Procs -> {"no", "live", "stale"}]
  /\ sem \in [Keys -> Nat \cup {-1}]
  /\ map \in [Procs -> [Keys -> {"absent", "creating", "live", "stale"}]]
  /\ taken \in [Procs -> [Keys -> Int]]
  /\ ctx \in [Procs -> [Ctxs -> Keys \cup {NoCtx, DevUnknown}]]

Goto(p, l) == pc' = [pc EXCEPT ![p] = l]

-----------------------------------------------------------------------------
(* Kernel objects *)

\* Removing an object leaves every other identifier of it dangling.
Dangling(r) == IF r \in {"live", "creating"} THEN "stale" ELSE r

Attached == {p \in Procs : att[p] = "live"}

\* A semaphore's value once a process's adjustment is made: never below 0.
AfterUndo(value, adj) ==
  IF value = -1 THEN -1 ELSE IF value + adj < 0 THEN 0 ELSE value + adj

\* Process exit: the kernel makes the adjustments of paral_sem and of the
\* units taken, and detaches the segment.
KernelExit(p) ==
  /\ Goto(p, "off")
  /\ lock' = AfterUndo(lock, undo[p])
  /\ lockref' = [lockref EXCEPT ![p] = "none"]
  /\ undo' = [undo EXCEPT ![p] = 0]
  /\ att' = [att EXCEPT ![p] = "no"]
  /\ sem' = [k \in Keys |-> AfterUndo(sem[k], taken[p][k])]
  /\ map' = [map EXCEPT ![p] = [k \in Keys |-> "absent"]]
  /\ taken' = [taken EXCEPT ![p] = [k \in Keys |-> 0]]
  /\ ctx' = [ctx EXCEPT ![p] = [c \in Ctxs |-> NoCtx]]
  /\ UNCHANGED <<slips, idzero, shm>>

Exit(p) == pc[p] = "exit" /\ KernelExit(p)
Crash(p) == pc[p] \in CrashAt /\ KernelExit(p)

-----------------------------------------------------------------------------
(* The constructor: init_global_semaphore, kuaf_paral_init *)

Uninit == <<idzero, shm, att, sem, map, taken, ctx>>
Lock == <<lock, lockref, undo, slips>>

\* Mutant: semget without IPC_EXCL, so that every process sets the value.
InitNoExcl(p) ==
  /\ pc[p] = "off"
  /\ \A q \in Procs : pc[q] # "setval"
  /\ lock' = IF lock = -1 THEN 0 ELSE lock
  /\ Goto(p, "setval")
  /\ lockref' = [lockref EXCEPT ![p] = "live"]
  /\ UNCHANGED <<undo, slips, Uninit>>

\* semget under the file lock: a new semaphore has value 0 until SETVAL.
init_global_semaphore(p) ==
  /\ pc[p] = "off"
  /\ \A q \in Procs : pc[q] # "setval"
  /\ \/ /\ lock = -1
        /\ lock' = 0
        /\ Goto(p, "setval")
        /\ lockref' = [lockref EXCEPT ![p] = "live"]
     \/ /\ lock # -1
        /\ Goto(p, "initP")
        /\ lockref' = [lockref EXCEPT ![p] = "live"]
        /\ UNCHANGED lock
     \/ /\ "lock" \in Failing
        /\ Goto(p, "run")
        /\ UNCHANGED <<lock, lockref>>
  /\ UNCHANGED <<undo, slips, Uninit>>

\* SETVAL clears every process's adjustment.
SetLock(p) ==
  /\ pc[p] = "setval"
  /\ lock' = 1 /\ undo' = PNull(0)
  /\ Goto(p, "initP")
  /\ UNCHANGED <<lockref, slips, Uninit>>

\* The process goes on into its section.
Enter(p) ==
  /\ pc[p] \in {"initP", "freeP"}
  /\ Goto(p, IF pc[p] = "initP" THEN "shmat" ELSE "shmdt")
  /\ UNCHANGED <<lockref, Uninit>>

\* Mutant of Acquire: a P without SEM_UNDO.
AcquireNoUndo(p) ==
  \/ lockref[p] = "live" /\ lock > 0 /\ lock' = lock - 1 /\ UNCHANGED <<undo, slips>>
  \/ lockref[p] = "stale" /\ UNCHANGED <<lock, undo, slips>>

\* semop blocks while the semaphore is 0, and fails when it is removed.
Acquire(p) ==
  \/ /\ lockref[p] = "live" /\ lock > 0
     /\ lock' = lock - 1 /\ undo' = [undo EXCEPT ![p] = @ + 1]
     /\ UNCHANGED slips
  \/ lockref[p] = "stale" /\ UNCHANGED <<lock, undo, slips>>

\* It fails on a semaphore that exists, too: a signal, no memory.
Slip(p) ==
  /\ "semop" \in Failing /\ lockref[p] = "live"
  /\ slips < MaxSlips /\ slips' = slips + 1
  /\ UNCHANGED <<lock, undo>>

\* A semop that fails only makes semaphore_P log an error and go on.
semaphore_P(p) == Enter(p) /\ (Acquire(p) \/ Slip(p))

\* Mutant of Release: a V without SEM_UNDO.
ReleaseNoUndo(p) ==
  /\ lock' = IF lockref[p] = "live" THEN lock + 1 ELSE lock
  /\ UNCHANGED undo

\* V raises the semaphore whether or not the P before it took effect.  After
\* a P that failed the process may have no adjustment yet, and then its V
\* may fail as well, for want of memory.
Release(p) ==
  \/ /\ lockref[p] = "live"
     /\ lock' = lock + 1 /\ undo' = [undo EXCEPT ![p] = @ - 1]
  \/ /\ lockref[p] = "live" => "semop" \in Failing /\ undo[p] = 0
     /\ UNCHANGED <<lock, undo>>

semaphore_V(p) ==
  /\ pc[p] \in {"initV", "freeV"}
  /\ Release(p)
  /\ Goto(p, IF pc[p] = "initV" THEN "run" ELSE "exit")
  /\ UNCHANGED <<lockref, slips, Uninit>>

\* shmget, shmat, malloc.  When attaching fails the segment is removed if
\* no more than one process is attached.
kuaf_paral_init(p) ==
  /\ pc[p] = "shmat"
  /\ \/ /\ shm' = TRUE
        /\ att' = [att EXCEPT ![p] = "live"]
        /\ Goto(p, "sems")
     \/ /\ "shmget" \in Failing
        /\ Goto(p, "initV")
        /\ UNCHANGED <<shm, att>>
     \/ /\ "shmat" \in Failing
        /\ shm' = (Cardinality(Attached) > 1)
        /\ att' = IF shm' THEN att ELSE [q \in Procs |-> Dangling(att[q])]
        /\ Goto(p, "initV")
  /\ UNCHANGED <<Lock, idzero, sem, map, taken, ctx>>

\* init_multi_semaphore and kuaf_paral_map_insert, for the next key.
init_multi_semaphore(p, k) ==
  /\ pc[p] = "sems"
  /\ map[p][k] = "absent"
  /\ \A j \in Keys : map[p][j] # "creating"
  /\ \/ /\ sem[k] = -1
        /\ sem' = [sem EXCEPT ![k] = 0]
        /\ map' = [map EXCEPT ![p][k] = "creating"]
     \/ /\ sem[k] # -1
        /\ map' = [map EXCEPT ![p][k] = "live"]
        /\ UNCHANGED sem
     \/ /\ "semget" \in Failing
        /\ map' = [map EXCEPT ![p][k] = "stale"]
        /\ UNCHANGED sem
  /\ UNCHANGED <<pc, Lock, idzero, shm, att, taken, ctx>>

SetSem(p, k) ==
  /\ pc[p] = "sems" /\ map[p][k] = "creating"
  /\ sem' = [sem EXCEPT ![k] = Limit[k]]
  /\ map' = [map EXCEPT ![p][k] = "live"]
  /\ UNCHANGED <<pc, Lock, idzero, shm, att, taken, ctx>>

EndInit(p) ==
  /\ pc[p] = "sems"
  /\ \A k \in Keys : map[p][k] \in {"live", "stale"}
  /\ Goto(p, "initV")
  /\ UNCHANGED <<Lock, Uninit>>

-----------------------------------------------------------------------------
(* Contexts of a running process *)

SetCtx(p, c, v) == ctx' = [ctx EXCEPT ![p][c] = v]
Shared == <<pc, Lock, idzero, shm, att, map>>

kuaf_ctx_scheduler_create(p, c) ==
  /\ pc[p] = "run" /\ ctx[p][c] = NoCtx
  /\ SetCtx(p, c, DevUnknown)
  /\ UNCHANGED <<Shared, sem, taken>>

\* Mutant: the value is not tested.
UnitLeftUntested(p, k) == att[p] # "no" /\ map[p][k] = "live" /\ sem[k] >= 0

\* g_paral_initialized and an entry of the list that denotes a semaphore
\* with a unit left.
UnitLeft(p, k) == att[p] # "no" /\ map[p][k] = "live" /\ sem[k] > 0

\* Mutant: semaphore_try_P without SEM_UNDO.
SchedulerNoUndo(p, c, k) ==
  /\ pc[p] = "run" /\ ctx[p][c] # NoCtx
  /\ UnitLeft(p, k)
  /\ sem' = [sem EXCEPT ![k] = @ - 1]
  /\ SetCtx(p, c, k)
  /\ UNCHANGED <<Shared, taken>>

\* kuaf_ctx_scheduler, strategy parallel.  The context's dev_id is reset
\* first, so scheduling a hard context again forgets the unit it has.  A
\* semaphore_try_P that fails leaves the context in software.
kuaf_ctx_scheduler(p, c, k) ==
  /\ pc[p] = "run" /\ ctx[p][c] # NoCtx
  /\ \/ /\ UnitLeft(p, k)
        /\ sem' = [sem EXCEPT ![k] = @ - 1]
        /\ taken' = [taken EXCEPT ![p][k] = @ + 1]
        /\ SetCtx(p, c, k)
     \/ /\ ~UnitLeft(p, k) \/ "semop" \in Failing
        /\ SetCtx(p, c, DevUnknown)
        /\ UNCHANGED <<sem, taken>>
  /\ UNCHANGED Shared

\* Mutant: semaphore_V without SEM_UNDO.
FreeNoUndo(p, c) ==
  /\ pc[p] = "run" /\ ctx[p][c] # NoCtx
  /\ sem' = [k \in Keys |-> IF k = ctx[p][c] /\ map[p][k] = "live"
                            THEN sem[k] + 1 ELSE sem[k]]
  /\ SetCtx(p, c, NoCtx)
  /\ UNCHANGED <<Shared, taken>>

\* kuaf_ctx_scheduler_free, with kuaf_paral_V for a hard context.  This V
\* does not fail: the process has the adjustment its try_P made.
kuaf_ctx_scheduler_free(p, c) ==
  /\ pc[p] = "run" /\ ctx[p][c] # NoCtx
  /\ LET k == ctx[p][c] IN
     IF k # DevUnknown /\ map[p][k] = "live"
     THEN /\ sem' = [sem EXCEPT ![k] = @ + 1]
          /\ taken' = [taken EXCEPT ![p][k] = @ - 1]
     ELSE UNCHANGED <<sem, taken>>
  /\ SetCtx(p, c, NoCtx)
  /\ UNCHANGED Shared

-----------------------------------------------------------------------------
(* The destructor: kuaf_paral_free *)

BeginFree(p) ==
  /\ pc[p] = "run"
  /\ Goto(p, IF lockref[p] = "none" THEN "exit" ELSE "freeP")
  /\ UNCHANGED <<Lock, Uninit>>

\* Mutant: the attach count is compared with 1 after the process detached.
LastOutByOne(p) == Cardinality(Attached \ {p}) <= 1

\* The attach count is 0 once the process has detached.
LastOut(p) == Attached = {p}

\* shmdt, then the attach count decides who removes segment and semaphores.
kuaf_paral_free(p) ==
  /\ pc[p] = "shmdt"
  /\ att' = [att EXCEPT ![p] = "no"]
  /\ IF LastOut(p)
     THEN /\ shm' = FALSE
          /\ Goto(p, "rmid0")
          /\ UNCHANGED map
     ELSE /\ map' = [map EXCEPT ![p] = [k \in Keys |-> "absent"]]
          /\ Goto(p, "freeV")
          /\ UNCHANGED shm
  /\ UNCHANGED <<Lock, idzero, sem, taken, ctx>>

\* kuaf_paral_map_destroy starts with the list's head, whose sem is 0.
RemoveHead(p) ==
  /\ pc[p] = "rmid0"
  /\ Goto(p, "rmid")
  /\ IF idzero /\ lock # -1
     THEN /\ lock' = -1 /\ idzero' = FALSE /\ undo' = PNull(0)
          /\ lockref' = [q \in Procs |-> Dangling(lockref[q])]
     ELSE UNCHANGED <<lock, idzero, undo, lockref>>
  /\ UNCHANGED <<slips, shm, att, sem, map, taken, ctx>>

RemoveSem(p, k) ==
  /\ pc[p] = "rmid" /\ map[p][k] # "absent"
  /\ IF map[p][k] = "live"
     THEN /\ sem' = [sem EXCEPT ![k] = -1]
          /\ taken' = [q \in Procs |-> [taken[q] EXCEPT ![k] = 0]]
          /\ map' = [q \in Procs |->
                [map[q] EXCEPT ![k] = IF q = p THEN "absent" ELSE Dangling(@)]]
     ELSE /\ map' = [map EXCEPT ![p][k] = "absent"]
          /\ UNCHANGED <<sem, taken>>
  /\ UNCHANGED <<pc, Lock, idzero, shm, att, ctx>>

EndRemove(p) ==
  /\ pc[p] = "rmid"
  /\ \A k \in Keys : map[p][k] = "absent"
  /\ Goto(p, "freeV")
  /\ UNCHANGED <<Lock, Uninit>>

-----------------------------------------------------------------------------
\* The steps of one process's constructor and destructor, apart from P.
LibStep(p) ==
  \/ SetLock(p) \/ semaphore_V(p) \/ kuaf_paral_init(p) \/ EndInit(p)
  \/ \E k \in Keys : init_multi_semaphore(p, k) \/ SetSem(p, k)
  \/ kuaf_paral_free(p) \/ RemoveHead(p) \/ EndRemove(p)
  \/ \E k \in Keys : RemoveSem(p, k)
  \/ Exit(p)

CtxStep(p) ==
  \E c \in Ctxs :
    \/ kuaf_ctx_scheduler_create(p, c)
    \/ \E k \in Keys : kuaf_ctx_scheduler(p, c, k)
    \/ kuaf_ctx_scheduler_free(p, c)

Next ==
  \E p \in Procs :
    \/ init_global_semaphore(p) \/ semaphore_P(p) \/ LibStep(p)
    \/ CtxStep(p) \/ BeginFree(p) \/ Crash(p)

Spec == Init /\ [][Next]_vars

\* The kernel schedules a process inside the library, and serves the
\* waiters of a semaphore in turn; no P ever has to fail.
Fairness ==
  \A p \in Procs : WF_vars(LibStep(p)) /\ SF_vars(Enter(p) /\ Acquire(p))
-----------------------------------------------------------------------------
(* Properties *)

\* Contexts of running processes that were given the accelerator of key k.
Hard(k) == {h \in Procs \X Ctxs : pc[h[1]] = "run" /\ ctx[h[1]][h[2]] = k}

\* The units of key k that processes have to give back, as pairs of a
\* process and a number; adj is the table of the kernel's adjustments.
UnitsOf(adj, k) == {u \in Procs \X (1 .. Limit[k]) : u[2] <= adj[u[1]][k]}
Units(k) == UnitsOf(taken, k)

\* No unit is lost or made up, whatever processes are killed and whatever
\* calls fail: what an existing semaphore has left and what processes must
\* give back add up to the configured value -- or to 0, if its creator died
\* before it set the value (init_multi_semaphore, kuaf_paral_try_P and
\* kuaf_paral_V against SEM_UNDO).
Conservation ==
  \A k \in Keys :
    sem[k] # -1 => sem[k] + Cardinality(Units(k)) \in {0, Limit[k]}

\* A running process owes the kernel at least one unit for every context it
\* has on an accelerator, so its death frees all of them (kuaf_sc.c, the
\* pairing of try_P in kuaf_scheduler_parallel with V in
\* kuaf_ctx_scheduler_free).
HardOwesUnit ==
  \A p \in Procs, k \in Keys :
    pc[p] = "run" /\ map[p][k] = "live" =>
      Cardinality({c \in Ctxs : ctx[p][c] = k}) <= taken[p][k]

\* The point of the strategy: never more contexts on an accelerator than
\* configured, over all processes, across crashes and across the removal of
\* the semaphores and their creation by the next process -- unless a P of
\* paral_sem failed: who enters beside the process that removes the
\* semaphores keeps contexts which the next generation does not count.
HardwareWithinLimit ==
  slips = 0 => \A k \in Keys : Cardinality(Hard(k)) <= Limit[k]

\* The sections of kuaf_paral_init and kuaf_paral_free exclude each other as
\* far as semaphore_P can make them: it logs a semop that fails and goes on,
\* and the V that follows raises paral_sem too high, but the processes in
\* the sections are never more than one plus the P's that failed.
SectionsExclude ==
  Cardinality({p \in Procs : pc[p] \in Critical}) <= 1 + slips

\* kuaf_paral_map_destroy never takes a semaphore from a running process
\* that can still use it, unless a P of paral_sem failed: whoever finds the
\* attach count 0 is the last.
RemovedWhenLast ==
  [][\A k \in Keys : sem[k] # -1 /\ sem'[k] = -1 /\ slips = 0 =>
       \A p \in Procs : pc[p] = "run" => map[p][k] # "live"]_vars

\* A process that waits for paral_sem gets through its constructor, or its
\* destructor, although holders of the semaphore may be killed and others
\* have entered without it.
SectionsEnd ==
  \A p \in Procs : /\ pc[p] = "initP" ~> pc[p] \in {"run", "off"}
                   /\ pc[p] = "freeP" ~> pc[p] = "off"

\* What the strategy promises: a pool of permits (module Permits) for every
\* semaphore, of which each step grants at most one -- whatever is killed,
\* fails or is removed.  Contexts of a removed semaphore have no permit.
Pool == INSTANCE Permits WITH
          Clients <- Procs \X Ctxs,
          holders <- [k \in Keys |-> {h \in Hard(k) : map[h[1]][k] = "live"}]
PoolSpec == Pool!Spec
=============================================================================
