----------------------------- MODULE Scheduler ------------------------------
(***************************************************************************)
(* The scheduler: a context is created for an algorithm, scheduled once by *)
(* the strategy that the configuration names for it, and freed with what   *)
(* the strategy gave it.  A context with a dev_id other than 0 is hard.    *)
(* Contexts may be in several processes of the host: they have the         *)
(* configuration and the semaphores in common.                             *)
(*                                                                         *)
(* This module has the operations, which the adapters' modules call.       *)
(***************************************************************************)
EXTENDS Config

CONSTANTS
  Ctxs,        \* places for a scheduler context
  Algs,        \* algorithms in use
  Cpu,         \* "HISI_V1", "HISI_V2" or another
  NumasAtLoad, \* NUMA nodes that the loading process may run on
  Numas,       \* NUMA nodes that a thread may run on later; -1 is an error
  Draws,       \* values of the random pool
  Bandwidths,  \* results of kuaf_bw_get; -1 is an error
  BwReady,     \* g_bandwidth_initialized
  ParalReady   \* g_paral_initialized

Null == [alg |-> "none", strategy |-> "none", dev |-> -1]   \* no context

ASSUME SchedulerAssumption ==
  /\ Algs \subseteq {"ZLIB-DEFLATE", "ZLIB-INFLATE", "RSA", "SM2"}
  /\ NumasAtLoad \subseteq Int /\ NumasAtLoad # {} /\ Numas \subseteq Int
  /\ Draws \subseteq 1 .. 100 /\ Bandwidths \subseteq Int
  /\ BwReady \in BOOLEAN /\ ParalReady \in BOOLEAN

VARIABLES
  etc,     \* the directory that was loaded
  files,   \* the tables made of it
  ctx,     \* the context in each place, or Null
  units    \* value of the semaphore of an algorithm and a device; -1 for none

scVars == <<etc, files, ctx, units>>
-----------------------------------------------------------------------------
(* Devices *)

DEV_ID_UNKNOWN == 0
Devs == 0 .. 12

\* The devices of a type are numbered from here: HPRE, SEC, ZIP.
FirstDev(alg) == IF alg = "RSA" THEN 1 ELSE IF alg = "SM2" THEN 5 ELSE 9

\* The device next to the CPU that the thread runs on; none with a fifth node,
\* or on other CPUs.
kuaf_dev_get_id(alg, numa) ==
  IF numa \in 0 .. 3 /\ Cpu = "HISI_V2" THEN FirstDev(alg) + numa
  ELSE IF numa \in 0 .. 3 /\ Cpu = "HISI_V1" THEN FirstDev(alg) + numa \div 2
  ELSE DEV_ID_UNKNOWN

DevCount == IF Cpu = "HISI_V1" THEN 2 ELSE IF Cpu = "HISI_V2" THEN 4 ELSE 0

\* Mutant: the devices of a type are thought to begin at a multiple of 4.
BaseOfMultiple(dev) == (dev \div 4) * 4 + 1

\* First of the four devices of dev's type: C's division rounds -1 to 0.
Base(dev) == IF dev = 0 THEN 1 ELSE ((dev - 1) \div 4) * 4 + 1

-----------------------------------------------------------------------------
(* What the configuration says of an algorithm *)

Strategy(alg) == kuaf_config_get_str(files, "kae", alg, "scheduler").text
Number(alg, key) == kuaf_config_get_int(files, "kae", alg, key)

\* The semaphores made at load: for the devices of the type of the one that
\* the loading thread is next to.
kuaf_paral_init_sem(alg, numa) ==
  LET base == Base(kuaf_dev_get_id(alg, numa))
  IN IF Number(alg, "parallel") < 1 THEN {} ELSE base .. base + DevCount - 1

kuaf_inner_ctx_init ==
  /\ etc \in Directories
  /\ files = load_kuaf_configs(etc)
  /\ ctx = [c \in Ctxs |-> Null]
  /\ \E numa \in [Algs -> NumasAtLoad] :
       units = [k \in Algs \X Devs |->
                  IF ParalReady /\ k[2] \in kuaf_paral_init_sem(k[1], numa[k[1]])
                  THEN Number(k[1], "parallel") ELSE -1]
-----------------------------------------------------------------------------
(* Scheduling.  Each sets the new context c, and units *)

Becomes(c, alg, strategy, dev) ==
  ctx' = [ctx EXCEPT ![c] = [alg |-> alg, strategy |-> strategy, dev |-> dev]]

kuaf_scheduler_bandwidth(c, alg) ==
  /\ \E numa \in Numas, bw \in Bandwidths :
       Becomes(c, alg, "bandwidth",
               IF BwReady /\ bw < Number(alg, "bandwidth")
               THEN kuaf_dev_get_id(alg, numa) ELSE DEV_ID_UNKNOWN)
  /\ UNCHANGED units

kuaf_scheduler_ratio(c, alg) ==
  /\ \E numa \in Numas, draw \in Draws :
       Becomes(c, alg, "ratio",
               IF draw <= Number(alg, "ratio")
               THEN kuaf_dev_get_id(alg, numa) ELSE DEV_ID_UNKNOWN)
  /\ UNCHANGED units

\* Mutant: an error of try_P is taken for a unit.
TryPNotZero(k) == ParalReady /\ units[k] # 0

\* try_P of the semaphore of the algorithm on the device, if there is one.
TryP(k) == ParalReady /\ units[k] > 0

kuaf_scheduler_parallel(c, alg) ==
  \E numa \in Numas :
    LET k == <<alg, kuaf_dev_get_id(alg, numa)>> IN
    \/ /\ TryP(k)
       /\ units' = [units EXCEPT ![k] = @ - 1]
       /\ Becomes(c, alg, "parallel", k[2])
    \/ /\ ~ TryP(k)
       /\ Becomes(c, alg, "parallel", DEV_ID_UNKNOWN)
       /\ UNCHANGED units

\* No strategy, or one that the scheduler does not know: an error, and the
\* context, still without a strategy, is for its owner to free.
NoStrategy(alg) == Strategy(alg) \notin {"bandwidth", "ratio", "parallel"}

kuaf_ctx_scheduler(c, alg) ==
  /\ UNCHANGED <<etc, files>>
  /\ \/ Strategy(alg) = "bandwidth" /\ kuaf_scheduler_bandwidth(c, alg)
     \/ Strategy(alg) = "ratio" /\ kuaf_scheduler_ratio(c, alg)
     \/ Strategy(alg) = "parallel" /\ kuaf_scheduler_parallel(c, alg)

Hard(c) == ctx[c].dev > DEV_ID_UNKNOWN
HasUnit(c) == ctx[c].strategy = "parallel" /\ Hard(c)

\* Without a semaphore there is nothing to do.
kuaf_paral_V(alg, dev) ==
  units' = IF units[<<alg, dev>>] = -1 THEN units
           ELSE [units EXCEPT ![<<alg, dev>>] = @ + 1]

\* Mutant: the clean-up does not look at the strategy.
FreeAnyStrategy(c) ==
  /\ IF Hard(c) THEN kuaf_paral_V(ctx[c].alg, ctx[c].dev) ELSE UNCHANGED units
  /\ ctx' = [ctx EXCEPT ![c] = Null]
  /\ UNCHANGED <<etc, files>>

\* Every owner clears its pointer to the context it frees.
kuaf_ctx_scheduler_free(c) ==
  /\ IF HasUnit(c) THEN kuaf_paral_V(ctx[c].alg, ctx[c].dev) ELSE UNCHANGED units
  /\ ctx' = [ctx EXCEPT ![c] = Null]
  /\ UNCHANGED <<etc, files>>

-----------------------------------------------------------------------------
(* Properties *)

SchedulerTypeOK ==
  /\ etc \in Directories
  /\ ctx \in [Ctxs -> {Null} \cup
                [alg : Algs, strategy : {"bandwidth", "ratio", "parallel"}, dev : Devs]]
  /\ units \in [Algs \X Devs -> {n \in Int : n >= -1}]

\* Every value that the library looks up is the one a reader of the file
\* expects: the first of its key, in the first section of its name - in a
\* directory that the fixed tables can hold.
LookupMatches ==
  WithinLimits(etc) =>
    \A alg \in Algs, key \in {"scheduler", "bandwidth", "ratio", "parallel"} :
      kuaf_config_get_str(files, "kae", alg, key) = RefValue(etc, "kae", alg, key)

\* A device that a thread may be scheduled on has a semaphore if parallel is
\* configured, wherever the loading thread happened to run - but on a NUMA
\* node from 0 to 3: elsewhere it makes the semaphores of the HPRE devices.
DevicesPrepared ==
  ParalReady /\ NumasAtLoad \subseteq 0 .. 3 =>
    \A alg \in Algs, numa \in Numas :
      LET dev == kuaf_dev_get_id(alg, numa) IN
      Number(alg, "parallel") >= 1 /\ dev # DEV_ID_UNKNOWN => units[<<alg, dev>>] >= 0

HardContexts(alg, dev) ==
  {c \in Ctxs : HasUnit(c) /\ ctx[c].alg = alg /\ ctx[c].dev = dev}

\* No error path returns a unit twice, or a unit that its context never took
\* (a soft one, or one of another strategy): the contexts on a device and the
\* units left never exceed the limit, unless there is no semaphore at all.
UnitsTaken ==
  \A alg \in Algs, dev \in Devs :
    units[<<alg, dev>>] + Cardinality(HardContexts(alg, dev))
      <= IF Number(alg, "parallel") < 1 THEN -1 ELSE Number(alg, "parallel")
=============================================================================
