------------------------------- MODULE BwLife -------------------------------
(***************************************************************************)
(* The life of the bandwidth strategy's shared memory: processes load the  *)
(* library, fork, use devices, unload it and are killed; the first one     *)
(* empties the table of devices, the last one removes the devices'         *)
(* semaphores and the segment.  global_sem, which is never removed,        *)
(* guards all of that but fork.                                            *)
(*                                                                         *)
(* A process has a thread of the application, which also loads and         *)
(* unloads, and the daemon.  A thread that touches the segment after it    *)
(* was detached ends its process (SIGSEGV).  The records are the module    *)
(* BwRecords; here a device's section is entered and left.                 *)
(*                                                                         *)
(* A semop that fails is only logged, and the section is entered without   *)
(* the semaphore, which its V then raises (slipped).  The properties are   *)
(* of the time before that.                                                *)
(*                                                                         *)
(* A process is not killed between the creation of a semaphore and its     *)
(* SETVAL, forks only while the library is loaded, and its children do not *)
(* fork.  Semaphores can always be created.                                *)
(***************************************************************************)
EXTENDS Naturals, FiniteSets

CONSTANTS
  Procs, Children,  \* processes, those that may be forked instead of loading
                    \* the library; the others may fork
  Devs,             \* devices
  Segs, Sems,       \* identifiers of segments and of semaphores; both bound
                    \* what can be there at a time
  None,             \* no identifier, a null pointer
  Free, Unset,      \* no owner of a semaphore: its value is 1; it is not there
  Failing,          \* calls that may fail: "shmget", "shmat", "thread", "semop"
  Debug             \* the level of the log lets debug messages through, in
                    \* which a cancelled thread ends

Threads == Procs \X {"main", "daemon"}
Main(p) == <<p, "main">>
Daemon(p) == <<p, "daemon">>
Created(t) == <<t, "creates">>    \* a semaphore of value 0 that t will set to 1

ASSUME LifeAssumption ==
  /\ IsFiniteSet(Procs) /\ Children \subseteq Procs
  /\ None \notin Segs \cup Sems \cup Devs /\ Debug \in BOOLEAN
  /\ {Free, Unset} \cap (Threads \cup {Created(t) : t \in Threads}) = {} /\ Free # Unset

VARIABLES
  key,      \* the segment of BW_GLOBAL_SHM_KEY
  att,      \* attachments: those of loading, and those a child inherits
  table,    \* SharedDevList of a segment: the semaphore of each device in it
  last,     \* the device of nodes[dev_count - 1]
  lock,     \* owner of global_sem
  sem,      \* the semaphore of a device's key
  owner,    \* owner of each semaphore
  pc, dev,  \* where a thread is, and with which device
  known,    \* local_devs of a process
  shm, mem, \* kuaf_shmid and shared_devs of a process
  ready,    \* g_bandwidth_initialized of a process
  cancelled,\* processes whose daemon has been cancelled
  torn,     \* whether a load that failed removed the segment of others
  slipped   \* whether a section was entered without its semaphore

hostVars == <<key, att, table, last, sem, torn>>
procVars == <<known, shm, mem, ready, cancelled>>
vars == <<hostVars, procVars, lock, owner, slipped, pc, dev>>

Empty == [d \in Devs |-> None]

Init ==
  /\ key = None /\ att = {}
  /\ table = [g \in Segs |-> Empty] /\ last = [g \in Segs |-> None]
  /\ lock = Free /\ slipped = FALSE
  /\ sem = Empty /\ owner = [s \in Sems |-> Unset]
  /\ pc = [t \in Threads |-> "none"] /\ dev = [t \in Threads |-> None]
  /\ known = [p \in Procs |-> {}]
  /\ shm = [p \in Procs |-> None] /\ mem = [p \in Procs |-> None]
  /\ ready = {} /\ cancelled = {} /\ torn = FALSE

PCs == {"none", "load", "shmget", "shmat", "memset", "start", "undo", "run",
        "setlocal", "sleep", "register", "find", "found", "set", "return", "node",
        "section", "exit", "unload", "shmdt", "rmid", "left"}

TypeOK ==
  /\ key \in Segs \cup {None}
  /\ att \subseteq [proc : Procs, via : {"load", "fork"}, seg : Segs]
  /\ table \in [Segs -> [Devs -> Sems \cup {None}]]
  /\ last \in [Segs -> Devs \cup {None}]
  /\ lock \in Threads \cup {Free}
  /\ sem \in [Devs -> Sems \cup {None}]
  /\ owner \in [Sems -> Threads \cup {Created(t) : t \in Threads} \cup {Free, Unset}]
  /\ pc \in [Threads -> PCs]
  /\ dev \in [Threads -> Devs \cup {None}]
  /\ known \in [Procs -> SUBSET Devs]
  /\ shm \in [Procs -> Segs \cup {None}] /\ mem \in [Procs -> Segs \cup {None}]
  /\ ready \subseteq Procs /\ cancelled \subseteq Procs
  /\ torn \in BOOLEAN /\ slipped \in BOOLEAN

Fails(call) == call \in Failing
Goto(t, place) == pc' = [pc EXCEPT ![t] = place]
At(t, place) == pc[t] = place
shm_nattch(g) == Cardinality({a \in att : a.seg = g})

\* Mutant: shmat is given what shared_devs was.
AttachmentOfMem(p) == [proc |-> p, via |-> "load", seg |-> mem[p]]

Attachment(p) == [proc |-> p, via |-> "load", seg |-> shm[p]]

FreshSegs == {g \in Segs : g # key /\ shm_nattch(g) = 0}
NewSeg == CHOOSE g \in FreshSegs : TRUE
FreshSems ==
  {s \in Sems : (\A d \in Devs : sem[d] # s) /\ (\A g \in Segs, d \in Devs : table[g][d] # s)}
NewSem == CHOOSE s \in FreshSems : TRUE

\* A failed semop.  Once there was one, its V may have raised the semaphore:
\* whoever finds it up beside its owner is one of those that need not wait.
Slip == Fails("semop") /\ slipped' = TRUE

\* P and V of global_sem.
P(t, place) ==
  /\ \/ lock = Free /\ lock' = t /\ UNCHANGED slipped
     \/ Slip /\ UNCHANGED lock
  /\ Goto(t, place)
V(t, place) == lock' = (IF lock = t THEN Free ELSE lock) /\ Goto(t, place)

Emptied(g) ==
  /\ table' = [table EXCEPT ![g] = Empty] /\ last' = [last EXCEPT ![g] = None]

\* The kernel detaches what a process has, gives its semaphores back (SEM_UNDO)
\* and forgets the rest.
KernelExit(p) ==
  /\ att' = {a \in att : a.proc # p}
  /\ lock' = IF lock \in {Main(p), Daemon(p)} THEN Free ELSE lock
  /\ owner' = [s \in Sems |-> IF owner[s] \in {Main(p), Daemon(p)} THEN Free ELSE owner[s]]
  /\ pc' = [pc EXCEPT ![Main(p)] = "none", ![Daemon(p)] = "none"]
  /\ dev' = [dev EXCEPT ![Main(p)] = None, ![Daemon(p)] = None]
  /\ known' = [known EXCEPT ![p] = {}]
  /\ shm' = [shm EXCEPT ![p] = None] /\ mem' = [mem EXCEPT ![p] = None]
  /\ ready' = ready \ {p} /\ cancelled' = cancelled \ {p}
  /\ LET there == {g \in Segs : g = key \/ \E a \in att' : a.seg = g}
     IN /\ table' = [g \in Segs |-> IF g \in there THEN table[g] ELSE Empty]
        /\ last' = [g \in Segs |-> IF g \in there THEN last[g] ELSE None]
  /\ UNCHANGED <<key, sem, torn, slipped>>

-----------------------------------------------------------------------------
(* kuaf_bw_init_async *)

\* The library is loaded; init_global_semaphore is the module ParalSem's.
Load(p) ==
  /\ At(Main(p), "none")
  /\ Goto(Main(p), "load")
  /\ UNCHANGED <<hostVars, procVars, lock, owner, slipped, dev>>

LoadLock(p) ==
  /\ At(Main(p), "load") /\ P(Main(p), "shmget")
  /\ UNCHANGED <<hostVars, procVars, owner, dev>>

\* A new segment is empty.
shmget(p) ==
  /\ At(Main(p), "shmget")
  /\ \/ /\ key # None /\ UNCHANGED <<key, table, last>>
        /\ shm' = [shm EXCEPT ![p] = key] /\ Goto(Main(p), "shmat") /\ UNCHANGED lock
     \/ /\ key = None /\ FreshSegs # {}
        /\ key' = NewSeg /\ Emptied(NewSeg)
        /\ shm' = [shm EXCEPT ![p] = NewSeg]
        /\ Goto(Main(p), "shmat") /\ UNCHANGED lock
     \/ /\ Fails("shmget") /\ UNCHANGED <<key, table, last>>
        /\ shm' = [shm EXCEPT ![p] = None] /\ V(Main(p), "run")
  /\ UNCHANGED <<att, sem, torn, known, mem, ready, cancelled, owner, slipped, dev>>

shmat(p) ==
  /\ At(Main(p), "shmat")
  /\ \/ /\ att' = att \cup {Attachment(p)}
        /\ mem' = [mem EXCEPT ![p] = shm[p]] /\ Goto(Main(p), "memset")
     \/ /\ Fails("shmat") /\ UNCHANGED att
        /\ mem' = [mem EXCEPT ![p] = None] /\ Goto(Main(p), "undo")
  /\ UNCHANGED <<key, table, last, sem, torn, known, shm, ready, cancelled, lock, owner,
                 slipped, dev>>

\* Mutant: what was left in the segment is believed.
FirstBelieves(p) ==
  /\ At(Main(p), "memset") /\ Goto(Main(p), "start")
  /\ UNCHANGED <<hostVars, procVars, lock, owner, slipped, dev>>

\* The first one empties the table: the last one may have been killed.
FirstEmpties(p) ==
  /\ At(Main(p), "memset") /\ Goto(Main(p), "start")
  /\ IF shm_nattch(shm[p]) = 1 THEN Emptied(shm[p]) ELSE UNCHANGED <<table, last>>
  /\ UNCHANGED <<key, att, sem, torn, procVars, lock, owner, slipped, dev>>

StartDaemon(p) ==
  /\ At(Main(p), "start")
  /\ \/ /\ pc' = [pc EXCEPT ![Main(p)] = "run", ![Daemon(p)] = "sleep"]
        /\ lock' = (IF lock = Main(p) THEN Free ELSE lock) /\ ready' = ready \cup {p}
        /\ UNCHANGED <<att, mem>>
     \/ /\ Fails("thread")
        /\ att' = att \ {Attachment(p)} /\ mem' = [mem EXCEPT ![p] = None]
        /\ Goto(Main(p), "undo") /\ UNCHANGED <<lock, ready>>
  /\ UNCHANGED <<key, table, last, sem, torn, known, shm, cancelled, owner, slipped, dev>>

\* IPC_RMID: the key is free at once, the segment and its table are gone when
\* nobody has it.
Remove(g) == key' = (IF key = g THEN None ELSE key)

\* After its own attachment is gone, or was not made, a segment that another
\* process has is removed as well.  The flag of a child stays what it was in
\* its parent.
Undo(p) ==
  /\ At(Main(p), "undo") /\ V(Main(p), "run")
  /\ IF shm_nattch(shm[p]) <= 1
     THEN /\ Remove(shm[p]) /\ torn' = (torn \/ shm_nattch(shm[p]) = 1)
          /\ IF shm_nattch(shm[p]) = 0 THEN Emptied(shm[p]) ELSE UNCHANGED <<table, last>>
     ELSE UNCHANGED <<key, torn, table, last>>
  /\ shm' = [shm EXCEPT ![p] = None]
  /\ UNCHANGED <<att, sem, known, mem, ready, cancelled, owner, slipped, dev>>

kuaf_bw_init_async(p) ==
  \/ LoadLock(p) \/ shmget(p) \/ shmat(p) \/ FirstEmpties(p) \/ StartDaemon(p)
  \/ Undo(p)

\* The child has its parent's memory and attachment, but no daemon; it runs
\* kuaf_bw_init_async.
Fork(p, c) ==
  /\ p \notin Children /\ At(Main(p), "run")
  /\ c \in Children /\ At(Main(c), "none")
  /\ Goto(Main(c), "load")
  /\ att' = att \cup {[proc |-> c, via |-> "fork", seg |-> a.seg] :
                      a \in {a \in att : a.proc = p}}
  /\ known' = [known EXCEPT ![c] = known[p]]
  /\ shm' = [shm EXCEPT ![c] = shm[p]] /\ mem' = [mem EXCEPT ![c] = mem[p]]
  /\ ready' = IF p \in ready THEN ready \cup {c} ELSE ready
  /\ UNCHANGED <<key, table, last, sem, torn, cancelled, lock, owner, slipped, dev>>

-----------------------------------------------------------------------------
(* Devices *)

\* Mutant: without IPC_EXCL, a semaphore that is there is set to 1 again.
NoExcl(t, d, found, created) ==
  /\ sem' = [sem EXCEPT ![d] = IF @ # None THEN @ ELSE NewSem]
  /\ owner' = [owner EXCEPT ![sem'[d]] = Created(t)]
  /\ Goto(t, created)

\* init_lock_semaphore finds the semaphore or creates it, and sets it to 1 in
\* a second step.
init_lock_semaphore(t, d, found, created) ==
  /\ \/ sem[d] # None /\ UNCHANGED <<sem, owner>> /\ Goto(t, found)
     \/ /\ sem[d] = None /\ FreshSems # {}
        /\ sem' = [sem EXCEPT ![d] = NewSem]
        /\ owner' = [owner EXCEPT ![NewSem] = Created(t)]
        /\ Goto(t, created)

\* A call for a device that the process does not know yet makes its semaphore
\* without global_sem.
init_local_dev_node(p) ==
  /\ p \in ready /\ At(Main(p), "run")
  /\ \E d \in Devs \ known[p] :
       /\ \/ init_lock_semaphore(Main(p), d, "register", "setlocal")
          \/ init_lock_semaphore(Main(p), d, "run", "setlocal")
       /\ dev' = [dev EXCEPT ![Main(p)] = d]
       /\ known' = [known EXCEPT ![p] = @ \cup {d}]
  /\ UNCHANGED <<key, att, table, last, torn, shm, mem, ready, cancelled, lock, slipped>>

\* Unless somebody has removed it since.
SetLocal(p) ==
  /\ At(Main(p), "setlocal")
  /\ owner' = [s \in Sems |-> IF owner[s] = Created(Main(p)) THEN Free ELSE owner[s]]
  /\ Goto(Main(p), "register") \/ Goto(Main(p), "run")
  /\ UNCHANGED <<hostVars, procVars, lock, slipped, dev>>

Proc(t) == t[1]
Detached(t) == mem[Proc(t)] = None
Node(t) == table[mem[Proc(t)]][dev[t]]

Register(t) ==
  /\ At(t, "register") /\ P(t, "find")
  /\ UNCHANGED <<hostVars, procVars, owner, dev>>

\* Mutant: a device that is in the table is returned without V.
FindNoV(t) ==
  /\ At(t, "find") /\ ~ Detached(t)
  /\ \/ /\ Node(t) # None /\ Goto(t, "node")
        /\ UNCHANGED <<sem, owner>>
     \/ Node(t) = None /\ init_lock_semaphore(t, dev[t], "found", "set")
  /\ UNCHANGED <<key, att, table, last, torn, procVars, lock, slipped, dev>>

Find(t) ==
  /\ At(t, "find") /\ ~ Detached(t)
  /\ \/ Node(t) # None /\ V(t, "node") /\ UNCHANGED <<sem, owner>>
     \/ Node(t) = None /\ init_lock_semaphore(t, dev[t], "found", "set") /\ UNCHANGED lock
  /\ UNCHANGED <<key, att, table, last, torn, procVars, slipped, dev>>

\* SETVAL, if the semaphore was created.
Initialised(t) ==
  owner' = IF At(t, "set") THEN [owner EXCEPT ![sem[dev[t]]] = Free] ELSE owner

\* The device goes to the table.
Enter(t) ==
  /\ pc[t] \in {"found", "set"} /\ ~ Detached(t) /\ V(t, "return")
  /\ Initialised(t)
  /\ table' = [table EXCEPT ![mem[Proc(t)]][dev[t]] = sem[dev[t]]]
  /\ last' = [last EXCEPT ![mem[Proc(t)]] = dev[t]]
  /\ UNCHANGED <<key, att, sem, torn, procVars, slipped, dev>>

\* What is returned is the node that is the table's last one by now, another
\* device's if that was registered since the V.
Return(t) ==
  /\ At(t, "return") /\ ~ Detached(t)
  /\ dev' = [dev EXCEPT ![t] = last[mem[Proc(t)]]]
  /\ Goto(t, "node")
  /\ UNCHANGED <<hostVars, procVars, lock, owner, slipped>>

shared_get_or_register_dev_node(t) == Register(t) \/ Find(t) \/ Enter(t) \/ Return(t)

\* P of a semaphore that has been removed is an error, too.
EnterSection(t) ==
  /\ At(t, "node") /\ ~ Detached(t)
  /\ \/ /\ sem[dev[t]] = Node(t) /\ owner[Node(t)] = Free
        /\ owner' = [owner EXCEPT ![Node(t)] = t] /\ UNCHANGED slipped
     \/ sem[dev[t]] = Node(t) /\ Slip /\ UNCHANGED owner
     \/ sem[dev[t]] # Node(t) /\ UNCHANGED <<owner, slipped>>
  /\ Goto(t, "section")
  /\ UNCHANGED <<hostVars, procVars, lock, dev>>

LeaveSection(t) ==
  /\ At(t, "section") /\ ~ Detached(t)
  /\ owner' = IF owner[Node(t)] = t THEN [owner EXCEPT ![Node(t)] = Free] ELSE owner
  /\ Goto(t, IF t = Main(Proc(t)) THEN "run" ELSE "sleep")
  /\ dev' = [dev EXCEPT ![t] = None]
  /\ UNCHANGED <<hostVars, procVars, lock, slipped>>

\* SIGSEGV.
Touch(t) ==
  /\ pc[t] \in {"find", "found", "set", "return", "node", "section"} /\ Detached(t)
  /\ KernelExit(Proc(t))

\* A device of the table, or one that has something to upload.  The daemon
\* goes through all of them before it sleeps again; a cancelled one ends
\* where it sleeps.
kuaf_bw_update(p) ==
  /\ At(Daemon(p), "sleep")
  /\ \/ p \in cancelled /\ Goto(Daemon(p), "none") /\ UNCHANGED dev
     \/ /\ ~ Detached(Daemon(p))
        /\ \E d \in Devs : /\ table[mem[p]][d] # None \/ d \in known[p]
                           /\ dev' = [dev EXCEPT ![Daemon(p)] = d]
        /\ Goto(Daemon(p), "register")
  /\ UNCHANGED <<hostVars, procVars, lock, owner, slipped>>

\* Or in a message of init_lock_semaphore: global_sem stays taken until the
\* process is gone.
EndInLog(p) ==
  /\ Debug /\ p \in cancelled /\ pc[Daemon(p)] \in {"found", "set"}
  /\ Initialised(Daemon(p))
  /\ Goto(Daemon(p), "none")
  /\ dev' = [dev EXCEPT ![Daemon(p)] = None]
  /\ UNCHANGED <<hostVars, procVars, lock, slipped>>

-----------------------------------------------------------------------------
(* kuaf_bw_free_async *)

\* pthread_cancel does not wait.
Cancel(p) ==
  /\ At(Main(p), "run") /\ Goto(Main(p), "exit")
  /\ cancelled' = cancelled \cup {p}
  /\ UNCHANGED <<hostVars, known, shm, mem, ready, lock, owner, slipped, dev>>

FreeLock(p) ==
  /\ At(Main(p), "exit")
  /\ IF shm[p] # None /\ mem[p] # None
     THEN P(Main(p), "unload")
     ELSE /\ (lock = Free /\ UNCHANGED slipped) \/ Slip
          /\ Goto(Main(p), "left") /\ UNCHANGED lock
  /\ UNCHANGED <<hostVars, procVars, owner, dev>>

LastAttached(p) == shm_nattch(shm[p]) = 1

RemoveSems(p) ==
  /\ At(Main(p), "unload") /\ Goto(Main(p), "shmdt")
  /\ LET removed == {d \in Devs : LastAttached(p) /\ sem[d] = table[shm[p]][d]}
     IN /\ sem' = [d \in Devs |-> IF d \in removed THEN None ELSE sem[d]]
        /\ owner' = [s \in Sems |-> IF \E d \in removed : sem[d] = s THEN Unset ELSE owner[s]]
  /\ UNCHANGED <<key, att, table, last, torn, procVars, lock, slipped, dev>>

shmdt(p) ==
  /\ At(Main(p), "shmdt") /\ Goto(Main(p), "rmid")
  /\ att' = att \ {Attachment(p)}
  /\ mem' = [mem EXCEPT ![p] = None]
  /\ UNCHANGED <<key, table, last, sem, torn, known, shm, ready, cancelled, lock, owner,
                 slipped, dev>>

\* Mutant: the segment is removed whoever has it.
RemoveAnyway(p) ==
  /\ At(Main(p), "rmid") /\ V(Main(p), "left")
  /\ Remove(shm[p])
  /\ shm' = [shm EXCEPT ![p] = None]
  /\ UNCHANGED <<att, table, last, sem, torn, known, mem, ready, cancelled, owner, slipped, dev>>

RemoveSegment(p) ==
  /\ At(Main(p), "rmid") /\ V(Main(p), "left")
  /\ IF shm_nattch(shm[p]) = 0
     THEN Remove(shm[p]) /\ Emptied(shm[p])
     ELSE UNCHANGED <<key, table, last>>
  /\ shm' = [shm EXCEPT ![p] = None]
  /\ UNCHANGED <<att, sem, torn, known, mem, ready, cancelled, owner, slipped, dev>>

kuaf_bw_free_async(p) ==
  \/ FreeLock(p) \/ RemoveSems(p) \/ shmdt(p) \/ RemoveSegment(p)

Left(p) == At(Main(p), "left") /\ KernelExit(p)

Kill(p) ==
  /\ ~ At(Main(p), "none")
  /\ pc[Main(p)] \notin {"set", "setlocal"} /\ pc[Daemon(p)] # "set"
  /\ KernelExit(p)

-----------------------------------------------------------------------------
DeviceStep(t) ==
  \/ shared_get_or_register_dev_node(t) \/ EnterSection(t) \/ LeaveSection(t) \/ Touch(t)

\* The steps that a process takes once it has begun with something.
Goes(p) ==
  \/ kuaf_bw_init_async(p) \/ SetLocal(p) \/ kuaf_bw_free_async(p) \/ Left(p)
  \/ DeviceStep(Main(p))

Next ==
  \E p \in Procs :
    \/ Goes(p) \/ DeviceStep(Daemon(p))
    \/ Load(p) \/ \E c \in Procs : Fork(p, c)
    \/ init_local_dev_node(p) \/ kuaf_bw_update(p) \/ EndInLog(p)
    \/ Cancel(p) \/ Kill(p)

Spec == Init /\ [][Next]_vars

\* A thread goes on, and one that waits for a semaphore gets it if it is free
\* again and again.  No semop has to fail.
FairSpec ==
  Spec /\ \A p \in Procs : /\ SF_vars(UNCHANGED slipped /\ Goes(p))
                           /\ SF_vars(UNCHANGED slipped /\ DeviceStep(Daemon(p)))
-----------------------------------------------------------------------------
(* Properties.  A load that fails while one other process has the segment   *)
(* removes it under that process (torn), and a failed semop lets a second   *)
(* one in (slipped): they hold until then.                                  *)
Whole == ~ torn /\ ~ slipped

\* All processes that can reach a segment have the one of the key.
OneSegment == Whole => \A a \in att : a.seg = key

\* A process that is attached finds live semaphores in the table, those that
\* everybody finds, although processes that used the table before were killed
\* at any point, or left.
Running(p) == pc[Main(p)] \notin {"none", "load", "shmget", "shmat", "memset",
                                  "exit", "unload", "shmdt", "rmid", "left"}
TableCurrent ==
  Whole => \A p \in Procs, d \in Devs :
             Running(p) /\ mem[p] # None /\ table[mem[p]][d] # None =>
               table[mem[p]][d] = sem[d]

\* One thread of one process at a time is in the section of a device's node,
\* also of those that were given another device's node
\* (shared_get_or_register_dev_node, semaphore_P(node->sem)).
InSection(g, d) ==
  {t \in Threads : At(t, "section") /\ mem[Proc(t)] = g /\ dev[t] = d}
DevicesExclude ==
  Whole => \A g \in Segs, d \in Devs : Cardinality(InSection(g, d)) <= 1

\* Whoever waits for a semaphore of all processes gets through, although
\* processes that have it are killed or crash, unless a daemon was cancelled
\* in a log message with global_sem.
Waits(t) == pc[t] \in {"load", "register", "node", "exit"}
Orphaned == \E p \in Procs : lock = Daemon(p) /\ At(Daemon(p), "none")
WaitsEnd == \A t \in Threads : []<>(~ Waits(t) \/ ~ Whole \/ Orphaned)
=============================================================================
