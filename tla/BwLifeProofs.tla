---------------------------- MODULE BwLifeProofs ----------------------------
(***************************************************************************)
(* One segment, one table, one thread in a device's section: for any       *)
(* processes, devices and failures, and processes that may be killed at    *)
(* any point that BwLife allows.                                           *)
(***************************************************************************)
EXTENDS BwLife, FiniteSetTheorems, TLAPS

-----------------------------------------------------------------------------
(* The inductive invariant *)

\* Who is in a section of global_sem owns it.
LockPlaces == {"shmget", "shmat", "memset", "start", "undo", "find", "found", "set",
               "unload", "shmdt", "rmid"}
LockInv == \A t \in Threads : pc[t] \in LockPlaces => lock = t

\* The daemon is started at the end of a load.
LoadPlaces == {"none", "load", "shmget", "shmat", "memset", "start", "undo"}
DaemonInv == \A p \in Procs : pc[Main(p)] \in LoadPlaces => pc[Daemon(p)] = "none"

\* A process that has loaded the library, and did not fail to, is attached to
\* the segment that kuaf_shmid and shared_devs are of; while it loads that is
\* the segment of the key.
UsePlaces == {"run", "setlocal", "register", "find", "found", "set", "return", "node",
              "section", "exit", "unload", "shmdt"}
SegInv ==
  \A p \in Procs :
    /\ pc[Main(p)] \in {"shmat", "memset", "start", "undo"} => shm[p] = key /\ key # None
    /\ pc[Main(p)] \in {"memset", "start"} => mem[p] = key /\ Attachment(p) \in att
    /\ pc[Main(p)] \in UsePlaces /\ shm[p] # None /\ mem[p] # None =>
         shm[p] = mem[p] /\ Attachment(p) \in att
    /\ pc[Main(p)] \in {"unload", "shmdt"} => shm[p] # None /\ mem[p] # None
    /\ pc[Main(p)] = "rmid" => shm[p] # None
    /\ mem[p] # None => \E a \in att : a.proc = p /\ a.seg = mem[p]

\* A thread that does something with a device has one.
DevInv ==
  \A t \in Threads :
    /\ pc[t] \in {"register", "find", "found", "set", "return", "setlocal"} => dev[t] \in Devs
    /\ ~ torn /\ pc[t] \in {"node", "section"} => dev[t] \in Devs
    /\ pc[t] \in {"found", "set"} => mem[Proc(t)] # None

\* No two devices have one semaphore.
SemInv == \A d, e \in Devs : sem[d] = sem[e] /\ sem[d] # None => d = e

\* The table disagrees with the semaphores that are there only while nobody is
\* attached, or one process that is about to empty it or to remove it.
Stale == \E d \in Devs : table[key][d] \notin {None, sem[d]}
Alone(p) == att = {Attachment(p)} /\ pc[Main(p)] \in {"memset", "shmdt"}
StaleInv == ~ torn /\ key # None /\ Stale => att = {} \/ \E p \in Procs : Alone(p)

\* All attachments are of the segment of the key.
SameSeg == ~ torn => \A a \in att : a.seg = key

\* The last node of a table is in the table.
LastInv == ~ torn => \A g \in Segs : last[g] # None => table[g][last[g]] # None

\* A thread that goes to a device's section found the device in the table, and
\* one that registers a device did not.
NodeInv ==
  ~ torn => \A t \in Threads : mem[Proc(t)] # None =>
              /\ pc[t] \in {"node", "section"} => Node(t) # None
              /\ pc[t] \in {"found", "set"} => Node(t) = None /\ sem[dev[t]] # None
              /\ pc[t] = "return" => last[mem[Proc(t)]] # None

\* A thread in a device's section owns the device's semaphore.
OwnInv ==
  ~ torn => \A t \in Threads :
              pc[t] = "section" /\ mem[Proc(t)] # None /\ Node(t) = sem[dev[t]] =>
                owner[Node(t)] = t

\* Until a semop fails.
Inv == /\ TypeOK /\ ~ slipped /\ IsFiniteSet(att)
       /\ LockInv /\ DaemonInv /\ SegInv /\ DevInv /\ SemInv
       /\ SameSeg /\ StaleInv /\ LastInv /\ NodeInv /\ OwnInv

-----------------------------------------------------------------------------
LEMMA ThreadFacts ==
  /\ \A p \in Procs : /\ Main(p) \in Threads /\ Proc(Main(p)) = p
                      /\ Daemon(p) \in Threads /\ Proc(Daemon(p)) = p
  /\ \A p, q \in Procs : Main(p) # Daemon(q)
  /\ \A t \in Threads : Proc(t) \in Procs /\ (t = Main(Proc(t)) \/ t = Daemon(Proc(t)))
  /\ \A t \in Threads : Created(t) \notin Threads
BY DEF Main, Daemon, Proc, Threads, Created

\* The attach count.
LEMMA Nattch ==
  ASSUME IsFiniteSet(att), NEW g
  PROVE  /\ shm_nattch(g) \in Nat
         /\ shm_nattch(g) = 0 <=> \A a \in att : a.seg # g
         /\ shm_nattch(g) = 1 => \A a, b \in att : a.seg = g /\ b.seg = g => a = b
<1> DEFINE S == {a \in att : a.seg = g}
<1>1. IsFiniteSet(S)
  BY FS_Subset
<1>2. shm_nattch(g) = Cardinality(S)
  BY DEF shm_nattch
<1>3. Cardinality(S) \in Nat /\ (Cardinality(S) = 0 <=> S = {})
  BY <1>1, FS_CardinalityType, FS_EmptySet
<1>4. Cardinality(S) = 1 => \E x : S = {x}
  BY <1>1, FS_Singleton
<1>5. QED
  BY <1>2, <1>3, <1>4

LEMMA FreshSeg ==
  FreshSegs # {} => NewSeg \in Segs /\ NewSeg # key /\ shm_nattch(NewSeg) = 0
BY DEF FreshSegs, NewSeg

LEMMA FreshSem ==
  FreshSems # {} => /\ NewSem \in Sems
                    /\ \A d \in Devs : sem[d] # NewSem
                    /\ \A g \in Segs, d \in Devs : table[g][d] # NewSem
BY DEF FreshSems, NewSem

\* shared_devs of a process is a segment that is there, the one of the key.
LEMMA UsedSegment ==
  ASSUME Inv, NEW p \in Procs, mem[p] # None
  PROVE  /\ mem[p] \in Segs /\ shm_nattch(mem[p]) # 0
         /\ ~ torn => mem[p] = key
<1>1. PICK a \in att : a.proc = p /\ a.seg = mem[p]
  BY DEF Inv, SegInv
<1>2. mem[p] \in Segs
  BY DEF Inv, TypeOK
<1>3. IsFiniteSet(att)
  BY DEF Inv
<1>4. shm_nattch(mem[p]) # 0
  BY <1>1, <1>3, Nattch
<1>5. QED
  BY <1>1, <1>2, <1>4 DEF Inv, SameSeg

\* Whoever is the only one that is attached.
LEMMA OnlyOne ==
  ASSUME Inv, ~ torn, NEW p \in Procs, Attachment(p) \in att, shm_nattch(shm[p]) = 1
  PROVE  att = {Attachment(p)} /\ \A q \in Procs : mem[q] # None => q = p
<1>1. IsFiniteSet(att) /\ \A a \in att : a.seg = key
  BY DEF Inv, SameSeg
<1>2. Attachment(p).seg = shm[p] /\ Attachment(p).proc = p
  BY DEF Attachment
<1>3. \A a \in att : a = Attachment(p)
  BY <1>1, <1>2, Nattch
<1>4. QED
  BY <1>2, <1>3 DEF Inv, SegInv

LEMMA NobodyElse ==
  ASSUME Inv, ~ torn, NEW g, shm_nattch(g) = 0, key = g \/ key = None
  PROVE  att = {}
<1>1. IsFiniteSet(att) /\ \A a \in att : a.seg = key /\ a.seg # None
  BY LifeAssumption DEF Inv, SameSeg, TypeOK
<1>2. \A a \in att : a.seg # g
  BY <1>1, Nattch
<1>3. QED
  BY <1>1, <1>2

\* Threads that a step does not concern keep what is claimed of them.
InUse == {"node", "section", "found", "set", "return"}
NodeKept(t) ==
  /\ pc'[t] = pc[t] /\ dev'[t] = dev[t] /\ mem'[Proc(t)] = mem[Proc(t)]
  /\ IF pc[t] = "return" THEN last'[mem[Proc(t)]] \in {last[mem[Proc(t)]]} \cup Devs
                         ELSE Node(t)' = Node(t)
  /\ pc[t] \in {"found", "set"} /\ sem[dev[t]] # None => sem'[dev[t]] # None
  /\ pc[t] = "section" /\ Node(t) = sem'[dev[t]] =>
       Node(t) = sem[dev[t]] /\ (owner[Node(t)] = t => owner'[Node(t)] = t)

LEMMA KeptNodes ==
  ASSUME Inv, ~ torn' => ~ torn,
         \A t \in Threads : ~ torn /\ mem'[Proc(t)] # None /\ pc'[t] \in InUse => NodeKept(t)
  PROVE  NodeInv' /\ OwnInv'
<1>1. ASSUME NEW t \in Threads, ~ torn', mem'[Proc(t)] # None
      PROVE  /\ pc'[t] \in {"node", "section"} => Node(t)' # None
             /\ pc'[t] \in {"found", "set"} => Node(t)' = None /\ sem'[dev'[t]] # None
             /\ pc'[t] = "return" => last'[mem'[Proc(t)]] # None
             /\ pc'[t] = "section" /\ Node(t)' = sem'[dev'[t]] => owner'[Node(t)'] = t
  <2>1. CASE pc'[t] \in InUse
    <3>1. NodeKept(t)
      BY <1>1, <2>1
    <3>2. QED
      BY <1>1, <3>1, LifeAssumption DEF NodeKept, Inv, NodeInv, OwnInv
  <2>2. CASE pc'[t] \notin InUse
    BY <2>2 DEF InUse
  <2>3. QED
    BY <2>1, <2>2
<1>2. QED
  BY <1>1 DEF NodeInv, OwnInv

-----------------------------------------------------------------------------
(* The types, also after a semop has failed *)

\* What shmat attaches, and the device that is registered, are there.
Typed ==
  /\ TypeOK
  /\ \A p \in Procs : pc[Main(p)] = "shmat" => shm[p] # None
  /\ \A t \in Threads : pc[t] \in {"register", "find", "found", "set", "setlocal"} =>
                          dev[t] \in Devs

TablesTyped ==
  table \in [Segs -> [Devs -> Sems \cup {None}]] /\ last \in [Segs -> Devs \cup {None}]

LEMMA EmptiedTyped ==
  ASSUME TypeOK, Emptied(NewSeg) \/ (\E p \in Procs : Emptied(shm[p])) \/ UNCHANGED <<table, last>>
  PROVE  TablesTyped'
<1>1. Empty \in [Devs -> Sems \cup {None}]
  BY DEF Empty
<1>2. ASSUME NEW g, Emptied(g) PROVE TablesTyped'
  BY <1>1, <1>2 DEF TypeOK, Emptied, TablesTyped
<1>3. CASE UNCHANGED <<table, last>>
  BY <1>3 DEF TypeOK, TablesTyped
<1>4. QED
  BY <1>2, <1>3

LEMMA LoadTyped ==
  ASSUME Typed, NEW p \in Procs, Load(p) \/ kuaf_bw_init_async(p)
  PROVE  Typed'
<1>1. TypeOK
  BY DEF Typed
<1>2. CASE Load(p) \/ LoadLock(p)
  BY <1>1, <1>2, ThreadFacts
     DEF Typed, TypeOK, hostVars, procVars, Goto, Load, LoadLock, P, Slip, PCs
<1>3. CASE shmget(p)
  <2>1. /\ \/ UNCHANGED <<key, table, last>>
           \/ FreshSegs # {} /\ key' = NewSeg /\ Emptied(NewSeg)
        /\ \/ shm' = [shm EXCEPT ![p] = None] /\ pc' = [pc EXCEPT ![Main(p)] = "run"]
           \/ /\ key' # None /\ shm' = [shm EXCEPT ![p] = key']
              /\ pc' = [pc EXCEPT ![Main(p)] = "shmat"]
    BY <1>3, FreshSeg, LifeAssumption DEF shmget, V, Goto
  <2>2. key' \in Segs \cup {None} /\ TablesTyped'
    BY <1>1, <2>1, FreshSeg, EmptiedTyped DEF TypeOK
  <2>3. shm' \in [Procs -> Segs \cup {None}] /\ pc' \in [Threads -> PCs]
    <3>1. shm' \in [Procs -> Segs \cup {None}]
      BY <1>1, <2>1, <2>2 DEF TypeOK
    <3>2. \E place \in {"run", "shmat"} : pc' = [pc EXCEPT ![Main(p)] = place]
      BY <2>1
    <3>3. QED
      BY <1>1, <3>1, <3>2 DEF TypeOK, PCs
  <2>4. lock' \in Threads \cup {Free}
    BY <1>1, <1>3 DEF TypeOK, shmget, V
  <2>5. TypeOK'
    BY <1>1, <1>3, <2>2, <2>3, <2>4 DEF TypeOK, TablesTyped, shmget
  <2>6. ASSUME NEW q \in Procs, pc'[Main(q)] = "shmat" PROVE shm'[q] # None
    BY <1>1, <2>1, <2>2, <2>6, ThreadFacts DEF Typed, TypeOK, Main
  <2>7. UNCHANGED dev
    BY <1>3 DEF shmget
  <2>8. QED
    BY <1>1, <2>1, <2>5, <2>6, <2>7, ThreadFacts DEF Typed, TypeOK
<1>4. CASE shmat(p)
  <2>1. shm[p] \in Segs
    BY <1>1, <1>4 DEF Typed, TypeOK, shmat, At
  <2>2. att' \subseteq [proc : Procs, via : {"load", "fork"}, seg : Segs]
    BY <1>1, <1>4, <2>1 DEF TypeOK, shmat, Attachment
  <2>3. mem' \in [Procs -> Segs \cup {None}] /\ pc' \in [Threads -> PCs]
    <3>1. mem' \in [Procs -> Segs \cup {None}]
      BY <1>1, <1>4, <2>1 DEF TypeOK, shmat
    <3>2. \E place \in {"memset", "undo"} : pc' = [pc EXCEPT ![Main(p)] = place]
      BY <1>4 DEF shmat, Goto
    <3>3. QED
      BY <1>1, <3>1, <3>2 DEF TypeOK, PCs
  <2>4. QED
    BY <1>1, <1>4, <2>2, <2>3, ThreadFacts DEF Typed, TypeOK, Goto, shmat
<1>5. CASE FirstEmpties(p)
  <2>1. TablesTyped'
    BY <1>1, <1>5, EmptiedTyped DEF FirstEmpties
  <2>2. QED
    BY <1>1, <1>5, <2>1, ThreadFacts
       DEF Typed, TypeOK, TablesTyped, PCs, Goto, FirstEmpties, procVars
<1>6. CASE StartDaemon(p)
  <2>1. att' \subseteq [proc : Procs, via : {"load", "fork"}, seg : Segs]
    BY <1>1, <1>6 DEF TypeOK, StartDaemon
  <2>2. mem' \in [Procs -> Segs \cup {None}] /\ lock' \in Threads \cup {Free}
    BY <1>1, <1>6 DEF TypeOK, StartDaemon
  <2>3. pc' \in [Threads -> PCs]
    BY <1>1, <1>6, ThreadFacts DEF TypeOK, PCs, Goto, StartDaemon
  <2>4. TypeOK'
    BY <1>1, <1>6, <2>1, <2>2, <2>3 DEF TypeOK, StartDaemon
  <2>5. QED
    BY <1>1, <1>6, <2>4, ThreadFacts DEF Typed, TypeOK, Goto, StartDaemon
<1>7. CASE Undo(p)
  <2>1. TablesTyped'
    BY <1>1, <1>7, EmptiedTyped DEF Undo
  <2>2. key' \in Segs \cup {None} /\ torn' \in BOOLEAN /\ lock' \in Threads \cup {Free}
    BY <1>1, <1>7 DEF TypeOK, Undo, V, Remove
  <2>3. shm' = [shm EXCEPT ![p] = None] /\ pc' = [pc EXCEPT ![Main(p)] = "run"]
    BY <1>7 DEF Undo, V, Goto
  <2>4. shm' \in [Procs -> Segs \cup {None}] /\ pc' \in [Threads -> PCs]
    BY <1>1, <2>3 DEF TypeOK, PCs
  <2>5. TypeOK'
    BY <1>1, <1>7, <2>1, <2>2, <2>4 DEF TypeOK, TablesTyped, Undo
  <2>6. UNCHANGED dev
    BY <1>7 DEF Undo
  <2>7. QED
    BY <1>1, <2>3, <2>5, <2>6, ThreadFacts DEF Typed, TypeOK
<1>8. QED
  BY <1>2, <1>3, <1>4, <1>5, <1>6, <1>7 DEF kuaf_bw_init_async

LEMMA ForkTyped ==
  ASSUME Typed, NEW p \in Procs, NEW c \in Procs, Fork(p, c)
  PROVE  Typed'
<1>1. TypeOK'
  BY ThreadFacts DEF Typed, TypeOK, Goto, Fork, PCs
<1>2. QED
  BY <1>1, ThreadFacts DEF Typed, TypeOK, At, Goto, Fork

LEMMA LocalTyped ==
  ASSUME Typed, NEW p \in Procs, init_local_dev_node(p) \/ SetLocal(p)
  PROVE  Typed'
<1>1. TypeOK
  BY DEF Typed
<1>2. CASE init_local_dev_node(p)
  <2>1. sem' \in [Devs -> Sems \cup {None}]
    BY <1>1, <1>2, FreshSem DEF TypeOK, init_local_dev_node, init_lock_semaphore
  <2>2. owner' \in [Sems -> Threads \cup {Created(t) : t \in Threads} \cup {Free, Unset}]
    BY <1>1, <1>2, ThreadFacts DEF TypeOK, init_local_dev_node, init_lock_semaphore
  <2>3. known' \in [Procs -> SUBSET Devs]
    BY <1>1, <1>2 DEF TypeOK, init_local_dev_node, init_lock_semaphore
  <2>4. \E d \in Devs : dev' = [dev EXCEPT ![Main(p)] = d]
    BY <1>2 DEF init_local_dev_node
  <2>5. \E place \in {"register", "run", "setlocal"} : pc' = [pc EXCEPT ![Main(p)] = place]
    BY <1>2 DEF init_local_dev_node, init_lock_semaphore, Goto
  <2>6. dev' \in [Threads -> Devs \cup {None}] /\ pc' \in [Threads -> PCs]
    BY <1>1, <2>4, <2>5 DEF TypeOK, PCs
  <2>7. TypeOK' /\ UNCHANGED shm
    BY <1>1, <1>2, <2>1, <2>2, <2>3, <2>6 DEF TypeOK, init_local_dev_node
  <2>8. QED
    BY <1>1, <2>4, <2>5, <2>7, ThreadFacts DEF Typed, TypeOK
<1>3. CASE SetLocal(p)
  BY <1>1, <1>3, ThreadFacts
     DEF Typed, TypeOK, hostVars, procVars, At, Goto, SetLocal, PCs
<1>4. QED
  BY <1>2, <1>3

LEMMA RegisterTyped ==
  ASSUME Typed, NEW t \in Threads, shared_get_or_register_dev_node(t)
  PROVE  Typed'
<1>1. TypeOK
  BY DEF Typed
<1>2. CASE Register(t)
  BY <1>1, <1>2, ThreadFacts
     DEF Typed, TypeOK, hostVars, procVars, At, Goto, Register, P, Slip, PCs
<1>3. CASE Find(t)
  <2>1. sem' \in [Devs -> Sems \cup {None}]
    BY <1>1, <1>3, FreshSem DEF TypeOK, Find, init_lock_semaphore
  <2>2. owner' \in [Sems -> Threads \cup {Created(u) : u \in Threads} \cup {Free, Unset}]
    BY <1>1, <1>3 DEF TypeOK, Find, init_lock_semaphore
  <2>3. \E place \in {"node", "found", "set"} : pc' = [pc EXCEPT ![t] = place]
    BY <1>3 DEF Find, V, Goto, init_lock_semaphore
  <2>4. pc' \in [Threads -> PCs] /\ lock' \in Threads \cup {Free}
    BY <1>1, <1>3, <2>3 DEF TypeOK, PCs, Find, V
  <2>5. TypeOK' /\ UNCHANGED <<shm, dev>>
    BY <1>1, <1>3, <2>1, <2>2, <2>4 DEF TypeOK, procVars, Find
  <2>6. pc[t] = "find" /\ dev[t] \in Devs
    BY <1>3 DEF Typed, Find, At
  <2>7. QED
    BY <1>1, <2>3, <2>5, <2>6, ThreadFacts DEF Typed, TypeOK
<1>4. CASE Enter(t)
  <2>1. dev[t] \in Devs
    BY <1>4 DEF Typed, Enter
  <2>2. table' \in [Segs -> [Devs -> Sems \cup {None}]] /\ last' \in [Segs -> Devs \cup {None}]
    BY <1>1, <1>4, <2>1 DEF TypeOK, Enter
  <2>3. owner' \in [Sems -> Threads \cup {Created(u) : u \in Threads} \cup {Free, Unset}]
    BY <1>1, <1>4 DEF TypeOK, Enter, Initialised
  <2>4. pc' = [pc EXCEPT ![t] = "return"] /\ lock' \in Threads \cup {Free}
    BY <1>1, <1>4 DEF TypeOK, Enter, V, Goto
  <2>5. TypeOK' /\ UNCHANGED <<shm, dev>>
    BY <1>1, <1>4, <2>2, <2>3, <2>4 DEF TypeOK, PCs, procVars, Enter
  <2>6. QED
    BY <1>1, <2>4, <2>5, ThreadFacts DEF Typed, TypeOK
<1>5. CASE Return(t)
  <2>1. last[mem[Proc(t)]] \in Devs \cup {None}
    BY <1>1, <1>5, ThreadFacts DEF TypeOK, Return, Detached
  <2>2. TypeOK'
    BY <1>1, <1>5, <2>1 DEF TypeOK, PCs, Goto, Return, hostVars, procVars
  <2>3. QED
    BY <1>1, <1>5, <2>2, ThreadFacts DEF Typed, TypeOK, Goto, Return, procVars
<1>6. QED
  BY <1>2, <1>3, <1>4, <1>5 DEF shared_get_or_register_dev_node

LEMMA SectionTyped ==
  ASSUME Typed, NEW t \in Threads, EnterSection(t) \/ LeaveSection(t)
  PROVE  Typed'
<1>1. TypeOK
  BY DEF Typed
<1>2. CASE EnterSection(t)
  <2>1. UNCHANGED owner \/ owner' = [owner EXCEPT ![Node(t)] = t]
    BY <1>2 DEF EnterSection
  <2>2. owner' \in [Sems -> Threads \cup {Created(u) : u \in Threads} \cup {Free, Unset}]
    BY <1>1, <2>1 DEF TypeOK
  <2>3. TypeOK'
    BY <1>1, <1>2, <2>2 DEF TypeOK, PCs, EnterSection, Slip, Goto, hostVars, procVars
  <2>4. QED
    BY <1>1, <1>2, <2>3, ThreadFacts DEF Typed, TypeOK, EnterSection, Goto, procVars
<1>3. CASE LeaveSection(t)
  BY <1>1, <1>3, ThreadFacts
     DEF Typed, TypeOK, hostVars, procVars, At, Goto, LeaveSection, PCs
<1>4. QED
  BY <1>2, <1>3

LEMMA DaemonTyped ==
  ASSUME Typed, NEW p \in Procs, kuaf_bw_update(p) \/ EndInLog(p)
  PROVE  Typed'
<1>1. TypeOK
  BY DEF Typed
<1>2. CASE kuaf_bw_update(p)
  <2>1. pc' \in [Threads -> PCs] /\ dev' \in [Threads -> Devs \cup {None}]
    BY <1>1, <1>2 DEF TypeOK, PCs, Goto, kuaf_bw_update
  <2>2. TypeOK'
    BY <1>1, <1>2, <2>1 DEF TypeOK, hostVars, procVars, kuaf_bw_update
  <2>3. QED
    BY <1>1, <1>2, <2>2, ThreadFacts DEF Typed, TypeOK, Goto, kuaf_bw_update, procVars
<1>3. CASE EndInLog(p)
  <2>1. owner' \in [Sems -> Threads \cup {Created(u) : u \in Threads} \cup {Free, Unset}]
    BY <1>1, <1>3 DEF TypeOK, EndInLog, Initialised
  <2>2. TypeOK'
    BY <1>1, <1>3, <2>1, ThreadFacts DEF TypeOK, PCs, Goto, hostVars, procVars, EndInLog
  <2>3. QED
    BY <1>1, <1>3, <2>2, ThreadFacts DEF Typed, TypeOK, Goto, EndInLog, procVars
<1>4. QED
  BY <1>2, <1>3

LEMMA UnloadTyped ==
  ASSUME Typed, NEW p \in Procs, Cancel(p) \/ kuaf_bw_free_async(p)
  PROVE  Typed'
<1>1. TypeOK
  BY DEF Typed
<1>2. CASE Cancel(p) \/ FreeLock(p)
  BY <1>1, <1>2, ThreadFacts
     DEF Typed, TypeOK, hostVars, procVars, Goto, Cancel, FreeLock, P, Slip, PCs
<1>3. CASE RemoveSems(p)
  BY <1>1, <1>3, ThreadFacts DEF Typed, TypeOK, procVars, Goto, RemoveSems, PCs
<1>4. CASE shmdt(p)
  BY <1>1, <1>4, ThreadFacts DEF Typed, TypeOK, Goto, shmdt, PCs
<1>5. CASE RemoveSegment(p)
  <2>1. TablesTyped'
    BY <1>1, <1>5, EmptiedTyped DEF RemoveSegment
  <2>2. key' \in Segs \cup {None} /\ lock' \in Threads \cup {Free}
    BY <1>1, <1>5 DEF TypeOK, RemoveSegment, V, Remove
  <2>3. shm' = [shm EXCEPT ![p] = None] /\ pc' = [pc EXCEPT ![Main(p)] = "left"]
    BY <1>5 DEF RemoveSegment, V, Goto
  <2>4. shm' \in [Procs -> Segs \cup {None}] /\ pc' \in [Threads -> PCs]
    BY <1>1, <2>3 DEF TypeOK, PCs
  <2>5. TypeOK' /\ UNCHANGED dev
    BY <1>1, <1>5, <2>1, <2>2, <2>4 DEF TypeOK, TablesTyped, RemoveSegment
  <2>6. QED
    BY <1>1, <2>3, <2>5, ThreadFacts DEF Typed, TypeOK
<1>6. QED
  BY <1>2, <1>3, <1>5, <1>4 DEF kuaf_bw_free_async

LEMMA ExitTyped ==
  ASSUME Typed, NEW p \in Procs, KernelExit(p)
  PROVE  Typed'
<1>1. TypeOK
  BY DEF Typed
<1>2. att' \subseteq [proc : Procs, via : {"load", "fork"}, seg : Segs]
  BY <1>1 DEF TypeOK, KernelExit
<1>3. lock' \in Threads \cup {Free}
  BY <1>1 DEF TypeOK, KernelExit
<1>4. owner' \in [Sems -> Threads \cup {Created(t) : t \in Threads} \cup {Free, Unset}]
  BY <1>1 DEF TypeOK, KernelExit
<1>5. pc' = [pc EXCEPT ![Main(p)] = "none", ![Daemon(p)] = "none"]
      /\ dev' = [dev EXCEPT ![Main(p)] = None, ![Daemon(p)] = None]
      /\ shm' = [shm EXCEPT ![p] = None]
  BY DEF KernelExit
<1>6. pc' \in [Threads -> PCs] /\ dev' \in [Threads -> Devs \cup {None}]
  BY <1>1, <1>5, ThreadFacts DEF TypeOK, PCs
<1>7. known' \in [Procs -> SUBSET Devs]
  BY <1>1 DEF TypeOK, KernelExit
<1>8. shm' \in [Procs -> Segs \cup {None}] /\ mem' \in [Procs -> Segs \cup {None}]
  BY <1>1 DEF TypeOK, KernelExit
<1>9. table' \in [Segs -> [Devs -> Sems \cup {None}]] /\ last' \in [Segs -> Devs \cup {None}]
  BY <1>1 DEF TypeOK, Empty, KernelExit
<1>10. TypeOK'
  BY <1>1, <1>2, <1>3, <1>4, <1>6, <1>7, <1>8, <1>9 DEF TypeOK, KernelExit
<1>11. QED
  BY <1>1, <1>5, <1>10, ThreadFacts DEF Typed, TypeOK

LEMMA StepTyped ==
  ASSUME Typed, [Next]_vars
  PROVE  Typed'
<1>1. ASSUME NEW t \in Threads, DeviceStep(t) PROVE Typed'
  BY <1>1, RegisterTyped, SectionTyped, ExitTyped, ThreadFacts DEF DeviceStep, Touch
<1>2. ASSUME NEW p \in Procs, Goes(p) PROVE Typed'
  BY <1>1, <1>2, LoadTyped, LocalTyped, UnloadTyped, ExitTyped, ThreadFacts DEF Goes, Left
<1>3. ASSUME NEW p \in Procs, NEW c \in Procs, Fork(p, c) PROVE Typed'
  BY <1>3, ForkTyped
<1>4. CASE Next
  BY <1>1, <1>2, <1>3, <1>4, LoadTyped, LocalTyped, DaemonTyped, UnloadTyped, ExitTyped,
     ThreadFacts
     DEF Next, Kill
<1>5. CASE UNCHANGED vars
  BY <1>5 DEF vars, hostVars, procVars, Typed, TypeOK
<1>6. QED
  BY <1>4, <1>5

-----------------------------------------------------------------------------
(* Every step keeps the invariant, until a semop fails *)

LEMMA LoadInv ==
  ASSUME Inv, TypeOK', ~ slipped', NEW p \in Procs, Load(p)
  PROVE  Inv'
<1>1. IsFiniteSet(att)'
  BY DEF Inv, hostVars, Load
<1>2. LockInv'
  BY DEF Inv, Goto, Load, LockInv, LockPlaces
<1>3. DaemonInv'
  BY ThreadFacts DEF Inv, At, Goto, Load, DaemonInv, LoadPlaces
<1>4. SegInv'
  BY DEF Inv, hostVars, procVars, Goto, Load, SegInv, UsePlaces, Attachment
<1>5. DevInv'
  BY DEF Inv, hostVars, procVars, Goto, Load, DevInv
<1>6. SemInv'
  BY DEF Inv, hostVars, Load, SemInv
<1>7. SameSeg'
  BY DEF Inv, hostVars, Load, SameSeg
<1>8. StaleInv'
  BY DEF Inv, hostVars, procVars, At, Goto, Load, StaleInv, Stale, Alone, Attachment
<1>9. LastInv'
  BY DEF Inv, hostVars, Load, LastInv
<1>10. NodeInv'
  BY DEF Inv, hostVars, procVars, Goto, Load, NodeInv, Node
<1>11. OwnInv'
  BY DEF Inv, hostVars, procVars, Goto, Load, OwnInv, Node
<1>12. QED
  BY <1>1, <1>2, <1>3, <1>4, <1>5, <1>6, <1>7, <1>8, <1>9, <1>10, <1>11 DEF Inv

LEMMA LoadLockInv ==
  ASSUME Inv, TypeOK', ~ slipped', NEW p \in Procs, LoadLock(p)
  PROVE  Inv'
<1>1. IsFiniteSet(att)'
  BY DEF Inv, hostVars, LoadLock
<1>2. LockInv'
  BY LifeAssumption DEF Inv, Goto, LoadLock, P, Slip, LockInv
<1>3. DaemonInv'
  BY DEF Inv, At, Goto, LoadLock, P, Slip, DaemonInv, LoadPlaces
<1>4. SegInv'
  BY DEF Inv, hostVars, procVars, Goto, LoadLock, P, Slip, SegInv, UsePlaces, Attachment
<1>5. DevInv'
  BY DEF Inv, hostVars, procVars, Goto, LoadLock, P, Slip, DevInv
<1>6. SemInv'
  BY DEF Inv, hostVars, LoadLock, SemInv
<1>7. SameSeg'
  BY DEF Inv, hostVars, LoadLock, SameSeg
<1>8. StaleInv'
  BY DEF Inv, hostVars, procVars, At, Goto, LoadLock, P, Slip, StaleInv, Stale, Alone, Attachment
<1>9. LastInv'
  BY DEF Inv, hostVars, LoadLock, LastInv
<1>10. NodeInv'
  BY DEF Inv, hostVars, procVars, Goto, LoadLock, P, Slip, NodeInv, Node
<1>11. OwnInv'
  BY DEF Inv, hostVars, procVars, Goto, LoadLock, P, Slip, OwnInv, Node
<1>12. QED
  BY <1>1, <1>2, <1>3, <1>4, <1>5, <1>6, <1>7, <1>8, <1>9, <1>10, <1>11 DEF Inv

LEMMA ShmgetInv ==
  ASSUME Inv, TypeOK', ~ slipped', NEW p \in Procs, shmget(p)
  PROVE  Inv'
<1>1. /\ \/ /\ key # None /\ UNCHANGED <<key, table, last, lock>>
            /\ shm' = [shm EXCEPT ![p] = key]
         \/ /\ key = None /\ FreshSegs # {} /\ key' = NewSeg /\ UNCHANGED lock
            /\ table' = [table EXCEPT ![NewSeg] = Empty]
            /\ last' = [last EXCEPT ![NewSeg] = None] /\ shm' = [shm EXCEPT ![p] = NewSeg]
         \/ UNCHANGED <<key, table, last>> /\ shm' = [shm EXCEPT ![p] = None] /\ lock' = Free
      /\ pc[Main(p)] = "shmget" /\ lock = Main(p) /\ lock # Free
      /\ UNCHANGED <<att, sem, torn, mem, owner, dev>>
      /\ pc' = [pc EXCEPT ![Main(p)] = IF lock' = Free THEN "run" ELSE "shmat"]
  <2>1. lock = Main(p) /\ Main(p) \in Threads
    BY ThreadFacts DEF Inv, LockInv, LockPlaces, shmget, At
  <2>2. lock # Free
    BY <2>1, LifeAssumption
  <2>3. QED
    BY <2>1, <2>2 DEF shmget, V, Emptied, Goto, At
<1>2. IsFiniteSet(att)'
  BY DEF Inv, shmget
<1>3. LockInv'
  BY ThreadFacts DEF Inv, TypeOK, At, Goto, shmget, V, LockInv, LockPlaces
<1>4. DaemonInv'
  BY ThreadFacts DEF Inv, TypeOK, At, Goto, shmget, V, DaemonInv, LoadPlaces
<1>5. SegInv'
  <2>1. \A q \in Procs \ {p} : pc'[Main(q)] = pc[Main(q)] /\ shm'[q] = shm[q]
                             /\ Attachment(q)' = Attachment(q)
    BY <1>1, ThreadFacts DEF Inv, TypeOK, Attachment
  <2>2. \A q \in Procs \ {p} : pc[Main(q)] \notin LockPlaces
    BY <1>1, ThreadFacts DEF Inv, LockInv
  <2>3. \/ pc'[Main(p)] = "shmat" /\ shm'[p] = key' /\ key' # None
        \/ pc'[Main(p)] = "run" /\ shm'[p] = None
    <3>1. shm \in [Procs -> Segs \cup {None}]
      BY DEF Inv, TypeOK
    <3>2. pc'[Main(p)] = IF lock' = Free THEN "run" ELSE "shmat"
      BY <1>1 DEF Inv, TypeOK
    <3>3. CASE lock' = Free
      <4>1. shm' = [shm EXCEPT ![p] = None]
        BY <1>1, <3>3
      <4>2. QED
        BY <3>1, <3>2, <3>3, <4>1
    <3>4. CASE lock' # Free
      <4>1. key' # None /\ shm'[p] = key'
        BY <1>1, <3>1, <3>4, FreshSeg DEF Inv
      <4>2. QED
        BY <3>2, <3>4, <4>1
    <3>5. QED
      BY <3>3, <3>4
  <2>4. QED
    BY <1>1, <2>1, <2>2, <2>3 DEF Inv, SegInv, UsePlaces, LockPlaces
<1>6. DevInv'
  BY DEF Inv, hostVars, TypeOK, Goto, shmget, V, DevInv
<1>7. SemInv'
  BY DEF Inv, shmget, SemInv
<1>8. SameSeg'
  BY LifeAssumption DEF Inv, TypeOK, shmget, SameSeg
<1>9. StaleInv'
  <2>1. \A q \in Procs : Alone(q) => q # p
    BY <1>1 DEF Alone
  <2>2. \A q \in Procs \ {p} : Alone(q) => Alone(q)'
    BY <1>1 DEF Inv, TypeOK, Alone, Attachment
  <2>3. CASE UNCHANGED <<key, table>>
    BY <1>1, <2>1, <2>2, <2>3 DEF Inv, StaleInv, Stale
  <2>4. CASE table' = [table EXCEPT ![NewSeg] = Empty] /\ key' = NewSeg /\ FreshSegs # {}
    BY <1>1, <2>4, FreshSeg DEF Inv, TypeOK, StaleInv, Stale, Empty
  <2>5. QED
    BY <1>1, <2>3, <2>4
<1>10. LastInv'
  <2>1. TypeOK /\ (FreshSegs # {} => NewSeg \in Segs)
    BY FreshSeg DEF Inv
  <2>2. QED
    BY <1>1, <2>1 DEF Inv, TypeOK, LastInv
<1>11. NodeInv' /\ OwnInv'
  <2>1. SUFFICES ASSUME NEW t \in Threads, ~ torn, mem'[Proc(t)] # None, pc'[t] \in InUse
                 PROVE  NodeKept(t)
    BY KeptNodes DEF shmget
  <2>2. pc'[t] = pc[t]
    BY <1>1, <2>1 DEF Inv, InUse
  <2>3. key = None /\ FreshSegs # {} => mem[Proc(t)] # NewSeg
    BY <1>1, <2>1, ThreadFacts, UsedSegment
  <2>4. table'[mem[Proc(t)]] = table[mem[Proc(t)]] /\ last'[mem[Proc(t)]] = last[mem[Proc(t)]]
    BY <1>1, <2>1, <2>3, ThreadFacts, UsedSegment DEF Inv
  <2>5. QED
    BY <1>1, <2>2, <2>4 DEF NodeKept, Node
<1>12. QED
  BY <1>2, <1>3, <1>4, <1>5, <1>6, <1>7, <1>8, <1>9, <1>10, <1>11 DEF Inv

LEMMA ShmatInv ==
  ASSUME Inv, TypeOK', ~ slipped', NEW p \in Procs, shmat(p)
  PROVE  Inv'
<1>1. shm[p] = key /\ key # None
  BY DEF Inv, SegInv, shmat, At
<1>2. IsFiniteSet(att)'
  BY FS_AddElement DEF Inv, shmat
<1>3. LockInv'
  BY DEF Inv, TypeOK, At, Goto, shmat, LockInv, LockPlaces
<1>4. DaemonInv'
  BY ThreadFacts DEF Inv, TypeOK, At, Goto, shmat, DaemonInv, LoadPlaces
<1>5. SegInv'
  BY ThreadFacts DEF Inv, TypeOK, At, Goto, shmat, SegInv, Attachment
<1>6. DevInv'
  BY ThreadFacts
     DEF Inv, TypeOK, hostVars, procVars, At, Goto, shmat, DevInv, LockInv, LockPlaces,
         DaemonInv, LoadPlaces, SegInv
<1>7. SemInv'
  BY DEF Inv, shmat, SemInv
<1>8. SameSeg'
  BY <1>1 DEF Inv, SameSeg, Attachment, shmat
<1>9. StaleInv'
  <2>1. pc[Main(p)] = "shmat" /\ lock = Main(p)
    BY ThreadFacts DEF Inv, LockInv, LockPlaces, shmat, At
  <2>2. \A q \in Procs : ~ Alone(q)
    BY <2>1, ThreadFacts DEF Alone, Inv, LockInv, LockPlaces
  <2>3. att = {} => att' = {} \/ Alone(p)'
    BY <1>1, ThreadFacts DEF Inv, TypeOK, Alone, Attachment, shmat, Goto
  <2>4. QED
    BY <2>2, <2>3 DEF Inv, StaleInv, Stale, shmat
<1>10. LastInv'
  BY DEF Inv, hostVars, shmat, LastInv
<1>11. NodeInv' /\ OwnInv'
  <2>1. SUFFICES ASSUME NEW t \in Threads, ~ torn, mem'[Proc(t)] # None, pc'[t] \in InUse
                 PROVE  NodeKept(t)
    BY KeptNodes DEF shmat
  <2>2. Proc(t) # p
    BY <2>1, ThreadFacts DEF Inv, TypeOK, DaemonInv, LoadPlaces, shmat, At, Goto, InUse
  <2>3. QED
    BY <2>2, ThreadFacts DEF Inv, TypeOK, NodeKept, Node, shmat, Goto
<1>12. QED
  BY <1>2, <1>3, <1>4, <1>5, <1>6, <1>7, <1>8, <1>9, <1>10, <1>11 DEF Inv

LEMMA FirstEmptiesInv ==
  ASSUME Inv, TypeOK', ~ slipped', NEW p \in Procs, FirstEmpties(p)
  PROVE  Inv'
<1>1. /\ pc[Main(p)] = "memset" /\ pc' = [pc EXCEPT ![Main(p)] = "start"]
      /\ UNCHANGED <<key, att, sem, torn, shm, mem, lock, owner, dev>>
      /\ shm[p] = key /\ key \in Segs /\ Attachment(p) \in att
      /\ table' = IF shm_nattch(shm[p]) = 1 THEN [table EXCEPT ![key] = Empty] ELSE table
      /\ last' = IF shm_nattch(shm[p]) = 1 THEN [last EXCEPT ![key] = None] ELSE last
  BY DEF FirstEmpties, Emptied, At, Goto, Inv, TypeOK, SegInv, procVars
<1>2. IsFiniteSet(att)'
  BY DEF Inv, FirstEmpties
<1>3. LockInv'
  BY DEF Inv, At, Goto, FirstEmpties, LockInv, LockPlaces
<1>4. DaemonInv'
  BY DEF Inv, At, Goto, FirstEmpties, DaemonInv, LoadPlaces
<1>5. SegInv'
  BY DEF Inv, procVars, At, Goto, FirstEmpties, SegInv, Attachment
<1>6. DevInv'
  BY DEF Inv, hostVars, procVars, Goto, FirstEmpties, DevInv
<1>7. SemInv'
  BY DEF Inv, FirstEmpties, SemInv
<1>8. SameSeg'
  BY DEF Inv, FirstEmpties, SameSeg
<1>9. StaleInv'
  <2>1. CASE shm_nattch(shm[p]) = 1
    BY <1>1, <2>1 DEF Inv, TypeOK, StaleInv, Stale, Empty
  <2>2. CASE shm_nattch(shm[p]) # 1
    <3>1. \A q \in Procs : ~ Alone(q)
      <4>1. ASSUME NEW q \in Procs, Alone(q) PROVE FALSE
        <5>1. q = p
          BY <1>1, <4>1, ThreadFacts DEF Alone, Inv, LockInv, LockPlaces
        <5>2. {a \in att : a.seg = shm[p]} = {Attachment(p)}
          BY <4>1, <5>1 DEF Alone, Attachment
        <5>3. shm_nattch(shm[p]) = 1
          BY <5>2, FS_Singleton DEF shm_nattch
        <5>4. QED
          BY <2>2, <5>3
      <4>2. QED
        BY <4>1
    <3>2. QED
      BY <1>1, <2>2, <3>1 DEF Inv, StaleInv, Stale
  <2>3. QED
    BY <2>1, <2>2
<1>10. LastInv'
  BY <1>1 DEF Inv, TypeOK, LastInv
<1>11. NodeInv' /\ OwnInv'
  <2>1. SUFFICES ASSUME NEW t \in Threads, ~ torn, mem'[Proc(t)] # None, pc'[t] \in InUse
                 PROVE  NodeKept(t)
    BY KeptNodes DEF FirstEmpties
  <2>2. Proc(t) # p /\ pc'[t] = pc[t]
    BY <1>1, <2>1, ThreadFacts DEF Inv, DaemonInv, LoadPlaces, InUse
  <2>3. shm_nattch(shm[p]) # 1
    BY <1>1, <2>1, <2>2, ThreadFacts, OnlyOne
  <2>4. QED
    BY <1>1, <2>2, <2>3 DEF NodeKept, Node
<1>12. QED
  BY <1>2, <1>3, <1>4, <1>5, <1>6, <1>7, <1>8, <1>9, <1>10, <1>11 DEF Inv

LEMMA StartDaemonInv ==
  ASSUME Inv, TypeOK', ~ slipped', NEW p \in Procs, StartDaemon(p)
  PROVE  Inv'
<1>1. IsFiniteSet(att)'
  BY FS_RemoveElement DEF Inv, StartDaemon
<1>2. LockInv'
  BY ThreadFacts DEF Inv, TypeOK, At, Goto, StartDaemon, LockInv, LockPlaces
<1>3. DaemonInv'
  BY ThreadFacts, LifeAssumption
     DEF Inv, TypeOK, At, Goto, StartDaemon, DaemonInv, LoadPlaces
<1>4. SegInv'
  BY ThreadFacts DEF Inv, TypeOK, At, Goto, StartDaemon, SegInv, Attachment
<1>5. DevInv'
  BY ThreadFacts
     DEF Inv, TypeOK, hostVars, procVars, At, Goto, StartDaemon, DevInv, LockInv,
         LockPlaces, DaemonInv, LoadPlaces, SegInv
<1>6. SemInv'
  BY DEF Inv, StartDaemon, SemInv
<1>7. SameSeg'
  BY DEF Inv, StartDaemon, SameSeg
<1>8. StaleInv'
  <2>1. pc[Main(p)] = "start" /\ lock = Main(p) /\ Attachment(p) \in att
    BY ThreadFacts DEF Inv, LockInv, LockPlaces, SegInv, StartDaemon, At
  <2>2. \A q \in Procs : ~ Alone(q)
    BY <2>1, ThreadFacts DEF Alone, Inv, LockInv, LockPlaces
  <2>3. QED
    BY <2>1, <2>2 DEF Inv, StaleInv, Stale, StartDaemon
<1>9. LastInv'
  BY DEF Inv, hostVars, StartDaemon, LastInv
<1>10. NodeInv'
  BY ThreadFacts DEF Inv, TypeOK, Goto, StartDaemon, NodeInv, Node
<1>11. OwnInv'
  BY ThreadFacts, LifeAssumption DEF Inv, TypeOK, Goto, StartDaemon, OwnInv, Node
<1>12. QED
  BY <1>1, <1>2, <1>3, <1>4, <1>5, <1>6, <1>7, <1>8, <1>9, <1>10, <1>11 DEF Inv

LEMMA UndoInv ==
  ASSUME Inv, TypeOK', ~ slipped', NEW p \in Procs, Undo(p)
  PROVE  Inv'
<1>1. /\ pc[Main(p)] = "undo" /\ pc' = [pc EXCEPT ![Main(p)] = "run"] /\ lock = Main(p)
      /\ UNCHANGED <<att, sem, mem, owner, dev>> /\ shm' = [shm EXCEPT ![p] = None]
      /\ shm[p] = key /\ key \in Segs
      /\ table' = IF shm_nattch(key) = 0 THEN [table EXCEPT ![key] = Empty] ELSE table
      /\ last' = IF shm_nattch(key) = 0 THEN [last EXCEPT ![key] = None] ELSE last
      /\ IF shm_nattch(key) <= 1
         THEN key' = None /\ (torn' <=> torn \/ shm_nattch(key) = 1)
         ELSE UNCHANGED <<key, torn>>
  <2>1. shm[p] = key /\ key \in Segs /\ lock = Main(p)
    BY ThreadFacts DEF Undo, At, Inv, TypeOK, SegInv, LockInv, LockPlaces
  <2>2. shm_nattch(key) \in Nat
    BY Nattch DEF Inv
  <2>3. shm_nattch(key) <= 1 => (torn' <=> torn \/ shm_nattch(key) = 1)
    BY <2>1 DEF Undo
  <2>4. QED
    BY <2>1, <2>2, <2>3 DEF Undo, V, Remove, Emptied, At, Goto
<1>2. IsFiniteSet(att)'
  BY DEF Inv, Undo
<1>3. LockInv'
  BY ThreadFacts DEF Inv, TypeOK, At, Goto, Undo, V, Remove, LockInv, LockPlaces
<1>4. DaemonInv'
  BY DEF Inv, At, Goto, Undo, V, Remove, DaemonInv, LoadPlaces
<1>5. SegInv'
  <2>1. \A q \in Procs \ {p} : pc'[Main(q)] = pc[Main(q)] /\ shm'[q] = shm[q]
                             /\ Attachment(q)' = Attachment(q)
    BY <1>1, ThreadFacts DEF Inv, Attachment
  <2>2. \A q \in Procs \ {p} : pc[Main(q)] \notin LockPlaces
    BY <1>1, ThreadFacts DEF Inv, LockInv
  <2>3. pc'[Main(p)] \in {"run", "left"} /\ shm'[p] = None
    BY <1>1, ThreadFacts DEF Inv, TypeOK
  <2>4. QED
    BY <1>1, <2>1, <2>2, <2>3 DEF Inv, SegInv, UsePlaces, LockPlaces
<1>6. DevInv'
  BY <1>1 DEF Inv, TypeOK, DevInv
<1>7. SemInv'
  BY DEF Inv, Undo, SemInv
<1>8. SameSeg'
  <2>1. shm_nattch(key) \in Nat
    BY Nattch DEF Inv
  <2>2. CASE ~ torn' /\ shm_nattch(key) <= 1
    <3>1. shm_nattch(key) = 0 \/ shm_nattch(key) = 1
      BY <2>1, <2>2
    <3>2. ~ torn /\ shm_nattch(key) = 0
      BY <1>1, <2>2, <3>1
    <3>3. att = {}
      BY <3>2, NobodyElse
    <3>4. QED
      BY <1>1, <3>3 DEF SameSeg
  <2>3. CASE ~ torn' /\ ~ (shm_nattch(key) <= 1)
    BY <1>1, <2>3 DEF Inv, SameSeg
  <2>4. QED
    BY <2>2, <2>3 DEF SameSeg
<1>9. StaleInv'
  <2>1. \A q \in Procs : Alone(q) => q # p
    BY <1>1 DEF Alone
  <2>2. \A q \in Procs \ {p} : Alone(q) => Alone(q)'
    BY <1>1, ThreadFacts DEF Inv, TypeOK, Alone, Attachment
  <2>3. ~ torn' /\ key' # None => ~ torn /\ key' = key /\ table' = table /\ UNCHANGED <<sem, att>>
    <3>1. shm_nattch(key) \in Nat
      BY Nattch DEF Inv
    <3>2. shm_nattch(key) = 0 => shm_nattch(key) <= 1
      OBVIOUS
    <3>3. QED
      BY <1>1, <3>2
  <2>4. QED
    BY <2>1, <2>2, <2>3 DEF Inv, StaleInv, Stale
<1>10. LastInv'
  BY <1>1 DEF Inv, TypeOK, LastInv
<1>11. NodeInv' /\ OwnInv'
  <2>1. ~ torn' => ~ torn
    BY <1>1
  <2>2. SUFFICES ASSUME NEW t \in Threads, ~ torn, mem'[Proc(t)] # None, pc'[t] \in InUse
                 PROVE  NodeKept(t)
    BY <2>1, KeptNodes
  <2>3. pc'[t] = pc[t]
    BY <1>1, <2>2 DEF Inv, InUse
  <2>4. shm_nattch(key) = 0 => mem[Proc(t)] # key
    BY <1>1, <2>2, ThreadFacts, UsedSegment
  <2>5. table'[mem[Proc(t)]] = table[mem[Proc(t)]] /\ last'[mem[Proc(t)]] = last[mem[Proc(t)]]
    BY <1>1, <2>2, <2>4, ThreadFacts, UsedSegment DEF Inv
  <2>6. QED
    BY <1>1, <2>3, <2>5 DEF NodeKept, Node
<1>12. QED
  BY <1>2, <1>3, <1>4, <1>5, <1>6, <1>7, <1>8, <1>9, <1>10, <1>11 DEF Inv

LEMMA ForkInv ==
  ASSUME Inv, TypeOK', ~ slipped', NEW p \in Procs, NEW c \in Procs, Fork(p, c)
  PROVE  Inv'
<1>1. /\ pc[Main(c)] = "none" /\ pc[Main(p)] = "run"
      /\ pc' = [pc EXCEPT ![Main(c)] = "load"]
      /\ att' = att \cup {[proc |-> c, via |-> "fork", seg |-> a.seg] :
                          a \in {a \in att : a.proc = p}}
      /\ mem' = [mem EXCEPT ![c] = mem[p]] /\ shm' = [shm EXCEPT ![c] = shm[p]]
      /\ UNCHANGED <<key, table, last, sem, torn, lock, owner, dev>>
  BY DEF Fork, At, Goto
<1>2. IsFiniteSet(att)'
  <2> DEFINE own == {a \in att : a.proc = p}
             copy(a) == [proc |-> c, via |-> "fork", seg |-> a.seg]
  <2>1. IsFiniteSet(att) /\ IsFiniteSet(own)
    BY FS_Subset DEF Inv
  <2>2. IsFiniteSet({copy(a) : a \in own})
    <3> DEFINE f == [a \in own |-> copy(a)]
               T == {copy(a) : a \in own}
    <3>1. f \in Surjection(own, T)
      BY DEF Surjection
    <3> HIDE DEF f, T, own
    <3>2. QED
      BY <2>1, <3>1, FS_Surjection DEF T
  <2>3. att' = att \cup {copy(a) : a \in own}
    BY DEF Fork
  <2>4. QED
    BY <2>1, <2>2, <2>3, FS_Union
<1>3. LockInv'
  BY DEF Inv, Goto, Fork, LockInv, LockPlaces
<1>4. DaemonInv'
  BY ThreadFacts DEF Inv, At, Goto, Fork, DaemonInv, LoadPlaces
<1>5. SegInv'
  <2>1. ASSUME NEW q \in Procs \ {c} PROVE pc'[Main(q)] = pc[Main(q)] /\ shm'[q] = shm[q]
                                           /\ mem'[q] = mem[q] /\ Attachment(q)' = Attachment(q)
    BY <1>1, ThreadFacts DEF Inv, Attachment
  <2>2. pc'[Main(c)] = "load" /\ mem'[c] = mem[p]
    BY <1>1, ThreadFacts DEF Inv, TypeOK
  <2>3. mem[p] # None => \E a \in att' : a.proc = c /\ a.seg = mem[p]
    <3>1. ASSUME mem[p] # None PROVE \E a \in att' : a.proc = c /\ a.seg = mem[p]
      <4>1. PICK a \in att : a.proc = p /\ a.seg = mem[p]
        BY <3>1 DEF Inv, SegInv
      <4>2. [proc |-> c, via |-> "fork", seg |-> a.seg] \in att'
        BY <1>1, <4>1
      <4>3. QED
        BY <4>1, <4>2
    <3>2. QED
      BY <3>1
  <2>4. att \subseteq att'
    BY <1>1
  <2>5. QED
    BY <1>1, <2>1, <2>2, <2>3, <2>4 DEF Inv, SegInv, UsePlaces
<1>6. DevInv'
  BY ThreadFacts
     DEF Inv, hostVars, procVars, At, Goto, Fork, DevInv, LockInv, LockPlaces, DaemonInv,
         LoadPlaces, SegInv
<1>7. SemInv'
  BY DEF Inv, Fork, SemInv
<1>8. SameSeg'
  BY DEF Inv, Fork, SameSeg
<1>9. StaleInv'
  BY DEF Inv, At, Goto, Fork, StaleInv, Stale, Alone, Attachment
<1>10. LastInv'
  BY DEF Inv, hostVars, Fork, LastInv
<1>11. NodeInv' /\ OwnInv'
  <2>1. SUFFICES ASSUME NEW t \in Threads, ~ torn, mem'[Proc(t)] # None, pc'[t] \in InUse
                 PROVE  NodeKept(t)
    BY KeptNodes DEF Fork
  <2>2. Proc(t) # c /\ pc'[t] = pc[t]
    BY <1>1, <2>1, ThreadFacts DEF Inv, DaemonInv, LoadPlaces, InUse
  <2>3. QED
    BY <1>1, <2>2 DEF Inv, NodeKept, Node
<1>12. QED
  BY <1>2, <1>3, <1>4, <1>5, <1>6, <1>7, <1>8, <1>9, <1>10, <1>11 DEF Inv

LEMMA InitLocalInv ==
  ASSUME Inv, TypeOK', ~ slipped', NEW p \in Procs, init_local_dev_node(p)
  PROVE  Inv'
<1>1. IsFiniteSet(att)'
  BY DEF Inv, init_local_dev_node, init_lock_semaphore
<1>2. LockInv'
  BY DEF Inv, TypeOK, Goto, init_local_dev_node, init_lock_semaphore, LockInv, LockPlaces
<1>3. DaemonInv'
  BY ThreadFacts
     DEF Inv, TypeOK, Goto, init_local_dev_node, init_lock_semaphore, DaemonInv, LoadPlaces
<1>4. SegInv'
  BY ThreadFacts
     DEF Inv, TypeOK, At, Goto, init_local_dev_node, init_lock_semaphore, SegInv,
         UsePlaces, Attachment
<1>5. DevInv'
  BY DEF Inv, hostVars, TypeOK, Goto, init_local_dev_node, init_lock_semaphore, DevInv
<1>6. SemInv'
  BY FreshSem DEF Inv, TypeOK, init_local_dev_node, init_lock_semaphore, SemInv
<1>7. SameSeg'
  BY DEF Inv, init_local_dev_node, init_lock_semaphore, SameSeg
<1>8. StaleInv'
  BY ThreadFacts
     DEF Inv, TypeOK, At, Goto, init_local_dev_node, init_lock_semaphore, StaleInv, Stale,
         Alone, Attachment
<1>9. LastInv'
  BY DEF Inv, hostVars, init_local_dev_node, LastInv
<1>10. NodeInv' /\ OwnInv'
  <2>1. SUFFICES ASSUME NEW t \in Threads, ~ torn, mem'[Proc(t)] # None, pc'[t] \in InUse
                 PROVE  NodeKept(t)
    BY KeptNodes DEF init_local_dev_node
  <2>2. PICK d \in Devs :
          /\ \/ sem[d] # None /\ UNCHANGED <<sem, owner>>
             \/ /\ sem[d] = None /\ FreshSems # {} /\ sem' = [sem EXCEPT ![d] = NewSem]
                /\ owner' = [owner EXCEPT ![NewSem] = Created(Main(p))]
          /\ dev' = [dev EXCEPT ![Main(p)] = d]
    BY DEF init_local_dev_node, init_lock_semaphore
  <2>3. \E place \in {"register", "run", "setlocal"} : pc' = [pc EXCEPT ![Main(p)] = place]
    BY DEF init_local_dev_node, init_lock_semaphore, Goto
  <2>4. t # Main(p) /\ pc'[t] = pc[t] /\ dev'[t] = dev[t] /\ UNCHANGED <<mem, table, last, torn>>
    BY <2>1, <2>2, <2>3 DEF Inv, TypeOK, InUse, init_local_dev_node
  <2>5. dev[t] \in Devs /\ Node(t)' = Node(t)
    BY <2>1, <2>4 DEF Inv, DevInv, InUse, Node
  <2>6. Node(t) # NewSem \/ FreshSems = {}
    BY <2>1, <2>4, <2>5, ThreadFacts, UsedSegment, FreshSem DEF Node
  <2>7. CASE UNCHANGED <<sem, owner>>
    BY <2>4, <2>5, <2>7 DEF NodeKept
  <2>8. CASE /\ sem[d] = None /\ FreshSems # {} /\ sem' = [sem EXCEPT ![d] = NewSem]
             /\ owner' = [owner EXCEPT ![NewSem] = Created(Main(p))]
    <3>1. NewSem # None /\ sem'[dev[t]] \in {sem[dev[t]], NewSem}
      BY <2>5, <2>8, FreshSem DEF Inv
    <3>2. Node(t) = sem'[dev[t]] => Node(t) = sem[dev[t]]
      BY <2>6, <2>8, <3>1
    <3>3. owner'[Node(t)] = owner[Node(t)]
      BY <2>6, <2>8 DEF Inv
    <3>4. sem[dev[t]] # None => sem'[dev[t]] # None
      BY <3>1
    <3>5. QED
      BY <2>4, <2>5, <3>2, <3>3, <3>4 DEF NodeKept
  <2>9. QED
    BY <2>2, <2>7, <2>8
<1>11. QED
  BY <1>1, <1>2, <1>3, <1>4, <1>5, <1>6, <1>7, <1>8, <1>9, <1>10 DEF Inv

LEMMA SetLocalInv ==
  ASSUME Inv, TypeOK', ~ slipped', NEW p \in Procs, SetLocal(p)
  PROVE  Inv'
<1>1. IsFiniteSet(att)'
  BY DEF Inv, hostVars, SetLocal
<1>2. LockInv'
  BY DEF Inv, TypeOK, Goto, SetLocal, LockInv, LockPlaces
<1>3. DaemonInv'
  BY ThreadFacts DEF Inv, TypeOK, Goto, SetLocal, DaemonInv, LoadPlaces
<1>4. SegInv'
  BY ThreadFacts
     DEF Inv, TypeOK, hostVars, procVars, At, Goto, SetLocal, SegInv, UsePlaces, Attachment
<1>5. DevInv'
  BY DEF Inv, hostVars, TypeOK, procVars, At, Goto, SetLocal, DevInv
<1>6. SemInv'
  BY DEF Inv, hostVars, SetLocal, SemInv
<1>7. SameSeg'
  BY DEF Inv, hostVars, SetLocal, SameSeg
<1>8. StaleInv'
  BY ThreadFacts
     DEF Inv, TypeOK, hostVars, procVars, At, Goto, SetLocal, StaleInv, Stale, Alone,
         Attachment
<1>9. LastInv'
  BY DEF Inv, hostVars, SetLocal, LastInv
<1>10. NodeInv' /\ OwnInv'
  <2>1. SUFFICES ASSUME NEW t \in Threads, ~ torn, mem'[Proc(t)] # None, pc'[t] \in InUse
                 PROVE  NodeKept(t)
    BY KeptNodes DEF SetLocal, hostVars
  <2>2. t # Main(p) /\ pc'[t] = pc[t]
    BY <2>1 DEF Inv, TypeOK, InUse, SetLocal, Goto
  <2>3. \A s \in Sems : owner[s] = t => owner'[s] = t
    BY ThreadFacts DEF SetLocal
  <2>4. Node(t) \in Sems \cup {None} /\ (pc[t] = "section" => Node(t) # None)
    BY <2>1, <2>2, ThreadFacts, UsedSegment
       DEF Node, Inv, TypeOK, DevInv, NodeInv, InUse, SetLocal, procVars
  <2>5. QED
    BY <2>2, <2>3, <2>4 DEF NodeKept, Node, SetLocal, hostVars, procVars
<1>11. QED
  BY <1>1, <1>2, <1>3, <1>4, <1>5, <1>6, <1>7, <1>8, <1>9, <1>10 DEF Inv

LEMMA RegisterInv ==
  ASSUME Inv, TypeOK', ~ slipped', NEW t \in Threads, Register(t)
  PROVE  Inv'
<1>1. IsFiniteSet(att)'
  BY DEF Inv, hostVars, Register
<1>2. LockInv'
  BY LifeAssumption DEF Inv, Goto, Register, P, Slip, LockInv
<1>3. DaemonInv'
  BY DEF Inv, At, Goto, Register, P, Slip, DaemonInv, LoadPlaces
<1>4. SegInv'
  BY DEF Inv, hostVars, procVars, At, Goto, Register, P, Slip, SegInv, UsePlaces, Attachment
<1>5. DevInv'
  BY DEF Inv, hostVars, procVars, At, Goto, Register, P, Slip, DevInv
<1>6. SemInv'
  BY DEF Inv, hostVars, Register, SemInv
<1>7. SameSeg'
  BY DEF Inv, hostVars, Register, SameSeg
<1>8. StaleInv'
  BY DEF Inv, hostVars, procVars, At, Goto, Register, P, Slip, StaleInv, Stale, Alone, Attachment
<1>9. LastInv'
  BY DEF Inv, hostVars, Register, LastInv
<1>10. NodeInv'
  BY DEF Inv, hostVars, procVars, Goto, Register, P, Slip, NodeInv, Node
<1>11. OwnInv'
  BY DEF Inv, hostVars, procVars, Goto, Register, P, Slip, OwnInv, Node
<1>12. QED
  BY <1>1, <1>2, <1>3, <1>4, <1>5, <1>6, <1>7, <1>8, <1>9, <1>10, <1>11 DEF Inv

LEMMA FindInv ==
  ASSUME Inv, TypeOK', ~ slipped', NEW t \in Threads, Find(t)
  PROVE  Inv'
<1>1. /\ pc[t] = "find" /\ lock = t /\ mem[Proc(t)] # None /\ dev[t] \in Devs
      /\ UNCHANGED <<key, att, table, last, torn, mem, shm, dev>>
      /\ \/ /\ Node(t) # None /\ UNCHANGED <<sem, owner>>
            /\ pc' = [pc EXCEPT ![t] = "node"]
         \/ /\ Node(t) = None /\ sem[dev[t]] # None /\ UNCHANGED <<sem, owner>>
            /\ pc' = [pc EXCEPT ![t] = "found"]
         \/ /\ Node(t) = None /\ sem[dev[t]] = None /\ FreshSems # {}
            /\ sem' = [sem EXCEPT ![dev[t]] = NewSem]
            /\ owner' = [owner EXCEPT ![NewSem] = Created(t)]
            /\ pc' = [pc EXCEPT ![t] = "set"]
  BY DEF Find, V, Detached, init_lock_semaphore, At, Goto, procVars, Inv, LockInv,
         LockPlaces, DevInv
<1>2. IsFiniteSet(att)'
  BY DEF Inv, Find, Detached, init_lock_semaphore
<1>3. LockInv'
  BY DEF Inv, TypeOK, At, Goto, Find, V, Detached, init_lock_semaphore, LockInv, LockPlaces
<1>4. DaemonInv'
  BY ThreadFacts
     DEF Inv, TypeOK, At, Goto, Find, V, Detached, init_lock_semaphore, DaemonInv,
         LoadPlaces
<1>5. SegInv'
  BY ThreadFacts
     DEF Inv, TypeOK, procVars, At, Goto, Find, V, Detached, init_lock_semaphore, SegInv,
         UsePlaces, Attachment
<1>6. DevInv'
  BY DEF Inv, hostVars, TypeOK, procVars, At, Goto, Find, V, Detached, init_lock_semaphore, DevInv
<1>7. SemInv'
  BY <1>1, FreshSem DEF Inv, TypeOK, SemInv
<1>8. SameSeg'
  BY DEF Inv, Find, Detached, init_lock_semaphore, SameSeg
<1>9. StaleInv'
  BY ThreadFacts
     DEF Inv, TypeOK, procVars, At, Goto, Find, V, Detached, init_lock_semaphore, StaleInv,
         Stale, Alone, Attachment
<1>10. LastInv'
  BY DEF Inv, hostVars, Find, LastInv
<1>11. NodeInv' /\ OwnInv'
  <2>1. ASSUME NEW u \in Threads \ {t}, ~ torn, mem'[Proc(u)] # None, pc'[u] \in InUse
        PROVE  NodeKept(u)
    <3>1. pc'[u] = pc[u] /\ dev[u] \in Devs
      BY <1>1, <2>1 DEF Inv, TypeOK, DevInv, InUse
    <3>2. mem[Proc(u)] \in Segs
      BY <1>1, <2>1, ThreadFacts, UsedSegment
    <3>3. FreshSems # {} => Node(u) # NewSem /\ NewSem # None
      BY <3>1, <3>2, FreshSem, LifeAssumption DEF Node
    <3>4. Node(u)' = Node(u) /\ last' = last
      BY <1>1 DEF Node
    <3>5. CASE UNCHANGED <<sem, owner>>
      BY <1>1, <3>1, <3>4, <3>5 DEF NodeKept
    <3>6. CASE /\ sem[dev[t]] = None /\ FreshSems # {}
               /\ sem' = [sem EXCEPT ![dev[t]] = NewSem]
               /\ owner' = [owner EXCEPT ![NewSem] = Created(t)]
      <4>1. sem'[dev[u]] = sem[dev[u]] \/ sem'[dev[u]] = NewSem
        BY <1>1, <3>1, <3>6 DEF Inv
      <4>2. owner'[Node(u)] = owner[Node(u)]
        BY <3>3, <3>6 DEF Inv
      <4>3. QED
        BY <1>1, <3>1, <3>3, <3>4, <3>6, <4>1, <4>2 DEF NodeKept
    <3>7. QED
      BY <1>1, <3>5, <3>6
  <2>2. pc'[t] = "node" => Node(t) # None
    BY <1>1 DEF Inv, TypeOK
  <2>3. pc'[t] \in {"found", "set"} => Node(t) = None /\ sem'[dev[t]] # None
    BY <1>1, FreshSem DEF Inv, TypeOK
  <2>4. pc'[t] \in {"node", "found", "set"}
    BY <1>1 DEF Inv, TypeOK
  <2>5. ASSUME NEW u \in Threads, ~ torn', mem'[Proc(u)] # None
        PROVE  /\ pc'[u] \in {"node", "section"} => Node(u)' # None
               /\ pc'[u] \in {"found", "set"} => Node(u)' = None /\ sem'[dev'[u]] # None
               /\ pc'[u] = "return" => last'[mem'[Proc(u)]] # None
               /\ pc'[u] = "section" /\ Node(u)' = sem'[dev'[u]] => owner'[Node(u)'] = u
    <3>1. CASE u = t
      BY <1>1, <2>2, <2>3, <2>4, <3>1 DEF Node
    <3>2. CASE u # t /\ pc'[u] \in InUse
      <4>1. NodeKept(u)
        BY <1>1, <2>1, <2>5, <3>2
      <4>2. QED
        BY <1>1, <2>5, <4>1, LifeAssumption DEF NodeKept, Inv, NodeInv, OwnInv
    <3>3. CASE pc'[u] \notin InUse
      BY <3>3 DEF InUse
    <3>4. QED
      BY <3>1, <3>2, <3>3
  <2>6. QED
    BY <2>5 DEF NodeInv, OwnInv
<1>12. QED
  BY <1>2, <1>3, <1>4, <1>5, <1>6, <1>7, <1>8, <1>9, <1>10, <1>11 DEF Inv

LEMMA EnterInv ==
  ASSUME Inv, TypeOK', ~ slipped', NEW t \in Threads, Enter(t)
  PROVE  Inv'
<1>1. /\ pc[t] \in {"found", "set"} /\ lock = t /\ mem[Proc(t)] # None /\ dev[t] \in Devs
      /\ pc' = [pc EXCEPT ![t] = "return"]
      /\ UNCHANGED <<key, att, sem, torn, mem, shm, dev>>
      /\ owner' = IF pc[t] = "set" THEN [owner EXCEPT ![sem[dev[t]]] = Free] ELSE owner
      /\ table' = [table EXCEPT ![mem[Proc(t)]][dev[t]] = sem[dev[t]]]
      /\ last' = [last EXCEPT ![mem[Proc(t)]] = dev[t]]
  BY DEF Enter, Initialised, V, At, Goto, procVars, Inv, LockInv, LockPlaces, DevInv
<1>2. IsFiniteSet(att)'
  BY DEF Inv, Enter
<1>3. LockInv'
  BY DEF Inv, TypeOK, Goto, Enter, V, LockInv, LockPlaces
<1>4. DaemonInv'
  BY DEF Inv, Goto, Enter, V, DaemonInv, LoadPlaces
<1>5. SegInv'
  BY DEF Inv, procVars, Goto, Enter, V, SegInv, UsePlaces, Attachment
<1>6. DevInv'
  BY DEF Inv, hostVars, procVars, Goto, Enter, V, DevInv
<1>7. SemInv'
  BY DEF Inv, Enter, SemInv
<1>8. SameSeg'
  BY DEF Inv, Enter, SameSeg
<1>9. StaleInv'
  BY DEF Inv, procVars, Goto, Enter, V, StaleInv, Stale, Alone, Attachment
<1>10. LastInv'
  <2>1. mem[Proc(t)] \in Segs
    BY <1>1, ThreadFacts, UsedSegment
  <2>2. ~ torn => sem[dev[t]] # None
    BY <1>1 DEF Inv, NodeInv
  <2>3. QED
    BY <1>1, <2>1, <2>2 DEF Inv, TypeOK, LastInv
<1>11. NodeInv' /\ OwnInv'
  <2>1. mem[Proc(t)] \in Segs /\ (~ torn => mem[Proc(t)] = key)
    BY <1>1, ThreadFacts, UsedSegment
  <2>2. ~ torn => Node(t) = None /\ sem[dev[t]] # None
    BY <1>1 DEF Inv, NodeInv
  <2>3. Node(t)' = sem[dev[t]]
    BY <1>1, <2>1 DEF Inv, TypeOK, Node
  <2>4. ASSUME NEW u \in Threads \ {t}, ~ torn', mem'[Proc(u)] # None, pc'[u] \in InUse
        PROVE  NodeKept(u)
    <3>1. pc'[u] = pc[u] /\ dev[u] \in Devs /\ pc[u] \notin {"found", "set"}
      BY <1>1, <2>4 DEF Inv, DevInv, InUse, LockInv, LockPlaces
    <3>2. mem[Proc(u)] = mem[Proc(t)]
      BY <1>1, <2>1, <2>4, ThreadFacts, UsedSegment
    <3>3. CASE pc[u] = "return"
      <4>1. last'[mem[Proc(u)]] \in {last[mem[Proc(u)]]} \cup Devs
        BY <1>1, <2>1 DEF Inv, TypeOK
      <4>2. QED
        BY <1>1, <3>1, <3>3, <4>1 DEF NodeKept
    <3> SUFFICES ASSUME pc[u] # "return" PROVE NodeKept(u)
      BY <3>3
    <3>4. Node(u) # None
      BY <1>1, <2>4, <3>1 DEF Inv, NodeInv, InUse
    <3>5. dev[u] # dev[t]
      BY <1>1, <2>2, <2>4, <3>2, <3>4 DEF Node
    <3>6. Node(u)' = Node(u)
      BY <1>1, <2>1, <3>1, <3>2, <3>5 DEF Inv, Node
    <3>7. Node(u) = sem[dev[u]] => Node(u) # sem[dev[t]]
      BY <1>1, <3>1, <3>4, <3>5 DEF Inv, SemInv
    <3>8. QED
      BY <1>1, <3>1, <3>6, <3>7 DEF NodeKept, Inv
  <2>5. ASSUME NEW u \in Threads, ~ torn', mem'[Proc(u)] # None
        PROVE  /\ pc'[u] \in {"node", "section"} => Node(u)' # None
               /\ pc'[u] \in {"found", "set"} => Node(u)' = None /\ sem'[dev'[u]] # None
               /\ pc'[u] = "return" => last'[mem'[Proc(u)]] # None
               /\ pc'[u] = "section" /\ Node(u)' = sem'[dev'[u]] => owner'[Node(u)'] = u
    <3>1. CASE u = t
      <4>1. pc'[t] = "return" /\ last'[mem[Proc(t)]] = dev[t]
        BY <1>1, <2>1 DEF Inv, TypeOK
      <4>2. QED
        BY <1>1, <2>5, <3>1, <4>1, LifeAssumption
    <3>2. CASE u # t /\ pc'[u] \in InUse
      <4>1. NodeKept(u)
        BY <2>4, <2>5, <3>2
      <4>2. QED
        BY <1>1, <2>5, <4>1, LifeAssumption DEF NodeKept, Inv, NodeInv, OwnInv
    <3>3. CASE pc'[u] \notin InUse
      BY <3>3 DEF InUse
    <3>4. QED
      BY <3>1, <3>2, <3>3
  <2>6. QED
    BY <2>5 DEF NodeInv, OwnInv
<1>12. QED
  BY <1>2, <1>3, <1>4, <1>5, <1>6, <1>7, <1>8, <1>9, <1>10, <1>11 DEF Inv

LEMMA ReturnInv ==
  ASSUME Inv, TypeOK', ~ slipped', NEW t \in Threads, Return(t)
  PROVE  Inv'
<1>1. /\ pc[t] = "return" /\ mem[Proc(t)] # None
      /\ dev' = [dev EXCEPT ![t] = last[mem[Proc(t)]]] /\ pc' = [pc EXCEPT ![t] = "node"]
      /\ UNCHANGED <<key, att, table, last, sem, torn, mem, shm, lock, owner>>
  BY DEF Return, Detached, At, Goto, hostVars, procVars
<1>2. ~ torn => last[mem[Proc(t)]] \in Devs /\ table[mem[Proc(t)]][last[mem[Proc(t)]]] # None
  BY <1>1, ThreadFacts, UsedSegment DEF Inv, TypeOK, NodeInv, LastInv
<1>3. IsFiniteSet(att)'
  BY <1>1 DEF Inv
<1>4. LockInv'
  BY <1>1 DEF Inv, LockInv, LockPlaces
<1>5. DaemonInv'
  BY <1>1 DEF Inv, DaemonInv, LoadPlaces
<1>6. SegInv'
  BY <1>1 DEF Inv, SegInv, UsePlaces, Attachment
<1>7. DevInv'
  BY <1>1, <1>2 DEF Inv, hostVars, TypeOK, DevInv
<1>8. SemInv'
  BY <1>1 DEF Inv, SemInv
<1>9. SameSeg'
  BY <1>1 DEF Inv, SameSeg
<1>10. StaleInv'
  BY <1>1 DEF Inv, StaleInv, Stale, Alone, Attachment
<1>11. LastInv'
  BY <1>1 DEF Inv, LastInv
<1>12. NodeInv'
  BY <1>1, <1>2 DEF Inv, TypeOK, NodeInv, Node
<1>13. OwnInv'
  BY <1>1 DEF Inv, OwnInv, Node
<1>14. QED
  BY <1>3, <1>4, <1>5, <1>6, <1>7, <1>8, <1>9, <1>10, <1>11, <1>12, <1>13 DEF Inv

LEMMA EndInLogInv ==
  ASSUME Inv, TypeOK', ~ slipped', NEW p \in Procs, EndInLog(p)
  PROVE  Inv'
<1> DEFINE t == Daemon(p)
<1>1. /\ t \in Threads /\ Proc(t) = p /\ pc[t] \in {"found", "set"} /\ lock = t
      /\ dev[t] \in Devs /\ mem[p] # None
      /\ pc' = [pc EXCEPT ![t] = "none"] /\ dev' = [dev EXCEPT ![t] = None]
      /\ UNCHANGED <<key, att, table, last, sem, torn, mem, shm, lock>>
      /\ owner' = IF pc[t] = "set" THEN [owner EXCEPT ![sem[dev[t]]] = Free] ELSE owner
  BY ThreadFacts
     DEF EndInLog, Initialised, At, Goto, hostVars, procVars, Inv, LockInv, LockPlaces, DevInv
<1> HIDE DEF t
<1>2. IsFiniteSet(att)'
  BY <1>1 DEF Inv
<1>3. LockInv'
  BY <1>1 DEF Inv, TypeOK, LockInv, LockPlaces
<1>4. DaemonInv'
  BY <1>1, ThreadFacts DEF Inv, TypeOK, DaemonInv, LoadPlaces, t
<1>5. SegInv'
  BY <1>1 DEF Inv, SegInv, UsePlaces, Attachment
<1>6. DevInv'
  BY <1>1 DEF Inv, hostVars, TypeOK, DevInv
<1>7. SemInv'
  BY <1>1 DEF Inv, SemInv
<1>8. SameSeg'
  BY <1>1 DEF Inv, SameSeg
<1>9. StaleInv'
  BY <1>1, ThreadFacts DEF Inv, StaleInv, Stale, Alone, Attachment, t
<1>10. LastInv'
  BY <1>1 DEF Inv, LastInv
<1>11. NodeInv' /\ OwnInv'
  <2>1. SUFFICES ASSUME NEW u \in Threads, ~ torn, mem'[Proc(u)] # None, pc'[u] \in InUse
                 PROVE  NodeKept(u)
    BY <1>1, KeptNodes
  <2>2. u # t /\ pc'[u] = pc[u] /\ dev'[u] = dev[u] /\ dev[u] \in Devs
    BY <1>1, <2>1 DEF Inv, TypeOK, DevInv, InUse
  <2>3. Node(u)' = Node(u)
    BY <1>1, <2>2 DEF Node
  <2>4. ASSUME pc[u] = "section", Node(u) = sem[dev[u]], pc[t] = "set"
        PROVE  owner'[Node(u)] = owner[Node(u)]
    <3>1. Node(u) # None /\ Node(t) = None /\ mem[Proc(u)] = mem[p]
      BY <1>1, <2>1, <2>4, ThreadFacts, UsedSegment DEF Inv, NodeInv
    <3>2. dev[u] # dev[t]
      BY <1>1, <3>1 DEF Node
    <3>3. Node(u) # sem[dev[t]]
      BY <1>1, <2>2, <2>4, <3>1, <3>2 DEF Inv, SemInv
    <3>4. QED
      BY <1>1, <3>3 DEF Inv, TypeOK
  <2>5. QED
    BY <1>1, <2>2, <2>3, <2>4 DEF NodeKept
<1>12. QED
  BY <1>2, <1>3, <1>4, <1>5, <1>6, <1>7, <1>8, <1>9, <1>10, <1>11 DEF Inv

LEMMA EnterSectionInv ==
  ASSUME Inv, TypeOK', ~ slipped', NEW t \in Threads, EnterSection(t)
  PROVE  Inv'
<1>1. IsFiniteSet(att)'
  BY DEF Inv, hostVars, EnterSection, Detached
<1>2. LockInv'
  BY DEF Inv, Goto, EnterSection, Detached, LockInv, LockPlaces
<1>3. DaemonInv'
  BY DEF Inv, At, Goto, EnterSection, Detached, DaemonInv, LoadPlaces
<1>4. SegInv'
  BY DEF Inv, hostVars, procVars, At, Goto, EnterSection, Detached, SegInv, UsePlaces,
         Attachment
<1>5. DevInv'
  BY DEF Inv, hostVars, procVars, At, Goto, EnterSection, Detached, DevInv
<1>6. SemInv'
  BY DEF Inv, hostVars, EnterSection, Detached, SemInv
<1>7. SameSeg'
  BY DEF Inv, hostVars, EnterSection, Detached, SameSeg
<1>8. StaleInv'
  BY DEF Inv, hostVars, procVars, At, Goto, EnterSection, Detached, StaleInv, Stale, Alone,
         Attachment
<1>9. LastInv'
  BY DEF Inv, hostVars, EnterSection, LastInv
<1>10. NodeInv'
  BY DEF Inv, hostVars, procVars, At, Goto, EnterSection, Detached, NodeInv, Node
<1>11. OwnInv'
  <2>1. /\ pc[t] = "node" /\ pc' = [pc EXCEPT ![t] = "section"] /\ mem[Proc(t)] # None
        /\ UNCHANGED <<table, sem, torn, mem, dev>>
        /\ \/ owner[Node(t)] = Free /\ owner' = [owner EXCEPT ![Node(t)] = t]
           \/ sem[dev[t]] # Node(t) /\ UNCHANGED owner
    BY DEF EnterSection, Slip, At, Goto, Detached, hostVars, procVars
  <2>2. ASSUME NEW u \in Threads, ~ torn, pc'[u] = "section", mem[Proc(u)] # None,
               Node(u) = sem[dev[u]]
        PROVE  owner'[Node(u)] = u
    <3>1. CASE u = t
      <4>1. Node(t) \in Sems
        BY <2>1, <2>2, <3>1, UsedSegment DEF Inv, TypeOK, DevInv, NodeInv, Node
      <4>2. QED
        BY <2>1, <2>2, <3>1, <4>1 DEF Inv, TypeOK
    <3>2. CASE u # t
      <4>1. owner[Node(u)] = u
        BY <2>1, <2>2, <3>2 DEF Inv, OwnInv
      <4>2. u # Free
        BY LifeAssumption
      <4>3. Node(u) \in Sems
        BY <2>1, <2>2, <3>2, UsedSegment DEF Inv, TypeOK, DevInv, NodeInv, Node
      <4>4. owner' = owner \/ (owner[Node(t)] = Free /\ owner' = [owner EXCEPT ![Node(t)] = t])
        BY <2>1
      <4>5. QED
        BY <4>1, <4>2, <4>3, <4>4 DEF Inv, TypeOK
    <3>3. QED
      BY <3>1, <3>2
  <2>3. QED
    BY <2>1, <2>2 DEF OwnInv, Node
<1>12. QED
  BY <1>1, <1>2, <1>3, <1>4, <1>5, <1>6, <1>7, <1>8, <1>9, <1>10, <1>11 DEF Inv

LEMMA LeaveSectionInv ==
  ASSUME Inv, TypeOK', ~ slipped', NEW t \in Threads, LeaveSection(t)
  PROVE  Inv'
<1>1. IsFiniteSet(att)'
  BY DEF Inv, hostVars, LeaveSection, Detached
<1>2. LockInv'
  BY DEF Inv, Goto, LeaveSection, Detached, LockInv, LockPlaces
<1>3. DaemonInv'
  BY DEF Inv, At, Goto, LeaveSection, Detached, DaemonInv, LoadPlaces
<1>4. SegInv'
  BY DEF Inv, hostVars, procVars, At, Goto, LeaveSection, Detached, SegInv, UsePlaces,
         Attachment
<1>5. DevInv'
  BY DEF Inv, hostVars, TypeOK, procVars, Goto, LeaveSection, Detached, DevInv
<1>6. SemInv'
  BY DEF Inv, hostVars, LeaveSection, Detached, SemInv
<1>7. SameSeg'
  BY DEF Inv, hostVars, LeaveSection, Detached, SameSeg
<1>8. StaleInv'
  BY DEF Inv, hostVars, procVars, At, Goto, LeaveSection, Detached, StaleInv, Stale, Alone,
         Attachment
<1>9. LastInv'
  BY DEF Inv, hostVars, LeaveSection, LastInv
<1>10. NodeInv'
  BY DEF Inv, TypeOK, hostVars, procVars, Goto, LeaveSection, Detached, NodeInv, Node
<1>11. OwnInv'
  BY DEF Inv, TypeOK, hostVars, procVars, Goto, LeaveSection, Detached, OwnInv, Node
<1>12. QED
  BY <1>1, <1>2, <1>3, <1>4, <1>5, <1>6, <1>7, <1>8, <1>9, <1>10, <1>11 DEF Inv

LEMMA UpdateInv ==
  ASSUME Inv, TypeOK', ~ slipped', NEW p \in Procs, kuaf_bw_update(p)
  PROVE  Inv'
<1>1. IsFiniteSet(att)'
  BY DEF Inv, hostVars, kuaf_bw_update, Detached
<1>2. LockInv'
  BY DEF Inv, TypeOK, Goto, kuaf_bw_update, Detached, LockInv, LockPlaces
<1>3. DaemonInv'
  BY ThreadFacts DEF Inv, TypeOK, At, Goto, kuaf_bw_update, Detached, DaemonInv
<1>4. SegInv'
  BY ThreadFacts
     DEF Inv, TypeOK, hostVars, procVars, Goto, kuaf_bw_update, Detached, SegInv,
         Attachment
<1>5. DevInv'
  BY DEF Inv, hostVars, TypeOK, procVars, Goto, kuaf_bw_update, Detached, DevInv
<1>6. SemInv'
  BY DEF Inv, hostVars, kuaf_bw_update, Detached, SemInv
<1>7. SameSeg'
  BY DEF Inv, hostVars, kuaf_bw_update, Detached, SameSeg
<1>8. StaleInv'
  BY ThreadFacts
     DEF Inv, TypeOK, hostVars, procVars, Goto, kuaf_bw_update, Detached, StaleInv, Stale,
         Alone, Attachment
<1>9. LastInv'
  BY DEF Inv, hostVars, kuaf_bw_update, LastInv
<1>10. NodeInv'
  BY DEF Inv, TypeOK, hostVars, procVars, Goto, kuaf_bw_update, Detached, NodeInv, Node
<1>11. OwnInv'
  BY DEF Inv, TypeOK, hostVars, procVars, Goto, kuaf_bw_update, Detached, OwnInv, Node
<1>12. QED
  BY <1>1, <1>2, <1>3, <1>4, <1>5, <1>6, <1>7, <1>8, <1>9, <1>10, <1>11 DEF Inv

LEMMA CancelInv ==
  ASSUME Inv, TypeOK', ~ slipped', NEW p \in Procs, Cancel(p)
  PROVE  Inv'
<1>1. IsFiniteSet(att)'
  BY DEF Inv, hostVars, Cancel
<1>2. LockInv'
  BY DEF Inv, Goto, Cancel, LockInv, LockPlaces
<1>3. DaemonInv'
  BY DEF Inv, At, Goto, Cancel, DaemonInv, LoadPlaces
<1>4. SegInv'
  BY DEF Inv, hostVars, At, Goto, Cancel, SegInv, UsePlaces, Attachment
<1>5. DevInv'
  BY DEF Inv, hostVars, Goto, Cancel, DevInv
<1>6. SemInv'
  BY DEF Inv, hostVars, Cancel, SemInv
<1>7. SameSeg'
  BY DEF Inv, hostVars, Cancel, SameSeg
<1>8. StaleInv'
  BY DEF Inv, hostVars, At, Goto, Cancel, StaleInv, Stale, Alone, Attachment
<1>9. LastInv'
  BY DEF Inv, hostVars, Cancel, LastInv
<1>10. NodeInv'
  BY DEF Inv, hostVars, Goto, Cancel, NodeInv, Node
<1>11. OwnInv'
  BY DEF Inv, hostVars, Goto, Cancel, OwnInv, Node
<1>12. QED
  BY <1>1, <1>2, <1>3, <1>4, <1>5, <1>6, <1>7, <1>8, <1>9, <1>10, <1>11 DEF Inv

LEMMA FreeLockInv ==
  ASSUME Inv, TypeOK', ~ slipped', NEW p \in Procs, FreeLock(p)
  PROVE  Inv'
<1>1. IsFiniteSet(att)'
  BY DEF Inv, hostVars, FreeLock
<1>2. LockInv'
  BY LifeAssumption DEF Inv, TypeOK, Goto, FreeLock, P, Slip, LockInv, LockPlaces
<1>3. DaemonInv'
  BY ThreadFacts DEF Inv, TypeOK, Goto, FreeLock, P, Slip, DaemonInv, LoadPlaces
<1>4. SegInv'
  BY ThreadFacts
     DEF Inv, TypeOK, hostVars, procVars, At, Goto, FreeLock, P, Slip, SegInv, UsePlaces,
         Attachment
<1>5. DevInv'
  BY DEF Inv, hostVars, TypeOK, procVars, Goto, FreeLock, P, Slip, DevInv
<1>6. SemInv'
  BY DEF Inv, hostVars, FreeLock, SemInv
<1>7. SameSeg'
  BY DEF Inv, hostVars, FreeLock, SameSeg
<1>8. StaleInv'
  BY ThreadFacts
     DEF Inv, TypeOK, hostVars, procVars, At, Goto, FreeLock, P, Slip, StaleInv, Stale, Alone,
         Attachment
<1>9. LastInv'
  BY DEF Inv, hostVars, FreeLock, LastInv
<1>10. NodeInv'
  BY DEF Inv, TypeOK, hostVars, procVars, Goto, FreeLock, P, Slip, NodeInv, Node
<1>11. OwnInv'
  BY DEF Inv, TypeOK, hostVars, procVars, Goto, FreeLock, P, Slip, OwnInv, Node
<1>12. QED
  BY <1>1, <1>2, <1>3, <1>4, <1>5, <1>6, <1>7, <1>8, <1>9, <1>10, <1>11 DEF Inv

LEMMA RemoveSemsInv ==
  ASSUME Inv, TypeOK', ~ slipped', NEW p \in Procs, RemoveSems(p)
  PROVE  Inv'
<1> DEFINE removed == {d \in Devs : LastAttached(p) /\ sem[d] = table[shm[p]][d]}
<1>1. /\ pc[Main(p)] = "unload" /\ pc' = [pc EXCEPT ![Main(p)] = "shmdt"] /\ lock = Main(p)
      /\ sem' = [d \in Devs |-> IF d \in removed THEN None ELSE sem[d]]
      /\ owner' = [s \in Sems |-> IF \E d \in removed : sem[d] = s THEN Unset ELSE owner[s]]
      /\ UNCHANGED <<key, att, table, last, torn, mem, shm, dev>>
      /\ mem[p] \in Segs /\ shm[p] = mem[p] /\ Attachment(p) \in att
  BY ThreadFacts
     DEF RemoveSems, At, Goto, procVars, Inv, TypeOK, SegInv, UsePlaces, LockInv,
         LockPlaces
<1>2. IsFiniteSet(att)'
  BY DEF Inv, RemoveSems, LastAttached
<1>3. LockInv'
  BY DEF Inv, At, Goto, RemoveSems, LastAttached, LockInv, LockPlaces
<1>4. DaemonInv'
  BY DEF Inv, At, Goto, RemoveSems, LastAttached, DaemonInv, LoadPlaces
<1>5. SegInv'
  BY DEF Inv, procVars, At, Goto, RemoveSems, LastAttached, SegInv, UsePlaces, Attachment
<1>6. DevInv'
  BY DEF Inv, hostVars, procVars, Goto, RemoveSems, LastAttached, DevInv
<1>7. SemInv'
  BY DEF Inv, RemoveSems, LastAttached, SemInv
<1>8. SameSeg'
  BY DEF Inv, RemoveSems, LastAttached, SameSeg
<1>9. StaleInv'
  <2>1. ~ torn => shm[p] = key
    BY <1>1, UsedSegment, LifeAssumption
  <2>2. CASE ~ torn /\ LastAttached(p)
    <3>1. att = {Attachment(p)}
      BY <1>1, <2>2, OnlyOne DEF LastAttached
    <3>2. Alone(p)'
      BY <1>1, <3>1, ThreadFacts DEF Inv, TypeOK, Alone, Attachment
    <3>3. QED
      BY <3>2 DEF StaleInv
  <2>3. CASE ~ torn /\ ~ LastAttached(p)
    <3>1. \A d \in Devs : sem'[d] = sem[d]
      BY <1>1, <2>3
    <3>2. \A q \in Procs : ~ Alone(q)
      BY <1>1, ThreadFacts DEF Alone, Inv, LockInv, LockPlaces
    <3>3. QED
      BY <1>1, <2>3, <3>1, <3>2 DEF Inv, StaleInv, Stale
  <2>4. CASE torn
    BY <1>1, <2>4 DEF StaleInv
  <2>5. QED
    BY <2>2, <2>3, <2>4
<1>10. LastInv'
  BY DEF Inv, hostVars, RemoveSems, LastInv
<1>11. NodeInv' /\ OwnInv'
  <2>1. SUFFICES ASSUME NEW t \in Threads, ~ torn, mem'[Proc(t)] # None, pc'[t] \in InUse
                 PROVE  NodeKept(t)
    BY KeptNodes DEF RemoveSems
  <2>2. pc'[t] = pc[t] /\ pc[t] \notin {"found", "set"} /\ dev[t] \in Devs
    BY <1>1, <2>1 DEF Inv, DevInv, InUse, LockInv, LockPlaces
  <2>3. CASE pc[t] = "return"
    BY <1>1, <2>2, <2>3 DEF NodeKept
  <2> SUFFICES ASSUME pc[t] # "return" PROVE NodeKept(t)
    BY <2>3
  <2>4. Node(t) # None /\ mem[Proc(t)] = key /\ shm[p] = key
    <3>1. mem[Proc(t)] # None /\ mem[p] # None
      BY <1>1, <2>1, LifeAssumption
    <3>2. mem[Proc(t)] = key /\ shm[p] = key
      BY <1>1, <2>1, <3>1, ThreadFacts, UsedSegment
    <3>3. QED
      BY <2>1, <2>2, <3>1, <3>2 DEF Inv, NodeInv, InUse
  <2>5. Node(t) = sem'[dev[t]] => dev[t] \notin removed
    BY <1>1, <2>2, <2>4
  <2>6. Node(t) = sem'[dev[t]] => sem'[dev[t]] = sem[dev[t]] /\ owner'[Node(t)] = owner[Node(t)]
    <3>1. ASSUME Node(t) = sem'[dev[t]] PROVE owner'[Node(t)] = owner[Node(t)]
      <4>1. \A d \in removed : sem[d] # Node(t)
        BY <1>1, <2>2, <2>4, <2>5, <3>1 DEF Inv, SemInv
      <4>2. Node(t) \in Sems
        BY <1>1, <2>2, <2>4, <2>5, <3>1 DEF Inv, TypeOK
      <4>3. owner \in [Sems -> Threads \cup {Created(u) : u \in Threads} \cup {Free, Unset}]
        BY DEF Inv, TypeOK
      <4>4. QED
        BY <1>1, <4>1, <4>2, <4>3
    <3>2. QED
      BY <1>1, <2>2, <2>5, <3>1
  <2>7. Node(t)' = Node(t) /\ dev'[t] = dev[t] /\ mem'[Proc(t)] = mem[Proc(t)]
    BY <1>1 DEF Node
  <2>8. QED
    BY <2>2, <2>6, <2>7 DEF NodeKept
<1>12. QED
  BY <1>2, <1>3, <1>4, <1>5, <1>6, <1>7, <1>8, <1>9, <1>10, <1>11 DEF Inv

LEMMA ShmdtInv ==
  ASSUME Inv, TypeOK', ~ slipped', NEW p \in Procs, shmdt(p)
  PROVE  Inv'
<1>1. IsFiniteSet(att)'
  BY FS_RemoveElement DEF Inv, shmdt
<1>2. LockInv'
  BY DEF Inv, At, Goto, shmdt, LockInv, LockPlaces
<1>3. DaemonInv'
  BY DEF Inv, At, Goto, shmdt, DaemonInv, LoadPlaces
<1>4. SegInv'
  BY ThreadFacts DEF Inv, TypeOK, At, Goto, shmdt, SegInv, Attachment
<1>5. DevInv'
  BY ThreadFacts
     DEF Inv, hostVars, procVars, At, Goto, shmdt, DevInv, LockInv, LockPlaces, DaemonInv,
         LoadPlaces, SegInv
<1>6. SemInv'
  BY DEF Inv, shmdt, SemInv
<1>7. SameSeg'
  BY DEF Inv, shmdt, SameSeg
<1>8. StaleInv'
  BY ThreadFacts DEF Inv, Goto, shmdt, StaleInv, Stale, Alone, Attachment
<1>9. LastInv'
  BY DEF Inv, hostVars, shmdt, LastInv
<1>10. NodeInv'
  BY DEF Inv, Goto, shmdt, NodeInv, Node
<1>11. OwnInv'
  BY DEF Inv, Goto, shmdt, OwnInv, Node
<1>12. QED
  BY <1>1, <1>2, <1>3, <1>4, <1>5, <1>6, <1>7, <1>8, <1>9, <1>10, <1>11 DEF Inv

LEMMA RemoveSegmentInv ==
  ASSUME Inv, TypeOK', ~ slipped', NEW p \in Procs, RemoveSegment(p)
  PROVE  Inv'
<1>1. /\ pc[Main(p)] = "rmid" /\ pc' = [pc EXCEPT ![Main(p)] = "left"]
      /\ lock = Main(p) /\ lock' = Free /\ shm[p] \in Segs
      /\ UNCHANGED <<att, sem, mem, torn, owner, dev>> /\ shm' = [shm EXCEPT ![p] = None]
      /\ IF shm_nattch(shm[p]) = 0
         THEN /\ table' = [table EXCEPT ![shm[p]] = Empty]
              /\ last' = [last EXCEPT ![shm[p]] = None]
              /\ key' = IF key = shm[p] THEN None ELSE key
         ELSE UNCHANGED <<key, table, last>>
  BY ThreadFacts
     DEF RemoveSegment, V, Remove, Emptied, At, Goto, Inv, TypeOK, SegInv, LockInv, LockPlaces
<1>2. IsFiniteSet(att)'
  BY DEF Inv, RemoveSegment
<1>3. LockInv'
  BY ThreadFacts DEF Inv, TypeOK, At, Goto, RemoveSegment, V, Remove, LockInv, LockPlaces
<1>4. DaemonInv'
  BY DEF Inv, At, Goto, RemoveSegment, V, Remove, DaemonInv, LoadPlaces
<1>5. SegInv'
  <2>1. \A q \in Procs \ {p} : pc'[Main(q)] = pc[Main(q)] /\ shm'[q] = shm[q]
                             /\ Attachment(q)' = Attachment(q)
    BY <1>1, ThreadFacts DEF Inv, Attachment
  <2>2. \A q \in Procs \ {p} : pc[Main(q)] \notin LockPlaces
    BY <1>1, ThreadFacts DEF Inv, LockInv
  <2>3. pc'[Main(p)] \in {"run", "left"} /\ shm'[p] = None
    BY <1>1, ThreadFacts DEF Inv, TypeOK
  <2>4. QED
    BY <1>1, <2>1, <2>2, <2>3 DEF Inv, SegInv, UsePlaces, LockPlaces
<1>6. DevInv'
  BY DEF Inv, hostVars, Goto, RemoveSegment, V, Remove, DevInv
<1>7. SemInv'
  BY DEF Inv, RemoveSegment, SemInv
<1>8. SameSeg'
  <2>1. CASE ~ torn /\ shm_nattch(shm[p]) = 0 /\ key = shm[p]
    <3>1. att = {}
      BY <2>1, NobodyElse
    <3>2. QED
      BY <1>1, <3>1 DEF SameSeg
  <2>2. QED
    BY <1>1, <2>1 DEF Inv, SameSeg
<1>9. StaleInv'
  <2>1. \A q \in Procs : Alone(q) => q # p
    BY <1>1 DEF Alone
  <2>2. \A q \in Procs \ {p} : Alone(q) => Alone(q)'
    BY <1>1, ThreadFacts DEF Inv, TypeOK, Alone, Attachment
  <2>3. key' # None => key' = key /\ table'[key] = table[key] /\ UNCHANGED <<sem, att, torn>>
    BY <1>1 DEF Inv, TypeOK
  <2>4. QED
    BY <2>1, <2>2, <2>3 DEF Inv, StaleInv, Stale
<1>10. LastInv'
  BY <1>1 DEF Inv, TypeOK, LastInv
<1>11. NodeInv' /\ OwnInv'
  <2>1. SUFFICES ASSUME NEW t \in Threads, ~ torn, mem'[Proc(t)] # None, pc'[t] \in InUse
                 PROVE  NodeKept(t)
    BY KeptNodes DEF RemoveSegment
  <2>2. pc'[t] = pc[t]
    BY <1>1, <2>1 DEF Inv, InUse
  <2>3. shm_nattch(shm[p]) = 0 => mem[Proc(t)] # shm[p]
    BY <1>1, <2>1, ThreadFacts, UsedSegment
  <2>4. table'[mem[Proc(t)]] = table[mem[Proc(t)]] /\ last'[mem[Proc(t)]] = last[mem[Proc(t)]]
    BY <1>1, <2>1, <2>3, ThreadFacts, UsedSegment DEF Inv, TypeOK
  <2>5. QED
    BY <1>1, <2>2, <2>4 DEF NodeKept, Node
<1>12. QED
  BY <1>2, <1>3, <1>4, <1>5, <1>6, <1>7, <1>8, <1>9, <1>10, <1>11 DEF Inv

LEMMA ExitInv ==
  ASSUME Inv, TypeOK', ~ slipped', NEW p \in Procs, KernelExit(p)
  PROVE  Inv'
<1>1. /\ pc' = [pc EXCEPT ![Main(p)] = "none", ![Daemon(p)] = "none"]
      /\ att' = {a \in att : a.proc # p} /\ UNCHANGED <<key, sem, torn>>
      /\ mem' = [mem EXCEPT ![p] = None]
      /\ owner' = [s \in Sems |-> IF owner[s] \in {Main(p), Daemon(p)} THEN Free ELSE owner[s]]
      /\ dev' = [dev EXCEPT ![Main(p)] = None, ![Daemon(p)] = None]
      /\ table' = [g \in Segs |-> IF g = key \/ \E a \in att' : a.seg = g
                                  THEN table[g] ELSE Empty]
      /\ last' = [g \in Segs |-> IF g = key \/ \E a \in att' : a.seg = g THEN last[g] ELSE None]
  BY DEF KernelExit
<1>2. IsFiniteSet(att)'
  BY FS_Subset DEF Inv, KernelExit
<1>3. LockInv'
  BY DEF Inv, TypeOK, KernelExit, LockInv, LockPlaces
<1>4. DaemonInv'
  BY ThreadFacts DEF Inv, TypeOK, KernelExit, DaemonInv, LoadPlaces
<1>5. SegInv'
  BY ThreadFacts DEF Inv, TypeOK, KernelExit, SegInv, Attachment
<1>6. DevInv'
  BY ThreadFacts DEF Inv, hostVars, TypeOK, KernelExit, DevInv
<1>7. SemInv'
  BY DEF Inv, KernelExit, SemInv
<1>8. SameSeg'
  BY DEF Inv, KernelExit, SameSeg
<1>9. StaleInv'
  BY ThreadFacts DEF Inv, TypeOK, KernelExit, StaleInv, Stale, Alone, Attachment
<1>10. LastInv'
  BY <1>1 DEF Inv, TypeOK, LastInv
<1>11. NodeInv' /\ OwnInv'
  <2>1. SUFFICES ASSUME NEW t \in Threads, ~ torn, mem'[Proc(t)] # None, pc'[t] \in InUse
                 PROVE  NodeKept(t)
    BY KeptNodes DEF KernelExit
  <2>2. Proc(t) # p /\ pc'[t] = pc[t] /\ dev'[t] = dev[t] /\ mem'[Proc(t)] = mem[Proc(t)]
    BY <1>1, <2>1 DEF Inv, TypeOK, InUse
  <2>3. Node(t)' = Node(t) /\ last'[mem[Proc(t)]] = last[mem[Proc(t)]]
    BY <1>1, <2>1, <2>2, ThreadFacts, UsedSegment DEF Node
  <2>4. \A s \in Sems : owner[s] = t => owner'[s] = t
    BY <1>1, <2>2, ThreadFacts
  <2>5. pc[t] = "section" => Node(t) \in Sems
    BY <2>1, <2>2, ThreadFacts, UsedSegment DEF Node, Inv, TypeOK, DevInv, NodeInv
  <2>6. QED
    BY <1>1, <2>2, <2>3, <2>4, <2>5 DEF NodeKept
<1>12. QED
  BY <1>2, <1>3, <1>4, <1>5, <1>6, <1>7, <1>8, <1>9, <1>10, <1>11 DEF Inv

-----------------------------------------------------------------------------
LEMMA InitInv == Init => Inv /\ Typed
<1> SUFFICES ASSUME Init PROVE Inv /\ Typed
  OBVIOUS
<1>1. TypeOK
  BY LifeAssumption DEF Init, TypeOK, Empty, PCs
<1>2. IsFiniteSet(att) /\ ~ slipped
  BY FS_EmptySet DEF Init
<1>3. SegInv /\ Typed
  BY <1>1, ThreadFacts DEF Init, SegInv, Typed
<1>4. LockInv /\ DaemonInv /\ DevInv /\ SemInv
  BY ThreadFacts DEF Init, LockInv, LockPlaces, DaemonInv, DevInv, SemInv, Empty
<1>5. SameSeg /\ StaleInv /\ LastInv /\ NodeInv /\ OwnInv
  BY DEF Init, SameSeg, StaleInv, LastInv, NodeInv, OwnInv
<1>6. QED
  BY <1>1, <1>2, <1>3, <1>4, <1>5 DEF Inv

\* A semop that has failed is not forgotten.
LEMMA SlipsStay ==
  ASSUME slipped, [Next]_vars
  PROVE  slipped'
<1>1. ASSUME NEW p \in Procs, Goes(p) \/ DeviceStep(Daemon(p)) PROVE slipped'
  BY <1>1
     DEF Goes, kuaf_bw_init_async, LoadLock, shmget, shmat, FirstEmpties, StartDaemon, Undo,
         SetLocal, kuaf_bw_free_async, FreeLock, RemoveSems, shmdt, RemoveSegment, Left,
         DeviceStep, shared_get_or_register_dev_node, Register, Find, Enter, Return,
         EnterSection, LeaveSection, Touch, KernelExit, P, Slip
<1>2. CASE Next
  BY <1>1, <1>2
     DEF Next, Load, Fork, init_local_dev_node, kuaf_bw_update, EndInLog, Cancel, Kill,
         KernelExit
<1>3. QED
  BY <1>2 DEF vars

LEMMA StepInv ==
  ASSUME Inv, TypeOK', ~ slipped', [Next]_vars
  PROVE  Inv'
<1>1. ASSUME NEW t \in Threads, DeviceStep(t) PROVE Inv'
  BY <1>1, RegisterInv, FindInv, EnterInv, ReturnInv, EnterSectionInv, LeaveSectionInv,
     ExitInv, ThreadFacts
     DEF DeviceStep, shared_get_or_register_dev_node, Touch
<1>2. ASSUME NEW p \in Procs, Goes(p) PROVE Inv'
  <2>1. CASE kuaf_bw_init_async(p)
    BY <2>1, LoadLockInv, ShmgetInv, ShmatInv, FirstEmptiesInv, StartDaemonInv, UndoInv
       DEF kuaf_bw_init_async
  <2>2. CASE kuaf_bw_free_async(p)
    BY <2>2, FreeLockInv, RemoveSemsInv, ShmdtInv, RemoveSegmentInv DEF kuaf_bw_free_async
  <2>3. QED
    BY <1>1, <1>2, <2>1, <2>2, SetLocalInv, ExitInv, ThreadFacts DEF Goes, Left
<1>3. ASSUME NEW p \in Procs, NEW c \in Procs, Fork(p, c) PROVE Inv'
  BY <1>3, ForkInv
<1>4. CASE Next
  BY <1>1, <1>2, <1>3, <1>4, LoadInv, InitLocalInv, UpdateInv, EndInLogInv, CancelInv,
     ExitInv, ThreadFacts
     DEF Next, Kill
<1>5. CASE UNCHANGED vars
  <2>1. IsFiniteSet(att)'
    BY <1>5 DEF vars, hostVars, Inv
  <2>2. LockInv' /\ DaemonInv' /\ SegInv' /\ DevInv' /\ SemInv' /\ SameSeg' /\ LastInv'
    BY <1>5
       DEF vars, hostVars, procVars, Inv, LockInv, DaemonInv, SegInv, Attachment, DevInv,
           SemInv, SameSeg, LastInv
  <2>3. StaleInv' /\ NodeInv' /\ OwnInv'
    BY <1>5
       DEF vars, hostVars, procVars, Inv, StaleInv, Stale, Alone, Attachment, NodeInv,
           OwnInv, Node
  <2>4. QED
    BY <2>1, <2>2, <2>3 DEF Inv
<1>6. QED
  BY <1>4, <1>5

\* The types hold always, the invariant until a semop fails.
Unslipped == Typed /\ (~ slipped => Inv)

LEMMA InvHolds == Spec => []Unslipped
<1>1. Init => Unslipped
  BY InitInv DEF Unslipped
<1>2. Unslipped /\ [Next]_vars => Unslipped'
  BY StepTyped, SlipsStay, StepInv DEF Unslipped, Typed
<1>3. QED
  BY <1>1, <1>2, PTL DEF Spec

\* Every variable keeps its type.
THEOREM TypeCorrect == Spec => []TypeOK
<1>1. Unslipped => TypeOK
  BY DEF Unslipped, Typed
<1>2. QED
  BY <1>1, InvHolds, PTL

\* All processes have one segment, until a load that fails removes that of
\* another process, or a semop fails.
THEOREM OneSegmentCorrect == Spec => []OneSegment
<1>1. Unslipped => OneSegment
  BY DEF Unslipped, Inv, SameSeg, OneSegment, Whole
<1>2. QED
  BY <1>1, InvHolds, PTL

\* The semaphores that a running process finds in the table are those that
\* everybody finds, whoever was killed before.
THEOREM TableCurrentCorrect == Spec => []TableCurrent
<1>1. Unslipped => TableCurrent
  <2>1. SUFFICES ASSUME Inv, ~ torn, NEW p \in Procs, NEW d \in Devs, Running(p),
                        mem[p] # None, table[mem[p]][d] # None
                 PROVE  table[mem[p]][d] = sem[d]
    BY DEF Unslipped, TableCurrent, Whole
  <2>2. mem[p] = key /\ key # None
    BY <2>1, UsedSegment
  <2>3. PICK a \in att : a.proc = p
    BY <2>1 DEF Inv, SegInv
  <2>4. \A q \in Procs : ~ Alone(q)
    BY <2>1, <2>3 DEF Alone, Attachment, Running
  <2>5. QED
    BY <2>1, <2>2, <2>3, <2>4 DEF Inv, StaleInv, Stale
<1>2. QED
  BY <1>1, InvHolds, PTL

\* One thread at a time is in the section of a device's node, whichever device
\* it was looked up for, until a load that fails removes the segment of another
\* process, or a semop fails.
THEOREM DevicesExcludeCorrect == Spec => []DevicesExclude
<1>1. Unslipped => DevicesExclude
  <2>1. SUFFICES ASSUME Inv, ~ torn, NEW g \in Segs, NEW d \in Devs
                 PROVE  Cardinality(InSection(g, d)) <= 1
    BY DEF Unslipped, DevicesExclude, Whole
  <2>2. ASSUME NEW t \in InSection(g, d), NEW u \in InSection(g, d) PROVE t = u
    <3>1. /\ t \in Threads /\ pc[t] = "section" /\ mem[Proc(t)] = g /\ dev[t] = d
          /\ u \in Threads /\ pc[u] = "section" /\ mem[Proc(u)] = g /\ dev[u] = d
      BY <2>2 DEF InSection, At
    <3>2. g # None
      BY LifeAssumption
    <3>3. CASE table[g][d] = sem[d]
      BY <2>1, <3>1, <3>2, <3>3 DEF Inv, OwnInv, Node
    <3>4. CASE table[g][d] # sem[d]
      <4>1. g = key /\ table[g][d] # None
        BY <2>1, <3>1, <3>2, ThreadFacts, UsedSegment DEF Inv, NodeInv, Node
      <4>2. /\ \E a \in att : a.proc = Proc(t)
            /\ \E a \in att : a.proc = Proc(u)
        BY <2>1, <3>1, <3>2, ThreadFacts DEF Inv, SegInv
      <4>3. PICK p \in Procs : Alone(p)
        BY <2>1, <3>2, <3>4, <4>1, <4>2 DEF Inv, StaleInv, Stale
      <4>4. Proc(t) = p /\ Proc(u) = p
        BY <4>2, <4>3 DEF Alone, Attachment
      <4>5. QED
        BY <3>1, <4>3, <4>4, ThreadFacts DEF Alone
    <3>5. QED
      BY <3>3, <3>4
  <2>3. CASE InSection(g, d) = {}
    BY <2>3, FS_EmptySet
  <2>4. CASE InSection(g, d) # {}
    <3>1. PICK t : InSection(g, d) = {t}
      BY <2>2, <2>4
    <3>2. Cardinality({t}) = 1
      BY FS_Singleton
    <3>3. QED
      BY <3>1, <3>2
  <2>5. QED
    BY <2>3, <2>4
<1>2. QED
  BY <1>1, InvHolds, PTL
=============================================================================
