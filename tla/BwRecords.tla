----------------------------- MODULE BwRecords ------------------------------
(***************************************************************************)
(* The "bandwidth" strategy's samples of one device (kuaf_bw.c): a SharedDev *)
(* in shared memory, a fixed array of records that is both a doubly linked *)
(* list of samples and a list of free slots.  Slot 0 means "none".         *)
(*                                                                         *)
(* Every process has a daemon thread that repeats kuaf_bw_update: remove   *)
(* old records, add up the others, upload what the process sent meanwhile. *)
(* The device's semaphore guards the array, but a cleanup reads the list's *)
(* head and the time before it takes the semaphore.                        *)
(*                                                                         *)
(* A semop that fails is only logged, and the section is entered without   *)
(* the semaphore, which its V then raises (slips).  The properties are of  *)
(* the time before that.                                                   *)
(*                                                                         *)
(* A sample's length is 1.  All processes attach after the device has been *)
(* registered.                                                             *)
(***************************************************************************)
EXTENDS Integers, Sequences, FiniteSets

CONSTANTS
  Procs,        \* processes that use the device
  MAX_RECORDS,  \* slots of the array, with slot 0
  Interval,     \* bw_expired_interval_ms, in ticks
  MaxTime,      \* bound: the clock stops here
  MaxSlips,     \* bound: how often a semop fails
  Overlap       \* may a process take the semaphore while another is between
                \* reading the head and taking it?

Unset == -1           \* the process has no LocalDev for the device yet
Slots == 0 .. MAX_RECORDS - 1
Ancient == -Interval - 1   \* the zeroed time stamp of a slot never used

ASSUME BwAssumption ==
  /\ MAX_RECORDS \in Nat /\ MAX_RECORDS >= 3
  /\ Interval \in Nat \ {0} /\ MaxTime \in Nat /\ MaxSlips \in Nat
  /\ Overlap \in BOOLEAN

VARIABLES
  clock,
  dev,     \* the SharedDev
  sem,     \* the value of the device's semaphore
  slips,   \* how often a section was entered without it
  pc,      \* where the process's daemon thread is
  cur,     \* its local variable cur in cleanup_shared_old_records
  now,     \* its local variable now in the cleanup, or in the upload
  usage    \* LocalDev.bandwidth of the process

vars == <<clock, dev, sem, slips, pc, cur, now, usage>>

\* Mutant: the last slot's successor is not 0.
InitRecordsLong(d) ==
  [free_head |-> 1, head |-> 0, tail |-> 0, record_count |-> 0,
   records |-> [i \in Slots |->
     IF i = 0 THEN d.records[0]
     ELSE [prev |-> 0, next |-> i + 1, timestamp |-> d.records[i].timestamp]]]

\* shared_init_dev_records leaves the time stamps alone.
shared_init_dev_records(d) ==
  [free_head |-> 1, head |-> 0, tail |-> 0, record_count |-> 0,
   records |-> [i \in Slots |->
     IF i = 0 THEN d.records[0]
     ELSE [prev |-> 0, next |-> (i + 1) % MAX_RECORDS,
           timestamp |-> d.records[i].timestamp]]]

Zeroed == [records |->
            [i \in Slots |-> [prev |-> 0, next |-> 0, timestamp |-> Ancient]]]

Init ==
  /\ clock = 0
  /\ dev = shared_init_dev_records(Zeroed)
  /\ sem = 1 /\ slips = 0
  /\ pc = [p \in Procs |-> "sleep"]
  /\ cur = [p \in Procs |-> 0]
  /\ now = [p \in Procs |-> 0]
  /\ usage = [p \in Procs |-> Unset]

TypeOK ==
  /\ clock \in 0 .. MaxTime
  /\ dev \in [free_head : Slots, head : Slots, tail : Slots, record_count : Int,
              records : [Slots -> [prev : Slots, next : Slots, timestamp : Int]]]
  /\ sem \in Nat /\ slips \in 0 .. MaxSlips
  /\ pc \in [Procs -> {"sleep", "cleanup", "walk", "calculate", "upload",
                       "insert"}]
  /\ cur \in [Procs -> Slots]
  /\ now \in [Procs -> 0 .. MaxTime]
  /\ usage \in [Procs -> Nat \cup {Unset}]

-----------------------------------------------------------------------------
(* The array *)

\* Mutant: the new first record still has a predecessor.
UnlinkKeepsPrev(d, i) ==
  IF i = d.head THEN [d EXCEPT !.head = d.records[i].next]
  ELSE IF i = d.tail
       THEN [d EXCEPT !.tail = d.records[i].prev,
                      !.records[d.records[i].prev].next = 0]
       ELSE [d EXCEPT !.records[d.records[i].prev].next = d.records[i].next,
                      !.records[d.records[i].next].prev = d.records[i].prev]

\* The list without record i, not the last one.  The slot is not yet free.
Unlink(d, i) ==
  LET prev == d.records[i].prev
      next == d.records[i].next
  IN CASE i = d.head ->
            [d EXCEPT !.head = next,
                      !.tail = IF next = 0 THEN 0 ELSE @,
                      !.records[next].prev = IF next = 0 THEN @ ELSE 0]
       [] i # d.head /\ i = d.tail ->
            [d EXCEPT !.tail = prev,
                      !.head = IF prev = 0 THEN 0 ELSE @,
                      !.records[prev].next = IF prev = 0 THEN @ ELSE 0]
       [] OTHER ->
            [d EXCEPT !.records[prev].next = next,
                      !.records[next].prev = prev]

\* The slot goes to the front of the free list.  A list of one record keeps it.
shared_delete_dev_records_by_idx(d, i) ==
  IF i = 0 \/ d.head = d.tail THEN d
  ELSE [Unlink(d, i) EXCEPT !.record_count = @ - 1,
                            !.records[i].next = d.free_head,
                            !.free_head = i]

\* A full list gives up its first record.
shared_insert_dev_record(dd, t) ==
  LET d == IF dd.free_head = 0
           THEN shared_delete_dev_records_by_idx(dd, dd.head) ELSE dd
      n == d.free_head
      e == [d EXCEPT !.free_head = d.records[n].next,
                     !.records[n].timestamp = t,
                     !.records[n].prev = d.tail,
                     !.record_count = @ + 1,
                     !.tail = n]
  IN IF d.head = 0
     THEN [e EXCEPT !.head = n, !.records[n].prev = 0, !.records[n].next = 0]
     ELSE [e EXCEPT !.records[d.tail].next = n, !.records[n].next = 0]

\* The list a walk from slot s along next finds; it is cut off after more
\* steps than there are slots.
Next1(d, i) == IF i = 0 THEN 0 ELSE d.records[i].next
Path(d, s) ==
  LET path[n \in 1 .. MAX_RECORDS] == IF n = 1 THEN s ELSE Next1(d, path[n - 1])
  IN path
Walk(d, s) ==
  LET path == Path(d, s)
  IN [n \in {m \in 1 .. MAX_RECORDS : path[m] # 0} |-> path[n]]
Ends(d, s) == Len(Walk(d, s)) < MAX_RECORDS

-----------------------------------------------------------------------------
(* kuaf_bw_update *)

Goto(p, l) == pc' = [pc EXCEPT ![p] = l]

\* The locals of a function that returns.
EndOfScope(p) == cur' = [cur EXCEPT ![p] = 0] /\ now' = [now EXCEPT ![p] = 0]

Undisturbed(p) == Overlap \/ \A q \in Procs \ {p} : pc[q] # "cleanup"

\* The section is entered once the semaphore is up, or after a semop that
\* failed (a signal, no memory for the undo entry).
semaphore_P(p) ==
  /\ Undisturbed(p)
  /\ \/ sem > 0 /\ UNCHANGED slips
     \/ slips < MaxSlips /\ slips' = slips + 1

\* The semaphore in a section, and after one that is a step of its own.
Inside == sem + slips' - slips - 1
Passed == sem + slips' - slips
semaphore_V == sem' = sem + 1

\* cleanup_shared_old_records up to semaphore_P
cleanup_shared_old_records(p) ==
  /\ pc[p] = "sleep"
  /\ Overlap \/ (sem > 0 /\ Undisturbed(p))
  /\ now' = [now EXCEPT ![p] = clock]
  /\ cur' = [cur EXCEPT ![p] = dev.head]
  /\ Goto(p, "cleanup")
  /\ UNCHANGED <<clock, dev, sem, slips, usage>>

\* Mutant: an empty list is left without semaphore_V.
EnterNoV(p) ==
  /\ pc[p] = "cleanup"
  /\ semaphore_P(p)
  /\ sem' = Inside
  /\ IF cur[p] = 0 THEN Goto(p, "calculate") /\ EndOfScope(p)
                   ELSE Goto(p, "walk") /\ UNCHANGED <<cur, now>>
  /\ UNCHANGED <<clock, dev, usage>>

EnterCleanup(p) ==
  /\ pc[p] = "cleanup"
  /\ semaphore_P(p)
  /\ IF cur[p] = 0
     THEN Goto(p, "calculate") /\ EndOfScope(p) /\ sem' = Passed
     ELSE Goto(p, "walk") /\ sem' = Inside /\ UNCHANGED <<cur, now>>
  /\ UNCHANGED <<clock, dev, usage>>

\* Mutant: the successor is read after the record was deleted.
WalkStepLate(p) ==
  LET i == cur[p]
      old == now[p] - dev.records[i].timestamp >= Interval
      d == IF old THEN shared_delete_dev_records_by_idx(dev, i) ELSE dev
      next_node == d.records[i].next
  IN /\ pc[p] = "walk"
     /\ dev' = d
     /\ IF next_node = 0
        THEN Goto(p, "calculate") /\ semaphore_V /\ EndOfScope(p)
        ELSE cur' = [cur EXCEPT ![p] = next_node] /\ UNCHANGED <<pc, sem, now>>
     /\ UNCHANGED <<clock, slips, usage>>

\* One turn of the loop: the record goes if it has expired.  A record that
\* is its own successor, or a count of 0, resets the whole array.
WalkStep(p) ==
  LET i == cur[p]
      next_node == dev.records[i].next
      old == now[p] - dev.records[i].timestamp >= Interval
      d == IF old THEN shared_delete_dev_records_by_idx(dev, i) ELSE dev
      reset == i = next_node \/ d.record_count = 0
  IN /\ pc[p] = "walk"
     /\ dev' = IF reset THEN shared_init_dev_records(d) ELSE d
     /\ IF reset \/ next_node = 0
        THEN Goto(p, "calculate") /\ semaphore_V /\ EndOfScope(p)
        ELSE cur' = [cur EXCEPT ![p] = next_node] /\ UNCHANGED <<pc, sem, now>>
     /\ UNCHANGED <<clock, slips, usage>>

\* Mutant: every sample is added up.
TotalOfAll == Len(Walk(dev, dev.head))

\* The samples of the list that have not expired.
Total ==
  LET list == Walk(dev, dev.head)
  IN Cardinality({n \in DOMAIN list :
                    clock - dev.records[list[n]].timestamp <= Interval})

\* The sum is kept if the process has a LocalDev for the device.
calculate_bandwidth(p) ==
  /\ pc[p] = "calculate"
  /\ semaphore_P(p)
  /\ usage' = [usage EXCEPT ![p] = IF @ = Unset THEN @ ELSE Total]
  /\ Goto(p, "upload") /\ sem' = Passed
  /\ UNCHANGED <<clock, dev, cur, now>>

\* upload_bandwidth up to semaphore_P, if the process sent anything.
upload_bandwidth(p) ==
  /\ pc[p] = "upload"
  /\ \/ Goto(p, "sleep") /\ UNCHANGED now
     \/ /\ usage[p] # Unset
        /\ now' = [now EXCEPT ![p] = clock]
        /\ Goto(p, "insert")
  /\ UNCHANGED <<clock, dev, sem, slips, cur, usage>>

Insert(p) ==
  /\ pc[p] = "insert"
  /\ semaphore_P(p)
  /\ dev' = shared_insert_dev_record(dev, now[p])
  /\ Goto(p, "sleep") /\ EndOfScope(p) /\ sem' = Passed
  /\ UNCHANGED <<clock, usage>>

-----------------------------------------------------------------------------
(* The application's threads *)

\* The first question for the usage creates the LocalDev and adds up.
kuaf_bw_get(p) ==
  /\ usage[p] = Unset
  /\ semaphore_P(p)
  /\ usage' = [usage EXCEPT ![p] = Total] /\ sem' = Passed
  /\ UNCHANGED <<clock, dev, pc, cur, now>>

\* The first report of usage creates it without adding up.
kuaf_bw_record(p) ==
  /\ usage[p] = Unset
  /\ usage' = [usage EXCEPT ![p] = 0]
  /\ UNCHANGED <<clock, dev, sem, slips, pc, cur, now>>

Tick ==
  /\ clock < MaxTime
  /\ clock' = clock + 1
  /\ UNCHANGED <<dev, sem, slips, pc, cur, now, usage>>

Daemon(p) ==
  \/ cleanup_shared_old_records(p) \/ EnterCleanup(p) \/ WalkStep(p)
  \/ calculate_bandwidth(p) \/ upload_bandwidth(p) \/ Insert(p)

Next ==
  \/ Tick
  \/ \E p \in Procs : Daemon(p) \/ kuaf_bw_get(p) \/ kuaf_bw_record(p)

Spec == Init /\ [][Next]_vars

\* The daemon thread is scheduled, and the kernel serves the waiters of a
\* semaphore in turn.  No semop has to fail.
FairSpec == Spec /\ \A p \in Procs : SF_vars(Daemon(p) /\ UNCHANGED slips)
-----------------------------------------------------------------------------
(* Properties *)

Used == Walk(dev, dev.head)
Free == Walk(dev, dev.free_head)

\* The array is one list of samples and one list of free slots: every slot
\* is in exactly one of them, prev is the reverse of next, tail is the last
\* slot and record_count the length (shared_delete_dev_records_by_idx and
\* shared_insert_dev_record keep each other's structure).
Structured ==
  /\ Ends(dev, dev.head) /\ Ends(dev, dev.free_head)
  /\ {Used[n] : n \in DOMAIN Used} \cup {Free[n] : n \in DOMAIN Free} = Slots \ {0}
  /\ Len(Used) + Len(Free) = MAX_RECORDS - 1
  /\ dev.record_count = Len(Used)
  /\ dev.tail = IF Used = <<>> THEN 0 ELSE Used[Len(Used)]
  /\ \A n \in DOMAIN Used :
       dev.records[Used[n]].prev = IF n = 1 THEN 0 ELSE Used[n - 1]
WellFormed == slips = 0 => Structured

\* What the walk has passed has been dealt with: while a cleanup holds the
\* semaphore it is on the list, and only the list's last record may be an
\* expired one it has left behind.
Passing ==
  \A p \in Procs : pc[p] = "walk" =>
    \E n \in DOMAIN Used :
      /\ Used[n] = cur[p]
      /\ \A m \in 1 .. n - 1 :
           now[p] - dev.records[Used[m]].timestamp < Interval
WalkOnList == slips = 0 => Passing

\* A sample uploaded counts until it expires, unless the array is full
\* (README_EN.md: the library collects the hardware bandwidth usage).
UsageCollected ==
  [][\A n \in DOMAIN Used :
       LET t == dev.records[Used[n]].timestamp IN
       clock - t < Interval =>
         \/ \E m \in DOMAIN Used' : dev'.records[Used'[m]].timestamp = t
         \/ n = 1 /\ Len(Used) = MAX_RECORDS - 1
         \/ slips' > 0]_vars

\* Every daemon's update ends: nobody waits for the device's semaphore for
\* ever, and no walk goes round in the list (cleanup_shared_old_records and
\* calculate_bandwidth against concurrent inserts).
UpdateEnds ==
  \A p \in Procs : pc[p] # "sleep" ~> pc[p] = "sleep" \/ slips > 0

\* The array implements a window of samples (module BwWindow), as long as no
\* semop has failed.
Window == INSTANCE BwWindow WITH
            Capacity <- MAX_RECORDS - 1,
            window <- [n \in DOMAIN Used |-> dev.records[Used[n]].timestamp]
WindowSpec == Window!Init /\ [][Window!Next \/ slips' > 0]_(Window!vars)
=============================================================================
