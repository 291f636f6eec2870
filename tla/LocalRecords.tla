---------------------------- MODULE LocalRecords ----------------------------
(***************************************************************************)
(* How one process collects the usage of one device (kuaf_bw.c).  Threads  *)
(* add what they send to the device to a list with one ThreadRecord per    *)
(* thread; the daemon detaches the list, adds it up, frees it and uploads  *)
(* the sum.  A spinlock guards the addition and the detaching, but a       *)
(* thread looks for its record without it: the daemon may detach the list  *)
(* while the thread is in it, and add up and free the record it stands on. *)
(*                                                                         *)
(* Every call sends a length of 1.  An action that holds the spinlock is   *)
(* one step: nothing in it waits.                                          *)
(*                                                                         *)
(* overtaken and late are history: no step depends on them.                *)
(***************************************************************************)
EXTENDS Integers, FiniteSets, Functions, FiniteSetsExt

CONSTANTS
  Threads,   \* the process's threads
  Nodes,     \* addresses malloc may return
  MaxSent    \* bound: calls of one thread

Nil == "nil"
Garbage == "garbage"      \* a thread that touched freed memory: anything may follow

ASSUME LocalAssumption ==
  /\ IsFiniteSet(Threads) /\ IsFiniteSet(Nodes)
  /\ MaxSent \in Nat
  /\ Nil \notin Nodes

VARIABLES
  first,     \* tl_record_head->next
  heap,      \* the allocated ThreadRecords
  pc, cur,   \* where each thread is in add_thread_record_node
  sent,      \* the lengths each thread has reported
  dpc, dcur, \* where the daemon is in upload_bandwidth, and its cur
  freed,     \* the detached list that it still has to free
  total,     \* its total_length
  uploaded,  \* the lengths it has put into shared memory
  lost,      \* calls that failed because malloc did
  overtaken, \* history: the threads in a list that was detached under them
  late       \* history: the lengths such threads have added

tvars == <<pc, cur, sent, overtaken, late>>
dvars == <<dpc, dcur, freed, total, uploaded>>
vars == <<first, heap, tvars, dvars, lost>>

Init ==
  /\ first = Nil /\ heap = <<>>
  /\ pc = [t \in Threads |-> "idle"] /\ cur = [t \in Threads |-> Nil]
  /\ sent = [t \in Threads |-> 0]
  /\ dpc = "sleep" /\ dcur = Nil /\ freed = Nil /\ total = 0 /\ uploaded = 0
  /\ lost = 0
  /\ overtaken = {} /\ late = 0

Live == DOMAIN heap

TypeOK ==
  /\ first \in Nodes \cup {Nil}
  /\ Live \subseteq Nodes
  /\ \A n \in Live : heap[n] \in [tid : Threads, length : Nat \ {0},
                                  next : Nodes \cup {Nil}]
  /\ pc \in [Threads -> {"idle", "search", "add", "new", Garbage}]
  /\ cur \in [Threads -> Nodes \cup {Nil}]
  /\ sent \in [Threads -> 0 .. MaxSent]
  /\ dpc \in {"sleep", "sum", "free", "last", "upload"}
  /\ dcur \in Nodes \cup {Nil} /\ freed \in Nodes \cup {Nil}
  /\ total \in Nat /\ uploaded \in Nat /\ lost \in Nat
  /\ overtaken \subseteq Threads /\ late \in Nat

-----------------------------------------------------------------------------
(* add_thread_record_node *)

Go(t, l, n) ==
  /\ pc' = [pc EXCEPT ![t] = l] /\ cur' = [cur EXCEPT ![t] = n]
  /\ overtaken' = IF l \in {"idle", "new"} THEN overtaken \ {t} ELSE overtaken

add_thread_record_node(t) ==
  /\ pc[t] = "idle" /\ sent[t] < MaxSent
  /\ sent' = [sent EXCEPT ![t] = @ + 1]
  /\ Go(t, IF first = Nil THEN "new" ELSE "search", first)
  /\ UNCHANGED <<first, heap, late, dvars, lost>>

\* Mutant: only the first record is compared.
SearchFirst(t) ==
  /\ pc[t] = "search" /\ cur[t] \in Live
  /\ IF heap[cur[t]].tid = t THEN Go(t, "add", cur[t]) ELSE Go(t, "new", Nil)
  /\ UNCHANGED <<first, heap, sent, late, dvars, lost>>

\* One turn of the loop, without the spinlock.
Search(t) ==
  /\ pc[t] = "search"
  /\ IF cur[t] \notin Live THEN Go(t, Garbage, Nil)
     ELSE IF heap[cur[t]].tid = t THEN Go(t, "add", cur[t])
     ELSE LET n == heap[cur[t]].next IN Go(t, IF n = Nil THEN "new" ELSE "search", n)
  /\ UNCHANGED <<first, heap, sent, late, dvars, lost>>

Add(t) ==
  /\ pc[t] = "add"
  /\ IF cur[t] \in Live
     THEN Go(t, "idle", Nil) /\ heap' = [heap EXCEPT ![cur[t]].length = @ + 1]
          /\ late' = IF t \in overtaken THEN late + 1 ELSE late
     ELSE Go(t, Garbage, Nil) /\ UNCHANGED <<heap, late>>
  /\ UNCHANGED <<first, sent, dvars, lost>>

\* Mutant: a new record starts at length 0.
NewEmpty(t) ==
  /\ pc[t] = "new"
  /\ Go(t, "idle", Nil)
  /\ \E n \in Nodes \ Live :
       /\ heap' = [m \in Live \cup {n} |->
                     IF m = n THEN [tid |-> t, length |-> 0, next |-> first]
                     ELSE heap[m]]
       /\ first' = n
  /\ UNCHANGED <<sent, late, dvars, lost>>

\* A thread without a record puts a new one in front, if malloc gives one.
New(t) ==
  /\ pc[t] = "new"
  /\ Go(t, "idle", Nil)
  /\ \/ \E n \in Nodes \ Live :
          /\ heap' = [m \in Live \cup {n} |->
                        IF m = n THEN [tid |-> t, length |-> 1, next |-> first]
                        ELSE heap[m]]
          /\ first' = n
          /\ UNCHANGED lost
     \/ lost' = lost + 1 /\ UNCHANGED <<heap, first>>
  /\ UNCHANGED <<sent, late, dvars>>

-----------------------------------------------------------------------------
(* upload_bandwidth *)

InList(t) == pc[t] \in {"search", "add"}

\* Mutant: the list is not detached.
UploadAttached ==
  /\ dpc = "sleep" /\ first # Nil
  /\ dcur' = first /\ freed' = first /\ total' = 0
  /\ dpc' = "sum"
  /\ overtaken' = overtaken \cup {t \in Threads : InList(t)}
  /\ UNCHANGED <<first, heap, pc, cur, sent, late, uploaded, lost>>

upload_bandwidth ==
  /\ dpc = "sleep" /\ first # Nil
  /\ dcur' = first /\ freed' = first /\ first' = Nil /\ total' = 0
  /\ dpc' = "sum"
  /\ overtaken' = overtaken \cup {t \in Threads : InList(t)}
  /\ UNCHANGED <<heap, pc, cur, sent, late, uploaded, lost>>

\* Behind the last record the daemon goes on to free the first one's successors.
Behind(n) ==
  /\ dcur' = IF n = Nil THEN heap[freed].next ELSE n
  /\ dpc' = IF n = Nil THEN "free" ELSE "sum"

\* Mutant: lengths are subtracted.
SumNegative ==
  /\ dpc = "sum"
  /\ total' = total - heap[dcur].length
  /\ Behind(heap[dcur].next)
  /\ UNCHANGED <<first, heap, tvars, freed, uploaded, lost>>

Sum ==
  /\ dpc = "sum"
  /\ total' = total + heap[dcur].length
  /\ Behind(heap[dcur].next)
  /\ UNCHANGED <<first, heap, tvars, freed, uploaded, lost>>

\* The first record's successors are freed one by one, and its next keeps
\* pointing to the one freed first until all are.
free_thread_record_head ==
  /\ dpc = "free"
  /\ \/ /\ dcur # Nil
        /\ heap' = Restrict(heap, Live \ {dcur})
        /\ dcur' = heap[dcur].next
        /\ UNCHANGED dpc
     \/ /\ dcur = Nil
        /\ heap' = [heap EXCEPT ![freed].next = Nil]
        /\ dpc' = "last"
        /\ UNCHANGED dcur
  /\ UNCHANGED <<first, tvars, freed, total, uploaded, lost>>

\* upload_bandwidth frees the first record last.
FreeFirst ==
  /\ dpc = "last"
  /\ heap' = Restrict(heap, Live \ {freed})
  /\ freed' = Nil
  /\ dpc' = "upload"
  /\ UNCHANGED <<first, tvars, dcur, total, uploaded, lost>>

\* Mutant: the sum is dropped.
UploadDropped ==
  /\ dpc = "upload" /\ total' = 0 /\ dpc' = "sleep"
  /\ UNCHANGED <<first, heap, tvars, dcur, freed, uploaded, lost>>

Upload ==
  /\ dpc = "upload"
  /\ uploaded' = uploaded + total
  /\ total' = 0
  /\ dpc' = "sleep"
  /\ UNCHANGED <<first, heap, tvars, dcur, freed, lost>>

Thread(t) == add_thread_record_node(t) \/ Search(t) \/ Add(t) \/ New(t)
Daemon == upload_bandwidth \/ Sum \/ free_thread_record_head \/ FreeFirst \/ Upload

Next == Daemon \/ \E t \in Threads : Thread(t)

Spec == Init /\ [][Next]_vars

\* Threads run, and so does the daemon.
FairSpec == /\ Spec
            /\ WF_vars(Daemon)
            /\ \A t \in Threads : WF_vars(Search(t) \/ Add(t) \/ New(t))
-----------------------------------------------------------------------------
(* Properties *)

\* The records from node n on, n included.
From(n) ==
  LET reach[i \in 0 .. Cardinality(Nodes)] ==
        IF i = 0 THEN {n} \ {Nil}
        ELSE reach[i - 1] \cup ({heap[m].next : m \in reach[i - 1] \cap Live} \ {Nil})
  IN reach[Cardinality(Nodes)]

Length(S) == SumFunctionOnSet([n \in S |-> heap[n].length], S)
Called == SumFunction(sent)
Calling == Cardinality({t \in Threads : pc[t] # "idle"})

Accounted == Calling + lost + uploaded + total
             + Length(From(first) \cap Live)
             + (IF dpc = "sum" THEN Length(From(dcur) \cap Live) ELSE 0)

\* What the threads reported is in the list, in the daemon's hands, uploaded,
\* or refused by malloc, and nothing is counted twice.  Only a length that its
\* thread added to a record the daemon had already detached may be missing: the
\* daemon may have passed that record (kuaf_bw.c:252-258 against 322-331).
UsageAccounted == Accounted \in (Called - late) .. Called

\* The records that the daemon has still to free.
Detached == IF dpc = "free" THEN {freed} \cup From(dcur) ELSE From(freed)

\* A thread that walks the list stands on one of its records, and the records
\* the daemon detached are its own: of all threads only those it overtook can
\* reach what it frees, and only they can touch freed memory.
ReachableLive ==
  /\ \A t \in Threads \ overtaken :
       pc[t] # Garbage /\ (InList(t) => cur[t] \in From(first))
  /\ From(first) \cup Detached = Live
  /\ From(first) \cap Detached = {}

\* A thread has one record in the list, so that its search finds what it
\* reported before.
OneRecord ==
  \A m, n \in From(first) : heap[m].tid = heap[n].tid => m = n

\* Everything reported is uploaded in the end, if threads stop calling: all but
\* what malloc refused, what was added to a record too late, and the calls of
\* threads that touched freed memory.
AllUploaded ==
  <>[](uploaded + lost + late + Cardinality({t \in Threads : pc[t] = Garbage}) >= Called)
=============================================================================
