------------------------------ MODULE BwProofs ------------------------------
(***************************************************************************)
(* Theorems about BwRecords for every number of processes, of slots, every *)
(* interval and length of time.  The types hold whatever the daemons do.   *)
(* The structure of the array, the walk, what becomes of a sample and the  *)
(* refinement of BwWindow are proved for ~Overlap: with Overlap they fail. *)
(* They hold until a semop fails (slips), and so does the invariant IInv.  *)
(*                                                                         *)
(* The array is represented by two sequences of slots, the samples and the *)
(* free slots (Listed); delete and insert are shown to cut, push and       *)
(* append, and a walk along next to find exactly the sequence (WalkIs, by  *)
(* induction on its steps: a least step at which they differ is refuted).  *)
(***************************************************************************)
EXTENDS BwRecords, FiniteSetTheorems, SequenceTheorems, TLAPS

-----------------------------------------------------------------------------
(* Walking *)

\* Every nonempty set of naturals has a least element.
LEMMA Least ==
  ASSUME NEW T \in SUBSET Nat, T # {}
  PROVE  \E m \in T : \A k \in T : m <= k
<1>1. PICK n \in T : TRUE
  OBVIOUS
<1> DEFINE R == StrictSubsetOrdering(0 .. n)
           F == {U \in SUBSET (0 .. n) : \E m \in T : U = 0 .. m}
<1>2. IsWellFoundedOn(R, FiniteSubsetsOf(0 .. n))
  BY FS_StrictSubsetOrderingWellFounded
<1>3. F \subseteq FiniteSubsetsOf(0 .. n) /\ F # {}
  <2>1. IsFiniteSet(0 .. n)
    BY FS_Interval
  <2>2. \A U \in SUBSET (0 .. n) : IsFiniteSet(U)
    BY <2>1, FS_Subset
  <2>3. 0 .. n \in F
    OBVIOUS
  <2> QED BY <2>2, <2>3 DEF FiniteSubsetsOf
<1>4. PICK U \in F : \A V \in F : ~ (<<V, U>> \in R)
  <2> HIDE DEF R, F
  <2> QED BY <1>2, <1>3, WFMin
<1>5. PICK m \in T : U = 0 .. m /\ U \subseteq 0 .. n
  OBVIOUS
<1>6. ASSUME NEW k \in T, k < m PROVE FALSE
  <2>1. 0 .. k \in F /\ 0 .. k \subseteq U /\ 0 .. k # U
    BY <1>5, <1>6
  <2> QED BY <1>4, <2>1 DEF StrictSubsetOrdering
<1> QED BY <1>5, <1>6

\* l is the list that starts at slot s of d.
Chain(d, l, s) ==
  /\ s = IF l = <<>> THEN 0 ELSE l[1]
  /\ \A n \in 1 .. Len(l) :
       d.records[l[n]].next = IF n = Len(l) THEN 0 ELSE l[n + 1]

\* The walk from s finds the list that starts there.
LEMMA WalkIs ==
  ASSUME NEW d, NEW s, NEW l \in Seq(Slots \ {0}), Len(l) < MAX_RECORDS, Chain(d, l, s)
  PROVE  Walk(d, s) = l
<1> DEFINE D == 1 .. MAX_RECORDS
           P(g) == g = [n \in D |-> IF n = 1 THEN s ELSE Next1(d, g[n - 1])]
           f == [n \in D |-> IF n <= Len(l) THEN l[n] ELSE 0]
           path == Path(d, s)
<1>0. MAX_RECORDS \in Nat
  BY BwAssumption
<1>1. P(f)
  <2> SUFFICES ASSUME NEW n \in D
               PROVE  f[n] = IF n = 1 THEN s ELSE Next1(d, f[n - 1])
    BY Zenon
  <2>1. CASE n = 1
    BY <2>1, <1>0 DEF Chain
  <2>2. CASE n # 1
    <3>1. n - 1 \in D
      BY <2>2, <1>0
    <3>2. f[n - 1] = IF n - 1 <= Len(l) THEN l[n - 1] ELSE 0
      BY <3>1
    <3>3. f[n] = IF n <= Len(l) THEN l[n] ELSE 0
      OBVIOUS
    <3>4. n - 1 <= Len(l) => n - 1 \in 1 .. Len(l) /\ l[n - 1] # 0
      BY <2>2, <1>0
    <3>5. \A k \in 1 .. Len(l) :
            d.records[l[k]].next = IF k = Len(l) THEN 0 ELSE l[k + 1]
      BY DEF Chain
    <3> HIDE DEF f, P
    <3>6. n - 1 <= Len(l) => d.records[l[n - 1]].next = f[n]
      BY <3>3, <3>4, <3>5, <2>2, <1>0
    <3> QED BY <2>2, <3>2, <3>3, <3>4, <3>6 DEF Next1
  <2> QED BY <2>1, <2>2
<1>2. P(path)
  <2>1. path = CHOOSE g : P(g)
    BY DEF Path
  <2> HIDE DEF P, f, path
  <2> QED BY <1>1, <2>1
<1>3. \A n \in D : path[n] = f[n]
  <2> DEFINE T == {n \in D : path[n] # f[n]}
  <2> SUFFICES ASSUME T # {} PROVE FALSE
    OBVIOUS
  <2>1. T \in SUBSET Nat
    BY <1>0
  <2>2. PICK n \in T : \A k \in T : n <= k
    <3> HIDE DEF T
    <3> QED BY <2>1, Least
  <2>a. \A g, k : P(g) /\ k \in D => g[k] = IF k = 1 THEN s ELSE Next1(d, g[k - 1])
    <3> SUFFICES ASSUME NEW g, NEW k \in D, P(g)
                 PROVE  g[k] = IF k = 1 THEN s ELSE Next1(d, g[k - 1])
      OBVIOUS
    <3> DEFINE h == [m \in D |-> IF m = 1 THEN s ELSE Next1(d, g[m - 1])]
    <3>1. h[k] = IF k = 1 THEN s ELSE Next1(d, g[k - 1])
      OBVIOUS
    <3>2. g = h
      OBVIOUS
    <3> QED BY <3>1, <3>2, Zenon
  <2>3. /\ path[n] = IF n = 1 THEN s ELSE Next1(d, path[n - 1])
        /\ f[n] = IF n = 1 THEN s ELSE Next1(d, f[n - 1])
    <3>1. n \in D
      OBVIOUS
    <3> HIDE DEF P, f, path, T
    <3> QED BY <1>1, <1>2, <2>a, <3>1
  <2>4. n # 1 => n - 1 \in D /\ n - 1 \notin T
    BY <2>2, <1>0
  <2>5. n # 1 => path[n - 1] = f[n - 1]
    BY <2>4
  <2>6. n \in D /\ path[n] # f[n]
    OBVIOUS
  <2> HIDE DEF P, f, path, T
  <2> QED BY <2>3, <2>5, <2>6
<1>4. {m \in D : path[m] # 0} = 1 .. Len(l)
  BY <1>0, <1>3 DEF Slots
<1>5. Walk(d, s) = [n \in 1 .. Len(l) |-> path[n]]
  <2>1. Walk(d, s) = [n \in {m \in D : path[m] # 0} |-> path[n]]
    BY DEF Walk
  <2> HIDE DEF path
  <2> QED BY <1>4, <2>1
<1>6. \A n \in 1 .. Len(l) : path[n] = l[n]
  BY <1>0, <1>3
<1> HIDE DEF path
<1> QED BY <1>5, <1>6

-----------------------------------------------------------------------------
(* What the assignments to the array do *)

Record == [prev : Slots, next : Slots, timestamp : Int]
SharedDev == [free_head : Slots, head : Slots, tail : Slots, record_count : Int,
              records : [Slots -> Record]]

\* Slot 0 exists, and a successor is a slot.
LEMMA SlotFacts == 0 \in Slots /\ 1 \in Slots /\ \A i \in Slots : (i + 1) % MAX_RECORDS \in Slots
  BY BwAssumption DEF Slots

\* An assignment to one field of one record leaves everything else alone.
SameEnds(e, d) ==
  /\ e.head = d.head /\ e.tail = d.tail /\ e.free_head = d.free_head
  /\ e.record_count = d.record_count
Only(e, d, i) ==
  /\ e \in SharedDev /\ SameEnds(e, d)
  /\ \A s \in Slots \ {i} : e.records[s] = d.records[s]

\* A record is replaced.
LEMMA RecordSet ==
  ASSUME NEW d \in SharedDev, NEW i \in Slots, NEW r \in Record
  PROVE  LET e == [d EXCEPT !.records[i] = r] IN Only(e, d, i) /\ e.records[i] = r
<1> DEFINE R == [d.records EXCEPT ![i] = r]
           e == [d EXCEPT !.records[i] = r]
<1>1. R \in [Slots -> Record] /\ R[i] = r /\ \A s \in Slots \ {i} : R[s] = d.records[s]
  BY DEF SharedDev
<1>2. e = [d EXCEPT !.records = R]
  BY Zenon
<1> HIDE DEF R
<1>3. e \in SharedDev /\ SameEnds(e, d) /\ e.records = R
  BY <1>1, <1>2 DEF SharedDev, SameEnds
<1> HIDE DEF e
<1>4. Only(e, d, i) /\ e.records[i] = r
  BY <1>1, <1>3 DEF Only
<1> QED BY <1>4 DEF e

\* A predecessor is assigned.
LEMMA PrevSet ==
  ASSUME NEW d \in SharedDev, NEW i \in Slots, NEW x \in Slots
  PROVE  LET e == [d EXCEPT !.records[i].prev = x]
         IN /\ Only(e, d, i) /\ e.records[i].prev = x
            /\ e.records[i].next = d.records[i].next
            /\ e.records[i].timestamp = d.records[i].timestamp
<1> DEFINE r == d.records[i]
           q == [r EXCEPT !.prev = x]
           e == [d EXCEPT !.records[i].prev = x]
<1>1. r \in Record
  BY DEF SharedDev
<1>2. e = [d EXCEPT !.records[i] = q]
  BY Zenon
<1> HIDE DEF r, e
<1>3. q \in Record /\ q.prev = x /\ q.next = r.next /\ q.timestamp = r.timestamp
  BY <1>1 DEF Record
<1> HIDE DEF q
<1>4. Only(e, d, i) /\ e.records[i] = q
  BY <1>2, <1>3, RecordSet
<1> QED BY <1>3, <1>4 DEF e, r

\* A successor is assigned.
LEMMA NextSet ==
  ASSUME NEW d \in SharedDev, NEW i \in Slots, NEW x \in Slots
  PROVE  LET e == [d EXCEPT !.records[i].next = x]
         IN /\ Only(e, d, i) /\ e.records[i].next = x
            /\ e.records[i].prev = d.records[i].prev
            /\ e.records[i].timestamp = d.records[i].timestamp
<1> DEFINE r == d.records[i]
           q == [r EXCEPT !.next = x]
           e == [d EXCEPT !.records[i].next = x]
<1>1. r \in Record
  BY DEF SharedDev
<1>2. e = [d EXCEPT !.records[i] = q]
  BY Zenon
<1> HIDE DEF r, e
<1>3. q \in Record /\ q.next = x /\ q.prev = r.prev /\ q.timestamp = r.timestamp
  BY <1>1 DEF Record
<1> HIDE DEF q
<1>4. Only(e, d, i) /\ e.records[i] = q
  BY <1>2, <1>3, RecordSet
<1> QED BY <1>3, <1>4 DEF e, r

\* A time stamp is assigned.
LEMMA TimeSet ==
  ASSUME NEW d \in SharedDev, NEW i \in Slots, NEW x \in Int
  PROVE  LET e == [d EXCEPT !.records[i].timestamp = x]
         IN /\ Only(e, d, i) /\ e.records[i].timestamp = x
            /\ e.records[i].prev = d.records[i].prev
            /\ e.records[i].next = d.records[i].next
<1> DEFINE r == d.records[i]
           q == [r EXCEPT !.timestamp = x]
           e == [d EXCEPT !.records[i].timestamp = x]
<1>1. r \in Record
  BY DEF SharedDev
<1>2. e = [d EXCEPT !.records[i] = q]
  BY Zenon
<1> HIDE DEF r, e
<1>3. q \in Record /\ q.timestamp = x /\ q.prev = r.prev /\ q.next = r.next
  BY <1>1 DEF Record
<1> HIDE DEF q
<1>4. Only(e, d, i) /\ e.records[i] = q
  BY <1>2, <1>3, RecordSet
<1> QED BY <1>3, <1>4 DEF e, r

\* What unlinking does, whatever the array looks like.
LEMMA Unlinked ==
  ASSUME NEW d \in SharedDev, NEW i \in Slots
  PROVE  LET p == d.records[i].prev
             n == d.records[i].next
             e == Unlink(d, i)
         IN /\ e \in SharedDev
            /\ e.free_head = d.free_head /\ e.record_count = d.record_count
            /\ \A s \in Slots : e.records[s].timestamp = d.records[s].timestamp
            /\ i # 0 /\ (i = d.head <=> p = 0) /\ (i = d.tail <=> n = 0) /\ d.head # d.tail
               => /\ e.head = IF p = 0 THEN n ELSE d.head
                  /\ e.tail = IF n = 0 THEN p ELSE d.tail
                  /\ \A s \in Slots \ {0} :
                       /\ e.records[s].next = IF s = p THEN n ELSE d.records[s].next
                       /\ e.records[s].prev = IF s = n THEN p ELSE d.records[s].prev
<1> DEFINE p == d.records[i].prev
           n == d.records[i].next
           e == Unlink(d, i)
<1>0. p \in Slots /\ n \in Slots /\ 0 \in Slots
  BY SlotFacts DEF SharedDev, Record
<1> HIDE DEF p, n
<1>1. CASE i = d.head
  <2> DEFINE x == IF n = 0 THEN d.records[n].prev ELSE 0
             e1 == [d EXCEPT !.head = n]
             e2 == [e1 EXCEPT !.tail = IF n = 0 THEN 0 ELSE @]
             e3 == [e2 EXCEPT !.records[n].prev = x]
  <2>1. e = e3
    BY <1>1 DEF Unlink, p, n
  <2>2. x \in Slots
    BY <1>0 DEF SharedDev, Record
  <2>3. e2 \in SharedDev /\ e2.head = n /\ e2.tail = (IF n = 0 THEN 0 ELSE d.tail)
        /\ e2.free_head = d.free_head /\ e2.record_count = d.record_count
        /\ e2.records = d.records
    BY <1>0 DEF SharedDev
  <2> HIDE DEF e2
  <2>4. Only(e3, e2, n) /\ e3.records[n].prev = x /\ e3.records[n].next = e2.records[n].next
        /\ e3.records[n].timestamp = e2.records[n].timestamp
    <3> HIDE DEF x
    <3> QED BY <1>0, <2>2, <2>3, PrevSet
  <2> HIDE DEF e3, e
  <2> QED BY <1>0, <1>1, <2>1, <2>3, <2>4 DEF Only, SameEnds, e, p, n
<1>2. CASE i # d.head /\ i = d.tail
  <2> DEFINE x == IF p = 0 THEN d.records[p].next ELSE 0
             e1 == [d EXCEPT !.tail = p]
             e2 == [e1 EXCEPT !.head = IF p = 0 THEN 0 ELSE @]
             e3 == [e2 EXCEPT !.records[p].next = x]
  <2>1. e = e3
    BY <1>2 DEF Unlink, p, n
  <2>2. x \in Slots
    BY <1>0 DEF SharedDev, Record
  <2>3. e2 \in SharedDev /\ e2.tail = p /\ e2.head = (IF p = 0 THEN 0 ELSE d.head)
        /\ e2.free_head = d.free_head /\ e2.record_count = d.record_count
        /\ e2.records = d.records
    BY <1>0 DEF SharedDev
  <2> HIDE DEF e2
  <2>4. Only(e3, e2, p) /\ e3.records[p].next = x /\ e3.records[p].prev = e2.records[p].prev
        /\ e3.records[p].timestamp = e2.records[p].timestamp
    <3> HIDE DEF x
    <3> QED BY <1>0, <2>2, <2>3, NextSet
  <2> HIDE DEF e3, e
  <2> QED BY <1>0, <1>2, <2>1, <2>3, <2>4 DEF Only, SameEnds, e, p, n
<1>3. CASE i # d.head /\ i # d.tail
  <2> DEFINE e1 == [d EXCEPT !.records[p].next = n]
             e2 == [e1 EXCEPT !.records[n].prev = p]
  <2>1. e = e2
    BY <1>3 DEF Unlink, p, n
  <2>2. Only(e1, d, p) /\ e1.records[p].next = n /\ e1.records[p].prev = d.records[p].prev
        /\ e1.records[p].timestamp = d.records[p].timestamp
    BY <1>0, NextSet
  <2>3. e1 \in SharedDev
    BY <2>2 DEF Only
  <2> HIDE DEF e1
  <2>4. Only(e2, e1, n) /\ e2.records[n].prev = p /\ e2.records[n].next = e1.records[n].next
        /\ e2.records[n].timestamp = e1.records[n].timestamp
    BY <1>0, <2>3, PrevSet
  <2> HIDE DEF e2
  <2>5. e2 \in SharedDev /\ SameEnds(e2, d)
    BY <2>2, <2>4 DEF Only, SameEnds
  <2>6. \A s \in Slots : /\ e2.records[s].next = IF s = p THEN n ELSE d.records[s].next
                         /\ e2.records[s].prev = IF s = n THEN p ELSE d.records[s].prev
                         /\ e2.records[s].timestamp = d.records[s].timestamp
    <3> SUFFICES ASSUME NEW s \in Slots
                 PROVE  /\ e2.records[s].next = IF s = p THEN n ELSE d.records[s].next
                        /\ e2.records[s].prev = IF s = n THEN p ELSE d.records[s].prev
                        /\ e2.records[s].timestamp = d.records[s].timestamp
      OBVIOUS
    <3>1. /\ e1.records[s].next = IF s = p THEN n ELSE d.records[s].next
          /\ e1.records[s].prev = d.records[s].prev
          /\ e1.records[s].timestamp = d.records[s].timestamp
      BY <2>2 DEF Only
    <3>2. /\ e2.records[s].next = e1.records[s].next
          /\ e2.records[s].prev = IF s = n THEN p ELSE e1.records[s].prev
          /\ e2.records[s].timestamp = e1.records[s].timestamp
      BY <2>4 DEF Only
    <3> QED BY <3>1, <3>2
  <2> HIDE DEF e
  <2> QED BY <1>3, <2>1, <2>5, <2>6 DEF SameEnds, e, p, n
<1> QED BY <1>1, <1>2, <1>3

\* What deleting does: if i is a record of a list of several, its
\* neighbours are linked and its slot is the first free one.
LEMMA Deleted ==
  ASSUME NEW d \in SharedDev, NEW i \in Slots
  PROVE  LET p == d.records[i].prev
             n == d.records[i].next
             e == shared_delete_dev_records_by_idx(d, i)
         IN /\ e \in SharedDev
            /\ \A s \in Slots : e.records[s].timestamp = d.records[s].timestamp
            /\ i # 0 /\ (i = d.head <=> p = 0) /\ (i = d.tail <=> n = 0) /\ d.head # d.tail
               => /\ e.free_head = i /\ e.record_count = d.record_count - 1
                  /\ e.head = IF p = 0 THEN n ELSE d.head
                  /\ e.tail = IF n = 0 THEN p ELSE d.tail
                  /\ \A s \in Slots \ {0} :
                       /\ e.records[s].next = IF s = i THEN d.free_head
                                              ELSE IF s = p THEN n ELSE d.records[s].next
                       /\ e.records[s].prev = IF s = n THEN p ELSE d.records[s].prev
<1> DEFINE p == d.records[i].prev
           n == d.records[i].next
           e == shared_delete_dev_records_by_idx(d, i)
           u == Unlink(d, i)
           c == [u EXCEPT !.record_count = @ - 1]
           r == [c EXCEPT !.records[i].next = d.free_head]
           f == [r EXCEPT !.free_head = i]
<1>1. /\ u \in SharedDev
      /\ u.free_head = d.free_head /\ u.record_count = d.record_count
      /\ \A s \in Slots : u.records[s].timestamp = d.records[s].timestamp
      /\ i # 0 /\ (i = d.head <=> p = 0) /\ (i = d.tail <=> n = 0) /\ d.head # d.tail
         => /\ u.head = IF p = 0 THEN n ELSE d.head
            /\ u.tail = IF n = 0 THEN p ELSE d.tail
            /\ \A s \in Slots \ {0} :
                 /\ u.records[s].next = IF s = p THEN n ELSE d.records[s].next
                 /\ u.records[s].prev = IF s = n THEN p ELSE d.records[s].prev
  BY Unlinked
<1>2. e = IF i = 0 \/ d.head = d.tail THEN d ELSE f
  BY DEF shared_delete_dev_records_by_idx
<1> HIDE DEF p, n, e, u
<1>3. c \in SharedDev /\ c.record_count = d.record_count - 1 /\ c.records = u.records
      /\ c.head = u.head /\ c.tail = u.tail
  BY <1>1 DEF SharedDev
<1> HIDE DEF c
<1>4. d.free_head \in Slots
  BY DEF SharedDev
<1>5. /\ Only(r, c, i) /\ r.records[i].next = d.free_head
      /\ r.records[i].prev = c.records[i].prev
      /\ r.records[i].timestamp = c.records[i].timestamp
  BY <1>3, <1>4, NextSet
<1> HIDE DEF r
<1>6. f \in SharedDev /\ f.free_head = i /\ f.records = r.records /\ f.head = r.head
      /\ f.tail = r.tail /\ f.record_count = r.record_count
  BY <1>5 DEF SharedDev, Only
<1> HIDE DEF f
<1>7. \A s \in Slots : /\ f.records[s].timestamp = u.records[s].timestamp
                       /\ f.records[s].prev = u.records[s].prev
                       /\ f.records[s].next = IF s = i THEN d.free_head ELSE u.records[s].next
  BY <1>3, <1>5, <1>6 DEF Only
<1>8. f.head = u.head /\ f.tail = u.tail /\ f.record_count = d.record_count - 1
  BY <1>3, <1>5, <1>6 DEF Only, SameEnds
<1> QED BY <1>1, <1>2, <1>6, <1>7, <1>8 DEF p, n, e

\* Deleting leaves the time stamps alone.
LEMMA DeleteTimes ==
  ASSUME NEW d \in SharedDev, NEW i \in Slots
  PROVE  \A s \in Slots : shared_delete_dev_records_by_idx(d, i).records[s].timestamp
                            = d.records[s].timestamp
BY Deleted

\* An insertion takes the first free slot.
Put(d, t) ==
  LET n == d.free_head
      e == [d EXCEPT !.free_head = d.records[n].next,
                     !.records[n].timestamp = t,
                     !.records[n].prev = d.tail,
                     !.record_count = @ + 1,
                     !.tail = n]
  IN IF d.head = 0
     THEN [e EXCEPT !.head = n, !.records[n].prev = 0, !.records[n].next = 0]
     ELSE [e EXCEPT !.records[d.tail].next = n, !.records[n].next = 0]

\* An insertion makes room if there is none.
LEMMA InsertPuts ==
  ASSUME NEW d, NEW t
  PROVE  shared_insert_dev_record(d, t) =
           Put(IF d.free_head = 0 THEN shared_delete_dev_records_by_idx(d, d.head) ELSE d, t)
  BY Zenon DEF shared_insert_dev_record, Put

\* What taking the first free slot does.
LEMMA PutDone ==
  ASSUME NEW d \in SharedDev, NEW t \in Int
  PROVE  LET n == d.free_head
             e == Put(d, t)
         IN /\ e \in SharedDev
            /\ e.free_head = d.records[n].next /\ e.record_count = d.record_count + 1
            /\ e.tail = n /\ e.head = IF d.head = 0 THEN n ELSE d.head
            /\ \A s \in Slots :
                 /\ e.records[s].timestamp = IF s = n THEN t ELSE d.records[s].timestamp
                 /\ e.records[s].prev = IF s # n THEN d.records[s].prev
                                        ELSE IF d.head = 0 THEN 0 ELSE d.tail
                 /\ e.records[s].next = IF s = n THEN 0
                                        ELSE IF s = d.tail /\ d.head # 0 THEN n
                                        ELSE d.records[s].next
<1> DEFINE n == d.free_head
           e1 == [d EXCEPT !.free_head = d.records[n].next]
           e2 == [e1 EXCEPT !.records[n].timestamp = t]
           e3 == [e2 EXCEPT !.records[n].prev = d.tail]
           e4 == [e3 EXCEPT !.record_count = @ + 1, !.tail = n]
           f1 == [e4 EXCEPT !.head = n]
           f2 == [f1 EXCEPT !.records[n].prev = 0]
           f3 == [f2 EXCEPT !.records[n].next = 0]
           g1 == [e4 EXCEPT !.records[d.tail].next = n]
           g2 == [g1 EXCEPT !.records[n].next = 0]
<1>1. Put(d, t) = IF d.head = 0 THEN f3 ELSE g2
  BY DEF Put
<1>2. n \in Slots /\ d.tail \in Slots /\ d.records[n].next \in Slots /\ 0 \in Slots
  BY SlotFacts DEF SharedDev, Record
<1> HIDE DEF n
<1>3. e1 \in SharedDev /\ e1.free_head = d.records[n].next /\ e1.records = d.records
      /\ e1.head = d.head /\ e1.tail = d.tail /\ e1.record_count = d.record_count
  BY <1>2 DEF SharedDev
<1> HIDE DEF e1
<1>4. /\ Only(e2, e1, n) /\ e2.records[n].timestamp = t
      /\ e2.records[n].prev = e1.records[n].prev /\ e2.records[n].next = e1.records[n].next
  BY <1>2, <1>3, TimeSet
<1>5. e2 \in SharedDev
  BY <1>4 DEF Only
<1> HIDE DEF e2
<1>6. /\ Only(e3, e2, n) /\ e3.records[n].prev = d.tail
      /\ e3.records[n].next = e2.records[n].next
      /\ e3.records[n].timestamp = e2.records[n].timestamp
  BY <1>2, <1>5, PrevSet
<1> HIDE DEF e3
<1>7. /\ e3 \in SharedDev /\ e3.free_head = d.records[n].next /\ e3.head = d.head
      /\ e3.record_count = d.record_count
      /\ \A s \in Slots :
           /\ e3.records[s].timestamp = IF s = n THEN t ELSE d.records[s].timestamp
           /\ e3.records[s].prev = IF s = n THEN d.tail ELSE d.records[s].prev
           /\ e3.records[s].next = d.records[s].next
  BY <1>3, <1>4, <1>6 DEF Only, SameEnds
<1>8. /\ e4 \in SharedDev /\ e4.free_head = d.records[n].next /\ e4.head = d.head
      /\ e4.record_count = d.record_count + 1 /\ e4.tail = n /\ e4.records = e3.records
  <2> DEFINE c == [e3 EXCEPT !.record_count = @ + 1]
  <2>1. e4 = [c EXCEPT !.tail = n]
    BY Zenon
  <2>2. /\ c \in SharedDev /\ c.free_head = e3.free_head /\ c.head = e3.head
        /\ c.record_count = e3.record_count + 1 /\ c.records = e3.records
    BY <1>7 DEF SharedDev
  <2> HIDE DEF c, e4
  <2>3. /\ e4 \in SharedDev /\ e4.free_head = c.free_head /\ e4.head = c.head
        /\ e4.record_count = c.record_count /\ e4.tail = n /\ e4.records = c.records
    BY <1>2, <2>1, <2>2 DEF SharedDev
  <2> QED BY <1>7, <2>2, <2>3
<1> HIDE DEF e4
<1>9. CASE d.head = 0
  <2>1. /\ f1 \in SharedDev /\ f1.free_head = e4.free_head /\ f1.head = n
        /\ f1.record_count = e4.record_count /\ f1.tail = n /\ f1.records = e4.records
    BY <1>2, <1>8 DEF SharedDev
  <2> HIDE DEF f1
  <2>2. /\ Only(f2, f1, n) /\ f2.records[n].prev = 0
        /\ f2.records[n].next = f1.records[n].next
        /\ f2.records[n].timestamp = f1.records[n].timestamp
    BY <1>2, <2>1, PrevSet
  <2>3. f2 \in SharedDev
    BY <2>2 DEF Only
  <2> HIDE DEF f2
  <2>4. /\ Only(f3, f2, n) /\ f3.records[n].next = 0
        /\ f3.records[n].prev = f2.records[n].prev
        /\ f3.records[n].timestamp = f2.records[n].timestamp
    BY <1>2, <2>3, NextSet
  <2> HIDE DEF f3
  <2>5. /\ f3 \in SharedDev /\ f3.free_head = d.records[n].next /\ f3.head = n
        /\ f3.record_count = d.record_count + 1 /\ f3.tail = n
    BY <1>8, <2>1, <2>2, <2>4 DEF Only, SameEnds
  <2>6. \A s \in Slots :
           /\ f3.records[s].timestamp = IF s = n THEN t ELSE d.records[s].timestamp
           /\ f3.records[s].prev = IF s = n THEN 0 ELSE d.records[s].prev
           /\ f3.records[s].next = IF s = n THEN 0 ELSE d.records[s].next
    BY <1>7, <1>8, <2>1, <2>2, <2>4 DEF Only
  <2> QED BY <1>1, <1>9, <2>5, <2>6 DEF n
<1>10. CASE d.head # 0
  <2>1. /\ Only(g1, e4, d.tail) /\ g1.records[d.tail].next = n
        /\ g1.records[d.tail].prev = e4.records[d.tail].prev
        /\ g1.records[d.tail].timestamp = e4.records[d.tail].timestamp
    BY <1>2, <1>8, NextSet
  <2>2. g1 \in SharedDev
    BY <2>1 DEF Only
  <2> HIDE DEF g1
  <2>3. /\ Only(g2, g1, n) /\ g2.records[n].next = 0
        /\ g2.records[n].prev = g1.records[n].prev
        /\ g2.records[n].timestamp = g1.records[n].timestamp
    BY <1>2, <2>2, NextSet
  <2> HIDE DEF g2
  <2>4. /\ g2 \in SharedDev /\ g2.free_head = d.records[n].next /\ g2.head = d.head
        /\ g2.record_count = d.record_count + 1 /\ g2.tail = n
    BY <1>8, <2>1, <2>3 DEF Only, SameEnds
  <2>5. \A s \in Slots :
           /\ g2.records[s].timestamp = IF s = n THEN t ELSE d.records[s].timestamp
           /\ g2.records[s].prev = IF s = n THEN d.tail ELSE d.records[s].prev
           /\ g2.records[s].next = IF s = n THEN 0 ELSE IF s = d.tail THEN n ELSE d.records[s].next
    BY <1>7, <1>8, <2>1, <2>3 DEF Only
  <2> QED BY <1>1, <1>10, <2>4, <2>5 DEF n
<1> QED BY <1>9, <1>10

(* Lists of slots *)

\* u without its i-th, x in front of f, x behind u, f without its first.
Cut(u, i) == [n \in 1 .. Len(u) - 1 |-> IF n < i THEN u[n] ELSE u[n + 1]]
Push(x, f) == [n \in 1 .. Len(f) + 1 |-> IF n = 1 THEN x ELSE f[n - 1]]
Grown(u, x) == [n \in 1 .. Len(u) + 1 |-> IF n <= Len(u) THEN u[n] ELSE x]
Rest(f) == [n \in 1 .. Len(f) - 1 |-> f[n + 1]]

\* A function on 1 .. k is a sequence of length k.
LEMMA FcnSeq ==
  ASSUME NEW S, NEW k \in Nat, NEW l \in [1 .. k -> S]
  PROVE  l \in Seq(S) /\ Len(l) = k
<1>1. l \in Seq(S)
  OBVIOUS
<1> QED BY <1>1

\* The four operations on sequences, place by place.
LEMMA CutFacts ==
  ASSUME NEW S, NEW u \in Seq(S), NEW i \in 1 .. Len(u)
  PROVE  /\ Cut(u, i) \in Seq(S) /\ Len(Cut(u, i)) = Len(u) - 1
         /\ \A n \in 1 .. Len(u) - 1 : Cut(u, i)[n] = IF n < i THEN u[n] ELSE u[n + 1]
<1>1. Len(u) - 1 \in Nat /\ Cut(u, i) \in [1 .. Len(u) - 1 -> S]
  BY DEF Cut
<1> QED BY <1>1, FcnSeq DEF Cut

LEMMA PushFacts ==
  ASSUME NEW f \in Seq(Slots \ {0}), NEW x \in Slots \ {0}
  PROVE  /\ Push(x, f) \in Seq(Slots \ {0}) /\ Len(Push(x, f)) = Len(f) + 1
         /\ \A n \in 1 .. Len(f) + 1 : Push(x, f)[n] = IF n = 1 THEN x ELSE f[n - 1]
<1>1. Len(f) + 1 \in Nat /\ Push(x, f) \in [1 .. Len(f) + 1 -> Slots \ {0}]
  BY DEF Push
<1> QED BY <1>1, FcnSeq DEF Push

LEMMA GrownFacts ==
  ASSUME NEW u \in Seq(Slots \ {0}), NEW x \in Slots \ {0}
  PROVE  /\ Grown(u, x) \in Seq(Slots \ {0}) /\ Len(Grown(u, x)) = Len(u) + 1
         /\ \A n \in 1 .. Len(u) + 1 : Grown(u, x)[n] = IF n <= Len(u) THEN u[n] ELSE x
<1>1. Len(u) + 1 \in Nat /\ Grown(u, x) \in [1 .. Len(u) + 1 -> Slots \ {0}]
  BY DEF Grown
<1> QED BY <1>1, FcnSeq DEF Grown

LEMMA RestFacts ==
  ASSUME NEW S, NEW f \in Seq(S), f # <<>>
  PROVE  /\ Rest(f) \in Seq(S) /\ Len(Rest(f)) = Len(f) - 1
         /\ \A n \in 1 .. Len(f) - 1 : Rest(f)[n] = f[n + 1]
<1>1. Len(f) - 1 \in Nat /\ Rest(f) \in [1 .. Len(f) - 1 -> S]
  BY DEF Rest
<1> QED BY <1>1, FcnSeq DEF Rest

Distinct(l) == \A m, n \in 1 .. Len(l) : l[m] = l[n] => m = n
Reverse(d, u) == \A n \in 1 .. Len(u) : d.records[u[n]].prev = IF n = 1 THEN 0 ELSE u[n - 1]
Holds(l, s) == \E n \in 1 .. Len(l) : l[n] = s

\* The array d is the list u of samples and the list f of free slots.
Listed(d, u, f) ==
  /\ u \in Seq(Slots \ {0}) /\ f \in Seq(Slots \ {0})
  /\ Chain(d, u, d.head) /\ Chain(d, f, d.free_head)
  /\ Distinct(u) /\ Distinct(f)
  /\ \A s \in Slots \ {0} : Holds(u, s) <=> ~ Holds(f, s)
  /\ Len(u) + Len(f) = MAX_RECORDS - 1
  /\ d.record_count = Len(u)
  /\ d.tail = IF u = <<>> THEN 0 ELSE u[Len(u)]
  /\ Reverse(d, u)

\* Deleting the i-th sample cuts it out and pushes it on the free slots.
LEMMA DeleteListed ==
  ASSUME NEW d \in SharedDev, NEW u, NEW f, Listed(d, u, f), NEW i \in 1 .. Len(u), Len(u) > 1
  PROVE  Listed(shared_delete_dev_records_by_idx(d, u[i]), Cut(u, i), Push(u[i], f))
<1> DEFINE x == u[i]
           p == d.records[x].prev
           n == d.records[x].next
           e == shared_delete_dev_records_by_idx(d, x)
           v == Cut(u, i)
           g == Push(x, f)
<1>1. u \in Seq(Slots \ {0}) /\ f \in Seq(Slots \ {0}) /\ x \in Slots \ {0}
      /\ Len(u) \in Nat /\ Len(f) \in Nat
  BY DEF Listed
<1>2. /\ p = IF i = 1 THEN 0 ELSE u[i - 1]
      /\ n = IF i = Len(u) THEN 0 ELSE u[i + 1]
  BY DEF Listed, Chain, Reverse
<1>3. /\ \A m \in 1 .. Len(u) : u[m] \in Slots \ {0}
      /\ \A m \in 1 .. Len(f) : f[m] \in Slots \ {0}
      /\ \A m, k \in 1 .. Len(u) : u[m] = u[k] => m = k
      /\ \A m, k \in 1 .. Len(f) : f[m] = f[k] => m = k
      /\ \A m \in 1 .. Len(u), k \in 1 .. Len(f) : u[m] # f[k]
  <2>1. \A m \in 1 .. Len(u) : u[m] \in Slots \ {0}
    BY <1>1
  <2>2. \A m \in 1 .. Len(f) : f[m] \in Slots \ {0}
    BY <1>1
  <2>3. \A m \in 1 .. Len(u), k \in 1 .. Len(f) : u[m] # f[k]
    BY <2>1 DEF Listed, Holds
  <2> QED BY <2>1, <2>2, <2>3 DEF Listed, Distinct
<1>4. d.head = u[1] /\ d.tail = u[Len(u)] /\ d.free_head = (IF f = <<>> THEN 0 ELSE f[1])
      /\ d.record_count = Len(u)
  BY <1>1 DEF Listed, Chain
<1>5. (x = d.head <=> p = 0) /\ (x = d.tail <=> n = 0) /\ d.head # d.tail
  BY <1>1, <1>2, <1>3, <1>4
<1>6. /\ e.free_head = x /\ e.record_count = d.record_count - 1
      /\ e.head = IF p = 0 THEN n ELSE d.head
      /\ e.tail = IF n = 0 THEN p ELSE d.tail
      /\ \A s \in Slots \ {0} :
                       /\ e.records[s].next = IF s = x THEN d.free_head
                                              ELSE IF s = p THEN n ELSE d.records[s].next
                       /\ e.records[s].prev = IF s = n THEN p ELSE d.records[s].prev
  <2>1. x \in Slots /\ x # 0
    BY <1>1
  <2> HIDE DEF x
  <2>2. /\ x # 0 /\ (x = d.head <=> p = 0) /\ (x = d.tail <=> n = 0) /\ d.head # d.tail
        => /\ e.free_head = x /\ e.record_count = d.record_count - 1
           /\ e.head = IF p = 0 THEN n ELSE d.head
           /\ e.tail = IF n = 0 THEN p ELSE d.tail
           /\ \A s \in Slots \ {0} :
                       /\ e.records[s].next = IF s = x THEN d.free_head
                                              ELSE IF s = p THEN n ELSE d.records[s].next
                       /\ e.records[s].prev = IF s = n THEN p ELSE d.records[s].prev
    BY <2>1, Deleted
  <2> HIDE DEF p, n, e
  <2> QED BY <1>5, <2>1, <2>2
<1>7. /\ v \in Seq(Slots \ {0}) /\ Len(v) = Len(u) - 1
      /\ \A m \in 1 .. Len(u) - 1 : v[m] = IF m < i THEN u[m] ELSE u[m + 1]
  BY <1>1, CutFacts
<1>8. /\ g \in Seq(Slots \ {0}) /\ Len(g) = Len(f) + 1
      /\ \A m \in 1 .. Len(f) + 1 : g[m] = IF m = 1 THEN x ELSE f[m - 1]
  <2> HIDE DEF x
  <2> QED BY <1>1, PushFacts
<1>9. /\ \A m \in 1 .. Len(u) : d.records[u[m]].next = IF m = Len(u) THEN 0 ELSE u[m + 1]
      /\ \A m \in 1 .. Len(f) : d.records[f[m]].next = IF m = Len(f) THEN 0 ELSE f[m + 1]
      /\ \A m \in 1 .. Len(u) : d.records[u[m]].prev = IF m = 1 THEN 0 ELSE u[m - 1]
  BY DEF Listed, Chain, Reverse
<1> HIDE DEF x, p, n, e, v, g
<1>10. x = u[i]
  BY DEF x
<1>11. Chain(e, v, e.head)
  <2>1. e.head = v[1] /\ v # <<>>
    BY <1>1, <1>2, <1>3, <1>4, <1>6, <1>7
  <2>2. \A m \in 1 .. Len(v) : e.records[v[m]].next = IF m = Len(v) THEN 0 ELSE v[m + 1]
    <3> SUFFICES ASSUME NEW m \in 1 .. Len(v)
                 PROVE  e.records[v[m]].next = IF m = Len(v) THEN 0 ELSE v[m + 1]
      OBVIOUS
    <3>0. m \in 1 .. Len(u) - 1 /\ m \in 1 .. Len(u) /\ m + 1 \in 1 .. Len(u) /\ i \in Nat
      BY <1>1, <1>7
    <3>1. CASE m < i - 1
      <4>1. v[m] = u[m] /\ v[m + 1] = u[m + 1] /\ u[m] # x /\ u[m] # p /\ m + 1 \in 1 .. Len(v)
        BY <1>1, <1>2, <1>3, <1>7, <1>10, <3>0, <3>1
      <4>2. m # Len(v) /\ m # Len(u)
        BY <1>1, <1>7, <3>1
      <4>3. u[m] \in Slots \ {0} /\ d.records[u[m]].next = u[m + 1]
        BY <1>3, <1>9, <3>0, <4>2
      <4>4. e.records[u[m]].next = d.records[u[m]].next
        BY <1>6, <4>1, <4>3
      <4> QED BY <4>1, <4>2, <4>3, <4>4
    <3>2. CASE m = i - 1
      BY <1>1, <1>2, <1>3, <1>6, <1>7, <1>9, <1>10, <3>2
    <3>3. CASE m > i - 1
      <4>1. v[m] = u[m + 1] /\ u[m + 1] # x /\ u[m + 1] # p
        BY <1>1, <1>2, <1>3, <1>7, <1>10, <3>0, <3>3
      <4>2. e.records[v[m]].next = IF m + 1 = Len(u) THEN 0 ELSE u[m + 1 + 1]
        <5>1. u[m + 1] \in Slots \ {0}
          BY <1>3, <3>0
        <5>2. e.records[u[m + 1]].next = d.records[u[m + 1]].next
          BY <1>6, <4>1, <5>1
        <5> QED BY <1>9, <3>0, <4>1, <5>2
      <4>3. m # Len(v) => m + 1 \in 1 .. Len(u) - 1 /\ v[m + 1] = u[m + 1 + 1]
        BY <1>1, <1>7, <3>0, <3>3
      <4>4. m = Len(v) <=> m + 1 = Len(u)
        BY <1>1, <1>7
      <4> QED BY <4>2, <4>3, <4>4
    <3> QED BY <1>7, <3>1, <3>2, <3>3
  <2> QED BY <2>1, <2>2 DEF Chain
<1>12. Chain(e, g, e.free_head)
  <2>1. \A m \in 1 .. Len(g) : e.records[g[m]].next = IF m = Len(g) THEN 0 ELSE g[m + 1]
    <3> SUFFICES ASSUME NEW m \in 1 .. Len(g)
                 PROVE  e.records[g[m]].next = IF m = Len(g) THEN 0 ELSE g[m + 1]
      OBVIOUS
    <3>1. CASE m = 1
      BY <1>1, <1>3, <1>4, <1>6, <1>8, <3>1
    <3>2. CASE m > 1
      <4>1. m - 1 \in 1 .. Len(f) /\ g[m] = f[m - 1] /\ f[m - 1] # x /\ f[m - 1] # p
        BY <1>1, <1>2, <1>3, <1>8, <1>10, <3>2
      <4>2. e.records[g[m]].next = d.records[f[m - 1]].next
        BY <1>3, <1>6, <4>1
      <4>3. d.records[f[m - 1]].next = IF m - 1 = Len(f) THEN 0 ELSE f[m - 1 + 1]
        BY <1>9, <4>1
      <4>4. m # Len(g) => m + 1 \in 1 .. Len(f) + 1 /\ g[m + 1] = f[m - 1 + 1]
        BY <1>1, <1>8, <3>2
      <4>5. m = Len(g) <=> m - 1 = Len(f)
        BY <1>1, <1>8
      <4> QED BY <4>2, <4>3, <4>4, <4>5
    <3> QED BY <1>8, <3>1, <3>2
  <2> QED BY <1>1, <1>6, <1>8, <2>1 DEF Chain
<1>13. Distinct(v) /\ Distinct(g)
  <2>1. Distinct(v)
    BY <1>1, <1>3, <1>7 DEF Distinct
  <2>2. Distinct(g)
    <3> SUFFICES ASSUME NEW m \in 1 .. Len(g), NEW k \in 1 .. Len(g), g[m] = g[k]
                 PROVE  m = k
      BY DEF Distinct
    <3>1. ASSUME NEW j \in 1 .. Len(g), j # 1
          PROVE  j - 1 \in 1 .. Len(f) /\ g[j] = f[j - 1] /\ f[j - 1] # x
      <4>1. j - 1 \in 1 .. Len(f) /\ g[j] = f[j - 1]
        BY <1>1, <1>8, <3>1
      <4> QED BY <1>3, <1>10, <4>1
    <3>2. g[1] = x
      BY <1>1, <1>8
    <3>3. CASE m # 1 /\ k # 1
      <4>1. f[m - 1] = f[k - 1] /\ m - 1 \in 1 .. Len(f) /\ k - 1 \in 1 .. Len(f)
        BY <3>1, <3>3
      <4>2. m - 1 = k - 1
        BY <1>3, <4>1
      <4> QED BY <4>2, <1>8
    <3> QED BY <3>1, <3>2, <3>3
  <2> QED BY <2>1, <2>2
<1>14. \A s \in Slots \ {0} : Holds(v, s) <=> ~ Holds(g, s)
  <2>1. \A s \in Slots \ {0} : Holds(g, s) <=> s = x \/ Holds(f, s)
    <3> SUFFICES ASSUME NEW s \in Slots \ {0} PROVE Holds(g, s) <=> s = x \/ Holds(f, s)
      OBVIOUS
    <3>1. s = x => Holds(g, s)
      BY <1>1, <1>8 DEF Holds
    <3>2. ASSUME NEW m \in 1 .. Len(f), f[m] = s PROVE Holds(g, s)
      BY <1>1, <1>8, <3>2, m + 1 \in 1 .. Len(g), g[m + 1] = s DEF Holds
    <3>3. ASSUME NEW m \in 1 .. Len(g), g[m] = s PROVE s = x \/ Holds(f, s)
      BY <1>1, <1>8, <3>3, m = 1 \/ m - 1 \in 1 .. Len(f) DEF Holds
    <3> QED BY <3>1, <3>2, <3>3 DEF Holds
  <2>2. \A s \in Slots \ {0} : Holds(v, s) <=> s # x /\ Holds(u, s)
    <3> SUFFICES ASSUME NEW s \in Slots \ {0} PROVE Holds(v, s) <=> s # x /\ Holds(u, s)
      OBVIOUS
    <3>1. ASSUME NEW m \in 1 .. Len(v), v[m] = s PROVE s # x /\ Holds(u, s)
      <4>1. m \in 1 .. Len(u) /\ m + 1 \in 1 .. Len(u)
        BY <1>1, <1>7
      <4> QED BY <1>1, <1>3, <1>7, <1>10, <3>1, <4>1 DEF Holds
    <3>2. ASSUME NEW m \in 1 .. Len(u), u[m] = s, s # x PROVE Holds(v, s)
      <4>1. CASE m < i
        BY <1>1, <1>7, <3>2, <4>1, m \in 1 .. Len(v) DEF Holds
      <4>2. CASE m > i
        BY <1>1, <1>7, <3>2, <4>2, m - 1 \in 1 .. Len(v), v[m - 1] = s DEF Holds
      <4> QED BY <1>10, <3>2, <4>1, <4>2
    <3> QED BY <3>1, <3>2 DEF Holds
  <2>3. \A s \in Slots \ {0} : Holds(u, s) <=> ~ Holds(f, s)
    BY DEF Listed
  <2>4. Holds(u, x)
    BY <1>10 DEF Holds
  <2> QED BY <1>1, <2>1, <2>2, <2>3, <2>4
<1>15. Len(v) + Len(g) = MAX_RECORDS - 1 /\ e.record_count = Len(v)
  BY <1>1, <1>4, <1>6, <1>7, <1>8, BwAssumption DEF Listed
<1>16. e.tail = (IF v = <<>> THEN 0 ELSE v[Len(v)]) /\ Reverse(e, v)
  <2>1. e.tail = v[Len(v)] /\ v # <<>>
    BY <1>1, <1>2, <1>3, <1>4, <1>6, <1>7
  <2>2. \A m \in 1 .. Len(v) : e.records[v[m]].prev = IF m = 1 THEN 0 ELSE v[m - 1]
    <3> SUFFICES ASSUME NEW m \in 1 .. Len(v)
                 PROVE  e.records[v[m]].prev = IF m = 1 THEN 0 ELSE v[m - 1]
      OBVIOUS
    <3>0. m \in 1 .. Len(u) - 1 /\ m \in 1 .. Len(u) /\ m + 1 \in 1 .. Len(u) /\ i \in Nat
      BY <1>1, <1>7
    <3>1. CASE m < i
      <4>1. v[m] = u[m] /\ u[m] # n /\ (m # 1 => v[m - 1] = u[m - 1])
        <5>1. v[m] = u[m] /\ (m # 1 => v[m - 1] = u[m - 1])
          BY <1>1, <1>7, <3>0, <3>1
        <5>2. u[m] # n
          BY <1>1, <1>2, <1>3, <3>0, <3>1
        <5> QED BY <5>1, <5>2
      <4>2. u[m] \in Slots \ {0}
        BY <1>3, <3>0
      <4>3. e.records[u[m]].prev = d.records[u[m]].prev
        BY <1>6, <4>1, <4>2
      <4> QED BY <1>9, <3>0, <4>1, <4>3
    <3>2. CASE m = i
      BY <1>1, <1>2, <1>3, <1>6, <1>7, <1>9, <1>10, <3>2
    <3>3. CASE m > i
      <4>1. v[m] = u[m + 1] /\ u[m + 1] # n /\ v[m - 1] = u[m] /\ m # 1
        BY <1>1, <1>2, <1>3, <1>7, <1>10, <3>0, <3>3
      <4>2. d.records[u[m + 1]].prev = IF m + 1 = 1 THEN 0 ELSE u[m + 1 - 1]
        BY <1>9, <3>0
      <4>3. m + 1 # 1 /\ u[m + 1 - 1] = u[m]
        BY <3>0
      <4> QED BY <1>3, <1>6, <3>0, <4>1, <4>2, <4>3
    <3> QED BY <1>7, <3>1, <3>2, <3>3
  <2> QED BY <2>1, <2>2 DEF Reverse
<1>17. Listed(e, v, g)
  BY <1>7, <1>8, <1>11, <1>12, <1>13, <1>14, <1>15, <1>16 DEF Listed
<1> QED BY <1>17 DEF e, v, g, x

\* An upload appends the first free slot to the samples.
LEMMA PutListed ==
  ASSUME NEW d \in SharedDev, NEW u, NEW f, Listed(d, u, f), f # <<>>, NEW t \in Int
  PROVE  Listed(Put(d, t), Grown(u, f[1]), Rest(f))
<1> DEFINE x == d.free_head
           e == Put(d, t)
           v == Grown(u, x)
           g == Rest(f)
<1>1. /\ u \in Seq(Slots \ {0}) /\ f \in Seq(Slots \ {0}) /\ x = f[1]
      /\ Len(u) \in Nat /\ Len(f) \in Nat \ {0} /\ x \in Slots \ {0}
      /\ d.record_count = Len(u) /\ Len(u) + Len(f) = MAX_RECORDS - 1
      /\ d.head = (IF u = <<>> THEN 0 ELSE u[1]) /\ d.tail = (IF u = <<>> THEN 0 ELSE u[Len(u)])
  BY DEF Listed, Chain
<1>2. /\ \A m \in 1 .. Len(u) : u[m] \in Slots \ {0} /\ u[m] # x
      /\ \A m \in 1 .. Len(f) : f[m] \in Slots \ {0} /\ (f[m] = x <=> m = 1)
      /\ \A m, k \in 1 .. Len(u) : u[m] = u[k] => m = k
      /\ \A m, k \in 1 .. Len(f) : f[m] = f[k] => m = k
      /\ \A m \in 1 .. Len(u), k \in 1 .. Len(f) : u[m] # f[k]
  <2>0. 1 \in 1 .. Len(f)
    BY <1>1
  <2>1. \A m \in 1 .. Len(u) : u[m] \in Slots \ {0}
    BY <1>1
  <2>2. \A m \in 1 .. Len(f) : f[m] \in Slots \ {0}
    BY <1>1
  <2>3. \A m \in 1 .. Len(u), k \in 1 .. Len(f) : u[m] # f[k]
    BY <2>1 DEF Listed, Holds
  <2>4. /\ \A m, k \in 1 .. Len(u) : u[m] = u[k] => m = k
        /\ \A m, k \in 1 .. Len(f) : f[m] = f[k] => m = k
    BY DEF Listed, Distinct
  <2> HIDE DEF x
  <2> QED BY <1>1, <2>0, <2>1, <2>2, <2>3, <2>4
<1>3. (d.head = 0 <=> u = <<>>) /\ (u = <<>> <=> Len(u) = 0)
  <2>1. u # <<>> => 1 \in 1 .. Len(u)
    BY <1>1
  <2> QED BY <1>1, <1>2, <2>1
<1>4. /\ e.free_head = d.records[x].next /\ e.record_count = d.record_count + 1
      /\ e.tail = x /\ e.head = IF d.head = 0 THEN x ELSE d.head
      /\ \A s \in Slots :
           /\ e.records[s].prev = IF s # x THEN d.records[s].prev
                                  ELSE IF d.head = 0 THEN 0 ELSE d.tail
           /\ e.records[s].next = IF s = x THEN 0
                                  ELSE IF s = d.tail /\ d.head # 0 THEN x
                                  ELSE d.records[s].next
  BY PutDone
<1>5. /\ \A m \in 1 .. Len(u) : d.records[u[m]].next = IF m = Len(u) THEN 0 ELSE u[m + 1]
      /\ \A m \in 1 .. Len(f) : d.records[f[m]].next = IF m = Len(f) THEN 0 ELSE f[m + 1]
      /\ \A m \in 1 .. Len(u) : d.records[u[m]].prev = IF m = 1 THEN 0 ELSE u[m - 1]
  BY DEF Listed, Chain, Reverse
<1> HIDE DEF x, e
<1>6. /\ v \in Seq(Slots \ {0}) /\ Len(v) = Len(u) + 1
      /\ \A m \in 1 .. Len(u) + 1 : v[m] = IF m <= Len(u) THEN u[m] ELSE x
  BY <1>1, GrownFacts
<1>7. /\ g \in Seq(Slots \ {0}) /\ Len(g) = Len(f) - 1
      /\ \A m \in 1 .. Len(f) - 1 : g[m] = f[m + 1]
  BY <1>1, RestFacts
<1> HIDE DEF v, g
<1>8. Chain(e, v, e.head)
  <2>1. v # <<>> /\ e.head = v[1]
    <3>1. v # <<>> /\ v[1] = IF Len(u) = 0 THEN x ELSE u[1]
      BY <1>1, <1>6
    <3> QED BY <1>1, <1>3, <1>4, <3>1
  <2>2. ASSUME NEW m \in 1 .. Len(v)
        PROVE  e.records[v[m]].next = IF m = Len(v) THEN 0 ELSE v[m + 1]
    <3>1. CASE m = Len(v)
      <4>1. v[m] = x
        BY <1>1, <1>6, <3>1
      <4> QED BY <1>1, <1>4, <3>1, <4>1
    <3>2. CASE m = Len(u)
      <4>1. v[m] = u[m] /\ v[m + 1] = x /\ m # Len(v) /\ m \in 1 .. Len(u) /\ u # <<>>
        BY <1>1, <1>6, <3>2
      <4>2. u[m] \in Slots /\ u[m] # x /\ u[m] = d.tail /\ d.head # 0
        BY <1>1, <1>2, <1>3, <3>2, <4>1
      <4> QED BY <1>4, <4>1, <4>2
    <3>3. CASE m < Len(u)
      <4>1. v[m] = u[m] /\ v[m + 1] = u[m + 1] /\ m # Len(v) /\ m \in 1 .. Len(u) /\ m # Len(u)
            /\ Len(u) \in 1 .. Len(u)
        BY <1>1, <1>6, <3>3
      <4>2. u[m] \in Slots /\ u[m] # x /\ u[m] # d.tail
        BY <1>1, <1>2, <4>1
      <4>3. e.records[u[m]].next = d.records[u[m]].next
        BY <1>4, <4>2
      <4> QED BY <1>5, <4>1, <4>3
    <3> QED BY <1>1, <1>6, <3>1, <3>2, <3>3
  <2> QED BY <2>1, <2>2 DEF Chain
<1>9. Chain(e, g, e.free_head)
  <2>1. e.free_head = IF g = <<>> THEN 0 ELSE g[1]
    <3>0. 1 \in 1 .. Len(f)
      BY <1>1
    <3>1. d.records[x].next = IF 1 = Len(f) THEN 0 ELSE f[1 + 1]
      <4>1. d.records[f[1]].next = IF 1 = Len(f) THEN 0 ELSE f[1 + 1]
        BY <1>5, <3>0
      <4> QED BY <1>1, <4>1
    <3>2. g = <<>> <=> 1 = Len(f)
      BY <1>1, <1>7
    <3>3. 1 # Len(f) => g[1] = f[1 + 1]
      BY <1>1, <1>7
    <3> QED BY <1>4, <3>1, <3>2, <3>3
  <2>2. ASSUME NEW m \in 1 .. Len(g)
        PROVE  e.records[g[m]].next = IF m = Len(g) THEN 0 ELSE g[m + 1]
    <3>1. /\ m + 1 \in 1 .. Len(f) /\ g[m] = f[m + 1] /\ m + 1 # 1
          /\ (m = Len(g) <=> m + 1 = Len(f))
          /\ (m # Len(g) => g[m + 1] = f[m + 1 + 1])
      BY <1>1, <1>7
    <3>2. f[m + 1] \in Slots /\ f[m + 1] # x /\ (u # <<>> => f[m + 1] # d.tail)
      <4>1. u # <<>> => d.tail = u[Len(u)] /\ Len(u) \in 1 .. Len(u)
        BY <1>1
      <4> QED BY <1>2, <3>1, <4>1
    <3>3. e.records[f[m + 1]].next = d.records[f[m + 1]].next
      BY <1>3, <1>4, <3>2
    <3> QED BY <1>5, <3>1, <3>3
  <2> QED BY <2>1, <2>2 DEF Chain
<1>10. Distinct(v) /\ Distinct(g)
  <2>1. \A m \in 1 .. Len(v) : IF m = Len(v) THEN v[m] = x
                               ELSE m \in 1 .. Len(u) /\ v[m] = u[m]
    BY <1>1, <1>6
  <2>2. Distinct(v)
    BY <1>2, <2>1 DEF Distinct
  <2>3. \A m \in 1 .. Len(g) : m + 1 \in 1 .. Len(f) /\ g[m] = f[m + 1]
    BY <1>1, <1>7
  <2>4. ASSUME NEW m \in 1 .. Len(g), NEW k \in 1 .. Len(g), g[m] = g[k] PROVE m = k
    <3>1. m + 1 = k + 1
      BY <1>2, <2>3, <2>4
    <3> QED BY <1>7, <3>1
  <2> QED BY <2>2, <2>4 DEF Distinct
<1>11. \A s \in Slots \ {0} : Holds(v, s) <=> ~ Holds(g, s)
  <2> SUFFICES ASSUME NEW s \in Slots \ {0} PROVE Holds(v, s) <=> ~ Holds(g, s)
    OBVIOUS
  <2>1. Holds(v, s) <=> s = x \/ Holds(u, s)
    <3>1. \A m \in 1 .. Len(v) : IF m = Len(v) THEN v[m] = x
                                 ELSE m \in 1 .. Len(u) /\ v[m] = u[m]
      BY <1>1, <1>6
    <3>2. \A m \in 1 .. Len(u) : m \in 1 .. Len(v) /\ v[m] = u[m]
      BY <1>1, <1>6
    <3>3. Len(v) \in 1 .. Len(v)
      BY <1>1, <1>6
    <3> QED BY <3>1, <3>2, <3>3 DEF Holds
  <2>2. Holds(f, s) <=> s = x \/ Holds(g, s)
    <3>1. \A m \in 1 .. Len(g) : m + 1 \in 1 .. Len(f) /\ g[m] = f[m + 1]
      BY <1>1, <1>7
    <3>2. \A m \in 1 .. Len(f) : IF m = 1 THEN f[m] = x
                                 ELSE m - 1 \in 1 .. Len(g) /\ g[m - 1] = f[m]
      BY <1>1, <1>7
    <3>3. 1 \in 1 .. Len(f)
      BY <1>1
    <3> QED BY <3>1, <3>2, <3>3 DEF Holds
  <2>3. ~ Holds(g, x)
    <3> SUFFICES ASSUME NEW m \in 1 .. Len(g), g[m] = x PROVE FALSE
      BY DEF Holds
    <3>1. m + 1 \in 1 .. Len(f) /\ g[m] = f[m + 1] /\ m + 1 # 1
      BY <1>1, <1>7
    <3> QED BY <1>2, <3>1
  <2>4. Holds(u, s) <=> ~ Holds(f, s)
    BY DEF Listed
  <2> QED BY <2>1, <2>2, <2>3, <2>4
<1>12. Len(v) + Len(g) = MAX_RECORDS - 1 /\ e.record_count = Len(v)
  BY <1>1, <1>4, <1>6, <1>7, BwAssumption
<1>13. e.tail = (IF v = <<>> THEN 0 ELSE v[Len(v)]) /\ Reverse(e, v)
  <2>1. e.tail = v[Len(v)] /\ v # <<>>
    BY <1>1, <1>4, <1>6
  <2>2. ASSUME NEW m \in 1 .. Len(v)
        PROVE  e.records[v[m]].prev = IF m = 1 THEN 0 ELSE v[m - 1]
    <3>1. CASE m = Len(v)
      <4>1. v[m] = x /\ (m = 1 <=> Len(u) = 0) /\ (m # 1 => v[m - 1] = u[Len(u)])
        BY <1>1, <1>6, <3>1
      <4> QED BY <1>1, <1>3, <1>4, <4>1
    <3>2. CASE m # Len(v)
      <4>1. m \in 1 .. Len(u) /\ v[m] = u[m] /\ (m # 1 => v[m - 1] = u[m - 1])
        BY <1>1, <1>6, <3>2
      <4>2. u[m] \in Slots /\ u[m] # x
        BY <1>2, <4>1
      <4>3. e.records[u[m]].prev = d.records[u[m]].prev
        BY <1>4, <4>2
      <4> QED BY <1>5, <4>1, <4>3
    <3> QED BY <3>1, <3>2
  <2> QED BY <2>1, <2>2 DEF Reverse
<1>14. Listed(e, v, g)
  BY <1>6, <1>7, <1>8, <1>9, <1>10, <1>11, <1>12, <1>13 DEF Listed
<1> QED BY <1>1, <1>14 DEF e, v, g

-----------------------------------------------------------------------------
(* The program's state *)

\* An array keeps its type when it is initialised.
LEMMA Reset ==
  ASSUME NEW d, d.records \in [Slots -> Record]
  PROVE  shared_init_dev_records(d) \in SharedDev
<1> DEFINE r == [i \in Slots |->
                   IF i = 0 THEN d.records[0]
                   ELSE [prev |-> 0, next |-> (i + 1) % MAX_RECORDS,
                         timestamp |-> d.records[i].timestamp]]
<1>1. ASSUME NEW i \in Slots PROVE r[i] \in Record
  BY <1>1, SlotFacts DEF Record
<1>2. r \in [Slots -> Record]
  <2> HIDE DEF Record
  <2> QED BY <1>1
<1>3. shared_init_dev_records(d) =
        [free_head |-> 1, head |-> 0, tail |-> 0, record_count |-> 0, records |-> r]
  BY DEF shared_init_dev_records
<1> HIDE DEF r
<1> QED BY <1>2, <1>3, SlotFacts DEF SharedDev

\* An array keeps its type when a sample is inserted.
LEMMA Inserted ==
  ASSUME NEW d \in SharedDev, NEW t \in Int
  PROVE  shared_insert_dev_record(d, t) \in SharedDev
<1> DEFINE e == IF d.free_head = 0 THEN shared_delete_dev_records_by_idx(d, d.head) ELSE d
<1>1. e \in SharedDev
  BY Deleted DEF SharedDev
<1>2. Put(e, t) \in SharedDev
  <2> HIDE DEF e
  <2> QED BY <1>1, PutDone
<1> QED BY <1>2, InsertPuts, Zenon

\* The sum is a number.
LEMMA TotalNat == Total \in Nat
<1> DEFINE l == Walk(dev, dev.head)
           S == {n \in DOMAIN l : clock - dev.records[l[n]].timestamp <= Interval}
<1>1. DOMAIN l \subseteq 1 .. MAX_RECORDS
  BY DEF Walk
<1>2. S \subseteq 1 .. MAX_RECORDS
  <2> HIDE DEF l
  <2> QED BY <1>1
<1>3. IsFiniteSet(1 .. MAX_RECORDS)
  BY FS_Interval, BwAssumption
<1>4. Cardinality(S) \in Nat
  <2> HIDE DEF S
  <2> QED BY <1>2, <1>3, FS_Subset, FS_CardinalityType
<1> QED BY <1>4 DEF Total

\* The types hold at first.
LEMMA TypeInit == Init => TypeOK
<1> SUFFICES ASSUME Init PROVE TypeOK
  OBVIOUS
<1>1. Zeroed.records \in [Slots -> Record]
  BY SlotFacts, BwAssumption DEF Zeroed, Record, Ancient
<1>2. dev \in SharedDev
  BY <1>1, Reset DEF Init
<1>3. 0 \in Slots /\ 0 \in 0 .. MaxTime /\ 0 \in 0 .. MaxSlips /\ 1 \in Nat
  BY SlotFacts, BwAssumption
<1> QED BY <1>2, <1>3 DEF Init, TypeOK, SharedDev, Record

\* Every action keeps the types.
LEMMA TypeStep == TypeOK /\ [Next]_vars => TypeOK'
<1> SUFFICES ASSUME TypeOK, [Next]_vars PROVE TypeOK'
  OBVIOUS
<1>0. /\ dev \in SharedDev /\ 0 \in Slots /\ clock \in 0 .. MaxTime /\ 0 \in 0 .. MaxTime
      /\ dev.head \in Slots
      /\ sem \in Nat /\ slips \in 0 .. MaxSlips /\ MaxSlips \in Nat
      /\ cur \in [Procs -> Slots]
      /\ now \in [Procs -> 0 .. MaxTime] /\ usage \in [Procs -> Nat \cup {Unset}]
      /\ pc \in [Procs -> {"sleep", "cleanup", "walk", "calculate", "upload", "insert"}]
      /\ MaxTime \in Nat
  <2>1. dev \in SharedDev
    BY DEF TypeOK, SharedDev, Record
  <2> QED BY <2>1, SlotFacts, BwAssumption DEF TypeOK, SharedDev
<1>a. \A t \in 0 .. MaxTime : t \in Int
  BY <1>0
<1>b. ASSUME NEW p \in Procs, semaphore_P(p)
      PROVE  slips' \in 0 .. MaxSlips /\ Inside \in Nat /\ Passed \in Nat
  BY <1>0, <1>b DEF semaphore_P, Inside, Passed
<1>1. CASE UNCHANGED vars
  BY <1>1 DEF vars, TypeOK
<1>2. CASE Tick
  <2>1. clock' \in 0 .. MaxTime
    BY <1>0, <1>2 DEF Tick
  <2> QED BY <1>2, <2>1 DEF Tick, TypeOK
<1>3. ASSUME NEW p \in Procs, cleanup_shared_old_records(p) PROVE TypeOK'
  BY <1>0, <1>3 DEF cleanup_shared_old_records, Goto, TypeOK
<1>4. ASSUME NEW p \in Procs, EnterCleanup(p) PROVE TypeOK'
  <2>1. slips' \in 0 .. MaxSlips /\ sem' \in Nat
    BY <1>b, <1>4 DEF EnterCleanup
  <2> QED BY <1>0, <1>4, <2>1 DEF EnterCleanup, Goto, EndOfScope, TypeOK
<1>5. ASSUME NEW p \in Procs, WalkStep(p) PROVE TypeOK'
  <2> DEFINE i == cur[p]
             n == dev.records[i].next
             d == IF now[p] - dev.records[i].timestamp >= Interval
                  THEN shared_delete_dev_records_by_idx(dev, i) ELSE dev
  <2>1. i \in Slots /\ n \in Slots
    BY <1>0 DEF SharedDev, Record
  <2>2. d \in SharedDev
    <3> HIDE DEF i
    <3> QED BY <1>0, <2>1, Deleted
  <2>3. dev' \in {d, shared_init_dev_records(d)}
    BY <1>5 DEF WalkStep
  <2>4. dev' \in SharedDev
    <3> HIDE DEF d
    <3>1. d.records \in [Slots -> Record]
      BY <2>2 DEF SharedDev
    <3> QED BY <2>2, <2>3, <3>1, Reset
  <2>5. UNCHANGED <<clock, slips, usage>>
    BY <1>5 DEF WalkStep
  <2>6. \/ Goto(p, "calculate") /\ semaphore_V /\ EndOfScope(p)
        \/ cur' = [cur EXCEPT ![p] = n] /\ UNCHANGED <<pc, sem, now>>
    BY <1>5 DEF WalkStep
  <2> HIDE DEF i, n, d
  <2>7. /\ sem' \in Nat /\ cur' \in [Procs -> Slots]
        /\ now' \in [Procs -> 0 .. MaxTime]
        /\ pc' \in [Procs -> {"sleep", "cleanup", "walk", "calculate", "upload", "insert"}]
    BY <1>0, <2>1, <2>6 DEF Goto, EndOfScope, semaphore_V
  <2> QED BY <1>0, <2>4, <2>5, <2>7 DEF TypeOK, SharedDev, Record
<1>6. ASSUME NEW p \in Procs, calculate_bandwidth(p) PROVE TypeOK'
  <2>1. usage' \in [Procs -> Nat \cup {Unset}]
    BY <1>0, <1>6, TotalNat DEF calculate_bandwidth
  <2>2. slips' \in 0 .. MaxSlips /\ sem' \in Nat
    BY <1>b, <1>6 DEF calculate_bandwidth
  <2> QED BY <1>6, <2>1, <2>2 DEF calculate_bandwidth, Goto, TypeOK
<1>7. ASSUME NEW p \in Procs, upload_bandwidth(p) PROVE TypeOK'
  BY <1>0, <1>7 DEF upload_bandwidth, Goto, TypeOK
<1>8. ASSUME NEW p \in Procs, Insert(p) PROVE TypeOK'
  <2>1. dev' \in SharedDev
    BY <1>0, <1>a, <1>8, Inserted DEF Insert
  <2>2. slips' \in 0 .. MaxSlips /\ sem' \in Nat
    BY <1>b, <1>8 DEF Insert
  <2> QED BY <1>0, <1>8, <2>1, <2>2 DEF Insert, Goto, EndOfScope, TypeOK, SharedDev, Record
<1>9. ASSUME NEW p \in Procs, kuaf_bw_get(p) \/ kuaf_bw_record(p) PROVE TypeOK'
  <2>1. usage' \in [Procs -> Nat \cup {Unset}]
    BY <1>0, <1>9, TotalNat DEF kuaf_bw_get, kuaf_bw_record
  <2>2. slips' \in 0 .. MaxSlips /\ sem' \in Nat
    BY <1>0, <1>b, <1>9 DEF kuaf_bw_get, kuaf_bw_record
  <2> QED BY <1>9, <2>1, <2>2 DEF kuaf_bw_get, kuaf_bw_record, TypeOK
<1> QED BY <1>1, <1>2, <1>3, <1>4, <1>5, <1>6, <1>7, <1>8, <1>9 DEF Next, Daemon

\* Every variable keeps its type, whoever overlaps: in particular deleting,
\* inserting and initialising keep every link within the array.
THEOREM TypeCorrect == Spec => []TypeOK
<1> QED BY TypeInit, TypeStep, PTL DEF Spec

-----------------------------------------------------------------------------
(* The two lists, when nobody takes the semaphore between a cleanup's look *)
(* at the head and its own taking                                          *)

\* The walks from the two heads find the two lists.
LEMMA ListedWalks ==
  ASSUME NEW d, NEW u, NEW f, Listed(d, u, f)
  PROVE  Walk(d, d.head) = u /\ Walk(d, d.free_head) = f
<1>1. /\ u \in Seq(Slots \ {0}) /\ f \in Seq(Slots \ {0})
      /\ Chain(d, u, d.head) /\ Chain(d, f, d.free_head)
      /\ Len(u) + Len(f) = MAX_RECORDS - 1
  BY DEF Listed
<1>2. Len(u) < MAX_RECORDS /\ Len(f) < MAX_RECORDS
  <2>1. Len(u) \in Nat /\ Len(f) \in Nat
    BY <1>1
  <2> QED BY <1>1, <2>1, BwAssumption
<1> QED BY <1>1, <1>2, WalkIs

\* An array just initialised.
LEMMA ResetListed ==
  ASSUME NEW d, d.records \in [Slots -> Record]
  PROVE  Listed(shared_init_dev_records(d), <<>>, [n \in 1 .. MAX_RECORDS - 1 |-> n])
<1> DEFINE f == [n \in 1 .. MAX_RECORDS - 1 |-> n]
           e == shared_init_dev_records(d)
           N == MAX_RECORDS - 1
<1>1. N \in Nat /\ N >= 2 /\ N + 1 = MAX_RECORDS /\ Slots \ {0} = 1 .. N
  BY BwAssumption DEF Slots
<1>2. f \in Seq(Slots \ {0}) /\ Len(f) = N /\ \A n \in 1 .. N : f[n] = n
  <2>1. f \in [1 .. N -> Slots \ {0}]
    BY <1>1
  <2> QED BY <1>1, <2>1, FcnSeq
<1>3. /\ e.free_head = 1 /\ e.head = 0 /\ e.tail = 0 /\ e.record_count = 0
      /\ \A n \in 1 .. N : e.records[n].next = (n + 1) % MAX_RECORDS
  BY <1>1 DEF shared_init_dev_records
<1>4. \A n \in 1 .. N : (n + 1) % MAX_RECORDS = IF n = N THEN 0 ELSE n + 1
  BY <1>1
<1> HIDE DEF f, e, N
<1>5. Chain(e, f, e.free_head)
  <2>1. f # <<>> /\ f[1] = 1
    BY <1>1, <1>2
  <2>2. ASSUME NEW n \in 1 .. Len(f)
        PROVE  e.records[f[n]].next = IF n = Len(f) THEN 0 ELSE f[n + 1]
    <3>1. n \in 1 .. N /\ f[n] = n /\ (n # N => f[n + 1] = n + 1)
      BY <1>1, <1>2
    <3> QED BY <1>2, <1>3, <1>4, <3>1
  <2> QED BY <1>3, <2>1, <2>2 DEF Chain
<1>6. Chain(e, <<>>, e.head) /\ Reverse(e, <<>>)
  BY <1>3 DEF Chain, Reverse
<1>7. Distinct(f) /\ Distinct(<<>>)
  BY <1>2 DEF Distinct
<1>8. \A s \in Slots \ {0} : Holds(f, s) /\ ~ Holds(<<>>, s)
  BY <1>1, <1>2 DEF Holds
<1>9. <<>> \in Seq(Slots \ {0}) /\ Len(<<>>) = 0
  OBVIOUS
<1>10. 0 + Len(f) = MAX_RECORDS - 1
  BY <1>1, <1>2
<1>11. Listed(e, <<>>, f)
  BY <1>2, <1>3, <1>5, <1>6, <1>7, <1>8, <1>9, <1>10 DEF Listed
<1> QED BY <1>11 DEF e, f

\* One turn of the cleanup's loop at the k-th sample: the successor is the
\* next sample, the array is never reset, and the last sample stays.
LEMMA Turn ==
  ASSUME NEW d \in SharedDev, NEW u, NEW f, Listed(d, u, f), NEW k \in 1 .. Len(u)
  PROVE  LET e == shared_delete_dev_records_by_idx(d, u[k])
         IN /\ d.records[u[k]].next = IF k = Len(u) THEN 0 ELSE u[k + 1]
            /\ d.records[u[k]].next # u[k]
            /\ d.record_count # 0 /\ e.record_count # 0
            /\ Len(u) = 1 => e = d
            /\ Len(u) # 1 => Listed(e, Cut(u, k), Push(u[k], f))
<1> DEFINE e == shared_delete_dev_records_by_idx(d, u[k])
<1>1. /\ u \in Seq(Slots \ {0}) /\ Len(u) \in Nat /\ Len(u) >= 1
      /\ d.record_count = Len(u) /\ u[k] # 0 /\ u # <<>>
      /\ d.head = u[1] /\ d.tail = u[Len(u)]
  <2>1. u \in Seq(Slots \ {0}) /\ d.record_count = Len(u)
    BY DEF Listed
  <2>2. Len(u) \in Nat /\ Len(u) >= 1 /\ u[k] # 0 /\ u # <<>>
    BY <2>1
  <2> QED BY <2>1, <2>2 DEF Listed, Chain
<1>2. d.records[u[k]].next = IF k = Len(u) THEN 0 ELSE u[k + 1]
  BY DEF Listed, Chain
<1>3. d.records[u[k]].next # u[k]
  <2>1. k # Len(u) => k + 1 \in 1 .. Len(u)
    BY <1>1
  <2>2. k # Len(u) => u[k + 1] # u[k]
    BY <2>1 DEF Listed, Distinct
  <2> QED BY <1>1, <1>2, <2>2
<1>4. Len(u) = 1 => e = d
  BY <1>1 DEF shared_delete_dev_records_by_idx
<1>5. Len(u) # 1 => Listed(e, Cut(u, k), Push(u[k], f)) /\ Len(Cut(u, k)) = Len(u) - 1
  <2> SUFFICES ASSUME Len(u) # 1
               PROVE  Listed(e, Cut(u, k), Push(u[k], f)) /\ Len(Cut(u, k)) = Len(u) - 1
    OBVIOUS
  <2>0. \A n \in Nat : n >= 1 /\ n # 1 => n > 1
    OBVIOUS
  <2>1. Len(u) > 1
    BY <1>1, <2>0
  <2>2. Listed(e, Cut(u, k), Push(u[k], f))
    BY <2>1, DeleteListed
  <2> QED BY <1>1, <2>2, CutFacts
<1>6. e.record_count # 0
  <2> HIDE DEF e
  <2>1. Len(u) # 1 => e.record_count = Len(u) - 1
    BY <1>5 DEF Listed
  <2>2. Len(u) = 1 => e.record_count = Len(u)
    BY <1>1, <1>4
  <2>3. \A n \in Nat : n >= 1 => n # 0 /\ (n # 1 => n - 1 # 0)
    OBVIOUS
  <2> QED BY <1>1, <2>1, <2>2, <2>3
<1> QED BY <1>1, <1>2, <1>3, <1>4, <1>5, <1>6 DEF e

\* One upload: a full list loses its first sample.
LEMMA Uploaded ==
  ASSUME NEW d \in SharedDev, NEW u, NEW f, Listed(d, u, f), NEW t \in Int
  PROVE  LET e == shared_insert_dev_record(d, t)
             v == IF f = <<>> THEN Cut(u, 1) ELSE u
             x == IF f = <<>> THEN u[1] ELSE f[1]
         IN /\ f = <<>> => Len(u) = MAX_RECORDS - 1
            /\ f # <<>> => Len(u) < MAX_RECORDS - 1
            /\ x \in Slots \ {0}
            /\ \A n \in 1 .. Len(v) : v[n] \in Slots /\ v[n] # x
            /\ Listed(e, Grown(v, x), IF f = <<>> THEN <<>> ELSE Rest(f))
            /\ e.records[x].timestamp = t
            /\ \A s \in Slots \ {x} : e.records[s].timestamp = d.records[s].timestamp
<1> DEFINE e == shared_insert_dev_record(d, t)
           v == IF f = <<>> THEN Cut(u, 1) ELSE u
           x == IF f = <<>> THEN u[1] ELSE f[1]
           g == IF f = <<>> THEN Push(u[1], f) ELSE f
           c == IF d.free_head = 0 THEN shared_delete_dev_records_by_idx(d, d.head) ELSE d
<1>1. /\ u \in Seq(Slots \ {0}) /\ f \in Seq(Slots \ {0}) /\ Len(u) \in Nat /\ Len(f) \in Nat
      /\ Len(u) + Len(f) = MAX_RECORDS - 1 /\ MAX_RECORDS \in Nat /\ MAX_RECORDS >= 3
      /\ d.head = (IF u = <<>> THEN 0 ELSE u[1])
      /\ d.free_head = (IF f = <<>> THEN 0 ELSE f[1])
  BY BwAssumption DEF Listed, Chain
<1>2. (f = <<>> <=> Len(f) = 0) /\ (f # <<>> => 1 \in 1 .. Len(f) /\ f[1] \in Slots \ {0})
  BY <1>1
<1>3. f = <<>> => /\ Len(u) = MAX_RECORDS - 1 /\ u # <<>> /\ 1 \in 1 .. Len(u)
                  /\ Len(u) > 1 /\ u[1] \in Slots \ {0}
  BY <1>1, <1>2
<1>4. f # <<>> => Len(u) < MAX_RECORDS - 1
  BY <1>1, <1>2
<1>5. x \in Slots \ {0}
  BY <1>2, <1>3
<1>6. /\ c \in SharedDev /\ Listed(c, v, g) /\ g # <<>> /\ g[1] = x
      /\ \A s \in Slots : c.records[s].timestamp = d.records[s].timestamp
      /\ Rest(g) = IF f = <<>> THEN <<>> ELSE Rest(f)
  <2>1. CASE f # <<>>
    BY <1>1, <1>2, <2>1
  <2>2. CASE f = <<>>
    <3>1. c = shared_delete_dev_records_by_idx(d, u[1])
      BY <1>1, <1>3, <2>2
    <3>2. c \in SharedDev /\ \A s \in Slots : c.records[s].timestamp = d.records[s].timestamp
      BY <1>3, <2>2, <3>1, Deleted
    <3>3. Listed(c, v, g)
      BY <1>3, <2>2, <3>1, DeleteListed
    <3>4. g \in Seq(Slots \ {0}) /\ Len(g) = 1 /\ g[1] = u[1] /\ g # <<>>
      <4>1. Len(f) = 0 /\ 1 \in 1 .. Len(f) + 1
        BY <1>2, <2>2
      <4>2. g = Push(u[1], f)
        BY <2>2
      <4> HIDE DEF g
      <4> DEFINE y == u[1]
      <4>a. y \in Slots \ {0}
        BY <1>3, <2>2
      <4> HIDE DEF y
      <4>b. /\ Push(y, f) \in Seq(Slots \ {0}) /\ Len(Push(y, f)) = Len(f) + 1
            /\ \A n \in 1 .. Len(f) + 1 : Push(y, f)[n] = IF n = 1 THEN y ELSE f[n - 1]
        BY <1>1, <4>a, PushFacts
      <4>c. Push(y, f)[1] = y
        BY <4>1, <4>b
      <4>3. g \in Seq(Slots \ {0}) /\ Len(g) = Len(f) + 1 /\ g[1] = u[1]
        BY <4>2, <4>b, <4>c DEF y
      <4> QED BY <4>1, <4>3
    <3>5. Rest(g) = <<>>
      <4> HIDE DEF g
      <4>1. Rest(g) \in Seq(Slots \ {0}) /\ Len(Rest(g)) = 0
        BY <3>4, RestFacts
      <4> QED BY <4>1
    <3> QED BY <2>2, <3>2, <3>3, <3>4, <3>5
  <2> QED BY <2>1, <2>2
<1>7. \A n \in 1 .. Len(v) : v[n] \in Slots /\ v[n] # x
  <2>1. v \in Seq(Slots \ {0}) /\ \A n \in 1 .. Len(v) : v[n] # x
    <3> HIDE DEF v, g, c, x
    <3>1. v \in Seq(Slots \ {0}) /\ \A s \in Slots \ {0} : Holds(v, s) <=> ~ Holds(g, s)
      BY <1>6 DEF Listed
    <3>2. Holds(g, x)
      <4>1. g \in Seq(Slots \ {0})
        BY <1>6 DEF Listed
      <4>2. 1 \in 1 .. Len(g)
        BY <1>6, <4>1
      <4> QED BY <1>6, <4>2 DEF Holds
    <3> QED BY <1>5, <3>1, <3>2 DEF Holds
  <2> HIDE DEF v, x
  <2> QED BY <2>1
<1>8. e = Put(c, t)
  BY InsertPuts, Zenon
<1>9. Listed(e, Grown(v, x), Rest(g))
  <2> HIDE DEF v, g, c, x, e
  <2> QED BY <1>6, <1>8, PutListed
<1>10. /\ e.records[x].timestamp = t
       /\ \A s \in Slots \ {x} : e.records[s].timestamp = d.records[s].timestamp
  <2>1. c.free_head = x
    <3> HIDE DEF v, g, c, x, e
    <3> QED BY <1>6 DEF Listed, Chain
  <2> HIDE DEF v, g, c, x, e
  <2>2. \A s \in Slots : e.records[s].timestamp = IF s = c.free_head THEN t ELSE c.records[s].timestamp
    BY <1>6, <1>8, PutDone
  <2> QED BY <1>5, <1>6, <2>1, <2>2
<1>11. Listed(e, Grown(v, x), IF f = <<>> THEN <<>> ELSE Rest(f))
  BY <1>6, <1>9
<1> HIDE DEF e, v, x, g, c
<1>12. /\ f = <<>> => Len(u) = MAX_RECORDS - 1
       /\ f # <<>> => Len(u) < MAX_RECORDS - 1
  BY <1>3, <1>4
<1> QED BY <1>5, <1>7, <1>10, <1>11, <1>12 DEF e, v, x

-----------------------------------------------------------------------------
(* The invariant until a semop fails.  The semaphore is up unless a daemon *)
(* walks, only one walks, and a head that has been read is still the head. *)

Arranged == Listed(dev, Used, Free)

Alone ==
  /\ sem \in {0, 1}
  /\ \A p \in Procs : pc[p] = "walk" => sem = 0
  /\ \A p, q \in Procs : pc[p] = "walk" /\ pc[q] = "walk" => p = q
  /\ \A p \in Procs : pc[p] = "cleanup" => sem = 1 /\ cur[p] = dev.head
  /\ \A p \in Procs : now[p] <= clock

IInv == TypeOK /\ Arranged /\ Alone /\ Passing

\* The types, as the proofs use them.
LEMMA Types ==
  ASSUME TypeOK
  PROVE  /\ dev \in SharedDev /\ 0 \in Slots /\ clock \in 0 .. MaxTime /\ 0 \in 0 .. MaxTime
         /\ dev.head \in Slots
         /\ sem \in Nat /\ cur \in [Procs -> Slots]
         /\ now \in [Procs -> 0 .. MaxTime]
         /\ pc \in [Procs -> {"sleep", "cleanup", "walk", "calculate", "upload", "insert"}]
         /\ MaxTime \in Nat /\ Interval \in Nat \ {0}
         /\ \A s \in Slots : dev.records[s].timestamp \in Int
<1>1. dev \in SharedDev
  BY DEF TypeOK, SharedDev, Record
<1>2. \A s \in Slots : dev.records[s].timestamp \in Int
  BY <1>1 DEF SharedDev, Record
<1> QED BY <1>1, <1>2, SlotFacts, BwAssumption DEF TypeOK, SharedDev

\* After a step the lists are those that have been shown to be the array's.
LEMMA Relisted ==
  ASSUME NEW u, NEW f, Listed(dev', u, f)
  PROVE  Used' = u /\ Arranged'
<1>1. Walk(dev', dev'.head) = u /\ Walk(dev', dev'.free_head) = f
  BY ListedWalks
<1> QED BY <1>1 DEF Used, Free, Arranged

\* A turn of the cleanup at the k-th sample never resets the array.
LEMMA Walked ==
  ASSUME TypeOK, Arranged, NEW p \in Procs, WalkStep(p),
         NEW k \in 1 .. Len(Used), Used[k] = cur[p]
  PROVE  /\ dev' = IF Len(Used) # 1 /\ now[p] - dev.records[Used[k]].timestamp >= Interval
                   THEN shared_delete_dev_records_by_idx(dev, Used[k]) ELSE dev
         /\ IF k = Len(Used)
            THEN Goto(p, "calculate") /\ semaphore_V /\ EndOfScope(p)
            ELSE cur' = [cur EXCEPT ![p] = Used[k + 1]] /\ UNCHANGED <<pc, sem, now>>
         /\ UNCHANGED <<clock, usage>>
<1> DEFINE i == Used[k]
           n == dev.records[i].next
           old == now[p] - dev.records[i].timestamp >= Interval
           e == shared_delete_dev_records_by_idx(dev, i)
           d == IF old THEN e ELSE dev
           reset == i = n \/ d.record_count = 0
<1>1. /\ n = IF k = Len(Used) THEN 0 ELSE Used[k + 1]
      /\ n # i /\ dev.record_count # 0 /\ e.record_count # 0
      /\ Len(Used) = 1 => e = dev
  <2>1. dev \in SharedDev
    BY Types
  <2> QED BY <2>1, Turn DEF Arranged
<1>2. k # Len(Used) => n # 0
  <2>1. Used \in Seq(Slots \ {0})
    BY DEF Arranged, Listed
  <2>2. k # Len(Used) => k + 1 \in 1 .. Len(Used)
    BY <2>1
  <2> QED BY <1>1, <2>1, <2>2
<1>3. /\ dev' = IF reset THEN shared_init_dev_records(d) ELSE d
      /\ IF reset \/ n = 0
         THEN Goto(p, "calculate") /\ semaphore_V /\ EndOfScope(p)
         ELSE cur' = [cur EXCEPT ![p] = n] /\ UNCHANGED <<pc, sem, now>>
      /\ UNCHANGED <<clock, usage>>
  BY Zenon DEF WalkStep
<1>4. ~ reset
  BY <1>1
<1>5. dev' = IF Len(Used) # 1 /\ old THEN e ELSE dev
  BY <1>1, <1>3, <1>4
<1> HIDE DEF reset, d, e
<1> QED BY <1>1, <1>2, <1>3, <1>4, <1>5 DEF e

\* A cleanup drops the k-th sample.
Dropped(p, k) ==
  /\ WalkStep(p) /\ Used[k] = cur[p] /\ Len(Used) # 1
  /\ now[p] - dev.records[Used[k]].timestamp >= Interval
  /\ Used' = Cut(Used, k) /\ Arranged'
  /\ \A s \in Slots : dev'.records[s].timestamp = dev.records[s].timestamp

\* A process uploads to slot x, behind the samples v.
Sent(p, v, x) ==
  /\ Insert(p)
  /\ IF Len(Used) = MAX_RECORDS - 1 THEN v = Cut(Used, 1) /\ 1 \in 1 .. Len(Used)
                                    ELSE v = Used
  /\ x \in Slots \ {0} /\ v \in Seq(Slots \ {0}) /\ \A n \in 1 .. Len(v) : v[n] # x
  /\ Used' = Grown(v, x) /\ Arranged'
  /\ dev'.records[x].timestamp = now[p]
  /\ \A s \in Slots \ {x} : dev'.records[s].timestamp = dev.records[s].timestamp

\* Every step leaves the array alone, drops one expired sample or uploads one.
LEMMA ArrayStep ==
  ASSUME IInv, [Next]_vars
  PROVE  \/ dev' = dev /\ Used' = Used /\ Arranged'
         \/ \E p \in Procs, k \in 1 .. Len(Used) : Dropped(p, k)
         \/ \E p \in Procs : \E v, x : Sent(p, v, x)
<1>0. TypeOK /\ Arranged /\ Passing /\ dev \in SharedDev
  BY Types DEF IInv
<1>1. ASSUME dev' = dev PROVE Used' = Used /\ Arranged'
  BY <1>0, <1>1 DEF Used, Free, Arranged
<1>2. ASSUME NEW p \in Procs, WalkStep(p), dev' # dev
      PROVE  \E k \in 1 .. Len(Used) : Dropped(p, k)
  <2>1. Used \in Seq(Slots \ {0})
    BY <1>0 DEF Arranged, Listed
  <2>2. PICK k \in 1 .. Len(Used) : Used[k] = cur[p]
    <3>1. pc[p] = "walk"
      BY <1>2 DEF WalkStep
    <3> QED BY <1>0, <2>1, <3>1 DEF Passing
  <2>3. /\ Len(Used) # 1 /\ now[p] - dev.records[Used[k]].timestamp >= Interval
        /\ dev' = shared_delete_dev_records_by_idx(dev, Used[k])
    BY <1>0, <1>2, <2>2, Walked
  <2>4. Listed(dev', Cut(Used, k), Push(Used[k], Free))
    BY <1>0, <2>3, Turn DEF Arranged
  <2>5. Used' = Cut(Used, k) /\ Arranged'
    BY <2>4, Relisted
  <2>6. \A s \in Slots : dev'.records[s].timestamp = dev.records[s].timestamp
    <3>1. Used[k] \in Slots
      BY <2>1
    <3> QED BY <1>0, <2>3, <3>1, Deleted
  <2> QED BY <1>2, <2>2, <2>3, <2>5, <2>6 DEF Dropped
<1>3. ASSUME NEW p \in Procs, Insert(p)
      PROVE  \E v, x : Sent(p, v, x)
  <2> DEFINE v == IF Free = <<>> THEN Cut(Used, 1) ELSE Used
             x == IF Free = <<>> THEN Used[1] ELSE Free[1]
  <2>1. now[p] \in Int /\ Listed(dev, Used, Free)
    BY <1>0 DEF Arranged, TypeOK
  <2>2. dev' = shared_insert_dev_record(dev, now[p])
    BY <1>3 DEF Insert
  <2>3. /\ Free = <<>> => Len(Used) = MAX_RECORDS - 1
        /\ Free # <<>> => Len(Used) < MAX_RECORDS - 1
        /\ x \in Slots \ {0}
        /\ \A n \in 1 .. Len(v) : v[n] \in Slots /\ v[n] # x
        /\ Listed(dev', Grown(v, x), IF Free = <<>> THEN <<>> ELSE Rest(Free))
        /\ dev'.records[x].timestamp = now[p]
        /\ \A s \in Slots \ {x} : dev'.records[s].timestamp = dev.records[s].timestamp
    BY <1>0, <2>1, <2>2, Uploaded
  <2>4. Used' = Grown(v, x) /\ Arranged'
    <3> HIDE DEF v, x
    <3> QED BY <2>3, Relisted
  <2>5. Free = <<>> <=> Len(Used) = MAX_RECORDS - 1
    <3>1. Len(Used) \in Nat
      BY <2>1 DEF Listed
    <3> QED BY <2>3, <3>1, BwAssumption
  <2>6. Free = <<>> => 1 \in 1 .. Len(Used)
    BY <2>3, BwAssumption
  <2>7. v \in Seq(Slots \ {0})
    <3>1. Used \in Seq(Slots \ {0})
      BY <2>1 DEF Listed
    <3> QED BY <2>6, <3>1, CutFacts
  <2>8. IF Len(Used) = MAX_RECORDS - 1 THEN v = Cut(Used, 1) /\ 1 \in 1 .. Len(Used)
                                       ELSE v = Used
    BY <2>5, <2>6
  <2> HIDE DEF v, x
  <2>9. Sent(p, v, x)
    BY <1>3, <2>3, <2>4, <2>7, <2>8 DEF Sent
  <2> QED BY <2>9
<1>4. \/ dev' = dev
      \/ \E p \in Procs : WalkStep(p)
      \/ \E p \in Procs : Insert(p)
  BY DEF Next, Daemon, vars, Tick, cleanup_shared_old_records, EnterCleanup,
         calculate_bandwidth, upload_bandwidth, kuaf_bw_get, kuaf_bw_record
<1> QED BY <1>1, <1>2, <1>3, <1>4

\* The invariant holds at first.
LEMMA InitIInv == Init => IInv
<1> SUFFICES ASSUME Init PROVE IInv
  OBVIOUS
<1>1. TypeOK
  BY TypeInit
<1>2. Listed(dev, <<>>, [n \in 1 .. MAX_RECORDS - 1 |-> n])
  <2>1. Zeroed.records \in [Slots -> Record]
    BY SlotFacts, BwAssumption DEF Zeroed, Record, Ancient
  <2> QED BY <2>1, ResetListed DEF Init
<1>3. Arranged
  <2>1. Used = <<>> /\ Free = [n \in 1 .. MAX_RECORDS - 1 |-> n]
    BY <1>2, ListedWalks DEF Used, Free
  <2> QED BY <1>2, <2>1 DEF Arranged
<1>4. Alone /\ Passing
  BY BwAssumption DEF Init, Alone, Passing
<1> QED BY <1>1, <1>3, <1>4 DEF IInv

\* Whoever changes the array does so while no head has been read.
LEMMA AloneStep ==
  ASSUME ~Overlap, TypeOK, Alone, [Next]_vars, UNCHANGED slips
  PROVE  Alone'
<1>0. /\ dev.head \in Slots /\ clock \in 0 .. MaxTime /\ slips \in Nat
      /\ sem \in Nat /\ cur \in [Procs -> Slots]
      /\ now \in [Procs -> 0 .. MaxTime] /\ MaxTime \in Nat
      /\ pc \in [Procs -> {"sleep", "cleanup", "walk", "calculate", "upload", "insert"}]
  BY Types, BwAssumption DEF TypeOK
<1>a. ASSUME NEW p \in Procs, semaphore_P(p)
      PROVE  /\ sem = 1 /\ Inside = 0 /\ Passed = 1
             /\ \A q \in Procs : pc[q] # "walk" /\ (q # p => pc[q] # "cleanup")
  BY <1>0, <1>a DEF semaphore_P, Undisturbed, Inside, Passed, Alone
<1> USE DEF Alone, Goto
<1>1. CASE UNCHANGED vars
  BY <1>1 DEF vars
<1>2. CASE Tick
  <2>1. \A p \in Procs : now[p] \in Int /\ now[p] <= clock + 1
    BY <1>0
  <2> QED BY <1>2, <2>1 DEF Tick
<1>3. ASSUME NEW p \in Procs, cleanup_shared_old_records(p) PROVE Alone'
  <2>1. sem = 1 /\ UNCHANGED <<dev, sem, clock>>
    BY <1>3 DEF cleanup_shared_old_records
  <2> QED BY <1>0, <1>3, <2>1 DEF cleanup_shared_old_records
<1>4. ASSUME NEW p \in Procs, EnterCleanup(p) PROVE Alone'
  <2>1. /\ sem = 1 /\ Inside = 0 /\ Passed = 1 /\ pc[p] = "cleanup"
        /\ \A q \in Procs : pc[q] # "walk" /\ (q # p => pc[q] # "cleanup")
    BY <1>a, <1>4 DEF EnterCleanup
  <2>3. UNCHANGED <<clock, dev>>
    BY <1>4 DEF EnterCleanup
  <2>4. \/ pc' = [pc EXCEPT ![p] = "calculate"] /\ sem' = 1
        \/ pc' = [pc EXCEPT ![p] = "walk"] /\ sem' = 0
    BY <1>4, <2>1 DEF EnterCleanup
  <2>5. /\ sem' \in {0, 1}
        /\ \A q \in Procs : pc'[q] = "walk" => sem' = 0 /\ q = p
        /\ \A q \in Procs : pc'[q] # "cleanup"
    BY <1>0, <2>1, <2>4
  <2>6. \A q \in Procs : now'[q] <= clock
    BY <1>0, <1>4 DEF EnterCleanup, EndOfScope
  <2> QED BY <2>3, <2>5, <2>6
<1>5. ASSUME NEW p \in Procs, WalkStep(p) PROVE Alone'
  <2>1. /\ pc[p] = "walk" /\ sem = 0
        /\ \A q \in Procs : pc[q] # "cleanup" /\ (pc[q] = "walk" => q = p)
    BY <1>0, <1>5 DEF WalkStep
  <2>2. \/ pc' = [pc EXCEPT ![p] = "calculate"] /\ semaphore_V /\ EndOfScope(p)
        \/ UNCHANGED <<pc, sem, now>>
    BY <1>5 DEF WalkStep
  <2>3. clock' = clock
    BY <1>5 DEF WalkStep
  <2> QED BY <1>0, <2>1, <2>2, <2>3 DEF EndOfScope, semaphore_V
<1>6. ASSUME NEW p \in Procs, calculate_bandwidth(p) PROVE Alone'
  <2>1. sem = 1 /\ sem' = 1
    BY <1>a, <1>6 DEF calculate_bandwidth
  <2> QED BY <1>0, <1>6, <2>1 DEF calculate_bandwidth
<1>7. ASSUME NEW p \in Procs, upload_bandwidth(p) PROVE Alone'
  BY <1>0, <1>7 DEF upload_bandwidth
<1>8. ASSUME NEW p \in Procs, Insert(p) PROVE Alone'
  <2>1. /\ pc[p] = "insert" /\ sem = 1 /\ sem' = 1
        /\ \A q \in Procs : pc[q] # "walk" /\ pc[q] # "cleanup"
    BY <1>a, <1>8 DEF Insert
  <2> QED BY <1>0, <1>8, <2>1 DEF Insert, EndOfScope
<1>9. ASSUME NEW p \in Procs, kuaf_bw_get(p) \/ kuaf_bw_record(p) PROVE Alone'
  <2>1. sem' = sem
    BY <1>a, <1>9 DEF kuaf_bw_get, kuaf_bw_record
  <2> QED BY <1>9, <2>1 DEF kuaf_bw_get, kuaf_bw_record
<1> QED BY <1>1, <1>2, <1>3, <1>4, <1>5, <1>6, <1>7, <1>8, <1>9 DEF Next, Daemon

\* The walk stays on the list, behind it only what has not expired.
LEMMA PassingStep ==
  ASSUME IInv, [Next]_vars, UNCHANGED slips
  PROVE  Passing'
<1>0. /\ cur \in [Procs -> Slots] /\ dev \in SharedDev
      /\ now \in [Procs -> 0 .. MaxTime]
      /\ pc \in [Procs -> {"sleep", "cleanup", "walk", "calculate", "upload", "insert"}]
      /\ TypeOK /\ Arranged /\ Passing /\ Alone
      /\ Used \in Seq(Slots \ {0}) /\ Len(Used) \in Nat
  BY Types DEF IInv, Arranged, Listed
<1> SUFFICES ASSUME NEW q \in Procs, pc'[q] = "walk"
             PROVE  \E n \in 1 .. Len(Used') :
                      /\ Used'[n] = cur'[q]
                      /\ \A m \in 1 .. n - 1 :
                           now'[q] - dev'.records[Used'[m]].timestamp < Interval
  <2>1. Used' \in Seq(Slots \ {0})
    <3>1. Arranged'
      BY ArrayStep DEF Sent, Dropped
    <3> QED BY <3>1 DEF Arranged, Listed
  <2> QED BY <2>1 DEF Passing
<1>1. ASSUME NEW p \in Procs, WalkStep(p)
      PROVE  \E n \in 1 .. Len(Used') :
                      /\ Used'[n] = cur'[q]
                      /\ \A m \in 1 .. n - 1 :
                           now'[q] - dev'.records[Used'[m]].timestamp < Interval
  <2>1. pc[p] = "walk" /\ p = q
    <3>1. pc[p] = "walk"
      BY <1>0, <1>1 DEF WalkStep, Alone
    <3>2. pc[q] = "walk"
      BY <1>0, <1>1 DEF WalkStep, Goto
    <3> QED BY <1>0, <3>1, <3>2 DEF Alone
  <2>2. PICK k \in 1 .. Len(Used) :
          /\ Used[k] = cur[q]
          /\ \A m \in 1 .. k - 1 : now[q] - dev.records[Used[m]].timestamp < Interval
    <3>1. \E n \in DOMAIN Used :
            /\ Used[n] = cur[q]
            /\ \A m \in 1 .. n - 1 : now[q] - dev.records[Used[m]].timestamp < Interval
      BY <1>0, <2>1 DEF Passing
    <3>2. DOMAIN Used = 1 .. Len(Used)
      BY <1>0
    <3> QED BY <3>1, <3>2
  <2>3. /\ k # Len(Used) /\ cur'[q] = Used[k + 1] /\ now'[q] = now[q]
        /\ dev' = IF Len(Used) # 1 /\ now[q] - dev.records[Used[k]].timestamp >= Interval
                  THEN shared_delete_dev_records_by_idx(dev, Used[k]) ELSE dev
    <3>1. k = Len(Used) => pc'[q] = "calculate"
      BY <1>0, <1>1, <2>1, <2>2, Walked DEF Goto
    <3>2. k # Len(Used)
      BY <3>1
    <3>3. cur' = [cur EXCEPT ![q] = Used[k + 1]] /\ now' = now
      BY <1>0, <1>1, <2>1, <2>2, <3>2, Walked
    <3>4. dev' = IF Len(Used) # 1 /\ now[q] - dev.records[Used[k]].timestamp >= Interval
                 THEN shared_delete_dev_records_by_idx(dev, Used[k]) ELSE dev
      BY <1>0, <1>1, <2>1, <2>2, Walked
    <3> QED BY <1>0, <3>2, <3>3, <3>4
  <2>4. k \in Nat /\ k >= 1 /\ k < Len(Used) /\ k + 1 \in 1 .. Len(Used)
    BY <1>0, <2>3
  <2>5. CASE now[q] - dev.records[Used[k]].timestamp >= Interval
    <3>1. dev' = shared_delete_dev_records_by_idx(dev, Used[k]) /\ Len(Used) # 1
      BY <2>3, <2>4, <2>5
    <3>2. Used' = Cut(Used, k)
      <4>1. Listed(dev', Cut(Used, k), Push(Used[k], Free))
        BY <1>0, <3>1, Turn DEF Arranged
      <4> QED BY <4>1, Relisted
    <3>3. Len(Used') = Len(Used) - 1
          /\ \A n \in 1 .. Len(Used) - 1 : Used'[n] = IF n < k THEN Used[n] ELSE Used[n + 1]
      BY <1>0, <3>2, CutFacts
    <3>4. k \in 1 .. Len(Used') /\ Used'[k] = cur'[q]
      BY <1>0, <2>3, <2>4, <3>3
    <3>5. ASSUME NEW m \in 1 .. k - 1
          PROVE  now'[q] - dev'.records[Used'[m]].timestamp < Interval
      <4>0. m \in 1 .. Len(Used) - 1 /\ m < k /\ m \in 1 .. Len(Used)
        BY <1>0, <2>4
      <4>1. Used'[m] = Used[m] /\ Used[m] \in Slots
        BY <1>0, <3>3, <4>0
      <4>2. dev'.records[Used[m]].timestamp = dev.records[Used[m]].timestamp
        <5> DEFINE i == Used[k]
        <5>1. i \in Slots
          BY <1>0
        <5>2. dev' = shared_delete_dev_records_by_idx(dev, i)
          BY <3>1
        <5> HIDE DEF i
        <5>3. \A s \in Slots : dev'.records[s].timestamp = dev.records[s].timestamp
          BY <1>0, <5>1, <5>2, DeleteTimes
        <5> QED BY <4>1, <5>3
      <4> QED BY <2>2, <2>3, <4>1, <4>2
    <3> QED BY <3>4, <3>5
  <2>6. CASE ~ (now[q] - dev.records[Used[k]].timestamp >= Interval)
    <3>1. dev' = dev /\ Used' = Used
      BY <2>3, <2>6 DEF Used
    <3>2. now[q] - dev.records[Used[k]].timestamp < Interval
      <4>1. Used[k] \in Slots
        BY <1>0
      <4> QED BY <1>0, <2>6, <4>1, Types
    <3>3. ASSUME NEW m \in 1 .. k + 1 - 1
          PROVE  now'[q] - dev'.records[Used'[m]].timestamp < Interval
      <4>1. CASE m = k
        BY <2>3, <3>1, <3>2, <4>1
      <4>2. CASE m # k
        <5>1. m \in 1 .. k - 1
          BY <2>4, <4>2
        <5> QED BY <2>2, <2>3, <3>1, <5>1
      <4> QED BY <4>1, <4>2
    <3> QED BY <2>3, <2>4, <3>1, <3>3
  <2> QED BY <2>5, <2>6
<1>2. CASE EnterCleanup(q)
  <2>1. dev' = dev /\ Used' = Used
    BY <1>2 DEF EnterCleanup, Used
  <2>2. pc[q] = "cleanup" /\ cur[q] # 0 /\ cur' = cur
    BY <1>0, <1>2 DEF EnterCleanup, Goto
  <2>3. cur[q] = dev.head
    BY <1>0, <2>2 DEF Alone
  <2>4. Used # <<>> /\ Used[1] = dev.head
    BY <1>0, <2>2, <2>3 DEF Arranged, Listed, Chain
  <2>5. 1 \in 1 .. Len(Used) /\ 1 .. (1 - 1) = {}
    BY <1>0, <2>4
  <2> QED BY <2>1, <2>2, <2>3, <2>4, <2>5
<1>3. ASSUME \A p \in Procs : ~WalkStep(p), ~EnterCleanup(q)
      PROVE  dev' = dev /\ cur'[q] = cur[q] /\ now'[q] = now[q] /\ pc[q] = "walk"
  <2>1. pc[q] = "walk"
    BY <1>0, <1>3 DEF Next, Daemon, vars, Tick, cleanup_shared_old_records, EnterCleanup,
         calculate_bandwidth, upload_bandwidth, Insert, kuaf_bw_get, kuaf_bw_record, Goto
  <2>2. sem = 0
    BY <1>0, <2>1 DEF Alone
  <2>3. \A p \in Procs : ~ semaphore_P(p)
    BY <1>0, <2>2, BwAssumption DEF semaphore_P, TypeOK
  <2> QED BY <1>0, <1>3, <2>1, <2>3
          DEF Next, Daemon, vars, Tick, cleanup_shared_old_records, EnterCleanup,
              calculate_bandwidth, upload_bandwidth, Insert, kuaf_bw_get, kuaf_bw_record,
              Goto, EndOfScope
<1>4. CASE dev' = dev /\ cur'[q] = cur[q] /\ now'[q] = now[q] /\ pc[q] = "walk"
  <2>1. Used' = Used /\ DOMAIN Used = 1 .. Len(Used)
    BY <1>0, <1>4 DEF Used
  <2> QED BY <1>0, <1>4, <2>1 DEF Passing
<1> QED BY <1>1, <1>2, <1>3, <1>4

\* The number of failed semops only grows.
LEMMA SlipsGrow ==
  ASSUME TypeOK, [Next]_vars, slips' = 0
  PROVE  slips = 0 /\ UNCHANGED slips
<1>1. slips \in Nat
  BY BwAssumption DEF TypeOK
<1>2. slips' = slips \/ slips' = slips + 1
  BY DEF Next, Daemon, vars, Tick, cleanup_shared_old_records, EnterCleanup, WalkStep,
         calculate_bandwidth, upload_bandwidth, Insert, kuaf_bw_get, kuaf_bw_record,
         semaphore_P
<1> QED BY <1>1, <1>2

\* The invariant is inductive as long as no semop fails.
LEMMA IInvStep ==
  ASSUME ~Overlap, IInv, [Next]_vars, UNCHANGED slips
  PROVE  IInv'
<1>1. TypeOK'
  BY TypeStep DEF IInv
<1>2. Arranged'
  BY ArrayStep DEF Sent, Dropped
<1>3. Alone'
  BY AloneStep DEF IInv
<1>4. Passing'
  BY PassingStep
<1> QED BY <1>1, <1>2, <1>3, <1>4 DEF IInv

\* It holds until one does.
Unslipped == TypeOK /\ (slips = 0 => IInv)
LEMMA Invariance == ~Overlap /\ Spec => []Unslipped
<1> SUFFICES ASSUME ~Overlap PROVE Spec => []Unslipped
  OBVIOUS
<1>1. Unslipped /\ [Next]_vars => Unslipped'
  BY TypeStep, SlipsGrow, IInvStep DEF Unslipped
<1>2. Init => Unslipped
  BY InitIInv, TypeInit DEF Unslipped
<1> QED BY <1>1, <1>2, PTL DEF Spec

\* The cleanup's walk is on the list, and leaves no expired sample behind but
\* the last.
THEOREM WalkOnListCorrect == ~Overlap /\ Spec => []WalkOnList
<1>1. Unslipped => WalkOnList
  BY DEF Unslipped, IInv, WalkOnList
<1> QED BY <1>1, Invariance, PTL

\* The array is always one list of samples and one of free slots.
THEOREM WellFormedCorrect == ~Overlap /\ Spec => []WellFormed
<1>1. Unslipped => WellFormed
  <2> SUFFICES ASSUME Arranged PROVE Structured
    BY DEF Unslipped, IInv, WellFormed
  <2>1. /\ Used \in Seq(Slots \ {0}) /\ Free \in Seq(Slots \ {0})
        /\ \A s \in Slots \ {0} : Holds(Used, s) <=> ~ Holds(Free, s)
        /\ Len(Used) + Len(Free) = MAX_RECORDS - 1
        /\ dev.record_count = Len(Used)
        /\ dev.tail = (IF Used = <<>> THEN 0 ELSE Used[Len(Used)])
        /\ Reverse(dev, Used)
    BY DEF Arranged, Listed
  <2>2. Len(Used) \in Nat /\ Len(Free) \in Nat /\ DOMAIN Used = 1 .. Len(Used)
        /\ DOMAIN Free = 1 .. Len(Free)
    BY <2>1
  <2>3. Ends(dev, dev.head) /\ Ends(dev, dev.free_head)
    BY <2>1, <2>2, BwAssumption DEF Ends, Used, Free
  <2>4. {Used[n] : n \in DOMAIN Used} \cup {Free[n] : n \in DOMAIN Free} = Slots \ {0}
    BY <2>1, <2>2 DEF Holds
  <2>5. \A n \in DOMAIN Used :
          dev.records[Used[n]].prev = IF n = 1 THEN 0 ELSE Used[n - 1]
    BY <2>1, <2>2 DEF Reverse
  <2> QED BY <2>1, <2>3, <2>4, <2>5 DEF Structured
<1> QED BY <1>1, Invariance, PTL

\* No sample is lost before it expires, unless the array is full: what
\* overlapping cleanups break (run BwRace).
THEOREM UsageCollectedCorrect == ~Overlap /\ Spec => UsageCollected
<1>1. Unslipped /\ [Next]_vars =>
        [\A n \in DOMAIN Used :
           LET t == dev.records[Used[n]].timestamp IN
           clock - t < Interval =>
             \/ \E m \in DOMAIN Used' : dev'.records[Used'[m]].timestamp = t
             \/ n = 1 /\ Len(Used) = MAX_RECORDS - 1
             \/ slips' > 0]_vars
  <2>a. slips' # 0 /\ Unslipped /\ [Next]_vars => slips' > 0
    BY TypeStep, BwAssumption DEF Unslipped, TypeOK
  <2>b. slips' = 0 /\ Unslipped /\ [Next]_vars => IInv
    BY SlipsGrow DEF Unslipped
  <2> SUFFICES ASSUME IInv, [Next]_vars, NEW n \in DOMAIN Used,
                      clock - dev.records[Used[n]].timestamp < Interval,
                      ~ (n = 1 /\ Len(Used) = MAX_RECORDS - 1)
               PROVE  \E m \in DOMAIN Used' :
                        dev'.records[Used'[m]].timestamp = dev.records[Used[n]].timestamp
    BY <2>a, <2>b, Zenon
  <2>1. /\ Used \in Seq(Slots \ {0}) /\ Len(Used) \in Nat /\ n \in 1 .. Len(Used)
        /\ Used[n] \in Slots \ {0} /\ dev.records[Used[n]].timestamp \in Int
        /\ clock \in Int /\ now \in [Procs -> 0 .. MaxTime] /\ Interval \in Int
        /\ Alone
    <3>1. TypeOK /\ Arranged /\ Alone
      BY DEF IInv
    <3>2. Used \in Seq(Slots \ {0})
      BY <3>1 DEF Arranged, Listed
    <3> QED BY <3>1, <3>2, Types
  <2>2. CASE dev' = dev /\ Used' = Used
    BY <2>2
  <2>3. ASSUME NEW p \in Procs, NEW k \in 1 .. Len(Used), Dropped(p, k)
        PROVE  \E m \in DOMAIN Used' :
                 dev'.records[Used'[m]].timestamp = dev.records[Used[n]].timestamp
    <3>1. n # k
      <4>1. now[p] \in Int /\ now[p] <= clock
        BY <2>1 DEF Alone
      <4>2. now[p] - dev.records[Used[k]].timestamp >= Interval
        BY <2>3 DEF Dropped
      <4> QED BY <2>1, <4>1, <4>2
    <3>2. /\ Used' \in Seq(Slots \ {0}) /\ Len(Used') = Len(Used) - 1
          /\ \A j \in 1 .. Len(Used) - 1 : Used'[j] = IF j < k THEN Used[j] ELSE Used[j + 1]
      BY <2>1, <2>3, CutFacts DEF Dropped
    <3> DEFINE m == IF n < k THEN n ELSE n - 1
    <3>3. m \in 1 .. Len(Used) - 1 /\ (m < k => m = n) /\ (~ (m < k) => m + 1 = n)
      BY <2>1, <3>1
    <3>4. Used'[m] = Used[n] /\ m \in DOMAIN Used'
      <4> HIDE DEF m
      <4> QED BY <2>1, <3>2, <3>3
    <3> QED BY <2>1, <2>3, <3>4 DEF Dropped
  <2>4. ASSUME NEW p \in Procs, NEW v, NEW x, Sent(p, v, x)
        PROVE  \E m \in DOMAIN Used' :
                 dev'.records[Used'[m]].timestamp = dev.records[Used[n]].timestamp
    <3>1. /\ v \in Seq(Slots \ {0}) /\ x \in Slots \ {0}
          /\ \A j \in 1 .. Len(v) : v[j] # x
          /\ IF Len(Used) = MAX_RECORDS - 1 THEN v = Cut(Used, 1) /\ 1 \in 1 .. Len(Used)
                                            ELSE v = Used
          /\ \A s \in Slots \ {x} : dev'.records[s].timestamp = dev.records[s].timestamp
      BY <2>4 DEF Sent
    <3>2. /\ Used' \in Seq(Slots \ {0}) /\ Len(Used') = Len(v) + 1
          /\ \A j \in 1 .. Len(v) + 1 : Used'[j] = IF j <= Len(v) THEN v[j] ELSE x
      BY <2>4, <3>1, GrownFacts DEF Sent
    <3>3. PICK m \in 1 .. Len(v) : v[m] = Used[n]
      <4>1. CASE Len(Used) = MAX_RECORDS - 1
        <5>1. v = Cut(Used, 1) /\ 1 \in 1 .. Len(Used)
          BY <3>1, <4>1
        <5>2. /\ Len(v) = Len(Used) - 1
              /\ \A j \in 1 .. Len(Used) - 1 : v[j] = IF j < 1 THEN Used[j] ELSE Used[j + 1]
          BY <2>1, <5>1, CutFacts
        <5>3. n - 1 \in 1 .. Len(Used) - 1 /\ ~ (n - 1 < 1) /\ n - 1 + 1 = n
          BY <2>1, <4>1
        <5>4. n - 1 \in 1 .. Len(v) /\ v[n - 1] = Used[n]
          BY <5>2, <5>3
        <5> QED BY <5>4
      <4>2. CASE Len(Used) # MAX_RECORDS - 1
        BY <2>1, <3>1, <4>2
      <4> QED BY <4>1, <4>2
    <3>4. m \in 1 .. Len(Used') /\ Used'[m] = Used[n]
      BY <3>1, <3>2, <3>3
    <3>5. dev'.records[Used[n]].timestamp = dev.records[Used[n]].timestamp
      BY <2>1, <3>1, <3>3
    <3>6. m \in DOMAIN Used'
      BY <3>2, <3>4
    <3> QED BY <3>4, <3>5, <3>6
  <2> QED BY <2>2, <2>3, <2>4, ArrayStep
<1> QED BY <1>1, Invariance, PTL DEF Spec, UsageCollected

-----------------------------------------------------------------------------
(* The window of samples *)

Samples == [n \in DOMAIN Used |-> dev.records[Used[n]].timestamp]

\* Both modules count the same way.
LEMMA SameCount ==
  ASSUME NEW S
  PROVE  Window!Cardinality(S) = Cardinality(S)
BY DEF Window!Cardinality, Cardinality

\* Removing the k-th place is cutting it out.
LEMMA RemoveIsCut ==
  ASSUME NEW w \in Seq(Int), NEW k \in 1 .. Len(w)
  PROVE  Window!RemoveAt(w, k) = Cut(w, k)
<1> DEFINE a == SubSeq(w, 1, k - 1)
           b == SubSeq(w, k + 1, Len(w))
<1>0. Len(w) \in Nat
  OBVIOUS
<1>1. /\ a \in Seq(Int) /\ Len(a) = k - 1
      /\ \A n \in 1 .. k - 1 : a[n] = w[n]
  <2>1. 1 \in 1 .. Len(w) + 1 /\ k - 1 \in 0 .. Len(w)
    BY <1>0
  <2> QED BY <1>0, <2>1, SubSeqProperties
<1>2. /\ b \in Seq(Int) /\ Len(b) = Len(w) - k
      /\ \A n \in 1 .. Len(w) - k : b[n] = w[k + n]
  <2>1. k + 1 \in 1 .. Len(w) + 1 /\ Len(w) \in 0 .. Len(w)
    BY <1>0
  <2> QED BY <1>0, <2>1, SubSeqProperties
<1>3. Window!RemoveAt(w, k) = a \o b
  BY DEF Window!RemoveAt
<1> HIDE DEF a, b
<1>4. /\ a \o b \in Seq(Int) /\ Len(a \o b) = Len(w) - 1
      /\ \A n \in 1 .. Len(w) - 1 : (a \o b)[n] = IF n < k THEN a[n] ELSE b[n - (k - 1)]
  <2>1. /\ a \o b \in Seq(Int) /\ Len(a \o b) = Len(a) + Len(b)
        /\ \A n \in 1 .. Len(a) + Len(b) :
             (a \o b)[n] = IF n <= Len(a) THEN a[n] ELSE b[n - Len(a)]
    BY <1>1, <1>2, ConcatProperties
  <2>2. k \in Nat /\ Len(w) \in Nat /\ Len(a) + Len(b) = Len(w) - 1
    BY <1>0, <1>1, <1>2
  <2>3. \A n \in 1 .. Len(w) - 1 : (a \o b)[n] = IF n <= k - 1 THEN a[n] ELSE b[n - (k - 1)]
    BY <1>1, <2>1, <2>2
  <2>4. \A n \in 1 .. Len(w) - 1 : n <= k - 1 <=> n < k
    BY <2>2
  <2> QED BY <2>1, <2>2, <2>3, <2>4
<1>5. ASSUME NEW n \in 1 .. Len(w) - 1 PROVE (a \o b)[n] = Cut(w, k)[n]
  <2>1. Cut(w, k)[n] = IF n < k THEN w[n] ELSE w[n + 1]
    BY CutFacts
  <2>2. CASE n < k
    <3>1. n \in 1 .. k - 1
      BY <1>0, <2>2
    <3> QED BY <1>1, <1>4, <2>1, <2>2, <3>1
  <2>3. CASE ~ (n < k)
    <3>1. n - (k - 1) \in 1 .. Len(w) - k /\ k + (n - (k - 1)) = n + 1
      BY <1>0, <2>3
    <3>2. b[n - (k - 1)] = w[n + 1]
      BY <1>2, <3>1
    <3> QED BY <1>4, <2>1, <2>3, <3>2
  <2> QED BY <2>2, <2>3
<1>6. Cut(w, k) \in Seq(Int) /\ Len(Cut(w, k)) = Len(w) - 1
  BY CutFacts
<1> QED BY <1>3, <1>4, <1>5, <1>6, SeqEqual

\* The samples after a cleanup's drop and after an upload.
LEMMA SamplesAfter ==
  ASSUME IInv
  PROVE  /\ Samples \in Seq(Int) /\ Len(Samples) = Len(Used) /\ Len(Used) \in Nat
         /\ \A p \in Procs, k \in 1 .. Len(Used) : Dropped(p, k) => Samples' = Cut(Samples, k)
         /\ \A p \in Procs : \A v, x : Sent(p, v, x) =>
              Samples' = Append(IF Len(Samples) = MAX_RECORDS - 1 THEN Tail(Samples) ELSE Samples,
                                now[p])
<1>0. /\ Used \in Seq(Slots \ {0}) /\ Len(Used) \in Nat /\ dev \in SharedDev
      /\ \A s \in Slots : dev.records[s].timestamp \in Int
      /\ now \in [Procs -> 0 .. MaxTime] /\ MaxTime \in Nat
  BY Types DEF IInv, Arranged, Listed
<1>1. /\ Samples \in Seq(Int) /\ Len(Samples) = Len(Used)
      /\ \A n \in 1 .. Len(Used) : Samples[n] = dev.records[Used[n]].timestamp
  <2>1. Samples \in [1 .. Len(Used) -> Int]
    BY <1>0 DEF Samples
  <2>2. \A n \in 1 .. Len(Used) : Samples[n] = dev.records[Used[n]].timestamp
    BY <1>0 DEF Samples
  <2> QED BY <1>0, <2>1, <2>2, FcnSeq
<1>2. ASSUME NEW p \in Procs, NEW k \in 1 .. Len(Used), Dropped(p, k)
      PROVE  Samples' = Cut(Samples, k)
  <2>1. /\ Used' \in Seq(Slots \ {0}) /\ Len(Used') = Len(Used) - 1
        /\ \A n \in 1 .. Len(Used) - 1 : Used'[n] = IF n < k THEN Used[n] ELSE Used[n + 1]
    BY <1>0, <1>2, CutFacts DEF Dropped
  <2>2. \A s \in Slots : dev'.records[s].timestamp = dev.records[s].timestamp
    BY <1>2 DEF Dropped
  <2>3. Samples' = [n \in 1 .. Len(Used) - 1 |-> dev'.records[Used'[n]].timestamp]
    BY <2>1 DEF Samples
  <2>4. ASSUME NEW n \in 1 .. Len(Used) - 1
        PROVE  dev'.records[Used'[n]].timestamp = IF n < k THEN Samples[n] ELSE Samples[n + 1]
    <3>1. n \in 1 .. Len(Used) /\ n + 1 \in 1 .. Len(Used)
      BY <1>0
    <3>2. Used[n] \in Slots /\ Used[n + 1] \in Slots
      BY <1>0, <3>1
    <3> QED BY <1>1, <2>1, <2>2, <3>1, <3>2
  <2>5. Cut(Samples, k) = [n \in 1 .. Len(Used) - 1 |-> IF n < k THEN Samples[n] ELSE Samples[n + 1]]
    BY <1>1 DEF Cut
  <2> QED BY <2>3, <2>4, <2>5
<1>3. ASSUME NEW p \in Procs, NEW v, NEW x, Sent(p, v, x)
      PROVE  Samples' = Append(IF Len(Samples) = MAX_RECORDS - 1 THEN Tail(Samples) ELSE Samples,
                               now[p])
  <2> DEFINE w == IF Len(Samples) = MAX_RECORDS - 1 THEN Tail(Samples) ELSE Samples
             full == Len(Used) = MAX_RECORDS - 1
  <2>1. /\ v \in Seq(Slots \ {0}) /\ x \in Slots \ {0}
        /\ \A j \in 1 .. Len(v) : v[j] # x
        /\ IF full THEN v = Cut(Used, 1) /\ 1 \in 1 .. Len(Used) ELSE v = Used
        /\ dev'.records[x].timestamp = now[p]
        /\ \A s \in Slots \ {x} : dev'.records[s].timestamp = dev.records[s].timestamp
    BY <1>3 DEF Sent
  <2>2. /\ Used' \in Seq(Slots \ {0}) /\ Len(Used') = Len(v) + 1
        /\ \A j \in 1 .. Len(v) + 1 : Used'[j] = IF j <= Len(v) THEN v[j] ELSE x
    BY <1>3, <2>1, GrownFacts DEF Sent
  <2>3. /\ w \in Seq(Int) /\ Len(w) = Len(v)
        /\ \A n \in 1 .. Len(v) : w[n] = dev.records[v[n]].timestamp
    <3>1. CASE full
      <4>1. /\ Len(v) = Len(Used) - 1
            /\ \A j \in 1 .. Len(Used) - 1 : v[j] = IF j < 1 THEN Used[j] ELSE Used[j + 1]
        BY <1>0, <2>1, <3>1, CutFacts
      <4>2. w = Tail(Samples) /\ Samples # <<>>
        BY <1>0, <1>1, <2>1, <3>1
      <4>3. /\ w \in Seq(Int) /\ Len(w) = Len(Used) - 1
            /\ \A j \in 1 .. Len(Used) - 1 : w[j] = Samples[j + 1]
        <5> HIDE DEF w
        <5> QED BY <1>1, <4>2, HeadTailProperties
      <4>4. \A j \in 1 .. Len(Used) - 1 : j + 1 \in 1 .. Len(Used) /\ ~ (j < 1)
        BY <1>0
      <4> HIDE DEF w
      <4> QED BY <1>1, <4>1, <4>3, <4>4
    <3>2. CASE ~ full
      BY <1>1, <2>1, <3>2
    <3> QED BY <3>1, <3>2
  <2> HIDE DEF w
  <2>4. /\ Append(w, now[p]) \in Seq(Int) /\ Len(Append(w, now[p])) = Len(v) + 1
        /\ \A n \in 1 .. Len(v) + 1 :
             Append(w, now[p])[n] = IF n <= Len(v) THEN w[n] ELSE now[p]
    <3>1. now[p] \in Int
      BY <1>0
    <3> QED BY <2>3, <3>1, AppendProperties
  <2>5. /\ Samples' \in Seq(Int) /\ Len(Samples') = Len(v) + 1
        /\ \A n \in 1 .. Len(v) + 1 :
             Samples'[n] = IF n <= Len(v) THEN dev.records[v[n]].timestamp ELSE now[p]
    <3>1. Samples' = [n \in 1 .. Len(v) + 1 |-> dev'.records[Used'[n]].timestamp]
      BY <2>2 DEF Samples
    <3>2. ASSUME NEW n \in 1 .. Len(v) + 1
          PROVE  dev'.records[Used'[n]].timestamp =
                   IF n <= Len(v) THEN dev.records[v[n]].timestamp ELSE now[p]
      <4>1. CASE n <= Len(v)
        <5>1. n \in 1 .. Len(v)
          BY <2>1, <4>1
        <5>2. v[n] \in Slots \ {x} /\ Used'[n] = v[n]
          BY <2>1, <2>2, <4>1, <5>1
        <5> QED BY <2>1, <4>1, <5>2
      <4>2. CASE ~ (n <= Len(v))
        BY <2>1, <2>2, <4>2
      <4> QED BY <4>1, <4>2
    <3>3. ASSUME NEW n \in 1 .. Len(v) + 1
          PROVE  (IF n <= Len(v) THEN dev.records[v[n]].timestamp ELSE now[p]) \in Int
      <4>1. n <= Len(v) => n \in 1 .. Len(v) /\ v[n] \in Slots
        BY <2>1
      <4>2. now[p] \in Int
        BY <1>0
      <4> QED BY <1>0, <4>1, <4>2
    <3>4. Samples' \in [1 .. Len(v) + 1 -> Int] /\ Len(v) + 1 \in Nat
      BY <2>1, <3>1, <3>2, <3>3
    <3>5. Samples' \in Seq(Int) /\ Len(Samples') = Len(v) + 1
      BY <3>4, FcnSeq
    <3> QED BY <3>1, <3>2, <3>5
  <2>6. \A n \in 1 .. Len(v) + 1 : Samples'[n] = Append(w, now[p])[n]
    <3>1. \A n \in 1 .. Len(v) + 1 : n <= Len(v) => n \in 1 .. Len(v)
      BY <2>1
    <3> QED BY <2>3, <2>4, <2>5, <3>1
  <2>7. Samples' = Append(w, now[p])
    BY <2>4, <2>5, <2>6, SeqEqual
  <2> QED BY <2>7 DEF w
<1> QED BY <1>0, <1>1, <1>2, <1>3

\* The shared array implements the window: a step drops one expired sample,
\* uploads one behind the others, or measures what has not expired.
THEOREM WindowImplemented == ~Overlap /\ Spec => WindowSpec
<1> SUFFICES ASSUME ~Overlap PROVE Spec => WindowSpec
  OBVIOUS
<1>1. Init => Window!Init
  <2> SUFFICES ASSUME Init PROVE Samples = <<>>
    BY DEF Init, Window!Init, Samples
  <2>1. Zeroed.records \in [Slots -> Record]
    BY SlotFacts, BwAssumption DEF Zeroed, Record, Ancient
  <2>2. Listed(dev, <<>>, [n \in 1 .. MAX_RECORDS - 1 |-> n])
    BY <2>1, ResetListed DEF Init
  <2>3. Used = <<>>
    BY <2>2, ListedWalks DEF Used
  <2> QED BY <2>3 DEF Samples
<1>2. IInv /\ [Next]_vars =>
        Window!Next \/ UNCHANGED <<clock, Samples, usage>>
  <2> SUFFICES ASSUME IInv, [Next]_vars,
                      ~ UNCHANGED <<clock, Samples, usage>>
               PROVE  Window!Next
    OBVIOUS
  <2>0. /\ Samples \in Seq(Int) /\ Len(Samples) = Len(Used) /\ Len(Used) \in Nat
        /\ DOMAIN Samples = 1 .. Len(Used) /\ Alone
        /\ now \in [Procs -> 0 .. MaxTime] /\ clock \in 0 .. MaxTime /\ MaxTime \in Nat
        /\ Interval \in Int
    BY SamplesAfter, Types DEF IInv
  <2>1. ASSUME NEW p \in Procs, NEW k \in 1 .. Len(Used), Dropped(p, k) PROVE Window!Next
    <3>1. Samples' = Window!RemoveAt(Samples, k)
      BY <2>0, <2>1, SamplesAfter, RemoveIsCut
    <3>2. clock - Samples[k] >= Interval
      <4>1. now[p] - dev.records[Used[k]].timestamp >= Interval
        BY <2>1 DEF Dropped
      <4>2. Samples[k] = dev.records[Used[k]].timestamp /\ Samples[k] \in Int
        BY <2>0 DEF Samples
      <4>3. now[p] \in Int /\ now[p] <= clock
        BY <2>0 DEF Alone
      <4> QED BY <2>0, <4>1, <4>2, <4>3
    <3>3. UNCHANGED <<clock, usage>>
      BY <2>1 DEF Dropped, WalkStep
    <3>4. Window!Expire(k)
      BY <3>1, <3>2, <3>3 DEF Window!Expire, Window!Age, Samples
    <3>5. k \in DOMAIN Samples
      BY <2>0
    <3> QED BY <3>4, <3>5 DEF Window!Next, Samples
  <2>2. ASSUME NEW p \in Procs, NEW v, NEW x, Sent(p, v, x) PROVE Window!Next
    <3>1. Samples' = Append(IF Len(Samples) = MAX_RECORDS - 1 THEN Tail(Samples) ELSE Samples,
                            now[p])
      BY <2>2, SamplesAfter
    <3>2. UNCHANGED <<clock, usage>>
      BY <2>2 DEF Sent, Insert
    <3>3. PICK t \in 0 .. clock : t = now[p]
      BY <2>0 DEF Alone
    <3>4. Window!Upload(t)
      BY <3>1, <3>2, <3>3 DEF Window!Upload, Samples
    <3> QED BY <3>4 DEF Window!Next
  <2>3. ASSUME dev' = dev, Used' = Used PROVE Window!Next
    <3>1. Samples' = Samples
      BY <2>3 DEF Samples
    <3>2. Total = Window!Fresh
      <4>1. Window!Fresh = Window!Cardinality({i \in DOMAIN Samples : clock - Samples[i] <= Interval})
        BY DEF Window!Fresh, Window!Age, Samples
      <4>2. {i \in DOMAIN Samples : clock - Samples[i] <= Interval} =
            {n \in DOMAIN Used : clock - dev.records[Used[n]].timestamp <= Interval}
        BY DEF Samples
      <4>3. Total = Cardinality({n \in DOMAIN Used : clock - dev.records[Used[n]].timestamp <= Interval})
        BY DEF Total, Used
      <4> QED BY <4>1, <4>2, <4>3, SameCount
    <3>3. CASE Tick
      BY <3>1, <3>3 DEF Tick, Window!Next, Window!Tick, Samples
    <3>4. ASSUME NEW p \in Procs,
                 calculate_bandwidth(p) \/ kuaf_bw_get(p) \/ kuaf_bw_record(p)
          PROVE  Window!Next
      <4>1. \/ usage' = usage
            \/ usage' = [usage EXCEPT ![p] = Total]
            \/ usage[p] = Unset /\ usage' = [usage EXCEPT ![p] = 0]
        <5>1. usage \in [Procs -> Nat \cup {Unset}]
          BY DEF IInv, TypeOK
        <5> QED BY <3>4, <5>1 DEF calculate_bandwidth, kuaf_bw_get, kuaf_bw_record
      <4>2. clock' = clock
        BY <3>4 DEF calculate_bandwidth, kuaf_bw_get, kuaf_bw_record
      <4>3. Window!Measure(p)
        BY <3>1, <3>2, <4>1, <4>2 DEF Window!Measure, Samples
      <4> QED BY <4>3 DEF Window!Next
    <3>5. \/ Tick
          \/ \E p \in Procs : calculate_bandwidth(p) \/ kuaf_bw_get(p) \/ kuaf_bw_record(p)
      BY <3>1 DEF Next, Daemon, vars, cleanup_shared_old_records, EnterCleanup, WalkStep,
                  upload_bandwidth, Insert
    <3> QED BY <3>3, <3>4, <3>5
  <2> QED BY <2>1, <2>2, <2>3, ArrayStep
<1>3. Unslipped /\ [Next]_vars => [Window!Next \/ slips' > 0]_<<clock, Samples, usage>>
  <2>1. slips' # 0 /\ Unslipped /\ [Next]_vars => slips' > 0
    BY TypeStep, BwAssumption DEF Unslipped, TypeOK
  <2>2. slips' = 0 /\ Unslipped /\ [Next]_vars => IInv
    BY SlipsGrow DEF Unslipped
  <2> QED BY <1>2, <2>1, <2>2
<1>4. Spec => []Unslipped
  BY Invariance
<1> QED BY <1>1, <1>3, <1>4, PTL DEF Spec, WindowSpec, Window!vars, Samples
=============================================================================
