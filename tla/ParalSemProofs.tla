--------------------------- MODULE ParalSemProofs ---------------------------
(***************************************************************************)
(* Theorems about ParalSem, and about ParalFork, for every set of          *)
(* processes, contexts and keys, every limit, and whatever is killed or    *)
(* fails.                                                                  *)
(***************************************************************************)
EXTENDS ParalFork, FiniteSetTheorems, TLAPS

-----------------------------------------------------------------------------
(* Counting units *)

\* Tables of kernel adjustments in which nobody owes more than there is.
Adjustments == [Procs -> [Keys -> Nat]]

\* The units of one key are finitely many.
LEMMA UnitsFinite ==
  ASSUME NEW adj, NEW k \in Keys
  PROVE  IsFiniteSet(UnitsOf(adj, k))
<1>1. IsFiniteSet(1 .. Limit[k])
  BY ParalAssumption, FS_Interval
<1>2. IsFiniteSet(Procs \X (1 .. Limit[k]))
  BY <1>1, ParalAssumption, FS_Product
<1> QED BY <1>2, FS_Subset DEF UnitsOf

\* Taking a unit adds one to the count.
LEMMA UnitsTake ==
  ASSUME NEW adj \in Adjustments, NEW p \in Procs, NEW k \in Keys,
         adj[p][k] < Limit[k]
  PROVE  Cardinality(UnitsOf([adj EXCEPT ![p][k] = @ + 1], k))
           = Cardinality(UnitsOf(adj, k)) + 1
<1> DEFINE new == [adj EXCEPT ![p][k] = @ + 1]
           u == <<p, adj[p][k] + 1>>
<1>1. UnitsOf(new, k) = UnitsOf(adj, k) \cup {u}
  <2>1. Limit[k] \in Nat /\ adj[p][k] \in Nat
    BY ParalAssumption DEF Adjustments
  <2>2. \A q \in Procs : new[q][k] = IF q = p THEN adj[p][k] + 1 ELSE adj[q][k]
    BY DEF Adjustments
  <2>3. \A q \in Procs, n \in 1 .. Limit[k] :
          n <= new[q][k] <=> n <= adj[q][k] \/ <<q, n>> = u
    BY <2>1, <2>2 DEF Adjustments
  <2>4. u \in Procs \X (1 .. Limit[k])
    BY <2>1
  <2> HIDE DEF new, u
  <2> QED BY <2>3, <2>4 DEF UnitsOf
<1>2. u \notin UnitsOf(adj, k)
  BY DEF UnitsOf, Adjustments
<1> HIDE DEF new, u
<1> QED BY <1>1, <1>2, UnitsFinite, FS_AddElement DEF new

\* Giving a unit back takes one from the count.
LEMMA UnitsGive ==
  ASSUME NEW adj \in Adjustments, NEW p \in Procs, NEW k \in Keys,
         adj[p][k] > 0, adj[p][k] <= Limit[k]
  PROVE  Cardinality(UnitsOf([adj EXCEPT ![p][k] = @ - 1], k))
           = Cardinality(UnitsOf(adj, k)) - 1
<1> DEFINE new == [adj EXCEPT ![p][k] = @ - 1]
           u == <<p, adj[p][k]>>
<1>1. UnitsOf(new, k) = UnitsOf(adj, k) \ {u}
  <2>1. adj[p][k] \in Nat
    BY DEF Adjustments
  <2>2. \A q \in Procs : new[q][k] = IF q = p THEN adj[p][k] - 1 ELSE adj[q][k]
    BY DEF Adjustments
  <2>3. \A q \in Procs, n \in 1 .. Limit[k] :
          n <= new[q][k] <=> n <= adj[q][k] /\ <<q, n>> # u
    BY <2>1, <2>2 DEF Adjustments
  <2> HIDE DEF new, u
  <2> QED BY <2>3 DEF UnitsOf
<1>2. u \in UnitsOf(adj, k)
  BY ParalAssumption DEF UnitsOf, Adjustments
<1> HIDE DEF new, u
<1> QED BY <1>1, <1>2, UnitsFinite, FS_RemoveElement DEF new

\* The units of one process are as many as its adjustment says.
LEMMA OwnUnits ==
  ASSUME NEW p \in Procs, NEW n \in Nat
  PROVE  /\ IsFiniteSet({p} \X (1 .. n))
         /\ Cardinality({p} \X (1 .. n)) = n
<1>1. IsFiniteSet(1 .. n) /\ Cardinality(1 .. n) = n
  BY FS_Interval
<1>2. IsFiniteSet({p}) /\ Cardinality({p}) = 1
  BY FS_Singleton
<1> QED BY <1>1, <1>2, FS_Product

\* A process's death takes all it owes from the count.
LEMMA UnitsDrop ==
  ASSUME NEW adj \in Adjustments, NEW p \in Procs, NEW k \in Keys,
         adj[p][k] <= Limit[k]
  PROVE  Cardinality(UnitsOf([adj EXCEPT ![p] = [j \in Keys |-> 0]], k))
           = Cardinality(UnitsOf(adj, k)) - adj[p][k]
<1> DEFINE new == [adj EXCEPT ![p] = [j \in Keys |-> 0]]
           own == {p} \X (1 .. adj[p][k])
<1>1. UnitsOf(new, k) = UnitsOf(adj, k) \ own
  <2>1. adj[p][k] \in Nat
    BY DEF Adjustments
  <2>2. \A q \in Procs : new[q][k] = IF q = p THEN 0 ELSE adj[q][k]
    BY DEF Adjustments
  <2>3. \A q \in Procs, n \in 1 .. Limit[k] :
          n <= new[q][k] <=> n <= adj[q][k] /\ <<q, n>> \notin own
    BY <2>1, <2>2 DEF Adjustments
  <2> HIDE DEF new, own
  <2> QED BY <2>3 DEF UnitsOf
<1>2. UnitsOf(adj, k) \cap own = own
  BY ParalAssumption DEF UnitsOf, Adjustments
<1>3. Cardinality(own) = adj[p][k]
  BY OwnUnits DEF Adjustments
<1>4. Cardinality(UnitsOf(adj, k) \ own)
        = Cardinality(UnitsOf(adj, k)) - Cardinality(UnitsOf(adj, k) \cap own)
  <2> HIDE DEF own
  <2> QED BY UnitsFinite, FS_Difference
<1> QED BY <1>1, <1>2, <1>3, <1>4

\* Nobody owes more than all units together.
LEMMA UnitsBound ==
  ASSUME NEW adj \in Adjustments, NEW p \in Procs, NEW k \in Keys,
         adj[p][k] <= Limit[k]
  PROVE  adj[p][k] <= Cardinality(UnitsOf(adj, k))
<1>1. {p} \X (1 .. adj[p][k]) \subseteq UnitsOf(adj, k)
  BY ParalAssumption DEF UnitsOf, Adjustments
<1>2. Cardinality({p} \X (1 .. adj[p][k])) = adj[p][k]
  BY OwnUnits DEF Adjustments
<1>3. IsFiniteSet(UnitsOf(adj, k))
  BY UnitsFinite
<1> QED BY <1>1, <1>2, <1>3, FS_Subset

-----------------------------------------------------------------------------
(* The inductive invariant *)

\* The processes that are in a section of the existing paral_sem.
Owns(p) == pc[p] \in Critical /\ lockref[p] = "live"
Owners == {p \in Procs : Owns(p)}

\* What paral_sem is worth and the processes in its sections are one and the
\* failed P's at most; no process's death adds more than the unit it holds.
LockOK ==
  /\ lock = -1 => \A p \in Procs : lockref[p] # "live"
  /\ \A p, q \in Procs : pc[p] = "setval" /\ lockref[q] = "live" => q = p
  /\ \A p \in Procs : undo[p] <= IF Owns(p) THEN 1 ELSE 0
  /\ lock + Cardinality(Owners) <= 1 + slips

\* A semaphore between semget and SETVAL is untouched and has one creator.
CreatingOK ==
  \A p \in Procs, k \in Keys : map[p][k] = "creating" =>
    /\ sem[k] = 0
    /\ \A q \in Procs : taken[q][k] = 0 /\ (map[q][k] = "creating" => q = p)

\* List entries and adjustments refer to semaphores that exist.
RefsOK ==
  \A p \in Procs, k \in Keys :
    sem[k] = -1 => map[p][k] \notin {"live", "creating"} /\ taken[p][k] = 0

Starting == {"off", "setval", "initP", "shmat", "sems", "initV"}

\* Contexts are there only after the constructor.
CtxOK ==
  \A p \in Procs : pc[p] \in Starting => ctx[p] = [c \in Ctxs |-> NoCtx]

TakenOK ==
  /\ taken \in Adjustments
  /\ \A p \in Procs, k \in Keys : taken[p][k] <= Limit[k]

UnitsInv == TakenOK /\ CreatingOK /\ RefsOK /\ CtxOK /\ HardOwesUnit /\ Conservation
Inv == TypeOK /\ LockOK /\ UnitsInv

\* The initial state satisfies the invariant.
LEMMA InitInv == Init => Inv
<1> SUFFICES ASSUME Init PROVE Inv
  OBVIOUS
<1> USE DEF Init, PNull, PKeys
<1>1. TypeOK
  <2>1. pc \in [Procs -> PCs] /\ shm \in BOOLEAN
    BY DEF PCs
  <2>2. slips \in Nat /\ lock \in -1 .. (1 + slips) /\ undo \in [Procs -> Int]
    OBVIOUS
  <2>3. idzero \in BOOLEAN
    BY ParalAssumption
  <2>4. sem \in [Keys -> Nat \cup {-1}] /\ taken \in [Procs -> [Keys -> Int]]
    OBVIOUS
  <2> QED BY <2>1, <2>2, <2>3, <2>4 DEF TypeOK
<1>2. LockOK
  <2>1. \A p \in Procs : ~Owns(p)
    BY DEF Owns, Critical
  <2>2. Cardinality(Owners) = 0
    BY <2>1, FS_EmptySet DEF Owners
  <2> QED BY <2>1, <2>2 DEF LockOK
<1>3. TakenOK /\ CreatingOK /\ RefsOK /\ CtxOK
  BY ParalAssumption DEF TakenOK, Adjustments, CreatingOK, RefsOK, CtxOK
<1>4. HardOwesUnit /\ Conservation
  BY DEF HardOwesUnit, Conservation
<1> QED BY <1>1, <1>2, <1>3, <1>4 DEF Inv, UnitsInv

\* A process that enters or leaves a section counts for one.
LEMMA Counted ==
  ASSUME NEW S \in SUBSET Procs
  PROVE  /\ Cardinality(S) \in Nat
         /\ \A p \in Procs :
              /\ p \notin S => Cardinality(S \cup {p}) = Cardinality(S) + 1
              /\ p \in S => Cardinality(S \ {p}) = Cardinality(S) - 1
<1>1. IsFiniteSet(S)
  BY ParalAssumption, FS_Subset
<1> QED BY <1>1, FS_CardinalityType, FS_AddElement, FS_RemoveElement

\* Steps that change neither the owners nor the semaphore.
LEMMA LockSame ==
  ASSUME LockOK, UNCHANGED <<lock, undo, slips>>,
         \A q \in Procs : Owns(q)' <=> Owns(q),
         \A q \in Procs : lockref'[q] = "live" => lockref[q] = "live",
         \A q \in Procs : pc'[q] = "setval" => pc[q] = "setval"
  PROVE  LockOK'
<1>1. Owners' = Owners
  BY DEF Owners
<1> QED BY <1>1 DEF LockOK

\* What paral_sem is worth and its owners stay one and the failed P's.
LEMMA LockStep ==
  ASSUME TypeOK, LockOK, [Next]_vars
  PROVE  LockOK'
<1> USE DEF Critical, Goto
<1>0. /\ lock \in Int /\ slips \in Int /\ Cardinality(Owners) \in Nat
      /\ \A q \in Procs : undo[q] \in Int
  BY Counted DEF TypeOK, Owners
<1>1. ASSUME NEW p \in Procs, init_global_semaphore(p)
      PROVE  LockOK'
  <2>1. /\ \A q \in Procs : q # p => pc'[q] = pc[q] /\ lockref'[q] = lockref[q]
        /\ pc'[p] \in {"setval", "initP", "run"} /\ pc[p] = "off"
        /\ undo' = undo /\ slips' = slips
    BY <1>1 DEF init_global_semaphore, TypeOK
  <2>2. \/ lock = -1 /\ lock' = 0
        \/ lock' = lock /\ lock # -1
        \/ lock' = lock /\ lockref' = lockref
    BY <1>1 DEF init_global_semaphore
  <2>3. \A q \in Procs : Owns(q)' <=> Owns(q)
    BY <2>1 DEF Owns
  <2>4. Owners' = Owners
    BY <2>3 DEF Owners
  <2>5. lock' + Cardinality(Owners') <= 1 + slips'
    <3>1. CASE lock' = lock
      BY <2>1, <2>4, <3>1 DEF LockOK
    <3>2. CASE lock = -1 /\ lock' = 0
      <4>1. Owners = {}
        BY <3>2 DEF LockOK, Owners, Owns
      <4>2. Cardinality(Owners') = 0 /\ slips \in Nat
        BY <2>4, <4>1, FS_EmptySet DEF TypeOK
      <4>3. 0 + 0 <= 1 + slips
        BY <4>2
      <4> QED BY <2>1, <3>2, <4>2, <4>3
    <3> QED BY <2>2, <3>1, <3>2
  <2>6. \A q \in Procs : pc'[q] = "setval" => q = p /\ lock = -1
    BY <1>1, <2>1 DEF init_global_semaphore, TypeOK
  <2>7. lock' = -1 => \A q \in Procs : lockref'[q] # "live"
    BY <2>2 DEF LockOK
  <2> QED BY <2>1, <2>3, <2>5, <2>6, <2>7 DEF LockOK
<1>2. ASSUME NEW p \in Procs, SetLock(p)
      PROVE  LockOK'
  <2>1. /\ \A q \in Procs : q # p => pc'[q] = pc[q]
        /\ pc'[p] = "initP" /\ pc[p] = "setval" /\ lockref' = lockref /\ lock' = 1
        /\ slips' = slips /\ \A q \in Procs : undo'[q] = 0
    BY <1>2 DEF SetLock, TypeOK, PNull
  <2>2. \A q \in Procs : ~Owns(q)'
    BY <2>1 DEF LockOK, Owns
  <2>3. Cardinality(Owners') = 0
    BY <2>2, FS_EmptySet DEF Owners
  <2>4. lock' + Cardinality(Owners') <= 1 + slips'
    BY <1>0, <2>1, <2>3 DEF TypeOK
  <2> QED BY <2>1, <2>2, <2>4 DEF LockOK
<1>3. ASSUME NEW p \in Procs, semaphore_P(p)
      PROVE  LockOK'
  <2>1. /\ \A q \in Procs : q # p => pc'[q] = pc[q]
        /\ pc[p] \in {"initP", "freeP"} /\ pc'[p] \in {"shmat", "shmdt"}
        /\ lockref' = lockref
    BY <1>3 DEF semaphore_P, Enter, TypeOK
  <2>2. CASE lockref[p] = "live"
    <3>1. /\ \A q \in Procs : Owns(q)' <=> Owns(q) \/ q = p
          /\ ~Owns(p)
      BY <2>1, <2>2 DEF Owns
    <3>2. Owners' = Owners \cup {p} /\ p \notin Owners
      BY <3>1 DEF Owners
    <3>3. Cardinality(Owners') = Cardinality(Owners) + 1
      BY <3>2, Counted DEF Owners
    <3>4. \/ lock' = lock - 1 /\ slips' = slips
          \/ lock' = lock /\ slips' = slips + 1
      BY <1>3, <2>2 DEF semaphore_P, Acquire, Slip
    <3>5. lock' + Cardinality(Owners') <= 1 + slips'
      BY <1>0, <3>3, <3>4 DEF LockOK
    <3>6. \A q \in Procs : undo'[q] = undo[q] \/ (q = p /\ undo'[q] = undo[q] + 1)
      BY <1>3 DEF semaphore_P, Acquire, Slip, TypeOK
    <3>7. \A q \in Procs : undo'[q] <= IF Owns(q)' THEN 1 ELSE 0
      BY <1>0, <3>1, <3>6 DEF LockOK
    <3>8. lock # -1 /\ lock >= -1
      BY <2>2 DEF LockOK, TypeOK
    <3>9. lock' # -1
      BY <1>0, <1>3, <2>2, <3>8 DEF semaphore_P, Acquire, Slip
    <3> QED BY <2>1, <3>5, <3>7, <3>9 DEF LockOK
  <2>3. CASE lockref[p] # "live"
    <3>1. UNCHANGED <<lock, undo, slips>>
      BY <1>3, <2>3 DEF semaphore_P, Acquire, Slip
    <3>2. \A q \in Procs : Owns(q)' <=> Owns(q)
      BY <2>1, <2>3 DEF Owns
    <3> QED BY <2>1, <3>1, <3>2, LockSame
  <2> QED BY <2>2, <2>3
<1>4. ASSUME NEW p \in Procs, semaphore_V(p)
      PROVE  LockOK'
  <2>1. /\ \A q \in Procs : q # p => pc'[q] = pc[q]
        /\ pc'[p] \in {"run", "exit"} /\ pc[p] \in {"initV", "freeV"}
        /\ lockref' = lockref /\ slips' = slips
    BY <1>4 DEF semaphore_V, TypeOK
  <2>2. CASE lockref[p] = "live"
    <3>1. /\ \A q \in Procs : Owns(q)' <=> Owns(q) /\ q # p
          /\ Owns(p)
      BY <2>1, <2>2 DEF Owns
    <3>2. Owners' = Owners \ {p} /\ p \in Owners
      BY <3>1 DEF Owners
    <3>3. Cardinality(Owners') = Cardinality(Owners) - 1
      BY <3>2, Counted DEF Owners
    <3>4. lock' \in {lock, lock + 1}
      BY <1>4 DEF semaphore_V, Release
    <3>5. lock' + Cardinality(Owners') <= 1 + slips'
      BY <1>0, <2>1, <3>3, <3>4 DEF LockOK
    <3>6. \A q \in Procs : q # p => undo'[q] = undo[q]
      BY <1>4 DEF semaphore_V, Release, TypeOK
    <3>7. undo'[p] = undo[p] - 1 \/ undo'[p] = 0
      BY <1>4, <2>2 DEF semaphore_V, Release, TypeOK
    <3>8. \A q \in Procs : undo'[q] <= IF Owns(q)' THEN 1 ELSE 0
      BY <1>0, <3>1, <3>6, <3>7 DEF LockOK
    <3>9. lock' # -1
      BY <1>0, <2>2, <3>4 DEF LockOK, TypeOK
    <3> QED BY <2>1, <3>5, <3>8, <3>9 DEF LockOK
  <2>3. CASE lockref[p] # "live"
    <3>1. UNCHANGED <<lock, undo, slips>>
      BY <1>4, <2>1, <2>3 DEF semaphore_V, Release
    <3>2. \A q \in Procs : Owns(q)' <=> Owns(q)
      BY <2>1, <2>3 DEF Owns
    <3> QED BY <2>1, <3>1, <3>2, LockSame
  <2> QED BY <2>2, <2>3
<1>5. ASSUME NEW p \in Procs, KernelExit(p)
      PROVE  LockOK'
  <2>1. /\ \A q \in Procs : q # p => /\ pc'[q] = pc[q] /\ lockref'[q] = lockref[q]
                                      /\ undo'[q] = undo[q]
        /\ pc'[p] = "off" /\ lockref'[p] = "none" /\ undo'[p] = 0
        /\ slips' = slips /\ lock' = AfterUndo(lock, undo[p])
    BY <1>5 DEF KernelExit, TypeOK
  <2>2. \A q \in Procs : Owns(q)' <=> Owns(q) /\ q # p
    BY <2>1 DEF Owns
  <2>3. Owners' = Owners \ {p}
    BY <2>2 DEF Owners
  <2>4. Cardinality(Owners') = Cardinality(Owners) - IF Owns(p) THEN 1 ELSE 0
    <3>1. CASE Owns(p)
      BY <2>3, <3>1, Counted DEF Owners
    <3>2. CASE ~Owns(p)
      <4>1. Owners' = Owners
        BY <2>3, <3>2 DEF Owners
      <4> QED BY <1>0, <3>2, <4>1
    <3> QED BY <3>1, <3>2
  <2>5. /\ lock' = -1 <=> lock = -1
        /\ lock = -1 => Owners = {}
    BY <1>0, <2>1 DEF AfterUndo, LockOK, Owners, Owns
  <2>6. lock' + Cardinality(Owners') <= 1 + slips'
    <3>1. undo[p] <= IF Owns(p) THEN 1 ELSE 0
      BY DEF LockOK
    <3>2. lock + Cardinality(Owners) <= 1 + slips
      BY DEF LockOK
    <3>3. CASE lock = -1
      BY <1>0, <2>1, <2>4, <3>2, <3>3 DEF AfterUndo
    <3>4. CASE lock # -1 /\ lock + undo[p] < 0
      <4>1. lock >= 0
        BY <3>4 DEF TypeOK
      <4>2. lock' = 0 /\ Cardinality(Owners') <= Cardinality(Owners)
        BY <1>0, <2>1, <2>4, <3>4 DEF AfterUndo
      <4>3. Cardinality(Owners') \in Nat
        BY <1>0, <2>3, <2>4, Counted DEF Owners
      <4> QED BY <1>0, <2>1, <3>2, <4>1, <4>2, <4>3
    <3>5. CASE lock # -1 /\ lock + undo[p] >= 0
      <4>1. lock' = lock + undo[p]
        BY <1>0, <2>1, <3>5 DEF AfterUndo
      <4> QED BY <1>0, <2>1, <2>4, <3>1, <3>2, <4>1
    <3> QED BY <1>0, <3>3, <3>4, <3>5
  <2> QED BY <2>1, <2>2, <2>5, <2>6 DEF LockOK
<1>6. ASSUME NEW p \in Procs, RemoveHead(p)
      PROVE  LockOK'
  <2>1. /\ \A q \in Procs : q # p => pc'[q] = pc[q]
        /\ pc'[p] = "rmid" /\ pc[p] = "rmid0" /\ slips' = slips
    BY <1>6 DEF RemoveHead, TypeOK
  <2>2. CASE UNCHANGED <<lock, undo, lockref>>
    <3>1. \A q \in Procs : Owns(q)' <=> Owns(q)
      BY <2>1, <2>2 DEF Owns
    <3> QED BY <2>1, <2>2, <3>1, LockSame
  <2>3. CASE /\ lock' = -1 /\ undo' = PNull(0)
             /\ lockref' = [q \in Procs |-> Dangling(lockref[q])]
    <3>1. \A q \in Procs : lockref'[q] # "live" /\ ~Owns(q)' /\ undo'[q] = 0
      BY <2>3 DEF Dangling, Owns, PNull
    <3>2. Cardinality(Owners') = 0
      BY <3>1, FS_EmptySet DEF Owners
    <3>3. lock' + Cardinality(Owners') <= 1 + slips'
      BY <2>1, <2>3, <3>2 DEF TypeOK
    <3> QED BY <2>3, <3>1, <3>3 DEF LockOK
  <2> QED BY <1>6, <2>2, <2>3 DEF RemoveHead
<1>7. ASSUME NEW p \in Procs,
             EndInit(p) \/ BeginFree(p) \/ kuaf_paral_init(p) \/ kuaf_paral_free(p)
             \/ EndRemove(p)
      PROVE  LockOK'
  <2> USE DEF EndInit, BeginFree, kuaf_paral_init, kuaf_paral_free, LastOut, EndRemove
  <2>1. UNCHANGED <<lock, lockref, undo, slips>>
    BY <1>7 DEF Lock
  <2>2. \A q \in Procs : q # p => pc'[q] = pc[q]
    BY <1>7 DEF TypeOK
  <2>3. pc'[p] # "setval" /\ (pc'[p] \in Critical <=> pc[p] \in Critical)
    BY <1>7 DEF TypeOK
  <2>4. \A q \in Procs : Owns(q)' <=> Owns(q)
    BY <2>1, <2>2, <2>3 DEF Owns
  <2> QED BY <2>1, <2>2, <2>3, <2>4, LockSame
<1>8. ASSUME UNCHANGED <<pc, Lock>>
      PROVE  LockOK'
  BY <1>8, LockSame DEF Owns, Lock
<1>9. ASSUME NEW p \in Procs, NEW k \in Keys,
             init_multi_semaphore(p, k) \/ SetSem(p, k) \/ RemoveSem(p, k)
      PROVE  LockOK'
  BY <1>8, <1>9 DEF init_multi_semaphore, SetSem, RemoveSem
<1>10. ASSUME NEW p \in Procs, CtxStep(p)
       PROVE  LockOK'
  BY <1>8, <1>10 DEF CtxStep, kuaf_ctx_scheduler_create, kuaf_ctx_scheduler,
                     kuaf_ctx_scheduler_free, Shared
<1>11. CASE UNCHANGED vars
  BY <1>8, <1>11 DEF vars, Lock
<1> QED
  BY <1>1, <1>2, <1>3, <1>4, <1>5, <1>6, <1>7, <1>9, <1>10, <1>11
  DEF Next, LibStep, Exit, Crash

\* A value that leaves room for a count is within the bound.
LEMMA ValueWithin ==
  ASSUME NEW v \in Int, NEW n \in Nat, NEW b \in Nat, v >= -1, v + n <= 1 + b
  PROVE  v \in -1 .. (1 + b)
OBVIOUS

\* Every step keeps the types.  That paral_sem stays within its bounds takes
\* more than the types themselves: its value and its owners are counted.
LEMMA TypeStep ==
  ASSUME TypeOK, LockOK, LockOK', [Next]_vars
  PROVE  TypeOK'
<1>0. ASSUME lock' \in Int, slips' \in Nat, lock' >= -1
      PROVE  lock' \in -1 .. (1 + slips')
  <2>1. Cardinality(Owners') \in Nat
    BY Counted DEF Owners
  <2>2. lock' + Cardinality(Owners') <= 1 + slips'
    BY DEF LockOK
  <2> QED BY <1>0, <2>1, <2>2, ValueWithin
<1> USE ParalAssumption DEF TypeOK, PCs, Critical, Goto, Lock
<1>1. ASSUME NEW p \in Procs, init_global_semaphore(p)
      PROVE  TypeOK'
  <2>1. lock' \in -1 .. (1 + slips')
    BY <1>1 DEF init_global_semaphore
  <2> QED BY <1>1, <2>1 DEF init_global_semaphore, Uninit
<1>2. ASSUME NEW p \in Procs, SetLock(p)
      PROVE  TypeOK'
  <2>1. lock' \in -1 .. (1 + slips') /\ undo' \in [Procs -> Int]
    BY <1>2 DEF SetLock, PNull
  <2> QED BY <1>2, <2>1 DEF SetLock, Uninit
<1>3. ASSUME NEW p \in Procs, semaphore_P(p)
      PROVE  TypeOK'
  <2>1. /\ lock' \in Int /\ lock' >= -1 /\ slips' \in Nat
        /\ undo' \in [Procs -> Int]
    BY <1>3 DEF semaphore_P, Acquire, Slip
  <2> QED BY <1>0, <1>3, <2>1 DEF semaphore_P, Enter, Uninit
<1>4. ASSUME NEW p \in Procs, semaphore_V(p)
      PROVE  TypeOK'
  <2>1. /\ lock' \in Int /\ lock' >= -1 /\ slips' \in Nat
        /\ undo' \in [Procs -> Int]
    BY <1>4 DEF semaphore_V, Release
  <2> QED BY <1>0, <1>4, <2>1 DEF semaphore_V, Uninit
<1>5. ASSUME NEW p \in Procs, KernelExit(p)
      PROVE  TypeOK'
  <2>1. lock' \in -1 .. (1 + slips')
    BY <1>0, <1>5 DEF KernelExit, AfterUndo
  <2>2. sem' \in [Keys -> Nat \cup {-1}]
    BY <1>5 DEF KernelExit, AfterUndo
  <2>3. ctx' \in [Procs -> [Ctxs -> Keys \cup {NoCtx, DevUnknown}]]
    BY <1>5 DEF KernelExit
  <2>4. map' \in [Procs -> [Keys -> {"absent", "creating", "live", "stale"}]]
    BY <1>5 DEF KernelExit
  <2>5. taken' \in [Procs -> [Keys -> Int]]
    BY <1>5 DEF KernelExit
  <2>6. /\ pc' \in [Procs -> PCs]
        /\ lockref' \in [Procs -> {"none", "live", "stale"}]
        /\ att' \in [Procs -> {"no", "live", "stale"}]
        /\ undo' \in [Procs -> Int]
        /\ slips' = slips /\ idzero' = idzero /\ shm' = shm
    BY <1>5 DEF KernelExit
  <2> QED BY <2>1, <2>2, <2>3, <2>4, <2>5, <2>6
<1>6. ASSUME NEW p \in Procs, kuaf_paral_init(p)
      PROVE  TypeOK'
  <2>1. pc' \in [Procs -> PCs]
    BY <1>6 DEF kuaf_paral_init
  <2>2. shm' \in BOOLEAN
    <3> DEFINE many == Cardinality(Attached) > 1
    <3>1. many \in BOOLEAN
      OBVIOUS
    <3>2. shm' = TRUE \/ shm' = shm \/ shm' = many
      BY <1>6 DEF kuaf_paral_init
    <3> HIDE DEF many
    <3> QED BY <3>1, <3>2
  <2>3. att' \in [Procs -> {"no", "live", "stale"}]
    <3>1. [q \in Procs |-> Dangling(att[q])] \in [Procs -> {"no", "live", "stale"}]
      BY DEF Dangling
    <3>2. [att EXCEPT ![p] = "live"] \in [Procs -> {"no", "live", "stale"}]
      OBVIOUS
    <3>3. \/ att' = [att EXCEPT ![p] = "live"] \/ att' = att
          \/ att' = [q \in Procs |-> Dangling(att[q])]
      BY <1>6 DEF kuaf_paral_init
    <3> QED BY <3>1, <3>2, <3>3
  <2> QED BY <1>6, <2>1, <2>2, <2>3 DEF kuaf_paral_init
<1>7. ASSUME NEW p \in Procs, NEW k \in Keys, init_multi_semaphore(p, k)
      PROVE  TypeOK'
  <2>1. sem' \in [Keys -> Nat \cup {-1}]
    <3>1. sem \in [Keys -> Nat \cup {-1}]
      OBVIOUS
    <3> HIDE DEF TypeOK
    <3> QED BY <1>7, <3>1 DEF init_multi_semaphore
  <2>2. map' \in [Procs -> [Keys -> {"absent", "creating", "live", "stale"}]]
    <3>1. ASSUME NEW v \in {"creating", "live", "stale"},
                 map' = [map EXCEPT ![p][k] = v]
          PROVE  map' \in [Procs -> [Keys -> {"absent", "creating", "live", "stale"}]]
      BY <3>1
    <3> QED BY <1>7, <3>1 DEF init_multi_semaphore
  <2> QED BY <1>7, <2>1, <2>2 DEF init_multi_semaphore
<1>8. ASSUME NEW p \in Procs, NEW k \in Keys, SetSem(p, k)
      PROVE  TypeOK'
  BY <1>8 DEF SetSem
<1>9. ASSUME NEW p \in Procs, EndInit(p) \/ BeginFree(p) \/ EndRemove(p)
      PROVE  TypeOK'
  BY <1>9 DEF EndInit, BeginFree, EndRemove, Uninit
<1>10. ASSUME NEW p \in Procs, NEW c \in Ctxs, kuaf_ctx_scheduler_create(p, c)
       PROVE  TypeOK'
  BY <1>10 DEF kuaf_ctx_scheduler_create, SetCtx, Shared
<1>11. ASSUME NEW p \in Procs, NEW c \in Ctxs, NEW k \in Keys,
              kuaf_ctx_scheduler(p, c, k)
       PROVE  TypeOK'
  <2>1. sem' \in [Keys -> Nat \cup {-1}] /\ taken' \in [Procs -> [Keys -> Int]]
    <3>1. sem \in [Keys -> Nat \cup {-1}] /\ taken \in [Procs -> [Keys -> Int]]
      OBVIOUS
    <3> HIDE DEF TypeOK
    <3> QED BY <1>11, <3>1 DEF kuaf_ctx_scheduler, UnitLeft
  <2>3. ctx' \in [Procs -> [Ctxs -> Keys \cup {NoCtx, DevUnknown}]]
    <3>1. ASSUME NEW v \in Keys \cup {NoCtx, DevUnknown}, SetCtx(p, c, v)
          PROVE  ctx' \in [Procs -> [Ctxs -> Keys \cup {NoCtx, DevUnknown}]]
      BY <3>1 DEF SetCtx
    <3> QED BY <1>11, <3>1 DEF kuaf_ctx_scheduler
  <2> QED BY <1>11, <2>1, <2>3 DEF kuaf_ctx_scheduler, Shared
<1>12. ASSUME NEW p \in Procs, NEW c \in Ctxs, kuaf_ctx_scheduler_free(p, c)
       PROVE  TypeOK'
  <2>1. sem' \in [Keys -> Nat \cup {-1}] /\ taken' \in [Procs -> [Keys -> Int]]
    <3>1. CASE ctx[p][c] # DevUnknown /\ map[p][ctx[p][c]] = "live"
      <4>1. ctx[p][c] \in Keys
        BY <1>12, <3>1 DEF kuaf_ctx_scheduler_free
      <4>2. sem[ctx[p][c]] \in Nat \cup {-1} /\ sem[ctx[p][c]] + 1 \in Nat
        <5>1. sem[ctx[p][c]] \in Nat \cup {-1}
          BY <4>1
        <5> HIDE DEF TypeOK
        <5> QED BY <5>1
      <4>3. /\ sem' = [sem EXCEPT ![ctx[p][c]] = @ + 1]
            /\ taken' = [taken EXCEPT ![p][ctx[p][c]] = @ - 1]
        BY <1>12, <3>1 DEF kuaf_ctx_scheduler_free
      <4> QED BY <4>1, <4>2, <4>3
    <3>2. CASE ~(ctx[p][c] # DevUnknown /\ map[p][ctx[p][c]] = "live")
      BY <1>12, <3>2 DEF kuaf_ctx_scheduler_free
    <3> QED BY <3>1, <3>2
  <2>2. ctx' \in [Procs -> [Ctxs -> Keys \cup {NoCtx, DevUnknown}]]
    BY <1>12 DEF kuaf_ctx_scheduler_free, SetCtx
  <2> QED BY <1>12, <2>1, <2>2 DEF kuaf_ctx_scheduler_free, Shared
<1>13. ASSUME NEW p \in Procs, kuaf_paral_free(p)
       PROVE  TypeOK'
  <2>1. /\ att' \in [Procs -> {"no", "live", "stale"}]
        /\ map' \in [Procs -> [Keys -> {"absent", "creating", "live", "stale"}]]
    <3>1. [map EXCEPT ![p] = [k \in Keys |-> "absent"]]
             \in [Procs -> [Keys -> {"absent", "creating", "live", "stale"}]]
      OBVIOUS
    <3> QED BY <1>13, <3>1 DEF kuaf_paral_free, LastOut
  <2>2. pc' \in [Procs -> PCs] /\ shm' \in BOOLEAN
    BY <1>13 DEF kuaf_paral_free, LastOut
  <2> QED BY <1>13, <2>1, <2>2 DEF kuaf_paral_free, LastOut
<1>14. ASSUME NEW p \in Procs, RemoveHead(p)
       PROVE  TypeOK'
  <2>1. /\ lock' \in -1 .. (1 + slips') /\ undo' \in [Procs -> Int]
        /\ slips' = slips
    BY <1>14 DEF RemoveHead, PNull
  <2>2. lockref' \in [Procs -> {"none", "live", "stale"}] /\ idzero' \in BOOLEAN
    BY <1>14 DEF RemoveHead, Dangling
  <2> QED BY <1>14, <2>1, <2>2 DEF RemoveHead
<1>15. ASSUME NEW p \in Procs, NEW k \in Keys, RemoveSem(p, k)
       PROVE  TypeOK'
  <2>1. sem' \in [Keys -> Nat \cup {-1}]
    BY <1>15 DEF RemoveSem
  <2>2. taken' \in [Procs -> [Keys -> Int]]
    BY <1>15 DEF RemoveSem
  <2>3. map' \in [Procs -> [Keys -> {"absent", "creating", "live", "stale"}]]
    <3> DEFINE S == {"absent", "creating", "live", "stale"}
    <3>0. \A q \in Procs : Dangling(map[q][k]) \in S
      BY DEF Dangling
    <3>1. ASSUME NEW q \in Procs
          PROVE  [map[q] EXCEPT ![k] = IF q = p THEN "absent" ELSE Dangling(@)]
                   \in [Keys -> S]
      <4> DEFINE v == IF q = p THEN "absent" ELSE Dangling(map[q][k])
      <4>1. v \in S
        BY <3>0
      <4>2. map[q] \in [Keys -> S]
        OBVIOUS
      <4> HIDE DEF v, S
      <4>3. [map[q] EXCEPT ![k] = v] \in [Keys -> S]
        BY <4>1, <4>2
      <4> QED BY <4>3 DEF v
    <3>2. [q \in Procs |-> [map[q] EXCEPT ![k] = IF q = p THEN "absent" ELSE Dangling(@)]]
             \in [Procs -> [Keys -> {"absent", "creating", "live", "stale"}]]
      BY <3>1
    <3>3. [map EXCEPT ![p][k] = "absent"]
             \in [Procs -> [Keys -> {"absent", "creating", "live", "stale"}]]
      OBVIOUS
    <3> QED BY <1>15, <3>2, <3>3 DEF RemoveSem
  <2> QED BY <1>15, <2>1, <2>2, <2>3 DEF RemoveSem
<1>16. CASE UNCHANGED vars
  BY <1>16 DEF vars
<1> QED
  BY <1>1, <1>2, <1>3, <1>4, <1>5, <1>6, <1>7, <1>8, <1>9, <1>10, <1>11, <1>12,
     <1>13, <1>14, <1>15, <1>16
  DEF Next, LibStep, CtxStep, Exit, Crash

-----------------------------------------------------------------------------
(* Counting the hard contexts of one process *)

CtxTables == [Procs -> [Ctxs -> Keys \cup {NoCtx, DevUnknown}]]
HardOf(x, p, k) == {c \in Ctxs : x[p][c] = k}

LEMMA HardOfFinite ==
  ASSUME NEW x, NEW p, NEW k
  PROVE  IsFiniteSet(HardOf(x, p, k)) /\ Cardinality(HardOf(x, p, k)) \in Nat
<1>1. IsFiniteSet(HardOf(x, p, k))
  BY ParalAssumption, FS_Subset DEF HardOf
<1> QED BY <1>1, FS_CardinalityType

\* A context that becomes hard adds one at most.
LEMMA HardOfGain ==
  ASSUME NEW x \in CtxTables, NEW p \in Procs, NEW c \in Ctxs, NEW k \in Keys
  PROVE  Cardinality(HardOf([x EXCEPT ![p][c] = k], p, k))
           <= Cardinality(HardOf(x, p, k)) + 1
<1> DEFINE new == [x EXCEPT ![p][c] = k]
<1>1. HardOf(new, p, k) = HardOf(x, p, k) \cup {c}
  BY DEF HardOf, CtxTables
<1> HIDE DEF new
<1>2. Cardinality(HardOf(new, p, k)) <= Cardinality(HardOf(x, p, k)) + 1
  <2>1. IsFiniteSet(HardOf(x, p, k)) /\ Cardinality(HardOf(x, p, k)) \in Nat
    BY HardOfFinite
  <2>2. Cardinality(HardOf(x, p, k) \cup {c})
          = IF c \in HardOf(x, p, k) THEN Cardinality(HardOf(x, p, k))
                                     ELSE Cardinality(HardOf(x, p, k)) + 1
    BY <2>1, FS_AddElement
  <2> QED BY <1>1, <2>1, <2>2
<1> QED BY <1>2 DEF new

\* Setting a context to anything else adds none.
LEMMA HardOfOther ==
  ASSUME NEW x \in CtxTables, NEW p \in Procs, NEW c \in Ctxs, NEW k \in Keys,
         NEW v, v # k
  PROVE  Cardinality(HardOf([x EXCEPT ![p][c] = v], p, k))
           <= Cardinality(HardOf(x, p, k))
<1> DEFINE new == [x EXCEPT ![p][c] = v]
<1>1. HardOf(new, p, k) \subseteq HardOf(x, p, k)
  BY DEF HardOf, CtxTables
<1> HIDE DEF new
<1>2. Cardinality(HardOf(new, p, k)) <= Cardinality(HardOf(x, p, k))
  BY <1>1, HardOfFinite, FS_Subset
<1> QED BY <1>2 DEF new

\* A hard context that ends takes one away, and there was one.
LEMMA HardOfLoss ==
  ASSUME NEW x \in CtxTables, NEW p \in Procs, NEW c \in Ctxs, NEW k \in Keys,
         NEW v, v # k, x[p][c] = k
  PROVE  /\ Cardinality(HardOf([x EXCEPT ![p][c] = v], p, k))
              = Cardinality(HardOf(x, p, k)) - 1
         /\ Cardinality(HardOf(x, p, k)) > 0
<1> DEFINE new == [x EXCEPT ![p][c] = v]
<1>1. HardOf(new, p, k) = HardOf(x, p, k) \ {c}
  BY DEF HardOf, CtxTables
<1>2. c \in HardOf(x, p, k)
  BY DEF HardOf
<1> HIDE DEF new
<1>3. Cardinality(HardOf(new, p, k)) = Cardinality(HardOf(x, p, k)) - 1
  <2>1. IsFiniteSet(HardOf(x, p, k))
    BY HardOfFinite
  <2>2. Cardinality(HardOf(x, p, k) \ {c}) = Cardinality(HardOf(x, p, k)) - 1
    BY <1>2, <2>1, FS_RemoveElement
  <2> QED BY <1>1, <2>2
<1>4. Cardinality(HardOf(x, p, k)) > 0
  BY <1>2, HardOfFinite, FS_EmptySet
<1> QED BY <1>3, <1>4 DEF new

\* No context is hard before the constructor has ended.
LEMMA NoneHard ==
  ASSUME NEW x, NEW p, x[p] = [c \in Ctxs |-> NoCtx], NEW k \in Keys
  PROVE  Cardinality(HardOf(x, p, k)) = 0
<1>1. HardOf(x, p, k) = {}
  BY ParalAssumption DEF HardOf
<1> QED BY <1>1, FS_EmptySet

-----------------------------------------------------------------------------
(* Every step keeps the units *)

\* Steps that only move a process along its constructor or destructor.
LEMMA UnitsMove ==
  ASSUME TypeOK, UnitsInv, NEW p \in Procs,
         UNCHANGED <<sem, taken, map, ctx>>,
         \A q \in Procs : q # p => pc'[q] = pc[q],
         pc'[p] \in Starting => pc[p] \in Starting,
         pc'[p] = "run" => pc[p] \in Starting
  PROVE  UnitsInv'
<1>1. TakenOK' /\ CreatingOK' /\ RefsOK' /\ Conservation'
  BY DEF UnitsInv, TakenOK, CreatingOK, RefsOK, Conservation, Units
<1>2. CtxOK'
  BY DEF UnitsInv, CtxOK
<1>3. HardOwesUnit'
  <2> SUFFICES ASSUME NEW q \in Procs, NEW k \in Keys,
                      pc'[q] = "run", map[q][k] = "live"
               PROVE  Cardinality(HardOf(ctx, q, k)) <= taken[q][k]
    BY DEF HardOwesUnit, HardOf
  <2>1. CASE pc[q] = "run"
    BY <2>1 DEF UnitsInv, HardOwesUnit, HardOf
  <2>2. CASE pc[q] # "run"
    <3>1. ctx[q] = [c \in Ctxs |-> NoCtx]
      BY <2>2 DEF UnitsInv, CtxOK
    <3> QED BY <3>1, NoneHard DEF UnitsInv, TakenOK, Adjustments
  <2> QED BY <2>1, <2>2
<1> QED BY <1>1, <1>2, <1>3 DEF UnitsInv

\* Process exit: the kernel's undo gives the semaphores what Units loses.
LEMMA UnitsExit ==
  ASSUME TypeOK, UnitsInv, NEW p \in Procs, KernelExit(p)
  PROVE  UnitsInv'
<1> USE DEF UnitsInv
<1>1. /\ \A q \in Procs : q # p => /\ pc'[q] = pc[q] /\ map'[q] = map[q]
                                  /\ taken'[q] = taken[q] /\ ctx'[q] = ctx[q]
      /\ pc'[p] = "off" /\ map'[p] = [k \in Keys |-> "absent"]
      /\ taken'[p] = [k \in Keys |-> 0] /\ ctx'[p] = [c \in Ctxs |-> NoCtx]
  BY DEF KernelExit, AfterUndo, Goto, TypeOK
<1>2. \A k \in Keys : sem'[k] = IF sem[k] = -1 THEN -1 ELSE sem[k] + taken[p][k]
  BY DEF KernelExit, AfterUndo, TypeOK, TakenOK, Adjustments
<1>3. TakenOK'
  <2>1. taken' \in Adjustments
    BY DEF KernelExit, AfterUndo, TakenOK, Adjustments
  <2> QED BY <1>1, <2>1, ParalAssumption DEF TakenOK
<1>4. CreatingOK'
  BY <1>1, <1>2 DEF CreatingOK, TakenOK, Adjustments
<1>5. RefsOK'
  <2>1. \A k \in Keys : sem'[k] = -1 => sem[k] = -1
    BY <1>2 DEF TypeOK, TakenOK, Adjustments
  <2> QED BY <1>1, <2>1 DEF RefsOK
<1>6. CtxOK'
  BY <1>1 DEF CtxOK
<1>7. HardOwesUnit'
  BY <1>1 DEF HardOwesUnit
<1>8. Conservation'
  <2> SUFFICES ASSUME NEW k \in Keys, sem'[k] # -1
               PROVE  sem'[k] + Cardinality(UnitsOf(taken', k)) \in {0, Limit[k]}
    BY DEF Conservation, Units
  <2>1. sem[k] # -1 /\ sem'[k] = sem[k] + taken[p][k]
    BY <1>2
  <2>2. Cardinality(UnitsOf(taken', k))
          = Cardinality(UnitsOf(taken, k)) - taken[p][k]
    BY UnitsDrop DEF KernelExit, AfterUndo, TakenOK
  <2>3. sem[k] + Cardinality(UnitsOf(taken, k)) \in {0, Limit[k]}
    BY <2>1 DEF Conservation, Units
  <2>4. /\ Cardinality(UnitsOf(taken, k)) \in Nat
        /\ sem[k] \in Int /\ taken[p][k] \in Int
    BY UnitsFinite, FS_CardinalityType DEF TypeOK, TakenOK, Adjustments
  <2> HIDE DEF UnitsInv
  <2> QED BY <2>1, <2>2, <2>3, <2>4
<1> QED BY <1>3, <1>4, <1>5, <1>6, <1>7, <1>8

\* A semaphore is created with value 0, set, or found.
LEMMA UnitsCreate ==
  ASSUME TypeOK, UnitsInv, NEW p \in Procs, NEW k \in Keys,
         init_multi_semaphore(p, k) \/ SetSem(p, k)
  PROVE  UnitsInv'
<1> USE DEF UnitsInv
<1>1. pc' = pc /\ taken' = taken /\ ctx' = ctx /\ pc[p] = "sems"
  BY DEF init_multi_semaphore, SetSem
<1>2. /\ \A j \in Keys : j # k => sem'[j] = sem[j]
      /\ \A q \in Procs, j \in Keys : q # p \/ j # k => map'[q][j] = map[q][j]
  BY DEF init_multi_semaphore, SetSem, TypeOK
<1>3. \/ sem[k] = -1 /\ sem'[k] = 0 /\ map'[p][k] = "creating"
      \/ sem[k] # -1 /\ sem'[k] = sem[k] /\ map'[p][k] = "live"
      \/ sem'[k] = sem[k] /\ map'[p][k] = "stale"
      \/ map[p][k] = "creating" /\ sem'[k] = Limit[k] /\ map'[p][k] = "live"
  BY DEF init_multi_semaphore, SetSem, TypeOK
<1>4. TakenOK' /\ CtxOK'
  BY <1>1 DEF TakenOK, CtxOK
<1>5. CreatingOK'
  BY <1>1, <1>2, <1>3 DEF CreatingOK, RefsOK
<1>6. RefsOK'
  <2> SUFFICES ASSUME NEW q \in Procs, NEW j \in Keys, sem'[j] = -1
               PROVE  map'[q][j] \notin {"live", "creating"} /\ taken[q][j] = 0
    BY <1>1 DEF RefsOK
  <2>1. sem[j] = -1 /\ (j = k => map'[p][k] = "stale")
    BY <1>2, <1>3, ParalAssumption DEF RefsOK
  <2> QED BY <1>2, <2>1 DEF RefsOK
<1>7. HardOwesUnit'
  BY <1>1, <1>2 DEF HardOwesUnit
<1>8. Conservation'
  <2> SUFFICES ASSUME NEW j \in Keys, sem'[j] # -1
               PROVE  sem'[j] + Cardinality(UnitsOf(taken, j)) \in {0, Limit[j]}
    BY <1>1 DEF Conservation, Units
  <2>1. CASE sem'[j] = sem[j]
    BY <2>1 DEF Conservation, Units
  <2>2. CASE j = k /\ sem'[k] # sem[k]
    <3>1. \A q \in Procs : taken[q][k] = 0
      BY <1>3, <2>2 DEF RefsOK, CreatingOK
    <3>2. UnitsOf(taken, k) = {}
      BY <3>1, ParalAssumption DEF UnitsOf
    <3>3. Cardinality(UnitsOf(taken, k)) = 0
      BY <3>2, FS_EmptySet
    <3> QED BY <1>3, <2>2, <3>3, ParalAssumption
  <2> QED BY <1>2, <2>1, <2>2
<1> QED BY <1>4, <1>5, <1>6, <1>7, <1>8

\* A context is allocated, or scheduled without getting a unit.
LEMMA UnitsSoft ==
  ASSUME TypeOK, UnitsInv, NEW p \in Procs, NEW c \in Ctxs,
         NEW v \in {NoCtx, DevUnknown},
         pc[p] = "run", ctx' = [ctx EXCEPT ![p][c] = v],
         UNCHANGED <<pc, sem, taken, map>>
  PROVE  UnitsInv'
<1> USE DEF UnitsInv
<1>1. TakenOK' /\ CreatingOK' /\ RefsOK' /\ Conservation'
  BY DEF TakenOK, CreatingOK, RefsOK, Conservation, Units
<1>2. \A q \in Procs : q # p => ctx'[q] = ctx[q]
  BY DEF TypeOK
<1>3. CtxOK'
  BY <1>2 DEF CtxOK, Starting
<1>4. HardOwesUnit'
  <2> SUFFICES ASSUME NEW q \in Procs, NEW k \in Keys,
                      pc[q] = "run", map[q][k] = "live"
               PROVE  Cardinality(HardOf(ctx', q, k)) <= taken[q][k]
    BY DEF HardOwesUnit, HardOf
  <2>1. Cardinality(HardOf(ctx, q, k)) <= taken[q][k]
    BY DEF HardOwesUnit, HardOf
  <2>2. CASE q # p
    BY <1>2, <2>1, <2>2 DEF HardOf
  <2>3. CASE q = p
    <3>1. Cardinality(HardOf(ctx', p, k)) <= Cardinality(HardOf(ctx, p, k))
      BY ParalAssumption, HardOfOther DEF TypeOK, CtxTables
    <3>2. /\ Cardinality(HardOf(ctx', p, k)) \in Nat
          /\ Cardinality(HardOf(ctx, p, k)) \in Nat /\ taken[p][k] \in Nat
      BY HardOfFinite DEF TakenOK, Adjustments
    <3> QED BY <2>1, <2>3, <3>1, <3>2
  <2> QED BY <2>2, <2>3
<1> QED BY <1>1, <1>3, <1>4

\* A context gets a unit, and forgets the one it may have had.
LEMMA UnitsAcquire ==
  ASSUME TypeOK, UnitsInv, NEW p \in Procs, NEW c \in Ctxs, NEW k \in Keys,
         pc[p] = "run", sem[k] > 0,
         sem' = [sem EXCEPT ![k] = @ - 1],
         taken' = [taken EXCEPT ![p][k] = @ + 1],
         ctx' = [ctx EXCEPT ![p][c] = k],
         UNCHANGED <<pc, map>>
  PROVE  UnitsInv'
<1> USE DEF UnitsInv
<1> DEFINE units == Cardinality(UnitsOf(taken, k))
<1>1. /\ \A q \in Procs : q # p => taken'[q] = taken[q] /\ ctx'[q] = ctx[q]
      /\ \A j \in Keys : j # k => taken'[p][j] = taken[p][j] /\ sem'[j] = sem[j]
      /\ taken'[p][k] = taken[p][k] + 1 /\ sem'[k] = sem[k] - 1
  BY DEF TypeOK, TakenOK, Adjustments
<1>2. taken[p][k] \in Nat /\ sem[k] \in Nat /\ Limit[k] \in Nat /\ units \in Nat
  <2>1. taken[p][k] \in Nat
    BY DEF TakenOK, Adjustments
  <2>3. sem[k] \in Nat
    BY DEF TypeOK
  <2>4. Limit[k] \in Nat
    BY ParalAssumption
  <2>2. units \in Nat
    BY UnitsFinite, FS_CardinalityType
  <2> QED BY <2>1, <2>2, <2>3, <2>4
<1>3. sem[k] + units = Limit[k]
  <2>1. sem[k] # -1
    BY <1>2
  <2>2. sem[k] + units \in {0, Limit[k]}
    BY <2>1 DEF Conservation, Units
  <2> HIDE DEF units, UnitsInv
  <2> QED BY <1>2, <2>2
<1>4. taken[p][k] < Limit[k]
  <2>1. taken[p][k] <= units
    BY UnitsBound DEF TakenOK
  <2> HIDE DEF units, UnitsInv
  <2> QED BY <1>2, <1>3, <2>1
<1>5. TakenOK'
  <2>1. taken' \in Adjustments
    BY DEF TakenOK, Adjustments
  <2>2. ASSUME NEW q \in Procs, NEW j \in Keys PROVE taken'[q][j] <= Limit[j]
    <3>1. CASE q = p /\ j = k
      BY <1>1, <1>2, <1>4, <3>1
    <3>2. CASE ~(q = p /\ j = k)
      BY <1>1, <3>2 DEF TakenOK
    <3> QED BY <3>1, <3>2
  <2> QED BY <2>1, <2>2 DEF TakenOK
<1>6. CreatingOK'
  <2>1. \A q \in Procs : map[q][k] # "creating"
    BY DEF CreatingOK
  <2> QED BY <1>1, <2>1 DEF CreatingOK
<1>7. RefsOK'
  <2>1. sem'[k] # -1
    BY <1>1, <1>2
  <2> QED BY <1>1, <2>1 DEF RefsOK
<1>8. CtxOK'
  BY <1>1 DEF CtxOK, Starting
<1>9. HardOwesUnit'
  <2> SUFFICES ASSUME NEW q \in Procs, NEW j \in Keys,
                      pc[q] = "run", map[q][j] = "live"
               PROVE  Cardinality(HardOf(ctx', q, j)) <= taken'[q][j]
    BY DEF HardOwesUnit, HardOf
  <2>1. Cardinality(HardOf(ctx, q, j)) <= taken[q][j]
    BY DEF HardOwesUnit, HardOf
  <2>2. CASE q # p
    BY <1>1, <2>1, <2>2 DEF HardOf
  <2>3. CASE q = p
    <3>1. /\ Cardinality(HardOf(ctx', p, j)) \in Nat
          /\ Cardinality(HardOf(ctx, p, j)) \in Nat /\ taken[p][j] \in Nat
      BY HardOfFinite DEF TakenOK, Adjustments
    <3>2. CASE j = k
      <4>1. Cardinality(HardOf(ctx', p, k)) <= Cardinality(HardOf(ctx, p, k)) + 1
        BY HardOfGain DEF TypeOK, CtxTables
      <4> QED BY <1>1, <2>1, <2>3, <3>1, <3>2, <4>1
    <3>3. CASE j # k
      <4>1. Cardinality(HardOf(ctx', p, j)) <= Cardinality(HardOf(ctx, p, j))
        BY <3>3, HardOfOther DEF TypeOK, CtxTables
      <4> QED BY <1>1, <2>1, <2>3, <3>1, <3>3, <4>1
    <3> QED BY <3>2, <3>3
  <2> QED BY <2>2, <2>3
<1>10. Conservation'
  <2> SUFFICES ASSUME NEW j \in Keys, sem'[j] # -1
               PROVE  sem'[j] + Cardinality(UnitsOf(taken', j)) \in {0, Limit[j]}
    BY DEF Conservation, Units
  <2>1. CASE j = k
    <3>1. Cardinality(UnitsOf(taken', k)) = units + 1
      BY <1>4, UnitsTake DEF TakenOK
    <3> HIDE DEF units, UnitsInv
    <3> QED BY <1>1, <1>2, <1>3, <2>1, <3>1
  <2>2. CASE j # k
    <3>1. UnitsOf(taken', j) = UnitsOf(taken, j)
      BY <1>1, <2>2 DEF UnitsOf
    <3> QED BY <1>1, <2>2, <3>1 DEF Conservation, Units
  <2> QED BY <2>1, <2>2
<1> QED BY <1>5, <1>6, <1>7, <1>8, <1>9, <1>10

\* A hard context gives its unit back.
LEMMA UnitsRelease ==
  ASSUME TypeOK, UnitsInv, NEW p \in Procs, NEW c \in Ctxs, NEW k \in Keys,
         pc[p] = "run", ctx[p][c] = k, map[p][k] = "live",
         sem' = [sem EXCEPT ![k] = @ + 1],
         taken' = [taken EXCEPT ![p][k] = @ - 1],
         ctx' = [ctx EXCEPT ![p][c] = NoCtx],
         UNCHANGED <<pc, map>>
  PROVE  UnitsInv'
<1> USE DEF UnitsInv
<1> DEFINE units == Cardinality(UnitsOf(taken, k))
<1>1. NoCtx # k
  BY ParalAssumption
<1>2. /\ taken[p][k] \in Nat /\ taken[p][k] > 0 /\ taken[p][k] <= Limit[k]
      /\ Cardinality(HardOf(ctx', p, k)) = Cardinality(HardOf(ctx, p, k)) - 1
  <2>1. /\ Cardinality(HardOf(ctx', p, k)) = Cardinality(HardOf(ctx, p, k)) - 1
        /\ Cardinality(HardOf(ctx, p, k)) > 0
    <3>1. ctx \in CtxTables
      BY DEF TypeOK, CtxTables
    <3> HIDE DEF UnitsInv
    <3>2. ctx[p][c] = k
      OBVIOUS
    <3>3. /\ Cardinality(HardOf([ctx EXCEPT ![p][c] = NoCtx], p, k))
              = Cardinality(HardOf(ctx, p, k)) - 1
          /\ Cardinality(HardOf(ctx, p, k)) > 0
      BY ONLY <1>1, <3>1, <3>2, HardOfLoss
    <3> QED BY <3>3
  <2>2. Cardinality(HardOf(ctx, p, k)) <= taken[p][k]
    BY DEF HardOwesUnit, HardOf
  <2>3. /\ taken[p][k] \in Nat /\ taken[p][k] <= Limit[k]
        /\ Cardinality(HardOf(ctx, p, k)) \in Nat
    BY HardOfFinite DEF TakenOK, Adjustments
  <2> QED BY <2>1, <2>2, <2>3
<1>3. /\ \A q \in Procs : q # p => taken'[q] = taken[q] /\ ctx'[q] = ctx[q]
      /\ \A j \in Keys : j # k => taken'[p][j] = taken[p][j] /\ sem'[j] = sem[j]
      /\ taken'[p][k] = taken[p][k] - 1 /\ sem'[k] = sem[k] + 1
  BY DEF TypeOK, TakenOK, Adjustments
<1>4. sem[k] \in Nat /\ Limit[k] \in Nat /\ units \in Nat
  <2>1. sem[k] \in Nat /\ Limit[k] \in Nat
    BY ParalAssumption DEF TypeOK, RefsOK
  <2>2. units \in Nat
    BY UnitsFinite, FS_CardinalityType
  <2> QED BY <2>1, <2>2
<1>5. TakenOK'
  <2>1. taken' \in Adjustments
    BY <1>2 DEF TakenOK, Adjustments
  <2>2. ASSUME NEW q \in Procs, NEW j \in Keys PROVE taken'[q][j] <= Limit[j]
    <3>1. CASE q = p /\ j = k
      BY <1>2, <1>3, <1>4, <3>1
    <3>2. CASE ~(q = p /\ j = k)
      BY <1>3, <3>2 DEF TakenOK
    <3> QED BY <3>1, <3>2
  <2> QED BY <2>1, <2>2 DEF TakenOK
<1>6. CreatingOK'
  <2>1. \A q \in Procs : map[q][k] # "creating"
    BY <1>2 DEF CreatingOK
  <2> QED BY <1>3, <2>1 DEF CreatingOK
<1>7. RefsOK'
  <2>1. sem'[k] # -1
    BY <1>3, <1>4
  <2> QED BY <1>3, <2>1 DEF RefsOK
<1>8. CtxOK'
  BY <1>3 DEF CtxOK, Starting
<1>9. HardOwesUnit'
  <2> SUFFICES ASSUME NEW q \in Procs, NEW j \in Keys,
                      pc[q] = "run", map[q][j] = "live"
               PROVE  Cardinality(HardOf(ctx', q, j)) <= taken'[q][j]
    BY DEF HardOwesUnit, HardOf
  <2>1. Cardinality(HardOf(ctx, q, j)) <= taken[q][j]
    BY DEF HardOwesUnit, HardOf
  <2>2. CASE q # p
    BY <1>3, <2>1, <2>2 DEF HardOf
  <2>3. CASE q = p
    <3>1. /\ Cardinality(HardOf(ctx', p, j)) \in Nat
          /\ Cardinality(HardOf(ctx, p, j)) \in Nat /\ taken[p][j] \in Nat
      BY HardOfFinite DEF TakenOK, Adjustments
    <3>2. CASE j = k
      BY <1>2, <1>3, <2>1, <2>3, <3>1, <3>2
    <3>3. CASE j # k
      <4>1. NoCtx # j
        BY ParalAssumption
      <4>2. Cardinality(HardOf(ctx', p, j)) <= Cardinality(HardOf(ctx, p, j))
        BY <4>1, HardOfOther DEF TypeOK, CtxTables
      <4> QED BY <1>3, <2>1, <2>3, <3>1, <3>3, <4>2
    <3> QED BY <3>2, <3>3
  <2> QED BY <2>2, <2>3
<1>10. Conservation'
  <2> SUFFICES ASSUME NEW j \in Keys, sem'[j] # -1
               PROVE  sem'[j] + Cardinality(UnitsOf(taken', j)) \in {0, Limit[j]}
    BY DEF Conservation, Units
  <2>1. CASE j = k
    <3>1. Cardinality(UnitsOf(taken', k)) = units - 1
      BY <1>2, UnitsGive DEF TakenOK
    <3>2. sem[k] + units \in {0, Limit[k]}
      BY <1>4 DEF Conservation, Units
    <3> HIDE DEF units, UnitsInv
    <3> QED BY <1>3, <1>4, <2>1, <3>1, <3>2
  <2>2. CASE j # k
    <3>1. UnitsOf(taken', j) = UnitsOf(taken, j)
      BY <1>3, <2>2 DEF UnitsOf
    <3> QED BY <1>3, <2>2, <3>1 DEF Conservation, Units
  <2> QED BY <2>1, <2>2
<1> QED BY <1>5, <1>6, <1>7, <1>8, <1>9, <1>10

\* The last process removes a semaphore: everybody's units of it vanish.
LEMMA UnitsRemove ==
  ASSUME TypeOK, UnitsInv, NEW p \in Procs, NEW k \in Keys, RemoveSem(p, k)
  PROVE  UnitsInv'
<1> USE DEF UnitsInv
<1>1. pc' = pc /\ ctx' = ctx
  BY DEF RemoveSem
<1>2. CASE map[p][k] = "live"
  <2>1. /\ \A j \in Keys : sem'[j] = IF j = k THEN -1 ELSE sem[j]
        /\ \A q \in Procs, j \in Keys :
              /\ taken'[q][j] = IF j = k THEN 0 ELSE taken[q][j]
              /\ j # k => map'[q][j] = map[q][j]
              /\ map'[q][k] \notin {"live", "creating"}
    <3>1. \A j \in Keys : sem'[j] = IF j = k THEN -1 ELSE sem[j]
      BY <1>2 DEF RemoveSem, TypeOK
    <3>2. \A q \in Procs, j \in Keys : taken'[q][j] = IF j = k THEN 0 ELSE taken[q][j]
      BY <1>2 DEF RemoveSem, TypeOK
    <3>3. \A q \in Procs :
            map'[q] = [map[q] EXCEPT ![k] = IF q = p THEN "absent" ELSE Dangling(@)]
      BY <1>2 DEF RemoveSem
    <3>4. ASSUME NEW q \in Procs
          PROVE  /\ \A j \in Keys : j # k => map'[q][j] = map[q][j]
                 /\ map'[q][k] \notin {"live", "creating"}
      <4>1. map[q] \in [Keys -> {"absent", "creating", "live", "stale"}]
        BY DEF TypeOK
      <4>2. map'[q][k] = IF q = p THEN "absent" ELSE Dangling(map[q][k])
        BY <3>3, <4>1
      <4>3. \A j \in Keys : j # k => map'[q][j] = map[q][j]
        BY <3>3, <4>1
      <4> QED BY <4>2, <4>3 DEF Dangling
    <3> QED BY <3>1, <3>2, <3>4
  <2>2. TakenOK'
    <3>1. taken' \in Adjustments
      BY <1>2 DEF RemoveSem, TakenOK, Adjustments
    <3> QED BY <2>1, <3>1, ParalAssumption DEF TakenOK
  <2>3. CreatingOK' /\ RefsOK'
    BY <2>1 DEF CreatingOK, RefsOK
  <2>4. CtxOK' /\ HardOwesUnit'
    BY <1>1, <2>1 DEF CtxOK, HardOwesUnit
  <2>5. Conservation'
    <3> SUFFICES ASSUME NEW j \in Keys, j # k, sem[j] # -1
                 PROVE  sem[j] + Cardinality(UnitsOf(taken', j)) \in {0, Limit[j]}
      BY <2>1 DEF Conservation, Units
    <3>1. UnitsOf(taken', j) = UnitsOf(taken, j)
      BY <2>1 DEF UnitsOf
    <3> QED BY <3>1 DEF Conservation, Units
  <2> QED BY <2>2, <2>3, <2>4, <2>5
<1>3. CASE map[p][k] # "live"
  <2>1. /\ sem' = sem /\ taken' = taken
        /\ \A q \in Procs, j \in Keys :
              map'[q][j] = map[q][j] \/ map'[q][j] = "absent"
    <3>1. sem' = sem /\ taken' = taken /\ map' = [map EXCEPT ![p][k] = "absent"]
      BY <1>3 DEF RemoveSem
    <3> QED BY <3>1 DEF TypeOK
  <2> QED BY <1>1, <2>1 DEF TakenOK, CreatingOK, RefsOK, CtxOK, HardOwesUnit,
                            Conservation, Units
<1> QED BY <1>2, <1>3

\* Detaching frees the process's list unless it is the last process.
LEMMA UnitsDetach ==
  ASSUME TypeOK, UnitsInv, NEW p \in Procs, kuaf_paral_free(p)
  PROVE  UnitsInv'
<1>1. /\ sem' = sem /\ taken' = taken /\ ctx' = ctx /\ pc[p] = "shmdt"
      /\ \A q \in Procs : q # p => pc'[q] = pc[q]
      /\ pc'[p] \in {"rmid0", "freeV"}
  BY DEF kuaf_paral_free, LastOut, Goto, TypeOK
<1>2. \A q \in Procs, k \in Keys : map'[q][k] = map[q][k] \/ map'[q][k] = "absent"
  <2>1. map \in [Procs -> [Keys -> {"absent", "creating", "live", "stale"}]]
    BY DEF TypeOK
  <2>2. map' = map \/ map' = [map EXCEPT ![p] = [k \in Keys |-> "absent"]]
    BY DEF kuaf_paral_free
  <2> QED BY <2>1, <2>2
<1> QED BY <1>1, <1>2 DEF UnitsInv, TakenOK, CreatingOK, RefsOK, CtxOK, Starting,
                          HardOwesUnit, Conservation, Units

\* One step of a context: allocation, scheduling, release.
LEMMA UnitsCtx ==
  ASSUME TypeOK, UnitsInv, NEW p \in Procs, CtxStep(p)
  PROVE  UnitsInv'
<1>1. ASSUME NEW c \in Ctxs, kuaf_ctx_scheduler_create(p, c)
      PROVE  UnitsInv'
  BY <1>1, UnitsSoft DEF kuaf_ctx_scheduler_create, SetCtx, Shared, Lock
<1>2. ASSUME NEW c \in Ctxs, NEW k \in Keys, kuaf_ctx_scheduler(p, c, k)
      PROVE  UnitsInv'
  <2>1. pc[p] = "run" /\ pc' = pc /\ map' = map
    BY <1>2 DEF kuaf_ctx_scheduler, Shared
  <2>2. CASE /\ UnitLeft(p, k) /\ SetCtx(p, c, k)
             /\ sem' = [sem EXCEPT ![k] = @ - 1]
             /\ taken' = [taken EXCEPT ![p][k] = @ + 1]
    BY <2>1, <2>2, UnitsAcquire DEF UnitLeft, SetCtx
  <2>3. CASE SetCtx(p, c, DevUnknown) /\ UNCHANGED <<sem, taken>>
    BY <2>1, <2>3, UnitsSoft DEF SetCtx
  <2> QED BY <1>2, <2>2, <2>3 DEF kuaf_ctx_scheduler
<1>3. ASSUME NEW c \in Ctxs, kuaf_ctx_scheduler_free(p, c)
      PROVE  UnitsInv'
  <2> DEFINE k == ctx[p][c]
  <2>1. /\ pc[p] = "run" /\ ctx' = [ctx EXCEPT ![p][c] = NoCtx]
        /\ pc' = pc /\ map' = map /\ k # NoCtx
    BY <1>3 DEF kuaf_ctx_scheduler_free, SetCtx, Shared, Lock
  <2>2. CASE k # DevUnknown /\ map[p][k] = "live"
    <3>1. k \in Keys
      BY <2>1, <2>2 DEF TypeOK
    <3>2. /\ sem' = [sem EXCEPT ![k] = @ + 1]
          /\ taken' = [taken EXCEPT ![p][k] = @ - 1]
      BY <1>3, <2>2 DEF kuaf_ctx_scheduler_free
    <3> QED BY <2>1, <2>2, <3>1, <3>2, UnitsRelease
  <2>3. CASE ~(k # DevUnknown /\ map[p][k] = "live")
    <3>1. sem' = sem /\ taken' = taken
      BY <1>3, <2>3 DEF kuaf_ctx_scheduler_free
    <3> QED BY <2>1, <3>1, UnitsSoft
  <2> QED BY <2>2, <2>3
<1> QED BY <1>1, <1>2, <1>3 DEF CtxStep

\* Every step keeps the units.
LEMMA UnitsStep ==
  ASSUME TypeOK, UnitsInv, [Next]_vars
  PROVE  UnitsInv'
<1>1. ASSUME NEW p \in Procs,
             \/ init_global_semaphore(p) \/ SetLock(p) \/ semaphore_P(p)
             \/ semaphore_V(p) \/ kuaf_paral_init(p) \/ EndInit(p)
             \/ BeginFree(p) \/ RemoveHead(p) \/ EndRemove(p)
      PROVE  UnitsInv'
  <2> USE DEF init_global_semaphore, SetLock, semaphore_P, Enter, semaphore_V,
              kuaf_paral_init, EndInit, BeginFree, RemoveHead, EndRemove,
              Uninit, Lock, Goto
  <2>1. UNCHANGED <<sem, taken, map, ctx>>
    BY <1>1
  <2>2. \A q \in Procs : q # p => pc'[q] = pc[q]
    BY <1>1 DEF TypeOK
  <2>3. /\ pc'[p] \in Starting => pc[p] \in Starting
        /\ pc'[p] = "run" => pc[p] \in Starting
    BY <1>1 DEF TypeOK, Starting
  <2> QED BY <2>1, <2>2, <2>3, UnitsMove
<1>2. CASE UNCHANGED vars
  BY <1>2 DEF vars, UnitsInv, TakenOK, CreatingOK, RefsOK, CtxOK, HardOwesUnit,
              Conservation, Units
<1> QED
  BY <1>1, <1>2, UnitsExit, UnitsCreate, UnitsCtx, UnitsDetach, UnitsRemove
  DEF Next, LibStep, Exit, Crash

-----------------------------------------------------------------------------
(* Theorems *)

\* The inductive invariant holds in every reachable state.
THEOREM Invariance == Spec => []Inv
<1>1. Init => Inv
  BY InitInv
<1>2. Inv /\ [Next]_vars => Inv'
  BY LockStep, TypeStep, UnitsStep DEF Inv
<1> QED BY <1>1, <1>2, PTL DEF Spec

\* Every variable keeps its type; paral_sem, with SEM_UNDO and processes
\* killed at any point, never rises above 1 and the P's that failed.
THEOREM TypeCorrect == Spec => []TypeOK
<1>1. Inv => TypeOK
  BY DEF Inv
<1> QED BY <1>1, Invariance, PTL

\* Units are conserved whatever is killed, fails or is removed.
THEOREM UnitsConserved == Spec => []Conservation
<1>1. Inv => Conservation
  BY DEF Inv, UnitsInv
<1> QED BY <1>1, Invariance, PTL

\* Every hard context is backed by a unit the kernel would give back.
THEOREM HardContextsOweUnits == Spec => []HardOwesUnit
<1>1. Inv => HardOwesUnit
  BY DEF Inv, UnitsInv
<1> QED BY <1>1, Invariance, PTL

-----------------------------------------------------------------------------
(* The pool of permits: what a semaphore's contexts hold *)

\* The contexts on an accelerator whose semaphore exists.
Held(k) == {h \in Hard(k) : map[h[1]][k] = "live"}

\* They are no more than units owed: each process's contexts of a key are
\* numbered by the units it owes.
LEMMA HeldWithinUnits ==
  ASSUME TypeOK, TakenOK, HardOwesUnit, NEW k \in Keys
  PROVE  Cardinality(Held(k)) <= Cardinality(Units(k))
<1> DEFINE Own(p) == HardOf(ctx, p, k)
           Num(p) == CHOOSE f : f \in Injection(Own(p), 1 .. taken[p][k])
           Unit == [h \in Held(k) |-> <<h[1], Num(h[1])[h[2]]>>]
<1>1. ASSUME NEW h \in Held(k)
      PROVE  /\ h[1] \in Procs /\ h[2] \in Own(h[1]) /\ h = <<h[1], h[2]>>
             /\ Num(h[1]) \in Injection(Own(h[1]), 1 .. taken[h[1]][k])
  <2> DEFINE p == h[1]
             n == Cardinality(Own(p))
  <2>1. p \in Procs /\ h[2] \in Own(p) /\ h = <<h[1], h[2]>>
        /\ pc[p] = "run" /\ map[p][k] = "live"
    BY DEF Held, Hard, HardOf
  <2>2. n \in Nat /\ n <= taken[p][k] /\ taken[p][k] \in Nat
    <3>1. n \in Nat
      BY HardOfFinite
    <3>2. n <= taken[p][k]
      BY <2>1 DEF HardOwesUnit, HardOf
    <3> QED BY <2>1, <3>1, <3>2 DEF TakenOK, Adjustments
  <2>3. ExistsBijection(Own(p), 1 .. n)
    <3>1. IsFiniteSet(Own(p)) /\ IsFiniteSet(1 .. n) /\ Cardinality(1 .. n) = n
      BY <2>2, HardOfFinite, FS_Interval
    <3> QED BY <3>1, FS_SameCardinalityBij
  <2>4. PICK f : f \in Bijection(Own(p), 1 .. n)
    BY <2>3 DEF ExistsBijection
  <2>5. f \in Injection(Own(p), 1 .. taken[p][k])
    <3> HIDE DEF Own, n, p
    <3> QED BY <2>2, <2>4 DEF Bijection, Injection, Surjection
  <2> QED BY <2>1, <2>5
<1>2. Unit \in Injection(Held(k), Units(k))
  <2>1. ASSUME NEW h \in Held(k) PROVE Unit[h] \in Units(k)
    <3>1. Num(h[1])[h[2]] \in 1 .. taken[h[1]][k]
      BY <1>1 DEF Injection
    <3>2. taken[h[1]][k] \in Nat /\ taken[h[1]][k] <= Limit[k] /\ Limit[k] \in Nat
      BY <1>1, ParalAssumption DEF TakenOK, Adjustments
    <3> HIDE DEF Num
    <3> QED BY <1>1, <3>1, <3>2 DEF Units, UnitsOf
  <2>2. ASSUME NEW g \in Held(k), NEW h \in Held(k), Unit[g] = Unit[h]
        PROVE  g = h
    <3>1. g[1] = h[1] /\ Num(g[1])[g[2]] = Num(h[1])[h[2]]
      BY <2>2
    <3>2. PICK f : f = Num(g[1]) /\ f = Num(h[1])
      BY <3>1
    <3>3. /\ g[2] \in Own(g[1]) /\ h[2] \in Own(g[1]) /\ f[g[2]] = f[h[2]]
          /\ f \in Injection(Own(g[1]), 1 .. taken[g[1]][k])
      <4> HIDE DEF Num, Own, Unit
      <4> QED BY <1>1, <3>1, <3>2
    <3>4. g[2] = h[2]
      <4> HIDE DEF Num, Own, Unit
      <4> QED BY <3>3 DEF Injection, IsInjective
    <3> QED BY <1>1, <3>1, <3>4
  <2>3. Unit \in [Held(k) -> Units(k)]
    <3> HIDE DEF Num
    <3> QED BY <2>1
  <2> HIDE DEF Unit
  <2> QED BY <2>2, <2>3 DEF Injection, IsInjective
<1>3. IsFiniteSet(Units(k))
  BY UnitsFinite DEF Units
<1> HIDE DEF Unit
<1> QED BY <1>2, <1>3, FS_Injection

\* The same in every state of the invariant.
LEMMA HeldWithinOwed ==
  ASSUME Inv, NEW k \in Keys
  PROVE  /\ Cardinality(Held(k)) <= Cardinality(Units(k))
         /\ Cardinality(Units(k)) \in Nat /\ Cardinality(Held(k)) \in Nat
<1>1. Cardinality(Held(k)) <= Cardinality(Units(k))
  BY HeldWithinUnits DEF Inv, UnitsInv
<1>2. IsFiniteSet(Procs \X Ctxs)
  BY ParalAssumption, FS_Product
<1>3. IsFiniteSet(Held(k))
  BY <1>2, FS_Subset DEF Held, Hard
<1> QED BY <1>1, <1>3, UnitsFinite, FS_CardinalityType DEF Units

\* A semaphore with a unit left has fewer contexts than its limit.
LEMMA RoomLeft ==
  ASSUME Inv, NEW k \in Keys, sem[k] > 0
  PROVE  Cardinality(Held(k)) < Limit[k]
<1>1. sem[k] \in Nat /\ sem[k] + Cardinality(Units(k)) \in {0, Limit[k]} /\ Limit[k] \in Nat
  BY ParalAssumption DEF Inv, UnitsInv, TypeOK, Conservation
<1> QED BY <1>1, HeldWithinOwed

\* No context gets an accelerator, or a semaphore, that it did not have.
NoGain ==
  \A p \in Procs : pc'[p] = "run" =>
    /\ \A c \in Ctxs : ctx'[p][c] \in Keys => pc[p] = "run" /\ ctx'[p][c] = ctx[p][c]
    /\ pc[p] = "run" => \A k \in Keys : map'[p][k] = "live" => map[p][k] = "live"

\* The only step that gives a context an accelerator takes a unit.
Obtains(p, c, k) ==
  /\ pc[p] = "run" /\ UnitLeft(p, k)
  /\ ctx' = [ctx EXCEPT ![p][c] = k] /\ UNCHANGED <<pc, map>>

LEMMA GainStep ==
  ASSUME Inv, [Next]_vars
  PROVE  NoGain \/ \E p \in Procs, c \in Ctxs, k \in Keys : Obtains(p, c, k)
<1> USE DEF NoGain, Goto, Lock
<1>0. TypeOK /\ CtxOK
  BY DEF Inv, UnitsInv
<1>1. ASSUME NEW p \in Procs,
             init_global_semaphore(p) \/ semaphore_V(p)
      PROVE  NoGain
  <2>1. pc'[p] = "run" => \A c \in Ctxs : ctx[p][c] \notin Keys
    BY <1>0, <1>1, ParalAssumption
    DEF CtxOK, Starting, init_global_semaphore, semaphore_V, TypeOK
  <2>2. UNCHANGED <<ctx, map>> /\ \A q \in Procs : q # p => pc'[q] = pc[q]
    BY <1>0, <1>1 DEF init_global_semaphore, semaphore_V, Uninit, TypeOK
  <2> QED BY <2>1, <2>2
<1>2. ASSUME NEW p \in Procs,
             \/ SetLock(p) \/ semaphore_P(p) \/ kuaf_paral_init(p) \/ EndInit(p)
             \/ BeginFree(p) \/ kuaf_paral_free(p) \/ RemoveHead(p) \/ EndRemove(p)
      PROVE  NoGain
  <2>1. /\ UNCHANGED ctx /\ pc'[p] # "run"
        /\ \A q \in Procs : q # p => pc'[q] = pc[q] /\ map'[q] = map[q]
    BY <1>0, <1>2 DEF SetLock, semaphore_P, Enter, kuaf_paral_init, EndInit, BeginFree,
                      kuaf_paral_free, LastOut, RemoveHead, EndRemove, Uninit, TypeOK
  <2> QED BY <2>1
<1>3. ASSUME NEW p \in Procs, NEW k \in Keys, init_multi_semaphore(p, k) \/ SetSem(p, k)
      PROVE  NoGain
  <2>1. /\ UNCHANGED <<pc, ctx>> /\ pc[p] = "sems"
        /\ \A q \in Procs : q # p => map'[q] = map[q]
    BY <1>0, <1>3 DEF init_multi_semaphore, SetSem, TypeOK
  <2> QED BY <2>1
<1>4. ASSUME NEW p \in Procs, NEW k \in Keys, RemoveSem(p, k)
      PROVE  NoGain
  <2>1. UNCHANGED <<pc, ctx>>
    BY <1>4 DEF RemoveSem
  <2>2. \A q \in Procs, j \in Keys : map'[q][j] = "live" => map[q][j] = "live"
    BY <1>0, <1>4 DEF RemoveSem, Dangling, TypeOK
  <2> QED BY <2>1, <2>2
<1>5. ASSUME NEW p \in Procs, KernelExit(p)
      PROVE  NoGain
  BY <1>0, <1>5 DEF KernelExit, TypeOK
<1>6. ASSUME NEW p \in Procs, NEW c \in Ctxs, NEW v \in {NoCtx, DevUnknown},
             SetCtx(p, c, v), UNCHANGED <<pc, map>>
      PROVE  NoGain
  BY <1>0, <1>6, ParalAssumption DEF SetCtx, TypeOK
<1>7. ASSUME NEW p \in Procs, NEW c \in Ctxs,
             kuaf_ctx_scheduler_create(p, c) \/ kuaf_ctx_scheduler_free(p, c)
      PROVE  NoGain
  BY <1>6, <1>7 DEF kuaf_ctx_scheduler_create, kuaf_ctx_scheduler_free, Shared
<1>8. ASSUME NEW p \in Procs, NEW c \in Ctxs, NEW k \in Keys, kuaf_ctx_scheduler(p, c, k)
      PROVE  NoGain \/ Obtains(p, c, k)
  <2>1. CASE UnitLeft(p, k) /\ SetCtx(p, c, k)
    BY <1>8, <2>1 DEF kuaf_ctx_scheduler, Obtains, SetCtx, Shared
  <2>2. CASE SetCtx(p, c, DevUnknown)
    BY <1>6, <1>8, <2>2 DEF kuaf_ctx_scheduler, Shared
  <2> QED BY <1>8, <2>1, <2>2 DEF kuaf_ctx_scheduler
<1>9. CASE UNCHANGED vars
  BY <1>9 DEF vars
<1> QED
  BY <1>1, <1>2, <1>3, <1>4, <1>5, <1>7, <1>8, <1>9 DEF Next, LibStep, CtxStep, Exit, Crash

\* The pool's variable.
Holders == [k \in Keys |-> Held(k)]

\* A step takes permits back, or grants one that is left.
LEMMA PermitStep ==
  ASSUME Inv, [Next]_vars
  PROVE  \/ \A k \in Keys : Held(k)' \subseteq Held(k)
         \/ \E h \in Procs \X Ctxs, k \in Keys :
              /\ h \notin Held(k) /\ Cardinality(Held(k)) < Limit[k]
              /\ Holders' = [j \in Keys |-> (Held(j) \ {h}) \cup (IF j = k THEN {h} ELSE {})]
<1>1. CASE NoGain
  BY <1>1 DEF NoGain, Held, Hard
<1>2. ASSUME NEW p \in Procs, NEW c \in Ctxs, NEW k \in Keys, Obtains(p, c, k)
      PROVE  \/ \A j \in Keys : Held(j)' \subseteq Held(j)
             \/ \E h \in Procs \X Ctxs, i \in Keys :
                  /\ h \notin Held(i) /\ Cardinality(Held(i)) < Limit[i]
                  /\ Holders' = [j \in Keys |-> (Held(j) \ {h}) \cup (IF j = i THEN {h} ELSE {})]
  <2> DEFINE h == <<p, c>>
  <2>1. \A j \in Keys : Held(j)' = (Held(j) \ {h}) \cup (IF j = k THEN {h} ELSE {})
    BY <1>2 DEF Obtains, UnitLeft, Held, Hard, Inv, TypeOK
  <2>2. CASE h \in Held(k)
    BY <2>1, <2>2
  <2>3. CASE h \notin Held(k)
    <3>1. Cardinality(Held(k)) < Limit[k]
      BY <1>2, RoomLeft DEF Obtains, UnitLeft
    <3>2. Holders' = [j \in Keys |-> (Held(j) \ {h}) \cup (IF j = k THEN {h} ELSE {})]
      <4> HIDE DEF h
      <4> QED BY <2>1 DEF Holders
    <3>3. h \in Procs \X Ctxs
      OBVIOUS
    <3> HIDE DEF h
    <3> QED BY <2>3, <3>1, <3>2, <3>3
  <2> QED BY <2>2, <2>3
<1> QED BY <1>1, <1>2, GainStep

\* Permits counts with its own Cardinality, which is the same.
LEMMA SameCount ==
  ASSUME NEW S
  PROVE  Pool!Cardinality(S) = Cardinality(S)
BY DEF Pool!Cardinality, Cardinality

\* The parallel strategy implements the pool of permits: every step grants
\* at most one, and only if the limit allows, whatever is killed or fails.
THEOREM PoolImplemented == Spec => PoolSpec
<1>1. Init => Pool!Init
  BY ParalAssumption DEF Init, PNull, PKeys, Pool!Init, Hard
<1>2. Inv /\ [Next]_vars =>
        [Pool!Next]_[k \in Keys |-> {h \in Hard(k) : map[h[1]][k] = "live"}]
  <2> SUFFICES ASSUME Inv, [Next]_vars, Holders' # Holders
               PROVE  Pool!Next
    BY DEF Holders, Held
  <2>1. CASE \A k \in Keys : Held(k)' \subseteq Held(k)
    <3>1. Holders' \in [Keys -> SUBSET (Procs \X Ctxs)]
      BY DEF Holders, Held, Hard
    <3>2. \A k \in Keys : Holders'[k] \subseteq Holders[k]
      BY <2>1 DEF Holders
    <3>3. Pool!Revoke
      BY <3>1, <3>2 DEF Holders, Held, Pool!Revoke
    <3> QED BY <3>3 DEF Pool!Next
  <2>2. CASE \E h \in Procs \X Ctxs, k \in Keys :
               /\ h \notin Held(k) /\ Cardinality(Held(k)) < Limit[k]
               /\ Holders' = [j \in Keys |-> (Held(j) \ {h}) \cup (IF j = k THEN {h} ELSE {})]
    <3>1. PICK h \in Procs \X Ctxs, k \in Keys :
             /\ h \notin Held(k) /\ Cardinality(Held(k)) < Limit[k]
             /\ Holders' = [j \in Keys |-> (Held(j) \ {h}) \cup (IF j = k THEN {h} ELSE {})]
      BY <2>2
    <3>2. Holders[k] = Held(k) /\ \A j \in Keys : Holders[j] = Held(j)
      BY DEF Holders
    <3>3. /\ h \notin Holders[k] /\ Pool!Cardinality(Holders[k]) < Limit[k]
          /\ Holders' = [j \in Keys |-> (Holders[j] \ {h}) \cup (IF j = k THEN {h} ELSE {})]
      BY <3>1, <3>2, SameCount
    <3>4. Pool!Grant(h, k)
      BY <3>3 DEF Holders, Held, Pool!Grant
    <3> QED BY <3>4 DEF Pool!Next
  <2> QED BY <2>1, <2>2, PermitStep
<1> QED BY <1>1, <1>2, Invariance, PTL DEF Spec, PoolSpec, Pool!Spec

-----------------------------------------------------------------------------
(* Sections, the limit, and removal by the last process.  Two faults break  *)
(* them, and the theorems assume them away: paral_sem is not the host's     *)
(* semaphore 0, which the removal of the list's head would remove, and no   *)
(* shmat fails, which may remove the segment in use.  A failing semop is    *)
(* not assumed away: the properties themselves count the P's that failed.   *)

Undisturbed == ~LockFirst /\ "shmat" \notin Failing

\* Identifiers stay valid, and a section is a section of paral_sem.
IdsInv ==
  /\ ~idzero
  /\ \A p \in Procs : lockref[p] # "stale" /\ att[p] # "stale"
  /\ \A p \in Procs : pc[p] \in Critical => lockref[p] = "live"

\* Who removes semaphores is alone, and contexts have the existing ones.
AloneInv ==
  /\ \A p \in Procs : pc[p] \in {"rmid0", "rmid"} =>
                        \A q \in Procs : att[q] = "no"
  /\ \A p \in Procs, c \in Ctxs : pc[p] = "run" /\ ctx[p][c] \in Keys =>
                                    att[p] = "live" /\ map[p][ctx[p][c]] = "live"

UseInv == IdsInv /\ (slips = 0 => AloneInv)

\* The processes in sections are owners of paral_sem, which are counted.
LEMMA SectionsExcludeHere ==
  ASSUME TypeOK, LockOK, IdsInv
  PROVE  SectionsExclude
<1>1. {p \in Procs : pc[p] \in Critical} = Owners
  BY DEF IdsInv, Owners, Owns
<1>2. CASE lock = -1
  <2>1. Owners = {}
    BY <1>2 DEF LockOK, Owners, Owns
  <2>2. Cardinality(Owners) = 0
    BY <2>1, FS_EmptySet
  <2>3. 0 <= 1 + slips
    BY DEF TypeOK
  <2> QED BY <1>1, <2>2, <2>3 DEF SectionsExclude
<1>3. CASE lock # -1
  <2>1. lock \in Nat /\ slips \in Nat /\ Cardinality(Owners) \in Nat
    BY <1>3, Counted DEF TypeOK, Owners
  <2>2. lock + Cardinality(Owners) <= 1 + slips
    BY DEF LockOK
  <2>3. Cardinality(Owners) <= 1 + slips
    BY <2>1, <2>2
  <2> QED BY <1>1, <2>3 DEF SectionsExclude
<1> QED BY <1>2, <1>3

\* While no P has failed two processes in sections are one.
LEMMA Alone ==
  ASSUME SectionsExclude, slips = 0, NEW p \in Procs, NEW q \in Procs,
         pc[p] \in Critical, pc[q] \in Critical
  PROVE  p = q
<1> DEFINE C == {r \in Procs : pc[r] \in Critical}
<1>1. Cardinality(C) <= 1
  BY DEF SectionsExclude
<1>2. IsFiniteSet(C) /\ IsFiniteSet(C \ {p})
  BY ParalAssumption, FS_Subset
<1>3. p \in C /\ q \in C
  OBVIOUS
<1> HIDE DEF C
<1>4. Cardinality(C \ {p}) = Cardinality(C) - 1 /\ Cardinality(C \ {p}) \in Nat
  BY <1>2, <1>3, FS_RemoveElement, FS_CardinalityType
<1>5. Cardinality(C \ {p}) = 0
  BY <1>1, <1>2, <1>4, FS_CardinalityType
<1>6. C \ {p} = {}
  BY <1>2, <1>5, FS_EmptySet
<1> QED BY <1>3, <1>6

LEMMA InitUse ==
  ASSUME Undisturbed, Init
  PROVE  UseInv
BY ParalAssumption
DEF Undisturbed, Init, UseInv, IdsInv, AloneInv, PNull, PKeys, Critical

\* A P that has failed is not forgotten.
LEMMA SlipsGrow ==
  ASSUME TypeOK, [Next]_vars, slips' = 0
  PROVE  slips = 0
<1>1. ASSUME NEW p \in Procs, semaphore_P(p)
      PROVE  slips = 0
  BY <1>1 DEF semaphore_P, Acquire, Slip, TypeOK
<1>2. ASSUME NEW p \in Procs,
             \/ init_global_semaphore(p) \/ SetLock(p) \/ semaphore_V(p)
             \/ kuaf_paral_init(p) \/ EndInit(p) \/ BeginFree(p)
             \/ kuaf_paral_free(p) \/ RemoveHead(p) \/ EndRemove(p) \/ KernelExit(p)
      PROVE  slips = 0
  BY <1>2 DEF init_global_semaphore, SetLock, semaphore_V, kuaf_paral_init, EndInit,
              BeginFree, kuaf_paral_free, RemoveHead, EndRemove, KernelExit, Lock
<1>3. ASSUME NEW p \in Procs, NEW k \in Keys,
             init_multi_semaphore(p, k) \/ SetSem(p, k) \/ RemoveSem(p, k)
      PROVE  slips = 0
  BY <1>3 DEF init_multi_semaphore, SetSem, RemoveSem, Lock
<1>4. ASSUME NEW p \in Procs, CtxStep(p)
      PROVE  slips = 0
  BY <1>4 DEF CtxStep, kuaf_ctx_scheduler_create, kuaf_ctx_scheduler,
              kuaf_ctx_scheduler_free, Shared, Lock
<1>5. CASE UNCHANGED vars
  BY <1>5 DEF vars
<1> QED BY <1>1, <1>2, <1>3, <1>4, <1>5 DEF Next, LibStep, Exit, Crash

\* Identifiers stay valid in every step.
LEMMA IdsStep ==
  ASSUME Undisturbed, TypeOK, IdsInv, [Next]_vars
  PROVE  IdsInv'
<1> USE DEF IdsInv, Goto, Critical, Lock
<1>0. TypeOK
  OBVIOUS
<1>1. ASSUME NEW p \in Procs,
             \/ init_global_semaphore(p) \/ SetLock(p) \/ semaphore_P(p)
             \/ semaphore_V(p) \/ EndInit(p) \/ BeginFree(p) \/ EndRemove(p)
             \/ KernelExit(p) \/ RemoveHead(p)
      PROVE  IdsInv'
  <2>1. idzero' = idzero /\ \A q \in Procs : att'[q] # "stale"
    BY <1>0, <1>1 DEF init_global_semaphore, SetLock, semaphore_P, Enter, semaphore_V,
                EndInit, BeginFree, EndRemove, KernelExit, RemoveHead, Uninit, TypeOK
  <2>2. /\ \A q \in Procs : q # p => pc'[q] = pc[q] /\ lockref'[q] = lockref[q]
        /\ lockref'[p] # "stale"
    BY <1>0, <1>1 DEF init_global_semaphore, SetLock, semaphore_P, Enter, semaphore_V,
                EndInit, BeginFree, EndRemove, KernelExit, RemoveHead, Uninit, TypeOK
  <2>3. pc'[p] \in Critical => lockref'[p] = "live"
    BY <1>0, <1>1 DEF init_global_semaphore, SetLock, semaphore_P, Enter, Acquire, Slip,
                semaphore_V, EndInit, BeginFree, EndRemove, KernelExit, RemoveHead,
                Uninit, TypeOK
  <2> QED BY <2>1, <2>2, <2>3
<1>2. ASSUME NEW p \in Procs, kuaf_paral_init(p) \/ kuaf_paral_free(p)
      PROVE  IdsInv'
  <2>1. UNCHANGED <<idzero, lockref>> /\ \A q \in Procs : att'[q] # "stale"
    BY <1>0, <1>2 DEF kuaf_paral_init, kuaf_paral_free, LastOut, Undisturbed, TypeOK
  <2>2. \A q \in Procs : pc'[q] \in Critical => pc[q] \in Critical
    BY <1>0, <1>2 DEF kuaf_paral_init, kuaf_paral_free, LastOut, TypeOK
  <2> QED BY <2>1, <2>2
<1>3. ASSUME NEW p \in Procs, NEW k \in Keys,
             init_multi_semaphore(p, k) \/ SetSem(p, k) \/ RemoveSem(p, k)
      PROVE  IdsInv'
  BY <1>3 DEF init_multi_semaphore, SetSem, RemoveSem
<1>4. ASSUME NEW p \in Procs, CtxStep(p)
      PROVE  IdsInv'
  BY <1>4 DEF CtxStep, kuaf_ctx_scheduler_create, kuaf_ctx_scheduler,
              kuaf_ctx_scheduler_free, Shared
<1>5. CASE UNCHANGED vars
  BY <1>5 DEF vars
<1> QED BY <1>1, <1>2, <1>3, <1>4, <1>5 DEF Next, LibStep, Exit, Crash

\* While no P fails a segment is attached only inside a section, and no other
\* process is in a section while semaphores are removed.
LEMMA AloneStep ==
  ASSUME Undisturbed, TypeOK, LockOK, CtxOK, IdsInv, IdsInv', AloneInv, slips = 0,
         [Next]_vars
  PROVE  AloneInv'
<1> USE DEF AloneInv, Goto, Critical, Lock
<1>0. TypeOK /\ CtxOK /\ IdsInv
  OBVIOUS
<1>1. ASSUME NEW p \in Procs, init_global_semaphore(p)
      PROVE  AloneInv'
  <2>1. \A c \in Ctxs : ctx[p][c] \notin Keys
    BY <1>0, <1>1, ParalAssumption DEF CtxOK, Starting, init_global_semaphore
  <2>2. /\ UNCHANGED <<idzero, att, map, ctx>>
        /\ \A q \in Procs : q # p => pc'[q] = pc[q] /\ lockref'[q] = lockref[q]
        /\ pc'[p] \in {"setval", "initP", "run"}
        /\ lockref'[p] \in {"live", lockref[p]}
    BY <1>0, <1>1 DEF init_global_semaphore, Uninit, TypeOK
  <2> QED BY <2>1, <2>2
<1>2. ASSUME NEW p \in Procs, SetLock(p) \/ EndInit(p) \/ BeginFree(p) \/ EndRemove(p)
      PROVE  AloneInv'
  <2>1. /\ UNCHANGED <<lockref, idzero, att, map, ctx>>
        /\ \A q \in Procs : q # p => pc'[q] = pc[q]
    BY <1>0, <1>2 DEF SetLock, EndInit, BeginFree, EndRemove, Uninit, TypeOK
  <2>2. /\ pc'[p] \notin {"rmid0", "rmid", "run"}
        /\ pc'[p] \in Critical => pc[p] \in Critical
    BY <1>0, <1>2 DEF SetLock, EndInit, BeginFree, EndRemove, TypeOK
  <2> QED BY <2>1, <2>2
<1>3. ASSUME NEW p \in Procs, semaphore_P(p)
      PROVE  AloneInv'
  BY <1>0, <1>3 DEF semaphore_P, Enter, Uninit, TypeOK
<1>4. ASSUME NEW p \in Procs, semaphore_V(p)
      PROVE  AloneInv'
  <2>1. pc[p] = "initV" => \A c \in Ctxs : ctx[p][c] \notin Keys
    BY <1>0, ParalAssumption DEF CtxOK, Starting
  <2> QED BY <1>0, <1>4, <2>1 DEF semaphore_V, Uninit, TypeOK
<1>5. ASSUME NEW p \in Procs, KernelExit(p)
      PROVE  AloneInv'
  BY <1>0, <1>5 DEF KernelExit, AfterUndo, TypeOK
<1>6. ASSUME NEW p \in Procs, kuaf_paral_init(p)
      PROVE  AloneInv'
  <2>1. \A q \in Procs : pc[q] \notin {"rmid0", "rmid"}
    BY <1>0, <1>6, SectionsExcludeHere, Alone DEF kuaf_paral_init
  <2> QED BY <1>0, <1>6, <2>1 DEF kuaf_paral_init, Undisturbed, TypeOK
<1>7. ASSUME NEW p \in Procs, NEW k \in Keys, init_multi_semaphore(p, k) \/ SetSem(p, k)
      PROVE  AloneInv'
  <2>1. /\ UNCHANGED <<pc, lockref, idzero, att, ctx>> /\ pc[p] = "sems"
        /\ \A q \in Procs : q # p => map'[q] = map[q]
    BY <1>0, <1>7 DEF init_multi_semaphore, SetSem, TypeOK
  <2> QED BY <2>1
<1>8. ASSUME NEW p \in Procs, kuaf_paral_free(p)
      PROVE  AloneInv'
  <2>1. /\ UNCHANGED <<lockref, idzero, ctx>> /\ pc[p] = "shmdt"
        /\ \A q \in Procs : q # p => /\ pc'[q] = pc[q] /\ att'[q] = att[q]
                                    /\ map'[q] = map[q]
        /\ att'[p] = "no" /\ pc'[p] \in {"rmid0", "freeV"}
    BY <1>0, <1>8 DEF kuaf_paral_free, LastOut, TypeOK
  <2>2. pc'[p] = "rmid0" => \A q \in Procs : q # p => att[q] = "no"
    <3>1. pc'[p] = "rmid0" => Attached = {p}
      BY <1>0, <1>8 DEF kuaf_paral_free, LastOut, TypeOK
    <3>2. \A q \in Procs : att[q] \in {"no", "live"}
      BY <1>0 DEF IdsInv, TypeOK
    <3> QED BY <3>1, <3>2 DEF Attached
  <2>3. \A q \in Procs : pc'[q] \in {"rmid0", "rmid"} =>
                          \A r \in Procs : att'[r] = "no"
    BY <2>1, <2>2
  <2> QED BY <2>1, <2>3
<1>9. ASSUME NEW p \in Procs, RemoveHead(p)
      PROVE  AloneInv'
  BY <1>0, <1>9 DEF RemoveHead, TypeOK
<1>10. ASSUME NEW p \in Procs, NEW k \in Keys, RemoveSem(p, k)
       PROVE  AloneInv'
  <2>1. UNCHANGED <<pc, lockref, idzero, att, ctx>> /\ \A q \in Procs : att[q] = "no"
    BY <1>10 DEF RemoveSem
  <2> QED BY <2>1
<1>11. ASSUME NEW p \in Procs, NEW c \in Ctxs,
              kuaf_ctx_scheduler_create(p, c) \/ kuaf_ctx_scheduler_free(p, c)
       PROVE  AloneInv'
  <2>1. /\ UNCHANGED Shared
        /\ \E v \in {NoCtx, DevUnknown} : ctx' = [ctx EXCEPT ![p][c] = v]
    BY <1>11 DEF kuaf_ctx_scheduler_create, kuaf_ctx_scheduler_free, SetCtx
  <2>2. \A q \in Procs, d \in Ctxs : ctx'[q][d] \in Keys => ctx'[q][d] = ctx[q][d]
    BY <1>0, <2>1, ParalAssumption DEF TypeOK
  <2> QED BY <2>1, <2>2 DEF Shared
<1>12. ASSUME NEW p \in Procs, NEW c \in Ctxs, NEW k \in Keys, kuaf_ctx_scheduler(p, c, k)
       PROVE  AloneInv'
  <2>1. /\ UNCHANGED Shared
        /\ \A q \in Procs, d \in Ctxs : ctx'[q][d] \in Keys =>
             \/ ctx'[q][d] = ctx[q][d]
             \/ q = p /\ d = c /\ ctx'[q][d] = k /\ UnitLeft(p, k)
    BY <1>0, <1>12, ParalAssumption DEF kuaf_ctx_scheduler, SetCtx, TypeOK
  <2>2. UnitLeft(p, k) => att[p] = "live" /\ map[p][k] = "live"
    BY <1>0 DEF UnitLeft, IdsInv, TypeOK
  <2> QED BY <2>1, <2>2 DEF Shared
<1>13. CASE UNCHANGED vars
  BY <1>13 DEF vars
<1> QED
  BY <1>1, <1>2, <1>3, <1>4, <1>5, <1>6, <1>7, <1>8, <1>9, <1>10, <1>11, <1>12, <1>13
  DEF Next, LibStep, CtxStep, Exit, Crash

\* Every step keeps both.
LEMMA UseStep ==
  ASSUME Undisturbed, TypeOK, LockOK, CtxOK, UseInv, [Next]_vars
  PROVE  UseInv'
BY IdsStep, AloneStep, SlipsGrow DEF UseInv

\* The limit in every state of the two invariants.
LEMMA LimitHere == Inv /\ UseInv => HardwareWithinLimit
<1> SUFFICES ASSUME Inv, UseInv, slips = 0, NEW k \in Keys
             PROVE  Cardinality(Hard(k)) <= Limit[k]
  BY DEF HardwareWithinLimit
<1>0. TypeOK /\ RefsOK /\ Conservation /\ Limit[k] \in Nat
  BY ParalAssumption DEF Inv, UnitsInv
<1>1. CASE Hard(k) = {}
  BY <1>0, <1>1, FS_EmptySet
<1>2. CASE Hard(k) # {}
  <2>1. PICK h \in Hard(k) : TRUE
    BY <1>2
  <2>2. sem[k] # -1 /\ Held(k) = Hard(k)
    BY <1>0, <2>1 DEF Held, Hard, UseInv, AloneInv, RefsOK
  <2>3. sem[k] \in Nat /\ sem[k] + Cardinality(Units(k)) \in {0, Limit[k]}
    BY <1>0, <2>2 DEF TypeOK, Conservation
  <2> QED BY <1>0, <2>2, <2>3, HeldWithinOwed
<1> QED BY <1>1, <1>2

LEMMA UseInvariance == Undisturbed /\ Spec => [](Inv /\ UseInv)
<1> SUFFICES ASSUME Undisturbed PROVE Spec => [](Inv /\ UseInv)
  OBVIOUS
<1>1. Init => Inv /\ UseInv
  BY InitInv, InitUse
<1>2. Inv /\ UseInv /\ [Next]_vars => Inv' /\ UseInv'
  BY LockStep, TypeStep, UnitsStep, UseStep DEF Inv, UnitsInv
<1> QED BY <1>1, <1>2, PTL DEF Spec

\* Until a P of paral_sem fails there are never more contexts on an
\* accelerator than configured, for every number of processes, whatever is
\* killed and whichever of the other calls fail.
THEOREM LimitHolds == Undisturbed /\ Spec => []HardwareWithinLimit
<1>1. Inv /\ UseInv => HardwareWithinLimit
  BY LimitHere
<1> QED BY <1>1, UseInvariance, PTL

\* The library's sections exclude each other up to the P's that failed: each
\* lets one more process in, then and later, and no process's death adds to it.
THEOREM SectionsAreExclusive == Undisturbed /\ Spec => []SectionsExclude
<1>1. Inv /\ UseInv => SectionsExclude
  BY SectionsExcludeHere DEF Inv, UseInv
<1> QED BY <1>1, UseInvariance, PTL

-----------------------------------------------------------------------------
(* Removal *)

\* A process has the identifier of a semaphore while it is attached.
AttInv ==
  \A p \in Procs :
    /\ pc[p] \in {"off", "setval", "initP", "shmat"} =>
         \A k \in Keys : map[p][k] = "absent"
    /\ pc[p] = "sems" => att[p] = "live"
    /\ pc[p] \in {"initV", "run", "freeP", "shmdt"} =>
         \A k \in Keys : map[p][k] = "live" => att[p] = "live"

\* Identifiers are got by an attached process, and only the one that removes the
\* semaphores keeps them after it has detached.
LEMMA AttStep ==
  ASSUME Undisturbed, TypeOK, AttInv, [Next]_vars
  PROVE  AttInv'
<1> USE DEF AttInv, Goto
<1>1. ASSUME NEW p \in Procs,
             \/ init_global_semaphore(p) \/ SetLock(p) \/ semaphore_P(p) \/ semaphore_V(p)
             \/ EndInit(p) \/ BeginFree(p) \/ EndRemove(p) \/ RemoveHead(p)
      PROVE  AttInv'
  <2>1. UNCHANGED <<att, map>> /\ \A q \in Procs : q # p => pc'[q] = pc[q]
    BY <1>1 DEF init_global_semaphore, SetLock, semaphore_P, Enter, semaphore_V, EndInit,
                BeginFree, EndRemove, RemoveHead, Uninit, Lock, TypeOK
  <2>2. \/ pc[p] \in {"off", "setval", "initP"} /\ pc'[p] \in {"setval", "initP", "shmat", "run"}
        \/ pc[p] = "sems" /\ pc'[p] = "initV"
        \/ pc[p] \in {"initV", "run", "freeP"} /\ pc'[p] \in {"run", "freeP", "shmdt", "exit"}
        \/ pc'[p] \in {"rmid", "freeV", "exit"}
    BY <1>1 DEF init_global_semaphore, SetLock, semaphore_P, Enter, semaphore_V, EndInit,
                BeginFree, EndRemove, RemoveHead, TypeOK
  <2> QED BY <2>1, <2>2
<1>2. ASSUME NEW p \in Procs, kuaf_paral_init(p)
      PROVE  AttInv'
  BY <1>2 DEF kuaf_paral_init, Undisturbed, TypeOK
<1>3. ASSUME NEW p \in Procs, NEW k \in Keys, init_multi_semaphore(p, k) \/ SetSem(p, k)
      PROVE  AttInv'
  <2>1. /\ UNCHANGED <<pc, att>> /\ pc[p] = "sems"
        /\ \A q \in Procs : q # p => map'[q] = map[q]
    BY <1>3 DEF init_multi_semaphore, SetSem, TypeOK
  <2> QED BY <2>1
<1>4. ASSUME NEW p \in Procs, NEW k \in Keys, RemoveSem(p, k)
      PROVE  AttInv'
  <2>1. /\ UNCHANGED <<pc, att>> /\ pc[p] = "rmid"
        /\ \A q \in Procs, j \in Keys : q # p =>
             /\ map'[q][j] = "live" => map[q][j] = "live"
             /\ map[q][j] = "absent" => map'[q][j] = "absent"
    BY <1>4 DEF RemoveSem, Dangling, TypeOK
  <2> QED BY <2>1
<1>5. ASSUME NEW p \in Procs, kuaf_paral_free(p)
      PROVE  AttInv'
  <2>1. /\ pc'[p] \in {"rmid0", "freeV"}
        /\ \A q \in Procs : q # p => /\ pc'[q] = pc[q] /\ att'[q] = att[q]
                                    /\ map'[q] = map[q]
    BY <1>5 DEF kuaf_paral_free, TypeOK
  <2> QED BY <2>1
<1>6. ASSUME NEW p \in Procs, KernelExit(p)
      PROVE  AttInv'
  BY <1>6 DEF KernelExit, AfterUndo, TypeOK
<1>7. ASSUME NEW p \in Procs, CtxStep(p)
      PROVE  AttInv'
  BY <1>7 DEF CtxStep, kuaf_ctx_scheduler_create, kuaf_ctx_scheduler,
              kuaf_ctx_scheduler_free, Shared, Lock
<1>8. CASE UNCHANGED vars
  BY <1>8 DEF vars
<1> QED
  BY <1>1, <1>2, <1>3, <1>4, <1>5, <1>6, <1>7, <1>8 DEF Next, LibStep, Exit, Crash

\* A semaphore goes away only in kuaf_paral_map_destroy.
LEMMA OnlyRemoved ==
  ASSUME TypeOK, [Next]_vars, NEW k \in Keys, sem[k] # -1, sem'[k] = -1
  PROVE  \E p \in Procs : pc[p] = "rmid"
<1>1. sem[k] \in Nat /\ sem' # sem
  BY DEF TypeOK
<1>2. ASSUME NEW p \in Procs, KernelExit(p)
      PROVE  FALSE
  BY <1>1, <1>2 DEF KernelExit, AfterUndo, TypeOK
<1>3. ASSUME NEW p \in Procs, NEW j \in Keys, init_multi_semaphore(p, j) \/ SetSem(p, j)
      PROVE  FALSE
  BY <1>1, <1>3, ParalAssumption DEF init_multi_semaphore, SetSem, TypeOK
<1>4. ASSUME NEW p \in Procs, CtxStep(p)
      PROVE  FALSE
  <2>1. CASE \E c \in Ctxs : kuaf_ctx_scheduler_create(p, c)
    BY <1>1, <2>1 DEF kuaf_ctx_scheduler_create
  <2>2. CASE \E c \in Ctxs, j \in Keys : kuaf_ctx_scheduler(p, c, j)
    BY <1>1, <2>2 DEF kuaf_ctx_scheduler, UnitLeft, TypeOK
  <2>3. CASE \E c \in Ctxs : kuaf_ctx_scheduler_free(p, c)
    BY <1>1, <2>3 DEF kuaf_ctx_scheduler_free, TypeOK
  <2> QED BY <1>4, <2>1, <2>2, <2>3 DEF CtxStep
<1>5. ASSUME NEW p \in Procs,
             \/ init_global_semaphore(p) \/ SetLock(p) \/ semaphore_P(p) \/ semaphore_V(p)
             \/ EndInit(p) \/ BeginFree(p) \/ EndRemove(p) \/ RemoveHead(p)
             \/ kuaf_paral_init(p) \/ kuaf_paral_free(p)
      PROVE  FALSE
  BY <1>1, <1>5 DEF init_global_semaphore, SetLock, semaphore_P, Enter, semaphore_V, EndInit,
              BeginFree, EndRemove, RemoveHead, kuaf_paral_init, kuaf_paral_free, Uninit, Lock
<1>6. ~ UNCHANGED vars
  BY <1>1 DEF vars
<1> QED
  BY <1>2, <1>3, <1>4, <1>5, <1>6 DEF Next, LibStep, Exit, Crash, RemoveSem

-----------------------------------------------------------------------------
(* Forks.  A child that frees its copies of the parent's contexts breaks    *)
(* UnitsInv, but not what the removal of semaphores rests on.               *)

\* What keeps the sections apart and the removal to the last process.
RemovalInv == TypeOK /\ LockOK /\ CtxOK /\ UseInv /\ AttInv

\* Contexts are there only after the constructor, in every step.
LEMMA ConstructorStep ==
  ASSUME TypeOK, CtxOK, [Next]_vars
  PROVE  CtxOK'
<1> USE DEF CtxOK, Starting, Goto
<1>1. ASSUME NEW p \in Procs,
             \/ init_global_semaphore(p) \/ SetLock(p) \/ semaphore_P(p) \/ semaphore_V(p)
             \/ kuaf_paral_init(p) \/ EndInit(p) \/ BeginFree(p) \/ kuaf_paral_free(p)
             \/ RemoveHead(p) \/ EndRemove(p)
      PROVE  CtxOK'
  <2>1. ctx' = ctx /\ \A q \in Procs : q # p => pc'[q] = pc[q]
    BY <1>1 DEF init_global_semaphore, SetLock, semaphore_P, Enter, semaphore_V, kuaf_paral_init,
                EndInit, BeginFree, kuaf_paral_free, RemoveHead, EndRemove, Uninit, Lock, TypeOK
  <2>2. pc'[p] \in Starting => pc[p] \in Starting
    BY <1>1 DEF init_global_semaphore, SetLock, semaphore_P, Enter, semaphore_V, kuaf_paral_init,
                EndInit, BeginFree, kuaf_paral_free, RemoveHead, EndRemove, TypeOK
  <2> QED BY <2>1, <2>2
<1>2. ASSUME NEW p \in Procs, NEW k \in Keys,
             init_multi_semaphore(p, k) \/ SetSem(p, k) \/ RemoveSem(p, k)
      PROVE  CtxOK'
  BY <1>2 DEF init_multi_semaphore, SetSem, RemoveSem
<1>3. ASSUME NEW p \in Procs, KernelExit(p)
      PROVE  CtxOK'
  BY <1>3 DEF KernelExit, AfterUndo, TypeOK
<1>4. ASSUME NEW p \in Procs, CtxStep(p)
      PROVE  CtxOK'
  <2>1. pc' = pc /\ pc[p] = "run" /\ \A q \in Procs : q # p => ctx'[q] = ctx[q]
    BY <1>4 DEF CtxStep, kuaf_ctx_scheduler_create, kuaf_ctx_scheduler,
                kuaf_ctx_scheduler_free, SetCtx, Shared, TypeOK
  <2> QED BY <2>1
<1>5. CASE UNCHANGED vars
  BY <1>5 DEF vars
<1> QED
  BY <1>1, <1>2, <1>3, <1>4, <1>5 DEF Next, LibStep, Exit, Crash

\* Before the first load nobody is attached.
LEMMA InitRemoval ==
  ASSUME Undisturbed, Init
  PROVE  RemovalInv
<1>1. AttInv
  BY DEF Init, AttInv, PNull, PKeys
<1> QED BY <1>1, InitInv, InitUse DEF RemovalInv, Inv, UnitsInv

\* A child is in the state of a running process that its parent is in.
LEMMA ForkStep ==
  ASSUME RemovalInv, NEW p \in Procs, NEW q \in Procs, Fork(p, q)
  PROVE  RemovalInv'
<1>1. /\ UNCHANGED <<lock, undo, slips, idzero, shm, sem, taken>>
      /\ pc[p] = "run" /\ pc[q] = "off" /\ p # q /\ TypeOK
  BY DEF Fork, RemovalInv
<1>2. /\ pc'[q] = "run" /\ lockref'[q] = lockref[p] /\ att'[q] = att[p]
      /\ map'[q] = map[p] /\ ctx'[q] = ctx[p]
      /\ \A r \in Procs : r # q => /\ pc'[r] = pc[r] /\ lockref'[r] = lockref[r]
                                  /\ att'[r] = att[r] /\ map'[r] = map[r] /\ ctx'[r] = ctx[r]
  BY <1>1 DEF Fork, Goto, TypeOK
<1>3. TypeOK'
  <2>1. /\ pc' \in [Procs -> PCs] /\ lockref' \in [Procs -> {"none", "live", "stale"}]
        /\ att' \in [Procs -> {"no", "live", "stale"}]
        /\ map' \in [Procs -> [Keys -> {"absent", "creating", "live", "stale"}]]
        /\ ctx' \in [Procs -> [Ctxs -> Keys \cup {NoCtx, DevUnknown}]]
    BY <1>1 DEF Fork, Goto, TypeOK, PCs
  <2> QED BY <1>1, <2>1 DEF TypeOK
<1>4. LockOK'
  <2>1. \A r \in Procs : Owns(r)' <=> Owns(r)
    BY <1>1, <1>2 DEF Owns, Critical
  <2>2. \A r \in Procs : pc'[r] = "setval" => r # q /\ pc[r] = "setval" /\ r # p
    BY <1>1, <1>2
  <2>3. Owners' = Owners
    BY <2>1 DEF Owners
  <2> QED BY <1>1, <1>2, <2>1, <2>2, <2>3 DEF RemovalInv, LockOK
<1>5. CtxOK'
  BY <1>2 DEF RemovalInv, CtxOK, Starting
<1>6. UseInv'
  BY <1>1, <1>2 DEF RemovalInv, UseInv, IdsInv, AloneInv, Critical
<1>7. AttInv'
  BY <1>1, <1>2 DEF RemovalInv, AttInv
<1> QED BY <1>3, <1>4, <1>5, <1>6, <1>7 DEF RemovalInv

\* Every step keeps it, a fork included.
LEMMA RemovalStep ==
  ASSUME Undisturbed, RemovalInv, [NextFork]_forkvars
  PROVE  RemovalInv'
<1>1. CASE [Next]_vars
  BY <1>1, TypeStep, LockStep, ConstructorStep, UseStep, AttStep DEF RemovalInv
<1>2. CASE \E p, q \in Procs : Fork(p, q)
  BY <1>2, ForkStep
<1> QED BY <1>1, <1>2 DEF NextFork, forkvars

\* So it holds in programs that fork.
LEMMA RemovalInvariance == Undisturbed /\ SpecFork => []RemovalInv
<1> SUFFICES ASSUME Undisturbed PROVE SpecFork => []RemovalInv
  OBVIOUS
<1>1. InitFork => RemovalInv
  BY InitRemoval DEF InitFork
<1>2. RemovalInv /\ [NextFork]_forkvars => RemovalInv'
  BY RemovalStep
<1> QED BY <1>1, <1>2, PTL DEF SpecFork

\* A process that removes semaphores found nobody attached, so that no running
\* process has the identifier of one.
LEMMA LastRemoves ==
  ASSUME RemovalInv, [NextFork]_forkvars
  PROVE  [\A k \in Keys : sem[k] # -1 /\ sem'[k] = -1 /\ slips = 0 =>
            \A p \in Procs : pc[p] = "run" => map[p][k] # "live"]_vars
<1>1. CASE [Next]_vars
  BY <1>1, OnlyRemoved DEF RemovalInv, UseInv, AloneInv, AttInv
<1>2. CASE \E p, q \in Procs : Fork(p, q)
  BY <1>2 DEF Fork
<1> QED BY <1>1, <1>2 DEF NextFork, forkvars

\* No semaphore is taken from a running process that can use it, parent or
\* child: until a P fails it is removed by a process that found nobody attached.
THEOREM RemovedWhenLastForked == Undisturbed /\ SpecFork => RemovedWhenLast
<1> SUFFICES ASSUME Undisturbed PROVE SpecFork => RemovedWhenLast
  OBVIOUS
<1>1. RemovalInv /\ [NextFork]_forkvars =>
        [\A k \in Keys : sem[k] # -1 /\ sem'[k] = -1 /\ slips = 0 =>
           \A p \in Procs : pc[p] = "run" => map[p][k] # "live"]_vars
  BY LastRemoves
<1>2. SpecFork => []RemovalInv
  BY RemovalInvariance
<1> QED BY <1>1, <1>2, PTL DEF SpecFork, RemovedWhenLast

\* A process that forks in use lets no more processes into the sections than
\* the failed P's do.
THEOREM SectionsExclusiveForked == Undisturbed /\ SpecFork => []SectionsExclude
<1>1. RemovalInv => SectionsExclude
  BY SectionsExcludeHere DEF RemovalInv, UseInv
<1> QED BY <1>1, RemovalInvariance, PTL

\* The same where no process forks, as in ParalSem itself.
THEOREM RemovedWhenLastCorrect == Undisturbed /\ Spec => RemovedWhenLast
<1> SUFFICES ASSUME Undisturbed PROVE Spec => RemovedWhenLast
  OBVIOUS
<1>1. Init => RemovalInv
  BY InitRemoval
<1>2. RemovalInv /\ [Next]_vars => RemovalInv'
  BY TypeStep, LockStep, ConstructorStep, UseStep, AttStep DEF RemovalInv
<1>3. RemovalInv /\ [Next]_vars =>
        [\A k \in Keys : sem[k] # -1 /\ sem'[k] = -1 /\ slips = 0 =>
           \A p \in Procs : pc[p] = "run" => map[p][k] # "live"]_vars
  BY OnlyRemoved DEF RemovalInv, UseInv, AloneInv, AttInv
<1> QED BY <1>1, <1>2, <1>3, PTL DEF Spec, RemovedWhenLast
=============================================================================
