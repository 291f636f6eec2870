---------------------------- MODULE LocalProofs -----------------------------
(***************************************************************************)
(* The lists of records, for any threads, addresses and number of calls.   *)
(* The daemon may detach the list while threads are in it.  Of all threads *)
(* only those can reach a record that it frees; a thread has one record at *)
(* most; and of the lengths reported only those can be missing that such a *)
(* thread added.                                                           *)
(*                                                                         *)
(* A list is a set of records here: one that is closed under next, and of  *)
(* which no smaller closed set holds the first record.  A sum is the size  *)
(* of a set of pairs.                                                      *)
(***************************************************************************)
EXTENDS LocalRecords, FiniteSetTheorems, TLAPS

-----------------------------------------------------------------------------
(* Least members, and sums *)

\* Every nonempty set of naturals has a least element.
LEMMA Least ==
  ASSUME NEW T \in SUBSET Nat, T # {}
  PROVE  \E m \in T : \A k \in T : m <= k
<1>1. PICK n \in T : TRUE
  OBVIOUS
<1> DEFINE R == StrictSubsetOrdering(0 .. n)
           F == {U \in SUBSET (0 .. n) : \E m \in T : U = 0 .. m}
<1>2. IsWellFoundedOn(R, FiniteSubsetsOf(0 .. n))
  BY FS_StrictSubsetOrderingWellFounded
<1>3. F \subseteq FiniteSubsetsOf(0 .. n) /\ F # {}
  <2>1. IsFiniteSet(0 .. n)
    BY FS_Interval
  <2>2. \A U \in SUBSET (0 .. n) : IsFiniteSet(U)
    BY <2>1, FS_Subset
  <2>3. 0 .. n \in F
    OBVIOUS
  <2> QED BY <2>2, <2>3 DEF FiniteSubsetsOf
<1>4. PICK U \in F : \A V \in F : ~ (<<V, U>> \in R)
  <2> HIDE DEF R, F
  <2> QED BY <1>2, <1>3, WFMin
<1>5. PICK m \in T : U = 0 .. m /\ U \subseteq 0 .. n
  OBVIOUS
<1>6. ASSUME NEW k \in T, k < m PROVE FALSE
  <2>1. 0 .. k \in F /\ 0 .. k \subseteq U /\ 0 .. k # U
    BY <1>5, <1>6
  <2> QED BY <1>4, <2>1 DEF StrictSubsetOrdering
<1> QED BY <1>5, <1>6

\* Every nonempty set of finite sets has one with the fewest members.
LEMMA Fewest ==
  ASSUME NEW S, IsFiniteSet(S), NEW T \in SUBSET (SUBSET S), T # {}
  PROVE  \E m \in T : \A k \in T : k \subseteq m => k = m
<1>1. IsWellFoundedOn(StrictSubsetOrdering(S), FiniteSubsetsOf(S))
  BY FS_StrictSubsetOrderingWellFounded
<1>2. T \subseteq FiniteSubsetsOf(S)
  BY FS_Subset DEF FiniteSubsetsOf
<1>3. PICK m \in T : \A k \in T : ~ (<<k, m>> \in StrictSubsetOrdering(S))
  BY <1>1, <1>2, WFMin
<1> QED BY <1>3 DEF StrictSubsetOrdering

\* The sum of f over S, with the definitions of the folds expanded.
LEMMA SumUnfold ==
  ASSUME NEW f, NEW S
  PROVE  LET P(g) == g = [s \in SUBSET S |->
                            IF s = {} THEN 0
                            ELSE f[CHOOSE x \in s : TRUE] + g[s \ {CHOOSE x \in s : TRUE}]]
         IN SumFunctionOnSet(f, S) = (CHOOSE g : P(g))[S]
BY DEF SumFunctionOnSet, FoldFunctionOnSet, MapThenFoldSet

\* The sum of f over s, as the size of a set.
Pairs(f, s) == UNION {{x} \X (1 .. f[x]) : x \in s}

\* Taking one argument away takes its pairs away.
LEMMA PairsSplit ==
  ASSUME NEW S, IsFiniteSet(S), NEW f, \A x \in S : f[x] \in Nat
  PROVE  /\ Cardinality(Pairs(f, {})) = 0
         /\ \A s \in SUBSET S : Cardinality(Pairs(f, s)) \in Nat
         /\ \A s \in SUBSET S : \A x \in s :
              Cardinality(Pairs(f, s)) = f[x] + Cardinality(Pairs(f, s \ {x}))
<1> DEFINE One(x) == {x} \X (1 .. f[x])
           T == {s \in SUBSET S : ~ IsFiniteSet(Pairs(f, s))}
<1>1. Pairs(f, {}) = {}
  BY DEF Pairs
<1>2. ASSUME NEW x \in S PROVE IsFiniteSet(One(x)) /\ Cardinality(One(x)) = f[x]
  <2> DEFINE n == f[x]
  <2>1. n \in Nat
    OBVIOUS
  <2> HIDE DEF n
  <2>2. IsFiniteSet(1 .. n) /\ Cardinality(1 .. n) = n
    BY <2>1, FS_Interval
  <2>3. IsFiniteSet({x}) /\ Cardinality({x}) = 1
    BY FS_Singleton
  <2>4. IsFiniteSet({x} \X (1 .. n)) /\ Cardinality({x} \X (1 .. n)) = 1 * n
    BY <2>2, <2>3, FS_Product
  <2> QED BY <2>1, <2>4 DEF n
<1>3. ASSUME NEW s \in SUBSET S, NEW x \in s
      PROVE  Pairs(f, s) = One(x) \cup Pairs(f, s \ {x}) /\ One(x) \cap Pairs(f, s \ {x}) = {}
  BY DEF Pairs
<1> HIDE DEF One
<1>4. T = {}
  <2> SUFFICES ASSUME T # {} PROVE FALSE
    OBVIOUS
  <2>1. PICK s \in T : \A k \in T : k \subseteq s => k = s
    <3>1. T \in SUBSET (SUBSET S)
      OBVIOUS
    <3> HIDE DEF T
    <3> QED BY <3>1, Fewest
  <2>2. s # {}
    BY <1>1, FS_EmptySet
  <2>3. PICK x \in s : TRUE
    BY <2>2
  <2>4. IsFiniteSet(Pairs(f, s \ {x}))
    <3>1. s \ {x} \in SUBSET S /\ s \ {x} # s
      OBVIOUS
    <3> QED BY <2>1, <3>1
  <2>5. IsFiniteSet(Pairs(f, s))
    <3>1. x \in S /\ s \in SUBSET S
      OBVIOUS
    <3>2. Pairs(f, s) = One(x) \cup Pairs(f, s \ {x}) /\ IsFiniteSet(One(x))
      BY <1>2, <1>3, <3>1
    <3> HIDE DEF T
    <3> QED BY <2>4, <3>2, FS_Union
  <2> QED BY <2>5
<1>5. \A s \in SUBSET S : IsFiniteSet(Pairs(f, s))
  BY <1>4
<1> HIDE DEF T
<1>6. \A s \in SUBSET S : Cardinality(Pairs(f, s)) \in Nat
  BY <1>5, FS_CardinalityType
<1>7. ASSUME NEW s \in SUBSET S, NEW x \in s
      PROVE  Cardinality(Pairs(f, s)) = f[x] + Cardinality(Pairs(f, s \ {x}))
  <2>1. s \ {x} \in SUBSET S /\ x \in S
    OBVIOUS
  <2> DEFINE a == One(x)
             b == Pairs(f, s \ {x})
  <2>2. IsFiniteSet(a) /\ IsFiniteSet(b) /\ Cardinality(a) = f[x] /\ Cardinality(b) \in Nat
    BY <1>2, <1>5, <1>6, <2>1
  <2>3. Pairs(f, s) = a \cup b /\ a \cap b = {}
    BY <1>3
  <2>4. f[x] \in Nat
    BY <2>1
  <2> HIDE DEF a, b
  <2>5. Cardinality(a \cup b) = Cardinality(a) + Cardinality(b) - Cardinality(a \cap b)
    BY <2>2, FS_Union
  <2>6. Cardinality(a \cap b) = 0
    BY <2>3, FS_EmptySet
  <2>7. Cardinality(Pairs(f, s)) = f[x] + Cardinality(b)
    BY <2>2, <2>3, <2>4, <2>5, <2>6
  <2> QED BY <2>7 DEF b
<1>8. Cardinality(Pairs(f, {})) = 0
  BY <1>1, FS_EmptySet
<1> QED BY <1>6, <1>7, <1>8

\* A sum of naturals is the size of its set of pairs: by the smallest set of
\* arguments for which it is not.
LEMMA SumIs ==
  ASSUME NEW S, IsFiniteSet(S), NEW f, \A x \in S : f[x] \in Nat
  PROVE  SumFunctionOnSet(f, S) = Cardinality(Pairs(f, S))
<1> DEFINE c(s) == CHOOSE x \in s : TRUE
           F(g) == [s \in SUBSET S |-> IF s = {} THEN 0 ELSE f[c(s)] + g[s \ {c(s)}]]
           P(g) == g = F(g)
           w == [s \in SUBSET S |-> Cardinality(Pairs(f, s))]
           iter == CHOOSE g : P(g)
<1>1. \A s \in SUBSET S : s # {} => c(s) \in s
  OBVIOUS
<1>2. P(w)
  <2> SUFFICES ASSUME NEW s \in SUBSET S
               PROVE  w[s] = IF s = {} THEN 0 ELSE f[c(s)] + w[s \ {c(s)}]
    BY Zenon
  <2>1. s # {} => c(s) \in s
    BY <1>1
  <2>2. s \ {c(s)} \in SUBSET S
    OBVIOUS
  <2>3. w[s] = Cardinality(Pairs(f, s)) /\ w[s \ {c(s)}] = Cardinality(Pairs(f, s \ {c(s)}))
    BY <2>2
  <2> HIDE DEF w, c
  <2> QED BY <2>1, <2>3, PairsSplit
<1>3. P(iter)
  <2> HIDE DEF P, w
  <2> QED BY <1>2
<1>4. \A g, s : P(g) /\ s \in SUBSET S => g[s] = IF s = {} THEN 0 ELSE f[c(s)] + g[s \ {c(s)}]
  <2> SUFFICES ASSUME NEW g, NEW s \in SUBSET S, P(g)
               PROVE  g[s] = IF s = {} THEN 0 ELSE f[c(s)] + g[s \ {c(s)}]
    OBVIOUS
  <2>1. F(g)[s] = IF s = {} THEN 0 ELSE f[c(s)] + g[s \ {c(s)}]
    BY Zenon
  <2>2. g = F(g)
    OBVIOUS
  <2> HIDE DEF F
  <2> QED BY <2>1, <2>2, Zenon
<1>5. {s \in SUBSET S : iter[s] # w[s]} = {}
  <2> DEFINE T == {s \in SUBSET S : iter[s] # w[s]}
  <2> SUFFICES ASSUME T # {} PROVE FALSE
    OBVIOUS
  <2>1. PICK s \in T : \A k \in T : k \subseteq s => k = s
    <3>1. T \in SUBSET (SUBSET S)
      OBVIOUS
    <3> HIDE DEF T
    <3> QED BY <3>1, Fewest
  <2>2. s \in SUBSET S /\ iter[s] # w[s]
    OBVIOUS
  <2>3. s # {} => s \ {c(s)} \in SUBSET S /\ s \ {c(s)} # s
    BY <1>1, <2>2
  <2>4. s # {} => iter[s \ {c(s)}] = w[s \ {c(s)}]
    <3> HIDE DEF iter, w, c
    <3> QED BY <2>1, <2>3
  <2> HIDE DEF iter, w, c, P, T
  <2> QED BY <1>2, <1>3, <1>4, <2>2, <2>4
<1>6. iter[S] = Cardinality(Pairs(f, S))
  <2>1. w[S] = Cardinality(Pairs(f, S)) /\ S \in SUBSET S
    OBVIOUS
  <2> HIDE DEF iter, w
  <2> QED BY <1>5, <2>1
<1>7. SumFunctionOnSet(f, S) = iter[S]
  BY SumUnfold
<1> QED BY <1>6, <1>7

\* What a sum is, and how one argument is split from it.
LEMMA Sums ==
  ASSUME NEW S, IsFiniteSet(S), NEW f, \A x \in S : f[x] \in Nat
  PROVE  /\ SumFunctionOnSet(f, S) \in Nat
         /\ S = {} => SumFunctionOnSet(f, S) = 0
         /\ \A x \in S : SumFunctionOnSet(f, S) = f[x] + SumFunctionOnSet(f, S \ {x})
<1>1. SumFunctionOnSet(f, S) = Cardinality(Pairs(f, S))
  BY SumIs
<1>2. ASSUME NEW x \in S
      PROVE  SumFunctionOnSet(f, S \ {x}) = Cardinality(Pairs(f, S \ {x}))
  <2>1. IsFiniteSet(S \ {x}) /\ \A y \in S \ {x} : f[y] \in Nat
    BY FS_RemoveElement
  <2> QED BY <2>1, SumIs
<1>3. /\ Cardinality(Pairs(f, {})) = 0
      /\ Cardinality(Pairs(f, S)) \in Nat
      /\ \A x \in S : Cardinality(Pairs(f, S)) = f[x] + Cardinality(Pairs(f, S \ {x}))
  <2>1. S \in SUBSET S
    OBVIOUS
  <2> QED BY <2>1, PairsSplit
<1> QED BY <1>1, <1>2, <1>3

\* Equal functions have equal sums.
LEMMA SameSum ==
  ASSUME NEW S, IsFiniteSet(S), NEW f, NEW g, \A x \in S : f[x] \in Nat /\ g[x] = f[x]
  PROVE  SumFunctionOnSet(g, S) = SumFunctionOnSet(f, S)
<1>1. Pairs(g, S) = Pairs(f, S)
  BY DEF Pairs
<1>2. /\ SumFunctionOnSet(f, S) = Cardinality(Pairs(f, S))
      /\ SumFunctionOnSet(g, S) = Cardinality(Pairs(g, S))
  BY SumIs
<1> QED BY <1>1, <1>2

-----------------------------------------------------------------------------
(* Memory *)

\* The records whose next is a record or Nil: not so the first one of the
\* detached list, once the daemon has freed what it points to.
Sound == IF dpc \in {"free", "last"} THEN Live \ {freed} ELSE Live

\* The records form two parts that do not point to each other: L is the list of
\* the threads, the others are the daemon's.  No record has two predecessors,
\* and the first record of a list has none.
Closed(S) == \A n \in S : heap[n].next \in S \cup {Nil}
Parted(L) ==
  /\ Closed(L) /\ Closed(Sound \ L)
  /\ first \in L \cup {Nil}
  /\ freed \in (Live \ L) \cup {Nil}
  /\ dpc \in {"sum", "free", "last"} => freed # Nil
  /\ dpc = "sum" => dcur \in Live \ L
  /\ dpc = "free" => dcur \in (Sound \ L) \cup {Nil}
  /\ \A t \in Threads \ overtaken : InList(t) => cur[t] \in L
Chained ==
  /\ \A m, n \in Sound : heap[m].next = heap[n].next /\ heap[m].next # Nil => m = n
  /\ \A n \in Sound : heap[n].next # Nil => heap[n].next \notin {first, freed}
  /\ dpc = "free" => \A n \in Sound : heap[n].next # Nil => heap[n].next # dcur

\* Only a thread that was overtaken touches freed memory, and it was overtaken
\* in a list.
Careful ==
  /\ \A t \in Threads \ overtaken : pc[t] # Garbage
  /\ \A t \in overtaken : pc[t] \in {"search", "add", Garbage}

Inv == /\ TypeOK
       /\ Chained
       /\ \E L \in SUBSET Live : Parted(L)
       /\ Careful

\* At first there are no records.
LEMMA InitInv == Init => Inv
<1> SUFFICES ASSUME Init PROVE Inv
  OBVIOUS
<1>1. Live = {} /\ Sound = {}
  BY DEF Init, Live, Sound
<1>2. TypeOK
  BY <1>1, LocalAssumption DEF Init, TypeOK
<1>3. Chained /\ Careful
  BY <1>1 DEF Chained, Careful, Init, Garbage
<1>4. Parted({})
  BY <1>1 DEF Parted, Closed, Init, InList
<1> QED BY <1>2, <1>3, <1>4 DEF Inv

\* The steps of a thread that leave the records what they are, or lengthen one.
LEMMA WalkInv ==
  ASSUME Inv, NEW L \in SUBSET Live, Parted(L), NEW t \in Threads,
         add_thread_record_node(t) \/ Search(t) \/ Add(t)
  PROVE  Inv' /\ Parted(L)'
<1>1. L \in SUBSET Live /\ Parted(L) /\ TypeOK /\ Careful
  BY DEF Inv
<1>2. /\ Live' = Live /\ \A n \in Live : heap'[n].next = heap[n].next
      /\ \A n \in Live : heap'[n] \in [tid : Threads, length : Nat \ {0}, next : Nodes \cup {Nil}]
  BY <1>1 DEF add_thread_record_node, Search, Add, Live, TypeOK
<1>3. UNCHANGED <<first, dvars, lost>>
  BY DEF add_thread_record_node, Search, Add
<1>4. PICK l \in {"idle", "search", "add", "new", Garbage}, n \in Nodes \cup {Nil} :
        /\ Go(t, l, n)
        /\ t \notin overtaken => (l \in {"search", "add"} => n \in L) /\ l # Garbage
        /\ t \in overtaken => l # "idle" \/ pc[t] = "add"
        /\ pc[t] = "idle" => t \notin overtaken
  <2>1. CASE add_thread_record_node(t)
    <3>1. Go(t, IF first = Nil THEN "new" ELSE "search", first) /\ pc[t] = "idle"
      BY <2>1 DEF add_thread_record_node
    <3>2. first \in Nodes \cup {Nil} /\ first \in L \cup {Nil} /\ t \notin overtaken
      BY <1>1, <3>1 DEF TypeOK, Parted, Careful, Garbage
    <3> QED BY <3>1, <3>2 DEF Garbage
  <2>2. CASE Search(t)
    <3>1. pc[t] = "search" /\ (t \notin overtaken => cur[t] \in L)
      BY <1>1, <2>2 DEF Search, Parted, InList
    <3>2. cur[t] \in Live => heap[cur[t]].next \in Nodes \cup {Nil}
      BY <1>1 DEF TypeOK
    <3>3. t \notin overtaken => heap[cur[t]].next \in L \cup {Nil} /\ cur[t] \in Live
      BY <1>1, <3>1 DEF Parted, Closed
    <3>4. cur[t] \in Nodes \cup {Nil}
      BY <1>1 DEF TypeOK
    <3>5. CASE cur[t] \notin Live
      BY <2>2, <3>1, <3>3, <3>5 DEF Search, Garbage
    <3>6. CASE cur[t] \in Live /\ heap[cur[t]].tid = t
      BY <2>2, <3>1, <3>3, <3>4, <3>6 DEF Search, Garbage
    <3>7. CASE cur[t] \in Live /\ heap[cur[t]].tid # t
      <4> DEFINE n == heap[cur[t]].next
      <4>1. Go(t, IF n = Nil THEN "new" ELSE "search", n)
        BY <2>2, <3>7 DEF Search
      <4>2. n \in Nodes \cup {Nil} /\ (t \notin overtaken => n \in L \cup {Nil})
        BY <3>2, <3>3, <3>7
      <4> HIDE DEF n
      <4> QED BY <3>1, <4>1, <4>2 DEF Garbage
    <3> QED BY <3>5, <3>6, <3>7
  <2>3. CASE Add(t)
    <3>1. pc[t] = "add" /\ (t \notin overtaken => cur[t] \in L)
      BY <1>1, <2>3 DEF Add, Parted, InList
    <3> QED BY <2>3, <3>1 DEF Add, Garbage
  <2> QED BY <2>1, <2>2, <2>3
<1>5. \A u \in Threads : u # t => pc'[u] = pc[u] /\ cur'[u] = cur[u]
                                 /\ (u \in overtaken' <=> u \in overtaken)
  BY <1>1, <1>4 DEF Go, TypeOK
<1>6. /\ pc'[t] = l /\ cur'[t] = n
      /\ t \notin overtaken' => (l \in {"search", "add"} => n \in L) /\ l # Garbage
      /\ t \in overtaken' => t \in overtaken /\ l \in {"search", "add", Garbage}
      /\ overtaken' \subseteq overtaken
  BY <1>1, <1>4 DEF Go, TypeOK, Garbage
<1>7. TypeOK'
  <2>1. pc' \in [Threads -> {"idle", "search", "add", "new", Garbage}]
        /\ cur' \in [Threads -> Nodes \cup {Nil}]
    BY <1>1, <1>4 DEF Go, TypeOK
  <2>2. sent' \in [Threads -> 0 .. MaxSent] /\ late' \in Nat
    BY <1>1, LocalAssumption DEF add_thread_record_node, Search, Add, TypeOK
  <2> QED BY <1>1, <1>2, <1>3, <1>6, <2>1, <2>2 DEF TypeOK, dvars
<1>8. Sound' = Sound /\ Sound \subseteq Live
  BY <1>2, <1>3 DEF Sound, dvars
<1>9. Chained'
  BY <1>2, <1>3, <1>8 DEF Inv, Chained, dvars
<1>10. Parted(L)'
  <2>1. Closed(L)' /\ Closed(Sound \ L)'
    BY <1>1, <1>2, <1>8 DEF Parted, Closed
  <2>2. \A u \in Threads \ overtaken' : InList(u)' => cur'[u] \in L
    BY <1>1, <1>5, <1>6 DEF Parted, InList
  <2> QED BY <1>1, <1>2, <1>3, <1>8, <2>1, <2>2 DEF Parted, dvars
<1>11. Careful'
  BY <1>1, <1>5, <1>6 DEF Careful, TypeOK
<1> QED BY <1>2, <1>7, <1>9, <1>10, <1>11 DEF Inv

\* A new record is in front of the threads' list.
LEMMA NewInv ==
  ASSUME Inv, NEW L \in SUBSET Live, Parted(L), NEW t \in Threads, New(t)
  PROVE  Inv' /\ \A K : K = L \cup (Live' \ Live) => Parted(K)'
<1>1. L \in SUBSET Live /\ Parted(L) /\ TypeOK /\ Careful
  BY DEF Inv
<1>2. /\ UNCHANGED <<sent, late, dvars>>
      /\ pc' = [pc EXCEPT ![t] = "idle"] /\ cur' = [cur EXCEPT ![t] = Nil]
      /\ overtaken' = overtaken \ {t}
  BY DEF New, Go
<1>3. pc' \in [Threads -> {"idle", "search", "add", "new", Garbage}]
      /\ cur' \in [Threads -> Nodes \cup {Nil}] /\ overtaken' \subseteq Threads
  BY <1>1, <1>2 DEF TypeOK
<1>4. Careful'
  BY <1>1, <1>2 DEF TypeOK, Careful, Garbage
<1>a. \A u \in Threads \ overtaken' : InList(u)' => cur'[u] \in L
  BY <1>1, <1>2 DEF Parted, InList, TypeOK
<1>5. CASE lost' = lost + 1 /\ UNCHANGED <<heap, first>>
  <2>1. TypeOK'
    BY <1>1, <1>2, <1>3, <1>5 DEF TypeOK, Live, dvars
  <2>2. Live' = Live /\ Sound' = Sound
    BY <1>2, <1>5 DEF Live, Sound, dvars
  <2>3. Chained'
    BY <1>2, <1>5, <2>2 DEF Inv, Chained, dvars
  <2>4. Parted(L)'
    BY <1>1, <1>2, <1>5, <1>a, <2>2 DEF Parted, Closed, dvars
  <2>5. Inv'
    BY <1>1, <1>4, <2>1, <2>2, <2>3, <2>4 DEF Inv
  <2>6. L \cup (Live' \ Live) = L
    BY <2>2
  <2> QED BY <2>4, <2>5, <2>6
<1>6. ASSUME NEW n \in Nodes \ Live,
             heap' = [m \in Live \cup {n} |->
                        IF m = n THEN [tid |-> t, length |-> 1, next |-> first] ELSE heap[m]],
             first' = n, UNCHANGED lost
      PROVE  Inv' /\ \A K : K = L \cup (Live' \ Live) => Parted(K)'
  <2>1. /\ Live' = Live \cup {n} /\ n \notin Live /\ n # Nil
        /\ \A m \in Live : heap'[m] = heap[m]
        /\ heap'[n].next = first /\ heap'[n] = [tid |-> t, length |-> 1, next |-> first]
    BY <1>6, LocalAssumption DEF Live
  <2>2. TypeOK'
    <3>1. \A m \in Live' : heap'[m] \in [tid : Threads, length : Nat \ {0},
                                        next : Nodes \cup {Nil}]
      BY <1>1, <2>1 DEF TypeOK
    <3>2. Live' \subseteq Nodes
      BY <1>1, <2>1 DEF TypeOK
    <3> QED BY <1>1, <1>2, <1>3, <1>6, <3>1, <3>2 DEF TypeOK, dvars
  <2>3. /\ Sound' = Sound \cup {n} /\ Sound \subseteq Live /\ L \subseteq Sound
        /\ freed # n /\ (first # Nil => first # freed)
    BY <1>1, <1>2, <2>1 DEF Sound, Parted, dvars
  <2>4. \A m \in Sound : heap[m].next # n
    <3>1. \A m \in Sound : m \in L \/ m \in Sound \ L
      OBVIOUS
    <3> QED BY <1>1, <2>1, <2>3, <3>1 DEF Parted, Closed
  <2>5. Chained'
    <3>1. first' = n /\ freed' = freed /\ dpc' = dpc /\ dcur' = dcur
      BY <1>2, <1>6 DEF dvars
    <3>2. \A k, m \in Sound' : heap'[k].next = heap'[m].next /\ heap'[k].next # Nil => k = m
      BY <2>1, <2>3 DEF Inv, Chained
    <3>3. \A m \in Sound' : heap'[m].next # Nil => heap'[m].next \notin {first', freed'}
      BY <1>1, <2>1, <2>3, <2>4, <3>1 DEF Inv, Chained, Parted
    <3>4. dpc = "free" => \A m \in Sound' : heap'[m].next # Nil => heap'[m].next # dcur
      BY <1>1, <2>1, <2>3 DEF Inv, Chained, Parted
    <3> QED BY <3>1, <3>2, <3>3, <3>4 DEF Chained
  <2>6. Parted(L \cup {n})'
    <3>1. Sound' \ (L \cup {n}) = Sound \ L /\ Live' \ (L \cup {n}) = Live \ L
      BY <2>1, <2>3
    <3>2. Closed(L \cup {n})' /\ Closed(Sound \ (L \cup {n}))'
      BY <1>1, <2>1, <2>3, <3>1 DEF Parted, Closed
    <3> QED BY <1>1, <1>2, <1>6, <1>a, <2>1, <3>1, <3>2 DEF Parted, dvars
  <2>7. Inv'
    BY <1>4, <2>1, <2>2, <2>5, <2>6 DEF Inv
  <2>8. L \cup (Live' \ Live) = L \cup {n}
    BY <2>1
  <2> QED BY <2>6, <2>7, <2>8
<1> QED BY <1>5, <1>6 DEF New

\* The daemon takes the list; the threads in it are overtaken.
LEMMA DetachInv ==
  ASSUME Inv, NEW L \in SUBSET Live, Parted(L), upload_bandwidth
  PROVE  Inv' /\ Parted({})'
<1>1. L \in SUBSET Live /\ Parted(L) /\ TypeOK /\ Careful
  BY DEF Inv
<1>2. /\ UNCHANGED <<heap, pc, cur, sent, late, uploaded, lost>> /\ Live' = Live
      /\ first # Nil /\ first' = Nil /\ dcur' = first /\ freed' = first
      /\ dpc = "sleep" /\ dpc' = "sum" /\ total' = 0
      /\ overtaken' = overtaken \cup {t \in Threads : InList(t)}
      /\ Sound = Live /\ Sound' = Live
  BY DEF upload_bandwidth, Live, Sound
<1>3. TypeOK'
  BY <1>1, <1>2 DEF TypeOK
<1>4. Chained'
  BY <1>2 DEF Inv, Chained
<1>5. Parted({})'
  <2>1. first \in Live
    BY <1>1, <1>2 DEF Parted
  <2>2. Closed(Live)'
    BY <1>1, <1>2 DEF Parted, Closed
  <2>3. \A t \in Threads \ overtaken' : ~ InList(t)'
    BY <1>2 DEF InList
  <2>4. Sound' \ {} = Live
    BY <1>2
  <2> QED BY <1>2, <2>1, <2>2, <2>3, <2>4 DEF Parted, Closed
<1>6. Careful'
  BY <1>1, <1>2 DEF Careful, InList
<1> QED BY <1>3, <1>4, <1>5, <1>6 DEF Inv

\* The daemon adds up its list, and uploads the sum.
LEMMA SumInv ==
  ASSUME Inv, NEW L \in SUBSET Live, Parted(L), Sum \/ Upload
  PROVE  Inv' /\ Parted(L)'
<1>1. L \in SUBSET Live /\ Parted(L) /\ TypeOK /\ Careful /\ Chained
  BY DEF Inv
<1>2. UNCHANGED <<first, heap, tvars, freed, lost>> /\ Live' = Live
  BY DEF Sum, Upload, Live
<1>3. Careful'
  BY <1>1, <1>2 DEF Careful, tvars
<1>a. \A t \in Threads \ overtaken' : InList(t)' => cur'[t] \in L
  BY <1>1, <1>2 DEF Parted, InList, tvars
<1>4. CASE Upload
  <2>1. dpc = "upload" /\ dpc' = "sleep" /\ dcur' = dcur /\ Sound = Live /\ Sound' = Live
        /\ total' \in Nat /\ uploaded' \in Nat
    BY <1>1, <1>4 DEF Upload, Sound, Live, TypeOK
  <2>2. TypeOK' /\ Chained'
    BY <1>1, <1>2, <2>1 DEF TypeOK, Chained, tvars
  <2>3. Parted(L)'
    BY <1>1, <1>2, <1>a, <2>1 DEF Parted, Closed
  <2> QED BY <1>2, <1>3, <2>2, <2>3 DEF Inv
<1>5. CASE Sum
  <2> DEFINE n == heap[dcur].next
             s == heap[freed].next
  <2>1. /\ dpc = "sum" /\ dcur \in Live \ L /\ freed \in Live \ L /\ freed # Nil /\ Sound = Live
        /\ total' = total + heap[dcur].length /\ uploaded' = uploaded
        /\ dcur' = IF n = Nil THEN s ELSE n
        /\ dpc' = IF n = Nil THEN "free" ELSE "sum"
    BY <1>1, <1>5 DEF Sum, Behind, Parted, Sound
  <2>2. n \in (Live \ L) \cup {Nil} /\ s \in (Live \ L) \cup {Nil} /\ s # freed
    BY <1>1, <2>1 DEF Parted, Closed, Chained
  <2>3. TypeOK'
    <3>1. heap[dcur].length \in Nat /\ Live \subseteq Nodes
      BY <1>1, <2>1 DEF TypeOK
    <3> HIDE DEF n, s
    <3> QED BY <1>1, <1>2, <2>1, <2>2, <3>1 DEF TypeOK, tvars
  <2>4. CASE n # Nil
    <3>1. Sound' = Live
      BY <1>2, <2>1, <2>4 DEF Sound
    <3>2. Chained'
      BY <1>1, <1>2, <2>1, <2>4, <3>1 DEF Chained
    <3> HIDE DEF n, s
    <3>3. Parted(L)'
      BY <1>1, <1>2, <1>a, <2>1, <2>2, <2>4, <3>1 DEF Parted, Closed
    <3> QED BY <1>2, <1>3, <2>3, <3>2, <3>3 DEF Inv
  <2>5. CASE n = Nil
    <3>1. Sound' = Live \ {freed} /\ dpc' = "free" /\ dcur' = s
      BY <1>2, <2>1, <2>5 DEF Sound
    <3>2. Chained'
      BY <1>1, <1>2, <2>1, <3>1 DEF Chained
    <3>3. Closed((Live \ {freed}) \ L)'
      BY <1>1, <1>2, <2>1 DEF Parted, Closed, Chained
    <3> HIDE DEF n, s
    <3>4. Parted(L)'
      BY <1>1, <1>2, <1>a, <2>1, <2>2, <3>1, <3>3 DEF Parted, Closed
    <3> QED BY <1>2, <1>3, <2>3, <3>2, <3>4 DEF Inv
  <2> QED BY <2>4, <2>5
<1> QED BY <1>4, <1>5

\* A record that is freed has no predecessor but the daemon's first one, whose
\* next is not followed by the daemon.
LEMMA FreeInv ==
  ASSUME Inv, NEW L \in SUBSET Live, Parted(L), free_thread_record_head \/ FreeFirst
  PROVE  Inv' /\ Parted(L)' /\ \A n \in Live' : n \in Sound => heap'[n] = heap[n]
<1>1. L \in SUBSET Live /\ Parted(L) /\ TypeOK /\ Careful /\ Chained
  BY DEF Inv
<1>2. UNCHANGED <<first, tvars, total, uploaded, lost>>
  BY DEF free_thread_record_head, FreeFirst
<1>3. Careful'
  BY <1>1, <1>2 DEF Careful, tvars
<1>4. \A t \in Threads \ overtaken' : InList(t)' => cur'[t] \in L
  BY <1>1, <1>2 DEF Parted, InList, tvars
<1>5. /\ dpc \in {"free", "last"} /\ freed \in Live \ L /\ freed # Nil
      /\ Sound = Live \ {freed} /\ L \subseteq Sound
  BY <1>1 DEF free_thread_record_head, FreeFirst, Parted, Sound
<1>6. CASE free_thread_record_head /\ dcur # Nil
  <2> DEFINE n == heap[dcur].next
  <2>1. /\ dpc = "free" /\ dpc' = "free" /\ freed' = freed /\ dcur' = n
        /\ heap' = [m \in Live \ {dcur} |-> heap[m]]
    BY <1>6 DEF free_thread_record_head, Restrict
  <2>2. dcur \in Sound \ L
    BY <1>1, <1>6, <2>1 DEF Parted
  <2>3. /\ Live' = Live \ {dcur} /\ Sound' = Sound \ {dcur}
        /\ \A m \in Live' : heap'[m] = heap[m]
    BY <1>5, <2>1, <2>2 DEF Live, Sound
  <2>4. n \in (Sound' \ L) \cup {Nil}
    BY <1>1, <1>6, <2>1, <2>2, <2>3 DEF Parted, Closed, Chained
  <2>5. TypeOK'
    BY <1>1, <1>2, <1>5, <2>1, <2>3, <2>4 DEF TypeOK, tvars
  <2>6. Chained'
    BY <1>1, <1>2, <2>1, <2>2, <2>3, <1>5 DEF Chained
  <2>7. Closed(L)' /\ Closed(Sound \ L)'
    <3>1. \A m \in Sound \ L : m # dcur => heap[m].next # dcur
      BY <1>1, <1>6, <2>1 DEF Chained
    <3>2. \A m \in L : m \in Live' /\ heap'[m] = heap[m]
      BY <1>1, <2>2, <2>3
    <3>3. \A m \in Sound' \ L : m \in Live' /\ heap'[m] = heap[m]
      BY <1>5, <2>3
    <3> HIDE DEF n
    <3> QED BY <1>1, <2>3, <3>1, <3>2, <3>3 DEF Parted, Closed
  <2> HIDE DEF n
  <2>8. Parted(L)'
    BY <1>1, <1>2, <1>4, <1>5, <2>1, <2>2, <2>3, <2>4, <2>7 DEF Parted
  <2>9. L \in SUBSET Live'
    BY <1>1, <2>2, <2>3
  <2> QED BY <1>3, <2>3, <2>5, <2>6, <2>8, <2>9 DEF Inv
<1>7. CASE free_thread_record_head /\ dcur = Nil
  <2>1. /\ dpc = "free" /\ dpc' = "last" /\ freed' = freed /\ dcur' = dcur
        /\ heap' = [heap EXCEPT ![freed].next = Nil]
    BY <1>7 DEF free_thread_record_head
  <2>2. Live' = Live /\ Sound' = Sound /\ \A m \in Sound : heap'[m] = heap[m]
    BY <1>5, <2>1 DEF Live, Sound
  <2>3. TypeOK'
    BY <1>1, <1>2, <1>5, <2>1, <2>2 DEF TypeOK, tvars, Live
  <2>4. Chained'
    BY <1>1, <1>2, <2>1, <2>2 DEF Chained
  <2>5. Closed(L)' /\ Closed(Sound \ L)'
    BY <1>1, <1>5, <2>2 DEF Parted, Closed
  <2>6. Parted(L)'
    BY <1>1, <1>2, <1>4, <1>5, <2>1, <2>2, <2>5 DEF Parted
  <2> QED BY <1>1, <1>3, <2>2, <2>3, <2>4, <2>6 DEF Inv
<1>8. CASE FreeFirst
  <2>1. /\ dpc = "last" /\ dpc' = "upload" /\ freed' = Nil /\ dcur' = dcur
        /\ heap' = [m \in Live \ {freed} |-> heap[m]]
    BY <1>8 DEF FreeFirst, Restrict
  <2>2. Live' = Sound /\ Sound' = Sound /\ \A m \in Sound : heap'[m] = heap[m]
    BY <1>5, <2>1 DEF Live, Sound
  <2>3. TypeOK'
    BY <1>1, <1>2, <1>5, <2>1, <2>2 DEF TypeOK, tvars
  <2>4. Chained'
    <3>1. \A m \in Sound : heap[m].next # Nil => heap[m].next \notin {first, Nil}
      BY <1>1 DEF Chained
    <3>2. \A m, n \in Sound' : heap'[m].next = heap'[n].next /\ heap'[m].next # Nil => m = n
      BY <1>1, <2>2 DEF Chained
    <3>3. \A m \in Sound' : heap'[m].next # Nil => heap'[m].next \notin {first', freed'}
      BY <1>2, <2>1, <2>2, <3>1
    <3>4. dpc' # "free"
      BY <2>1
    <3> QED BY <3>2, <3>3, <3>4 DEF Chained
  <2>5. Closed(L)' /\ Closed(Sound \ L)'
    BY <1>1, <1>5, <2>2 DEF Parted, Closed
  <2>6. Parted(L)'
    BY <1>1, <1>2, <1>4, <2>1, <2>2, <2>5 DEF Parted
  <2> QED BY <1>3, <1>5, <2>2, <2>3, <2>4, <2>6 DEF Inv
<1> QED BY <1>6, <1>7, <1>8

\* Every step keeps the two parts apart.
LEMMA StepInv ==
  ASSUME Inv, [Next]_vars
  PROVE  Inv'
<1>1. CASE UNCHANGED vars
  <2>1. TypeOK' /\ Live' = Live /\ Sound' = Sound /\ Careful'
    BY <1>1 DEF Inv, TypeOK, Live, Sound, Careful, vars, tvars, dvars
  <2>2. Chained' /\ \A L \in SUBSET Live : Parted(L) => Parted(L)'
    BY <1>1, <2>1 DEF Inv, Chained, Parted, Closed, InList, vars, tvars, dvars
  <2> QED BY <2>1, <2>2 DEF Inv
<1>2. PICK L \in SUBSET Live : Parted(L)
  BY DEF Inv
<1> QED
  BY <1>1, <1>2, WalkInv, NewInv, DetachInv, SumInv, FreeInv DEF Next, Thread, Daemon

LEMMA InvHolds == Spec => []Inv
<1>1. Inv /\ [Next]_vars => Inv'
  BY StepInv
<1> QED BY <1>1, InitInv, PTL DEF Spec

\* Every variable keeps its type; in particular the daemon only follows
\* records that are there.
THEOREM TypeCorrect == Spec => []TypeOK
<1>1. Inv => TypeOK
  BY DEF Inv
<1> QED BY <1>1, InvHolds, PTL

-----------------------------------------------------------------------------
(* Reaching every record of a list *)

\* Every record of S can be reached from s.
Reached(S, s) ==
  \A R \in SUBSET S : s \in R \cup {Nil} /\ Closed(R) => R = S

Grow(r) == r \cup ({heap[m].next : m \in r \cap Live} \ {Nil})

\* The recursive function of From exists.
LEMMA Iterated ==
  ASSUME NEW a, NEW N \in Nat
  PROVE  \E g : g = [i \in 0 .. N |-> IF i = 0 THEN a ELSE Grow(g[i - 1])]
<1> DEFINE Q(g, n) == \A i \in 0 .. n : g[i] = IF i = 0 THEN a ELSE Grow(g[i - 1])
           T == {n \in Nat : ~ \E g : Q(g, n)}
<1>1. T = {}
  <2> SUFFICES ASSUME T # {} PROVE FALSE
    OBVIOUS
  <2>1. PICK n \in T : \A k \in T : n <= k
    <3>1. T \in SUBSET Nat
      OBVIOUS
    <3> HIDE DEF T
    <3> QED BY <3>1, Least
  <2>2. n \in Nat /\ ~ \E g : Q(g, n)
    OBVIOUS
  <2>3. n # 0
    <3> SUFFICES ASSUME n = 0 PROVE FALSE
      OBVIOUS
    <3>1. Q([i \in {0} |-> a], 0)
      OBVIOUS
    <3> HIDE DEF Q
    <3> QED BY <2>2, <3>1
  <2>4. n - 1 \in Nat /\ n - 1 \notin T
    <3>1. n - 1 \in Nat /\ ~ (n <= n - 1)
      BY <2>2, <2>3
    <3> HIDE DEF T
    <3> QED BY <2>1, <3>1
  <2>5. PICK g : Q(g, n - 1)
    BY <2>4
  <2> DEFINE h == [i \in 0 .. n |-> IF i = n THEN Grow(g[n - 1]) ELSE g[i]]
  <2>6. Q(h, n)
    <3> SUFFICES ASSUME NEW i \in 0 .. n
                 PROVE  h[i] = IF i = 0 THEN a ELSE Grow(h[i - 1])
      BY Zenon
    <3>1. i # 0 => i - 1 \in 0 .. n /\ i - 1 # n
      BY <2>2
    <3>2. i # 0 => h[i - 1] = g[i - 1]
      BY <3>1
    <3>3. h[i] = IF i = n THEN Grow(g[n - 1]) ELSE g[i]
      OBVIOUS
    <3>4. i # n => i \in 0 .. n - 1
      BY <2>2
    <3> HIDE DEF h
    <3> QED BY <2>3, <2>5, <3>2, <3>3, <3>4
  <2> HIDE DEF Q, h, T
  <2> QED BY <2>2, <2>6
<1>2. PICK g : Q(g, N)
  BY <1>1
<1> DEFINE h == [i \in 0 .. N |-> g[i]]
<1>3. \A i \in 0 .. N : h[i] = IF i = 0 THEN a ELSE Grow(h[i - 1])
  <2> SUFFICES ASSUME NEW i \in 0 .. N PROVE h[i] = IF i = 0 THEN a ELSE Grow(h[i - 1])
    OBVIOUS
  <2>1. i # 0 => i - 1 \in 0 .. N
    OBVIOUS
  <2>2. (i # 0 => h[i - 1] = g[i - 1]) /\ h[i] = g[i]
    BY <2>1
  <2> HIDE DEF h
  <2> QED BY <1>2, <2>2
<1>4. h = [i \in 0 .. N |-> h[i]]
  OBVIOUS
<1>5. [i \in 0 .. N |-> h[i]] = [i \in 0 .. N |-> IF i = 0 THEN a ELSE Grow(h[i - 1])]
  <2> HIDE DEF h
  <2> QED BY <1>3
<1> HIDE DEF h
<1> QED BY <1>4, <1>5

\* From(s) is L, if L is what can be reached from s: the sets it goes through
\* cannot leave L, and cannot grow Cardinality(Nodes) times.
LEMMA FromIs ==
  ASSUME NEW s, NEW L \in SUBSET Live, Live \subseteq Nodes, Closed(L),
         s \in L \cup {Nil}, Reached(L, s)
  PROVE  From(s) = L
<1> DEFINE N == Cardinality(Nodes)
           a == {s} \ {Nil}
           F(g) == [i \in 0 .. N |-> IF i = 0 THEN a ELSE Grow(g[i - 1])]
           reach == CHOOSE g : g = F(g)
<1>1. From(s) = reach[N]
  BY DEF From, Grow
<1>2. N \in Nat /\ IsFiniteSet(Nodes) /\ Nil \notin Nodes
  BY LocalAssumption, FS_CardinalityType
<1> HIDE DEF N
<1>3. reach = F(reach)
  <2>1. \E g : g = F(g)
    BY <1>2, Iterated
  <2> HIDE DEF F
  <2> QED BY <2>1
<1> HIDE DEF reach
<1>4. \A i \in 0 .. N : reach[i] = IF i = 0 THEN a ELSE Grow(reach[i - 1])
  <2>1. \A i \in 0 .. N : F(reach)[i] = IF i = 0 THEN a ELSE Grow(reach[i - 1])
    OBVIOUS
  <2> HIDE DEF F
  <2> QED BY <1>3, <2>1
<1> HIDE DEF F
<1>5. Nil \notin L /\ a \subseteq L /\ \A r \in SUBSET L : Grow(r) \in SUBSET L /\ r \subseteq Grow(r)
  BY <1>2 DEF Closed, Grow
<1>6. \A i \in 0 .. N : reach[i] \subseteq L /\ (a \subseteq reach[i])
  <2> DEFINE T == {i \in 0 .. N : ~ (reach[i] \subseteq L /\ a \subseteq reach[i])}
  <2> SUFFICES ASSUME T # {} PROVE FALSE
    OBVIOUS
  <2>1. PICK n \in T : \A k \in T : n <= k
    <3>1. T \in SUBSET Nat
      BY <1>2
    <3> HIDE DEF T
    <3> QED BY <3>1, Least
  <2>2. n \in 0 .. N /\ ~ (reach[n] \subseteq L /\ a \subseteq reach[n])
    OBVIOUS
  <2>3. n # 0
    BY <1>4, <1>5, <2>2
  <2>4. n - 1 \in 0 .. N /\ n - 1 \notin T
    BY <1>2, <2>1, <2>2, <2>3
  <2>5. reach[n - 1] \subseteq L /\ a \subseteq reach[n - 1]
    BY <2>4
  <2>6. reach[n] = Grow(reach[n - 1])
    BY <1>4, <2>2, <2>3
  <2> HIDE DEF T, a
  <2> QED BY <1>5, <2>2, <2>5, <2>6
<1>7. IsFiniteSet(L) /\ Cardinality(L) \in Nat /\ Cardinality(L) <= N
  <2>1. L \in SUBSET Nodes
    OBVIOUS
  <2> QED BY <1>2, <2>1, FS_Subset, FS_CardinalityType DEF N
\* Within N steps one adds nothing: the sets cannot grow beyond L.
<1>8. PICK i \in 0 .. N : reach[i] = L
  <2>1. CASE a = {}
    <3>1. L = {}
      <4>1. {} \in SUBSET L /\ s \in {} \cup {Nil} /\ Closed({})
        BY <2>1 DEF Closed
      <4> QED BY <4>1 DEF Reached
    <3>2. 0 \in 0 .. N
      BY <1>2
    <3> QED BY <1>4, <2>1, <3>1, <3>2
  <2>2. CASE a # {}
    <3> DEFINE C(j) == Cardinality(reach[j])
               T == {j \in 0 .. N : ~ (C(j) >= j + 1)}
    <3>1. \A j \in 0 .. N : C(j) \in Nat /\ C(j) <= N
      <4> SUFFICES ASSUME NEW j \in 0 .. N PROVE C(j) \in Nat /\ C(j) <= N
        OBVIOUS
      <4>1. reach[j] \in SUBSET L
        BY <1>6
      <4>2. IsFiniteSet(reach[j]) /\ C(j) <= Cardinality(L)
        BY <1>7, <4>1, FS_Subset
      <4>3. C(j) \in Nat
        BY <4>2, FS_CardinalityType
      <4> QED BY <1>2, <1>7, <4>2, <4>3
    <3>2. N \in T
      <4>1. N \in 0 .. N
        BY <1>2
      <4>2. C(N) \in Nat /\ C(N) <= N
        BY <3>1, <4>1
      <4> QED BY <1>2, <4>1, <4>2
    <3>3. PICK j \in T : \A k \in T : j <= k
      <4>1. T \in SUBSET Nat /\ T # {}
        BY <1>2, <3>2
      <4> HIDE DEF T
      <4> QED BY <4>1, Least
    <3>4. j \in 0 .. N /\ ~ (C(j) >= j + 1)
      OBVIOUS
    <3>5. j # 0
      <4>1. reach[0] = {s}
        BY <1>2, <1>4, <2>2
      <4>2. C(0) = 1
        BY <4>1, FS_Singleton
      <4> HIDE DEF C
      <4> QED BY <3>4, <4>2
    <3>6. j - 1 \in 0 .. N /\ j - 1 \notin T
      BY <1>2, <3>3, <3>4, <3>5
    <3>7. C(j - 1) >= j - 1 + 1
      BY <3>6
    <3> DEFINE r == reach[j - 1]
    <3>8. reach[j] = Grow(r) /\ r \subseteq L /\ r \subseteq reach[j] /\ reach[j] \subseteq L
          /\ a \subseteq r
      BY <1>4, <1>5, <1>6, <3>4, <3>5, <3>6
    <3>9. Cardinality(reach[j]) <= Cardinality(r)
      <4>1. C(j) \in Nat /\ C(j - 1) \in Nat /\ j \in Nat
        BY <1>2, <3>1, <3>4, <3>6
      <4>2. C(j) <= C(j - 1)
        <5> HIDE DEF C
        <5> QED BY <3>4, <3>7, <4>1
      <4> QED BY <4>2
    <3>10. reach[j] = r
      <4>1. IsFiniteSet(reach[j]) /\ IsFiniteSet(r)
        BY <1>7, <3>8, FS_Subset
      <4>2. Cardinality(reach[j]) \in Nat /\ Cardinality(r) \in Nat
            /\ Cardinality(r) <= Cardinality(reach[j])
        BY <3>8, <4>1, FS_CardinalityType, FS_Subset
      <4>3. Cardinality(reach[j]) = Cardinality(r)
        BY <3>9, <4>2
      <4> QED BY <3>8, <4>1, <4>3, FS_Subset
    <3>11. Closed(r) /\ s \in r
      <4>1. Grow(r) = r
        BY <3>8, <3>10
      <4>2. s \in r
        BY <2>2, <3>8
      <4>3. \A m \in r : m \in Live
        BY <3>8
      <4> HIDE DEF r
      <4> QED BY <4>1, <4>2, <4>3 DEF Closed, Grow
    <3>12. r = L
      <4> HIDE DEF r
      <4> QED BY <3>8, <3>11 DEF Reached
    <3> QED BY <3>6, <3>12
  <2> QED BY <2>1, <2>2
<1>9. reach[N] = L
  <2> DEFINE T == {j \in i .. N : reach[j] # L}
  <2> SUFFICES ASSUME T # {} PROVE FALSE
    BY <1>2
  <2>1. PICK j \in T : \A k \in T : j <= k
    <3>1. T \in SUBSET Nat
      BY <1>2
    <3> HIDE DEF T
    <3> QED BY <3>1, Least
  <2>2. j \in i .. N /\ reach[j] # L
    OBVIOUS
  <2>3. j # i
    BY <1>8, <2>2
  <2>4. j - 1 \in i .. N /\ j - 1 \notin T /\ j \in 0 .. N /\ j # 0
    BY <1>2, <2>1, <2>2, <2>3
  <2>5. reach[j - 1] = L
    BY <2>4
  <2>6. reach[j] = Grow(L)
    BY <1>4, <2>4, <2>5
  <2>7. Grow(L) = L
    BY <1>5
  <2> QED BY <2>2, <2>6, <2>7
<1> QED BY <1>1, <1>9

-----------------------------------------------------------------------------
(* Counting *)

LengthOf(h, S) == SumFunctionOnSet([n \in S |-> h[n].length], S)

\* The length of a list, and how a record is split from it.
LEMMA LengthSplit ==
  ASSUME NEW S, IsFiniteSet(S), NEW h, \A n \in S : h[n].length \in Nat
  PROVE  /\ LengthOf(h, S) \in Nat
         /\ S = {} => LengthOf(h, S) = 0
         /\ \A n \in S : LengthOf(h, S) = h[n].length + LengthOf(h, S \ {n})
<1> DEFINE f == [n \in S |-> h[n].length]
<1>1. \A n \in S : f[n] = h[n].length /\ f[n] \in Nat
  OBVIOUS
<1>2. ASSUME NEW x \in S
      PROVE  LengthOf(h, S \ {x}) = SumFunctionOnSet(f, S \ {x})
  <2> DEFINE g == [n \in S \ {x} |-> h[n].length]
  <2>1. \A n \in S \ {x} : f[n] \in Nat /\ g[n] = f[n]
    OBVIOUS
  <2>2. IsFiniteSet(S \ {x})
    BY FS_RemoveElement
  <2> HIDE DEF f, g
  <2>3. SumFunctionOnSet(g, S \ {x}) = SumFunctionOnSet(f, S \ {x})
    BY <2>1, <2>2, SameSum
  <2> QED BY <2>3 DEF g, LengthOf
<1>3. LengthOf(h, S) = SumFunctionOnSet(f, S)
  BY DEF LengthOf
<1> HIDE DEF f
<1> QED BY <1>1, <1>2, <1>3, Sums

\* Records with the same lengths have the same sum.
LEMMA LengthSame ==
  ASSUME NEW S, IsFiniteSet(S), NEW h, NEW g,
         \A n \in S : h[n].length \in Nat /\ g[n].length = h[n].length
  PROVE  LengthOf(g, S) = LengthOf(h, S)
<1> DEFINE a == [n \in S |-> h[n].length]
           b == [n \in S |-> g[n].length]
<1>1. \A n \in S : a[n] \in Nat /\ b[n] = a[n]
  OBVIOUS
<1> HIDE DEF a, b
<1>2. SumFunctionOnSet(b, S) = SumFunctionOnSet(a, S)
  BY <1>1, SameSum
<1> QED BY <1>2 DEF a, b, LengthOf

\* A call is added to its thread's.
LEMMA CalledMore ==
  ASSUME NEW s \in [Threads -> Nat], NEW t \in Threads
  PROVE  /\ SumFunction(s) \in Nat
         /\ SumFunction([s EXCEPT ![t] = @ + 1]) = SumFunction(s) + 1
<1> DEFINE r == [s EXCEPT ![t] = @ + 1]
<1>1. r \in [Threads -> Nat] /\ r[t] = s[t] + 1 /\ \A u \in Threads \ {t} : r[u] = s[u]
  OBVIOUS
<1> HIDE DEF r
<1>2. /\ SumFunction(s) = SumFunctionOnSet(s, Threads)
      /\ SumFunction(r) = SumFunctionOnSet(r, Threads)
  BY <1>1 DEF SumFunction
<1>3. IsFiniteSet(Threads) /\ IsFiniteSet(Threads \ {t})
  BY LocalAssumption, FS_RemoveElement
<1>4. /\ SumFunctionOnSet(s, Threads) \in Nat
      /\ SumFunctionOnSet(s, Threads) = s[t] + SumFunctionOnSet(s, Threads \ {t})
      /\ SumFunctionOnSet(s, Threads \ {t}) \in Nat
  <2>1. \A u \in Threads : s[u] \in Nat
    OBVIOUS
  <2> QED BY <1>3, <2>1, Sums
<1>5. SumFunctionOnSet(r, Threads) = r[t] + SumFunctionOnSet(r, Threads \ {t})
  <2>1. \A u \in Threads : r[u] \in Nat
    BY <1>1
  <2> QED BY <1>3, <2>1, Sums
<1>6. SumFunctionOnSet(r, Threads \ {t}) = SumFunctionOnSet(s, Threads \ {t})
  <2>1. \A u \in Threads \ {t} : s[u] \in Nat /\ r[u] = s[u]
    BY <1>1
  <2> QED BY <1>3, <2>1, SameSum
<1>7. s[t] \in Nat
  OBVIOUS
<1>8. SumFunction(r) = SumFunction(s) + 1
  BY <1>1, <1>2, <1>4, <1>5, <1>6, <1>7
<1> QED BY <1>2, <1>4, <1>8 DEF r

Busy(c) == {t \in Threads : c[t] # "idle"}

\* A thread that begins or ends a call.
LEMMA CallingMoves ==
  ASSUME NEW c, NEW d, NEW t \in Threads, \A u \in Threads : u # t => d[u] = c[u]
  PROVE  /\ Cardinality(Busy(c)) \in Nat
         /\ (c[t] # "idle" <=> d[t] # "idle") => Cardinality(Busy(d)) = Cardinality(Busy(c))
         /\ c[t] = "idle" /\ d[t] # "idle" => Cardinality(Busy(d)) = Cardinality(Busy(c)) + 1
         /\ c[t] # "idle" /\ d[t] = "idle" => Cardinality(Busy(d)) = Cardinality(Busy(c)) - 1
<1>1. IsFiniteSet(Busy(c))
  BY LocalAssumption, FS_Subset DEF Busy
<1>2. (c[t] # "idle" <=> d[t] # "idle") => Busy(d) = Busy(c)
  BY DEF Busy
<1>3. c[t] = "idle" /\ d[t] # "idle" => Busy(d) = Busy(c) \cup {t} /\ t \notin Busy(c)
  BY DEF Busy
<1>4. c[t] # "idle" /\ d[t] = "idle" => Busy(d) = Busy(c) \ {t} /\ t \in Busy(c)
  BY DEF Busy
<1> QED BY <1>1, <1>2, <1>3, <1>4, FS_CardinalityType, FS_AddElement, FS_RemoveElement

-----------------------------------------------------------------------------
(* The lists and the sum *)

\* A thread that searches, or has searched in vain, has its record ahead.  One
\* that was overtaken, in the list before, has none.
Found(L) ==
  \A t \in Threads : pc[t] \in {"search", "new"} =>
    IF t \in overtaken THEN \A m \in L : heap[m].tid # t
    ELSE \A S \in SUBSET L : cur[t] \in S \cup {Nil} /\ Closed(S) =>
           \A m \in L : heap[m].tid = t => m \in S

\* A thread that makes a record is nowhere in the list.
Newcomers == \A t \in Threads : pc[t] = "new" => cur[t] = Nil

Single(L) == \A m, n \in L : heap[m].tid = heap[n].tid => m = n

\* The daemon's records are those it reaches, and it has some while it works.
Taken(L) ==
  /\ dpc = "sum" => Reached(Live \ L, freed)
  /\ dpc = "free" => Reached(Sound \ L, dcur)
  /\ dpc = "last" => Sound \ L = {} /\ heap[freed].next = Nil
  /\ dpc \in {"sleep", "upload"} => freed = Nil /\ Live = L

Lists(L) ==
  /\ L \in SUBSET Live /\ Parted(L)
  /\ Reached(L, first) /\ Taken(L)
  /\ Single(L) /\ Found(L) /\ Newcomers

\* D is what the daemon has still to add up.
Ahead(D) ==
  /\ D \in SUBSET Live /\ Closed(D) /\ dcur \in D /\ Reached(D, dcur)
  /\ \A n \in D : heap[n].next # dcur

\* What is counted, and what may be missing from it.
Balance(L, D) == Calling + lost + uploaded + total + LengthOf(heap, L)
                 + (IF dpc = "sum" THEN LengthOf(heap, D) ELSE 0)
Counted(L, D) ==
  /\ dpc = "sum" => Ahead(D) /\ D \cap L = {}
  /\ dpc = "sleep" => total = 0
  /\ Balance(L, D) \in (Called - late) .. Called

\* A thread that searches or adds leaves the lists as they are.
LEMMA ListsThread ==
  ASSUME Inv, NEW L, Lists(L), NEW t \in Threads,
         add_thread_record_node(t) \/ Search(t) \/ Add(t)
  PROVE  Lists(L)'
<1>1. /\ L \in SUBSET Live /\ Parted(L) /\ Reached(L, first) /\ Taken(L)
      /\ Single(L) /\ Found(L) /\ Newcomers /\ TypeOK /\ Careful
  BY DEF Lists, Inv
<1>2. Parted(L)'
  BY <1>1, WalkInv
<1>3. /\ Live' = Live
      /\ \A n \in Live : heap'[n].next = heap[n].next /\ heap'[n].tid = heap[n].tid
  <2>1. \A n \in Live : heap[n] \in [tid : Threads, length : Nat \ {0}, next : Nodes \cup {Nil}]
    BY <1>1 DEF TypeOK
  <2> QED BY <2>1 DEF add_thread_record_node, Search, Add, Live
<1>4. UNCHANGED <<first, dvars>> /\ Sound' = Sound /\ Sound \subseteq Live
  BY <1>3 DEF add_thread_record_node, Search, Add, Sound, dvars
<1>a. \A R \in SUBSET Live : Closed(R)' <=> Closed(R)
  BY <1>3 DEF Closed
<1>5. Reached(L, first)' /\ Taken(L)'
  <2>1. \A R \in SUBSET L : Closed(R)' <=> Closed(R)
    BY <1>1, <1>a
  <2>2. \A R \in SUBSET (Live \ L) : Closed(R)' <=> Closed(R)
    BY <1>a
  <2>3. \A R \in SUBSET (Sound \ L) : Closed(R)' <=> Closed(R)
    BY <1>4, <1>a
  <2>4. Reached(L, first)'
    BY <1>1, <1>4, <2>1 DEF Reached
  <2>5. dpc = "sum" => Reached(Live \ L, freed)'
    BY <1>1, <1>3, <1>4, <2>2 DEF Reached, Taken, dvars
  <2>6. dpc = "free" => Reached(Sound \ L, dcur)'
    BY <1>1, <1>4, <2>3 DEF Reached, Taken, dvars
  <2>7. dpc = "last" => freed \in Live
    BY <1>1 DEF Parted
  <2> QED BY <1>1, <1>3, <1>4, <2>4, <2>5, <2>6, <2>7 DEF Taken, dvars
<1>6. Single(L)'
  BY <1>1, <1>3 DEF Single
<1>7. Found(L)'
  <2>1. \A R \in SUBSET L : Closed(R)' <=> Closed(R)
    BY <1>1, <1>3 DEF Closed
  <2>2. /\ \A u \in Threads : u # t => pc'[u] = pc[u] /\ cur'[u] = cur[u]
                                      /\ (u \in overtaken' <=> u \in overtaken)
        /\ overtaken' \subseteq overtaken
    BY <1>1 DEF add_thread_record_node, Search, Add, Go, TypeOK
  <2>3. ASSUME NEW u \in Threads, u # t, pc'[u] \in {"search", "new"}
        PROVE  IF u \in overtaken' THEN \A m \in L : heap'[m].tid # u
               ELSE \A S \in SUBSET L : cur'[u] \in S \cup {Nil} /\ Closed(S)' =>
                      \A m \in L : heap'[m].tid = u => m \in S
    BY <1>1, <1>3, <2>1, <2>2, <2>3 DEF Found
  <2>4. ASSUME t \in overtaken, pc'[t] \in {"search", "new"} PROVE \A m \in L : heap[m].tid # t
    <3>1. pc[t] = "search"
      BY <1>1, <2>4 DEF add_thread_record_node, Search, Add, Go, Careful, TypeOK, Garbage
    <3> QED BY <1>1, <2>4, <3>1 DEF Found
  <2>5. ASSUME t \notin overtaken, pc'[t] \in {"search", "new"},
               NEW S \in SUBSET L, cur'[t] \in S \cup {Nil}, Closed(S),
               NEW m \in L, heap[m].tid = t
        PROVE  m \in S
    <3>1. CASE add_thread_record_node(t)
      <4>1. cur'[t] = first
        BY <1>1, <3>1 DEF add_thread_record_node, Go, TypeOK
      <4>2. S = L
        BY <1>1, <2>5, <4>1 DEF Reached
      <4> QED BY <4>2
    <3>2. CASE Search(t)
      <4>1. cur[t] \in L /\ pc[t] = "search"
        BY <1>1, <2>5, <3>2 DEF Search, Parted, InList
      <4>2. cur'[t] = heap[cur[t]].next /\ heap[cur[t]].tid # t
        BY <1>1, <2>5, <3>2, <4>1 DEF Search, Go, TypeOK
      <4>3. S \cup {cur[t]} \in SUBSET L /\ Closed(S \cup {cur[t]})
        BY <2>5, <4>1, <4>2 DEF Closed
      <4>4. m \in S \cup {cur[t]}
        BY <1>1, <2>5, <4>1, <4>3 DEF Found
      <4> QED BY <2>5, <4>2, <4>4
    <3>3. CASE Add(t)
      BY <1>1, <2>5, <3>3 DEF Add, Go, TypeOK, Garbage
    <3> QED BY <3>1, <3>2, <3>3
  <2>6. ASSUME pc'[t] \in {"search", "new"}
        PROVE  IF t \in overtaken' THEN \A m \in L : heap'[m].tid # t
               ELSE \A S \in SUBSET L : cur'[t] \in S \cup {Nil} /\ Closed(S)' =>
                      \A m \in L : heap'[m].tid = t => m \in S
    <3>1. \A m \in L : heap'[m].tid = heap[m].tid
      BY <1>1, <1>3
    <3>2. CASE t \in overtaken
      BY <2>4, <2>6, <3>1, <3>2
    <3>3. CASE t \notin overtaken
      BY <2>1, <2>2, <2>5, <2>6, <3>1, <3>3
    <3> QED BY <3>2, <3>3
  <2> QED BY <2>3, <2>6 DEF Found
<1>8. Newcomers'
  BY <1>1 DEF Newcomers, add_thread_record_node, Search, Add, Go, TypeOK, Garbage
<1> QED BY <1>1, <1>2, <1>3, <1>5, <1>6, <1>7, <1>8 DEF Lists

\* A new record is put in front of the threads' list, and its thread had none.
LEMMA ListsNew ==
  ASSUME Inv, NEW L, Lists(L), NEW t \in Threads, New(t),
         NEW K, K = L \cup (Live' \ Live)
  PROVE  Lists(K)'
<1>1. /\ L \in SUBSET Live /\ Parted(L) /\ Reached(L, first) /\ Taken(L)
      /\ Single(L) /\ Found(L) /\ Newcomers /\ TypeOK
  BY DEF Lists, Inv
<1>2. Parted(K)'
  BY <1>1, NewInv
<1>3. /\ UNCHANGED dvars /\ pc[t] = "new" /\ cur'[t] = Nil /\ pc'[t] = "idle"
      /\ \A u \in Threads : u # t => pc'[u] = pc[u] /\ cur'[u] = cur[u]
                                     /\ (u \in overtaken' <=> u \in overtaken)
  BY <1>1 DEF New, Go, TypeOK
<1>a. Newcomers'
  BY <1>1, <1>3 DEF Newcomers
<1>4. CASE UNCHANGED <<heap, first>>
  <2>1. K = L /\ Live' = Live /\ Sound' = Sound
    BY <1>3, <1>4 DEF Live, Sound, dvars
  <2>2. Single(L)' /\ Reached(L, first)' /\ Taken(L)'
    BY <1>1, <1>3, <1>4, <2>1 DEF Single, Reached, Taken, Closed, dvars
  <2>3. Found(L)'
    BY <1>1, <1>3, <1>4 DEF Found, Closed
  <2> QED BY <1>1, <1>2, <1>a, <2>1, <2>2, <2>3 DEF Lists
<1>5. ASSUME NEW n \in Nodes \ Live,
             heap' = [m \in Live \cup {n} |->
                        IF m = n THEN [tid |-> t, length |-> 1, next |-> first] ELSE heap[m]],
             first' = n
      PROVE  Lists(K)'
  <2>1. /\ Live' = Live \cup {n} /\ n \notin Live /\ n # Nil /\ K = L \cup {n}
        /\ Live' \ K = Live \ L
        /\ \A m \in Live : heap'[m] = heap[m]
        /\ heap'[n].next = first /\ heap'[n].tid = t
    BY <1>1, <1>5, LocalAssumption DEF Live
  <2>a. Sound \subseteq Live /\ Sound' \ K = Sound \ L
    BY <1>1, <1>3, <2>1 DEF Sound, dvars, Parted
  <2>2. \A S \in SUBSET Live : Closed(S)' <=> Closed(S)
    BY <2>1 DEF Closed
  <2>3. ASSUME NEW S \in SUBSET K, Closed(S)'
        PROVE  Closed(S \cap L) /\ S \cap L \in SUBSET L
    <3>1. ASSUME NEW m \in S \cap L PROVE heap[m].next \in (S \cap L) \cup {Nil}
      <4>1. heap[m].next \in L \cup {Nil}
        BY <1>1 DEF Parted, Closed
      <4>2. heap[m].next \in S \cup {Nil}
        BY <1>1, <2>1, <2>3 DEF Closed
      <4> QED BY <4>1, <4>2
    <3> QED BY <3>1 DEF Closed
  <2>4. Reached(K, first)'
    <3> SUFFICES ASSUME NEW S \in SUBSET K, n \in S \cup {Nil}, Closed(S)'
                 PROVE  S = K
      BY <1>5 DEF Reached
    <3>1. n \in S /\ first \in S \cup {Nil}
      BY <2>1 DEF Closed
    <3>2. first \in (S \cap L) \cup {Nil}
      BY <1>1, <3>1 DEF Parted
    <3>3. S \cap L = L
      BY <1>1, <2>3, <3>2 DEF Reached
    <3> QED BY <2>1, <3>1, <3>3
  <2>5. Taken(K)'
    <3>1. \A S \in SUBSET (Live \ L) : Closed(S)' <=> Closed(S)
      BY <2>2
    <3>2. \A S \in SUBSET (Sound \ L) : Closed(S)' <=> Closed(S)
      BY <2>2, <2>a
    <3>3. dpc = "sum" => Reached(Live \ K, freed)'
      BY <1>1, <1>3, <2>1, <3>1 DEF Reached, Taken, dvars
    <3>4. dpc = "free" => Reached(Sound \ K, dcur)'
      BY <1>1, <1>3, <2>a, <3>2 DEF Reached, Taken, dvars
    <3>5. dpc = "last" => heap'[freed].next = Nil
      BY <1>1, <2>1 DEF Taken, Parted
    <3> QED BY <1>1, <1>3, <2>1, <2>a, <3>3, <3>4, <3>5 DEF Taken, dvars
  <2>6. \A m \in L : heap[m].tid # t
    <3>1. Closed({}) /\ {} \in SUBSET L
      BY DEF Closed
    <3>2. cur[t] = Nil
      BY <1>1, <1>3 DEF Newcomers
    <3> QED BY <1>1, <1>3, <3>1, <3>2 DEF Found
  <2>7. Single(K)'
    BY <1>1, <2>1, <2>6 DEF Single
  <2>8. Found(K)'
    <3> SUFFICES ASSUME NEW u \in Threads, pc'[u] \in {"search", "new"}
                 PROVE  IF u \in overtaken' THEN \A m \in K : heap'[m].tid # u
                        ELSE \A S \in SUBSET K : cur'[u] \in S \cup {Nil} /\ Closed(S)' =>
                               \A m \in K : heap'[m].tid = u => m \in S
      BY DEF Found
    <3>1. u # t /\ pc[u] \in {"search", "new"} /\ cur'[u] = cur[u]
          /\ (u \in overtaken' <=> u \in overtaken)
      BY <1>3
    <3>2. \A m \in K : heap'[m].tid = u => m \in L /\ heap[m].tid = u
      BY <1>1, <2>1, <3>1
    <3>3. CASE u \in overtaken
      BY <1>1, <3>1, <3>2, <3>3 DEF Found
    <3>4. CASE u \notin overtaken
      <4>1. cur[u] \in L \cup {Nil}
        BY <1>1, <3>1, <3>4 DEF Parted, InList, Newcomers
      <4> SUFFICES ASSUME NEW S \in SUBSET K, cur[u] \in S \cup {Nil}, Closed(S)',
                          NEW m \in K, heap'[m].tid = u
                   PROVE  m \in S
        BY <3>1, <3>4
      <4> QED BY <1>1, <2>3, <3>1, <3>2, <3>4, <4>1 DEF Found
    <3> QED BY <3>3, <3>4
  <2> QED BY <1>1, <1>2, <1>a, <2>1, <2>4, <2>5, <2>7, <2>8 DEF Lists
<1> QED BY <1>4, <1>5 DEF New

\* What the daemon detaches is the whole list, and all there is.
LEMMA ListsDetach ==
  ASSUME Inv, NEW L, Lists(L), upload_bandwidth
  PROVE  Lists({})' /\ Live = L
<1>1. /\ L \in SUBSET Live /\ Parted(L) /\ Reached(L, first) /\ Taken(L)
      /\ Newcomers /\ TypeOK
  BY DEF Lists, Inv
<1>2. Parted({})'
  BY <1>1, DetachInv
<1>3. /\ dpc = "sleep" /\ UNCHANGED <<heap, pc, cur>> /\ Live' = Live
      /\ first' = Nil /\ freed' = first /\ dpc' = "sum"
  BY DEF upload_bandwidth, Live
<1>4. Live = L
  BY <1>1, <1>3 DEF Taken
<1>5. Reached({}, first)' /\ Taken({})'
  <2>1. \A R \in SUBSET L : Closed(R)' <=> Closed(R)
    BY <1>3 DEF Closed
  <2>2. Reached({}, first)'
    BY DEF Reached
  <2>3. Reached(Live \ {}, freed)'
    <3>1. Live' \ {} = L
      BY <1>3, <1>4
    <3> QED BY <1>1, <1>3, <2>1, <3>1 DEF Reached
  <2> QED BY <1>3, <2>2, <2>3 DEF Taken
<1>6. Single({})' /\ Found({})' /\ Newcomers'
  BY <1>1, <1>3 DEF Single, Found, Newcomers
<1> QED BY <1>2, <1>4, <1>5, <1>6 DEF Lists

\* Adding up and uploading touch no list.
LEMMA ListsSum ==
  ASSUME Inv, NEW L, Lists(L), Sum \/ Upload
  PROVE  Lists(L)'
<1>1. /\ L \in SUBSET Live /\ Parted(L) /\ Reached(L, first) /\ Taken(L)
      /\ Single(L) /\ Found(L) /\ Newcomers /\ TypeOK /\ Chained
  BY DEF Lists, Inv
<1>2. Parted(L)'
  BY <1>1, SumInv
<1>3. UNCHANGED <<first, heap, tvars, freed>> /\ Live' = Live
  BY DEF Sum, Upload, Live
<1>4. \A R : Closed(R)' <=> Closed(R)
  BY <1>3 DEF Closed
<1>5. Reached(L, first)' /\ Single(L)' /\ Found(L)' /\ Newcomers'
  BY <1>1, <1>3, <1>4 DEF Reached, Single, Found, Newcomers, tvars
<1>6. Taken(L)'
  <2>1. CASE Upload
    BY <1>1, <1>3, <2>1 DEF Upload, Taken
  <2>2. CASE Sum /\ dpc' = "sum"
    <3>1. dpc = "sum"
      BY <2>2 DEF Sum
    <3> QED BY <1>1, <1>3, <1>4, <2>2, <3>1 DEF Taken, Reached
  <2>3. CASE Sum /\ dpc' # "sum"
    <3>1. dpc = "sum" /\ dpc' = "free" /\ dcur' = heap[freed].next /\ freed \in Live \ L
      BY <1>1, <2>3 DEF Sum, Behind, Parted
    <3>2. Sound' \ L = (Live \ L) \ {freed}
      BY <1>3, <3>1 DEF Sound
    <3>3. ASSUME NEW R \in SUBSET ((Live \ L) \ {freed}), dcur' \in R \cup {Nil}, Closed(R)
          PROVE  R = (Live \ L) \ {freed}
      <4>1. R \cup {freed} \in SUBSET (Live \ L) /\ Closed(R \cup {freed})
        BY <3>1, <3>3 DEF Closed
      <4>2. R \cup {freed} = Live \ L
        BY <1>1, <3>1, <4>1 DEF Taken, Reached
      <4> QED BY <4>2
    <3>4. Reached(Sound \ L, dcur)'
      BY <1>4, <3>2, <3>3 DEF Reached
    <3> QED BY <3>1, <3>4 DEF Taken
  <2> QED BY <2>1, <2>2, <2>3
<1> QED BY <1>1, <1>2, <1>3, <1>5, <1>6 DEF Lists

\* Freeing a record changes none of the threads'.
LEMMA ListsFree ==
  ASSUME Inv, NEW L, Lists(L), free_thread_record_head \/ FreeFirst
  PROVE  Lists(L)' /\ \A n \in L : heap'[n] = heap[n]
<1>1. /\ L \in SUBSET Live /\ Parted(L) /\ Reached(L, first) /\ Taken(L)
      /\ Single(L) /\ Found(L) /\ Newcomers /\ TypeOK /\ Chained
  BY DEF Lists, Inv
<1>2. UNCHANGED <<first, tvars>> /\ dpc \in {"free", "last"}
  BY DEF free_thread_record_head, FreeFirst
<1>3. Sound = Live \ {freed} /\ L \subseteq Sound /\ freed \in Live \ L
  BY <1>1, <1>2 DEF Sound, Parted
<1>4. Parted(L)' /\ \A n \in Live' : n \in Sound => heap'[n] = heap[n]
  BY <1>1, FreeInv
<1>5. \A n \in L : n \in Live'
  <2>1. CASE free_thread_record_head /\ dcur # Nil
    <3>1. dcur \in Sound \ L /\ Live' = Live \ {dcur}
      BY <1>1, <2>1 DEF free_thread_record_head, Restrict, Parted, Live
    <3> QED BY <1>1, <3>1
  <2>2. CASE free_thread_record_head /\ dcur = Nil
    BY <1>1, <2>2 DEF free_thread_record_head, Live
  <2>3. CASE FreeFirst
    <3>1. Live' = Live \ {freed}
      BY <2>3 DEF FreeFirst, Restrict, Live
    <3> QED BY <1>3, <3>1
  <2> QED BY <2>1, <2>2, <2>3
<1>6. \A n \in L : heap'[n] = heap[n]
  BY <1>3, <1>4, <1>5
<1>7. Reached(L, first)' /\ Single(L)' /\ Found(L)' /\ Newcomers'
  <2>1. \A R \in SUBSET L : Closed(R)' <=> Closed(R)
    BY <1>6 DEF Closed
  <2> QED BY <1>1, <1>2, <1>6, <2>1 DEF Reached, Single, Found, Newcomers, tvars
<1>8. Taken(L)'
  <2>1. CASE free_thread_record_head /\ dcur # Nil
    <3>1. /\ dpc = "free" /\ dpc' = "free" /\ freed' = freed /\ dcur' = heap[dcur].next
          /\ Live' = Live \ {dcur} /\ dcur \in Sound \ L
      BY <1>1, <2>1 DEF free_thread_record_head, Restrict, Parted, Live
    <3>2. Sound' \ L = (Sound \ L) \ {dcur}
      BY <1>3, <3>1 DEF Sound
    <3>3. \A R \in SUBSET ((Sound \ L) \ {dcur}) : Closed(R)' <=> Closed(R)
      BY <1>3, <1>4, <3>1 DEF Closed
    <3>4. ASSUME NEW R \in SUBSET ((Sound \ L) \ {dcur}), dcur' \in R \cup {Nil}, Closed(R)
          PROVE  R = (Sound \ L) \ {dcur}
      <4>1. R \cup {dcur} \in SUBSET (Sound \ L) /\ Closed(R \cup {dcur})
        BY <3>1, <3>4 DEF Closed
      <4>2. R \cup {dcur} = Sound \ L
        BY <1>1, <3>1, <4>1 DEF Taken, Reached
      <4> QED BY <4>2
    <3>5. Reached(Sound \ L, dcur)'
      BY <3>2, <3>3, <3>4 DEF Reached
    <3> QED BY <3>1, <3>5 DEF Taken
  <2>2. CASE free_thread_record_head /\ dcur = Nil
    <3>1. /\ dpc = "free" /\ dpc' = "last" /\ freed' = freed /\ Live' = Live /\ Sound' = Sound
          /\ heap' = [heap EXCEPT ![freed].next = Nil]
      BY <1>3, <2>2 DEF free_thread_record_head, Live, Sound
    <3>2. heap'[freed].next = Nil
      <4>1. heap[freed] \in [tid : Threads, length : Nat \ {0}, next : Nodes \cup {Nil}]
        BY <1>1, <1>3 DEF TypeOK
      <4>2. heap'[freed] = [heap[freed] EXCEPT !.next = Nil]
        BY <1>3, <3>1 DEF Live
      <4> QED BY <4>1, <4>2
    <3>3. Sound \ L = {}
      <4>1. {} \in SUBSET (Sound \ L) /\ Closed({})
        BY DEF Closed
      <4> QED BY <1>1, <2>2, <3>1, <4>1 DEF Taken, Reached
    <3> QED BY <3>1, <3>2, <3>3 DEF Taken
  <2>3. CASE FreeFirst
    <3>1. dpc = "last" /\ dpc' = "upload" /\ freed' = Nil /\ Live' = Live \ {freed}
      BY <2>3 DEF FreeFirst, Restrict, Live
    <3>2. Live' = L
      BY <1>1, <1>3, <3>1 DEF Taken
    <3> QED BY <3>1, <3>2 DEF Taken
  <2> QED BY <2>1, <2>2, <2>3
<1>9. L \in SUBSET Live'
  BY <1>5
<1> QED BY <1>4, <1>6, <1>7, <1>8, <1>9 DEF Lists

\* Lists are finite, and what is counted is a natural.
LEMMA Finite ==
  ASSUME TypeOK
  PROVE  /\ \A S \in SUBSET Live : IsFiniteSet(S) /\ \A n \in S : heap[n].length \in Nat
         /\ \A S \in SUBSET Live : LengthOf(heap, S) \in Nat
         /\ Called \in Nat /\ Calling = Cardinality(Busy(pc)) /\ Calling \in Nat
         /\ lost \in Nat /\ uploaded \in Nat /\ total \in Nat /\ late \in Nat
         /\ sent \in [Threads -> Nat]
<1>1. \A S \in SUBSET Live : IsFiniteSet(S) /\ \A n \in S : heap[n].length \in Nat
  <2>1. \A S \in SUBSET Live : S \in SUBSET Nodes
    BY DEF TypeOK
  <2>2. \A n \in Live : heap[n].length \in Nat
    BY DEF TypeOK
  <2> QED BY <2>1, <2>2, LocalAssumption, FS_Subset
<1>2. \A S \in SUBSET Live : LengthOf(heap, S) \in Nat
  BY <1>1, LengthSplit
<1>3. sent \in [Threads -> Nat]
  BY LocalAssumption DEF TypeOK
<1>4. Calling = Cardinality(Busy(pc)) /\ Calling \in Nat
  <2>1. IsFiniteSet(Busy(pc))
    BY LocalAssumption, FS_Subset DEF Busy
  <2> QED BY <2>1, FS_CardinalityType DEF Calling, Busy
<1>5. Called \in Nat
  <2>1. CASE Threads = {}
    <3>1. DOMAIN sent = {}
      BY <1>3, <2>1
    <3> QED BY <3>1, FS_EmptySet, Sums DEF Called, SumFunction
  <2>2. CASE Threads # {}
    BY <1>3, <2>2, CalledMore DEF Called
  <2> QED BY <2>1, <2>2
<1> QED BY <1>1, <1>2, <1>3, <1>4, <1>5 DEF TypeOK

\* What Balance adds up are naturals.
LEMMA BalanceTerms ==
  ASSUME Inv, NEW L, NEW D, Lists(L), Counted(L, D)
  PROVE  /\ Calling \in Nat /\ lost \in Nat /\ uploaded \in Nat /\ total \in Nat
         /\ late \in Nat /\ Called \in Nat /\ sent \in [Threads -> Nat]
         /\ Calling = Cardinality(Busy(pc)) /\ Calling' = Cardinality(Busy(pc'))
         /\ Calling' \in Nat
         /\ L \in SUBSET Live /\ LengthOf(heap, L) \in Nat
         /\ dpc = "sum" => D \in SUBSET Live /\ D \cap L = {} /\ LengthOf(heap, D) \in Nat
         /\ Balance(L, D) \in Nat
         /\ Called - late <= Balance(L, D) /\ Balance(L, D) <= Called
<1>1. TypeOK /\ L \in SUBSET Live
  BY DEF Inv, Lists
<1>2. dpc = "sum" => D \in SUBSET Live /\ D \cap L = {}
  BY DEF Counted, Ahead
<1>3. Calling' = Cardinality(Busy(pc')) /\ Calling' \in Nat
  <2>1. IsFiniteSet(Busy(pc'))
    BY LocalAssumption, FS_Subset DEF Busy
  <2> QED BY <2>1, FS_CardinalityType DEF Calling, Busy
<1>4. /\ Calling \in Nat /\ lost \in Nat /\ uploaded \in Nat /\ total \in Nat
      /\ late \in Nat /\ Called \in Nat /\ sent \in [Threads -> Nat]
      /\ Calling = Cardinality(Busy(pc))
      /\ LengthOf(heap, L) \in Nat
      /\ dpc = "sum" => LengthOf(heap, D) \in Nat
  BY <1>1, <1>2, Finite
<1>5. Balance(L, D) \in Nat
  <2> SUFFICES ASSUME NEW a, a = LengthOf(heap, L), NEW b, b = LengthOf(heap, D)
               PROVE  Calling + lost + uploaded + total + a
                        + (IF dpc = "sum" THEN b ELSE 0) \in Nat
    BY DEF Balance
  <2> QED BY <1>4
<1>6. Balance(L, D) \in (Called - late) .. Called
  BY DEF Counted
<1> QED BY <1>1, <1>2, <1>3, <1>4, <1>5, <1>6

\* A balance that keeps its distance stays within the bounds; it may fall back
\* by one when a late addition is counted.
LEMMA BalanceStep ==
  ASSUME Inv, NEW L, NEW D, Lists(L), Counted(L, D),
         NEW K, NEW E, NEW b \in Nat, Balance(K, E)' = b, Called' \in Nat, late' \in Nat,
         \/ b - Called' = Balance(L, D) - Called /\ late' >= late
         \/ b - Called' = Balance(L, D) - Called - 1 /\ late' = late + 1,
         dpc' = "sum" => Ahead(E)' /\ E \cap K = {},
         dpc' = "sleep" => total' = 0
  PROVE  Counted(K, E)'
<1>1. /\ Balance(L, D) \in Nat /\ Called \in Nat /\ late \in Nat
      /\ Called - late <= Balance(L, D) /\ Balance(L, D) <= Called
  BY BalanceTerms
<1>2. b \in (Called' - late') .. Called'
  <2> SUFFICES ASSUME NEW k \in Nat, NEW c \in Nat, NEW d \in Nat, NEW l \in Nat, NEW m \in Nat,
                      c - l <= k, k <= c,
                      \/ b - d = k - c /\ m >= l
                      \/ b - d = k - c - 1 /\ m = l + 1
               PROVE  b \in (d - m) .. d
    BY <1>1
  <2>1. CASE b - d = k - c /\ m >= l
    BY <2>1
  <2>2. CASE b - d = k - c - 1 /\ m = l + 1
    BY <2>2
  <2> QED BY <2>1, <2>2
<1> QED BY <1>2 DEF Counted

\* A record that a call is added to.
LEMMA LengthAdd ==
  ASSUME TypeOK, NEW S \in SUBSET Live, NEW c \in Live,
         heap' = [heap EXCEPT ![c].length = @ + 1]
  PROVE  LengthOf(heap', S) = LengthOf(heap, S) + (IF c \in S THEN 1 ELSE 0)
<1>1. heap'[c].length = heap[c].length + 1 /\ \A n \in Live \ {c} : heap'[n] = heap[n]
  <2>1. heap[c] \in [tid : Threads, length : Nat \ {0}, next : Nodes \cup {Nil}]
    BY DEF TypeOK
  <2>2. heap'[c] = [heap[c] EXCEPT !.length = @ + 1]
    BY DEF Live
  <2> QED BY <2>1, <2>2 DEF Live
<1> DEFINE M == S \ {c}
<1>2. /\ IsFiniteSet(S) /\ IsFiniteSet(M) /\ heap[c].length \in Nat
      /\ \A n \in S : heap[n].length \in Nat
      /\ \A n \in M : heap[n].length \in Nat
      /\ LengthOf(heap, S) \in Nat /\ LengthOf(heap, M) \in Nat
  <2>1. M \in SUBSET Live /\ {c} \in SUBSET Live
    OBVIOUS
  <2> QED BY <2>1, Finite
<1>3. LengthOf(heap', M) = LengthOf(heap, M)
  <2>1. \A n \in M : heap[n].length \in Nat /\ heap'[n].length = heap[n].length
    BY <1>1, <1>2
  <2> HIDE DEF M
  <2> QED BY <1>2, <2>1, LengthSame
<1>4. CASE c \notin S
  <2>1. M = S
    BY <1>4
  <2> HIDE DEF M
  <2> QED BY <1>2, <1>3, <1>4, <2>1
<1>5. CASE c \in S
  <2>1. \A n \in S : heap'[n].length \in Nat
    BY <1>1, <1>2
  <2>2. LengthOf(heap, S) = heap[c].length + LengthOf(heap, M)
    BY <1>2, <1>5, LengthSplit
  <2>3. LengthOf(heap', S) = heap'[c].length + LengthOf(heap', M)
    BY <1>2, <1>5, <2>1, LengthSplit
  <2> HIDE DEF M
  <2> QED BY <1>1, <1>2, <1>3, <1>5, <2>2, <2>3
<1> QED BY <1>4, <1>5

\* A call goes from its thread to its record; if the thread was overtaken, the
\* record may be past counting.
LEMMA CountedThread ==
  ASSUME Inv, Inv', NEW L, NEW D, Lists(L), Counted(L, D), NEW t \in Threads,
         add_thread_record_node(t) \/ Search(t) \/ Add(t)
  PROVE  Counted(L, D)'
<1>1. TypeOK /\ TypeOK' /\ L \in SUBSET Live /\ Parted(L) /\ Careful
  BY DEF Inv, Lists
<1>2. /\ Live' = Live /\ UNCHANGED <<dvars, lost>>
      /\ \A n \in Live : heap'[n].next = heap[n].next
  <2>1. \A n \in Live : heap[n] \in [tid : Threads, length : Nat \ {0}, next : Nodes \cup {Nil}]
    BY <1>1 DEF TypeOK
  <2> QED BY <2>1 DEF add_thread_record_node, Search, Add, Live
<1>3. dpc' = "sum" => Ahead(D)' /\ D \cap L = {}
  <2> SUFFICES ASSUME dpc = "sum" PROVE Ahead(D)' /\ D \cap L = {}
    BY <1>2 DEF dvars
  <2>1. Ahead(D) /\ D \cap L = {}
    BY DEF Counted
  <2>2. \A R \in SUBSET D : Closed(R)' <=> Closed(R)
    BY <1>2, <2>1 DEF Ahead, Closed
  <2>3. Closed(D)'
    BY <2>1, <2>2 DEF Ahead
  <2> QED BY <1>2, <2>1, <2>2, <2>3 DEF Ahead, Reached, dvars
<1>4. dpc' = "sleep" => total' = 0
  BY <1>2 DEF Counted, dvars
<1>5. /\ Calling \in Nat /\ lost \in Nat /\ uploaded \in Nat /\ total \in Nat
      /\ late \in Nat /\ Called \in Nat /\ sent \in [Threads -> Nat]
      /\ Calling = Cardinality(Busy(pc)) /\ Calling' = Cardinality(Busy(pc'))
      /\ Calling' \in Nat /\ LengthOf(heap, L) \in Nat
      /\ dpc = "sum" => D \in SUBSET Live /\ D \cap L = {} /\ LengthOf(heap, D) \in Nat
      /\ late' \in Nat
  BY <1>1, BalanceTerms DEF TypeOK
<1>6. \A u \in Threads : u # t => pc'[u] = pc[u]
  BY <1>1 DEF add_thread_record_node, Search, Add, Go, TypeOK
<1> DEFINE a == LengthOf(heap, L)
           b == LengthOf(heap, D)
           a1 == LengthOf(heap', L)
           b1 == LengthOf(heap', D)
<1>7. /\ Balance(L, D) = Calling + lost + uploaded + total + a + (IF dpc = "sum" THEN b ELSE 0)
      /\ Balance(L, D)' = Calling' + lost + uploaded + total + a1 + (IF dpc = "sum" THEN b1 ELSE 0)
  BY <1>2 DEF Balance, dvars
<1>8. CASE heap' = heap /\ sent' = sent /\ pc[t] # "idle" /\ pc'[t] # "idle" /\ late' = late
  <2>1. Calling' = Calling
    BY <1>5, <1>6, <1>8, CallingMoves
  <2>2. Called' = Called
    BY <1>8 DEF Called
  <2>3. a1 = a /\ b1 = b
    BY <1>8
  <2>4. Balance(L, D)' = Balance(L, D)
    BY <1>7, <2>1, <2>3
  <2>5. Balance(L, D) \in Nat
    BY BalanceTerms
  <2> HIDE DEF a, b, a1, b1
  <2> QED BY <1>3, <1>4, <1>5, <1>8, <2>2, <2>4, <2>5, BalanceStep
<1>9. CASE add_thread_record_node(t)
  <2>1. pc[t] = "idle" /\ pc'[t] # "idle" /\ sent' = [sent EXCEPT ![t] = @ + 1]
        /\ heap' = heap /\ late' = late
    BY <1>1, <1>9 DEF add_thread_record_node, Go, TypeOK
  <2>2. Calling' = Calling + 1
    BY <1>5, <1>6, <2>1, CallingMoves
  <2>3. Called' = Called + 1
    BY <1>5, <2>1, CalledMore DEF Called
  <2>4. a1 = a /\ b1 = b
    BY <2>1
  <2>5. Balance(L, D) \in Nat
    BY BalanceTerms
  <2>6. a \in Nat /\ (dpc = "sum" => b \in Nat)
    BY <1>5
  <2> HIDE DEF a, b, a1, b1
  <2>7. Balance(L, D)' = Balance(L, D) + 1
    BY <1>5, <1>7, <2>2, <2>4, <2>6
  <2>8. /\ Balance(L, D) + 1 \in Nat /\ Called' \in Nat
        /\ Balance(L, D) + 1 - Called' = Balance(L, D) - Called /\ late' >= late
    BY <1>5, <2>1, <2>3, <2>5
  <2> DEFINE k == Balance(L, D) + 1
  <2>9. k \in Nat /\ Balance(L, D)' = k /\ k - Called' = Balance(L, D) - Called
    BY <1>5, <2>3, <2>5, <2>7
  <2> HIDE DEF k
  <2> QED BY <1>3, <1>4, <1>5, <2>8, <2>9, BalanceStep
<1>10. CASE Search(t)
  BY <1>1, <1>8, <1>10 DEF Search, Go, TypeOK, Garbage
<1>11. CASE Add(t) /\ cur[t] \notin Live
  BY <1>1, <1>8, <1>11 DEF Add, Go, TypeOK, Garbage
<1>12. CASE Add(t) /\ cur[t] \in Live
  <2>1. /\ pc[t] = "add" /\ pc'[t] = "idle" /\ sent' = sent
        /\ heap' = [heap EXCEPT ![cur[t]].length = @ + 1]
        /\ late' = IF t \in overtaken THEN late + 1 ELSE late
    BY <1>1, <1>12 DEF Add, Go, TypeOK
  <2>2. t \notin overtaken => cur[t] \in L
    BY <1>1, <2>1 DEF Parted, InList
  <2>3. Calling' = Calling - 1
    BY <1>5, <1>6, <2>1, CallingMoves
  <2>4. Called' = Called
    BY <2>1 DEF Called
  <2>5. a1 = a + (IF cur[t] \in L THEN 1 ELSE 0)
    BY <1>1, <1>12, <2>1, LengthAdd
  <2>6. dpc = "sum" => b1 = b + (IF cur[t] \in D THEN 1 ELSE 0)
    BY <1>1, <1>5, <1>12, <2>1, LengthAdd
  <2>7. Balance(L, D) \in Nat
    BY BalanceTerms
  <2>8. a \in Nat /\ (dpc = "sum" => b \in Nat /\ ~ (cur[t] \in L /\ cur[t] \in D))
    BY <1>5
  <2> HIDE DEF a, b, a1, b1
  <2>9. \/ Balance(L, D)' = Balance(L, D)
        \/ t \in overtaken /\ Balance(L, D)' = Balance(L, D) - 1
    <3>1. CASE cur[t] \in L
      BY <1>5, <1>7, <2>3, <2>5, <2>6, <2>8, <3>1
    <3>2. CASE cur[t] \notin L
      BY <1>5, <1>7, <2>2, <2>3, <2>5, <2>6, <2>8, <3>2
    <3> QED BY <3>1, <3>2
  <2>10. Balance(L, D)' \in Nat
    BY <1>5, <1>7, <2>5, <2>6, <2>8
  <2>11. \/ Balance(L, D)' - Called' = Balance(L, D) - Called /\ late' >= late
         \/ Balance(L, D)' - Called' = Balance(L, D) - Called - 1 /\ late' = late + 1
    BY <1>5, <2>1, <2>4, <2>7, <2>9
  <2>12. Called' \in Nat
    BY <1>5, <2>4
  <2> QED BY <1>3, <1>4, <1>5, <2>10, <2>11, <2>12, BalanceStep
<1> QED BY <1>9, <1>10, <1>11, <1>12

\* A call becomes a record of its own, or is lost.
LEMMA CountedNew ==
  ASSUME Inv, NEW L, NEW D, Lists(L), Counted(L, D), NEW t \in Threads, New(t),
         NEW K, K = L \cup (Live' \ Live)
  PROVE  Counted(K, D)'
<1>1. TypeOK /\ L \in SUBSET Live
  BY DEF Inv, Lists
<1>2. /\ UNCHANGED <<sent, late, dvars>> /\ pc[t] = "new" /\ pc'[t] = "idle"
      /\ \A u \in Threads : u # t => pc'[u] = pc[u]
  BY <1>1 DEF New, Go, TypeOK
<1>3. /\ Calling \in Nat /\ lost \in Nat /\ uploaded \in Nat /\ total \in Nat
      /\ late \in Nat /\ Called \in Nat
      /\ Calling = Cardinality(Busy(pc)) /\ Calling' = Cardinality(Busy(pc'))
      /\ Calling' \in Nat /\ LengthOf(heap, L) \in Nat
      /\ dpc = "sum" => D \in SUBSET Live /\ D \cap L = {} /\ LengthOf(heap, D) \in Nat
      /\ Balance(L, D) \in Nat
  BY BalanceTerms
<1>4. Calling' = Calling - 1 /\ Called' = Called
  <2>1. Calling' = Calling - 1
    BY <1>2, <1>3, CallingMoves
  <2>2. Called' = Called
    BY <1>2 DEF Called
  <2> QED BY <2>1, <2>2
<1>5. /\ Live \subseteq Live' /\ \A n \in Live : heap'[n] = heap[n]
      /\ LengthOf(heap', K) + lost' = LengthOf(heap, L) + lost + 1
      /\ LengthOf(heap', K) \in Nat /\ lost' \in Nat
      /\ K \cap Live = L
  <2>1. CASE lost' = lost + 1 /\ UNCHANGED <<heap, first>>
    <3>1. K = L /\ Live' = Live
      BY <2>1 DEF Live
    <3>2. LengthOf(heap', K) = LengthOf(heap, L)
      BY <2>1, <3>1
    <3>3. lost' = lost + 1 /\ LengthOf(heap, L) \in Nat /\ lost \in Nat
      BY <1>3, <2>1
    <3>4. LengthOf(heap', K) + lost' = LengthOf(heap, L) + lost + 1
      <4> SUFFICES ASSUME NEW a \in Nat, NEW l \in Nat PROVE a + (l + 1) = a + l + 1
        BY <3>2, <3>3
      <4> QED OBVIOUS
    <3> QED BY <1>1, <2>1, <3>1, <3>2, <3>3, <3>4
  <2>2. ASSUME NEW n \in Nodes \ Live,
               heap' = [m \in Live \cup {n} |->
                          IF m = n THEN [tid |-> t, length |-> 1, next |-> first] ELSE heap[m]],
               lost' = lost
        PROVE  /\ Live \subseteq Live' /\ \A m \in Live : heap'[m] = heap[m]
               /\ LengthOf(heap', K) + lost' = LengthOf(heap, L) + lost + 1
               /\ LengthOf(heap', K) \in Nat /\ lost' \in Nat
               /\ K \cap Live = L
    <3>1. /\ Live' = Live \cup {n} /\ n \notin Live /\ K = L \cup {n} /\ K \ {n} = L
          /\ \A m \in Live : heap'[m] = heap[m]
          /\ heap'[n].length = 1
      BY <1>1, <2>2 DEF Live
    <3>2. IsFiniteSet(L) /\ \A m \in L : heap[m].length \in Nat
      BY <1>1, Finite
    <3>3. IsFiniteSet(K) /\ \A m \in K : heap'[m].length \in Nat
      BY <1>1, <3>1, <3>2, FS_AddElement
    <3>4. LengthOf(heap', K) = heap'[n].length + LengthOf(heap', L)
      BY <3>1, <3>3, LengthSplit
    <3>5. LengthOf(heap', L) = LengthOf(heap, L)
      BY <1>1, <3>1, <3>2, LengthSame
    <3> QED BY <1>1, <1>3, <2>2, <3>1, <3>4, <3>5
  <2> QED BY <2>1, <2>2 DEF New
<1>6. dpc = "sum" => Ahead(D)' /\ D \cap K = {} /\ LengthOf(heap', D) = LengthOf(heap, D)
  <2> SUFFICES ASSUME dpc = "sum"
               PROVE  Ahead(D)' /\ D \cap K = {} /\ LengthOf(heap', D) = LengthOf(heap, D)
    OBVIOUS
  <2>1. Ahead(D) /\ D \cap L = {} /\ D \in SUBSET Live
    BY <1>3 DEF Counted
  <2>2. \A R \in SUBSET D : Closed(R)' <=> Closed(R)
    BY <1>5, <2>1 DEF Closed
  <2>3. Closed(D)'
    BY <2>1, <2>2 DEF Ahead
  <2>4. Ahead(D)'
    BY <1>2, <1>5, <2>1, <2>2, <2>3 DEF Ahead, Reached, dvars
  <2>5. IsFiniteSet(D) /\ \A n \in D : heap[n].length \in Nat /\ heap'[n] = heap[n]
    BY <1>1, <1>5, <2>1, Finite
  <2>6. LengthOf(heap', D) = LengthOf(heap, D)
    BY <2>5, LengthSame
  <2>7. D \cap K = {}
    BY <1>5, <2>1
  <2> QED BY <2>4, <2>6, <2>7
<1>7. Balance(K, D)' = Balance(L, D)
  <2> SUFFICES ASSUME NEW a, a = LengthOf(heap, L), NEW b, b = LengthOf(heap, D),
                      NEW c, c = LengthOf(heap', K), NEW d, d = LengthOf(heap', D)
               PROVE  Calling' + lost' + uploaded' + total' + c + (IF dpc' = "sum" THEN d ELSE 0)
                        = Calling + lost + uploaded + total + a + (IF dpc = "sum" THEN b ELSE 0)
    BY DEF Balance
  <2>1. uploaded' = uploaded /\ total' = total /\ dpc' = dpc
    BY <1>2 DEF dvars
  <2>2. c + lost' = a + lost + 1 /\ c \in Nat /\ lost' \in Nat /\ a \in Nat
    BY <1>3, <1>5
  <2>3. dpc = "sum" => b \in Nat /\ d = b
    BY <1>3, <1>6
  <2>4. (Calling - 1) + lost' + uploaded + total + c = Calling + lost + uploaded + total + a
    BY <1>3, <2>2
  <2>5. Calling' + lost' + uploaded' + total' + c = Calling + lost + uploaded + total + a
    BY <1>4, <2>1, <2>4
  <2> QED BY <2>1, <2>3, <2>5
<1>8. dpc' = "sleep" => total' = 0
  BY <1>2 DEF Counted, dvars
<1>9. dpc' = "sum" => Ahead(D)' /\ D \cap K = {}
  BY <1>2, <1>6 DEF dvars
<1>10. late' = late /\ late' >= late
  BY <1>2, <1>3
<1> QED BY <1>3, <1>4, <1>7, <1>8, <1>9, <1>10, BalanceStep

\* All records pass from the threads to the daemon.
LEMMA CountedDetach ==
  ASSUME Inv, NEW L, NEW D, Lists(L), Counted(L, D), upload_bandwidth
  PROVE  Counted({}, L)'
<1>1. /\ TypeOK /\ L \in SUBSET Live /\ Parted(L) /\ Reached(L, first) /\ Chained
  BY DEF Inv, Lists
<1>2. /\ dpc = "sleep" /\ UNCHANGED <<heap, pc, sent, late, uploaded, lost>> /\ Live' = Live
      /\ first # Nil /\ dcur' = first /\ dpc' = "sum" /\ total' = 0 /\ total = 0
      /\ Sound = Live
  BY DEF upload_bandwidth, Live, Counted, Sound
<1>3. Ahead(L)'
  <2>1. \A R \in SUBSET L : Closed(R)' <=> Closed(R)
    BY <1>2 DEF Closed
  <2>2. first \in L /\ Closed(L)
    BY <1>1, <1>2 DEF Parted
  <2>3. \A n \in L : heap[n].next # first
    BY <1>1, <1>2 DEF Chained
  <2> QED BY <1>1, <1>2, <2>1, <2>2, <2>3 DEF Ahead, Reached
<1>4. LengthOf(heap', {}) = 0
  BY LengthSplit, FS_EmptySet
<1>5. Called' = Called /\ Calling' = Calling
  BY <1>2 DEF Called, Calling
<1>6. /\ Called \in Nat /\ Calling \in Nat /\ lost \in Nat /\ uploaded \in Nat /\ late \in Nat
      /\ LengthOf(heap, L) \in Nat /\ Balance(L, D) \in Nat
  BY BalanceTerms
<1>7. Balance({}, L)' = Balance(L, D)
  <2> SUFFICES ASSUME NEW a, a = LengthOf(heap, L)
               PROVE  Calling' + lost' + uploaded' + 0 + 0 + a
                        = Calling + lost + uploaded + 0 + a + 0
    BY <1>2, <1>4 DEF Balance
  <2> QED BY <1>2, <1>5, <1>6
<1>8. late' = late /\ late' >= late /\ dpc' # "sleep" /\ L \cap {} = {}
  BY <1>2, <1>6
<1> QED BY <1>3, <1>5, <1>6, <1>7, <1>8, BalanceStep

\* One record passes into the total.
LEMMA CountedSum ==
  ASSUME Inv, NEW L, NEW D, Lists(L), Counted(L, D), Sum,
         NEW E, E = D \ {dcur}
  PROVE  Counted(L, E)'
<1>1. /\ TypeOK /\ L \in SUBSET Live /\ Parted(L) /\ Chained
      /\ dpc = "sum" /\ Ahead(D) /\ D \cap L = {} /\ D \in SUBSET Live /\ Sound = Live
  BY DEF Inv, Lists, Counted, Ahead, Sum, Sound
<1> DEFINE n == heap[dcur].next
<1>2. /\ UNCHANGED <<first, heap, tvars, freed, uploaded, lost>> /\ Live' = Live
      /\ total' = total + heap[dcur].length
      /\ n # Nil => dcur' = n
      /\ dpc' = IF n = Nil THEN "free" ELSE "sum"
  BY DEF Sum, Behind, Live
<1>3. /\ dcur \in D /\ Closed(E) /\ n \in E \cup {Nil}
  BY <1>1 DEF Ahead, Closed
<1>4. \A R \in SUBSET E : n \in R \cup {Nil} /\ Closed(R) => R = E
  <2> SUFFICES ASSUME NEW R \in SUBSET E, n \in R \cup {Nil}, Closed(R)
               PROVE  R = E
    OBVIOUS
  <2>1. R \cup {dcur} \in SUBSET D /\ Closed(R \cup {dcur})
    BY <1>3 DEF Closed
  <2>2. R \cup {dcur} = D
    BY <1>1, <2>1 DEF Ahead, Reached
  <2> QED BY <2>2
<1>5. \A m \in E : n # Nil => heap[m].next # n
  BY <1>1, <1>3 DEF Chained
<1>6. n = Nil => E = {}
  <2>1. {} \in SUBSET E /\ Closed({})
    BY DEF Closed
  <2> QED BY <1>4, <2>1
<1> DEFINE e == LengthOf(heap, E)
           a == LengthOf(heap, L)
           d == LengthOf(heap, D)
           l == heap[dcur].length
<1>7. /\ d = l + e /\ l \in Nat /\ e \in Nat /\ (E = {} => e = 0)
      /\ a \in Nat /\ Called \in Nat /\ Calling \in Nat /\ lost \in Nat /\ uploaded \in Nat
      /\ total \in Nat /\ late \in Nat /\ Balance(L, D) \in Nat
  <2>1. /\ a \in Nat /\ Called \in Nat /\ Calling \in Nat /\ lost \in Nat /\ uploaded \in Nat
        /\ total \in Nat /\ late \in Nat /\ Balance(L, D) \in Nat
    BY BalanceTerms
  <2>2. IsFiniteSet(D) /\ IsFiniteSet(E) /\ \A m \in D : heap[m].length \in Nat
    <3>1. E \in SUBSET Live
      BY <1>1
    <3> QED BY <1>1, <3>1, Finite
  <2>3. d = l + e
    BY <1>3, <2>2, LengthSplit
  <2>4. e \in Nat /\ (E = {} => e = 0)
    BY <2>2, LengthSplit
  <2> QED BY <1>3, <2>1, <2>2, <2>3, <2>4
<1>8. Called' = Called /\ Calling' = Calling
  BY <1>2 DEF Called, Calling, tvars
<1>9. /\ Balance(L, D) = Calling + lost + uploaded + total + a + d
      /\ Balance(L, E)' = Calling + lost + uploaded + (total + l) + a
                          + (IF dpc' = "sum" THEN e ELSE 0)
  BY <1>1, <1>2, <1>8 DEF Balance
<1>10. dpc' # "sum" => E = {}
  BY <1>2, <1>6
<1>11. Balance(L, E)' = Balance(L, D)
  <2> HIDE DEF e, a, l, d, n
  <2> QED BY <1>7, <1>9, <1>10
<1>12. dpc' = "sum" => Ahead(E)' /\ E \cap L = {}
  <2>1. \A R : Closed(R)' <=> Closed(R)
    BY <1>2 DEF Closed
  <2>2. dpc' = "sum" => n # Nil
    BY <1>2
  <2>3. E \in SUBSET Live /\ E \cap L = {}
    BY <1>1
  <2> QED BY <1>2, <1>3, <1>4, <1>5, <2>1, <2>2, <2>3 DEF Ahead, Reached
<1>13. dpc' # "sleep" /\ late' = late /\ late' >= late
  BY <1>2, <1>7 DEF tvars
<1> HIDE DEF e, a, l, d, n
<1> QED BY <1>7, <1>8, <1>11, <1>12, <1>13, BalanceStep

\* Records are freed after they were counted.
LEMMA CountedFree ==
  ASSUME Inv, NEW L, NEW D, Lists(L), Counted(L, D), free_thread_record_head \/ FreeFirst
  PROVE  Counted(L, D)'
<1>1. /\ dpc \in {"free", "last"} /\ UNCHANGED <<tvars, total, uploaded, lost>>
      /\ dpc' # "sum" /\ dpc' # "sleep" /\ dpc # "sum"
  BY DEF free_thread_record_head, FreeFirst
<1>2. TypeOK /\ L \in SUBSET Live
  BY DEF Inv, Lists
<1>3. LengthOf(heap', L) = LengthOf(heap, L)
  <2>1. \A n \in L : heap'[n] = heap[n]
    BY ListsFree
  <2> QED BY <1>2, <2>1, Finite, LengthSame
<1>4. Called' = Called /\ Calling' = Calling
  BY <1>1 DEF Called, Calling, tvars
<1>5. Balance(L, D)' = Balance(L, D)
  BY <1>1, <1>3, <1>4 DEF Balance
<1>6. Balance(L, D) \in Nat /\ Called \in Nat /\ late' = late /\ late' >= late /\ late' \in Nat
  BY <1>1, BalanceTerms DEF tvars
<1> QED BY <1>1, <1>4, <1>5, <1>6, BalanceStep

\* The total passes into shared memory.
LEMMA CountedUpload ==
  ASSUME Inv, NEW L, NEW D, Lists(L), Counted(L, D), Upload
  PROVE  Counted(L, D)'
<1>1. /\ dpc = "upload" /\ UNCHANGED <<heap, tvars, lost>> /\ dpc' = "sleep"
      /\ uploaded' = uploaded + total /\ total' = 0
  BY DEF Upload
<1>2. Called' = Called /\ Calling' = Calling
  BY <1>1 DEF Called, Calling, tvars
<1>3. /\ Called \in Nat /\ Calling \in Nat /\ lost \in Nat /\ uploaded \in Nat /\ total \in Nat
      /\ LengthOf(heap, L) \in Nat /\ late \in Nat /\ Balance(L, D) \in Nat
  BY BalanceTerms
<1>4. Balance(L, D)' = Balance(L, D)
  <2> SUFFICES ASSUME NEW a, a = LengthOf(heap, L)
               PROVE  Calling' + lost' + uploaded' + total' + a + 0
                        = Calling + lost + uploaded + total + a + 0
    BY <1>1 DEF Balance
  <2> QED BY <1>1, <1>2, <1>3
<1>5. late' = late /\ late' >= late
  BY <1>1, <1>3 DEF tvars
<1> QED BY <1>1, <1>2, <1>3, <1>4, <1>5, BalanceStep

\* A state's two lists and the sum of what was reported.
Accounts == \E L, D \in SUBSET Nodes : Lists(L) /\ Counted(L, D)

\* At first both lists and all counts are empty.
LEMMA InitAccounts == Init => Accounts
<1> SUFFICES ASSUME Init PROVE Lists({}) /\ Counted({}, {})
  BY DEF Accounts
<1>1. Live = {} /\ Inv
  BY InitInv DEF Init, Live
<1>2. Parted({}) /\ Reached({}, first) /\ Taken({})
  BY <1>1 DEF Parted, Closed, Reached, Taken, Sound, Init, InList
<1>3. Single({}) /\ Found({}) /\ Newcomers
  BY DEF Single, Found, Newcomers, Init
<1>4. Lists({})
  BY <1>2, <1>3 DEF Lists
<1>5. LengthOf(heap, {}) = 0
  BY LengthSplit, FS_EmptySet
<1>6. Calling = 0
  <2>1. {t \in Threads : pc[t] # "idle"} = {}
    BY DEF Init
  <2> QED BY <2>1, FS_EmptySet DEF Calling
<1>7. Called = 0
  <2>1. sent = [t \in Threads |-> 0]
    BY DEF Init
  <2>2. DOMAIN sent = Threads /\ \A t \in Threads : sent[t] = 0
    BY <2>1
  <2>3. SumFunctionOnSet(sent, Threads) = Cardinality(Pairs(sent, Threads))
    BY <2>2, LocalAssumption, SumIs
  <2>4. Pairs(sent, Threads) = {}
    BY <2>2 DEF Pairs
  <2> QED BY <2>2, <2>3, <2>4, FS_EmptySet DEF Called, SumFunction
<1>8. lost = 0 /\ uploaded = 0 /\ total = 0 /\ dpc = "sleep" /\ late = 0
  BY DEF Init
<1>9. Counted({}, {})
  BY <1>5, <1>6, <1>7, <1>8 DEF Counted, Balance
<1> QED BY <1>4, <1>9

\* Every step keeps the lists and the sum.
LEMMA StepAccounts ==
  ASSUME Inv, Accounts, [Next]_vars
  PROVE  Accounts'
<1>1. PICK L, D \in SUBSET Nodes : Lists(L) /\ Counted(L, D)
  BY DEF Accounts
<1>2. Inv'
  BY StepInv
<1>3. ASSUME NEW M, NEW E, Lists(M)', Counted(M, E)', E \in SUBSET Nodes
      PROVE  Accounts'
  <2>1. M \in SUBSET Nodes
    BY <1>2, <1>3 DEF Lists, Inv, TypeOK
  <2> QED BY <1>3, <2>1 DEF Accounts
<1>4. ASSUME UNCHANGED vars PROVE Accounts'
  <2>1. Lists(L)'
    BY <1>1, <1>4 DEF Lists, Parted, Closed, Reached, Taken, Sound, Single, Found, Newcomers,
                      Live, InList, vars, tvars, dvars
  <2>2. Counted(L, D)'
    BY <1>1, <1>4 DEF Counted, Balance, Ahead, Closed, Reached, Live, Called, Calling,
                      vars, tvars, dvars
  <2> QED BY <1>3, <2>1, <2>2
<1>5. ASSUME NEW t \in Threads, add_thread_record_node(t) \/ Search(t) \/ Add(t)
      PROVE  Accounts'
  BY <1>1, <1>2, <1>3, <1>5, ListsThread, CountedThread
<1>6. ASSUME NEW t \in Threads, New(t) PROVE Accounts'
  <2> SUFFICES ASSUME NEW K, K = L \cup (Live' \ Live) PROVE Accounts'
    OBVIOUS
  <2> QED BY <1>1, <1>3, <1>6, ListsNew, CountedNew
<1>7. CASE upload_bandwidth
  BY <1>1, <1>3, <1>7, ListsDetach, CountedDetach
<1>8. CASE Sum
  <2> SUFFICES ASSUME NEW E, E = D \ {dcur} PROVE Accounts'
    OBVIOUS
  <2>1. Lists(L)' /\ Counted(L, E)' /\ E \in SUBSET Nodes
    BY <1>1, <1>8, ListsSum, CountedSum
  <2> QED BY <1>3, <2>1
<1>9. CASE free_thread_record_head \/ FreeFirst
  BY <1>1, <1>3, <1>9, ListsFree, CountedFree
<1>10. CASE Upload
  BY <1>1, <1>3, <1>10, ListsSum, CountedUpload
<1> QED BY <1>4, <1>5, <1>6, <1>7, <1>8, <1>9, <1>10 DEF Next, Thread, Daemon

LEMMA AccountsHold == Spec => [](Inv /\ Accounts)
<1>1. Init => Inv /\ Accounts
  BY InitInv, InitAccounts
<1>2. Inv /\ Accounts /\ [Next]_vars => (Inv /\ Accounts)'
  BY StepInv, StepAccounts
<1> QED BY <1>1, <1>2, PTL DEF Spec

\* What the properties call a list is what Lists calls one.
LEMMA ListsFrom ==
  ASSUME Inv, NEW L, Lists(L)
  PROVE  From(first) = L /\ Detached = Live \ L /\ From(first) \cap Live = L
<1>1. /\ L \in SUBSET Live /\ Live \ L \in SUBSET Live /\ Live \subseteq Nodes
      /\ Closed(L) /\ Closed(Sound \ L) /\ Sound \ L \in SUBSET Live
      /\ first \in L \cup {Nil} /\ freed \in (Live \ L) \cup {Nil}
      /\ Reached(L, first) /\ Taken(L)
      /\ dpc \in {"sleep", "sum", "free", "last", "upload"}
  BY DEF Lists, Parted, Inv, TypeOK, Sound
<1>2. From(first) = L
  BY <1>1, FromIs
<1>3. Detached = Live \ L
  <2>1. CASE dpc = "sum"
    <3>1. Closed(Live \ L) /\ Reached(Live \ L, freed)
      BY <1>1, <2>1 DEF Sound, Taken
    <3> QED BY <1>1, <2>1, <3>1, FromIs DEF Detached
  <2>2. CASE dpc = "free"
    <3>1. dcur \in (Sound \ L) \cup {Nil} /\ freed \in Live \ L /\ Sound = Live \ {freed}
      BY <2>2 DEF Lists, Parted, Sound
    <3>2. From(dcur) = Sound \ L
      BY <1>1, <2>2, <3>1, FromIs DEF Taken
    <3> QED BY <2>2, <3>1, <3>2 DEF Detached
  <2>3. CASE dpc = "last"
    <3>1. freed \in Live \ L /\ Sound = Live \ {freed} /\ heap[freed].next = Nil /\ Sound \ L = {}
      BY <1>1, <2>3 DEF Lists, Parted, Sound, Taken
    <3>2. Live \ L = {freed} /\ Closed({freed}) /\ Nil \notin Live
      BY <1>1, <3>1, LocalAssumption DEF Closed
    <3>3. Reached({freed}, freed)
      BY <3>1, <3>2 DEF Reached
    <3>4. From(freed) = {freed}
      BY <1>1, <3>2, <3>3, FromIs
    <3> QED BY <2>3, <3>2, <3>4 DEF Detached
  <2>4. CASE dpc \in {"sleep", "upload"}
    <3>1. freed = Nil /\ Live \ L = {}
      BY <1>1, <2>4 DEF Taken
    <3>2. Closed({}) /\ Reached({}, Nil) /\ {} \in SUBSET Live
      BY DEF Closed, Reached
    <3>3. From(Nil) = {}
      BY <1>1, <3>2, FromIs
    <3> QED BY <2>4, <3>1, <3>3 DEF Detached
  <2> QED BY <1>1, <2>1, <2>2, <2>3, <2>4
<1> QED BY <1>1, <1>2, <1>3

\* A thread in the list stands on one of its records, and the daemon's detached
\* records are its own, whenever the daemon detaches the list: of all threads
\* only those that it overtook can reach what it frees, or touch freed memory.
THEOREM ReachableLiveCorrect == Spec => []ReachableLive
<1>1. Inv /\ Accounts => ReachableLive
  <2> SUFFICES ASSUME Inv, NEW L, Lists(L) PROVE ReachableLive
    BY DEF Accounts
  <2>1. From(first) = L /\ Detached = Live \ L /\ L \in SUBSET Live
    BY ListsFrom DEF Lists
  <2>2. \A t \in Threads \ overtaken : pc[t] # Garbage /\ (InList(t) => cur[t] \in L)
    BY DEF Lists, Parted, Inv, Careful
  <2> QED BY <2>1, <2>2 DEF ReachableLive
<1> QED BY <1>1, AccountsHold, PTL

\* No thread has two records in the list, also when it was overtaken: one that
\* looks for its record, without the spinlock, finds it if it has one.
THEOREM OneRecordCorrect == Spec => []OneRecord
<1>1. Inv /\ Accounts => OneRecord
  <2> SUFFICES ASSUME Inv, NEW L, Lists(L) PROVE OneRecord
    BY DEF Accounts
  <2>1. From(first) = L /\ Single(L)
    BY ListsFrom DEF Lists
  <2> QED BY <2>1 DEF OneRecord, Single
<1> QED BY <1>1, AccountsHold, PTL

\* Every length reported is in the list, in the daemon's hands, uploaded or
\* refused by malloc, and counted once, but for the lengths added to a record
\* that was detached under its thread: at most these are missing.
THEOREM UsageAccountedCorrect == Spec => []UsageAccounted
<1>1. Inv /\ Accounts => UsageAccounted
  <2> SUFFICES ASSUME Inv, NEW L, NEW D, Lists(L), Counted(L, D) PROVE UsageAccounted
    BY DEF Accounts
  <2>1. From(first) \cap Live = L
    BY ListsFrom
  <2>2. ASSUME dpc = "sum" PROVE From(dcur) \cap Live = D
    <3>1. D \in SUBSET Live /\ Closed(D) /\ dcur \in D /\ Reached(D, dcur) /\ Live \subseteq Nodes
      BY <2>2 DEF Counted, Ahead, Inv, TypeOK
    <3>2. From(dcur) = D
      BY <3>1, FromIs
    <3> QED BY <3>1, <3>2
  <2>3. \A S : Length(S) = LengthOf(heap, S)
    BY DEF Length, LengthOf
  <2>4. Accounted = Balance(L, D)
    <3>1. CASE dpc = "sum"
      BY <2>1, <2>2, <2>3, <3>1 DEF Accounted, Balance
    <3>2. CASE dpc # "sum"
      BY <2>1, <2>3, <3>2 DEF Accounted, Balance
    <3> QED BY <3>1, <3>2
  <2> QED BY <2>4 DEF UsageAccounted, Counted
<1> QED BY <1>1, AccountsHold, PTL
=============================================================================
