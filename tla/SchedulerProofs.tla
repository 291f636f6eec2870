-------------------------- MODULE SchedulerProofs --------------------------
(***************************************************************************)
(* What the tables of the configuration hold of a directory, and what the  *)
(* operations of the scheduler do to the contexts that have a unit and to  *)
(* the units that are left.                                                *)
(***************************************************************************)
EXTENDS Scheduler, FiniteSetTheorems, TLAPS

-----------------------------------------------------------------------------
(* Sets of positions *)

\* Every nonempty set of naturals has a least element.
LEMMA LeastNatural ==
  ASSUME NEW T \in SUBSET Nat, T # {}
  PROVE  \E m \in T : \A k \in T : m <= k
<1>1. PICK n \in T : TRUE
  OBVIOUS
<1> DEFINE R == StrictSubsetOrdering(0 .. n)
           F == {U \in SUBSET (0 .. n) : \E m \in T : U = 0 .. m}
<1>2. IsWellFoundedOn(R, FiniteSubsetsOf(0 .. n))
  BY FS_StrictSubsetOrderingWellFounded
<1>3. F \subseteq FiniteSubsetsOf(0 .. n) /\ F # {}
  <2>1. IsFiniteSet(0 .. n)
    BY FS_Interval
  <2>2. \A U \in SUBSET (0 .. n) : IsFiniteSet(U)
    BY <2>1, FS_Subset
  <2>3. 0 .. n \in F
    OBVIOUS
  <2> QED BY <2>2, <2>3 DEF FiniteSubsetsOf
<1>4. PICK U \in F : \A V \in F : ~ (<<V, U>> \in R)
  <2> HIDE DEF R, F
  <2> QED BY <1>2, <1>3, WFMin
<1>5. PICK m \in T : U = 0 .. m /\ U \subseteq 0 .. n
  OBVIOUS
<1>6. ASSUME NEW k \in T, k < m PROVE FALSE
  <2>1. 0 .. k \in F /\ 0 .. k \subseteq U /\ 0 .. k # U
    BY <1>5, <1>6
  <2> QED BY <1>4, <2>1 DEF StrictSubsetOrdering
<1> QED BY <1>5, <1>6

\* The last of a set of positions.
LEMMA LastPosition ==
  ASSUME NEW N \in Nat, NEW s \in SUBSET (1 .. N), s # {}
  PROVE  Max(s) \in s /\ \A i \in s : i <= Max(s)
<1> DEFINE T == {N - i : i \in s}
<1>1. T \in SUBSET Nat /\ T # {}
  OBVIOUS
<1>2. PICK m \in T : \A k \in T : m <= k
  <2> HIDE DEF T
  <2> QED BY <1>1, LeastNatural
<1>3. PICK x \in s : m = N - x
  OBVIOUS
<1>4. \A i \in s : x >= i
  <2> SUFFICES ASSUME NEW i \in s PROVE x >= i
    OBVIOUS
  <2>1. N - i \in T
    OBVIOUS
  <2>2. N - x <= N - i
    BY <1>2, <1>3, <2>1
  <2> QED BY <2>2
<1>5. Max(s) \in s /\ \A i \in s : Max(s) >= i
  BY <1>4 DEF Max
<1> QED BY <1>5

\* The fold of the community modules takes the last line away first.
LEMMA ParsedUnfold ==
  ASSUME NEW lines
  PROVE  LET P(g) == g = [s \in SUBSET DOMAIN lines |->
                            IF s = {} THEN <<>>
                            ELSE Parsed(g[s \ {Max(s)}], lines[Max(s)])]
         IN FoldLeft(Parsed, <<>>, lines) = (CHOOSE g : P(g))[DOMAIN lines]
BY DEF FoldLeft, MapThenFoldSet

\* The tables after each line.
LEMMA ParsedPrefixes ==
  ASSUME NEW N \in Nat, NEW lines, DOMAIN lines = 1 .. N
  PROVE  \E p : /\ p[0] = <<>>
                /\ \A n \in 1 .. N : p[n] = Parsed(p[n - 1], lines[n])
                /\ FoldLeft(Parsed, <<>>, lines) = p[N]
<1> DEFINE V(g, s) == IF s = {} THEN <<>> ELSE Parsed(g[s \ {Max(s)}], lines[Max(s)])
           Q(g, k) == \A s \in SUBSET (1 .. k) : g[s] = V(g, s)
<1>1. \A k \in 0 .. N : \E g : Q(g, k)
  <2> DEFINE T == {k \in 0 .. N : ~ \E g : Q(g, k)}
  <2> SUFFICES ASSUME T # {} PROVE FALSE
    OBVIOUS
  <2>1. PICK n \in T : \A k \in T : n <= k
    <3>1. T \in SUBSET Nat
      OBVIOUS
    <3> HIDE DEF T
    <3> QED BY <3>1, LeastNatural
  <2>2. n \in 0 .. N /\ ~ \E g : Q(g, n)
    OBVIOUS
  <2>3. n # 0
    <3> SUFFICES ASSUME n = 0 PROVE FALSE
      OBVIOUS
    <3> DEFINE h == [s \in SUBSET (1 .. 0) |-> <<>>]
    <3>1. \A s \in SUBSET (1 .. 0) : s = {} /\ h[s] = <<>>
      OBVIOUS
    <3>2. Q(h, 0)
      <4> HIDE DEF h
      <4> QED BY <3>1
    <3> QED BY <2>2, <3>2
  <2>4. PICK g : Q(g, n - 1)
    <3>1. n \in Nat /\ n - 1 \in 0 .. N
      BY <2>2, <2>3
    <3>2. n - 1 \notin T
      <4> HIDE DEF T
      <4> QED BY <2>1, <3>1
    <3> HIDE DEF Q
    <3> QED BY <3>1, <3>2
  <2> DEFINE h == [s \in SUBSET (1 .. n) |-> V(g, s)]
  <2>5. ASSUME NEW s \in SUBSET (1 .. n) PROVE h[s] = V(h, s)
    <3>1. h[s] = V(g, s)
      OBVIOUS
    <3>2. CASE s = {}
      BY <3>1, <3>2
    <3>3. CASE s # {}
      <4> DEFINE r == s \ {Max(s)}
      <4>a. n \in Nat
        BY <2>2
      <4>1. Max(s) \in s /\ \A i \in s : i <= Max(s)
        <5> HIDE DEF V, Q, h
        <5> QED BY <3>3, <4>a, LastPosition
      <4>2. r \in SUBSET (1 .. n - 1) /\ r \in SUBSET (1 .. n)
        <5> DEFINE m == Max(s)
        <5>1. m \in s /\ \A i \in s : i <= m
          BY <4>1
        <5> HIDE DEF m
        <5>2. s \ {m} \in SUBSET (1 .. n - 1) /\ s \ {m} \in SUBSET (1 .. n)
          BY <4>a, <5>1
        <5> QED BY <5>2 DEF m
      <4>3. g[r] = V(g, r)
        <5> HIDE DEF r, V
        <5> QED BY <2>4, <4>2
      <4>4. h[r] = V(g, r)
        <5> HIDE DEF r, V
        <5> QED BY <4>2
      <4>5. g[r] = h[r]
        BY <4>3, <4>4
      <4> HIDE DEF h
      <4> QED BY <3>1, <3>3, <4>5
    <3> QED BY <3>2, <3>3
  <2>6. Q(h, n)
    <3> HIDE DEF h, V
    <3> QED BY <2>5
  <2> HIDE DEF Q
  <2> QED BY <2>2, <2>6
<1> DEFINE D == DOMAIN lines
           F(g) == [s \in SUBSET D |-> V(g, s)]
           iter == CHOOSE g : g = F(g)
<1>2. FoldLeft(Parsed, <<>>, lines) = iter[D]
  BY ParsedUnfold
<1>3. iter = F(iter)
  <2>1. PICK g : Q(g, N)
    <3>1. N \in 0 .. N
      OBVIOUS
    <3> HIDE DEF Q
    <3> QED BY <1>1, <3>1
  <2> DEFINE h == [s \in SUBSET D |-> g[s]]
  <2>2. ASSUME NEW s \in SUBSET D PROVE h[s] = V(h, s)
    <3>1. h[s] = V(g, s)
      <4> HIDE DEF V
      <4> QED BY <2>1
    <3>2. h[s \ {Max(s)}] = g[s \ {Max(s)}]
      <4>1. s \ {Max(s)} \in SUBSET D
        OBVIOUS
      <4> QED BY <4>1
    <3> HIDE DEF h
    <3> QED BY <3>1, <3>2
  <2>3. h = [s \in SUBSET D |-> h[s]]
    OBVIOUS
  <2>4. h = F(h)
    <3> HIDE DEF h, V, D
    <3> QED BY <2>2, <2>3
  <2> HIDE DEF F, h
  <2> QED BY <2>4
<1> HIDE DEF iter
<1>4. \A s \in SUBSET D : iter[s] = V(iter, s)
  <2>1. \A s \in SUBSET D : F(iter)[s] = V(iter, s)
    <3> HIDE DEF V
    <3> QED OBVIOUS
  <2> HIDE DEF F
  <2> QED BY <1>3, <2>1
<1> HIDE DEF F
<1> DEFINE p == [n \in 0 .. N |-> iter[1 .. n]]
<1>5. p[0] = <<>>
  <2>1. 1 .. 0 = {} /\ {} \in SUBSET D /\ 0 \in 0 .. N
    OBVIOUS
  <2>2. iter[{}] = <<>>
    BY <1>4, <2>1
  <2> QED BY <2>1, <2>2
<1>6. ASSUME NEW n \in 1 .. N PROVE p[n] = Parsed(p[n - 1], lines[n])
  <2>1. 1 .. n \in SUBSET D /\ 1 .. n # {} /\ n \in 0 .. N /\ n - 1 \in 0 .. N /\ n \in Nat
    <3>1. n \in Nat /\ n \in 1 .. n /\ n \in 0 .. N /\ n - 1 \in 0 .. N
      OBVIOUS
    <3>2. 1 .. n \subseteq 1 .. N
      BY <3>1
    <3> QED BY <3>1, <3>2
  <2>2. Max(1 .. n) = n
    <3>1. Max(1 .. n) \in 1 .. n /\ \A i \in 1 .. n : i <= Max(1 .. n)
      BY <2>1, LastPosition
    <3> QED BY <3>1
  <2>3. (1 .. n) \ {n} = 1 .. n - 1
    OBVIOUS
  <2>4. iter[1 .. n] = Parsed(iter[1 .. n - 1], lines[n])
    BY <1>4, <2>1, <2>2, <2>3
  <2> QED BY <2>1, <2>4
<1>7. FoldLeft(Parsed, <<>>, lines) = p[N]
  BY <1>2
<1> HIDE DEF p
<1> QED BY <1>5, <1>6, <1>7

\* The same fold over the entries of a directory.
LEMMA ReadUnfold ==
  ASSUME NEW directory
  PROVE  LET P(g) == g = [s \in SUBSET DOMAIN directory |->
                            IF s = {} THEN <<>>
                            ELSE Read(g[s \ {Max(s)}], directory[Max(s)])]
         IN FoldLeft(Read, <<>>, directory) = (CHOOSE g : P(g))[DOMAIN directory]
BY DEF FoldLeft, MapThenFoldSet

\* The files after each entry.
LEMMA ReadPrefixes ==
  ASSUME NEW N \in Nat, NEW directory, DOMAIN directory = 1 .. N
  PROVE  \E p : /\ p[0] = <<>>
                /\ \A n \in 1 .. N : p[n] = Read(p[n - 1], directory[n])
                /\ FoldLeft(Read, <<>>, directory) = p[N]
<1> DEFINE V(g, s) == IF s = {} THEN <<>> ELSE Read(g[s \ {Max(s)}], directory[Max(s)])
           Q(g, k) == \A s \in SUBSET (1 .. k) : g[s] = V(g, s)
<1>1. \A k \in 0 .. N : \E g : Q(g, k)
  <2> DEFINE T == {k \in 0 .. N : ~ \E g : Q(g, k)}
  <2> SUFFICES ASSUME T # {} PROVE FALSE
    OBVIOUS
  <2>1. PICK n \in T : \A k \in T : n <= k
    <3>1. T \in SUBSET Nat
      OBVIOUS
    <3> HIDE DEF T
    <3> QED BY <3>1, LeastNatural
  <2>2. n \in 0 .. N /\ ~ \E g : Q(g, n)
    OBVIOUS
  <2>3. n # 0
    <3> SUFFICES ASSUME n = 0 PROVE FALSE
      OBVIOUS
    <3> DEFINE h == [s \in SUBSET (1 .. 0) |-> <<>>]
    <3>1. \A s \in SUBSET (1 .. 0) : s = {} /\ h[s] = <<>>
      OBVIOUS
    <3>2. Q(h, 0)
      <4> HIDE DEF h
      <4> QED BY <3>1
    <3> QED BY <2>2, <3>2
  <2>4. PICK g : Q(g, n - 1)
    <3>1. n \in Nat /\ n - 1 \in 0 .. N
      BY <2>2, <2>3
    <3>2. n - 1 \notin T
      <4> HIDE DEF T
      <4> QED BY <2>1, <3>1
    <3> HIDE DEF Q
    <3> QED BY <3>1, <3>2
  <2> DEFINE h == [s \in SUBSET (1 .. n) |-> V(g, s)]
  <2>5. ASSUME NEW s \in SUBSET (1 .. n) PROVE h[s] = V(h, s)
    <3>1. h[s] = V(g, s)
      OBVIOUS
    <3>2. CASE s = {}
      BY <3>1, <3>2
    <3>3. CASE s # {}
      <4> DEFINE r == s \ {Max(s)}
      <4>a. n \in Nat
        BY <2>2
      <4>1. Max(s) \in s /\ \A i \in s : i <= Max(s)
        <5> HIDE DEF V, Q, h
        <5> QED BY <3>3, <4>a, LastPosition
      <4>2. r \in SUBSET (1 .. n - 1) /\ r \in SUBSET (1 .. n)
        <5> DEFINE m == Max(s)
        <5>1. m \in s /\ \A i \in s : i <= m
          BY <4>1
        <5> HIDE DEF m
        <5>2. s \ {m} \in SUBSET (1 .. n - 1) /\ s \ {m} \in SUBSET (1 .. n)
          BY <4>a, <5>1
        <5> QED BY <5>2 DEF m
      <4>3. g[r] = V(g, r)
        <5> HIDE DEF r, V
        <5> QED BY <2>4, <4>2
      <4>4. h[r] = V(g, r)
        <5> HIDE DEF r, V
        <5> QED BY <4>2
      <4>5. g[r] = h[r]
        BY <4>3, <4>4
      <4> HIDE DEF h
      <4> QED BY <3>1, <3>3, <4>5
    <3> QED BY <3>2, <3>3
  <2>6. Q(h, n)
    <3> HIDE DEF h, V
    <3> QED BY <2>5
  <2> HIDE DEF Q
  <2> QED BY <2>2, <2>6
<1> DEFINE D == DOMAIN directory
           F(g) == [s \in SUBSET D |-> V(g, s)]
           iter == CHOOSE g : g = F(g)
<1>2. FoldLeft(Read, <<>>, directory) = iter[D]
  BY ReadUnfold
<1>3. iter = F(iter)
  <2>1. PICK g : Q(g, N)
    <3>1. N \in 0 .. N
      OBVIOUS
    <3> HIDE DEF Q
    <3> QED BY <1>1, <3>1
  <2> DEFINE h == [s \in SUBSET D |-> g[s]]
  <2>2. ASSUME NEW s \in SUBSET D PROVE h[s] = V(h, s)
    <3>1. h[s] = V(g, s)
      <4> HIDE DEF V
      <4> QED BY <2>1
    <3>2. h[s \ {Max(s)}] = g[s \ {Max(s)}]
      <4>1. s \ {Max(s)} \in SUBSET D
        OBVIOUS
      <4> QED BY <4>1
    <3> HIDE DEF h
    <3> QED BY <3>1, <3>2
  <2>3. h = [s \in SUBSET D |-> h[s]]
    OBVIOUS
  <2>4. h = F(h)
    <3> HIDE DEF h, V, D
    <3> QED BY <2>2, <2>3
  <2> HIDE DEF F, h
  <2> QED BY <2>4
<1> HIDE DEF iter
<1>4. \A s \in SUBSET D : iter[s] = V(iter, s)
  <2>1. \A s \in SUBSET D : F(iter)[s] = V(iter, s)
    <3> HIDE DEF V
    <3> QED OBVIOUS
  <2> HIDE DEF F
  <2> QED BY <1>3, <2>1
<1> HIDE DEF F
<1> DEFINE p == [n \in 0 .. N |-> iter[1 .. n]]
<1>5. p[0] = <<>>
  <2>1. 1 .. 0 = {} /\ {} \in SUBSET D /\ 0 \in 0 .. N
    OBVIOUS
  <2>2. iter[{}] = <<>>
    BY <1>4, <2>1
  <2> QED BY <2>1, <2>2
<1>6. ASSUME NEW n \in 1 .. N PROVE p[n] = Read(p[n - 1], directory[n])
  <2>1. 1 .. n \in SUBSET D /\ 1 .. n # {} /\ n \in 0 .. N /\ n - 1 \in 0 .. N /\ n \in Nat
    <3>1. n \in Nat /\ n \in 1 .. n /\ n \in 0 .. N /\ n - 1 \in 0 .. N
      OBVIOUS
    <3>2. 1 .. n \subseteq 1 .. N
      BY <3>1
    <3> QED BY <3>1, <3>2
  <2>2. Max(1 .. n) = n
    <3>1. Max(1 .. n) \in 1 .. n /\ \A i \in 1 .. n : i <= Max(1 .. n)
      BY <2>1, LastPosition
    <3> QED BY <3>1
  <2>3. (1 .. n) \ {n} = 1 .. n - 1
    OBVIOUS
  <2>4. iter[1 .. n] = Read(iter[1 .. n - 1], directory[n])
    BY <1>4, <2>1, <2>2, <2>3
  <2> QED BY <2>1, <2>4
<1>7. FoldLeft(Read, <<>>, directory) = p[N]
  BY <1>2
<1> HIDE DEF p
<1> QED BY <1>5, <1>6, <1>7

-----------------------------------------------------------------------------
(* Increasing enumerations of positions *)

\* e lists the members of T in increasing order.
Enum(e, T) ==
  /\ e \in Seq(Nat)
  /\ \A i \in 1 .. Len(e) : e[i] \in T
  /\ \A t \in T : \E i \in 1 .. Len(e) : e[i] = t
  /\ \A i, j \in 1 .. Len(e) : i < j => e[i] < e[j]

\* A number larger than those listed is listed after them.
LEMMA EnumAppend ==
  ASSUME NEW T, NEW e, Enum(e, T), NEW n \in Nat, \A t \in T : t < n
  PROVE  /\ Enum(Append(e, n), T \cup {n})
         /\ Len(Append(e, n)) = Len(e) + 1
         /\ \A i \in 1 .. Len(e) : Append(e, n)[i] = e[i]
         /\ Append(e, n)[Len(e) + 1] = n
<1> DEFINE d == Append(e, n)
           m == Len(e)
<1>1. e \in Seq(Nat) /\ m \in Nat
  BY DEF Enum
<1>2. /\ d \in Seq(Nat) /\ Len(d) = m + 1
      /\ \A i \in 1 .. m : d[i] = e[i]
      /\ d[m + 1] = n
  BY <1>1
<1>3. /\ \A i \in 1 .. m : e[i] \in T
      /\ \A t \in T : \E i \in 1 .. m : e[i] = t
      /\ \A i, j \in 1 .. m : i < j => e[i] < e[j]
  BY DEF Enum
<1>4. \A i \in 1 .. m + 1 : i \in 1 .. m \/ i = m + 1
  BY <1>1
<1>5. \A i \in 1 .. m : i \in 1 .. m + 1
  BY <1>1
<1>6. m + 1 \in 1 .. m + 1
  BY <1>1
<1> HIDE DEF d, m
<1>7. \A i \in 1 .. m + 1 : d[i] \in T \cup {n}
  BY <1>2, <1>3, <1>4
<1>8. \A t \in T \cup {n} : \E i \in 1 .. m + 1 : d[i] = t
  <2> SUFFICES ASSUME NEW t \in T \cup {n} PROVE \E i \in 1 .. m + 1 : d[i] = t
    OBVIOUS
  <2>1. CASE t = n
    BY <1>2, <1>6, <2>1
  <2>2. CASE t \in T
    BY <1>2, <1>3, <1>5, <2>2
  <2> QED BY <2>1, <2>2
<1>9. ASSUME NEW i \in 1 .. m + 1, NEW j \in 1 .. m + 1, i < j PROVE d[i] < d[j]
  <2>1. i \in 1 .. m
    BY <1>1, <1>9
  <2>2. CASE j \in 1 .. m
    BY <1>2, <1>3, <1>9, <2>1, <2>2
  <2>3. CASE j = m + 1
    <3>1. d[i] = e[i] /\ d[j] = n /\ e[i] \in T
      BY <1>2, <1>3, <2>1, <2>3
    <3> QED BY <3>1
  <2> QED BY <1>4, <2>2, <2>3
<1>10. Enum(d, T \cup {n})
  BY <1>2, <1>7, <1>8, <1>9 DEF Enum
<1> QED BY <1>2, <1>10 DEF d, m

\* Nothing lists nothing.
LEMMA EnumEmpty == Enum(<<>>, {})
BY DEF Enum

\* An enumeration is as long as its set is large.
LEMMA EnumLength ==
  ASSUME NEW T, NEW e, Enum(e, T)
  PROVE  IsFiniteSet(T) /\ Cardinality(T) = Len(e) /\ Len(e) \in Nat /\ e \in Seq(Nat)
<1> DEFINE m == Len(e)
           f == [i \in 1 .. m |-> e[i]]
<1>1. m \in Nat /\ e \in Seq(Nat) /\ \A i \in 1 .. m : e[i] \in Nat
  BY DEF Enum
<1>2. /\ \A i \in 1 .. m : e[i] \in T
      /\ \A t \in T : \E i \in 1 .. m : e[i] = t
      /\ \A i, j \in 1 .. m : i < j => e[i] < e[j]
  BY DEF Enum
<1>3. \A i \in 1 .. m : f[i] = e[i]
  OBVIOUS
<1>4. f \in [1 .. m -> T]
  BY <1>2
<1> HIDE DEF m, f
<1>5. \A i, j \in 1 .. m : f[i] = f[j] => i = j
  <2> SUFFICES ASSUME NEW i \in 1 .. m, NEW j \in 1 .. m, f[i] = f[j], i # j PROVE FALSE
    OBVIOUS
  <2>1. i < j \/ j < i
    BY <1>1
  <2>2. f[i] = e[i] /\ f[j] = e[j] /\ e[i] \in Nat /\ e[j] \in Nat
    BY <1>1, <1>3
  <2>3. e[i] < e[j] \/ e[j] < e[i]
    BY <1>2, <2>1
  <2>4. e[i] = e[j]
    BY <2>2
  <2> QED BY <2>2, <2>3, <2>4
<1>6. f \in Bijection(1 .. m, T)
  BY <1>2, <1>3, <1>4, <1>5 DEF Bijection, Injection, Surjection, IsInjective
<1>7. ExistsBijection(1 .. m, T)
  BY <1>6 DEF ExistsBijection
<1>8. IsFiniteSet(T) /\ Cardinality(T) = m
  BY <1>1, <1>7, FS_CountingElements, FS_NatBijection
<1> QED BY <1>1, <1>8 DEF m

\* Of the members of e, those at M are the ones in U.
Selects(e, M, U) ==
  /\ \A i \in M : i \in 1 .. Len(e) /\ e[i] \in U
  /\ \A u \in U : \E i \in M : e[i] = u

\* The first match of a search among an enumeration's members.
LEMMA EnumFirst ==
  ASSUME NEW T, NEW e, Enum(e, T), NEW M, NEW U, Selects(e, M, U)
  PROVE  /\ Find(M) # 0 <=> U # {}
         /\ Find(M) # 0 => Find(M) \in M /\ e[Find(M)] = Least(U)
<1>1. /\ Len(e) \in Nat /\ \A i \in 1 .. Len(e) : e[i] \in Nat
      /\ \A i, j \in 1 .. Len(e) : i < j => e[i] < e[j]
      /\ \A i \in M : i \in 1 .. Len(e) /\ e[i] \in U
      /\ \A u \in U : \E i \in M : e[i] = u
  BY DEF Enum, Selects
<1>2. CASE M = {}
  BY <1>1, <1>2 DEF Find
<1>3. CASE M # {}
  <2>1. M \in SUBSET Nat
    BY <1>1
  <2>2. PICK x \in M : \A y \in M : x <= y
    BY <1>3, <2>1, LeastNatural
  <2>3. Min(M) \in M /\ \A y \in M : Min(M) <= y
    BY <2>2 DEF Min
  <2> DEFINE k == Min(M)
  <2>4. Find(M) = k /\ k # 0
    BY <1>1, <1>3, <2>3 DEF Find
  <2>5. k \in 1 .. Len(e) /\ k \in M /\ \A y \in M : k <= y
    BY <1>1, <2>3
  <2> HIDE DEF k
  <2>6. e[k] \in U /\ \A u \in U : e[k] <= u
    <3>0. e[k] \in U
      BY <1>1, <2>5
    <3> SUFFICES ASSUME NEW u \in U PROVE e[k] <= u
      BY <3>0
    <3>y. PICK y \in M : e[y] = u
      BY <1>1
    <3>1. k <= y /\ y \in 1 .. Len(e) /\ e[k] \in Nat /\ e[y] \in Nat
      BY <1>1, <2>5
    <3>2. k < y \/ k = y
      BY <1>1, <2>5, <3>1
    <3>3. e[k] <= e[y]
      BY <1>1, <2>5, <3>1, <3>2
    <3> QED BY <3>y, <3>3
  <2>7. U \in SUBSET Nat
    <3> SUFFICES ASSUME NEW u \in U PROVE u \in Nat
      OBVIOUS
    <3>1. PICK y \in M : e[y] = u
      BY <1>1
    <3> QED BY <1>1, <3>1
  <2>8. Least(U) = e[k]
    <3>1. Least(U) \in U /\ \A j \in U : Least(U) <= j
      BY <2>6 DEF Least
    <3>2. Least(U) \in Nat /\ e[k] \in Nat /\ Least(U) <= e[k] /\ e[k] <= Least(U)
      BY <2>6, <2>7, <3>1
    <3> QED BY <3>2
  <2> QED BY <2>4, <2>5, <2>6, <2>8
<1> QED BY <1>2, <1>3

\* A sequence given by its members, and one with a member more.
LEMMA Sequence ==
  ASSUME NEW m \in Nat, NEW S, DOMAIN S = 1 .. m, S = [i \in 1 .. m |-> S[i]]
  PROVE  /\ S \in Seq({S[i] : i \in 1 .. m}) /\ Len(S) = m
         /\ \A x : Append(S, x) = [i \in 1 .. m + 1 |-> IF i = m + 1 THEN x ELSE S[i]]
<1> DEFINE X == {S[i] : i \in 1 .. m}
<1>1. S \in [1 .. m -> X]
  OBVIOUS
<1>2. S \in Seq(X) /\ Len(S) = m
  <2> HIDE DEF X
  <2> QED BY <1>1
<1>3. ASSUME NEW x
      PROVE  Append(S, x) = [i \in 1 .. m + 1 |-> IF i = m + 1 THEN x ELSE S[i]]
  <2> DEFINE Y == X \cup {x}
             A == Append(S, x)
  <2>1. S \in Seq(Y) /\ x \in Y
    <3>1. S \in [1 .. m -> Y] /\ x \in Y
      BY <1>1
    <3> HIDE DEF Y
    <3> QED BY <3>1
  <2>2. /\ A \in Seq(Y) /\ Len(A) = m + 1
        /\ \A i \in 1 .. m : A[i] = S[i]
        /\ A[m + 1] = x
    <3> HIDE DEF Y, X
    <3> QED BY <1>2, <2>1
  <2>3. A = [i \in 1 .. m + 1 |-> A[i]]
    <3> HIDE DEF A, Y
    <3> QED BY <2>2
  <2>4. \A i \in 1 .. m + 1 : A[i] = IF i = m + 1 THEN x ELSE S[i]
    <3>1. \A i \in 1 .. m + 1 : i # m + 1 => i \in 1 .. m
      OBVIOUS
    <3> HIDE DEF A
    <3> QED BY <2>2, <3>1
  <2> HIDE DEF A
  <2> QED BY <2>3, <2>4 DEF A
<1> QED BY <1>2, <1>3

-----------------------------------------------------------------------------
(* What the tables hold after n lines *)

\* The positions of S up to n.
Upto(S, n) == {j \in S : j <= n}

\* The slots of the pairs at the lines of e, and of a section at line h.
Slots(lines, e) ==
  [k \in 1 .. Len(e) |-> [key |-> lines[e[k]].key, value |-> lines[e[k]].value]]
Slot(lines, h, e) == [section |-> lines[h].name, keys |-> Slots(lines, e)]

\* The tables after n lines: hs lists the headers, and each ks[i] the pairs under
\* the i-th, and the slots hold them in this order.
Laid(lines, n, hs, ks, tables) ==
  /\ Enum(hs, Upto(Headers(lines), n))
  /\ \A i \in 1 .. Len(hs) : Enum(ks[i], Upto(Under(lines, hs[i]), n))
  /\ tables = [i \in 1 .. Len(hs) |-> Slot(lines, hs[i], ks[i])]

\* The tables of a file can hold it.
Fits(lines) ==
  /\ Cardinality(Headers(lines)) <= MAX_SECTIONS
  /\ \A h \in Headers(lines) : Cardinality(Under(lines, h)) <= MAX_KEYS

\* A section of n lines has no more positions than the section.
LEMMA UptoSmaller ==
  ASSUME NEW N \in Nat, NEW S \in SUBSET (1 .. N), NEW n \in 1 .. N, n \in S
  PROVE  Cardinality(Upto(S, n - 1)) < Cardinality(S) /\ Cardinality(S) \in Nat
         /\ Cardinality(Upto(S, n - 1)) \in Nat
<1>1. IsFiniteSet(1 .. N)
  BY FS_Interval
<1>2. IsFiniteSet(S)
  BY <1>1, FS_Subset
<1>3. Upto(S, n - 1) \subseteq S /\ n \notin Upto(S, n - 1)
  BY DEF Upto
<1> QED BY <1>2, <1>3, FS_Subset, FS_CardinalityType

\* What a position adds to the positions before it: itself, or nothing.
LEMMA UptoStep ==
  ASSUME NEW N \in Nat, NEW S \in SUBSET (1 .. N), NEW n \in 1 .. N
  PROVE  Upto(S, n) = Upto(S, n - 1) \cup (IF n \in S THEN {n} ELSE {})
<1>1. \A j \in 1 .. N : j <= n <=> j <= n - 1 \/ j = n
  OBVIOUS
<1> QED BY <1>1 DEF Upto

\* A position outside of S adds nothing.
LEMMA UptoSame ==
  ASSUME NEW N \in Nat, NEW S \in SUBSET (1 .. N), NEW n \in 1 .. N, n \notin S
  PROVE  Upto(S, n) = Upto(S, n - 1)
<1>1. \A j \in 1 .. N : j # n => (j <= n <=> j <= n - 1)
  OBVIOUS
<1> QED BY <1>1 DEF Upto

\* A line more under a header is a slot more.
LEMMA SlotsAppend ==
  ASSUME NEW lines, NEW T, NEW e, Enum(e, T), NEW n \in Nat, \A t \in T : t < n
  PROVE  Append(Slots(lines, e), [key |-> lines[n].key, value |-> lines[n].value])
           = Slots(lines, Append(e, n))
         /\ Len(Slots(lines, e)) = Len(e)
<1> DEFINE P(j) == [key |-> lines[j].key, value |-> lines[j].value]
           m == Len(e)
           S == [k \in 1 .. m |-> P(e[k])]
           d == Append(e, n)
<1>1. m \in Nat
  BY DEF Enum
<1>2. /\ Len(d) = m + 1 /\ d[m + 1] = n
      /\ \A i \in 1 .. m : d[i] = e[i]
  BY EnumAppend
<1>3. Slots(lines, e) = S /\ Slots(lines, d) = [k \in 1 .. Len(d) |-> P(d[k])]
  BY DEF Slots
<1>4. DOMAIN S = 1 .. m /\ S = [i \in 1 .. m |-> S[i]] /\ \A i \in 1 .. m : S[i] = P(e[i])
  OBVIOUS
<1> HIDE DEF S, P, m, d
<1>5. Len(S) = m /\ Append(S, P(n)) = [i \in 1 .. m + 1 |-> IF i = m + 1 THEN P(n) ELSE S[i]]
  BY <1>1, <1>4, Sequence
<1>6. \A i \in 1 .. m + 1 : (IF i = m + 1 THEN P(n) ELSE S[i]) = P(d[i])
  <2>1. \A i \in 1 .. m + 1 : i # m + 1 => i \in 1 .. m
    BY <1>1
  <2> QED BY <1>2, <1>4, <2>1
<1>7. Append(S, P(n)) = [k \in 1 .. m + 1 |-> P(d[k])]
  BY <1>5, <1>6
<1>8. Append(Slots(lines, e), P(n)) = Slots(lines, d) /\ Len(Slots(lines, e)) = m
  BY <1>2, <1>3, <1>5, <1>7
<1> QED BY <1>8 DEF P, d, m

\* The positions of a file.
LEMMA Positions ==
  ASSUME NEW N \in Nat, NEW lines, DOMAIN lines = 1 .. N
  PROVE  /\ Headers(lines) \in SUBSET (1 .. N)
         /\ \A h : Under(lines, h) \in SUBSET (1 .. N)
         /\ \A n \in 1 .. N : n \in Headers(lines) <=> lines[n].type = "section"
         /\ \A n \in 1 .. N : \A h : n \in Under(lines, h) <=>
              lines[n].type = "pair" /\ h < n
              /\ \A g \in Headers(lines) : ~ (h < g /\ g < n)
BY DEF Headers, Under, Pairs

\* A line that is neither a header nor a pair.
LEMMA LaidOther ==
  ASSUME NEW N \in Nat, NEW lines, DOMAIN lines = 1 .. N, NEW n \in 1 .. N,
         NEW hs, NEW ks, NEW S, Laid(lines, n - 1, hs, ks, S),
         lines[n].type \notin {"section", "pair"}
  PROVE  Laid(lines, n, hs, ks, Parsed(S, lines[n]))
<1>1. Parsed(S, lines[n]) = S
  BY DEF Parsed
<1>2. Upto(Headers(lines), n) = Upto(Headers(lines), n - 1)
  <2>1. Headers(lines) \in SUBSET (1 .. N) /\ n \notin Headers(lines)
    BY Positions
  <2> QED BY <2>1, UptoSame
<1>3. ASSUME NEW h PROVE Upto(Under(lines, h), n) = Upto(Under(lines, h), n - 1)
  <2>1. Under(lines, h) \in SUBSET (1 .. N) /\ n \notin Under(lines, h)
    BY Positions
  <2> QED BY <2>1, UptoSame
<1> QED BY <1>1, <1>2, <1>3 DEF Laid

\* A header takes a slot, which has no pairs yet.
LEMMA LaidSection ==
  ASSUME NEW N \in Nat, NEW lines, DOMAIN lines = 1 .. N, NEW n \in 1 .. N,
         NEW hs, NEW ks, NEW S, Laid(lines, n - 1, hs, ks, S), Fits(lines),
         lines[n].type = "section"
  PROVE  Laid(lines, n, Append(hs, n),
              [i \in 1 .. Len(hs) + 1 |-> IF i = Len(hs) + 1 THEN <<>> ELSE ks[i]],
              Parsed(S, lines[n]))
<1> DEFINE m == Len(hs)
           d == Append(hs, n)
           e == [i \in 1 .. m + 1 |-> IF i = m + 1 THEN <<>> ELSE ks[i]]
           new == [section |-> lines[n].name, keys |-> <<>>]
<1>1. n \in Nat /\ Headers(lines) \in SUBSET (1 .. N) /\ n \in Headers(lines)
      /\ \A h : Under(lines, h) \in SUBSET (1 .. N) /\ n \notin Under(lines, h)
  BY Positions
<1>2. /\ Enum(hs, Upto(Headers(lines), n - 1))
      /\ \A i \in 1 .. m : Enum(ks[i], Upto(Under(lines, hs[i]), n - 1))
      /\ S = [i \in 1 .. m |-> Slot(lines, hs[i], ks[i])]
  BY DEF Laid
<1>3. m \in Nat /\ m = Cardinality(Upto(Headers(lines), n - 1))
  BY <1>2, EnumLength
<1>4. m < MAX_SECTIONS
  <2>1. m < Cardinality(Headers(lines)) /\ Cardinality(Headers(lines)) \in Nat
    BY <1>1, <1>3, UptoSmaller
  <2>2. Cardinality(Headers(lines)) <= MAX_SECTIONS /\ MAX_SECTIONS \in Nat
    BY ConfigAssumption DEF Fits
  <2> QED BY <1>3, <2>1, <2>2
<1>5. Upto(Headers(lines), n) = Upto(Headers(lines), n - 1) \cup {n}
      /\ \A t \in Upto(Headers(lines), n - 1) : t < n
  <2>1. Upto(Headers(lines), n) = Upto(Headers(lines), n - 1) \cup {n}
    BY <1>1, UptoStep
  <2> QED BY <1>1, <2>1 DEF Upto
<1>6. /\ Enum(d, Upto(Headers(lines), n))
      /\ Len(d) = m + 1 /\ d[m + 1] = n
      /\ \A i \in 1 .. m : d[i] = hs[i]
  BY <1>1, <1>2, <1>5, EnumAppend
<1>7. ASSUME NEW i \in 1 .. m + 1 PROVE Enum(e[i], Upto(Under(lines, d[i]), n))
  <2>1. CASE i = m + 1
    <3>1. Upto(Under(lines, n), n) = {}
      BY <1>1, Positions DEF Upto
    <3>2. e[i] = <<>>
      BY <2>1
    <3> QED BY <1>6, <2>1, <3>1, <3>2, EnumEmpty
  <2>2. CASE i # m + 1
    <3>1. i \in 1 .. m /\ e[i] = ks[i]
      BY <1>3, <2>2
    <3>2. Upto(Under(lines, hs[i]), n) = Upto(Under(lines, hs[i]), n - 1)
      <4>1. Under(lines, hs[i]) \in SUBSET (1 .. N) /\ n \notin Under(lines, hs[i])
        BY <1>1
      <4> QED BY <4>1, UptoSame
    <3> HIDE DEF e
    <3> QED BY <1>2, <1>6, <3>1, <3>2
  <2> QED BY <2>1, <2>2
<1>8. Len(S) = m /\ Append(S, new) = [i \in 1 .. m + 1 |-> IF i = m + 1 THEN new ELSE S[i]]
  <2>1. DOMAIN S = 1 .. m /\ S = [i \in 1 .. m |-> S[i]]
    BY <1>2
  <2> HIDE DEF m, new
  <2> QED BY <1>3, <2>1, Sequence
<1>9. Parsed(S, lines[n]) = Append(S, new)
  BY <1>4, <1>8 DEF Parsed, NewSection
<1>10. ASSUME NEW i \in 1 .. m + 1
       PROVE  (IF i = m + 1 THEN new ELSE S[i]) = Slot(lines, d[i], e[i])
  <2>1. CASE i = m + 1
    <3>1. Slots(lines, <<>>) = <<>>
      BY DEF Slots
    <3>2. e[i] = <<>> /\ d[i] = n
      BY <1>6, <2>1
    <3> QED BY <2>1, <3>1, <3>2 DEF Slot
  <2>2. CASE i # m + 1
    <3>1. i \in 1 .. m /\ e[i] = ks[i]
      BY <1>3, <2>2
    <3> HIDE DEF e
    <3> QED BY <1>2, <1>6, <2>2, <3>1
  <2> QED BY <2>1, <2>2
<1>11. Parsed(S, lines[n]) = [i \in 1 .. m + 1 |-> Slot(lines, d[i], e[i])]
  <2> HIDE DEF e, d, new, m
  <2> QED BY <1>8, <1>9, <1>10
<1> HIDE DEF e, d, new
<1>12. Laid(lines, n, d, e, Parsed(S, lines[n]))
  BY <1>6, <1>7, <1>11 DEF Laid
<1> QED BY <1>12 DEF e, d

\* A pair before the first header.
LEMMA LaidNowhere ==
  ASSUME NEW N \in Nat, NEW lines, DOMAIN lines = 1 .. N, NEW n \in 1 .. N,
         NEW hs, NEW ks, NEW S, Laid(lines, n - 1, hs, ks, S),
         lines[n].type = "pair", Len(hs) = 0
  PROVE  Laid(lines, n, hs, ks, Parsed(S, lines[n]))
<1>1. S = <<>>
  BY DEF Laid
<1>2. Parsed(S, lines[n]) = S
  BY <1>1 DEF Parsed, NewPair
<1>3. Upto(Headers(lines), n) = Upto(Headers(lines), n - 1)
  <2>1. Headers(lines) \in SUBSET (1 .. N) /\ n \notin Headers(lines)
    BY Positions
  <2> QED BY <2>1, UptoSame
<1> QED BY <1>2, <1>3 DEF Laid

\* A section's slot with a pair more.
LEMMA SlotMore ==
  ASSUME NEW a, NEW b, NEW x
  PROVE  [[section |-> a, keys |-> b] EXCEPT !.keys = Append(@, x)]
           = [section |-> a, keys |-> Append(b, x)]
OBVIOUS

\* A pair under a header.
LEMMA LaidPair ==
  ASSUME NEW N \in Nat, NEW lines, DOMAIN lines = 1 .. N, NEW n \in 1 .. N,
         NEW hs, NEW ks, NEW S, Laid(lines, n - 1, hs, ks, S), Fits(lines),
         lines[n].type = "pair", Len(hs) # 0
  PROVE  Laid(lines, n, hs,
              [i \in 1 .. Len(hs) |-> IF i = Len(hs) THEN Append(ks[i], n) ELSE ks[i]],
              Parsed(S, lines[n]))
<1> DEFINE m == Len(hs)
           H == Headers(lines)
           T == Upto(Under(lines, hs[m]), n - 1)
           e == [i \in 1 .. m |-> IF i = m THEN Append(ks[i], n) ELSE ks[i]]
           pair == [key |-> lines[n].key, value |-> lines[n].value]
<1>1. n \in Nat /\ H \in SUBSET (1 .. N) /\ n \notin H
      /\ \A h : Under(lines, h) \in SUBSET (1 .. N)
  BY Positions
<1>2. /\ Enum(hs, Upto(H, n - 1))
      /\ \A i \in 1 .. m : Enum(ks[i], Upto(Under(lines, hs[i]), n - 1))
      /\ S = [i \in 1 .. m |-> Slot(lines, hs[i], ks[i])]
  BY DEF Laid
<1>3. m \in Nat /\ m \in 1 .. m
  <2>1. m \in Nat
    BY <1>2, EnumLength
  <2> QED BY <2>1
<1>4. Upto(H, n) = Upto(H, n - 1)
  BY <1>1, UptoSame
\* The last header before line n is the one of the last section.
<1>5. /\ \A i \in 1 .. m : hs[i] \in H /\ hs[i] \in 1 .. N /\ hs[i] < n
      /\ \A i \in 1 .. m : i # m => hs[i] < hs[m]
      /\ \A g \in H : g < n => g <= hs[m]
  <2>1. /\ \A i \in 1 .. m : hs[i] \in Upto(H, n - 1)
        /\ \A t \in Upto(H, n - 1) : \E i \in 1 .. m : hs[i] = t
        /\ \A i, j \in 1 .. m : i < j => hs[i] < hs[j]
    BY <1>2 DEF Enum
  <2>2. \A i \in 1 .. m : hs[i] \in H /\ hs[i] \in 1 .. N /\ hs[i] < n
    <3>1. \A i \in 1 .. m : hs[i] \in H /\ hs[i] \in 1 .. N /\ hs[i] <= n - 1
      BY <1>1, <2>1 DEF Upto
    <3>2. \A h \in 1 .. N : h <= n - 1 => h < n
      BY <1>1
    <3> QED BY <3>1, <3>2
  <2>3. \A i \in 1 .. m : i # m => i < m
    BY <1>3
  <2>4. \A i \in 1 .. m : i # m => hs[i] < hs[m]
    BY <1>3, <2>1, <2>3
  <2>5. ASSUME NEW g \in H, g < n PROVE g <= hs[m]
    <3>1. g \in 1 .. N /\ g <= n - 1
      BY <1>1, <2>5
    <3>2. g \in Upto(H, n - 1)
      BY <3>1 DEF Upto
    <3>3. PICK i \in 1 .. m : hs[i] = g
      BY <2>1, <3>2
    <3>4. i = m \/ hs[i] < hs[m]
      BY <2>4
    <3>5. hs[i] \in 1 .. N /\ hs[m] \in 1 .. N
      BY <1>3, <2>2
    <3> QED BY <3>3, <3>4, <3>5
  <2> QED BY <2>2, <2>4, <2>5
<1>6. n \in Under(lines, hs[m])
  <2>1. hs[m] \in 1 .. N /\ hs[m] < n
    BY <1>3, <1>5
  <2>2. \A g \in H : ~ (hs[m] < g /\ g < n)
    <3> SUFFICES ASSUME NEW g \in H, hs[m] < g, g < n PROVE FALSE
      OBVIOUS
    <3>1. g <= hs[m] /\ g \in 1 .. N
      BY <1>1, <1>5
    <3> QED BY <2>1, <3>1
  <2> QED BY <2>1, <2>2, Positions
<1>7. ASSUME NEW i \in 1 .. m, i # m PROVE n \notin Under(lines, hs[i])
  <2>1. hs[i] < hs[m] /\ hs[m] < n /\ hs[m] \in H
    BY <1>3, <1>5, <1>7
  <2> QED BY <2>1, Positions
<1>8. Enum(ks[m], T) /\ Len(ks[m]) < MAX_KEYS /\ \A t \in T : t < n
  <2>1. Enum(ks[m], T)
    BY <1>2, <1>3
  <2>2. Len(ks[m]) = Cardinality(T) /\ Len(ks[m]) \in Nat
    BY <2>1, EnumLength
  <2>3. Cardinality(T) < Cardinality(Under(lines, hs[m]))
        /\ Cardinality(Under(lines, hs[m])) \in Nat
    BY <1>1, <1>6, UptoSmaller
  <2>4. Cardinality(Under(lines, hs[m])) <= MAX_KEYS /\ MAX_KEYS \in Nat
    BY <1>3, <1>5, ConfigAssumption DEF Fits
  <2>5. \A t \in T : t < n
    <3>1. \A t \in T : t \in 1 .. N /\ t <= n - 1
      BY <1>1 DEF Upto
    <3> HIDE DEF T
    <3> QED BY <1>1, <3>1
  <2> HIDE DEF T
  <2> QED BY <2>1, <2>2, <2>3, <2>4, <2>5
<1>9. ASSUME NEW i \in 1 .. m PROVE Enum(e[i], Upto(Under(lines, hs[i]), n))
  <2>1. CASE i = m
    <3>1. Under(lines, hs[m]) \in SUBSET (1 .. N)
      BY <1>1
    <3>2. Upto(Under(lines, hs[m]), n) = T \cup {n}
      BY <1>6, <3>1, UptoStep
    <3>3. Enum(Append(ks[m], n), T \cup {n})
      <4> HIDE DEF T
      <4> QED BY <1>1, <1>8, EnumAppend
    <3>4. e[i] = Append(ks[m], n)
      BY <2>1
    <3> HIDE DEF e
    <3> QED BY <2>1, <3>2, <3>3, <3>4
  <2>2. CASE i # m
    <3>1. e[i] = ks[i]
      BY <2>2
    <3>2. Upto(Under(lines, hs[i]), n) = Upto(Under(lines, hs[i]), n - 1)
      <4>1. Under(lines, hs[i]) \in SUBSET (1 .. N) /\ n \notin Under(lines, hs[i])
        BY <1>1, <1>7, <2>2
      <4> QED BY <4>1, UptoSame
    <3> HIDE DEF e
    <3> QED BY <1>2, <3>1, <3>2
  <2> QED BY <2>1, <2>2
<1>10. /\ DOMAIN S = 1 .. m /\ \A i \in 1 .. m : S[i] = Slot(lines, hs[i], ks[i])
       /\ S \in Seq({S[i] : i \in 1 .. m}) /\ Len(S) = m
  <2>1. /\ DOMAIN S = 1 .. m /\ \A i \in 1 .. m : S[i] = Slot(lines, hs[i], ks[i])
        /\ S = [i \in 1 .. m |-> S[i]]
    BY <1>2
  <2> HIDE DEF m
  <2> QED BY <1>3, <2>1, Sequence
<1>11. S # <<>> /\ Last(S) = S[m]
  BY <1>3, <1>10 DEF Last
<1>12. S[m].section = lines[hs[m]].name /\ S[m].keys = Slots(lines, ks[m])
       /\ S[m] = [section |-> lines[hs[m]].name, keys |-> Slots(lines, ks[m])]
  BY <1>3, <1>10 DEF Slot
<1>13. /\ Append(Slots(lines, ks[m]), pair) = Slots(lines, Append(ks[m], n))
       /\ Len(Slots(lines, ks[m])) = Len(ks[m])
  <2> HIDE DEF T
  <2> QED BY <1>1, <1>8, SlotsAppend
<1>14. Parsed(S, lines[n]) = [S EXCEPT ![m].keys = Append(@, pair)]
  <2>1. Len(Last(S).keys) < MAX_KEYS
    BY <1>8, <1>11, <1>12, <1>13
  <2> QED BY <1>10, <1>11, <2>1 DEF Parsed, NewPair
<1>15. Parsed(S, lines[n]) = [S EXCEPT ![m] = Slot(lines, hs[m], Append(ks[m], n))]
  <2>1. [S EXCEPT ![m].keys = Append(@, pair)]
          = [S EXCEPT ![m] = [S[m] EXCEPT !.keys = Append(@, pair)]]
    OBVIOUS
  <2>2. [S[m] EXCEPT !.keys = Append(@, pair)] = Slot(lines, hs[m], Append(ks[m], n))
    <3>1. [S[m] EXCEPT !.keys = Append(@, pair)]
            = [section |-> lines[hs[m]].name, keys |-> Append(Slots(lines, ks[m]), pair)]
      <4> HIDE DEF pair
      <4> QED BY <1>12, SlotMore
    <3> QED BY <1>13, <3>1 DEF Slot
  <2> QED BY <1>14, <2>1, <2>2
<1>16. Parsed(S, lines[n]) = [i \in 1 .. m |-> Slot(lines, hs[i], e[i])]
  <2>1. e[m] = Append(ks[m], n) /\ \A i \in 1 .. m : i # m => e[i] = ks[i]
    BY <1>3
  <2> HIDE DEF e, m
  <2>2. \A i \in 1 .. m : (IF i = m THEN Slot(lines, hs[m], Append(ks[m], n)) ELSE S[i])
                            = Slot(lines, hs[i], e[i])
    BY <1>10, <2>1
  <2>3. [S EXCEPT ![m] = Slot(lines, hs[m], Append(ks[m], n))]
          = [i \in 1 .. m |-> IF i = m THEN Slot(lines, hs[m], Append(ks[m], n)) ELSE S[i]]
    BY <1>10
  <2> QED BY <1>15, <2>2, <2>3
<1> HIDE DEF e
<1>17. Laid(lines, n, hs, e, Parsed(S, lines[n]))
  BY <1>2, <1>4, <1>9, <1>16 DEF Laid
<1> QED BY <1>17 DEF e

\* The tables of a file that they can hold.
LEMMA FileLaid ==
  ASSUME NEW N \in Nat, NEW lines, DOMAIN lines = 1 .. N, Fits(lines)
  PROVE  \E hs, ks : Laid(lines, N, hs, ks, FoldLeft(Parsed, <<>>, lines))
<1>1. PICK p : /\ p[0] = <<>>
               /\ \A n \in 1 .. N : p[n] = Parsed(p[n - 1], lines[n])
               /\ FoldLeft(Parsed, <<>>, lines) = p[N]
  BY ParsedPrefixes
<1> DEFINE Q(n) == \E hs, ks : Laid(lines, n, hs, ks, p[n])
           T == {n \in 0 .. N : ~ Q(n)}
<1>2. T = {}
  <2> SUFFICES ASSUME T # {} PROVE FALSE
    OBVIOUS
  <2>1. PICK n \in T : \A k \in T : n <= k
    <3>1. T \in SUBSET Nat
      OBVIOUS
    <3> HIDE DEF T
    <3> QED BY <3>1, LeastNatural
  <2>2. n \in 0 .. N /\ ~ Q(n) /\ n \in Nat
    <3>1. n \in 0 .. N /\ ~ Q(n)
      <4> HIDE DEF Q
      <4> QED OBVIOUS
    <3> QED BY <3>1
  <2>3. n # 0
    <3> SUFFICES ASSUME n = 0 PROVE FALSE
      OBVIOUS
    <3>1. Upto(Headers(lines), 0) = {}
      BY Positions DEF Upto
    <3>2. Len(<<>>) = 0 /\ 1 .. 0 = {}
      OBVIOUS
    <3>3. Laid(lines, 0, <<>>, <<>>, <<>>)
      <4>1. Enum(<<>>, Upto(Headers(lines), 0))
        BY <3>1, EnumEmpty
      <4>2. [i \in 1 .. 0 |-> Slot(lines, <<>>[i], <<>>[i])] = <<>>
        BY <3>2
      <4> QED BY <3>2, <4>1, <4>2 DEF Laid
    <3> QED BY <1>1, <2>2, <3>3
  <2>4. n \in 1 .. N /\ n - 1 \in 0 .. N
    BY <2>2, <2>3
  <2>5. Q(n - 1)
    <3>1. n - 1 \notin T
      <4> HIDE DEF T
      <4> QED BY <2>1, <2>2, <2>4
    <3> HIDE DEF Q
    <3> QED BY <2>4, <3>1
  <2>6. PICK hs, ks : Laid(lines, n - 1, hs, ks, p[n - 1])
    BY <2>5
  <2>7. p[n] = Parsed(p[n - 1], lines[n])
    BY <1>1, <2>4
  <2> HIDE DEF T
  <2>8. CASE lines[n].type \notin {"section", "pair"}
    BY <2>2, <2>4, <2>6, <2>7, <2>8, LaidOther
  <2>9. CASE lines[n].type = "section"
    BY <2>2, <2>4, <2>6, <2>7, <2>9, LaidSection
  <2>10. CASE lines[n].type = "pair" /\ Len(hs) = 0
    BY <2>2, <2>4, <2>6, <2>7, <2>10, LaidNowhere
  <2>11. CASE lines[n].type = "pair" /\ Len(hs) # 0
    BY <2>2, <2>4, <2>6, <2>7, <2>11, LaidPair
  <2> QED BY <2>8, <2>9, <2>10, <2>11
<1>3. Q(N)
  <2>1. N \in 0 .. N
    OBVIOUS
  <2> HIDE DEF Q
  <2> QED BY <1>2, <2>1
<1> QED BY <1>1, <1>3

-----------------------------------------------------------------------------
(* What the tables hold of a directory *)

\* The slot that an entry takes.
File(entry) ==
  [filename |-> entry.name,
   sections |-> IF entry.name = Unnamed THEN <<>> ELSE FoldLeft(Parsed, <<>>, entry.lines)]

\* The entries that take one.
Taken(directory) == {e \in DOMAIN directory : directory[e].cnf /\ directory[e].opens}

\* The slots after n entries: es lists the ones that took them.
Kept(directory, n, es, tables) ==
  /\ Enum(es, Upto(Taken(directory), n))
  /\ tables = [i \in 1 .. Len(es) |-> File(directory[es[i]])]

\* An entry takes a slot for a file exactly if it is taken.
LEMMA KeptStep ==
  ASSUME NEW N \in Nat, N <= MAX_FILES, NEW directory, DOMAIN directory = 1 .. N,
         NEW n \in 1 .. N, NEW es, NEW S, Kept(directory, n - 1, es, S)
  PROVE  \E ds : Kept(directory, n, ds, Read(S, directory[n]))
<1> DEFINE m == Len(es)
           K == Taken(directory)
           d == Append(es, n)
           new == File(directory[n])
<1>1. n \in Nat /\ K \in SUBSET (1 .. N) /\ (n \in K <=> directory[n].cnf /\ directory[n].opens)
  BY DEF Taken
<1>2. Enum(es, Upto(K, n - 1)) /\ S = [i \in 1 .. m |-> File(directory[es[i]])]
  BY DEF Kept
<1>3. m \in Nat /\ m = Cardinality(Upto(K, n - 1))
  BY <1>2, EnumLength
<1>4. /\ DOMAIN S = 1 .. m /\ \A i \in 1 .. m : S[i] = File(directory[es[i]])
      /\ Len(S) = m
      /\ Append(S, new) = [i \in 1 .. m + 1 |-> IF i = m + 1 THEN new ELSE S[i]]
  <2>1. DOMAIN S = 1 .. m /\ S = [i \in 1 .. m |-> S[i]]
    BY <1>2
  <2>2. \A i \in 1 .. m : S[i] = File(directory[es[i]])
    BY <1>2
  <2>3. Len(S) = m /\ Append(S, new) = [i \in 1 .. m + 1 |-> IF i = m + 1 THEN new ELSE S[i]]
    <3> HIDE DEF m, new
    <3> QED BY <1>3, <2>1, Sequence
  <2> QED BY <2>1, <2>2, <2>3
<1>5. CASE n \notin K
  <2>1. Upto(K, n) = Upto(K, n - 1)
    BY <1>1, <1>5, UptoSame
  <2>2. Read(S, directory[n]) = S
    BY <1>1, <1>5 DEF Read, parse_cfg_file
  <2>3. Kept(directory, n, es, Read(S, directory[n]))
    BY <1>2, <2>1, <2>2 DEF Kept
  <2> QED BY <2>3
<1>6. CASE n \in K
  <2>1. Upto(K, n) = Upto(K, n - 1) \cup {n} /\ \A t \in Upto(K, n - 1) : t < n
    <3>1. Upto(K, n) = Upto(K, n - 1) \cup {n}
      BY <1>1, <1>6, UptoStep
    <3> QED BY <1>1, <3>1 DEF Upto
  <2>2. /\ Enum(d, Upto(K, n)) /\ Len(d) = m + 1 /\ d[m + 1] = n
        /\ \A i \in 1 .. m : d[i] = es[i]
    BY <1>1, <1>2, <2>1, EnumAppend
  <2>3. m < MAX_FILES
    <3>1. IsFiniteSet(1 .. N) /\ Cardinality(1 .. N) = N
      BY FS_Interval
    <3>2. Cardinality(K) <= N
      BY <1>1, <3>1, FS_Subset
    <3>3. m < Cardinality(K) /\ Cardinality(K) \in Nat
      BY <1>1, <1>3, <1>6, UptoSmaller
    <3> QED BY <1>3, <3>2, <3>3, ConfigAssumption
  <2>4. Read(S, directory[n]) = Append(S, new)
    BY <1>1, <1>4, <1>6, <2>3 DEF Read, parse_cfg_file, File
  <2>5. ASSUME NEW i \in 1 .. m + 1
        PROVE  (IF i = m + 1 THEN new ELSE S[i]) = File(directory[d[i]])
    <3>1. i = m + 1 \/ i \in 1 .. m
      BY <1>3
    <3> HIDE DEF d
    <3> QED BY <1>4, <2>2, <3>1
  <2>6. Read(S, directory[n]) = [i \in 1 .. m + 1 |-> File(directory[d[i]])]
    <3>1. Append(S, new) = [i \in 1 .. m + 1 |-> IF i = m + 1 THEN new ELSE S[i]]
      BY <1>4
    <3> HIDE DEF d, new, m
    <3> QED BY <2>4, <2>5, <3>1
  <2> HIDE DEF d
  <2>7. Kept(directory, n, d, Read(S, directory[n]))
    BY <2>2, <2>6 DEF Kept
  <2> QED BY <2>7
<1> QED BY <1>5, <1>6

\* The files of a directory that the tables can hold.
LEMMA DirectoryKept ==
  ASSUME NEW N \in Nat, N <= MAX_FILES, NEW directory, DOMAIN directory = 1 .. N
  PROVE  \E es : Enum(es, Taken(directory))
                 /\ load_kuaf_configs(directory) = [i \in 1 .. Len(es) |-> File(directory[es[i]])]
<1>1. PICK p : /\ p[0] = <<>>
               /\ \A n \in 1 .. N : p[n] = Read(p[n - 1], directory[n])
               /\ FoldLeft(Read, <<>>, directory) = p[N]
  BY ReadPrefixes
<1> DEFINE Q(n) == \E es : Kept(directory, n, es, p[n])
           T == {n \in 0 .. N : ~ Q(n)}
<1>2. T = {}
  <2> SUFFICES ASSUME T # {} PROVE FALSE
    OBVIOUS
  <2>1. PICK n \in T : \A k \in T : n <= k
    <3>1. T \in SUBSET Nat
      OBVIOUS
    <3> HIDE DEF T
    <3> QED BY <3>1, LeastNatural
  <2>2. n \in 0 .. N /\ ~ Q(n) /\ n \in Nat
    <3>1. n \in 0 .. N /\ ~ Q(n)
      <4> HIDE DEF Q
      <4> QED OBVIOUS
    <3> QED BY <3>1
  <2>3. n # 0
    <3> SUFFICES ASSUME n = 0 PROVE FALSE
      OBVIOUS
    <3>1. Upto(Taken(directory), 0) = {}
      BY DEF Upto, Taken
    <3>2. Len(<<>>) = 0 /\ 1 .. 0 = {}
      OBVIOUS
    <3>3. Kept(directory, 0, <<>>, <<>>)
      <4>1. [i \in 1 .. 0 |-> File(directory[<<>>[i]])] = <<>>
        BY <3>2
      <4> QED BY <3>1, <3>2, <4>1, EnumEmpty DEF Kept
    <3> QED BY <1>1, <2>2, <3>3
  <2>4. n \in 1 .. N /\ n - 1 \in 0 .. N
    BY <2>2, <2>3
  <2>5. Q(n - 1)
    <3>1. n - 1 \notin T
      <4> HIDE DEF T
      <4> QED BY <2>1, <2>2, <2>4
    <3> HIDE DEF Q
    <3> QED BY <2>4, <3>1
  <2>6. PICK es : Kept(directory, n - 1, es, p[n - 1])
    BY <2>5
  <2>7. p[n] = Read(p[n - 1], directory[n])
    BY <1>1, <2>4
  <2> HIDE DEF T
  <2> QED BY <2>2, <2>4, <2>6, <2>7, KeptStep
<1>3. Q(N)
  <2>1. N \in 0 .. N
    OBVIOUS
  <2> HIDE DEF Q
  <2> QED BY <1>2, <2>1
<1>4. PICK es : Kept(directory, N, es, p[N])
  BY <1>3
<1>5. Upto(Taken(directory), N) = Taken(directory)
  BY DEF Upto, Taken
<1> QED BY <1>1, <1>4, <1>5 DEF Kept, load_kuaf_configs

\* The slots and the lines that have a name or a key.
SectionSlots(S, section) == {i \in DOMAIN S : S[i].section = section}
KeySlots(K, key) == {i \in DOMAIN K : K[i].key = key}
Named(lines, section) == {h \in Headers(lines) : lines[h].name = section}
Keyed(lines, T, key) == {i \in T : lines[i].key = key}

\* What is looked up in the slots of a section is what is under its header.
LEMMA KeyFound ==
  ASSUME NEW lines, NEW e, NEW T, Enum(e, T), NEW key, NEW K, K = Slots(lines, e)
  PROVE  /\ Find(KeySlots(K, key)) # 0 <=> Keyed(lines, T, key) # {}
         /\ Find(KeySlots(K, key)) # 0 =>
              K[Find(KeySlots(K, key))].value = lines[Least(Keyed(lines, T, key))].value
<1> DEFINE M == KeySlots(K, key)
           pairs == Keyed(lines, T, key)
<1>1. /\ DOMAIN Slots(lines, e) = 1 .. Len(e)
      /\ \A j \in 1 .. Len(e) : /\ Slots(lines, e)[j].key = lines[e[j]].key
                                /\ Slots(lines, e)[j].value = lines[e[j]].value
  BY DEF Slots
<1>2. \A j : j \in M <=> j \in 1 .. Len(e) /\ lines[e[j]].key = key
  BY <1>1 DEF KeySlots
<1>p. \A t : t \in pairs <=> t \in T /\ lines[t].key = key
  BY DEF Keyed
<1> HIDE DEF M, pairs
<1>3. Selects(e, M, pairs)
  <2>1. /\ \A j \in 1 .. Len(e) : e[j] \in T
        /\ \A t \in T : \E j \in 1 .. Len(e) : e[j] = t
    BY DEF Enum
  <2> QED BY <1>2, <1>p, <2>1 DEF Selects
<1>4. /\ Find(M) # 0 <=> pairs # {}
      /\ Find(M) # 0 => Find(M) \in M /\ e[Find(M)] = Least(pairs)
  BY <1>3, EnumFirst
<1>5. Find(M) # 0 => K[Find(M)].value = lines[Least(pairs)].value
  BY <1>1, <1>2, <1>4
<1> QED BY <1>4, <1>5 DEF M, pairs

\* And a section that is looked up is the first of its name.
LEMMA SectionFound ==
  ASSUME NEW N \in Nat, NEW lines, DOMAIN lines = 1 .. N, NEW hs, NEW ks, NEW S,
         Laid(lines, N, hs, ks, S), NEW section, NEW s, s = Find(SectionSlots(S, section))
  PROVE  /\ s # 0 <=> Named(lines, section) # {}
         /\ s # 0 => /\ S[s].keys = Slots(lines, ks[s])
                     /\ Enum(ks[s], Under(lines, Least(Named(lines, section))))
<1> DEFINE H == Headers(lines)
           M == SectionSlots(S, section)
           headers == Named(lines, section)
<1>1. /\ Enum(hs, Upto(H, N))
      /\ \A i \in 1 .. Len(hs) : Enum(ks[i], Upto(Under(lines, hs[i]), N))
      /\ DOMAIN S = 1 .. Len(hs)
      /\ \A i \in 1 .. Len(hs) : S[i] = Slot(lines, hs[i], ks[i])
  BY DEF Laid
<1>2. Upto(H, N) = H /\ \A h : Upto(Under(lines, h), N) = Under(lines, h)
  BY Positions DEF Upto
<1>3. \A i \in 1 .. Len(hs) : S[i].section = lines[hs[i]].name /\ S[i].keys = Slots(lines, ks[i])
  BY <1>1 DEF Slot
<1>4. \A i : i \in M <=> i \in 1 .. Len(hs) /\ lines[hs[i]].name = section
  BY <1>1, <1>3 DEF SectionSlots
<1>h. \A h : h \in headers <=> h \in H /\ lines[h].name = section
  BY DEF Named
<1> HIDE DEF M, headers
<1>5. Selects(hs, M, headers)
  <2>1. /\ \A i \in 1 .. Len(hs) : hs[i] \in H
        /\ \A t \in H : \E i \in 1 .. Len(hs) : hs[i] = t
    BY <1>1, <1>2 DEF Enum
  <2> HIDE DEF H
  <2> QED BY <1>4, <1>h, <2>1 DEF Selects
<1>6. /\ Find(M) # 0 <=> headers # {}
      /\ Find(M) # 0 => Find(M) \in M /\ hs[Find(M)] = Least(headers)
  <2>1. Enum(hs, H)
    BY <1>1, <1>2
  <2> HIDE DEF H
  <2> QED BY <1>5, <2>1, EnumFirst
<1>7. Find(M) # 0 => Enum(ks[Find(M)], Under(lines, hs[Find(M)]))
  BY <1>1, <1>2, <1>4, <1>6
<1>8. s = Find(M)
  BY DEF M
<1>9. s # 0 => S[s].keys = Slots(lines, ks[s]) /\ Enum(ks[s], Under(lines, Least(headers)))
  BY <1>3, <1>4, <1>6, <1>7, <1>8
<1> QED BY <1>6, <1>8, <1>9 DEF headers

\* A lookup finds what a reader of the directory's files finds.
LEMMA LookupIsRef ==
  ASSUME NEW directory \in Seq(Entries), WithinLimits(directory),
         NEW filename, filename # Unnamed, NEW section, NEW key
  PROVE  kuaf_config_get_str(load_kuaf_configs(directory), filename, section, key)
           = RefValue(directory, filename, section, key)
<1> DEFINE N == Len(directory)
           tables == load_kuaf_configs(directory)
           M == {i \in DOMAIN tables : tables[i].filename = filename}
           f == Find(M)
           named == {e \in DOMAIN directory : /\ directory[e].cnf /\ directory[e].opens
                                              /\ directory[e].name = filename}
           lines == directory[Least(named)].lines
           headers == Named(lines, section)
           pairs == Keyed(lines, Under(lines, Least(headers)), key)
           sections == tables[f].sections
           s == Find(SectionSlots(sections, section))
           kvs == sections[s].keys
           k == Find(KeySlots(kvs, key))
<1>1. N \in Nat /\ DOMAIN directory = 1 .. N /\ N <= MAX_FILES
  BY DEF WithinLimits
<1>2. PICK es : /\ Enum(es, Taken(directory))
                /\ tables = [i \in 1 .. Len(es) |-> File(directory[es[i]])]
  BY <1>1, DirectoryKept
<1>3. DOMAIN tables = 1 .. Len(es) /\ \A i \in 1 .. Len(es) : tables[i] = File(directory[es[i]])
  <2> HIDE DEF tables
  <2> QED BY <1>2
<1>4. kuaf_config_get_str(tables, filename, section, key)
        = IF f # 0 /\ s # 0 /\ k # 0 THEN kvs[k].value ELSE NoValue
  BY DEF kuaf_config_get_str, SectionSlots, KeySlots
<1>5. RefValue(directory, filename, section, key)
        = IF named # {} /\ headers # {} /\ pairs # {}
          THEN lines[Least(pairs)].value ELSE NoValue
  BY DEF RefValue, Named, Keyed
<1> HIDE DEF tables
<1>6. \A i : i \in M <=> i \in 1 .. Len(es) /\ directory[es[i]].name = filename
  BY <1>3 DEF File
<1>7. \A e : e \in named <=> e \in Taken(directory) /\ directory[e].name = filename
  BY DEF Taken
<1> HIDE DEF M, named
<1>8. /\ f # 0 <=> named # {}
      /\ f # 0 => f \in M /\ es[f] = Least(named)
  <2>1. Selects(es, M, named)
    <3>1. /\ \A i \in 1 .. Len(es) : es[i] \in Taken(directory)
          /\ \A t \in Taken(directory) : \E i \in 1 .. Len(es) : es[i] = t
      BY <1>2 DEF Enum
    <3> QED BY <1>6, <1>7, <3>1 DEF Selects
  <2> QED BY <1>2, <2>1, EnumFirst
<1> HIDE DEF f
<1>9. /\ \A n, hs, ks : n \in Nat /\ DOMAIN lines = 1 .. n /\ Laid(lines, n, hs, ks, sections) =>
           /\ s # 0 <=> headers # {}
           /\ s # 0 => /\ kvs = Slots(lines, ks[s])
                       /\ Enum(ks[s], Under(lines, Least(headers)))
      /\ \A e : kvs = Slots(lines, e) /\ Enum(e, Under(lines, Least(headers))) =>
           /\ k # 0 <=> pairs # {}
           /\ k # 0 => kvs[k].value = lines[Least(pairs)].value
  <2>1. ASSUME NEW n \in Nat, NEW hs, NEW ks, DOMAIN lines = 1 .. n,
               Laid(lines, n, hs, ks, sections)
        PROVE  /\ s # 0 <=> headers # {}
               /\ s # 0 => /\ kvs = Slots(lines, ks[s])
                           /\ Enum(ks[s], Under(lines, Least(headers)))
    <3> HIDE DEF lines, sections
    <3> QED BY <2>1, SectionFound
  <2>2. ASSUME NEW e, kvs = Slots(lines, e), Enum(e, Under(lines, Least(headers)))
        PROVE  /\ k # 0 <=> pairs # {}
               /\ k # 0 => kvs[k].value = lines[Least(pairs)].value
    <3> HIDE DEF lines, kvs, headers
    <3> QED BY <2>2, KeyFound
  <2> HIDE DEF s, k, kvs, headers, pairs, lines, sections
  <2> QED BY <2>1, <2>2
<1> HIDE DEF s, k, kvs, headers, pairs, lines, sections
<1>11. CASE f = 0
  BY <1>4, <1>5, <1>8, <1>11 DEF tables
<1>12. CASE f # 0
  <2>1. /\ Least(named) \in 1 .. N /\ directory[Least(named)].name = filename
        /\ Least(named) = es[f] /\ f \in 1 .. Len(es)
    <3>1. f \in M /\ es[f] = Least(named)
      BY <1>8, <1>12
    <3>2. f \in 1 .. Len(es) /\ directory[Least(named)].name = filename
      BY <1>6, <3>1
    <3>3. Least(named) \in Taken(directory)
      BY <1>2, <3>1, <3>2 DEF Enum
    <3> QED BY <1>1, <3>1, <3>2, <3>3 DEF Taken
  <2>2. sections = FoldLeft(Parsed, <<>>, lines)
    <3>1. tables[f] = File(directory[Least(named)])
      BY <1>3, <2>1
    <3> QED BY <2>1, <3>1 DEF File, lines, sections
  <2>3. directory[Least(named)] \in Entries
    BY <1>1, <2>1
  <2>4. PICK n \in Nat : DOMAIN lines = 1 .. n
    <3>1. lines \in Seq(Lines)
      BY <2>3 DEF Entries, lines
    <3> QED BY <3>1
  <2>5. Fits(lines)
    <3>1. Least(named) \in DOMAIN directory
      BY <1>1, <2>1
    <3>2. LET l == directory[Least(named)].lines IN
            /\ Cardinality(Headers(l)) <= MAX_SECTIONS
            /\ \A h \in Headers(l) : Cardinality(Under(l, h)) <= MAX_KEYS
      BY <3>1 DEF WithinLimits
    <3> QED BY <3>2 DEF Fits, lines
  <2>6. PICK hs, ks : Laid(lines, n, hs, ks, sections)
    BY <2>2, <2>4, <2>5, FileLaid
  <2>7. /\ s # 0 <=> headers # {}
        /\ s # 0 => /\ kvs = Slots(lines, ks[s])
                    /\ Enum(ks[s], Under(lines, Least(headers)))
    BY <1>9, <2>4, <2>6
  <2>8. s # 0 => (k # 0 <=> pairs # {}) /\ (k # 0 => kvs[k].value = lines[Least(pairs)].value)
    BY <1>9, <2>7
  <2> QED BY <1>4, <1>5, <1>8, <1>12, <2>7, <2>8 DEF tables
<1> QED BY <1>11, <1>12

-----------------------------------------------------------------------------
(* The types of the tables *)

\* A pair, a section and a file, in their slots.
KeySlot == [key : STRING, value : Values]
SectionSlot == [section : STRING, keys : Seq(KeySlot)]
FileSlot == [filename : STRING, sections : Seq(SectionSlot)]

\* A line of its type leaves tables of their type.
LEMMA ParsedTyped ==
  ASSUME NEW S \in Seq(SectionSlot), NEW line \in Lines
  PROVE  Parsed(S, line) \in Seq(SectionSlot)
<1>1. CASE line.type = "section"
  <2>1. line.name \in STRING
    BY <1>1 DEF Lines
  <2>2. [section |-> line.name, keys |-> <<>>] \in SectionSlot
    BY <2>1 DEF SectionSlot
  <2> QED BY <1>1, <2>2 DEF Parsed, NewSection
<1>2. CASE line.type = "pair" /\ S # <<>>
  <2> DEFINE m == Len(S)
             pair == [key |-> line.key, value |-> line.value]
             K == Append(S[m].keys, pair)
  <2>1. pair \in KeySlot
    BY <1>2 DEF Lines, KeySlot
  <2>2. m \in Nat /\ m \in DOMAIN S /\ S[m] \in SectionSlot
    BY <1>2
  <2>3. S[m].section \in STRING /\ S[m].keys \in Seq(KeySlot)
    BY <2>2 DEF SectionSlot
  <2>4. K \in Seq(KeySlot)
    <3> HIDE DEF pair, m
    <3> QED BY <2>1, <2>3
  <2> DEFINE new == [S[m] EXCEPT !.keys = K]
  <2>5. new \in SectionSlot
    <3> HIDE DEF K, m
    <3> QED BY <2>2, <2>4 DEF SectionSlot
  <2>6. [S EXCEPT ![m] = new] \in Seq(SectionSlot)
    <3> HIDE DEF new, m
    <3> QED BY <2>2, <2>5
  <2>7. NewPair(S, line) \in {S, [S EXCEPT ![m] = new]}
    BY DEF NewPair
  <2> HIDE DEF m, new
  <2> QED BY <1>2, <2>6, <2>7 DEF Parsed
<1>3. CASE line.type # "section" /\ (line.type # "pair" \/ S = <<>>)
  BY <1>3 DEF Parsed, NewPair
<1> QED BY <1>1, <1>2, <1>3

\* So a file of any length does.
LEMMA SectionsTyped ==
  ASSUME NEW lines \in Seq(Lines)
  PROVE  FoldLeft(Parsed, <<>>, lines) \in Seq(SectionSlot)
<1> DEFINE N == Len(lines)
<1>0. N \in Nat /\ DOMAIN lines = 1 .. N
  OBVIOUS
<1> HIDE DEF N
<1>1. PICK p : /\ p[0] = <<>>
               /\ \A n \in 1 .. N : p[n] = Parsed(p[n - 1], lines[n])
               /\ FoldLeft(Parsed, <<>>, lines) = p[N]
  BY <1>0, ParsedPrefixes
<1> DEFINE T == {n \in 0 .. N : p[n] \notin Seq(SectionSlot)}
<1>2. T = {}
  <2> SUFFICES ASSUME T # {} PROVE FALSE
    OBVIOUS
  <2>1. PICK n \in T : \A k \in T : n <= k
    <3>1. T \in SUBSET Nat
      BY <1>0
    <3> HIDE DEF T
    <3> QED BY <3>1, LeastNatural
  <2>2. n \in 0 .. N /\ p[n] \notin Seq(SectionSlot)
    OBVIOUS
  <2>3. n # 0
    <3>1. <<>> \in Seq(SectionSlot)
      OBVIOUS
    <3> QED BY <1>1, <2>2, <3>1
  <2>4. n \in 1 .. N /\ n - 1 \in 0 .. N /\ ~ (n <= n - 1)
    BY <1>0, <2>2, <2>3
  <2>5. p[n - 1] \in Seq(SectionSlot)
    BY <2>1, <2>4
  <2> HIDE DEF T
  <2>6. lines[n] \in Lines
    BY <1>0, <2>4
  <2>7. Parsed(p[n - 1], lines[n]) \in Seq(SectionSlot)
    BY <2>5, <2>6, ParsedTyped
  <2> QED BY <1>1, <2>2, <2>4, <2>7
<1> QED BY <1>0, <1>1, <1>2

\* And so does an entry of a directory.
LEMMA ReadTyped ==
  ASSUME NEW F \in Seq(FileSlot), NEW entry \in Entries
  PROVE  Read(F, entry) \in Seq(FileSlot)
<1>1. entry.name \in STRING /\ entry.lines \in Seq(Lines)
  BY DEF Entries
<1>2. FoldLeft(Parsed, <<>>, entry.lines) \in Seq(SectionSlot)
  BY <1>1, SectionsTyped
<1> DEFINE sections == IF entry.name = Unnamed THEN <<>> ELSE FoldLeft(Parsed, <<>>, entry.lines)
<1>3. sections \in Seq(SectionSlot)
  BY <1>2
<1>4. Read(F, entry) \in {F, Append(F, [filename |-> entry.name, sections |-> sections])}
  BY DEF Read, parse_cfg_file
<1> HIDE DEF sections
<1>5. [filename |-> entry.name, sections |-> sections] \in FileSlot
  BY <1>1, <1>3 DEF FileSlot
<1> QED BY <1>4, <1>5

\* And a directory of any length.
LEMMA FilesTyped ==
  ASSUME NEW directory \in Seq(Entries)
  PROVE  load_kuaf_configs(directory) \in Seq(FileSlot)
<1> DEFINE N == Len(directory)
<1>0. N \in Nat /\ DOMAIN directory = 1 .. N
  OBVIOUS
<1> HIDE DEF N
<1>1. PICK p : /\ p[0] = <<>>
               /\ \A n \in 1 .. N : p[n] = Read(p[n - 1], directory[n])
               /\ FoldLeft(Read, <<>>, directory) = p[N]
  BY <1>0, ReadPrefixes
<1> DEFINE T == {n \in 0 .. N : p[n] \notin Seq(FileSlot)}
<1>2. T = {}
  <2> SUFFICES ASSUME T # {} PROVE FALSE
    OBVIOUS
  <2>1. PICK n \in T : \A k \in T : n <= k
    <3>1. T \in SUBSET Nat
      BY <1>0
    <3> HIDE DEF T
    <3> QED BY <3>1, LeastNatural
  <2>2. n \in 0 .. N /\ p[n] \notin Seq(FileSlot)
    OBVIOUS
  <2>3. n # 0
    <3>1. <<>> \in Seq(FileSlot)
      OBVIOUS
    <3> QED BY <1>1, <2>2, <3>1
  <2>4. n \in 1 .. N /\ n - 1 \in 0 .. N /\ ~ (n <= n - 1)
    BY <1>0, <2>2, <2>3
  <2>5. p[n - 1] \in Seq(FileSlot)
    BY <2>1, <2>4
  <2> HIDE DEF T
  <2>6. directory[n] \in Entries
    BY <1>0, <2>4
  <2>7. Read(p[n - 1], directory[n]) \in Seq(FileSlot)
    BY <2>5, <2>6, ReadTyped
  <2> QED BY <1>1, <2>2, <2>4, <2>7
<1> QED BY <1>0, <1>1, <1>2 DEF load_kuaf_configs

\* A search that finds something finds a member.
LEMMA FindMember ==
  ASSUME NEW N \in Nat, NEW M \in SUBSET (1 .. N), Find(M) # 0
  PROVE  Find(M) \in M
<1>1. M # {} /\ M \in SUBSET Nat
  BY DEF Find
<1>2. PICK x \in M : \A y \in M : x <= y
  BY <1>1, LeastNatural
<1> QED BY <1>1, <1>2 DEF Find, Min

\* atoi makes a number of every text.
LEMMA NumberOfText ==
  ASSUME NEW directory \in Seq(Entries), NEW filename, NEW section, NEW key
  PROVE  kuaf_config_get_int(load_kuaf_configs(directory), filename, section, key) \in Int
<1> DEFINE F == load_kuaf_configs(directory)
           M == {i \in DOMAIN F : F[i].filename = filename}
           f == Find(M)
           sections == F[f].sections
           s == Find(SectionSlots(sections, section))
           kvs == sections[s].keys
           k == Find(KeySlots(kvs, key))
<1>1. kuaf_config_get_str(F, filename, section, key)
        = IF f # 0 /\ s # 0 /\ k # 0 THEN kvs[k].value ELSE NoValue
  BY DEF kuaf_config_get_str, SectionSlots, KeySlots
<1>2. F \in Seq(FileSlot)
  BY FilesTyped
<1> HIDE DEF F
<1>3. ASSUME f # 0 PROVE sections \in Seq(SectionSlot)
  <2>1. M \in SUBSET (1 .. Len(F)) /\ Len(F) \in Nat /\ M \subseteq DOMAIN F
    BY <1>2
  <2> HIDE DEF M
  <2>2. f \in DOMAIN F
    BY <1>3, <2>1, FindMember
  <2> HIDE DEF f
  <2>3. F[f] \in FileSlot
    BY <1>2, <2>2
  <2> QED BY <2>3 DEF FileSlot
<1> HIDE DEF M, f, sections
<1>4. ASSUME f # 0, s # 0 PROVE kvs \in Seq(KeySlot)
  <2>1. /\ SectionSlots(sections, section) \in SUBSET (1 .. Len(sections))
        /\ SectionSlots(sections, section) \subseteq DOMAIN sections /\ Len(sections) \in Nat
    BY <1>3, <1>4 DEF SectionSlots
  <2>2. s \in DOMAIN sections
    BY <1>4, <2>1, FindMember
  <2> HIDE DEF s
  <2>3. sections[s] \in SectionSlot
    BY <1>3, <1>4, <2>2
  <2> QED BY <2>3 DEF SectionSlot
<1> HIDE DEF s, kvs
<1>5. ASSUME f # 0, s # 0, k # 0 PROVE kvs[k].value \in Values
  <2>1. /\ KeySlots(kvs, key) \in SUBSET (1 .. Len(kvs))
        /\ KeySlots(kvs, key) \subseteq DOMAIN kvs /\ Len(kvs) \in Nat
    BY <1>4, <1>5 DEF KeySlots
  <2>2. k \in DOMAIN kvs
    BY <1>5, <2>1, FindMember
  <2> HIDE DEF k
  <2>3. kvs[k] \in KeySlot
    BY <1>4, <1>5, <2>2
  <2> QED BY <2>3 DEF KeySlot
<1> HIDE DEF k
<1>6. NoValue.int \in Int
  BY DEF NoValue
<1>7. f # 0 /\ s # 0 /\ k # 0 => kvs[k].value.int \in Int
  BY <1>5 DEF Values
<1> QED BY <1>1, <1>6, <1>7 DEF kuaf_config_get_int, F

-----------------------------------------------------------------------------
(* The scheduler's inductive invariant *)

\* The scheduler's part of the inductive invariants: its types, the tables
\* that were made at load, and no semaphore for DEV_ID_UNKNOWN.
SchedulerInv ==
  /\ SchedulerTypeOK
  /\ files = load_kuaf_configs(etc)
  /\ \A alg \in Algs : units[<<alg, DEV_ID_UNKNOWN>>] = -1

\* What the scheduler looks up are numbers.
LEMMA NumberInt ==
  ASSUME SchedulerInv, NEW alg \in Algs, NEW key \in {"bandwidth", "ratio", "parallel"}
  PROVE  Number(alg, key) \in Int
<1>1. etc \in Seq(Entries) /\ files = load_kuaf_configs(etc)
  BY ConfigAssumption DEF SchedulerInv, SchedulerTypeOK
<1>2. QED
  BY <1>1, NumberOfText DEF Number

\* A device that is chosen has one of the library's numbers.
LEMMA DeviceKnown ==
  ASSUME NEW alg, NEW numa \in Int
  PROVE  kuaf_dev_get_id(alg, numa) \in Devs
<1>1. numa \in 0 .. 3 => numa \div 2 \in 0 .. 3
  OBVIOUS
<1>2. FirstDev(alg) \in {1, 5, 9}
  BY DEF FirstDev
<1>3. QED
  BY <1>1, <1>2 DEF kuaf_dev_get_id, Devs, DEV_ID_UNKNOWN

\* Semaphores are made for known devices only, and with units.
LEMMA PreparedDevices ==
  ASSUME NEW alg \in Algs, NEW numa \in Int, NEW dev \in kuaf_paral_init_sem(alg, numa)
  PROVE  dev # DEV_ID_UNKNOWN /\ ~ (Number(alg, "parallel") < 1)
<1>1. PICK d \in Devs : d = kuaf_dev_get_id(alg, numa)
  BY DeviceKnown
<1>2. (d - 1) \div 4 \in Int /\ (d # 0 => (d - 1) \div 4 >= 0)
  BY DEF Devs
<1>3. Base(d) \in Int /\ Base(d) >= 1
  BY <1>2 DEF Base, Devs
<1>4. DevCount \in Int
  BY DEF DevCount
<1>5. QED
  BY <1>1, <1>3, <1>4 DEF kuaf_paral_init_sem, DEV_ID_UNKNOWN

\* The library is loaded.
LEMMA LoadedInv ==
  ASSUME kuaf_inner_ctx_init
  PROVE  SchedulerInv
<1>1. PICK numa \in [Algs -> NumasAtLoad] :
        units = [k \in Algs \X Devs |->
                   IF ParalReady /\ k[2] \in kuaf_paral_init_sem(k[1], numa[k[1]])
                   THEN Number(k[1], "parallel") ELSE -1]
  BY DEF kuaf_inner_ctx_init
<1>2. etc \in Directories /\ files = load_kuaf_configs(etc) /\ ctx = [c \in Ctxs |-> Null]
  BY DEF kuaf_inner_ctx_init
<1>3. \A alg \in Algs : Number(alg, "parallel") \in Int
  BY <1>2, NumberOfText, ConfigAssumption DEF Number
<1>4. \A alg \in Algs : numa[alg] \in Int
  BY SchedulerAssumption
<1>5. units \in [Algs \X Devs -> {n \in Int : n >= -1}]
  <2>1. SUFFICES ASSUME NEW alg \in Algs, NEW dev \in Devs
                 PROVE  units[<<alg, dev>>] \in {n \in Int : n >= -1}
    BY <1>1
  <2>2. dev \in kuaf_paral_init_sem(alg, numa[alg]) => Number(alg, "parallel") >= 1
    BY <1>3, <1>4, PreparedDevices
  <2>3. units[<<alg, dev>>] = IF ParalReady /\ dev \in kuaf_paral_init_sem(alg, numa[alg])
                              THEN Number(alg, "parallel") ELSE -1
    BY <1>1
  <2>4. QED
    BY <1>3, <2>2, <2>3
<1>6. \A alg \in Algs : units[<<alg, DEV_ID_UNKNOWN>>] = -1
  <2>1. DEV_ID_UNKNOWN \in Devs
    BY DEF Devs, DEV_ID_UNKNOWN
  <2>2. QED
    BY <1>1, <1>4, <2>1, PreparedDevices
<1>7. QED
  BY <1>2, <1>5, <1>6 DEF SchedulerInv, SchedulerTypeOK

\* What a context becomes, and what it takes.
LEMMA ScheduleStep ==
  ASSUME SchedulerInv, NEW c \in Ctxs, NEW alg \in Algs, kuaf_ctx_scheduler(c, alg)
  PROVE  /\ UNCHANGED <<etc, files>>
         /\ \E s \in {"bandwidth", "ratio", "parallel"}, dev \in Devs :
              /\ ctx' = [ctx EXCEPT ![c] = [alg |-> alg, strategy |-> s, dev |-> dev]]
              /\ \/ units' = units /\ (s = "parallel" => dev = DEV_ID_UNKNOWN)
                 \/ /\ s = "parallel" /\ dev # DEV_ID_UNKNOWN /\ units[<<alg, dev>>] > 0
                    /\ units' = [units EXCEPT ![<<alg, dev>>] = @ - 1]
<1>1. \A numa \in Numas : kuaf_dev_get_id(alg, numa) \in Devs
  BY DeviceKnown, SchedulerAssumption
<1>2. DEV_ID_UNKNOWN \in Devs
  BY DEF Devs, DEV_ID_UNKNOWN
<1>3. CASE kuaf_scheduler_bandwidth(c, alg)
  BY <1>1, <1>2, <1>3 DEF kuaf_scheduler_bandwidth, kuaf_ctx_scheduler, Becomes
<1>4. CASE kuaf_scheduler_ratio(c, alg)
  BY <1>1, <1>2, <1>4 DEF kuaf_scheduler_ratio, kuaf_ctx_scheduler, Becomes
<1>5. CASE kuaf_scheduler_parallel(c, alg)
  <2>1. PICK numa \in Numas :
          LET k == <<alg, kuaf_dev_get_id(alg, numa)>>
          IN \/ /\ TryP(k) /\ units' = [units EXCEPT ![k] = @ - 1]
                /\ Becomes(c, alg, "parallel", k[2])
             \/ Becomes(c, alg, "parallel", DEV_ID_UNKNOWN) /\ UNCHANGED units
    BY <1>5 DEF kuaf_scheduler_parallel
  <2>2. TryP(<<alg, kuaf_dev_get_id(alg, numa)>>) => kuaf_dev_get_id(alg, numa) # DEV_ID_UNKNOWN
    BY DEF TryP, SchedulerInv
  <2>3. QED
    BY <1>1, <1>2, <2>1, <2>2 DEF kuaf_ctx_scheduler, Becomes, TryP
<1>6. QED
  BY <1>3, <1>4, <1>5 DEF kuaf_ctx_scheduler

\* Scheduling keeps the invariant.
LEMMA ScheduleInv ==
  ASSUME SchedulerInv, NEW c \in Ctxs, NEW alg \in Algs, kuaf_ctx_scheduler(c, alg)
  PROVE  SchedulerInv'
<1>1. PICK s \in {"bandwidth", "ratio", "parallel"}, dev \in Devs :
        /\ ctx' = [ctx EXCEPT ![c] = [alg |-> alg, strategy |-> s, dev |-> dev]]
        /\ \/ units' = units /\ (s = "parallel" => dev = DEV_ID_UNKNOWN)
           \/ /\ s = "parallel" /\ dev # DEV_ID_UNKNOWN /\ units[<<alg, dev>>] > 0
              /\ units' = [units EXCEPT ![<<alg, dev>>] = @ - 1]
  BY ScheduleStep
<1>2. UNCHANGED <<etc, files>>
  BY ScheduleStep
<1>3. ctx' \in [Ctxs -> {Null} \cup
                  [alg : Algs, strategy : {"bandwidth", "ratio", "parallel"}, dev : Devs]]
  BY <1>1 DEF SchedulerInv, SchedulerTypeOK
<1>4. units' \in [Algs \X Devs -> {n \in Int : n >= -1}]
  BY <1>1 DEF SchedulerInv, SchedulerTypeOK
<1>5. ASSUME NEW a \in Algs PROVE units'[<<a, DEV_ID_UNKNOWN>>] = -1
  <2>1. <<a, DEV_ID_UNKNOWN>> \in Algs \X Devs /\ <<alg, dev>> \in Algs \X Devs
    BY DEF Devs, DEV_ID_UNKNOWN
  <2>2. units[<<a, DEV_ID_UNKNOWN>>] = -1 /\ units \in [Algs \X Devs -> {n \in Int : n >= -1}]
    BY DEF SchedulerInv, SchedulerTypeOK
  <2>3. units' = units \/ (dev # DEV_ID_UNKNOWN /\ units' = [units EXCEPT ![<<alg, dev>>] = @ - 1])
    BY <1>1
  <2>4. dev # DEV_ID_UNKNOWN => <<a, DEV_ID_UNKNOWN>> # <<alg, dev>>
    OBVIOUS
  <2>5. QED
    BY <2>1, <2>2, <2>3, <2>4
<1>6. QED
  BY <1>2, <1>3, <1>4, <1>5 DEF SchedulerInv, SchedulerTypeOK

\* A context is freed.
LEMMA FreeInv ==
  ASSUME SchedulerInv, NEW c \in Ctxs, kuaf_ctx_scheduler_free(c)
  PROVE  SchedulerInv'
<1>1. UNCHANGED <<etc, files>> /\ ctx' = [ctx EXCEPT ![c] = Null]
  BY DEF kuaf_ctx_scheduler_free
<1>2. ctx' \in [Ctxs -> {Null} \cup
                  [alg : Algs, strategy : {"bandwidth", "ratio", "parallel"}, dev : Devs]]
  BY <1>1 DEF SchedulerInv, SchedulerTypeOK
<1>3. \/ units' = units
      \/ units' = [units EXCEPT ![<<ctx[c].alg, ctx[c].dev>>] = @ + 1]
           /\ units[<<ctx[c].alg, ctx[c].dev>>] # -1
  BY DEF kuaf_ctx_scheduler_free, kuaf_paral_V
<1>4. units' \in [Algs \X Devs -> {n \in Int : n >= -1}]
  BY <1>3 DEF SchedulerInv, SchedulerTypeOK
<1>5. ASSUME NEW a \in Algs PROVE units'[<<a, DEV_ID_UNKNOWN>>] = -1
  <2>1. <<a, DEV_ID_UNKNOWN>> \in Algs \X Devs
    BY DEF Devs, DEV_ID_UNKNOWN
  <2>2. units[<<a, DEV_ID_UNKNOWN>>] = -1 /\ units \in [Algs \X Devs -> {n \in Int : n >= -1}]
    BY DEF SchedulerInv, SchedulerTypeOK
  <2>3. <<a, DEV_ID_UNKNOWN>> # <<ctx[c].alg, ctx[c].dev>> \/ units' = units
    BY <1>3, <2>2
  <2>4. QED
    BY <1>3, <2>1, <2>2, <2>3
<1>6. QED
  BY <1>1, <1>2, <1>4, <1>5 DEF SchedulerInv, SchedulerTypeOK

-----------------------------------------------------------------------------
(* The contexts with a unit *)

\* The contexts on a device can be counted.
LEMMA HardFinite ==
  ASSUME IsFiniteSet(Ctxs), NEW alg, NEW dev
  PROVE  /\ IsFiniteSet(HardContexts(alg, dev))
         /\ Cardinality(HardContexts(alg, dev)) \in Nat
BY FS_Subset, FS_CardinalityType DEF HardContexts

\* A context that is scheduled, perhaps in the place of another one, joins the
\* contexts of a device exactly if it takes a unit there.
LEMMA ScheduleMoves ==
  ASSUME SchedulerInv, NEW c \in Ctxs, NEW a \in Algs, kuaf_ctx_scheduler(c, a),
         NEW alg \in Algs, NEW dev \in Devs
  PROVE  LET H == HardContexts(alg, dev)
             n == units[<<alg, dev>>]
         IN \/ n' = n /\ H' \subseteq H /\ (ctx[c] = Null => H' = H)
            \/ n > 0 /\ n' = n - 1 /\ H' = H \cup {c} /\ (ctx[c] = Null => c \notin H)
<1>1. PICK s \in {"bandwidth", "ratio", "parallel"}, d \in Devs :
        /\ ctx' = [ctx EXCEPT ![c] = [alg |-> a, strategy |-> s, dev |-> d]]
        /\ \/ units' = units /\ (s = "parallel" => d = DEV_ID_UNKNOWN)
           \/ /\ s = "parallel" /\ d # DEV_ID_UNKNOWN /\ units[<<a, d>>] > 0
              /\ units' = [units EXCEPT ![<<a, d>>] = @ - 1]
  BY ScheduleStep
<1> DEFINE H == HardContexts(alg, dev)
           new == [alg |-> a, strategy |-> s, dev |-> d]
<1>2. /\ ctx \in [Ctxs -> {Null} \cup
                  [alg : Algs, strategy : {"bandwidth", "ratio", "parallel"}, dev : Devs]]
      /\ units \in [Algs \X Devs -> {n \in Int : n >= -1}]
      /\ <<alg, dev>> \in Algs \X Devs /\ <<a, d>> \in Algs \X Devs
  BY DEF SchedulerInv, SchedulerTypeOK
<1>3. \A x \in Ctxs \ {c} : x \in H' <=> x \in H
  BY <1>1, <1>2 DEF HardContexts, HasUnit, Hard
<1>4. c \in H' <=> /\ s = "parallel" /\ d > DEV_ID_UNKNOWN
                   /\ a = alg /\ d = dev
  BY <1>1, <1>2 DEF HardContexts, HasUnit, Hard
<1>5. H \subseteq Ctxs /\ H' \subseteq Ctxs
  BY DEF HardContexts
<1>6. ctx[c] = Null => c \notin H
  BY DEF HardContexts, HasUnit, Hard, Null
<1>7. CASE units' = units /\ (s = "parallel" => d = DEV_ID_UNKNOWN)
  <2>1. c \notin H'
    BY <1>4, <1>7 DEF DEV_ID_UNKNOWN
  <2>2. QED
    BY <1>3, <1>5, <1>6, <1>7, <2>1
<1>8. CASE /\ s = "parallel" /\ d # DEV_ID_UNKNOWN /\ units[<<a, d>>] > 0
           /\ units' = [units EXCEPT ![<<a, d>>] = @ - 1]
  <2>1. CASE a = alg /\ d = dev
    <3>1. c \in H'
      BY <1>4, <1>8, <2>1 DEF DEV_ID_UNKNOWN, Devs
    <3>2. units'[<<alg, dev>>] = units[<<alg, dev>>] - 1 /\ units[<<alg, dev>>] > 0
      BY <1>2, <1>8, <2>1
    <3>3. QED
      BY <1>3, <1>5, <1>6, <3>1, <3>2
  <2>2. CASE ~ (a = alg /\ d = dev)
    <3>1. c \notin H'
      BY <1>4, <2>2
    <3>2. <<a, d>> # <<alg, dev>>
      BY <2>2
    <3>3. units'[<<alg, dev>>] = units[<<alg, dev>>]
      BY <1>2, <1>8, <3>2
    <3>4. QED
      BY <1>3, <1>5, <1>6, <3>1, <3>3
  <2>3. QED
    BY <2>1, <2>2
<1>9. QED
  BY <1>1, <1>7, <1>8

\* A context that is freed leaves the contexts of a device exactly if it gives
\* a unit back there.
LEMMA FreeMoves ==
  ASSUME SchedulerInv, NEW c \in Ctxs, kuaf_ctx_scheduler_free(c),
         NEW alg \in Algs, NEW dev \in Devs
  PROVE  LET H == HardContexts(alg, dev)
             n == units[<<alg, dev>>]
         IN \/ n' = n /\ H' = H
            \/ c \in H /\ H' = H \ {c} /\ n' = IF n = -1 THEN -1 ELSE n + 1
<1> DEFINE H == HardContexts(alg, dev)
<1>1. ctx' = [ctx EXCEPT ![c] = Null]
  BY DEF kuaf_ctx_scheduler_free
<1>2. /\ ctx \in [Ctxs -> {Null} \cup
                  [alg : Algs, strategy : {"bandwidth", "ratio", "parallel"}, dev : Devs]]
      /\ units \in [Algs \X Devs -> {n \in Int : n >= -1}]
      /\ <<alg, dev>> \in Algs \X Devs
  BY DEF SchedulerInv, SchedulerTypeOK
<1>3. \A x \in Ctxs \ {c} : x \in H' <=> x \in H
  BY <1>1, <1>2 DEF HardContexts, HasUnit, Hard
<1>4. c \notin H'
  BY <1>1, <1>2 DEF HardContexts, HasUnit, Hard, Null
<1>5. H \subseteq Ctxs /\ H' \subseteq Ctxs
  BY DEF HardContexts
<1>6. CASE c \in H
  <2>1. HasUnit(c) /\ ctx[c].alg = alg /\ ctx[c].dev = dev
    BY <1>6 DEF HardContexts
  <2>2. units' = IF units[<<alg, dev>>] = -1 THEN units
                 ELSE [units EXCEPT ![<<alg, dev>>] = @ + 1]
    BY <2>1 DEF kuaf_ctx_scheduler_free, kuaf_paral_V
  <2>3. QED
    BY <1>2, <1>3, <1>4, <1>5, <1>6, <2>2
<1>7. CASE c \notin H
  <2>1. H' = H
    BY <1>3, <1>4, <1>5, <1>7
  <2>2. ~ HasUnit(c) => units' = units
    BY DEF kuaf_ctx_scheduler_free
  <2>3. ASSUME HasUnit(c) PROVE <<ctx[c].alg, ctx[c].dev>> # <<alg, dev>>
    BY <1>7, <2>3 DEF HardContexts
  <2>4. HasUnit(c) => \/ units' = units
                      \/ units' = [units EXCEPT ![<<ctx[c].alg, ctx[c].dev>>] = @ + 1]
    BY DEF kuaf_ctx_scheduler_free, kuaf_paral_V
  <2>5. QED
    BY <1>2, <2>1, <2>2, <2>3, <2>4
<1>8. QED
  BY <1>6, <1>7

\* UnitsTaken holds however often a place is used again.
LEMMA ScheduleTakes ==
  ASSUME SchedulerInv, IsFiniteSet(Ctxs), UnitsTaken,
         NEW c \in Ctxs, NEW a \in Algs, kuaf_ctx_scheduler(c, a)
  PROVE  UnitsTaken'
<1> SUFFICES ASSUME NEW alg \in Algs, NEW dev \in Devs
             PROVE  units'[<<alg, dev>>] + Cardinality(HardContexts(alg, dev)')
                      <= IF Number(alg, "parallel") < 1 THEN -1 ELSE Number(alg, "parallel")
  <2>1. UNCHANGED files
    BY ScheduleStep
  <2>2. QED
    BY <2>1 DEF UnitsTaken, Number
<1> DEFINE H == HardContexts(alg, dev)
           n == units[<<alg, dev>>]
<1>1. n + Cardinality(H) <= IF Number(alg, "parallel") < 1 THEN -1 ELSE Number(alg, "parallel")
  BY DEF UnitsTaken
<1>2. n \in Int /\ IsFiniteSet(H) /\ Cardinality(H) \in Nat
  BY HardFinite DEF SchedulerInv, SchedulerTypeOK
<1>3. Number(alg, "parallel") \in Int
  BY NumberInt
<1>4. CASE n' = n /\ H' \subseteq H
  <2>1. Cardinality(H') <= Cardinality(H) /\ Cardinality(H') \in Nat
    BY <1>2, <1>4, FS_Subset, FS_CardinalityType
  <2>2. QED
    BY <1>1, <1>2, <1>3, <1>4, <2>1
<1>5. CASE n' = n - 1 /\ H' = H \cup {c}
  <2>1. Cardinality(H \cup {c}) \in {Cardinality(H), Cardinality(H) + 1}
    BY <1>2, FS_AddElement
  <2>2. QED
    BY <1>1, <1>2, <1>3, <1>5, <2>1
<1>6. QED
  BY <1>4, <1>5, ScheduleMoves

\* And it holds when a context is freed.
LEMMA FreeTakes ==
  ASSUME SchedulerInv, IsFiniteSet(Ctxs), UnitsTaken,
         NEW c \in Ctxs, kuaf_ctx_scheduler_free(c)
  PROVE  UnitsTaken'
<1> SUFFICES ASSUME NEW alg \in Algs, NEW dev \in Devs
             PROVE  units'[<<alg, dev>>] + Cardinality(HardContexts(alg, dev)')
                      <= IF Number(alg, "parallel") < 1 THEN -1 ELSE Number(alg, "parallel")
  <2>1. UNCHANGED files
    BY DEF kuaf_ctx_scheduler_free
  <2>2. QED
    BY <2>1 DEF UnitsTaken, Number
<1> DEFINE H == HardContexts(alg, dev)
           n == units[<<alg, dev>>]
<1>1. n + Cardinality(H) <= IF Number(alg, "parallel") < 1 THEN -1 ELSE Number(alg, "parallel")
  BY DEF UnitsTaken
<1>2. n \in Int /\ IsFiniteSet(H) /\ Cardinality(H) \in Nat
  BY HardFinite DEF SchedulerInv, SchedulerTypeOK
<1>3. Number(alg, "parallel") \in Int
  BY NumberInt
<1>4. CASE n' = n /\ H' = H
  BY <1>1, <1>4
<1>5. CASE c \in H /\ H' = H \ {c} /\ n' = IF n = -1 THEN -1 ELSE n + 1
  <2>1. Cardinality(H \ {c}) = Cardinality(H) - 1
    BY <1>2, <1>5, FS_RemoveElement
  <2>2. QED
    BY <1>1, <1>2, <1>3, <1>5, <2>1
<1>6. QED
  BY <1>4, <1>5, FreeMoves

\* Before a context is scheduled no unit is taken.
LEMMA LoadedTakes ==
  ASSUME kuaf_inner_ctx_init
  PROVE  /\ UnitsTaken
         /\ \A alg \in Algs, dev \in Devs :
              units[<<alg, dev>>] # -1 => units[<<alg, dev>>] = Number(alg, "parallel")
<1>1. PICK numa \in [Algs -> NumasAtLoad] :
        units = [k \in Algs \X Devs |->
                   IF ParalReady /\ k[2] \in kuaf_paral_init_sem(k[1], numa[k[1]])
                   THEN Number(k[1], "parallel") ELSE -1]
  BY DEF kuaf_inner_ctx_init
<1>2. SchedulerInv /\ ctx = [c \in Ctxs |-> Null]
  BY LoadedInv DEF kuaf_inner_ctx_init
<1>3. ASSUME NEW alg \in Algs, NEW dev \in Devs
      PROVE  /\ units[<<alg, dev>>] # -1 =>
                  /\ units[<<alg, dev>>] = Number(alg, "parallel")
                  /\ ~ (Number(alg, "parallel") < 1)
             /\ HardContexts(alg, dev) = {}
  <2>1. units[<<alg, dev>>] = IF ParalReady /\ dev \in kuaf_paral_init_sem(alg, numa[alg])
                              THEN Number(alg, "parallel") ELSE -1
    BY <1>1
  <2>2. dev \in kuaf_paral_init_sem(alg, numa[alg]) => ~ (Number(alg, "parallel") < 1)
    BY PreparedDevices, SchedulerAssumption
  <2>3. HardContexts(alg, dev) = {}
    BY <1>2 DEF HardContexts, HasUnit, Hard, Null
  <2>4. QED
    BY <2>1, <2>2, <2>3
<1>4. ASSUME NEW alg \in Algs, NEW dev \in Devs
      PROVE  units[<<alg, dev>>] + Cardinality(HardContexts(alg, dev))
               <= IF Number(alg, "parallel") < 1 THEN -1 ELSE Number(alg, "parallel")
  <2>1. Cardinality(HardContexts(alg, dev)) = 0
    BY <1>3, FS_EmptySet
  <2>2. units[<<alg, dev>>] \in Int /\ Number(alg, "parallel") \in Int
    BY <1>2, NumberInt DEF SchedulerInv, SchedulerTypeOK
  <2>3. QED
    BY <1>3, <2>1, <2>2
<1>5. QED
  BY <1>3, <1>4 DEF UnitsTaken

-----------------------------------------------------------------------------
(* What is looked up, and the semaphores that there are *)

\* The tables are the ones of the directory, and a lookup in them is the
\* reference's.
LEMMA LookupsMatch ==
  ASSUME SchedulerInv
  PROVE  LookupMatches
<1>1. etc \in Seq(Entries) /\ files = load_kuaf_configs(etc)
  BY ConfigAssumption DEF SchedulerInv, SchedulerTypeOK
<1>2. "kae" # Unnamed
  BY DEF Unnamed
<1>3. QED
  BY <1>1, <1>2, LookupIsRef DEF LookupMatches

\* The devices of a type begin where Base says.
LEMMA BaseIsFirst ==
  ASSUME NEW alg, NEW numa \in 0 .. 3, NEW dev, dev = kuaf_dev_get_id(alg, numa),
         dev # DEV_ID_UNKNOWN
  PROVE  /\ Base(dev) = FirstDev(alg)
         /\ dev \in FirstDev(alg) .. FirstDev(alg) + DevCount - 1
<1>1. FirstDev(alg) \in {1, 5, 9}
  BY DEF FirstDev
<1>2. \/ Cpu = "HISI_V2" /\ dev = FirstDev(alg) + numa
      \/ Cpu = "HISI_V1" /\ dev = FirstDev(alg) + numa \div 2
  BY DEF kuaf_dev_get_id
<1>3. numa \div 2 \in 0 .. 1
  OBVIOUS
<1>4. DevCount = IF Cpu = "HISI_V1" THEN 2 ELSE IF Cpu = "HISI_V2" THEN 4 ELSE 0
  BY DEF DevCount
<1>5. PICK n \in 0 .. 3 : dev = FirstDev(alg) + n /\ n < DevCount
  BY <1>2, <1>3, <1>4
<1>6. Base(dev) = FirstDev(alg)
  <2>1. CASE FirstDev(alg) = 1
    BY <1>5, <2>1 DEF Base
  <2>2. CASE FirstDev(alg) = 5
    BY <1>5, <2>2 DEF Base
  <2>3. CASE FirstDev(alg) = 9
    BY <1>5, <2>3 DEF Base
  <2>4. QED
    BY <1>1, <2>1, <2>2, <2>3
<1>7. QED
  BY <1>1, <1>4, <1>5, <1>6

\* A device that is prepared when one thread loads the library is prepared for
\* every thread.
LEMMA LoadedPrepares ==
  ASSUME kuaf_inner_ctx_init
  PROVE  DevicesPrepared
<1> SUFFICES ASSUME ParalReady, NumasAtLoad \subseteq 0 .. 3,
                    NEW alg \in Algs, NEW n \in Numas,
                    Number(alg, "parallel") >= 1, kuaf_dev_get_id(alg, n) # DEV_ID_UNKNOWN
             PROVE  units[<<alg, kuaf_dev_get_id(alg, n)>>] >= 0
  BY DEF DevicesPrepared
<1> DEFINE dev == kuaf_dev_get_id(alg, n)
<1>1. PICK numa \in [Algs -> NumasAtLoad] :
        units = [k \in Algs \X Devs |->
                   IF ParalReady /\ k[2] \in kuaf_paral_init_sem(k[1], numa[k[1]])
                   THEN Number(k[1], "parallel") ELSE -1]
  BY DEF kuaf_inner_ctx_init
<1>2. n \in 0 .. 3 /\ (Cpu = "HISI_V1" \/ Cpu = "HISI_V2")
  BY DEF kuaf_dev_get_id
<1>3. numa[alg] \in 0 .. 3 /\ kuaf_dev_get_id(alg, numa[alg]) # DEV_ID_UNKNOWN
  <2>1. numa[alg] \in 0 .. 3
    OBVIOUS
  <2>2. FirstDev(alg) \in {1, 5, 9} /\ numa[alg] \div 2 \in 0 .. 1
    BY <2>1 DEF FirstDev
  <2>3. QED
    BY <1>2, <2>1, <2>2 DEF kuaf_dev_get_id, DEV_ID_UNKNOWN
<1>4. /\ Base(kuaf_dev_get_id(alg, numa[alg])) = FirstDev(alg)
      /\ dev \in FirstDev(alg) .. FirstDev(alg) + DevCount - 1
  BY <1>2, <1>3, BaseIsFirst
<1>5. Number(alg, "parallel") \in Int
  BY LoadedInv, NumberInt
<1>6. dev \in kuaf_paral_init_sem(alg, numa[alg])
  BY <1>4, <1>5 DEF kuaf_paral_init_sem
<1>7. dev \in Devs
  BY DeviceKnown, SchedulerAssumption
<1> HIDE DEF dev
<1>8. units[<<alg, dev>>] = Number(alg, "parallel")
  BY <1>1, <1>6, <1>7
<1>9. QED
  BY <1>5, <1>8 DEF dev

\* No semaphore goes away when a context is scheduled.
LEMMA SchedulePrepares ==
  ASSUME SchedulerInv, DevicesPrepared,
         NEW c \in Ctxs, NEW a \in Algs, kuaf_ctx_scheduler(c, a)
  PROVE  DevicesPrepared'
<1>1. UNCHANGED files
  BY ScheduleStep
<1>2. ASSUME NEW alg \in Algs, NEW dev \in Devs, units[<<alg, dev>>] >= 0
      PROVE  units'[<<alg, dev>>] >= 0
  <2>1. units[<<alg, dev>>] \in Int
    BY DEF SchedulerInv, SchedulerTypeOK
  <2>2. QED
    BY <1>2, <2>1, ScheduleMoves
<1>3. QED
  BY <1>1, <1>2, DeviceKnown, SchedulerAssumption DEF DevicesPrepared, Number

\* Nor when one is freed.
LEMMA FreePrepares ==
  ASSUME SchedulerInv, DevicesPrepared, NEW c \in Ctxs, kuaf_ctx_scheduler_free(c)
  PROVE  DevicesPrepared'
<1>1. UNCHANGED files
  BY DEF kuaf_ctx_scheduler_free
<1>2. ASSUME NEW alg \in Algs, NEW dev \in Devs, units[<<alg, dev>>] >= 0
      PROVE  units'[<<alg, dev>>] >= 0
  <2>1. units[<<alg, dev>>] \in Int
    BY DEF SchedulerInv, SchedulerTypeOK
  <2>2. QED
    BY <1>2, <2>1, FreeMoves
<1>3. QED
  BY <1>1, <1>2, DeviceKnown, SchedulerAssumption DEF DevicesPrepared, Number
=============================================================================
