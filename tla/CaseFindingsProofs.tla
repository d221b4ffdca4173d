------------------------- MODULE CaseFindingsProofs -------------------------
(***************************************************************************)
(* Proofs about CaseFindings: what the detectors and the grouping into     *)
(* incidents make of any case, for every threshold, window and limit.  The *)
(* scans of the code are the operators Marks and Sessionize of Detection;  *)
(* most of what the properties say follows from what is shown of them      *)
(* here.                                                                   *)
(***************************************************************************)
EXTENDS CaseFindings, TLAPS, FiniteSetTheorems, FunctionTheorems, WellFoundedInduction, NaturalsInduction

(***************************************************************************)
(* Finite sets.                                                            *)
(***************************************************************************)
LEMMA MinimalSubset ==
    ASSUME NEW S, IsFiniteSet(S), NEW Bad \in SUBSET SUBSET S, Bad # {}
    PROVE  \E U \in Bad : \A V \in Bad : V \subseteq U => V = U
<1>1. Bad \subseteq FiniteSubsetsOf(S)
  BY FS_Subset DEF FiniteSubsetsOf
<1>2. PICK U \in Bad : \A V \in Bad : ~(<<V, U>> \in StrictSubsetOrdering(S))
  BY <1>1, FS_StrictSubsetOrderingWellFounded, WFMin
<1> QED BY <1>2 DEF StrictSubsetOrdering

LEMMA ImageFinite ==
    ASSUME NEW S, IsFiniteSet(S), NEW f
    PROVE  /\ IsFiniteSet({f[x] : x \in S})
           /\ Cardinality({f[x] : x \in S}) <= Cardinality(S)
<1> DEFINE T == {f[x] : x \in S}
           g == [x \in S |-> f[x]]
<1>1. g \in Surjection(S, T)
  BY DEF Surjection
<1> HIDE DEF g
<1> QED BY <1>1, FS_Surjection

\* A finite set that is not empty has a last and a first item.
LEMMA Extremes ==
    ASSUME NEW S, IsFiniteSet(S), S # {}, NEW key, \A x \in S : key[x] \in Int
    PROVE  /\ \E x \in S : \A y \in S : key[y] <= key[x]
           /\ \E x \in S : \A y \in S : key[x] <= key[y]
<1> DEFINE Last(U) == \E x \in U : \A y \in U : key[y] <= key[x]
           First(U) == \E x \in U : \A y \in U : key[x] <= key[y]
           Bad == {U \in SUBSET S : U # {} /\ ~(Last(U) /\ First(U))}
<1>1. Bad = {}
  <2> SUFFICES ASSUME Bad # {} PROVE FALSE
    OBVIOUS
  <2>1. PICK U \in Bad : \A V \in Bad : V \subseteq U => V = U
    <3> HIDE DEF Bad
    <3>1. Bad \in SUBSET SUBSET S
      BY DEF Bad
    <3> QED BY <3>1, MinimalSubset
  <2>2. PICK u \in U : TRUE
    BY <2>1
  <2>3. U \ {u} \notin Bad
    BY <2>1, <2>2
  <2>4. CASE U \ {u} = {}
    <3>1. \A y \in U : y = u
      BY <2>4
    <3>2. Last(U) /\ First(U)
      BY <3>1, <2>2, <2>1
    <3> QED BY <3>2, <2>1
  <2>5. CASE U \ {u} # {}
    <3>1. Last(U \ {u}) /\ First(U \ {u})
      BY <2>5, <2>3, <2>1
    <3>2. PICK x \in U \ {u} : \A y \in U \ {u} : key[y] <= key[x]
      BY <3>1
    <3>3. PICK z \in U \ {u} : \A y \in U \ {u} : key[z] <= key[y]
      BY <3>1
    <3>4. \A y \in U : key[y] \in Int
      BY <2>1
    <3>5. Last(U)
      <4>1. CASE key[u] <= key[x]
        BY <4>1, <3>2, <2>2
      <4>2. CASE key[x] < key[u]
        <5>1. ASSUME NEW y \in U PROVE key[y] <= key[u]
          <6>1. CASE y = u
            BY <6>1, <3>4
          <6>2. CASE y # u
            BY <6>2, <4>2, <3>2, <3>4, <2>2
          <6> QED BY <6>1, <6>2
        <5> QED BY <5>1, <2>2
      <4> QED BY <4>1, <4>2, <3>4, <2>2, <3>2, <3>3
    <3>6. First(U)
      <4>1. CASE key[z] <= key[u]
        BY <4>1, <3>3, <2>2
      <4>2. CASE key[u] < key[z]
        <5>1. ASSUME NEW y \in U PROVE key[u] <= key[y]
          <6>1. CASE y = u
            BY <6>1, <3>4
          <6>2. CASE y # u
            BY <6>2, <4>2, <3>3, <3>4, <2>2
          <6> QED BY <6>1, <6>2
        <5> QED BY <5>1, <2>2
      <4> QED BY <4>1, <4>2, <3>4, <2>2, <3>2, <3>3
    <3> QED BY <3>5, <3>6, <2>1
  <2> QED BY <2>4, <2>5
<1> QED BY <1>1

(***************************************************************************)
(* Scans.  `Before(M, key, x, m)`: m is the item of M marked last before   *)
(* the scan comes to x.                                                    *)
(***************************************************************************)
Ordered(S, key) ==
    /\ IsFiniteSet(S)
    /\ \A x \in S : key[x] \in Int
    /\ \A x, y \in S : key[x] = key[y] => x = y
Before(M, key, x, m) ==
    m \in M /\ key[m] < key[x] /\ \A l \in M : key[l] < key[x] => key[l] <= key[m]
Scanned(S, key, apart, M) ==
    \A x \in S : x \in M <=> \A m \in M : Before(M, key, x, m) => x \in apart[m]

LEMMA ScanExists ==
    ASSUME NEW S, NEW key, NEW apart, Ordered(S, key)
    PROVE  \E M \in SUBSET S : Scanned(S, key, apart, M)
<1> DEFINE Scan(U) == \E M \in SUBSET U : Scanned(U, key, apart, M)
           Bad == {U \in SUBSET S : ~Scan(U)}
<1>1. Bad = {}
  <2> SUFFICES ASSUME Bad # {} PROVE FALSE
    OBVIOUS
  <2>1. PICK U \in Bad : \A V \in Bad : V \subseteq U => V = U
    <3> HIDE DEF Bad
    <3>1. Bad \in SUBSET SUBSET S
      BY DEF Bad
    <3> QED BY <3>1, MinimalSubset DEF Ordered
  <2>2. U # {}
    <3>1. SUFFICES Scan({})
      BY <2>1
    <3> QED BY DEF Scanned
  <2>3. IsFiniteSet(U) /\ \A x \in U : key[x] \in Int
    BY <2>1, FS_Subset DEF Ordered
  <2>4. PICK u \in U : \A y \in U : key[y] <= key[u]
    BY <2>2, <2>3, Extremes
  <2>5. \A y \in U \ {u} : key[y] < key[u]
    BY <2>1, <2>3, <2>4 DEF Ordered
  <2>6. PICK M \in SUBSET (U \ {u}) : Scanned(U \ {u}, key, apart, M)
    <3>1. U \ {u} \notin Bad
      BY <2>1, <2>4
    <3> QED BY <3>1, <2>1
  <2> DEFINE admits == \A m \in M : Before(M, key, u, m) => u \in apart[m]
             N == IF admits THEN M \cup {u} ELSE M
  <2>7. \A x \in U : \A m : Before(N, key, x, m) <=> Before(M, key, x, m)
    <3> SUFFICES ASSUME NEW x \in U, NEW m PROVE Before(N, key, x, m) <=> Before(M, key, x, m)
      OBVIOUS
    <3>1. ~(key[u] < key[x])
      BY <2>3, <2>4
    <3>2. \A l : l \in N /\ key[l] < key[x] <=> l \in M /\ key[l] < key[x]
      BY <3>1
    <3> HIDE DEF N
    <3> QED BY <3>2 DEF Before
  <2>8. Scanned(U, key, apart, N)
    <3> SUFFICES ASSUME NEW x \in U
                 PROVE  x \in N <=> \A m \in N : Before(N, key, x, m) => x \in apart[m]
      BY DEF Scanned
    <3>1. (\A m \in N : Before(N, key, x, m) => x \in apart[m])
            <=> (\A m \in M : Before(M, key, x, m) => x \in apart[m])
      <4>1. \A m : Before(M, key, x, m) => m \in M
        BY DEF Before
      <4>2. M \subseteq N
        OBVIOUS
      <4> HIDE DEF N
      <4> QED BY <2>7, <4>1, <4>2
    <3>2. CASE x = u
      BY <3>1, <3>2, <2>6
    <3>3. CASE x # u
      <4>1. x \in N <=> x \in M
        BY <3>3
      <4> HIDE DEF N
      <4> QED BY <4>1, <3>1, <3>3, <2>6 DEF Scanned
    <3> QED BY <3>2, <3>3
  <2>9. N \in SUBSET U
    BY <2>6, <2>4
  <2> QED BY <2>8, <2>9, <2>1
<1> QED BY <1>1 DEF Ordered

LEMMA MarksScan ==
    ASSUME NEW S, NEW key, NEW apart, Ordered(S, key)
    PROVE  Marks(S, key, apart) \in SUBSET S /\ Scanned(S, key, apart, Marks(S, key, apart))
<1> DEFINE P(M) == \A x \in S :
              LET before == {m \in M : key[m] < key[x]} IN
              x \in M <=> \A m \in before : (\A l \in before : key[l] <= key[m]) => x \in apart[m]
<1>1. \A M : P(M) <=> Scanned(S, key, apart, M)
  BY DEF Scanned, Before
<1> HIDE DEF P
<1>2. \E M \in SUBSET S : P(M)
  BY <1>1, ScanExists
<1>3. Marks(S, key, apart) = CHOOSE M \in SUBSET S : P(M)
  BY DEF Marks, P
<1>4. Marks(S, key, apart) \in SUBSET S /\ P(Marks(S, key, apart))
  BY <1>2, <1>3
<1> QED BY <1>1, <1>4

(***************************************************************************)
(* Sessions.                                                               *)
(***************************************************************************)
Parts(S, key, time, full, x, y) ==
    \/ \A z \in S : key[z] < key[y] => time[y] - time[z] > CorrelationWindow
    \/ time[y] - time[x] > MaxSpan
    \/ y \in full[x]
SessionOf(S, key, H, x) == {y \in S : key[x] <= key[y] /\ \A h \in H : key[h] <= key[y] => key[h] <= key[x]}
Heads(S, key, time, full, H) ==
    /\ H \in SUBSET S
    /\ \A x \in S : x \in H <=> \A m \in H : Before(H, key, x, m) => Parts(S, key, time, full, m, x)
    /\ Sessionize(S, key, time, full) = {SessionOf(S, key, H, x) : x \in H}

LEMMA HeadsExist ==
    ASSUME NEW S, NEW key, NEW time, NEW full, Ordered(S, key)
    PROVE  \E H : Heads(S, key, time, full, H)
<1> DEFINE apart == [x \in S |-> {y \in S : Parts(S, key, time, full, x, y)}]
           H == Marks(S, key, apart)
<1>1. H \in SUBSET S /\ Scanned(S, key, apart, H)
  BY MarksScan
<1>2. Sessionize(S, key, time, full) = {SessionOf(S, key, H, x) : x \in H}
  BY DEF Sessionize, SessionOf, Parts
<1> HIDE DEF H
<1>3. \A x \in S, m \in H : x \in apart[m] <=> Parts(S, key, time, full, m, x)
  BY <1>1
<1> HIDE DEF apart
<1>4. Heads(S, key, time, full, H)
  BY <1>1, <1>2, <1>3 DEF Heads, Scanned
<1> QED BY <1>4

\* Every item is in one session.
LEMMA SessionsPartition ==
    ASSUME NEW S, NEW key, NEW time, NEW full, Ordered(S, key)
    PROVE  LET P == Sessionize(S, key, time, full) IN
           /\ \A A \in P : A \in SUBSET S /\ A # {}
           /\ \A x \in S : \E A \in P : x \in A
           /\ \A A, B \in P : A \cap B # {} => A = B
<1> DEFINE P == Sessionize(S, key, time, full)
<1>1. PICK H : Heads(S, key, time, full, H)
  BY HeadsExist
<1>2. H \in SUBSET S /\ P = {SessionOf(S, key, H, x) : x \in H}
  BY <1>1 DEF Heads
<1> HIDE DEF P
<1>3. \A x \in S : key[x] \in Int
  BY DEF Ordered
<1>4. \A x, y \in S : key[x] = key[y] => x = y
  BY DEF Ordered
<1>5. \A A \in P : A \in SUBSET S /\ A # {}
  <2> SUFFICES ASSUME NEW x \in H PROVE SessionOf(S, key, H, x) \in SUBSET S /\ x \in SessionOf(S, key, H, x)
    BY <1>2
  <2> QED BY <1>2, <1>3 DEF SessionOf
<1>6. ASSUME NEW x \in S PROVE \E A \in P : x \in A
  <2> DEFINE T == {h \in H : key[h] <= key[x]}
  <2>1. T # {}
    <3>1. CASE x \in H
      BY <3>1, <1>3
    <3>2. CASE x \notin H
      <4>1. PICK m \in H : Before(H, key, x, m)
        BY <3>2, <1>1 DEF Heads
      <4>2. key[m] < key[x] /\ key[m] \in Int /\ key[x] \in Int
        BY <4>1, <1>2, <1>3 DEF Before
      <4> QED BY <4>2
    <3> QED BY <3>1, <3>2
  <2>2. IsFiniteSet(T) /\ \A h \in T : key[h] \in Int
    <3>1. T \in SUBSET S
      BY <1>2
    <3> QED BY <3>1, FS_Subset, <1>3 DEF Ordered
  <2>3. PICK a \in T : \A h \in T : key[h] <= key[a]
    <3> HIDE DEF T
    <3> QED BY <2>1, <2>2, Extremes
  <2>4. x \in SessionOf(S, key, H, a) /\ a \in H
    BY <2>3 DEF SessionOf
  <2> QED BY <2>4, <1>2
<1>7. ASSUME NEW A \in P, NEW B \in P, NEW y \in A \cap B PROVE A = B
  <2>1. PICK a \in H : A = SessionOf(S, key, H, a)
    BY <1>2
  <2>2. PICK b \in H : B = SessionOf(S, key, H, b)
    BY <1>2
  <2>3. key[a] <= key[b] /\ key[b] <= key[a]
    BY <2>1, <2>2 DEF SessionOf
  <2>4. a = b
    BY <2>3, <1>2, <1>3, <1>4
  <2> QED BY <2>1, <2>2, <2>4
<1> QED BY <1>5, <1>6, <1>7 DEF P

\* Nothing parts an item of a session from its first one.
LEMMA SessionHead ==
    ASSUME NEW S, NEW key, NEW time, NEW full, Ordered(S, key), NEW A \in Sessionize(S, key, time, full)
    PROVE  \E x \in A : \A y \in A : key[x] <= key[y] /\ (y # x => ~Parts(S, key, time, full, x, y))
<1>1. PICK H : Heads(S, key, time, full, H)
  BY HeadsExist
<1>2. PICK a \in H : A = SessionOf(S, key, H, a)
  BY <1>1 DEF Heads
<1>3. H \in SUBSET S /\ a \in S /\ A \in SUBSET S
  BY <1>1, <1>2 DEF Heads, SessionOf
<1>4. \A x \in S : key[x] \in Int
  BY DEF Ordered
<1>5. a \in A
  BY <1>2, <1>3, <1>4 DEF SessionOf
<1>6. \A y \in A : key[a] <= key[y] /\ \A h \in H : key[h] <= key[y] => key[h] <= key[a]
  BY <1>2 DEF SessionOf
<1>7. ASSUME NEW y \in A, y # a PROVE ~Parts(S, key, time, full, a, y)
  <2>1. key[a] # key[y]
    BY <1>7, <1>3 DEF Ordered
  <2>2. y \notin H
    <3>1. y \in H => key[y] <= key[a]
      BY <1>6, <1>3, <1>4
    <3> QED BY <3>1, <2>1, <1>6, <1>3, <1>4
  <2>3. PICK m \in H : Before(H, key, y, m) /\ ~Parts(S, key, time, full, m, y)
    BY <2>2, <1>1, <1>3 DEF Heads
  <2>4. key[a] <= key[m]
    BY <2>3, <2>1, <1>6, <1>3, <1>4 DEF Before
  <2>5. key[m] <= key[a]
    BY <2>3, <1>6, <1>3, <1>4 DEF Before
  <2>6. m = a
    BY <2>4, <2>5, <1>3, <1>4 DEF Ordered
  <2> QED BY <2>3, <2>6
<1> QED BY <1>5, <1>6, <1>7

\* Session A ends where z begins the next one, and B comes after it.
Cut(S, key, time, full, A, B, x, z) ==
    /\ x \in A /\ z \in S /\ Parts(S, key, time, full, x, z)
    /\ \A y \in S : y \in A <=> key[x] <= key[y] /\ key[y] < key[z]
    /\ \A y \in B : key[z] <= key[y]

LEMMA SessionEnd ==
    ASSUME NEW S, NEW key, NEW time, NEW full, Ordered(S, key),
           NEW A \in Sessionize(S, key, time, full), NEW B \in Sessionize(S, key, time, full), A # B
    PROVE  \/ \E x, z : Cut(S, key, time, full, A, B, x, z)
           \/ \E x, z : Cut(S, key, time, full, B, A, x, z)
<1>1. PICK H : Heads(S, key, time, full, H)
  BY HeadsExist
<1>2. H \in SUBSET S /\ \A x \in S : key[x] \in Int
  BY <1>1 DEF Heads, Ordered
<1>3. ASSUME NEW a \in H, NEW b \in H, key[a] < key[b]
      PROVE  \E x, z : Cut(S, key, time, full, SessionOf(S, key, H, a), SessionOf(S, key, H, b), x, z)
  <2> DEFINE T == {h \in H : key[a] < key[h]}
  <2>1. IsFiniteSet(T) /\ T # {} /\ \A h \in T : key[h] \in Int
    <3>1. T \in SUBSET S
      BY <1>2
    <3> QED BY <3>1, FS_Subset, <1>2, <1>3 DEF Ordered
  <2>2. PICK z \in T : \A h \in T : key[z] <= key[h]
    <3> HIDE DEF T
    <3> QED BY <2>1, Extremes
  <2>3. a \in S /\ z \in S /\ z \in H /\ key[a] < key[z]
    BY <2>2, <1>2
  <2>4. \A l \in H : key[l] < key[z] => key[l] <= key[a]
    BY <2>2, <2>3, <1>2
  <2>5. Parts(S, key, time, full, a, z)
    <3>1. Before(H, key, z, a)
      BY <2>3, <2>4 DEF Before
    <3> QED BY <3>1, <2>3, <1>1 DEF Heads
  <2>6. ASSUME NEW y \in S
        PROVE  y \in SessionOf(S, key, H, a) <=> key[a] <= key[y] /\ key[y] < key[z]
    <3>1. ASSUME y \in SessionOf(S, key, H, a) PROVE key[y] < key[z]
      BY <3>1, <2>3, <1>2 DEF SessionOf
    <3>2. ASSUME key[y] < key[z], NEW h \in H, key[h] <= key[y] PROVE key[h] <= key[a]
      BY <3>2, <2>3, <2>4, <1>2
    <3> QED BY <3>1, <3>2 DEF SessionOf
  <2>7. \A y \in SessionOf(S, key, H, b) : key[z] <= key[y]
    <3>1. key[z] <= key[b]
      BY <2>2, <1>3
    <3> QED BY <3>1, <2>3, <1>2 DEF SessionOf
  <2>8. a \in SessionOf(S, key, H, a)
    BY <2>3, <2>6, <1>2
  <2>9. Cut(S, key, time, full, SessionOf(S, key, H, a), SessionOf(S, key, H, b), a, z)
    BY <2>3, <2>5, <2>6, <2>7, <2>8 DEF Cut
  <2> QED BY <2>9
<1>4. PICK a \in H : A = SessionOf(S, key, H, a)
  BY <1>1 DEF Heads
<1>5. PICK b \in H : B = SessionOf(S, key, H, b)
  BY <1>1 DEF Heads
<1>6. key[a] < key[b] \/ key[b] < key[a]
  BY <1>2, <1>4, <1>5 DEF Ordered
<1> QED BY <1>3, <1>4, <1>5, <1>6

(***************************************************************************)
(* Cases, and the events a rule fires on.                                  *)
(***************************************************************************)
IsCase(es) ==
    /\ Len(es) \in Nat
    /\ \A i \in Ids(es) : es[i].kind \in Kinds /\ At(es, i) \in (0..Horizon) \cup {Untimed}
    /\ \A i, j \in Ids(es) : i < j /\ IsTimed(es, i) => IsTimed(es, j) /\ At(es, i) <= At(es, j)

LEMMA ConfigFacts ==
    /\ AuthThreshold \in Nat /\ FanoutThreshold \in Nat /\ ScanThreshold \in Nat /\ FailureThreshold \in Nat
    /\ AuthThreshold >= 2 /\ FanoutThreshold >= 2 /\ ScanThreshold >= 2 /\ FailureThreshold >= 2
    /\ MinSamples \in Nat /\ MaxSamples \in Nat /\ MinSamples >= 2 /\ MaxSamples >= 2
    /\ AuthWindow \in Nat /\ NetWindow \in Nat /\ CorrelationWindow \in Nat /\ CorrelationWindow >= 1
    /\ MaxSpan \in Nat /\ SupportLimit \in Nat /\ SupportLimit >= 1 /\ MaxLabelled \in Nat /\ MaxLabelled >= 1
BY ConfigConstants

LEMMA AnalysisFacts ==
    /\ Horizon \in Nat /\ Untimed \in Int /\ Untimed \notin 0..Horizon
    /\ Minute \in Nat /\ Minute >= 1 /\ MinVolume \in Nat /\ MinVolume >= 1
    /\ FindingLimit \in Nat /\ FindingLimit >= 1 /\ MaxIncidentEvents \in Nat /\ MaxIncidentEvents >= 1
    /\ FindingLimit <= MaxIncidentEvents /\ ReferenceLimit \in Nat
BY AnalysisConstants

LEMMA CaseFacts ==
    ASSUME NEW es, IsCase(es)
    PROVE  /\ IsFiniteSet(Ids(es)) /\ Ids(es) \in SUBSET Int
           /\ \A i \in Ids(es) : At(es, i) \in Int /\ (IsTimed(es, i) => At(es, i) \in 0..Horizon)
           /\ \A i, j \in Ids(es) : i <= j /\ IsTimed(es, i) => IsTimed(es, j) /\ At(es, i) <= At(es, j)
<1>1. IsFiniteSet(Ids(es)) /\ Ids(es) \in SUBSET Int
  <2>1. Len(es) \in Int /\ 1 \in Int
    BY DEF IsCase
  <2>2. IsFiniteSet(1..Len(es))
    BY <2>1, FS_Interval
  <2> QED BY <2>1, <2>2 DEF Ids
<1>2. \A i \in Ids(es) : At(es, i) \in Int /\ (IsTimed(es, i) => At(es, i) \in 0..Horizon)
  BY AnalysisFacts DEF IsCase, IsTimed
<1>3. ASSUME NEW i \in Ids(es), NEW j \in Ids(es), i <= j, IsTimed(es, i)
      PROVE  IsTimed(es, j) /\ At(es, i) <= At(es, j)
  <2>1. CASE i = j
    BY <2>1, <1>2, <1>3
  <2>2. CASE i < j
    BY <2>2, <1>3 DEF IsCase
  <2> QED BY <2>1, <2>2, <1>3, <1>1
<1> QED BY <1>1, <1>2, <1>3

LEMMA IdsOrdered ==
    ASSUME NEW es, IsCase(es), NEW S \in SUBSET Ids(es)
    PROVE  Ordered(S, [i \in S |-> i])
<1>1. IsFiniteSet(S) /\ S \in SUBSET Int
  BY CaseFacts, FS_Subset
<1> QED BY <1>1 DEF Ordered

\* The last of some events.
LEMMA LastId ==
    ASSUME NEW es, IsCase(es), NEW S \in SUBSET Ids(es), S # {}
    PROVE  Max(S) \in S /\ \A j \in S : j <= Max(S)
<1> DEFINE key == [i \in S |-> i]
<1>1. IsFiniteSet(S) /\ \A i \in S : key[i] \in Int
  BY CaseFacts, FS_Subset
<1> HIDE DEF key
<1>2. PICK x \in S : \A y \in S : key[y] <= key[x]
  BY <1>1, Extremes
<1>3. x \in S /\ \A y \in S : x >= y
  BY <1>2, CaseFacts DEF key
<1>4. Max(S) \in S /\ \A y \in S : Max(S) >= y
  BY <1>3 DEF Max
<1> QED BY <1>4, CaseFacts

\* A rule fires in the window before every event that reaches its threshold, and once in a window.
LEMMA TriggersScan ==
    ASSUME NEW es, IsCase(es), NEW reached \in SUBSET Ids(es), NEW window \in Nat,
           \A i \in reached : IsTimed(es, i)
    PROVE  LET T == Triggers(es, reached, window) IN
           /\ T \in SUBSET reached
           /\ \A i \in reached : \E t \in T : t <= i /\ At(es, i) - At(es, t) <= window
           /\ \A s, t \in T : s < t => At(es, t) - At(es, s) > window
<1> DEFINE key == [i \in reached |-> i]
           apart == [i \in reached |-> {j \in reached : ~Silenced(es, i, j, window)}]
           T == Triggers(es, reached, window)
<1>1. Ordered(reached, key)
  BY IdsOrdered
<1>2. T = Marks(reached, key, apart)
  BY DEF Triggers
<1>3. \A i, j \in reached : j \in apart[i] <=> At(es, j) - At(es, i) > window
  BY CaseFacts DEF Silenced
<1>4. \A i \in reached : key[i] = i
  OBVIOUS
<1> HIDE DEF key, apart, T
<1>5. T \in SUBSET reached /\ Scanned(reached, key, apart, T)
  BY <1>1, <1>2, MarksScan
<1>6. ASSUME NEW i \in reached PROVE \E t \in T : t <= i /\ At(es, i) - At(es, t) <= window
  <2>1. CASE i \in T
    BY <2>1, CaseFacts
  <2>2. CASE i \notin T
    <3>1. PICK m \in T : Before(T, key, i, m) /\ i \notin apart[m]
      BY <2>2, <1>5, <1>6 DEF Scanned
    <3>2. m \in reached /\ m < i /\ At(es, i) - At(es, m) <= window
      BY <3>1, <1>3, <1>4, <1>5, CaseFacts DEF Before
    <3> QED BY <3>2, <3>1, CaseFacts
  <2> QED BY <2>1, <2>2
<1>7. ASSUME NEW s \in T, NEW t \in T, s < t PROVE At(es, t) - At(es, s) > window
  <2> DEFINE L == {l \in T : l < t}
  <2>1. L \in SUBSET Ids(es) /\ L # {}
    BY <1>5, <1>7
  <2>2. Max(L) \in L /\ \A j \in L : j <= Max(L)
    <3> HIDE DEF L
    <3> QED BY <2>1, LastId
  <2>3. PICK m \in T : m < t /\ \A l \in T : l < t => l <= m
    BY <2>2
  <2>4. Before(T, key, t, m)
    BY <2>3, <1>4, <1>5 DEF Before
  <2>5. t \in apart[m]
    BY <2>4, <1>5 DEF Scanned
  <2>6. At(es, t) - At(es, m) > window
    BY <2>5, <1>3, <1>5
  <2>7. At(es, s) <= At(es, m)
    BY <2>3, <1>5, <1>7, CaseFacts
  <2>8. s \in Ids(es) /\ t \in Ids(es) /\ m \in Ids(es)
    BY <1>5
  <2> QED BY <2>6, <2>7, <2>8, CaseFacts
<1> QED BY <1>5, <1>6, <1>7 DEF T

(***************************************************************************)
(* What a candidate is made of.                                            *)
(***************************************************************************)
Shaped(es, c) ==
    /\ c.events \in SUBSET Ids(es) /\ c.triggers \in SUBSET Ids(es) /\ c.triggers # {}
    /\ \/ \E t \in c.triggers : \A j \in c.events \cup c.triggers : IsTimed(es, j) /\ j <= t
       \/ \A j \in c.events \cup c.triggers : ~IsTimed(es, j)
SizeBound == Max({AuthThreshold, SupportLimit, MaxLabelled, MaxSamples + 1})

LEMMA SizeBoundIs ==
    /\ SizeBound \in Nat /\ SizeBound >= 2
    /\ AuthThreshold <= SizeBound /\ SupportLimit <= SizeBound
    /\ MaxLabelled <= SizeBound /\ MaxSamples + 1 <= SizeBound
<1> DEFINE S == {AuthThreshold, SupportLimit, MaxLabelled, MaxSamples + 1}
           key == [i \in S |-> i]
<1>1. IsFiniteSet(S) /\ S # {} /\ \A i \in S : key[i] \in Int
  <2>1. IsFiniteSet({AuthThreshold} \cup {SupportLimit} \cup {MaxLabelled} \cup {MaxSamples + 1})
    <3>1. IsFiniteSet({AuthThreshold} \cup {SupportLimit})
      BY FS_Singleton, FS_AddElement
    <3>2. IsFiniteSet({AuthThreshold} \cup {SupportLimit} \cup {MaxLabelled})
      BY <3>1, FS_AddElement
    <3> QED BY <3>2, FS_AddElement
  <2>2. S = {AuthThreshold} \cup {SupportLimit} \cup {MaxLabelled} \cup {MaxSamples + 1}
    OBVIOUS
  <2> QED BY <2>1, <2>2, ConfigFacts
<1>2. \A i \in S : key[i] = i
  OBVIOUS
<1>3. S \in SUBSET Nat
  BY ConfigFacts
<1> HIDE DEF key
<1>4. PICK x \in S : \A y \in S : key[y] <= key[x]
  <2> HIDE DEF S
  <2> QED BY <1>1, Extremes
<1>5. x \in S /\ \A y \in S : x >= y
  BY <1>4, <1>2, <1>3
<1>6. SizeBound \in S /\ \A y \in S : SizeBound >= y
  <2>1. SizeBound = Max(S)
    BY DEF SizeBound
  <2> HIDE DEF S
  <2> QED BY <2>1, <1>5 DEF Max
<1>7. SizeBound \in Nat
  BY <1>6, <1>3
<1> QED BY <1>6, <1>7, ConfigFacts

LEMMA NewestFacts ==
    ASSUME NEW es, IsCase(es), NEW S \in SUBSET Ids(es), NEW n \in Nat
    PROVE  /\ Newest(S, n) \in SUBSET S
           /\ Cardinality(Newest(S, n)) <= n
           /\ \A i \in S : n >= 1 /\ (\A j \in S : j <= i) => i \in Newest(S, n)
<1> DEFINE U == Newest(S, n)
           key == [i \in U |-> i]
<1>1. U \in SUBSET S /\ \A i \in U : Cardinality({j \in S : j > i}) < n
  BY DEF Newest
<1>2. IsFiniteSet(S) /\ S \in SUBSET Int
  BY CaseFacts, FS_Subset
<1>3. \A i \in U : key[i] = i /\ key[i] \in Int
  BY <1>1, <1>2
<1>4. IsFiniteSet(U)
  BY <1>1, <1>2, FS_Subset
<1> HIDE DEF U, key
<1>5. Cardinality(U) <= n
  <2>1. CASE U = {}
    BY <2>1, FS_EmptySet
  <2>2. CASE U # {}
    <3>1. PICK u \in U : \A y \in U : key[u] <= key[y]
      BY <2>2, <1>3, <1>4, Extremes
    <3> DEFINE above == {j \in S : j > u}
    <3>2. IsFiniteSet(above)
      BY <1>2, FS_Subset
    <3>3. (U \ {u}) \in SUBSET above
      BY <3>1, <1>1, <1>2, <1>3
    <3>4. Cardinality(U \ {u}) <= Cardinality(above)
      BY <3>2, <3>3, FS_Subset
    <3>5. Cardinality(above) < n /\ Cardinality(above) \in Nat
      BY <1>1, <3>1, <3>2, FS_CardinalityType
    <3>6. Cardinality(U \ {u}) = Cardinality(U) - 1
      BY <1>4, <3>1, FS_RemoveElement
    <3>7. Cardinality(U) \in Nat
      BY <1>4, FS_CardinalityType
    <3> QED BY <3>4, <3>5, <3>6, <3>7
  <2> QED BY <2>1, <2>2
<1>6. ASSUME NEW i \in S, n >= 1, \A j \in S : j <= i PROVE i \in U
  <2>1. {j \in S : j > i} = {}
    <3>1. \A j \in S : ~(j > i)
      BY <1>6, <1>2
    <3> QED BY <3>1
  <2>2. Cardinality({j \in S : j > i}) < n
    BY <2>1, <1>6, FS_EmptySet
  <2> QED BY <2>2 DEF U, Newest
<1> QED BY <1>1, <1>5, <1>6 DEF U

\* The events in the window at i: i is the last of them.
LEMMA ActiveFacts ==
    ASSUME NEW es, IsCase(es), NEW group \in SUBSET Ids(es), NEW i \in group, NEW window \in Nat
    PROVE  /\ Active(es, group, i, window) \in SUBSET group
           /\ i \in Active(es, group, i, window)
           /\ \A j \in Active(es, group, i, window) : j <= i
BY CaseFacts DEF Active

LEMMA AuthGroupFacts ==
    ASSUME NEW es, IsCase(es), NEW group \in AuthGroups(es)
    PROVE  /\ group \in SUBSET Ids(es) /\ \A i \in group : IsTimed(es, i)
           /\ LET T == AuthTriggers(es, group) IN
              /\ T \in SUBSET group
              /\ \A i \in group : AuthReached(es, group, i)
                    => \E t \in T : t <= i /\ At(es, i) - At(es, t) <= AuthWindow
              /\ \A s, t \in T : s < t => At(es, t) - At(es, s) > AuthWindow
<1>1. group \in SUBSET Ids(es) /\ \A i \in group : IsTimed(es, i)
  BY DEF AuthGroups, AuthGroup, AuthGrouped
<1> DEFINE reached == {i \in group : AuthReached(es, group, i)}
<1>2. reached \in SUBSET Ids(es) /\ \A i \in reached : IsTimed(es, i)
  BY <1>1
<1>3. AuthTriggers(es, group) = Triggers(es, reached, AuthWindow)
  BY DEF AuthTriggers
<1>4. \A i \in group : i \in reached <=> AuthReached(es, group, i)
  OBVIOUS
<1>5. reached \in SUBSET group
  OBVIOUS
<1> HIDE DEF reached
<1>6. AuthWindow \in Nat
  BY ConfigFacts
<1> QED BY <1>1, <1>2, <1>3, <1>4, <1>5, <1>6, TriggersScan

LEMMA AuthShape ==
    ASSUME NEW es, IsCase(es), NEW c \in AuthenticationFailures(es)
    PROVE  \E group \in AuthGroups(es) : \E i \in AuthTriggers(es, group) :
              /\ c = Candidate("AUTH-001", AuthEntity(es, i), es[i].kind.actor,
                               Newest(Active(es, group, i, AuthWindow), AuthThreshold), {i}, AuthThreshold)
              /\ Shaped(es, c) /\ WellFormed(c) /\ Cardinality(c.events) <= SizeBound
<1>1. PICK group \in AuthGroups(es) : \E i \in AuthTriggers(es, group) :
              c = Candidate("AUTH-001", AuthEntity(es, i), es[i].kind.actor,
                            Newest(Active(es, group, i, AuthWindow), AuthThreshold), {i}, AuthThreshold)
  BY DEF AuthenticationFailures
<1>2. PICK i \in AuthTriggers(es, group) :
              c = Candidate("AUTH-001", AuthEntity(es, i), es[i].kind.actor,
                            Newest(Active(es, group, i, AuthWindow), AuthThreshold), {i}, AuthThreshold)
  BY <1>1
<1> DEFINE active == Active(es, group, i, AuthWindow)
           support == Newest(active, AuthThreshold)
<1>3. i \in group /\ group \in SUBSET Ids(es) /\ \A j \in group : IsTimed(es, j)
  BY AuthGroupFacts
<1>4. active \in SUBSET group /\ i \in active /\ \A j \in active : j <= i
  BY <1>3, ActiveFacts, ConfigFacts
<1>5. support \in SUBSET active /\ Cardinality(support) <= AuthThreshold /\ i \in support
  <2> HIDE DEF active
  <2> QED BY <1>3, <1>4, NewestFacts, ConfigFacts
<1>6. c.events = support /\ c.triggers = {i}
  BY <1>2 DEF Candidate
<1> HIDE DEF support, active
<1>7. Shaped(es, c)
  BY <1>3, <1>4, <1>5, <1>6 DEF Shaped
<1>8. Cardinality(c.events) <= SizeBound
  <2>1. IsFiniteSet(support)
    BY <1>3, <1>4, <1>5, CaseFacts, FS_Subset
  <2>2. Cardinality(support) \in Nat
    BY <2>1, FS_CardinalityType
  <2> QED BY <2>2, <1>5, <1>6, SizeBoundIs, ConfigFacts
<1> QED BY <1>2, <1>5, <1>6, <1>7, <1>8 DEF WellFormed

LEMMA FlowGroupFacts ==
    ASSUME NEW es, IsCase(es), NEW group \in FlowGroups(es), NEW rule
    PROVE  /\ group \in SUBSET Ids(es) /\ \A i \in group : IsTimed(es, i)
           /\ LET T == NetTriggers(es, rule, group) IN
              /\ T \in SUBSET group /\ \A i \in T : NetReached(es, rule, group, i)
              /\ \A i \in group : NetReached(es, rule, group, i)
                    => \E t \in T : t <= i /\ At(es, i) - At(es, t) <= NetWindow
              /\ \A s, t \in T : s < t => At(es, t) - At(es, s) > NetWindow
<1>1. group \in SUBSET Ids(es) /\ \A i \in group : IsTimed(es, i)
  BY DEF FlowGroups, FlowGroup, IsFlow
<1> DEFINE reached == {i \in group : NetReached(es, rule, group, i)}
<1>2. reached \in SUBSET Ids(es) /\ \A i \in reached : IsTimed(es, i)
  BY <1>1
<1>3. NetTriggers(es, rule, group) = Triggers(es, reached, NetWindow)
  BY DEF NetTriggers
<1>4. \A i \in group : i \in reached <=> NetReached(es, rule, group, i)
  OBVIOUS
<1>5. reached \in SUBSET group
  OBVIOUS
<1> HIDE DEF reached
<1>6. NetWindow \in Nat
  BY ConfigFacts
<1>7. Triggers(es, reached, NetWindow) \in SUBSET reached
  BY <1>2, <1>6, TriggersScan
<1>8. \A i \in reached : \E t \in Triggers(es, reached, NetWindow) : t <= i /\ At(es, i) - At(es, t) <= NetWindow
  BY <1>2, <1>6, TriggersScan
<1>9. \A s, t \in Triggers(es, reached, NetWindow) : s < t => At(es, t) - At(es, s) > NetWindow
  BY <1>2, <1>6, TriggersScan
<1> QED BY <1>1, <1>3, <1>4, <1>5, <1>7, <1>8, <1>9

\* Only the failures of a window may leave the trigger out.
LEMMA NetShape ==
    ASSUME NEW es, IsCase(es), NEW c \in NetworkBehaviors(es)
    PROVE  \E rule \in NetworkRules, group \in FlowGroups(es) : \E i \in NetTriggers(es, rule, group) :
              /\ c.rule = rule /\ c.entity = PrimaryEntity(es, i) /\ c.about = es[i].kind.src
              /\ c = LET active == Active(es, group, i, NetWindow) IN
                     Candidate(rule, PrimaryEntity(es, i), es[i].kind.src, Supporting(es, rule, active),
                               {i}, Measured(es, rule, active))
              /\ c.triggers = {i} /\ Shaped(es, c) /\ Cardinality(c.events) <= SizeBound
              /\ WellFormed(c) \/ (rule = "NET-FAILURE-001" /\ es[i].kind.outcome \notin FailureStates)
<1>1. PICK p \in NetworkRules \X FlowGroups(es) : \E i \in NetTriggers(es, p[1], p[2]) :
         c = LET active == Active(es, p[2], i, NetWindow) IN
             Candidate(p[1], PrimaryEntity(es, i), es[i].kind.src, Supporting(es, p[1], active),
                       {i}, Measured(es, p[1], active))
  BY DEF NetworkBehaviors
<1>2. PICK rule \in NetworkRules, group \in FlowGroups(es) : p = <<rule, group>>
  BY <1>1
<1>3. PICK i \in NetTriggers(es, rule, group) :
         c = LET active == Active(es, group, i, NetWindow) IN
             Candidate(rule, PrimaryEntity(es, i), es[i].kind.src, Supporting(es, rule, active),
                       {i}, Measured(es, rule, active))
  BY <1>1, <1>2
<1> DEFINE active == Active(es, group, i, NetWindow)
           pool == IF rule = "NET-FAILURE-001" THEN Failures(es, active) ELSE active
           support == Newest(pool, SupportLimit)
<1>4. i \in group /\ group \in SUBSET Ids(es) /\ \A j \in group : IsTimed(es, j)
  BY FlowGroupFacts
<1>5. active \in SUBSET group /\ i \in active /\ \A j \in active : j <= i
  BY <1>4, ActiveFacts, ConfigFacts
<1>6. pool \in SUBSET active /\ (i \in pool \/ (rule = "NET-FAILURE-001" /\ es[i].kind.outcome \notin FailureStates))
  <2> HIDE DEF active
  <2> QED BY <1>5 DEF Failures
<1>7. support \in SUBSET pool /\ Cardinality(support) <= SupportLimit /\ (i \in pool => i \in support)
  <2>1. pool \in SUBSET Ids(es) /\ \A j \in pool : j <= i
    BY <1>4, <1>5, <1>6
  <2> HIDE DEF active, pool
  <2> QED BY <2>1, NewestFacts, ConfigFacts
<1>8. /\ c.events = support /\ c.triggers = {i} /\ c.rule = rule
      /\ c.entity = PrimaryEntity(es, i) /\ c.about = es[i].kind.src
  BY <1>3 DEF Candidate, Supporting
<1> HIDE DEF support, active, pool
<1>9. Shaped(es, c)
  BY <1>4, <1>5, <1>6, <1>7, <1>8 DEF Shaped
<1>10. Cardinality(c.events) <= SizeBound
  <2>1. IsFiniteSet(support)
    BY <1>4, <1>5, <1>6, <1>7, CaseFacts, FS_Subset
  <2>2. Cardinality(support) \in Nat
    BY <2>1, FS_CardinalityType
  <2> QED BY <2>2, <1>7, <1>8, SizeBoundIs, ConfigFacts
<1>11. WellFormed(c) \/ (rule = "NET-FAILURE-001" /\ es[i].kind.outcome \notin FailureStates)
  BY <1>6, <1>7, <1>8 DEF WellFormed
<1> QED BY <1>3, <1>8, <1>9, <1>10, <1>11

LEMMA RateShape ==
    ASSUME NEW es, IsCase(es), NEW c \in RequestRate(es)
    PROVE  c.rule = "RATE-001" /\ Shaped(es, c) /\ WellFormed(c) /\ Cardinality(c.events) <= SizeBound
<1>1. PICK i \in Ids(es) : c = Candidate("RATE-001", PrimaryEntity(es, i), None, {i}, {i}, 1)
  BY DEF RequestRate
<1>2. c.rule = "RATE-001" /\ c.events = {i} /\ c.triggers = {i}
  BY <1>1 DEF Candidate
<1>3. Shaped(es, c) /\ WellFormed(c)
  BY <1>2, CaseFacts DEF Shaped, WellFormed
<1>4. Cardinality(c.events) <= SizeBound
  <2>1. Cardinality({i}) = 1
    BY FS_Singleton
  <2> QED BY <1>2, <2>1, SizeBoundIs
<1> QED BY <1>2, <1>3, <1>4

LEMMA SampleFacts ==
    ASSUME NEW es, IsCase(es), NEW stream
    PROVE  Samples(es, stream) \in SUBSET Ids(es) /\ \A i \in Samples(es, stream) : IsTimed(es, i)
BY DEF Samples, Measures

LEMMA SpikeShape ==
    ASSUME NEW es, IsCase(es), NEW c \in BaselineSpikes(es)
    PROVE  c.rule = "BASELINE-001" /\ Shaped(es, c) /\ WellFormed(c) /\ Cardinality(c.events) <= SizeBound
<1>1. PICK stream \in Streams(es) : \E i \in Spikes(es, stream) :
         c = Candidate("BASELINE-001", stream[1], stream[2],
                       History(Samples(es, stream), i) \cup {i}, {i}, 1)
  BY DEF BaselineSpikes
<1>2. PICK i \in Spikes(es, stream) :
         c = Candidate("BASELINE-001", stream[1], stream[2],
                       History(Samples(es, stream), i) \cup {i}, {i}, 1)
  BY <1>1
<1> DEFINE S == Samples(es, stream)
           earlier == Earlier(S, i)
           history == Newest(earlier, MaxSamples)
<1>3. i \in S /\ S \in SUBSET Ids(es) /\ \A j \in S : IsTimed(es, j)
  BY SampleFacts DEF Spikes
<1>4. earlier \in SUBSET S /\ \A j \in earlier : j < i
  <2> HIDE DEF S
  <2> QED BY DEF Earlier
<1>5. history \in SUBSET earlier /\ Cardinality(history) <= MaxSamples
  <2>1. earlier \in SUBSET Ids(es)
    BY <1>3, <1>4
  <2> HIDE DEF earlier
  <2> QED BY <2>1, NewestFacts, ConfigFacts
<1>6. c.rule = "BASELINE-001" /\ c.events = history \cup {i} /\ c.triggers = {i}
  BY <1>2 DEF Candidate, History
<1> HIDE DEF history, earlier, S
<1>7. Shaped(es, c) /\ WellFormed(c)
  <2>1. \A j \in history \cup {i} : j \in S /\ j <= i
    BY <1>3, <1>4, <1>5, CaseFacts
  <2> QED BY <2>1, <1>3, <1>6 DEF Shaped, WellFormed
<1>8. Cardinality(c.events) <= SizeBound
  <2>1. IsFiniteSet(history)
    BY <1>3, <1>4, <1>5, CaseFacts, FS_Subset
  <2>2. Cardinality(history) \in Nat
    BY <2>1, FS_CardinalityType
  <2>3. Cardinality(history \cup {i}) <= Cardinality(history) + 1
    <3>1. Cardinality(history \cup {i}) = IF i \in history THEN Cardinality(history) ELSE Cardinality(history) + 1
      BY <2>1, FS_AddElement
    <3> QED BY <2>2, <3>1
  <2>4. IsFiniteSet(history \cup {i})
    BY <2>1, FS_AddElement
  <2>5. Cardinality(history \cup {i}) \in Nat
    BY <2>4, FS_CardinalityType
  <2> QED BY <2>2, <2>3, <2>5, <1>5, <1>6, SizeBoundIs, ConfigFacts
<1> QED BY <1>6, <1>7, <1>8

\* A rule that fires alternately fires on some of the jumps.
LEMMA TurnsFacts ==
    ASSUME NEW es, IsCase(es), NEW S, NEW jumps \in SUBSET Ids(es)
    PROVE  Turns(S, jumps) \in SUBSET jumps
<1> DEFINE key == [i \in jumps |-> i]
           apart == [i \in jumps |-> {j \in jumps : Previous(S, j) # i}]
<1>1. Ordered(jumps, key)
  BY IdsOrdered
<1>2. Turns(S, jumps) = Marks(jumps, key, apart)
  BY DEF Turns
<1> HIDE DEF key, apart
<1> QED BY <1>1, <1>2, MarksScan

\* A jump comes after a sample.
LEMMA JumpFacts ==
    ASSUME NEW es, IsCase(es), NEW stream
    PROVE  LET S == Samples(es, stream) IN
           \A i \in Jumps(es, stream) : i \in S /\ Previous(S, i) \in S /\ Previous(S, i) < i
<1> DEFINE S == Samples(es, stream)
<1> SUFFICES ASSUME NEW i \in Jumps(es, stream) PROVE i \in S /\ Previous(S, i) \in S /\ Previous(S, i) < i
  OBVIOUS
<1>1. S \in SUBSET Ids(es)
  BY SampleFacts
<1> DEFINE changes == {j \in Earlier(S, i) : Earlier(S, j) # {}}
<1>2. i \in S /\ Cardinality(changes) >= MinSamples
  BY DEF Jumps, IsJump, Changed
<1> HIDE DEF S
<1>3. Earlier(S, i) # {}
  <2>1. ASSUME Earlier(S, i) = {} PROVE FALSE
    <3>1. changes = {}
      BY <2>1
    <3>2. Cardinality(changes) = 0
      BY <3>1, FS_EmptySet
    <3> QED BY <3>2, <1>2, ConfigFacts
  <2> QED BY <2>1
<1>4. Earlier(S, i) \in SUBSET Ids(es)
  BY <1>1 DEF Earlier
<1>5. Max(Earlier(S, i)) \in Earlier(S, i)
  BY <1>3, <1>4, LastId
<1> QED BY <1>2, <1>5 DEF Previous, Earlier

LEMMA ChangeShape ==
    ASSUME NEW es, IsCase(es), NEW c \in TelemetryRateChange(es)
    PROVE  c.rule = "TELEMETRY-ROC-001" /\ Shaped(es, c) /\ WellFormed(c) /\ Cardinality(c.events) <= SizeBound
<1>1. PICK stream \in Streams(es) : \E i \in Turns(Samples(es, stream), Jumps(es, stream)) :
         c = Candidate("TELEMETRY-ROC-001", stream[1], stream[2], {Previous(Samples(es, stream), i), i}, {i}, 1)
  BY DEF TelemetryRateChange
<1> DEFINE S == Samples(es, stream)
<1>2. PICK i \in Turns(S, Jumps(es, stream)) :
         c = Candidate("TELEMETRY-ROC-001", stream[1], stream[2], {Previous(S, i), i}, {i}, 1)
  BY <1>1
<1>3. S \in SUBSET Ids(es) /\ \A j \in S : IsTimed(es, j)
  BY SampleFacts
<1>4. \A j \in Jumps(es, stream) : j \in S /\ Previous(S, j) \in S /\ Previous(S, j) < j
  BY JumpFacts
<1> HIDE DEF S
<1>5. Jumps(es, stream) \in SUBSET Ids(es)
  BY <1>3, <1>4
<1>6. i \in S /\ Previous(S, i) \in S /\ Previous(S, i) < i
  BY <1>2, <1>4, <1>5, TurnsFacts
<1>7. c.rule = "TELEMETRY-ROC-001" /\ c.events = {Previous(S, i), i} /\ c.triggers = {i}
  BY <1>2 DEF Candidate
<1>8. Shaped(es, c) /\ WellFormed(c)
  BY <1>3, <1>6, <1>7, CaseFacts DEF Shaped, WellFormed
<1>9. Cardinality(c.events) <= SizeBound
  <2>1. IsFiniteSet({Previous(S, i)}) /\ Cardinality({Previous(S, i)}) = 1
    BY FS_Singleton
  <2>2. Cardinality({Previous(S, i)} \cup {i}) <= 2
    <3>1. Cardinality({Previous(S, i)} \cup {i}) = IF i \in {Previous(S, i)} THEN 1 ELSE 2
      BY <2>1, FS_AddElement
    <3> QED BY <3>1
  <2>3. c.events = {Previous(S, i)} \cup {i}
    BY <1>7
  <2>4. IsFiniteSet(c.events)
    BY <2>1, <2>3, FS_AddElement
  <2>5. Cardinality(c.events) \in Nat
    BY <2>4, FS_CardinalityType
  <2> QED BY <2>2, <2>3, <2>5, SizeBoundIs
<1> QED BY <1>7, <1>8, <1>9

\* A session of label records is neither too large nor too long.
LEMMA LabelSessionFacts ==
    ASSUME NEW es, IsCase(es), NEW k, NEW timed, NEW A \in LabelSessions(es, k, timed)
    PROVE  /\ A \in SUBSET LabelRecords(es, k, timed) /\ A # {}
           /\ Cardinality(A) <= MaxLabelled
           /\ \A i, j \in A : At(es, i) - At(es, j) <= MaxSpan
<1> DEFINE S == LabelRecords(es, k, timed)
           key == [i \in S |-> i]
           time == [i \in S |-> At(es, i)]
           full == [i \in S |-> {j \in S : Cardinality({l \in S : i <= l /\ l < j}) >= MaxLabelled}]
<1>1. S \in SUBSET Ids(es) /\ \A i \in S : IsTimed(es, i) = timed
  BY DEF LabelRecords
<1>2. A \in Sessionize(S, key, time, full)
  BY DEF LabelSessions
<1>3. /\ \A i \in S : key[i] = i /\ time[i] = At(es, i)
      /\ \A i, j \in S : j \in full[i] <=> Cardinality({l \in S : i <= l /\ l < j}) >= MaxLabelled
  OBVIOUS
<1>4. Ordered(S, key)
  <2> HIDE DEF S
  <2> QED BY <1>1, IdsOrdered
<1> HIDE DEF S, key, time, full
<1>5. A \in SUBSET S /\ A # {}
  BY <1>2, <1>4, SessionsPartition
<1>6. PICK x \in A : \A y \in A : key[x] <= key[y] /\ (y # x => ~Parts(S, key, time, full, x, y))
  BY <1>2, <1>4, SessionHead
<1>7. ASSUME NEW y \in A
      PROVE  /\ x <= y /\ At(es, y) - At(es, x) <= MaxSpan
             /\ y # x => Cardinality({l \in S : x <= l /\ l < y}) < MaxLabelled
  <2>1. x \in S /\ y \in S /\ x <= y
    BY <1>3, <1>5, <1>6
  <2>2. At(es, x) \in Int /\ At(es, y) \in Int /\ MaxSpan \in Nat /\ MaxLabelled \in Nat
    BY <1>1, <2>1, CaseFacts, ConfigFacts
  <2>3. CASE y = x
    BY <2>1, <2>2, <2>3
  <2>4. CASE y # x
    <3>1. ~(time[y] - time[x] > MaxSpan) /\ y \notin full[x]
      BY <2>4, <1>6 DEF Parts
    <3>2. ~(Cardinality({l \in S : x <= l /\ l < y}) >= MaxLabelled)
      BY <3>1, <2>1, <1>3
    <3>3. IsFiniteSet({l \in S : x <= l /\ l < y})
      BY <1>4, FS_Subset DEF Ordered
    <3>4. Cardinality({l \in S : x <= l /\ l < y}) \in Nat
      BY <3>3, FS_CardinalityType
    <3> QED BY <2>1, <2>2, <3>1, <3>2, <3>4, <1>3
  <2> QED BY <2>3, <2>4
<1>8. Cardinality(A) <= MaxLabelled
  <2>0. A \in SUBSET Int /\ x \in Int /\ \A j \in A : x <= j
    <3>1. \A j \in A : x <= j
      BY <1>7
    <3> QED BY <3>1, <1>1, <1>5, CaseFacts
  <2> DEFINE last == Max(A)
  <2>1. last \in A /\ \A j \in A : j <= last
    BY <1>1, <1>5, LastId
  <2>2. IsFiniteSet(A)
    BY <1>4, <1>5, FS_Subset DEF Ordered
  <2>3. Cardinality(A) \in Nat
    BY <2>2, FS_CardinalityType
  <2> HIDE DEF last
  <2>4. CASE last = x
    <3>1. A = {x}
      <4>1. \A j \in A : j = x
        BY <2>0, <2>1, <2>4
      <4> QED BY <4>1
    <3>2. Cardinality(A) = 1
      BY <3>1, FS_Singleton
    <3> QED BY <3>2, ConfigFacts
  <2>5. CASE last # x
    <3> DEFINE below == {l \in S : x <= l /\ l < last}
    <3>1. IsFiniteSet(below)
      BY <1>4, FS_Subset DEF Ordered
    <3>2. Cardinality(below) < MaxLabelled /\ Cardinality(below) \in Nat
      BY <2>1, <2>5, <1>7, <3>1, FS_CardinalityType
    <3>3. (A \ {last}) \in SUBSET below
      <4>1. \A j \in A \ {last} : j \in S /\ x <= j /\ j < last
        BY <2>0, <2>1, <1>5
      <4> QED BY <4>1
    <3>4. Cardinality(A \ {last}) <= Cardinality(below)
      BY <3>1, <3>3, FS_Subset
    <3>5. Cardinality(A \ {last}) = Cardinality(A) - 1
      BY <2>1, <2>2, FS_RemoveElement
    <3> QED BY <3>2, <3>4, <3>5, <2>3, ConfigFacts
  <2> QED BY <2>4, <2>5
<1>9. ASSUME NEW i \in A, NEW j \in A PROVE At(es, i) - At(es, j) <= MaxSpan
  <2>1. i \in Ids(es) /\ j \in Ids(es) /\ x \in Ids(es)
    BY <1>1, <1>5
  <2>2. At(es, i) \in Int /\ At(es, j) \in Int /\ At(es, x) \in Int /\ MaxSpan \in Nat
    BY <2>1, CaseFacts, ConfigFacts
  <2>3. At(es, i) - At(es, x) <= MaxSpan /\ x <= j
    BY <1>7
  <2>4. At(es, x) <= At(es, j)
    <3>1. CASE IsTimed(es, x)
      BY <3>1, <2>1, <2>3, CaseFacts
    <3>2. CASE ~IsTimed(es, x)
      <4>1. ~IsTimed(es, j)
        BY <3>2, <1>1, <1>5
      <4> QED BY <3>2, <4>1, <2>2 DEF IsTimed
    <3> QED BY <3>1, <3>2
  <2> QED BY <2>2, <2>3, <2>4
<1> QED BY <1>5, <1>8, <1>9 DEF S

LEMMA LabelShape ==
    ASSUME NEW es, IsCase(es), NEW c \in MaliciousLabel(es)
    PROVE  \E k \in LabelKeys(es), timed \in BOOLEAN : \E A \in LabelSessions(es, k, timed) :
              /\ c = Candidate("LABEL-001", k[3], k[4], A, A, Cardinality(A))
              /\ c.rule = "LABEL-001" /\ c.events = A /\ c.triggers = A
              /\ Shaped(es, c) /\ WellFormed(c) /\ Cardinality(c.events) <= SizeBound
<1>1. PICK p \in LabelKeys(es) \X BOOLEAN : \E A \in LabelSessions(es, p[1], p[2]) :
         c = Candidate("LABEL-001", p[1][3], p[1][4], A, A, Cardinality(A))
  BY DEF MaliciousLabel
<1>2. PICK k \in LabelKeys(es), timed \in BOOLEAN : p = <<k, timed>>
  BY <1>1
<1>3. PICK A \in LabelSessions(es, k, timed) :
         c = Candidate("LABEL-001", k[3], k[4], A, A, Cardinality(A))
  BY <1>1, <1>2
<1>4. A \in SUBSET LabelRecords(es, k, timed) /\ A # {} /\ Cardinality(A) <= MaxLabelled
  BY LabelSessionFacts
<1>5. A \in SUBSET Ids(es) /\ \A i \in A : IsTimed(es, i) = timed
  BY <1>4 DEF LabelRecords
<1>6. c.rule = "LABEL-001" /\ c.events = A /\ c.triggers = A
  BY <1>3 DEF Candidate
<1>7. Shaped(es, c)
  <2>1. CASE timed
    <3>1. Max(A) \in A /\ \A j \in A : j <= Max(A)
      BY <1>4, <1>5, LastId
    <3> QED BY <2>1, <3>1, <1>4, <1>5, <1>6 DEF Shaped
  <2>2. CASE ~timed
    BY <2>2, <1>4, <1>5, <1>6 DEF Shaped
  <2> QED BY <2>1, <2>2
<1>8. Cardinality(c.events) <= SizeBound
  <2>1. IsFiniteSet(A)
    BY <1>5, CaseFacts, FS_Subset
  <2>2. Cardinality(A) \in Nat
    BY <2>1, FS_CardinalityType
  <2> QED BY <2>2, <1>4, <1>6, SizeBoundIs, ConfigFacts
<1> QED BY <1>3, <1>6, <1>7, <1>8 DEF WellFormed

LEMMA CandidateShape ==
    ASSUME NEW es, IsCase(es), NEW c \in Detect(es)
    PROVE  /\ Shaped(es, c) /\ Cardinality(c.events) <= SizeBound
           /\ \/ WellFormed(c)
              \/ \E group \in FlowGroups(es) : \E i \in group :
                    /\ es[i].kind.outcome \notin FailureStates
                    /\ NetReached(es, "NET-FAILURE-001", group, i)
<1>1. CASE c \in MaliciousLabel(es)
  BY <1>1, LabelShape
<1>2. CASE c \in RequestRate(es)
  BY <1>2, RateShape
<1>3. CASE c \in AuthenticationFailures(es)
  BY <1>3, AuthShape
<1>4. CASE c \in NetworkBehaviors(es)
  <2>1. PICK rule \in NetworkRules, group \in FlowGroups(es) : \E i \in NetTriggers(es, rule, group) :
              /\ Shaped(es, c) /\ Cardinality(c.events) <= SizeBound
              /\ WellFormed(c) \/ (rule = "NET-FAILURE-001" /\ es[i].kind.outcome \notin FailureStates)
    BY <1>4, NetShape
  <2>2. PICK i \in NetTriggers(es, rule, group) :
              /\ Shaped(es, c) /\ Cardinality(c.events) <= SizeBound
              /\ WellFormed(c) \/ (rule = "NET-FAILURE-001" /\ es[i].kind.outcome \notin FailureStates)
    BY <2>1
  <2>3. i \in group /\ NetReached(es, rule, group, i)
    BY FlowGroupFacts
  <2> QED BY <2>2, <2>3
<1>5. CASE c \in BaselineSpikes(es)
  BY <1>5, SpikeShape
<1>6. CASE c \in TelemetryRateChange(es)
  BY <1>6, ChangeShape
<1> QED BY <1>1, <1>2, <1>3, <1>4, <1>5, <1>6 DEF Detect

LEMMA UnionFinite ==
    ASSUME NEW S, IsFiniteSet(S), NEW f, \A x \in S : IsFiniteSet(f[x])
    PROVE  IsFiniteSet(UNION {f[x] : x \in S})
<1>1. IsFiniteSet({f[x] : x \in S})
  BY ImageFinite
<1>2. \A T \in {f[x] : x \in S} : IsFiniteSet(T)
  OBVIOUS
<1> QED BY <1>1, <1>2, FS_UNION

LEMMA LabelsFinite ==
    ASSUME NEW es, IsCase(es)
    PROVE  IsFiniteSet(MaliciousLabel(es))
<1> DEFINE Of(p) == {Candidate("LABEL-001", p[1][3], p[1][4], A, A, Cardinality(A)) :
                       A \in LabelSessions(es, p[1], p[2])}
           P == LabelKeys(es) \X BOOLEAN
           f == [p \in P |-> Of(p)]
<1>1. ASSUME NEW p \in P PROVE IsFiniteSet(Of(p))
  <2> DEFINE g == [A \in LabelSessions(es, p[1], p[2]) |->
                     Candidate("LABEL-001", p[1][3], p[1][4], A, A, Cardinality(A))]
  <2>1. IsFiniteSet(SUBSET Ids(es))
    BY CaseFacts, FS_SUBSET
  <2>2. LabelSessions(es, p[1], p[2]) \in SUBSET SUBSET Ids(es)
    BY LabelSessionFacts DEF LabelRecords
  <2>3. IsFiniteSet(LabelSessions(es, p[1], p[2]))
    BY <2>1, <2>2, FS_Subset
  <2>4. Of(p) = {g[A] : A \in LabelSessions(es, p[1], p[2])}
    OBVIOUS
  <2> HIDE DEF g, Of
  <2> QED BY <2>3, <2>4, ImageFinite
<1>2. IsFiniteSet(P)
  <2> DEFINE J == {j \in Ids(es) : LabelMatches(es, j)}
             h == [i \in J |-> LabelKey(es, i)]
  <2>1. IsFiniteSet(J)
    BY CaseFacts, FS_Subset
  <2>2. LabelKeys(es) = {h[i] : i \in J}
    BY DEF LabelKeys
  <2> HIDE DEF J, h
  <2>3. IsFiniteSet(LabelKeys(es))
    BY <2>1, <2>2, ImageFinite
  <2>4. IsFiniteSet(BOOLEAN)
    <3>1. IsFiniteSet({TRUE} \cup {FALSE})
      BY FS_Singleton, FS_AddElement
    <3> QED BY <3>1
  <2> QED BY <2>3, <2>4, FS_Product
<1>3. MaliciousLabel(es) = UNION {f[p] : p \in P}
  BY DEF MaliciousLabel
<1>4. \A p \in P : IsFiniteSet(f[p])
  BY <1>1
<1> HIDE DEF f, P
<1> QED BY <1>2, <1>3, <1>4, UnionFinite

LEMMA AuthFinite ==
    ASSUME NEW es, IsCase(es)
    PROVE  IsFiniteSet(AuthenticationFailures(es))
<1> DEFINE Made(group, i) == Candidate("AUTH-001", AuthEntity(es, i), es[i].kind.actor,
                               Newest(Active(es, group, i, AuthWindow), AuthThreshold), {i}, AuthThreshold)
           Of(group) == {Made(group, i) : i \in AuthTriggers(es, group)}
           f == [group \in AuthGroups(es) |-> Of(group)]
<1>1. ASSUME NEW group \in AuthGroups(es) PROVE IsFiniteSet(Of(group))
  <2> DEFINE g == [i \in AuthTriggers(es, group) |-> Made(group, i)]
  <2>1. AuthTriggers(es, group) \in SUBSET Ids(es)
    BY AuthGroupFacts
  <2>2. IsFiniteSet(AuthTriggers(es, group))
    BY <2>1, CaseFacts, FS_Subset
  <2>3. Of(group) = {g[i] : i \in AuthTriggers(es, group)}
    OBVIOUS
  <2> HIDE DEF g, Of
  <2> QED BY <2>2, <2>3, ImageFinite
<1>2. IsFiniteSet(AuthGroups(es))
  <2>1. IsFiniteSet(SUBSET Ids(es))
    BY CaseFacts, FS_SUBSET
  <2>2. AuthGroups(es) \in SUBSET SUBSET Ids(es)
    BY AuthGroupFacts
  <2> QED BY <2>1, <2>2, FS_Subset
<1>3. AuthenticationFailures(es) = UNION {f[group] : group \in AuthGroups(es)}
  BY DEF AuthenticationFailures
<1>4. \A group \in AuthGroups(es) : IsFiniteSet(f[group])
  BY <1>1
<1> HIDE DEF f
<1> QED BY <1>2, <1>3, <1>4, UnionFinite

LEMMA NetFinite ==
    ASSUME NEW es, IsCase(es)
    PROVE  IsFiniteSet(NetworkBehaviors(es))
<1> DEFINE Made(p, i) == LET active == Active(es, p[2], i, NetWindow) IN
                         Candidate(p[1], PrimaryEntity(es, i), es[i].kind.src, Supporting(es, p[1], active),
                                   {i}, Measured(es, p[1], active))
           P == NetworkRules \X FlowGroups(es)
           Of(p) == {Made(p, i) : i \in NetTriggers(es, p[1], p[2])}
           f == [p \in P |-> Of(p)]
<1>1. ASSUME NEW p \in P PROVE IsFiniteSet(Of(p))
  <2> DEFINE g == [i \in NetTriggers(es, p[1], p[2]) |-> Made(p, i)]
  <2>1. NetTriggers(es, p[1], p[2]) \in SUBSET Ids(es)
    BY FlowGroupFacts
  <2>2. IsFiniteSet(NetTriggers(es, p[1], p[2]))
    BY <2>1, CaseFacts, FS_Subset
  <2>3. Of(p) = {g[i] : i \in NetTriggers(es, p[1], p[2])}
    OBVIOUS
  <2> HIDE DEF g, Of
  <2> QED BY <2>2, <2>3, ImageFinite
<1>2. IsFiniteSet(P)
  <2>1. IsFiniteSet(SUBSET Ids(es))
    BY CaseFacts, FS_SUBSET
  <2>2. FlowGroups(es) \in SUBSET SUBSET Ids(es)
    BY FlowGroupFacts
  <2>3. IsFiniteSet(FlowGroups(es))
    BY <2>1, <2>2, FS_Subset
  <2>4. IsFiniteSet(NetworkRules)
    <3>1. IsFiniteSet({"NET-FANOUT-001"} \cup {"NET-PORTSCAN-001"})
      BY FS_Singleton, FS_AddElement
    <3>2. IsFiniteSet({"NET-FANOUT-001"} \cup {"NET-PORTSCAN-001"} \cup {"NET-FAILURE-001"})
      BY <3>1, FS_AddElement
    <3>3. NetworkRules = {"NET-FANOUT-001"} \cup {"NET-PORTSCAN-001"} \cup {"NET-FAILURE-001"}
      BY DEF NetworkRules
    <3> QED BY <3>2, <3>3
  <2> QED BY <2>3, <2>4, FS_Product
<1>3. NetworkBehaviors(es) = UNION {f[p] : p \in P}
  BY DEF NetworkBehaviors
<1>4. \A p \in P : IsFiniteSet(f[p])
  BY <1>1
<1> HIDE DEF f, P
<1> QED BY <1>2, <1>3, <1>4, UnionFinite

LEMMA RateFinite ==
    ASSUME NEW es, IsCase(es)
    PROVE  IsFiniteSet(RequestRate(es))
<1> DEFINE J == {j \in Ids(es) : /\ es[j].kind.usual > 0
                                 /\ es[j].kind.requests >= RateMultiplier * es[j].kind.usual}
           g == [i \in J |-> Candidate("RATE-001", PrimaryEntity(es, i), None, {i}, {i}, 1)]
<1>1. IsFiniteSet(J)
  BY CaseFacts, FS_Subset
<1>2. RequestRate(es) = {g[i] : i \in J}
  BY DEF RequestRate
<1> HIDE DEF J, g
<1> QED BY <1>1, <1>2, ImageFinite

LEMMA StreamsFinite ==
    ASSUME NEW es, IsCase(es)
    PROVE  IsFiniteSet(Streams(es))
<1> DEFINE Of(i) == {<<PrimaryEntity(es, i), m>> : m \in Measures(es, i)}
           f == [i \in Ids(es) |-> Of(i)]
<1>1. ASSUME NEW i \in Ids(es) PROVE IsFiniteSet(Of(i))
  <2> DEFINE g == [m \in Measures(es, i) |-> <<PrimaryEntity(es, i), m>>]
  <2>1. IsFiniteSet(DOMAIN es[i].kind.metrics)
    BY AnalysisConstants DEF IsCase
  <2>2. Measures(es, i) \in SUBSET DOMAIN es[i].kind.metrics
    BY DEF Measures
  <2>3. IsFiniteSet(Measures(es, i))
    BY <2>1, <2>2, FS_Subset
  <2>4. Of(i) = {g[m] : m \in Measures(es, i)}
    OBVIOUS
  <2> HIDE DEF g, Of
  <2> QED BY <2>3, <2>4, ImageFinite
<1>2. Streams(es) = UNION {f[i] : i \in Ids(es)}
  BY DEF Streams
<1>3. \A i \in Ids(es) : IsFiniteSet(f[i])
  BY <1>1
<1> HIDE DEF f
<1> QED BY <1>2, <1>3, CaseFacts, UnionFinite

LEMMA SpikesFinite ==
    ASSUME NEW es, IsCase(es)
    PROVE  IsFiniteSet(BaselineSpikes(es))
<1> DEFINE Made(stream, i) == Candidate("BASELINE-001", stream[1], stream[2],
                                        History(Samples(es, stream), i) \cup {i}, {i}, 1)
           Of(stream) == {Made(stream, i) : i \in Spikes(es, stream)}
           f == [stream \in Streams(es) |-> Of(stream)]
<1>1. ASSUME NEW stream \in Streams(es) PROVE IsFiniteSet(Of(stream))
  <2> DEFINE g == [i \in Spikes(es, stream) |-> Made(stream, i)]
  <2>1. Spikes(es, stream) \in SUBSET Ids(es)
    BY SampleFacts DEF Spikes
  <2>2. IsFiniteSet(Spikes(es, stream))
    BY <2>1, CaseFacts, FS_Subset
  <2>3. Of(stream) = {g[i] : i \in Spikes(es, stream)}
    OBVIOUS
  <2> HIDE DEF g, Of
  <2> QED BY <2>2, <2>3, ImageFinite
<1>2. BaselineSpikes(es) = UNION {f[stream] : stream \in Streams(es)}
  BY DEF BaselineSpikes
<1>3. \A stream \in Streams(es) : IsFiniteSet(f[stream])
  BY <1>1
<1> HIDE DEF f
<1> QED BY <1>2, <1>3, StreamsFinite, UnionFinite

LEMMA ChangesFinite ==
    ASSUME NEW es, IsCase(es)
    PROVE  IsFiniteSet(TelemetryRateChange(es))
<1> DEFINE Fired(stream) == Turns(Samples(es, stream), Jumps(es, stream))
           Made(stream, i) == Candidate("TELEMETRY-ROC-001", stream[1], stream[2],
                                        {Previous(Samples(es, stream), i), i}, {i}, 1)
           Of(stream) == {Made(stream, i) : i \in Fired(stream)}
           f == [stream \in Streams(es) |-> Of(stream)]
<1>1. ASSUME NEW stream \in Streams(es) PROVE IsFiniteSet(Of(stream))
  <2> DEFINE g == [i \in Fired(stream) |-> Made(stream, i)]
  <2>1. Jumps(es, stream) \in SUBSET Ids(es)
    BY SampleFacts, JumpFacts
  <2>2. Fired(stream) \in SUBSET Ids(es)
    BY <2>1, TurnsFacts
  <2>3. IsFiniteSet(Fired(stream))
    BY <2>2, CaseFacts, FS_Subset
  <2>4. Of(stream) = {g[i] : i \in Fired(stream)}
    OBVIOUS
  <2> HIDE DEF g, Of, Fired
  <2> QED BY <2>3, <2>4, ImageFinite
<1>2. TelemetryRateChange(es) = UNION {f[stream] : stream \in Streams(es)}
  BY DEF TelemetryRateChange
<1>3. \A stream \in Streams(es) : IsFiniteSet(f[stream])
  BY <1>1
<1> HIDE DEF f
<1> QED BY <1>2, <1>3, StreamsFinite, UnionFinite

LEMMA DetectFinite ==
    ASSUME NEW es, IsCase(es)
    PROVE  IsFiniteSet(Detect(es))
<1>1. IsFiniteSet(MaliciousLabel(es) \cup RequestRate(es))
  BY LabelsFinite, RateFinite, FS_Union
<1>2. IsFiniteSet(MaliciousLabel(es) \cup RequestRate(es) \cup AuthenticationFailures(es))
  BY <1>1, AuthFinite, FS_Union
<1>3. IsFiniteSet(MaliciousLabel(es) \cup RequestRate(es) \cup AuthenticationFailures(es) \cup NetworkBehaviors(es))
  BY <1>2, NetFinite, FS_Union
<1>4. IsFiniteSet(MaliciousLabel(es) \cup RequestRate(es) \cup AuthenticationFailures(es) \cup NetworkBehaviors(es)
                    \cup BaselineSpikes(es))
  BY <1>3, SpikesFinite, FS_Union
<1>5. IsFiniteSet(MaliciousLabel(es) \cup RequestRate(es) \cup AuthenticationFailures(es) \cup NetworkBehaviors(es)
                    \cup BaselineSpikes(es) \cup TelemetryRateChange(es))
  BY <1>4, ChangesFinite, FS_Union
<1> QED BY <1>5 DEF Detect

(***************************************************************************)
(* Findings of an analysis that completes, and their anchors.              *)
(***************************************************************************)
Completes(es, C) ==
    /\ IsCase(es) /\ IsFiniteSet(C)
    /\ \A c \in C : Shaped(es, c) /\ WellFormed(c) /\ Cardinality(c.events) <= FindingLimit

LEMMA AnalysisCompletesOn ==
    ASSUME NEW es, IsCase(es), ~Raises(es, Detect(es))
    PROVE  Completes(es, Detect(es))
<1>1. \A c \in Detect(es) : WellFormed(c) /\ ~(Cardinality(c.events) > FindingLimit)
  BY DEF Raises, FindingRefused
<1>2. ASSUME NEW c \in Detect(es) PROVE Cardinality(c.events) <= FindingLimit
  <2>1. c.events \in SUBSET Ids(es)
    BY CandidateShape DEF Shaped
  <2>2. IsFiniteSet(c.events)
    BY <2>1, CaseFacts, FS_Subset
  <2>3. Cardinality(c.events) \in Nat
    BY <2>2, FS_CardinalityType
  <2> QED BY <2>3, <1>1, AnalysisFacts
<1> QED BY <1>1, <1>2, DetectFinite, CandidateShape DEF Completes

\* The anchor is the time of the last event of a finding; a finding without one has no timed event.
LEMMA AnchorIs ==
    ASSUME NEW es, IsCase(es), NEW c, Shaped(es, c), WellFormed(c)
    PROVE  /\ c.events # {} /\ c.events \in SUBSET Ids(es)
           /\ Anchor(es, c) \in Int
           /\ IF Anchor(es, c) = Untimed
              THEN \A i \in c.events : ~IsTimed(es, i)
              ELSE /\ \A i \in c.events : IsTimed(es, i) /\ At(es, i) <= Anchor(es, c)
                   /\ \E i \in c.events : At(es, i) = Anchor(es, c)
<1> DEFINE times == {At(es, i) : i \in c.triggers} \ {Untimed}
           support == {At(es, i) : i \in c.events} \ {Untimed}
<1>1. /\ c.events \in SUBSET Ids(es) /\ c.triggers \in SUBSET Ids(es)
      /\ c.triggers # {} /\ c.triggers \in SUBSET c.events
  BY DEF Shaped, WellFormed
<1>2. CASE \E t \in c.triggers : \A j \in c.events \cup c.triggers : IsTimed(es, j) /\ j <= t
  <2>1. PICK t \in c.triggers : \A j \in c.events \cup c.triggers : IsTimed(es, j) /\ j <= t
    BY <1>2
  <2>2. \A j \in c.events \cup c.triggers : At(es, j) <= At(es, t) /\ At(es, j) \in 0..Horizon
    BY <2>1, <1>1, CaseFacts
  <2>3. At(es, t) \in times /\ \A v \in times : v <= At(es, t) /\ v \in 0..Horizon
    BY <2>1, <2>2 DEF IsTimed
  <2>4. Max(times) = At(es, t)
    <3> HIDE DEF times
    <3>1. \A x \in times : (\A y \in times : x >= y) => x = At(es, t)
      BY <2>3, AnalysisFacts
    <3>2. \A y \in times : At(es, t) >= y
      BY <2>3, AnalysisFacts
    <3>3. Max(times) \in times /\ \A y \in times : Max(times) >= y
      BY <3>2, <2>3 DEF Max
    <3> QED BY <3>1, <3>3
  <2>5. Anchor(es, c) = At(es, t)
    BY <2>3, <2>4 DEF Anchor
  <2>6. At(es, t) # Untimed /\ At(es, t) \in Int
    BY <2>1, <1>1, CaseFacts DEF IsTimed
  <2> QED BY <2>1, <2>2, <2>5, <2>6, <1>1
<1>3. CASE \A j \in c.events \cup c.triggers : ~IsTimed(es, j)
  <2>1. times = {} /\ support = {}
    BY <1>3 DEF IsTimed
  <2>2. Anchor(es, c) = Untimed
    BY <2>1 DEF Anchor
  <2> QED BY <2>2, <1>1, <1>3, AnalysisFacts
<1> QED BY <1>2, <1>3 DEF Shaped

\* Components hold the items joined to theirs, and no two of them overlap.
LEMMA ComponentsPartition ==
    ASSUME NEW C, NEW links
    PROVE  /\ \A i \in Supports(C) : i \in Component(C, links, i)
           /\ \A i, x, y \in Supports(C) : 
                 x \in Component(C, links, i) /\ Joined(C, links, x, y) => y \in Component(C, links, i)
           /\ \A K \in Components(C, links) : K \in SUBSET Supports(C)
           /\ \A K, L \in Components(C, links) : K \cap L # {} => K = L
<1> DEFINE R == Supports(C)
           Of(i) == Component(C, links, i)
           J(x, y) == Joined(C, links, x, y)
           Closed(S) == \A x \in S, y \in R : J(x, y) => y \in S
<1>1. \A i \in R : Of(i) = {y \in R : \A S \in SUBSET R : i \in S /\ Closed(S) => y \in S}
  BY DEF Component
<1>2. \A x, y \in R : J(x, y) => J(y, x)
  BY DEF Joined
<1>3. Components(C, links) = {Of(i) : i \in R}
  BY DEF Components
<1> HIDE DEF R, Of, J
<1>4. \A i \in R : i \in Of(i) /\ Of(i) \in SUBSET R
  BY <1>1
<1>5. ASSUME NEW i \in R, NEW x \in Of(i), NEW y \in R, J(x, y) PROVE y \in Of(i)
  <2>1. ASSUME NEW S \in SUBSET R, i \in S, Closed(S) PROVE y \in S
    BY <2>1, <1>5, <1>1
  <2> QED BY <2>1, <1>1
<1>6. \A i \in R : Closed(Of(i))
  BY <1>5
<1>7. ASSUME NEW i \in R, NEW j \in R, j \in Of(i) PROVE Of(j) \subseteq Of(i)
  <2>1. Of(i) \in SUBSET R /\ Closed(Of(i))
    BY <1>4, <1>6
  <2> HIDE DEF Closed
  <2>2. \A y \in Of(j) : \A S \in SUBSET R : j \in S /\ Closed(S) => y \in S
    BY <1>1
  <2> QED BY <2>1, <2>2, <1>7
<1>8. ASSUME NEW i \in R, NEW j \in R, j \in Of(i) PROVE i \in Of(j)
  <2> DEFINE T == R \ Of(j)
  <2>1. T \in SUBSET R /\ Closed(T)
    <3>1. ASSUME NEW x \in T, NEW y \in R, J(x, y) PROVE y \in T
      BY <3>1, <1>2, <1>5
    <3> QED BY <3>1
  <2>2. SUFFICES ASSUME i \notin Of(j) PROVE FALSE
    OBVIOUS
  <2>3. i \in T
    BY <2>2
  <2> HIDE DEF Closed, T
  <2>4. j \in T
    BY <2>1, <2>3, <1>1, <1>8
  <2> QED BY <2>4, <1>4 DEF T
<1>9. ASSUME NEW i \in R, NEW j \in R, NEW x \in Of(i), x \in Of(j) PROVE Of(i) = Of(j)
  <2>1. x \in R
    BY <1>4
  <2>2. i \in Of(x) /\ j \in Of(x)
    BY <1>8, <1>9, <2>1
  <2> QED BY <2>1, <2>2, <1>7, <1>9
<1>10. \A K, L \in Components(C, links) : K \cap L # {} => K = L
  BY <1>3, <1>9
<1>11. \A K \in Components(C, links) : K \in SUBSET R
  BY <1>3, <1>4
<1> QED BY <1>4, <1>5, <1>10, <1>11 DEF R, J, Of

\* The events of a finding are in one component.
LEMMA FindingsAreConnected ==
    ASSUME NEW es, NEW C, NEW links, Completes(es, C), NEW c \in C
    PROVE  /\ \E K \in Components(C, links) : c.events \subseteq K
           /\ \A K \in Components(C, links) : c.events \cap K # {} => c.events \subseteq K
<1>1. IsCase(es) /\ c.events # {} /\ c.events \in SUBSET Ids(es) /\ c.events \in SUBSET Supports(C)
  BY AnchorIs DEF Completes, Supports
<1>2. Min(c.events) \in c.events
  <2> DEFINE S == c.events
             key == [i \in S |-> i]
  <2>1. IsFiniteSet(S) /\ S # {} /\ (\A i \in S : key[i] \in Int) /\ \A i \in S : key[i] = i
    BY <1>1, CaseFacts, FS_Subset
  <2> HIDE DEF key, S
  <2>2. PICK x \in S : \A y \in S : key[x] <= key[y]
    BY <2>1, Extremes
  <2>3. x \in S /\ \A y \in S : x <= y
    BY <2>1, <2>2
  <2>4. Min(S) \in S
    BY <2>3 DEF Min
  <2> QED BY <2>4 DEF S
<1> DEFINE m == Min(c.events)
<1>3. \A i \in c.events : Joined(C, links, i, m) /\ Joined(C, links, m, i)
  BY DEF Joined, Anchored
<1> HIDE DEF m
<1>4. m \in c.events
  BY <1>2 DEF m
<1>5. \A K \in Components(C, links) : \E i \in Supports(C) : K = Component(C, links, i)
  BY DEF Components
<1>6. ASSUME NEW K \in Components(C, links), c.events \cap K # {} PROVE c.events \subseteq K
  <2>1. PICK i \in Supports(C) : K = Component(C, links, i)
    BY <1>5
  <2>2. PICK x \in c.events : x \in K
    BY <1>6
  <2>3. m \in K
    BY <2>1, <2>2, <1>1, <1>3, <1>4, ComponentsPartition
  <2> QED BY <2>1, <2>3, <1>1, <1>3, <1>4, ComponentsPartition
<1>7. m \in Component(C, links, m) /\ Component(C, links, m) \in Components(C, links)
  BY <1>1, <1>4, ComponentsPartition DEF Components
<1> QED BY <1>4, <1>6, <1>7

\* The key orders findings by anchor and tells those of one anchor apart.
LEMMA Steps ==
    ASSUME NEW a \in Int, NEW b \in Int, NEW n \in Nat, a < b
    PROVE  a * n + n <= b * n
<1>1. PICK d \in Nat : b = a + 1 + d
  <2>1. b - a - 1 \in Nat /\ b = a + 1 + (b - a - 1)
    OBVIOUS
  <2> QED BY <2>1
<1>2. b * n = a * n + n + d * n
  BY <1>1
<1>3. d * n >= 0 /\ d * n \in Int /\ a * n \in Int /\ b * n \in Int
  OBVIOUS
<1> QED BY <1>2, <1>3

LEMMA KeyFacts ==
    ASSUME NEW es, NEW S, Completes(es, S)
    PROVE  /\ Ordered(S, AnchorKey(es, S))
           /\ \A c, d \in S : AnchorKey(es, S)[c] <= AnchorKey(es, S)[d] => Anchor(es, c) <= Anchor(es, d)
<1> DEFINE n == Cardinality(S)
           number == Numbers(S)
           key == AnchorKey(es, S)
<1>1. IsFiniteSet(S) /\ n \in Nat
  BY FS_CardinalityType DEF Completes
<1>2. \E f \in [S -> 1..n] : IsInjective(f)
  <2>1. PICK g : g \in Bijection(1..n, S)
    BY <1>1, FS_CardinalityType DEF ExistsBijection
  <2>2. Inverse(g, 1..n, S) \in Bijection(S, 1..n)
    BY <2>1, Fun_BijInverse
  <2> QED BY <2>2 DEF Bijection, Injection
<1>3. number \in [S -> 1..n] /\ IsInjective(number)
  BY <1>2 DEF Numbers
<1>4. \A c \in S : number[c] \in Int /\ 1 <= number[c] /\ number[c] <= n
  BY <1>3, <1>1
<1>5. \A c, d \in S : number[c] = number[d] => c = d
  BY <1>3 DEF IsInjective
<1>6. \A c \in S : Anchor(es, c) \in Int
  BY AnchorIs DEF Completes
<1>7. \A c \in S : key[c] = Anchor(es, c) * (n + 1) + number[c]
  BY DEF AnchorKey
<1> HIDE DEF number, n, key
<1>8. \A c \in S : key[c] \in Int
  BY <1>1, <1>4, <1>6, <1>7
<1>9. ASSUME NEW c \in S, NEW d \in S, Anchor(es, c) < Anchor(es, d) PROVE key[c] < key[d]
  <2>1. Anchor(es, c) * (n + 1) + (n + 1) <= Anchor(es, d) * (n + 1)
    BY <1>1, <1>6, <1>9, Steps
  <2>2. Anchor(es, c) * (n + 1) \in Int /\ Anchor(es, d) * (n + 1) \in Int
    BY <1>1, <1>6
  <2> QED BY <2>1, <2>2, <1>1, <1>4, <1>7
<1>10. ASSUME NEW c \in S, NEW d \in S, key[c] = key[d] PROVE c = d
  <2>1. Anchor(es, c) = Anchor(es, d)
    BY <1>9, <1>10, <1>6, <1>8
  <2>2. Anchor(es, c) * (n + 1) = Anchor(es, d) * (n + 1) /\ Anchor(es, c) * (n + 1) \in Int
    BY <2>1, <1>1, <1>6
  <2>3. number[c] = number[d]
    BY <2>2, <1>4, <1>7, <1>10
  <2> QED BY <2>3, <1>5
<1>11. Ordered(S, key)
  BY <1>1, <1>8, <1>10 DEF Ordered
<1>12. ASSUME NEW c \in S, NEW d \in S, key[c] <= key[d] PROVE Anchor(es, c) <= Anchor(es, d)
  BY <1>12, <1>9, <1>6, <1>8
<1> QED BY <1>11, <1>12 DEF key

(***************************************************************************)
(* Sessions of findings: those of a component with an anchor, and those    *)
(* without one.                                                            *)
(***************************************************************************)
Class(es, C, K, timed) == {c \in C : c.events \cap K # {} /\ (Anchor(es, c) # Untimed) = timed}
Between(es, S, c, d) ==
    {e \in S : AnchorKey(es, S)[c] <= AnchorKey(es, S)[e] /\ AnchorKey(es, S)[e] <= AnchorKey(es, S)[d]}
TimeOf(es, S) == [c \in S |-> Anchor(es, c)]
Full(es, S) ==
    [c \in S |-> {d \in S : Cardinality(Supports(Between(es, S, c, d))) > MaxIncidentEvents}]
Grouped(es, S) == Sessionize(S, AnchorKey(es, S), TimeOf(es, S), Full(es, S))

LEMMA SessionsAre ==
    ASSUME NEW es, NEW C, NEW links, NEW A
    PROVE  A \in Sessions(es, C, links)
             <=> \E K \in Components(C, links) : \E timed \in BOOLEAN : A \in Grouped(es, Class(es, C, K, timed))
<1>1. ASSUME NEW K, NEW timed
      PROVE  PartitionFindings(es, {c \in C : c.events \cap K # {}}, timed)
               = Grouped(es, Class(es, C, K, timed))
  <2> DEFINE D == {c \in C : c.events \cap K # {}}
             S == {c \in D : (Anchor(es, c) # Untimed) = timed}
  <2>1. S = Class(es, C, K, timed)
    BY DEF Class
  <2>2. PartitionFindings(es, D, timed) = Grouped(es, S)
    BY DEF PartitionFindings, Grouped, TimeOf, Full, Between
  <2> HIDE DEF S
  <2> QED BY <2>1, <2>2
<1>2. A \in Sessions(es, C, links)
        <=> \E p \in Components(C, links) \X BOOLEAN :
               A \in PartitionFindings(es, {c \in C : c.events \cap p[1] # {}}, p[2])
  BY DEF Sessions
<1>3. A \in Sessions(es, C, links)
        <=> \E p \in Components(C, links) \X BOOLEAN : A \in Grouped(es, Class(es, C, p[1], p[2]))
  BY <1>1, <1>2
<1>4. \A K \in Components(C, links), timed \in BOOLEAN : <<K, timed>> \in Components(C, links) \X BOOLEAN
  OBVIOUS
<1> QED BY <1>3, <1>4

LEMMA ClassCompletes ==
    ASSUME NEW es, NEW C, Completes(es, C), NEW S \in SUBSET C
    PROVE  Completes(es, S)
BY FS_Subset DEF Completes

LEMMA SupportsFinite ==
    ASSUME NEW es, NEW C, Completes(es, C), NEW S \in SUBSET C
    PROVE  /\ Supports(S) \in SUBSET Ids(es)
           /\ IsFiniteSet(Supports(S)) /\ Cardinality(Supports(S)) \in Nat
           /\ \A T \in SUBSET S : Supports(T) \subseteq Supports(S) 
                                    /\ Cardinality(Supports(T)) <= Cardinality(Supports(S))
<1>1. IsCase(es) /\ Supports(S) \in SUBSET Ids(es)
  BY DEF Completes, Shaped, Supports
<1>2. IsFiniteSet(Supports(S))
  BY <1>1, CaseFacts, FS_Subset
<1>3. ASSUME NEW T \in SUBSET S
      PROVE  Supports(T) \subseteq Supports(S) /\ Cardinality(Supports(T)) <= Cardinality(Supports(S))
  <2>1. Supports(T) \in SUBSET Supports(S)
    BY DEF Supports
  <2> QED BY <2>1, <1>2, FS_Subset
<1> QED BY <1>1, <1>2, <1>3, FS_CardinalityType

\* A session of a class is inside the bounds.
LEMMA GroupedBounds ==
    ASSUME NEW es, NEW S, Completes(es, S), NEW A \in Grouped(es, S)
    PROVE  /\ A \in SUBSET S /\ A # {}
           /\ \A c, d \in A : Anchor(es, c) - Anchor(es, d) <= MaxSpan
           /\ Cardinality(Supports(A)) <= MaxIncidentEvents
<1> DEFINE key == AnchorKey(es, S)
           time == TimeOf(es, S)
           full == Full(es, S)
<1>1. Ordered(S, key) /\ \A c, d \in S : key[c] <= key[d] => Anchor(es, c) <= Anchor(es, d)
  BY KeyFacts
<1>2. \A c \in S : time[c] = Anchor(es, c) /\ Anchor(es, c) \in Int
  BY AnchorIs DEF TimeOf, Completes
<1>3. \A c, d \in S : d \in full[c] <=> Cardinality(Supports(Between(es, S, c, d))) > MaxIncidentEvents
  BY DEF Full
<1>4. \A c, d, e \in S : e \in Between(es, S, c, d) <=> key[c] <= key[e] /\ key[e] <= key[d]
  BY DEF Between
<1>5. \A c, d : Between(es, S, c, d) \in SUBSET S
  BY DEF Between
<1>6. A \in Sessionize(S, key, time, full)
  BY DEF Grouped
<1> HIDE DEF key, time, full
<1>7. A \in SUBSET S /\ A # {}
  BY <1>1, <1>6, SessionsPartition
<1>8. PICK x \in A : \A y \in A : key[x] <= key[y] /\ (y # x => ~Parts(S, key, time, full, x, y))
  BY <1>1, <1>6, SessionHead
<1>9. \A y \in A : key[y] \in Int
  BY <1>1, <1>7 DEF Ordered
<1>10. ASSUME NEW c \in A, NEW d \in A PROVE Anchor(es, c) - Anchor(es, d) <= MaxSpan
  <2>1. Anchor(es, x) <= Anchor(es, d)
    BY <1>1, <1>7, <1>8
  <2>2. Anchor(es, c) - Anchor(es, x) <= MaxSpan
    <3>1. CASE c = x
      BY <3>1, <1>2, <1>7, ConfigFacts
    <3>2. CASE c # x
      <4>1. ~(time[c] - time[x] > MaxSpan)
        BY <3>2, <1>8 DEF Parts
      <4> QED BY <4>1, <1>2, <1>7, ConfigFacts
    <3> QED BY <3>1, <3>2
  <2> QED BY <2>1, <2>2, <1>2, <1>7, ConfigFacts
<1>11. Cardinality(Supports(A)) <= MaxIncidentEvents
  <2>1. IsFiniteSet(A)
    BY <1>1, <1>7, FS_Subset DEF Ordered
  <2>2. PICK y \in A : \A d \in A : key[d] <= key[y]
    BY <2>1, <1>7, <1>9, Extremes
  <2>3. CASE y = x
    <3>1. \A d \in A : d = x
      BY <2>2, <2>3, <1>1, <1>7, <1>8, <1>9 DEF Ordered
    <3>2. Supports(A) = x.events
      BY <3>1 DEF Supports
    <3>3. Cardinality(x.events) <= FindingLimit
      BY <1>7 DEF Completes
    <3>4. Cardinality(x.events) \in Nat
      BY <3>2, <1>7, SupportsFinite
    <3> QED BY <3>2, <3>3, <3>4, AnalysisFacts
  <2>4. CASE y # x
    <3>1. y \notin full[x]
      BY <2>4, <1>8 DEF Parts
    <3>2. A \in SUBSET Between(es, S, x, y)
      BY <1>4, <1>7, <1>8, <2>2
    <3>3. Cardinality(Supports(A)) <= Cardinality(Supports(Between(es, S, x, y)))
      BY <3>2, <1>5, SupportsFinite
    <3>4. Cardinality(Supports(A)) \in Nat /\ Cardinality(Supports(Between(es, S, x, y))) \in Nat
      BY <1>5, <1>7, SupportsFinite
    <3> QED BY <3>1, <3>3, <3>4, <1>3, <1>7, AnalysisFacts
  <2> QED BY <2>3, <2>4
<1> QED BY <1>7, <1>10, <1>11

\* Every finding is in one session, and a session is inside its bounds.
LEMMA SessionFacts ==
    ASSUME NEW es, NEW C, NEW links, Completes(es, C)
    PROVE  /\ \A A \in Sessions(es, C, links) :
                 /\ A \in SUBSET C /\ A # {}
                 /\ \A c, d \in A : /\ (Anchor(es, c) = Untimed) = (Anchor(es, d) = Untimed)
                                    /\ Anchor(es, c) - Anchor(es, d) <= MaxSpan
                 /\ Cardinality(Supports(A)) <= MaxIncidentEvents
           /\ \A c \in C : \E A \in Sessions(es, C, links) : c \in A
           /\ \A A, B \in Sessions(es, C, links) : A \cap B # {} => A = B
<1>1. ASSUME NEW K, NEW timed
      PROVE  Class(es, C, K, timed) \in SUBSET C /\ Completes(es, Class(es, C, K, timed))
  <2>1. Class(es, C, K, timed) \in SUBSET C
    BY DEF Class
  <2> QED BY <2>1, ClassCompletes
<1>2. ASSUME NEW A \in Sessions(es, C, links)
      PROVE  /\ A \in SUBSET C /\ A # {}
             /\ \A c, d \in A : /\ (Anchor(es, c) = Untimed) = (Anchor(es, d) = Untimed)
                                /\ Anchor(es, c) - Anchor(es, d) <= MaxSpan
             /\ Cardinality(Supports(A)) <= MaxIncidentEvents
  <2>1. PICK K \in Components(C, links), timed \in BOOLEAN : A \in Grouped(es, Class(es, C, K, timed))
    BY SessionsAre
  <2>2. /\ A \in SUBSET Class(es, C, K, timed) /\ A # {}
        /\ \A c, d \in A : Anchor(es, c) - Anchor(es, d) <= MaxSpan
        /\ Cardinality(Supports(A)) <= MaxIncidentEvents
    BY <1>1, <2>1, GroupedBounds
  <2>3. \A c, d \in A : (Anchor(es, c) = Untimed) = (Anchor(es, d) = Untimed)
    BY <2>2 DEF Class
  <2> QED BY <2>2, <2>3, <1>1
<1>3. ASSUME NEW c \in C PROVE \E A \in Sessions(es, C, links) : c \in A
  <2>1. PICK K \in Components(C, links) : c.events \subseteq K
    BY FindingsAreConnected
  <2>2. c.events # {}
    BY AnchorIs DEF Completes
  <2> DEFINE timed == (Anchor(es, c) # Untimed)
             S == Class(es, C, K, timed)
  <2>3. c \in S /\ timed \in BOOLEAN
    BY <2>1, <2>2 DEF Class
  <2> HIDE DEF timed
  <2>4. Ordered(S, AnchorKey(es, S))
    BY <1>1, KeyFacts
  <2> HIDE DEF S
  <2>5. PICK A \in Grouped(es, S) : c \in A
    BY <2>3, <2>4, SessionsPartition DEF Grouped
  <2>6. A \in Sessions(es, C, links)
    BY <2>3, <2>5, SessionsAre DEF S
  <2> QED BY <2>5, <2>6
<1>4. ASSUME NEW A \in Sessions(es, C, links), NEW B \in Sessions(es, C, links), NEW c \in A \cap B PROVE A = B
  <2>1. PICK K \in Components(C, links), k \in BOOLEAN : A \in Grouped(es, Class(es, C, K, k))
    BY SessionsAre
  <2>2. PICK L \in Components(C, links), l \in BOOLEAN : B \in Grouped(es, Class(es, C, L, l))
    BY SessionsAre
  <2>3. c \in Class(es, C, K, k) /\ c \in Class(es, C, L, l)
    BY <1>1, <2>1, <2>2, GroupedBounds
  <2>4. k = l /\ c \in C /\ c.events \cap K # {} /\ c.events \cap L # {}
    BY <2>3, <2>1, <2>2 DEF Class
  <2>5. c.events \subseteq K /\ c.events \subseteq L
    BY <2>4, <2>1, <2>2, FindingsAreConnected
  <2>6. K \cap L # {}
    BY <2>4, <2>5
  <2>7. K = L
    BY <2>6, <2>1, <2>2, ComponentsPartition
  <2> DEFINE S == Class(es, C, K, k)
  <2>8. Ordered(S, AnchorKey(es, S))
    BY <1>1, KeyFacts
  <2>9. A \in Grouped(es, S) /\ B \in Grouped(es, S)
    BY <2>1, <2>2, <2>4, <2>7
  <2> HIDE DEF S
  <2>10. A \cap B # {}
    BY <1>4
  <2> QED BY <2>8, <2>9, <2>10, SessionsPartition DEF Grouped
<1> QED BY <1>2, <1>3, <1>4

\* A finding of the time of a session that does not fit into it.
Overflows(es, A, e) ==
    /\ e \notin A /\ \E c \in A : Anchor(es, c) = Anchor(es, e)
    /\ Cardinality(Supports(A) \cup e.events) > MaxIncidentEvents

LEMMA CutOverflows ==
    ASSUME NEW es, NEW S, Completes(es, S), NEW A \in SUBSET S, NEW B \in SUBSET S, NEW x, NEW z,
           Cut(S, AnchorKey(es, S), TimeOf(es, S), Full(es, S), A, B, x, z),
           \A c, d \in A : Anchor(es, c) - Anchor(es, d) <= MaxSpan,
           NEW c \in A, NEW d \in B, Anchor(es, c) = Anchor(es, d)
    PROVE  \E e \in S : Overflows(es, A, e)
<1> DEFINE key == AnchorKey(es, S)
           time == TimeOf(es, S)
           full == Full(es, S)
<1>1. Ordered(S, key) /\ \A p, q \in S : key[p] <= key[q] => Anchor(es, p) <= Anchor(es, q)
  BY KeyFacts
<1>2. \A p \in S : time[p] = Anchor(es, p) /\ Anchor(es, p) \in Int
  BY AnchorIs DEF TimeOf, Completes
<1>3. \A p, q \in S : q \in full[p] <=> Cardinality(Supports(Between(es, S, p, q))) > MaxIncidentEvents
  BY DEF Full
<1>4. /\ x \in A /\ z \in S /\ Parts(S, key, time, full, x, z)
      /\ \A y \in S : y \in A <=> key[x] <= key[y] /\ key[y] < key[z]
      /\ \A y \in B : key[z] <= key[y]
  BY DEF Cut
<1>5. Between(es, S, x, z) = {e \in S : key[x] <= key[e] /\ key[e] <= key[z]}
  BY DEF Between
<1> HIDE DEF key, time, full
<1>6. \A p \in S : key[p] \in Int
  BY <1>1 DEF Ordered
<1>7. Anchor(es, z) = Anchor(es, c)
  <2>1. Anchor(es, z) <= Anchor(es, d)
    BY <1>1, <1>4
  <2>2. Anchor(es, c) <= Anchor(es, z)
    <3>1. key[c] < key[z]
      BY <1>4
    <3> QED BY <3>1, <1>1, <1>4, <1>6
  <2> QED BY <2>1, <2>2, <1>2, <1>4
<1>8. z \in full[x]
  <2>1. ~(\A y \in S : key[y] < key[z] => time[z] - time[y] > CorrelationWindow)
    <3>1. c \in S /\ key[c] < key[z] /\ ~(time[z] - time[c] > CorrelationWindow)
      BY <1>2, <1>4, <1>7, ConfigFacts
    <3> QED BY <3>1
  <2>2. ~(time[z] - time[x] > MaxSpan)
    <3>1. Anchor(es, c) - Anchor(es, x) <= MaxSpan
      BY <1>4
    <3> QED BY <3>1, <1>2, <1>4, <1>7, ConfigFacts
  <2> QED BY <2>1, <2>2, <1>4 DEF Parts
<1>9. z \notin A
  BY <1>4, <1>6
<1>10. Between(es, S, x, z) = A \cup {z}
  <2>1. ASSUME NEW y \in S, key[x] <= key[y], key[y] <= key[z] PROVE y \in A \cup {z}
    <3>1. CASE key[y] = key[z]
      BY <3>1, <1>1, <1>4 DEF Ordered
    <3>2. CASE key[y] # key[z]
      BY <3>2, <2>1, <1>4, <1>6
    <3> QED BY <3>1, <3>2
  <2>2. \A y \in A : key[x] <= key[y] /\ key[y] <= key[z]
    BY <1>4, <1>6
  <2>3. key[x] <= key[z]
    BY <2>2, <1>4, <1>6
  <2> QED BY <1>5, <2>1, <2>2, <2>3, <1>4, <1>6
<1>11. Supports(A \cup {z}) = Supports(A) \cup z.events
  BY DEF Supports
<1>12. Cardinality(Supports(A) \cup z.events) > MaxIncidentEvents
  BY <1>3, <1>4, <1>8, <1>10, <1>11
<1>13. Overflows(es, A, z)
  BY <1>7, <1>9, <1>12 DEF Overflows
<1> QED BY <1>4, <1>13

\* Only a finding that overflows one of them parts findings of one time.
LEMMA SessionsApart ==
    ASSUME NEW es, NEW S, Completes(es, S), NEW A \in Grouped(es, S), NEW B \in Grouped(es, S), A # B,
           NEW c \in A, NEW d \in B, Anchor(es, c) = Anchor(es, d)
    PROVE  \E e \in S : Overflows(es, A, e) \/ Overflows(es, B, e)
<1> DEFINE K(P, Q, x, z) == Cut(S, AnchorKey(es, S), TimeOf(es, S), Full(es, S), P, Q, x, z)
<1>1. /\ A \in SUBSET S /\ B \in SUBSET S
      /\ \A p, q \in A : Anchor(es, p) - Anchor(es, q) <= MaxSpan
      /\ \A p, q \in B : Anchor(es, p) - Anchor(es, q) <= MaxSpan
  BY GroupedBounds
<1>2. Ordered(S, AnchorKey(es, S))
  BY KeyFacts
<1>3. (\E x, z : K(A, B, x, z)) \/ (\E x, z : K(B, A, x, z))
  BY <1>2, SessionEnd DEF Grouped
<1>4. ASSUME NEW x, NEW z, K(A, B, x, z) PROVE \E e \in S : Overflows(es, A, e)
  BY <1>1, <1>4, CutOverflows
<1>5. ASSUME NEW x, NEW z, K(B, A, x, z) PROVE \E e \in S : Overflows(es, B, e)
  BY <1>1, <1>5, CutOverflows
<1> HIDE DEF K
<1> QED BY <1>3, <1>4, <1>5

\* Findings that share an event are of one class, whatever they are.
LEMMA SharedClass ==
    ASSUME NEW es, NEW C, NEW links, Completes(es, C),
           NEW A \in Sessions(es, C, links), NEW B \in Sessions(es, C, links),
           NEW c \in A, NEW d \in B, c.events \cap d.events # {}
    PROVE  \E S \in SUBSET C : Completes(es, S) /\ A \in Grouped(es, S) /\ B \in Grouped(es, S)
<1>1. PICK K \in Components(C, links), k \in BOOLEAN : A \in Grouped(es, Class(es, C, K, k))
  BY SessionsAre
<1>2. PICK L \in Components(C, links), l \in BOOLEAN : B \in Grouped(es, Class(es, C, L, l))
  BY SessionsAre
<1>3. \A M, m : Class(es, C, M, m) \in SUBSET C
  BY DEF Class
<1>4. c \in Class(es, C, K, k) /\ d \in Class(es, C, L, l)
  BY <1>1, <1>2, <1>3, ClassCompletes, GroupedBounds
<1>5. c \in C /\ d \in C /\ c.events \cap K # {} /\ d.events \cap L # {}
  BY <1>4 DEF Class
<1>6. c.events \subseteq K /\ d.events \subseteq L
  BY <1>5, <1>1, <1>2, FindingsAreConnected
<1>7. K \cap L # {}
  BY <1>6
<1>8. K = L
  BY <1>7, <1>1, <1>2, ComponentsPartition
<1>9. k = (Anchor(es, c) # Untimed) /\ l = (Anchor(es, d) # Untimed)
  BY <1>4 DEF Class
<1>10. (Anchor(es, c) # Untimed) <=> (Anchor(es, d) # Untimed)
  <2>1. PICK i \in c.events : i \in d.events
    OBVIOUS
  <2>2. IsTimed(es, i) <=> (Anchor(es, c) # Untimed)
    BY <1>5, <2>1, AnchorIs DEF Completes
  <2>3. IsTimed(es, i) <=> (Anchor(es, d) # Untimed)
    BY <1>5, <2>1, AnchorIs DEF Completes
  <2> QED BY <2>2, <2>3
<1>11. k = l
  BY <1>9, <1>10, <1>1, <1>2
<1> QED BY <1>1, <1>2, <1>3, <1>8, <1>11, ClassCompletes

\* Sessions with the same events have findings of the same time.
LEMMA SameEvents ==
    ASSUME NEW es, NEW C, Completes(es, C), NEW A \in SUBSET C, A # {}, NEW B \in SUBSET C, B # {},
           Supports(A) = Supports(B)
    PROVE  /\ \E c \in A, d \in B : c.events \cap d.events # {}
           /\ \E c \in A, d \in B : Anchor(es, c) = Anchor(es, d)
<1>1. \A c \in C : /\ c.events # {} /\ c.events \in SUBSET Ids(es) /\ Anchor(es, c) \in Int
                   /\ (Anchor(es, c) = Untimed => \A i \in c.events : ~IsTimed(es, i))
                   /\ (Anchor(es, c) # Untimed => \A i \in c.events : IsTimed(es, i) /\ At(es, i) <= Anchor(es, c))
                   /\ (Anchor(es, c) # Untimed => \E i \in c.events : At(es, i) = Anchor(es, c))
  BY AnchorIs DEF Completes
<1>2. ASSUME NEW P \in SUBSET C, NEW Q \in SUBSET C, Supports(P) = Supports(Q), NEW p \in P, NEW i \in p.events
      PROVE  \E q \in Q : i \in q.events
  <2>1. i \in Supports(P)
    BY DEF Supports
  <2> QED BY <2>1, <1>2 DEF Supports
<1>3. \E c \in A, d \in B : c.events \cap d.events # {}
  <2>1. PICK c \in A : TRUE
    OBVIOUS
  <2>2. PICK i \in c.events : TRUE
    BY <1>1
  <2>3. PICK d \in B : i \in d.events
    BY <1>2
  <2> QED BY <2>3
<1> DEFINE key == [c \in C |-> Anchor(es, c)]
<1>4. \A c \in C : key[c] = Anchor(es, c) /\ key[c] \in Int
  BY <1>1
<1> HIDE DEF key
<1>5. IsFiniteSet(A) /\ IsFiniteSet(B)
  BY FS_Subset DEF Completes
<1>6. PICK c \in A : \A q \in A : key[q] <= key[c]
  BY <1>4, <1>5, Extremes
<1>7. PICK d \in B : \A q \in B : key[q] <= key[d]
  BY <1>4, <1>5, Extremes
<1>8. ASSUME NEW P \in SUBSET C, NEW Q \in SUBSET C, Supports(P) = Supports(Q), NEW p \in P,
             Anchor(es, p) # Untimed
      PROVE  \E q \in Q : Anchor(es, q) # Untimed /\ Anchor(es, p) <= Anchor(es, q)
  <2>1. PICK i \in p.events : IsTimed(es, i) /\ At(es, i) = Anchor(es, p)
    BY <1>1, <1>8
  <2>2. PICK q \in Q : i \in q.events
    BY <1>2, <1>8
  <2> QED BY <2>1, <2>2, <1>1
<1>9. CASE \E p \in A : Anchor(es, p) = Untimed
  <2>1. PICK p \in A : Anchor(es, p) = Untimed
    BY <1>9
  <2>2. PICK i \in p.events : ~IsTimed(es, i)
    BY <2>1, <1>1
  <2>3. PICK q \in B : i \in q.events
    BY <1>2
  <2> QED BY <2>1, <2>2, <2>3, <1>1
<1>10. CASE \A p \in A : Anchor(es, p) # Untimed
  <2>1. PICK q \in B : Anchor(es, c) <= Anchor(es, q)
    BY <1>8, <1>10
  <2>2. Anchor(es, d) # Untimed
    <3>1. PICK i \in d.events : TRUE
      BY <1>1
    <3>2. PICK p \in A : i \in p.events
      BY <1>2
    <3> QED BY <3>2, <1>1, <1>10
  <2>3. PICK p \in A : Anchor(es, d) <= Anchor(es, p)
    BY <2>2, <1>8
  <2>4. Anchor(es, q) <= Anchor(es, d) /\ Anchor(es, p) <= Anchor(es, c)
    BY <1>4, <1>6, <1>7
  <2>5. {Anchor(es, q), Anchor(es, d), Anchor(es, p), Anchor(es, c)} \in SUBSET Int
    BY <1>1
  <2>6. Anchor(es, c) = Anchor(es, d)
    BY <2>1, <2>3, <2>4, <2>5
  <2> QED BY <2>6, <1>3
<1> QED BY <1>3, <1>9, <1>10

(***************************************************************************)
(* The inductive invariant: the events are a case, and the analysis is the *)
(* one of these events unless it raised.                                   *)
(***************************************************************************)
CaseEvents == [kind : Kinds, at : (0..Horizon) \cup {Untimed}]
AnalysisInv ==
    /\ feed \in Feeds /\ events \in Seq(CaseEvents) /\ IsCase(events)
    /\ failed \in BOOLEAN /\ (failed <=> Raises(events, Detect(events)))
    /\ ~failed => analysis = Analyze(events, Detect(events))

LEMMA NoEvents ==
    /\ IsCase(<<>>) /\ Detect(<<>>) = {} /\ ~Raises(<<>>, {}) /\ Analyze(<<>>, {}) = Nothing
<1>1. Ids(<<>>) = {} /\ Len(<<>>) = 0
  BY DEF Ids
<1>2. IsCase(<<>>)
  BY <1>1 DEF IsCase
<1>3. Detect(<<>>) = {}
  <2>1. LabelKeys(<<>>) = {} /\ AuthGroups(<<>>) = {} /\ FlowGroups(<<>>) = {} /\ Streams(<<>>) = {}
    BY <1>1 DEF LabelKeys, AuthGroups, FlowGroups, Streams
  <2>2. RequestRate(<<>>) = {}
    BY <1>1 DEF RequestRate
  <2>3. LabelKeys(<<>>) \X BOOLEAN = {} /\ NetworkRules \X FlowGroups(<<>>) = {}
    BY <2>1
  <2>4. MaliciousLabel(<<>>) = {}
    BY <2>3 DEF MaliciousLabel
  <2>5. AuthenticationFailures(<<>>) = {}
    BY <2>1 DEF AuthenticationFailures
  <2>6. NetworkBehaviors(<<>>) = {}
    BY <2>3 DEF NetworkBehaviors
  <2>7. BaselineSpikes(<<>>) = {} /\ TelemetryRateChange(<<>>) = {}
    BY <2>1 DEF BaselineSpikes, TelemetryRateChange
  <2> QED BY <2>2, <2>4, <2>5, <2>6, <2>7 DEF Detect
<1>4. ~Raises(<<>>, {})
  <2>1. \A pair : EdgeEvents(<<>>, pair) = {}
    BY <1>1 DEF EdgeEvents
  <2>2. GraphEdges(<<>>) = {}
    BY <2>1 DEF GraphEdges
  <2>3. Streams(<<>>) = {} /\ Windows(<<>>) = {}
    BY <1>1 DEF Streams, Windows
  <2> QED BY <1>1, <2>2, <2>3 DEF Raises
<1>5. Analyze(<<>>, {}) = Nothing
  <2> DEFINE links == Correlate(<<>>)
  <2>1. \A es, risks, l : risks = {} => BuildIncidents(es, risks, l) = {}
    <3>1. Supports({}) = {}
      BY DEF Supports
    <3>2. \A l : Components({}, l) = {}
      BY <3>1 DEF Components
    <3>3. \A es, l : Sessions(es, {}, l) = {}
      BY <3>2 DEF Sessions
    <3> QED BY <3>3 DEF BuildIncidents
  <2>2. Alerts(<<>>, {}) = {}
    BY DEF Alerts
  <2> QED BY <2>1, <2>2 DEF Analyze, Nothing
<1> QED BY <1>2, <1>3, <1>4, <1>5

LEMMA CaseGrows ==
    ASSUME NEW es \in Seq(CaseEvents), IsCase(es), NEW kind \in Kinds, NEW at \in Times(kind), InOrder(es, at)
    PROVE  /\ Append(es, [kind |-> kind, at |-> at]) \in Seq(CaseEvents)
           /\ IsCase(Append(es, [kind |-> kind, at |-> at]))
<1> DEFINE e == [kind |-> kind, at |-> at]
           fs == Append(es, e)
<1>1. at \in (0..Horizon) \cup {Untimed}
  BY DEF Times
<1>2. e \in CaseEvents /\ e.kind = kind /\ e.at = at
  BY <1>1 DEF CaseEvents
<1>3. fs \in Seq(CaseEvents) /\ Len(fs) = Len(es) + 1 /\ Len(es) \in Nat
  BY <1>2
<1>4. \A i \in Ids(es) : fs[i] = es[i]
  BY <1>2 DEF Ids
<1>5. fs[Len(es) + 1] = e
  BY <1>2
<1> HIDE DEF fs, e
<1>6. Ids(fs) = Ids(es) \cup {Len(es) + 1} /\ \A i \in Ids(es) : i \in Nat /\ i < Len(es) + 1
  BY <1>3 DEF Ids
<1>7. \A i \in Ids(fs) : fs[i].kind \in Kinds /\ At(fs, i) \in (0..Horizon) \cup {Untimed}
  BY <1>1, <1>2, <1>4, <1>5, <1>6 DEF IsCase, At
<1>8. ASSUME NEW i \in Ids(fs), NEW j \in Ids(fs), i < j, IsTimed(fs, i)
      PROVE  IsTimed(fs, j) /\ At(fs, i) <= At(fs, j)
  <2>1. i \in Ids(es)
    BY <1>3, <1>6, <1>8
  <2>2. At(fs, i) = At(es, i) /\ IsTimed(es, i)
    BY <1>4, <1>8, <2>1 DEF At, IsTimed
  <2>3. CASE j \in Ids(es)
    <3>1. At(fs, j) = At(es, j)
      BY <1>4, <2>3 DEF At
    <3> QED BY <3>1, <2>1, <2>2, <2>3, <1>8 DEF IsCase, IsTimed
  <2>4. CASE j = Len(es) + 1
    <3>1. At(fs, j) = at
      BY <2>4, <1>2, <1>5 DEF At
    <3> QED BY <3>1, <2>1, <2>2 DEF InOrder, IsTimed
  <2> QED BY <2>3, <2>4, <1>6
<1>9. IsCase(fs)
  BY <1>3, <1>7, <1>8 DEF IsCase
<1> QED BY <1>3, <1>9 DEF fs, e

\* What the code stores is the analysis of the events the case has, whatever raised before.
THEOREM AnalysisInvariant == Spec => []AnalysisInv
<1>1. Init => AnalysisInv
  <2> SUFFICES ASSUME Init PROVE AnalysisInv
    OBVIOUS
  <2>1. events = <<>> /\ feed \in Feeds /\ failed = FALSE /\ analysis = Nothing
    BY DEF Init
  <2>2. events \in Seq(CaseEvents)
    BY <2>1
  <2> QED BY <2>1, <2>2, NoEvents DEF AnalysisInv
<1>2. AnalysisInv /\ [Next]_vars => AnalysisInv'
  <2> SUFFICES ASSUME AnalysisInv, [Next]_vars PROVE AnalysisInv'
    OBVIOUS
  <2>1. CASE UNCHANGED vars
    BY <2>1 DEF vars, AnalysisInv, IsCase, Ids, At, IsTimed, Raises, Detect, Analyze
  <2>2. ASSUME NEW kind \in feed, NEW at \in Times(kind), Arrive(kind, at) PROVE AnalysisInv'
    <3> DEFINE es == Append(events, [kind |-> kind, at |-> at])
    <3>1. kind \in Kinds
      BY AnalysisConstants DEF AnalysisInv
    <3>2. /\ events' = es /\ feed' = feed /\ InOrder(events, at)
          /\ failed' = Raises(es, Detect(es))
          /\ analysis' = IF failed' THEN analysis ELSE Analyze(es, Detect(es))
      BY <2>2 DEF Arrive
    <3>3. es \in Seq(CaseEvents) /\ IsCase(es)
      BY <3>1, <3>2, CaseGrows DEF AnalysisInv
    <3> HIDE DEF es
    <3>4. failed' \in BOOLEAN
      BY <3>2 DEF Raises
    <3> QED BY <3>2, <3>3, <3>4 DEF AnalysisInv
  <2> QED BY <2>1, <2>2 DEF Next
<1> QED BY <1>1, <1>2, PTL DEF Spec

\* The incidents of an analysis are its sessions.
LEMMA CompletedAnalysis ==
    ASSUME AnalysisInv, ~failed
    PROVE  /\ Completes(events, Found) /\ Found = Detect(events)
           /\ analysis.risks = {Score(events, c, Correlate(events)) : c \in Found}
           /\ analysis.alerts = Alerts(events, Found)
           /\ analysis.incidents = {Incident(events, A, Correlate(events), analysis.risks) :
                                       A \in Sessions(events, Found, Correlate(events))}
<1> DEFINE C == Detect(events)
           links == Correlate(events)
           risks == {Score(events, c, links) : c \in C}
<1>1. analysis = [risks |-> risks, alerts |-> Alerts(events, C), incidents |-> BuildIncidents(events, risks, links)]
  BY DEF AnalysisInv, Analyze
<1>2. \A c : Score(events, c, links).candidate = c
  BY DEF Score
<1> HIDE DEF C, links
<1>3. {s.candidate : s \in risks} = C
  <2>1. \A s \in risks : s.candidate \in C
    BY <1>2
  <2>2. \A c \in C : Score(events, c, links) \in risks
    OBVIOUS
  <2> HIDE DEF risks
  <2> QED BY <2>1, <2>2, <1>2
<1>4. Found = C
  BY <1>1, <1>3 DEF Found
<1>5. BuildIncidents(events, risks, links)
        = {Incident(events, A, links, risks) : A \in Sessions(events, C, links)}
  BY <1>3 DEF BuildIncidents
<1>6. Completes(events, C)
  BY AnalysisCompletesOn DEF AnalysisInv, C
<1> HIDE DEF risks
<1>7. analysis.risks = risks
  BY <1>1
<1> QED BY <1>1, <1>4, <1>5, <1>6, <1>7 DEF C, links, risks

LEMMA RetainedFacts ==
    ASSUME NEW S, IsFiniteSet(S)
    PROVE  Retained(S).truncated <=> Retained(S).count > Retained(S).kept
<1> DEFINE n == Cardinality(S)
           M == {n, ReferenceLimit}
           m == Min(M)
<1>1. n \in Nat /\ ReferenceLimit \in Nat
  BY FS_CardinalityType, AnalysisFacts
<1> HIDE DEF n
<1>2. m \in M /\ \A y \in M : m <= y
  <2>1. \E x \in M : \A y \in M : x <= y
    BY <1>1
  <2> HIDE DEF M
  <2> QED BY <2>1 DEF Min
<1>3. Retained(S).count = n /\ Retained(S).kept = m /\ Retained(S).truncated = (n > ReferenceLimit)
  BY DEF Retained, n
<1> HIDE DEF m
<1>4. (m = n \/ m = ReferenceLimit) /\ m <= n /\ m <= ReferenceLimit
  BY <1>2
<1>5. n > ReferenceLimit <=> n > m
  BY <1>1, <1>4
<1> QED BY <1>3, <1>5

LEMMA PartitionStatic ==
    ASSUME AnalysisInv
    PROVE  IncidentsPartitionFindings
<1> SUFFICES ASSUME ~failed PROVE IncidentsPartitionFindings
  BY DEF IncidentsPartitionFindings
<1> DEFINE links == Correlate(events)
           P == Sessions(events, Found, links)
           Of(A) == Incident(events, A, links, analysis.risks)
<1>1. Completes(events, Found) /\ analysis.incidents = {Of(A) : A \in P}
  BY CompletedAnalysis
<1>2. \A A : Of(A).findings = A /\ Of(A).events = Supports(A)
              /\ Of(A).linkRefs = Retained({l \in links : {l[1], l[2]} \subseteq Supports(A)})
  BY DEF Incident
<1>3. IsFiniteSet(links)
  <2>1. IsFiniteSet(Ids(events) \X Ids(events))
    BY CaseFacts, FS_Product DEF AnalysisInv
  <2> QED BY <2>1, FS_Subset DEF Correlate
<1> HIDE DEF links, Of
<1>4. /\ \A A \in P : A \in SUBSET Found /\ A # {}
                      /\ \A c, d \in A : /\ (Anchor(events, c) = Untimed) = (Anchor(events, d) = Untimed)
                                         /\ Anchor(events, c) - Anchor(events, d) <= MaxSpan
                      /\ Cardinality(Supports(A)) <= MaxIncidentEvents
      /\ \A c \in Found : \E A \in P : c \in A
      /\ \A A, B \in P : A \cap B # {} => A = B
  BY <1>1, SessionFacts
<1> HIDE DEF P
<1>5. ASSUME NEW A \in P, NEW e \in Found, Overflows(events, A, e) PROVE ClosedBy(Of(A), e)
  BY <1>2, <1>5 DEF Overflows, ClosedBy
<1>6. ASSUME NEW A \in P, NEW B \in P, A # B, NEW c \in A, NEW d \in B, Anchor(events, c) = Anchor(events, d),
             \E p \in A, q \in B : p.events \cap q.events # {}
      PROVE  \E e \in Found : ClosedBy(Of(A), e) \/ ClosedBy(Of(B), e)
  <2>1. PICK S \in SUBSET Found : Completes(events, S) /\ A \in Grouped(events, S) /\ B \in Grouped(events, S)
    BY <1>1, <1>6, SharedClass DEF P
  <2>2. PICK e \in S : Overflows(events, A, e) \/ Overflows(events, B, e)
    BY <2>1, <1>6, SessionsApart
  <2> QED BY <2>1, <2>2, <1>5
<1>7. ASSUME NEW c \in Found PROVE Cardinality({n \in analysis.incidents : c \in n.findings}) = 1
  <2>1. PICK A \in P : c \in A
    BY <1>4
  <2>2. \A B \in P : c \in B => B = A
    BY <2>1, <1>4
  <2>3. {n \in analysis.incidents : c \in n.findings} = {Of(A)}
    BY <2>1, <2>2, <1>1, <1>2
  <2> QED BY <2>3, FS_Singleton
<1>8. ASSUME NEW m \in analysis.incidents, NEW n \in analysis.incidents, m # n, m.events = n.events
      PROVE  \E e \in Found : ClosedBy(m, e) \/ ClosedBy(n, e)
  <2>1. PICK A \in P : m = Of(A)
    BY <1>1
  <2>2. PICK B \in P : n = Of(B)
    BY <1>1
  <2>3. A # B /\ Supports(A) = Supports(B)
    BY <2>1, <2>2, <1>2, <1>8
  <2>4. /\ \E c \in A, d \in B : c.events \cap d.events # {}
        /\ \E c \in A, d \in B : Anchor(events, c) = Anchor(events, d)
    BY <2>3, <1>1, <1>4, SameEvents
  <2> QED BY <2>1, <2>2, <2>3, <2>4, <1>6
<1>9. ASSUME NEW c \in Found, NEW d \in Found, c.events \cap d.events # {}, Anchor(events, c) = Anchor(events, d)
      PROVE  \/ \E n \in analysis.incidents : {c, d} \subseteq n.findings
             \/ \E n \in analysis.incidents, e \in Found : n.findings \cap {c, d} # {} /\ ClosedBy(n, e)
  <2>1. PICK A \in P : c \in A
    BY <1>4
  <2>2. PICK B \in P : d \in B
    BY <1>4
  <2>3. Of(A) \in analysis.incidents /\ Of(B) \in analysis.incidents
    BY <1>1
  <2>4. CASE A = B
    BY <2>1, <2>2, <2>3, <2>4, <1>2
  <2>5. CASE A # B
    <3>1. PICK e \in Found : ClosedBy(Of(A), e) \/ ClosedBy(Of(B), e)
      BY <2>1, <2>2, <2>5, <1>6, <1>9
    <3>2. c \in Of(A).findings /\ d \in Of(B).findings
      BY <2>1, <2>2, <1>2
    <3> QED BY <3>1, <3>2, <2>3
  <2> QED BY <2>4, <2>5
<1>10. ASSUME NEW n \in analysis.incidents
       PROVE  /\ Cardinality(n.events) <= MaxIncidentEvents
              /\ \A c, d \in n.findings : /\ (Anchor(events, c) = Untimed) = (Anchor(events, d) = Untimed)
                                          /\ Anchor(events, c) - Anchor(events, d) <= MaxSpan
              /\ n.linkRefs.truncated <=> n.linkRefs.count > n.linkRefs.kept
  <2>1. PICK A \in P : n = Of(A)
    BY <1>1
  <2>2. IsFiniteSet({l \in links : {l[1], l[2]} \subseteq Supports(A)})
    BY <1>3, FS_Subset
  <2>3. n.linkRefs.truncated <=> n.linkRefs.count > n.linkRefs.kept
    BY <2>1, <2>2, <1>2, RetainedFacts
  <2> QED BY <2>1, <2>3, <1>2, <1>4
<1> QED BY <1>7, <1>8, <1>9, <1>10 DEF IncidentsPartitionFindings

\* Every finding is told in exactly one incident, an incident stays inside its bounds, and incidents with
\* the same events, or findings of one time parted from each other, there are only at the bound on their
\* events (correlation.py, partition_findings and build_incidents).
THEOREM IncidentsPartition == Spec => []IncidentsPartitionFindings
BY AnalysisInvariant, PartitionStatic, PTL

(***************************************************************************)
(* Bursts and labels.                                                      *)
(***************************************************************************)
\* What a label finding and a telemetry finding quote comes from the events.
LEMMA Quoted ==
    ASSUME NEW es, NEW c \in Detect(es)
    PROVE  /\ c.rule = "LABEL-001" => c \in MaliciousLabel(es)
           /\ c.rule \in {"BASELINE-001", "TELEMETRY-ROC-001"} =>
                 \E i \in Ids(es) : \E m \in Measures(es, i) : c.about = m
<1>1. ASSUME NEW stream \in Streams(es) PROVE \E i \in Ids(es) : \E m \in Measures(es, i) : stream[2] = m
  BY DEF Streams
<1>2. CASE c \in MaliciousLabel(es)
  BY <1>2 DEF MaliciousLabel, Candidate
<1>3. CASE c \in RequestRate(es)
  BY <1>3 DEF RequestRate, Candidate
<1>4. CASE c \in AuthenticationFailures(es)
  <2>1. c.rule = "AUTH-001"
    BY <1>4 DEF AuthenticationFailures, Candidate
  <2> QED BY <2>1
<1>5. CASE c \in NetworkBehaviors(es)
  <2>1. c.rule \in NetworkRules
    BY <1>5 DEF NetworkBehaviors, Candidate
  <2> QED BY <2>1 DEF NetworkRules
<1>6. CASE c \in BaselineSpikes(es)
  <2>1. \E stream \in Streams(es) : c.rule = "BASELINE-001" /\ c.about = stream[2]
    BY <1>6 DEF BaselineSpikes, Candidate
  <2> QED BY <2>1, <1>1
<1>7. CASE c \in TelemetryRateChange(es)
  <2>1. \E stream \in Streams(es) : c.rule = "TELEMETRY-ROC-001" /\ c.about = stream[2]
    BY <1>7 DEF TelemetryRateChange, Candidate
  <2> QED BY <2>1, <1>1
<1> QED BY <1>2, <1>3, <1>4, <1>5, <1>6, <1>7 DEF Detect

\* A finding the result has no room for, by what the events of the case and the configuration hold.
LEMMA FindingRefusedStatic ==
    ASSUME IsCase(events), failed, NEW c \in Detect(events), FindingRefused(events, c)
    PROVE  RaisesOnlyOnALimitOrABurst
<1>1. CASE ~WellFormed(c)
  BY <1>1, CandidateShape DEF RaisesOnlyOnALimitOrABurst, BurstOnAnotherFlow
<1>2. CASE Cardinality(c.events) > FindingLimit
  <2>1. Cardinality(c.events) <= SizeBound /\ Cardinality(c.events) \in Nat
    <3>1. c.events \in SUBSET Ids(events) /\ Cardinality(c.events) <= SizeBound
      BY CandidateShape DEF Shaped
    <3> QED BY <3>1, CaseFacts, FS_Subset, FS_CardinalityType
  <2>2. FindingLimit < SizeBound
    BY <1>2, <2>1, SizeBoundIs, AnalysisFacts
  <2> QED BY <2>2 DEF SizeBound, RaisesOnlyOnALimitOrABurst
<1>3. CASE ClassTooLong(c) \/ LabelsTooLong(events, c) \/ ConfigurationTooLong(events, c)
  <2>1. c \in MaliciousLabel(events)
    BY <1>3, Quoted DEF ClassTooLong, LabelsTooLong, ConfigurationTooLong
  <2>0. PICK k \in LabelKeys(events), timed \in BOOLEAN : \E A \in LabelSessions(events, k, timed) :
           c.about = k[4] /\ c.events = A
    BY <2>1, LabelShape DEF Candidate
  <2>2. c.about = k[4] /\ c.events \in LabelSessions(events, k, timed)
    BY <2>0
  <2>3. CASE ClassTooLong(c)
    <3>1. PICK i \in Ids(events) : LabelMatches(events, i) /\ k = LabelKey(events, i)
      BY DEF LabelKeys
    <3>2. c.about = AttackClass(events, i)
      BY <2>2, <3>1 DEF LabelKey
    <3>3. Length(AttackClass(events, i)) \notin 0..NameLimit
      BY <2>3, <3>2 DEF ClassTooLong, NameLimit, TextLimit
    <3> QED BY <3>1, <3>3 DEF RaisesOnlyOnALimitOrABurst, NoRoomFor
  <2>4. CASE LabelsTooLong(events, c)
    <3>1. JoinedLength({events[i].kind.label : i \in c.events}) > TextLimit
      BY <2>4 DEF LabelsTooLong
    <3>2. \E p \in LabelKeys(events) \X BOOLEAN : \E session \in LabelSessions(events, p[1], p[2]) :
             JoinedLength({events[i].kind.label : i \in session}) > TextLimit
      <4>1. <<k, timed>> \in LabelKeys(events) \X BOOLEAN /\ <<k, timed>>[1] = k /\ <<k, timed>>[2] = timed
        OBVIOUS
      <4> QED BY <4>1, <2>2, <3>1
    <3> QED BY <3>2 DEF RaisesOnlyOnALimitOrABurst
  <2>5. CASE ConfigurationTooLong(events, c)
    <3>1. PICK i \in c.events : JoinedLength(ConfiguredLabels(events[i].kind.source)) > TextLimit
      BY <2>5 DEF ConfigurationTooLong
    <3>2. \E source \in {"ton", "cic", "other"} : ConfiguredLabels(events[i].kind.source) = ConfiguredLabels(source)
      BY DEF ConfiguredLabels
    <3>3. \E source \in {"ton", "cic", "other"} : JoinedLength(ConfiguredLabels(source)) > TextLimit
      BY <3>1, <3>2
    <3> QED BY <3>3 DEF RaisesOnlyOnALimitOrABurst
  <2> QED BY <1>3, <2>3, <2>4, <2>5
<1>4. CASE FieldTooLong(c)
  <2>1. PICK i \in Ids(events) : \E m \in Measures(events, i) : c.about = m
    BY <1>4, Quoted DEF FieldTooLong
  <2>2. NoRoomFor(i)
    BY <1>4, <2>1 DEF FieldTooLong, NoRoomFor
  <2> QED BY <2>2 DEF RaisesOnlyOnALimitOrABurst
<1> QED BY <1>1, <1>2, <1>3, <1>4 DEF FindingRefused

LEMMA BaselineRefusedStatic ==
    ASSUME IsCase(events), failed, NEW stream \in Streams(events), NEW i \in Evaluated(events, stream),
           BaselineRefused(events, stream, i)
    PROVE  RaisesOnlyOnALimitOrABurst
<1>1. CASE Length(stream[2]) \notin 0..NameLimit
  <2>1. PICK j \in Ids(events) : \E m \in Measures(events, j) : stream[2] = m
    BY DEF Streams
  <2>2. Length(stream[2]) \notin 0..(NameLimit - 11)
    BY <1>1 DEF NameLimit
  <2>3. NoRoomFor(j)
    BY <2>1, <2>2 DEF NoRoomFor
  <2> QED BY <2>3 DEF RaisesOnlyOnALimitOrABurst
<1>2. CASE Cardinality(History(Samples(events, stream), i)) > SampleLimit
  <2> DEFINE before == Earlier(Samples(events, stream), i)
  <2>1. before \in SUBSET Ids(events)
    BY DEF Earlier, Samples
  <2>2. MaxSamples \in Nat /\ SampleLimit \in Nat
    BY ConfigFacts, AnalysisConstants
  <2>3. Newest(before, MaxSamples) \in SUBSET before /\ Cardinality(Newest(before, MaxSamples)) <= MaxSamples
    BY <2>1, <2>2, NewestFacts
  <2>4. Cardinality(Newest(before, MaxSamples)) \in Nat
    BY <2>1, <2>3, CaseFacts, FS_Subset, FS_CardinalityType
  <2>5. SampleLimit < MaxSamples
    BY <1>2, <2>2, <2>3, <2>4 DEF History
  <2> QED BY <2>5 DEF RaisesOnlyOnALimitOrABurst
<1>3. CASE BaselineOverflows(events, stream, i)
  BY <1>3 DEF RaisesOnlyOnALimitOrABurst
<1> QED BY <1>1, <1>2, <1>3 DEF BaselineRefused

LEMMA RaisesStatic ==
    ASSUME AnalysisInv
    PROVE  RaisesOnlyOnALimitOrABurst
<1> SUFFICES ASSUME failed PROVE RaisesOnlyOnALimitOrABurst
  BY DEF RaisesOnlyOnALimitOrABurst
<1>1. IsCase(events) /\ Raises(events, Detect(events))
  BY DEF AnalysisInv
<1>2. CASE \E c \in Detect(events) : FindingRefused(events, c)
  BY <1>1, <1>2, FindingRefusedStatic
<1>3. CASE \E pair \in GraphEdges(events) : EdgeRefused(events, pair)
  BY <1>3 DEF RaisesOnlyOnALimitOrABurst
<1>4. CASE \E i \in Ids(events) : NumberTooLarge(events, i) \/ ChartRefused(events, i)
  <2>1. PICK i \in Ids(events) : NumberTooLarge(events, i) \/ ChartRefused(events, i)
    BY <1>4
  <2>2. NoRoomFor(i)
    BY <2>1 DEF ChartRefused, NoRoomFor, NameLimit, TextLimit
  <2> QED BY <2>2 DEF RaisesOnlyOnALimitOrABurst
<1>5. CASE \E stream \in Streams(events) : \E i \in Evaluated(events, stream) : BaselineRefused(events, stream, i)
  BY <1>1, <1>5, BaselineRefusedStatic
<1>6. CASE \E w \in Windows(events) : \E class \in MostCommon(events, w) : Length(class) \notin 0..NameLimit
  <2>0. PICK w \in Windows(events) : \E class \in MostCommon(events, w) : Length(class) \notin 0..NameLimit
    BY <1>6
  <2>1. PICK class \in MostCommon(events, w) : Length(class) \notin 0..NameLimit
    BY <2>0
  <2>2. PICK i \in Ids(events) : class = events[i].kind.class /\ class # None
    BY <2>1 DEF MostCommon, WindowClasses, InWindow
  <2>3. Length(class) \notin 1..NameLimit
    BY <2>1 DEF NameLimit
  <2>4. NoRoomFor(i)
    BY <2>2, <2>3 DEF NoRoomFor
  <2> QED BY <2>4 DEF RaisesOnlyOnALimitOrABurst
<1> QED BY <1>1, <1>2, <1>3, <1>4, <1>5, <1>6 DEF Raises

\* An analysis raises only where a flow that did not fail finds a burst of failures still in its window,
\* where an event, an edge, a session of labels or a baseline holds more than the schemas of the result
\* (analysis/schemas.py) have room for, or where the configuration lets it.
THEOREM RaisesOnly == Spec => []RaisesOnlyOnALimitOrABurst
BY AnalysisInvariant, RaisesStatic, PTL

LEMMA BurstsReportedStatic ==
    ASSUME AnalysisInv, ~failed
    PROVE  BurstsAreReported
<1>1. IsCase(events) /\ Found = Detect(events)
  BY CompletedAnalysis DEF AnalysisInv
<1>2. ASSUME NEW group \in AuthGroups(events), NEW i \in group, AuthReached(events, group, i)
      PROVE  Reports("AUTH-001", group, i, AuthWindow)
  <2>1. PICK t \in AuthTriggers(events, group) : t <= i /\ At(events, i) - At(events, t) <= AuthWindow
    BY <1>1, <1>2, AuthGroupFacts
  <2>2. t \in group
    BY <1>1, AuthGroupFacts
  <2> DEFINE Made(g, j) == Candidate("AUTH-001", AuthEntity(events, j), events[j].kind.actor,
                                     Newest(Active(events, g, j, AuthWindow), AuthThreshold), {j}, AuthThreshold)
             Of(g) == {Made(g, j) : j \in AuthTriggers(events, g)}
             c == Made(group, t)
  <2>3. c \in Found
    <3>1. AuthenticationFailures(events) = UNION {Of(g) : g \in AuthGroups(events)}
      BY DEF AuthenticationFailures
    <3> HIDE DEF Made
    <3>2. c \in Of(group)
      BY <2>1
    <3> HIDE DEF Of, c
    <3>3. c \in AuthenticationFailures(events)
      BY <3>1, <3>2
    <3> QED BY <3>3, <1>1 DEF Detect
  <2>4. c.rule = "AUTH-001" /\ c.triggers = {t}
    BY DEF Candidate
  <2> QED BY <2>1, <2>2, <2>3, <2>4 DEF Reports
<1>3. ASSUME NEW group \in FlowGroups(events), NEW rule \in NetworkRules, NEW i \in group,
             NetReached(events, rule, group, i)
      PROVE  Reports(rule, group, i, NetWindow)
  <2>1. PICK t \in NetTriggers(events, rule, group) : t <= i /\ At(events, i) - At(events, t) <= NetWindow
    BY <1>1, <1>3, FlowGroupFacts
  <2>2. t \in group
    BY <1>1, FlowGroupFacts
  <2> DEFINE Made(r, g, j) ==
               LET active == Active(events, g, j, NetWindow) IN
               Candidate(r, PrimaryEntity(events, j), events[j].kind.src, Supporting(events, r, active),
                         {j}, Measured(events, r, active))
  <2>3. Made(rule, group, t) \in Found
    <3> DEFINE p == <<rule, group>>
               Of(q) == {Made(q[1], q[2], j) : j \in NetTriggers(events, q[1], q[2])}
    <3>1. p \in NetworkRules \X FlowGroups(events) /\ p[1] = rule /\ p[2] = group
      OBVIOUS
    <3>2. NetworkBehaviors(events) = UNION {Of(q) : q \in NetworkRules \X FlowGroups(events)}
      BY DEF NetworkBehaviors
    <3> HIDE DEF p, Made
    <3>3. Made(rule, group, t) \in Of(p)
      BY <3>1
    <3> HIDE DEF Of
    <3>4. Made(rule, group, t) \in NetworkBehaviors(events)
      BY <3>1, <3>2, <3>3
    <3> QED BY <3>4, <1>1 DEF Detect
  <2>4. Made(rule, group, t).rule = rule /\ Made(rule, group, t).triggers = {t}
    BY DEF Candidate
  <2> QED BY <2>1, <2>2, <2>3, <2>4 DEF Reports
<1> QED BY <1>2, <1>3 DEF BurstsAreReported

\* Candidates of a rule come from its detector.
LEMMA RuleOf ==
    ASSUME NEW es, IsCase(es), NEW c \in Detect(es)
    PROVE  /\ c.rule = "AUTH-001" => c \in AuthenticationFailures(es)
           /\ c.rule = "LABEL-001" => c \in MaliciousLabel(es)
           /\ c.rule \in NetworkRules => c \in NetworkBehaviors(es)
           /\ c.rule \in {"AUTH-001", "LABEL-001", "RATE-001", "BASELINE-001", "TELEMETRY-ROC-001"} \cup NetworkRules
<1>1. CASE c \in MaliciousLabel(es)
  <2>1. c.rule = "LABEL-001"
    BY <1>1, LabelShape
  <2> QED BY <1>1, <2>1 DEF NetworkRules
<1>2. CASE c \in RequestRate(es)
  <2>1. c.rule = "RATE-001"
    BY <1>2, RateShape
  <2> QED BY <1>2, <2>1 DEF NetworkRules
<1>3. CASE c \in AuthenticationFailures(es)
  <2>1. c.rule = "AUTH-001"
    BY <1>3, AuthShape DEF Candidate
  <2> QED BY <1>3, <2>1 DEF NetworkRules
<1>4. CASE c \in NetworkBehaviors(es)
  <2>1. c.rule \in NetworkRules
    BY <1>4, NetShape
  <2> QED BY <1>4, <2>1 DEF NetworkRules
<1>5. CASE c \in BaselineSpikes(es)
  <2>1. c.rule = "BASELINE-001"
    BY <1>5, SpikeShape
  <2> QED BY <1>5, <2>1 DEF NetworkRules
<1>6. CASE c \in TelemetryRateChange(es)
  <2>1. c.rule = "TELEMETRY-ROC-001"
    BY <1>6, ChangeShape
  <2> QED BY <1>6, <2>1 DEF NetworkRules
<1> QED BY <1>1, <1>2, <1>3, <1>4, <1>5, <1>6 DEF Detect

LEMMA TriggerAnchor ==
    ASSUME NEW es, NEW c, NEW i, c.triggers = {i}, IsTimed(es, i), At(es, i) \in Int
    PROVE  Anchor(es, c) = At(es, i)
<1> DEFINE v == At(es, i)
<1>1. {At(es, j) : j \in c.triggers} \ {Untimed} = {v}
  BY DEF IsTimed
<1>2. Max({v}) = v
  <2>1. \E x \in {v} : \A y \in {v} : x >= y
    OBVIOUS
  <2> QED BY <2>1 DEF Max
<1> QED BY <1>1, <1>2 DEF Anchor

\* What a network rule makes of the event that triggers it.
FlowFinding(es, rule, group, i) ==
    LET active == Active(es, group, i, NetWindow) IN
    Candidate(rule, PrimaryEntity(es, i), es[i].kind.src, Supporting(es, rule, active), {i},
              Measured(es, rule, active))

LEMMA NetMade ==
    ASSUME NEW es, IsCase(es), NEW c \in NetworkBehaviors(es)
    PROVE  \E group \in FlowGroups(es) : \E i \in NetTriggers(es, c.rule, group) :
              c.triggers = {i} /\ c.about = es[i].kind.src /\ c = FlowFinding(es, c.rule, group, i)
<1>1. PICK rule \in NetworkRules, group \in FlowGroups(es) : \E i \in NetTriggers(es, rule, group) :
              /\ c.rule = rule /\ c.entity = PrimaryEntity(es, i) /\ c.about = es[i].kind.src
              /\ c = LET active == Active(es, group, i, NetWindow) IN
                     Candidate(rule, PrimaryEntity(es, i), es[i].kind.src, Supporting(es, rule, active),
                               {i}, Measured(es, rule, active))
              /\ c.triggers = {i} /\ Shaped(es, c) /\ Cardinality(c.events) <= SizeBound
              /\ WellFormed(c) \/ (rule = "NET-FAILURE-001" /\ es[i].kind.outcome \notin FailureStates)
  BY NetShape
<1>2. c.rule = rule
  BY <1>1
<1> QED BY <1>1, <1>2 DEF FlowFinding

LEMMA BurstsOnceStatic ==
    ASSUME AnalysisInv, ~failed
    PROVE  BurstsAreReportedOnce
<1>1. IsCase(events) /\ Found = Detect(events)
  BY CompletedAnalysis DEF AnalysisInv
<1>2. ASSUME NEW c \in Found, NEW d \in Found, c # d, c.rule = "AUTH-001", d.rule = "AUTH-001",
             c.about = d.about, c.entity = d.entity
      PROVE  Anchor(events, c) - Anchor(events, d) > AuthWindow \/ Anchor(events, d) - Anchor(events, c) > AuthWindow
  <2> DEFINE Made(g, i) == Candidate("AUTH-001", AuthEntity(events, i), events[i].kind.actor,
                                     Newest(Active(events, g, i, AuthWindow), AuthThreshold), {i}, AuthThreshold)
  <2>1. PICK g \in AuthGroups(events) : \E i \in AuthTriggers(events, g) : c = Made(g, i)
    BY <1>1, <1>2, RuleOf, AuthShape
  <2>2. PICK i \in AuthTriggers(events, g) : c = Made(g, i)
    BY <2>1
  <2>3. PICK h \in AuthGroups(events) : \E j \in AuthTriggers(events, h) : d = Made(h, j)
    BY <1>1, <1>2, RuleOf, AuthShape
  <2>4. PICK j \in AuthTriggers(events, h) : d = Made(h, j)
    BY <2>3
  <2>5. i \in g /\ j \in h /\ g \in SUBSET Ids(events) /\ h \in SUBSET Ids(events) /\ IsTimed(events, i) /\ IsTimed(events, j)
    BY <1>1, AuthGroupFacts
  <2>6. AuthKey(events, i) = AuthKey(events, j)
    BY <1>2, <2>2, <2>4 DEF Candidate, AuthKey
  <2>7. \A a : AuthGroup(events, a) = {b \in Ids(events) : AuthGrouped(events, b) /\ AuthKey(events, b) = AuthKey(events, a)}
    BY DEF AuthGroup
  <2>8. g = AuthGroup(events, i)
    <3>1. PICK a \in Ids(events) : g = AuthGroup(events, a)
      BY DEF AuthGroups
    <3>2. AuthKey(events, i) = AuthKey(events, a)
      BY <3>1, <2>5, <2>7
    <3> QED BY <3>1, <3>2, <2>7
  <2>9. h = AuthGroup(events, j)
    <3>1. PICK a \in Ids(events) : h = AuthGroup(events, a)
      BY DEF AuthGroups
    <3>2. AuthKey(events, j) = AuthKey(events, a)
      BY <3>1, <2>5, <2>7
    <3> QED BY <3>1, <3>2, <2>7
  <2>10. g = h
    BY <2>6, <2>7, <2>8, <2>9
  <2>11. i # j
    BY <2>2, <2>4, <2>10, <1>2
  <2>12. Anchor(events, c) = At(events, i) /\ Anchor(events, d) = At(events, j)
    <3>1. c.triggers = {i} /\ d.triggers = {j}
      BY <2>2, <2>4 DEF Candidate
    <3> QED BY <3>1, <2>5, <1>1, CaseFacts, TriggerAnchor
  <2>13. i < j \/ j < i
    BY <2>5, <2>11, <1>1, CaseFacts
  <2> QED BY <2>10, <2>12, <2>13, <1>1, AuthGroupFacts
<1>3. ASSUME NEW c \in Found, NEW d \in Found, c # d, c.rule \in NetworkRules, d.rule = c.rule, c.about = d.about
      PROVE  Anchor(events, c) - Anchor(events, d) > NetWindow \/ Anchor(events, d) - Anchor(events, c) > NetWindow
  <2> DEFINE R == c.rule
  <2>1. PICK g \in FlowGroups(events) : \E i \in NetTriggers(events, R, g) :
               c = FlowFinding(events, R, g, i) /\ c.triggers = {i} /\ c.about = events[i].kind.src
    <3>1. c \in NetworkBehaviors(events)
      BY <1>1, <1>3, RuleOf
    <3> QED BY <1>1, <1>3, <3>1, NetMade
  <2>2. PICK i \in NetTriggers(events, R, g) : c = FlowFinding(events, R, g, i) /\ c.triggers = {i} /\ c.about = events[i].kind.src
    BY <2>1
  <2>3. PICK h \in FlowGroups(events) : \E j \in NetTriggers(events, R, h) :
               d = FlowFinding(events, R, h, j) /\ d.triggers = {j} /\ d.about = events[j].kind.src
    <3>1. d \in NetworkBehaviors(events)
      BY <1>1, <1>3, RuleOf
    <3> QED BY <1>1, <1>3, <3>1, NetMade
  <2>4. PICK j \in NetTriggers(events, R, h) : d = FlowFinding(events, R, h, j) /\ d.triggers = {j} /\ d.about = events[j].kind.src
    BY <2>3
  <2>5. i \in g /\ j \in h /\ g \in SUBSET Ids(events) /\ h \in SUBSET Ids(events) /\ IsTimed(events, i) /\ IsTimed(events, j)
    BY <1>1, FlowGroupFacts
  <2>6. \A a : FlowGroup(events, a) = {b \in Ids(events) : IsFlow(events, b) /\ events[b].kind.src = events[a].kind.src}
    BY DEF FlowGroup
  <2>7. g = FlowGroup(events, i)
    <3>1. PICK a \in Ids(events) : g = FlowGroup(events, a)
      BY DEF FlowGroups
    <3>2. events[i].kind.src = events[a].kind.src
      BY <3>1, <2>5, <2>6
    <3> QED BY <3>1, <3>2, <2>6
  <2>8. h = FlowGroup(events, j)
    <3>1. PICK a \in Ids(events) : h = FlowGroup(events, a)
      BY DEF FlowGroups
    <3>2. events[j].kind.src = events[a].kind.src
      BY <3>1, <2>5, <2>6
    <3> QED BY <3>1, <3>2, <2>6
  <2>9. g = h
    <3>1. events[i].kind.src = events[j].kind.src
      BY <2>2, <2>4, <1>3
    <3> QED BY <3>1, <2>6, <2>7, <2>8
  <2>10. i # j
    BY <2>2, <2>4, <2>9, <1>3
  <2>11. Anchor(events, c) = At(events, i) /\ Anchor(events, d) = At(events, j)
    BY <2>2, <2>4, <2>5, <1>1, CaseFacts, TriggerAnchor
  <2>12. i < j \/ j < i
    BY <2>5, <2>10, <1>1, CaseFacts
  <2> QED BY <2>9, <2>11, <2>12, <1>1, FlowGroupFacts
<1>4. "AUTH-001" \notin NetworkRules
  BY DEF NetworkRules
<1> QED BY <1>2, <1>3, <1>4 DEF BurstsAreReportedOnce

\* A burst is reported when it is there, and once in its window.
THEOREM BurstsReported == Spec => [](~failed => BurstsAreReported /\ BurstsAreReportedOnce)
<1>1. AnalysisInv => (~failed => BurstsAreReported /\ BurstsAreReportedOnce)
  BY BurstsReportedStatic, BurstsOnceStatic
<1> QED BY <1>1, AnalysisInvariant, PTL

LEMMA LabelsStatic ==
    ASSUME AnalysisInv, ~failed
    PROVE  LabelsArePartitioned
<1> DEFINE Made(k, A) == Candidate("LABEL-001", k[3], k[4], A, A, Cardinality(A))
           labelled == {c \in Found : c.rule = "LABEL-001"}
<1>1. IsCase(events) /\ Found = Detect(events)
  BY CompletedAnalysis DEF AnalysisInv
<1>2. ASSUME NEW c \in labelled
      PROVE  \E k \in LabelKeys(events), timed \in BOOLEAN : \E A \in LabelSessions(events, k, timed) :
                c = Made(k, A) /\ c.events = A
  <2>1. c \in MaliciousLabel(events)
    BY <1>1, RuleOf
  <2> QED BY <2>1, <1>1, LabelShape
<1>3. ASSUME NEW k \in LabelKeys(events), NEW timed \in BOOLEAN, NEW A \in LabelSessions(events, k, timed)
      PROVE  Made(k, A) \in labelled /\ Made(k, A).events = A
  <2> DEFINE Of(p) == {Made(p[1], B) : B \in LabelSessions(events, p[1], p[2])}
             p == <<k, timed>>
  <2>1. MaliciousLabel(events) = UNION {Of(q) : q \in LabelKeys(events) \X BOOLEAN}
    BY DEF MaliciousLabel
  <2>2. p \in LabelKeys(events) \X BOOLEAN /\ p[1] = k /\ p[2] = timed
    OBVIOUS
  <2>3. Made(k, A).rule = "LABEL-001" /\ Made(k, A).events = A
    BY DEF Candidate
  <2> HIDE DEF p, Made
  <2>4. Made(k, A) \in Of(p)
    BY <2>2
  <2> HIDE DEF Of
  <2>5. Made(k, A) \in MaliciousLabel(events)
    BY <2>1, <2>2, <2>4
  <2> QED BY <2>3, <2>5, <1>1 DEF Detect
<1> HIDE DEF Made
<1>4. \A k, timed : \A i \in LabelRecords(events, k, timed) :
         i \in Ids(events) /\ LabelMatches(events, i) /\ LabelKey(events, i) = k /\ IsTimed(events, i) = timed
  BY DEF LabelRecords
<1>5. ASSUME NEW i \in Ids(events), LabelMatches(events, i)
      PROVE  Cardinality({c \in labelled : i \in c.events}) = 1
  <2> DEFINE k == LabelKey(events, i)
             timed == IsTimed(events, i)
             S == LabelRecords(events, k, timed)
             key == [j \in S |-> j]
             time == [j \in S |-> At(events, j)]
             full == [l \in S |-> {j \in S : Cardinality({m \in S : l <= m /\ m < j}) >= MaxLabelled}]
  <2>1. i \in S /\ k \in LabelKeys(events) /\ timed \in BOOLEAN
    BY <1>5 DEF LabelRecords, LabelKeys, IsTimed
  <2>2. LabelSessions(events, k, timed) = Sessionize(S, key, time, full)
    BY DEF LabelSessions
  <2>3. Ordered(S, key)
    <3>1. S \in SUBSET Ids(events)
      BY DEF LabelRecords
    <3> QED BY <3>1, <1>1, IdsOrdered
  <2> HIDE DEF S, k, timed, key, time, full
  <2>4. PICK A \in LabelSessions(events, k, timed) : i \in A
    BY <2>1, <2>2, <2>3, SessionsPartition
  <2>5. ASSUME NEW c \in labelled, i \in c.events PROVE c = Made(k, A)
    <3>1. PICK l \in LabelKeys(events), t \in BOOLEAN : \E B \in LabelSessions(events, l, t) :
                 c = Made(l, B) /\ c.events = B
      BY <1>2
    <3>2. PICK B \in LabelSessions(events, l, t) : c = Made(l, B) /\ c.events = B
      BY <3>1
    <3>3. i \in LabelRecords(events, l, t)
      BY <3>2, <2>5, <1>1, LabelSessionFacts
    <3>4. l = k /\ t = timed
      BY <3>3, <1>4 DEF k, timed
    <3>5. A \cap B # {}
      BY <3>2, <2>4, <2>5
    <3>6. A = B
      BY <3>2, <3>4, <3>5, <2>2, <2>3, SessionsPartition
    <3> QED BY <3>2, <3>4, <3>6
  <2>6. Made(k, A) \in labelled /\ i \in Made(k, A).events
    BY <2>1, <2>4, <1>3
  <2> HIDE DEF labelled
  <2>7. {c \in labelled : i \in c.events} = {Made(k, A)}
    BY <2>5, <2>6
  <2> QED BY <2>7, FS_Singleton
<1>6. ASSUME NEW c \in labelled
      PROVE  /\ Cardinality(c.events) <= MaxLabelled
             /\ \A i, j \in c.events : /\ IsTimed(events, i) = IsTimed(events, j)
                                       /\ At(events, i) - At(events, j) <= MaxSpan
  <2>1. PICK k \in LabelKeys(events), timed \in BOOLEAN : \E A \in LabelSessions(events, k, timed) : c.events = A
    BY <1>2
  <2>2. PICK A \in LabelSessions(events, k, timed) : c.events = A
    BY <2>1
  <2>3. /\ A \in SUBSET LabelRecords(events, k, timed) /\ Cardinality(A) <= MaxLabelled
        /\ \A i, j \in A : At(events, i) - At(events, j) <= MaxSpan
    BY <1>1, LabelSessionFacts
  <2> QED BY <2>2, <2>3, <1>4
<1> QED BY <1>5, <1>6 DEF LabelsArePartitioned

\* A record the source calls malicious is in exactly one label finding, which is inside its bounds.
THEOREM LabelsPartition == Spec => [](~failed => LabelsArePartitioned)
<1>1. AnalysisInv => (~failed => LabelsArePartitioned)
  BY LabelsStatic
<1> QED BY <1>1, AnalysisInvariant, PTL

(***************************************************************************)
(* Points: the largest remainders of five factors.                         *)
(***************************************************************************)
LEMMA CountOne ==
    ASSUME NEW S, IsFiniteSet(S), NEW T, NEW k, k \notin S
    PROVE  /\ IsFiniteSet(S \cup (T \cap {k}))
           /\ Cardinality(S \cup (T \cap {k})) = Cardinality(S) + (IF k \in T THEN 1 ELSE 0)
<1> DEFINE U == S \cup (T \cap {k})
<1>1. Cardinality(S) \in Nat
  BY FS_CardinalityType
<1>2. CASE k \in T
  <2>1. U = S \cup {k}
    BY <1>2
  <2>2. IsFiniteSet(S \cup {k}) /\ Cardinality(S \cup {k}) = Cardinality(S) + 1
    BY FS_AddElement
  <2> HIDE DEF U
  <2> QED BY <2>1, <2>2, <1>2
<1>3. CASE k \notin T
  <2>1. U = S
    BY <1>3
  <2>2. (IF k \in T THEN 1 ELSE 0) = 0
    BY <1>3
  <2>3. Cardinality(S) = Cardinality(S) + (IF k \in T THEN 1 ELSE 0)
    BY <1>1, <2>2
  <2> QED BY <2>1, <2>3
<1> QED BY <1>2, <1>3

LEMMA CountOfFive ==
    ASSUME NEW T \in SUBSET (1..5)
    PROVE  /\ IsFiniteSet(T)
           /\ Cardinality(T) = (IF 1 \in T THEN 1 ELSE 0) + (IF 2 \in T THEN 1 ELSE 0) + (IF 3 \in T THEN 1 ELSE 0)
                                 + (IF 4 \in T THEN 1 ELSE 0) + (IF 5 \in T THEN 1 ELSE 0)
<1> DEFINE S1 == {} \cup (T \cap {1})
           S2 == S1 \cup (T \cap {2})
           S3 == S2 \cup (T \cap {3})
           S4 == S3 \cup (T \cap {4})
           S5 == S4 \cup (T \cap {5})
<1>1. IsFiniteSet({}) /\ Cardinality({}) = 0
  BY FS_EmptySet
<1>2. 2 \notin S1 /\ 3 \notin S2 /\ 4 \notin S3 /\ 5 \notin S4
  OBVIOUS
<1>3. S5 = T
  <2>1. \A x \in T : x = 1 \/ x = 2 \/ x = 3 \/ x = 4 \/ x = 5
    OBVIOUS
  <2> QED BY <2>1
<1>4. IsFiniteSet(S1) /\ Cardinality(S1) = Cardinality({}) + (IF 1 \in T THEN 1 ELSE 0)
  <2>1. 1 \notin {}
    OBVIOUS
  <2> QED BY <1>1, <2>1, CountOne
<1> HIDE DEF S1
<1>5. IsFiniteSet(S2) /\ Cardinality(S2) = Cardinality(S1) + (IF 2 \in T THEN 1 ELSE 0)
  BY <1>2, <1>4, CountOne
<1> HIDE DEF S2
<1>6. IsFiniteSet(S3) /\ Cardinality(S3) = Cardinality(S2) + (IF 3 \in T THEN 1 ELSE 0)
  BY <1>2, <1>5, CountOne
<1> HIDE DEF S3
<1>7. IsFiniteSet(S4) /\ Cardinality(S4) = Cardinality(S3) + (IF 4 \in T THEN 1 ELSE 0)
  BY <1>2, <1>6, CountOne
<1> HIDE DEF S4
<1>8. IsFiniteSet(S5) /\ Cardinality(S5) = Cardinality(S4) + (IF 5 \in T THEN 1 ELSE 0)
  BY <1>2, <1>7, CountOne
<1> HIDE DEF S5
<1> QED BY <1>1, <1>3, <1>4, <1>5, <1>6, <1>7, <1>8

\* Five different ranks: as many of them are below n as n says.
LEMMA FiveRanks ==
    ASSUME NEW a \in 0..4, NEW b \in 0..4, NEW c \in 0..4, NEW d \in 0..4, NEW e \in 0..4,
           a # b, a # c, a # d, a # e, b # c, b # d, b # e, c # d, c # e, d # e, NEW n \in 0..5
    PROVE  (IF a < n THEN 1 ELSE 0) + (IF b < n THEN 1 ELSE 0) + (IF c < n THEN 1 ELSE 0)
             + (IF d < n THEN 1 ELSE 0) + (IF e < n THEN 1 ELSE 0) = n
BY SMTT(60)

LEMMA AheadFacts ==
    ASSUME NEW raw \in [1..5 -> Nat]
    PROVE  /\ \A f \in 1..5 : /\ Cardinality(Ahead(raw, f)) \in 0..4
                              /\ Ahead(raw, f) \in SUBSET (1..5)
           /\ \A f, g \in 1..5 : f # g => Cardinality(Ahead(raw, f)) # Cardinality(Ahead(raw, g))
<1> DEFINE r == [f \in 1..5 |-> raw[f] % 100]
<1>1. \A f \in 1..5 : r[f] \in Int /\ f \in Int
  OBVIOUS
<1>2. \A f, g \in 1..5 : g \in Ahead(raw, f) <=> r[g] > r[f] \/ (r[g] = r[f] /\ g < f)
  BY DEF Ahead
<1>3. \A f : Ahead(raw, f) \in SUBSET (1..5)
  BY DEF Ahead
<1> HIDE DEF r
<1>4. IsFiniteSet(1..5) /\ Cardinality(1..5) = 5
  <2>1. 1 \in Int /\ 5 \in Int
    OBVIOUS
  <2>2. IsFiniteSet(1..5) /\ Cardinality(1..5) = IF 1 > 5 THEN 0 ELSE 5 - 1 + 1
    BY ONLY <2>1, FS_Interval
  <2> QED BY <2>2
<1>5. ASSUME NEW f \in 1..5, NEW g \in 1..5, g \in Ahead(raw, f)
      PROVE  Cardinality(Ahead(raw, g)) < Cardinality(Ahead(raw, f))
  <2>1. Ahead(raw, g) \subseteq Ahead(raw, f)
    <3>1. ASSUME NEW h \in Ahead(raw, g) PROVE h \in Ahead(raw, f)
      <4>1. h \in 1..5
        BY <1>3
      <4>2. r[h] > r[g] \/ (r[h] = r[g] /\ h < g)
        BY <4>1, <1>2
      <4>3. r[g] > r[f] \/ (r[g] = r[f] /\ g < f)
        BY <1>2, <1>5
      <4>4. r[h] > r[f] \/ (r[h] = r[f] /\ h < f)
        BY <4>1, <4>2, <4>3, <1>1
      <4> QED BY <4>1, <4>4, <1>2
    <3> QED BY <3>1
  <2>2. g \notin Ahead(raw, g)
    BY <1>1, <1>2
  <2>3. Ahead(raw, g) # Ahead(raw, f)
    BY <2>2, <1>5
  <2>4. IsFiniteSet(Ahead(raw, f)) /\ IsFiniteSet(Ahead(raw, g))
    BY <1>3, <1>4, FS_Subset
  <2>5. Cardinality(Ahead(raw, f)) \in Nat /\ Cardinality(Ahead(raw, g)) \in Nat
    BY <2>4, FS_CardinalityType
  <2> QED BY <2>1, <2>3, <2>4, <2>5, FS_Subset
<1>6. ASSUME NEW f \in 1..5 PROVE Cardinality(Ahead(raw, f)) \in 0..4
  <2>1. f \notin Ahead(raw, f)
    BY <1>1, <1>2
  <2>2. Ahead(raw, f) # 1..5
    BY <2>1
  <2>3. IsFiniteSet(Ahead(raw, f)) /\ Cardinality(Ahead(raw, f)) <= 5 /\ Cardinality(Ahead(raw, f)) # 5
    BY <2>2, <1>3, <1>4, FS_Subset
  <2>4. Cardinality(Ahead(raw, f)) \in Nat
    BY <2>3, FS_CardinalityType
  <2> QED BY <2>3, <2>4
<1>7. ASSUME NEW f \in 1..5, NEW g \in 1..5, f # g
      PROVE  Cardinality(Ahead(raw, f)) # Cardinality(Ahead(raw, g))
  <2>1. g \in Ahead(raw, f) \/ f \in Ahead(raw, g)
    BY <1>1, <1>2, <1>7
  <2>2. CASE g \in Ahead(raw, f)
    <3>1. Cardinality(Ahead(raw, g)) < Cardinality(Ahead(raw, f))
      BY <1>5, <2>2
    <3> QED BY <3>1, <1>6
  <2>3. CASE f \in Ahead(raw, g)
    <3>1. Cardinality(Ahead(raw, f)) < Cardinality(Ahead(raw, g))
      BY <1>5, <2>3
    <3> QED BY <3>1, <1>6
  <2> QED BY <2>1, <2>2, <2>3
<1> QED BY <1>3, <1>6, <1>7

\* The rounded share of a sum of whole hundreds and five remainders.
LEMMA RoundedSum ==
    ASSUME NEW whole \in Nat, NEW rest \in Nat, NEW sum, sum = 100 * whole + rest, sum <= 10000, rest <= 495
    PROVE  /\ RoundHalfUp(sum, 100) \in 0..100
           /\ RoundHalfUp(sum, 100) - whole \in 0..5
           /\ 200 * (RoundHalfUp(sum, 100) - whole) <= 2 * rest + 100
<1> DEFINE n == 2 * sum + 100
           t == n \div 200
<1>1. RoundHalfUp(sum, 100) = t
  BY DEF RoundHalfUp
<1>2. n \in Nat /\ n <= 20100 /\ n = 200 * whole + 2 * rest + 100
  OBVIOUS
<1> HIDE DEF n
<1>3. t \in Int /\ 200 * t <= n /\ n < 200 * t + 200
  BY <1>2
<1> HIDE DEF t
<1>4. t \in 0..100 /\ t - whole \in 0..5 /\ 200 * (t - whole) <= 2 * rest + 100
  BY <1>2, <1>3
<1> QED BY <1>1, <1>4

LEMMA AllocateFacts ==
    ASSUME NEW raw \in [1..5 -> Nat], SumOf(raw) <= 10000
    PROVE  /\ SumOf(Allocate(raw)) = RoundHalfUp(SumOf(raw), 100)
           /\ SumOf(Allocate(raw)) \in 0..100
           /\ \A f \in 1..5 : /\ -100 < 100 * Allocate(raw)[f] - raw[f]
                              /\ 100 * Allocate(raw)[f] - raw[f] < 100
<1> DEFINE q == [f \in 1..5 |-> raw[f] \div 100]
           r == [f \in 1..5 |-> raw[f] % 100]
           a == [f \in 1..5 |-> Cardinality(Ahead(raw, f))]
           Q == SumOf(q)
           R == SumOf(r)
           total == RoundHalfUp(SumOf(raw), 100)
           p == Allocate(raw)
<1>1. ASSUME NEW f \in 1..5 PROVE q[f] \in Nat /\ r[f] \in 0..99 /\ raw[f] = 100 * q[f] + r[f]
  <2>1. q[f] = raw[f] \div 100
    OBVIOUS
  <2>2. r[f] = raw[f] % 100
    OBVIOUS
  <2>3. raw[f] \in Nat
    OBVIOUS
  <2> HIDE DEF q, r
  <2> QED BY <2>1, <2>2, <2>3
<1>2. 1 \in 1..5 /\ 2 \in 1..5 /\ 3 \in 1..5 /\ 4 \in 1..5 /\ 5 \in 1..5
  OBVIOUS
<1>3. \A f \in 1..5 : a[f] \in 0..4 /\ \A g \in 1..5 : f # g => a[f] # a[g]
  BY AheadFacts
<1>4. \A f \in 1..5 : a[f] = Cardinality(Ahead(raw, f))
  OBVIOUS
<1>5. \A f, g \in 1..5 : g \in Ahead(raw, f) <=> r[g] > r[f] \/ (r[g] = r[f] /\ g < f)
  BY DEF Ahead
<1>6. p = [f \in 1..5 |-> q[f] + IF a[f] < Min({100, total}) - Q THEN 1 ELSE 0]
  BY DEF Allocate
<1> HIDE DEF q, r, a, p
<1> DEFINE Split(f) == q[f] \in Nat /\ r[f] \in Nat /\ r[f] <= 99 /\ raw[f] = 100 * q[f] + r[f]
<1>s. Split(1) /\ Split(2) /\ Split(3) /\ Split(4) /\ Split(5)
  BY <1>1, <1>2
<1>7. Q \in Nat /\ R \in Nat /\ R <= 495 /\ SumOf(raw) = 100 * Q + R
  <2>1. Q = q[1] + q[2] + q[3] + q[4] + q[5]
    BY DEF SumOf
  <2>2. R = r[1] + r[2] + r[3] + r[4] + r[5]
    BY DEF SumOf
  <2>3. SumOf(raw) = raw[1] + raw[2] + raw[3] + raw[4] + raw[5]
    BY DEF SumOf
  <2> HIDE DEF Q, R
  <2>4. Q \in Nat /\ R \in Nat /\ R <= 495
    BY <1>s, <2>1, <2>2
  <2>5. SumOf(raw) = 100 * Q + R
    BY <1>s, <2>1, <2>2, <2>3
  <2> QED BY <2>4, <2>5
<1> DEFINE left == total - Q
<1>8. total \in 0..100 /\ left \in 0..5 /\ 200 * left <= 2 * R + 100 /\ total = Q + left
  <2> DEFINE sum == SumOf(raw)
  <2>1. sum <= 10000
    OBVIOUS
  <2> HIDE DEF Q, R, sum
  <2>2. sum = 100 * Q + R /\ Q \in Nat /\ R \in Nat /\ R <= 495
    BY <1>7 DEF sum
  <2>3. /\ RoundHalfUp(sum, 100) \in 0..100
        /\ RoundHalfUp(sum, 100) - Q \in 0..5
        /\ 200 * (RoundHalfUp(sum, 100) - Q) <= 2 * R + 100
    BY <2>1, <2>2, RoundedSum
  <2> QED BY <2>2, <2>3 DEF sum
<1> HIDE DEF left
<1>9. Min({100, total}) = total
  <2>1. total \in Int /\ total <= 100
    BY <1>7, <1>8
  <2> HIDE DEF total
  <2>2. \E x \in {100, total} : \A y \in {100, total} : x <= y
    BY <2>1
  <2>3. Min({100, total}) \in {100, total} /\ \A y \in {100, total} : Min({100, total}) <= y
    BY <2>2 DEF Min
  <2> QED BY <2>1, <2>3
<1>10. \A f \in 1..5 : p[f] = q[f] + IF a[f] < left THEN 1 ELSE 0
  <2>1. Min({100, total}) - Q = left
    BY <1>7, <1>8, <1>9
  <2> HIDE DEF total, Q
  <2> QED BY <2>1, <1>6
<1>11. SumOf(p) = Q + left
  <2>1. (IF a[1] < left THEN 1 ELSE 0) + (IF a[2] < left THEN 1 ELSE 0) + (IF a[3] < left THEN 1 ELSE 0)
          + (IF a[4] < left THEN 1 ELSE 0) + (IF a[5] < left THEN 1 ELSE 0) = left
    BY <1>2, <1>3, <1>8, FiveRanks
  <2> DEFINE I(f) == IF a[f] < left THEN 1 ELSE 0
             Bumped(f) == p[f] = q[f] + I(f) /\ I(f) \in Int
  <2>2. Bumped(1) /\ Bumped(2) /\ Bumped(3) /\ Bumped(4) /\ Bumped(5)
    BY <1>2, <1>10
  <2>3. I(1) + I(2) + I(3) + I(4) + I(5) = left
    BY <2>1
  <2> HIDE DEF I
  <2> QED BY ONLY <2>2, <2>3, <1>s DEF SumOf
<1>12. ASSUME NEW f \in 1..5, a[f] < left PROVE r[f] > 0
  <2> SUFFICES ASSUME r[f] = 0 PROVE FALSE
    BY <1>1
  <2> DEFINE P == {g \in 1..5 : r[g] > 0}
             I(g) == IF g \in P THEN 1 ELSE 0
  <2>1. P \in SUBSET Ahead(raw, f)
    BY <1>5
  <2>2. Ahead(raw, f) \in SUBSET (1..5) /\ IsFiniteSet(Ahead(raw, f))
    BY AheadFacts, CountOfFive
  <2>3. Cardinality(P) <= a[f] /\ IsFiniteSet(P)
    BY <2>1, <2>2, <1>4, FS_Subset
  <2>4. Cardinality(P) = I(1) + I(2) + I(3) + I(4) + I(5)
    BY CountOfFive
  <2>5. \A g \in 1..5 : I(g) \in 0..1 /\ r[g] <= 99 * I(g)
    BY <1>1
  <2> DEFINE Small(g) == I(g) \in 0..1 /\ r[g] <= 99 * I(g)
  <2>s. Small(1) /\ Small(2) /\ Small(3) /\ Small(4) /\ Small(5)
    BY <2>5, <1>2
  <2> HIDE DEF I, P
  <2>6. R <= 99 * Cardinality(P) /\ Cardinality(P) \in Nat
    <3>1. R = r[1] + r[2] + r[3] + r[4] + r[5]
      BY DEF SumOf
    <3> HIDE DEF R, Small
    <3>2. /\ I(1) \in 0..1 /\ I(2) \in 0..1 /\ I(3) \in 0..1 /\ I(4) \in 0..1 /\ I(5) \in 0..1
          /\ r[1] <= 99 * I(1) /\ r[2] <= 99 * I(2) /\ r[3] <= 99 * I(3) /\ r[4] <= 99 * I(4) /\ r[5] <= 99 * I(5)
      BY <2>s DEF Small
    <3>3. r[1] \in Int /\ r[2] \in Int /\ r[3] \in Int /\ r[4] \in Int /\ r[5] \in Int
      BY <1>s
    <3>4. I(1) \in Nat /\ I(2) \in Nat /\ I(3) \in Nat /\ I(4) \in Nat /\ I(5) \in Nat
      BY <3>2
    <3>5. Cardinality(P) \in Nat
      BY <2>3, FS_CardinalityType
    <3> HIDE DEF Split
    <3>6. R <= 99 * I(1) + 99 * I(2) + 99 * I(3) + 99 * I(4) + 99 * I(5)
      <4>1. r[1] <= 99 * I(1) /\ r[2] <= 99 * I(2) /\ r[3] <= 99 * I(3) /\ r[4] <= 99 * I(4) /\ r[5] <= 99 * I(5)
        BY <3>2
      <4> QED BY ONLY <4>1, <3>1, <3>3, <3>4
    <3>7. 99 * Cardinality(P) = 99 * I(1) + 99 * I(2) + 99 * I(3) + 99 * I(4) + 99 * I(5)
      BY ONLY <2>4, <3>4
    <3> QED BY <3>5, <3>6, <3>7
  <2> HIDE DEF R
  <2>7. a[f] \in Int /\ left \in Int /\ a[f] < left /\ a[f] <= 4 /\ 200 * left <= 2 * R + 100 /\ R \in Nat
    <3>1. a[f] \in 0..4
      BY <1>3
    <3>2. left \in 0..5 /\ 200 * left <= 2 * R + 100
      BY <1>8
    <3> QED BY <3>1, <3>2, <1>7, <1>12
  <2> QED BY ONLY <2>3, <2>6, <2>7
<1>13. ASSUME NEW f \in 1..5 PROVE -100 < 100 * p[f] - raw[f] /\ 100 * p[f] - raw[f] < 100
  <2>1. CASE a[f] < left
    <3>1. p[f] = q[f] + 1 /\ r[f] > 0
      BY <2>1, <1>10, <1>12
    <3> QED BY <3>1, <1>1
  <2>2. CASE ~(a[f] < left)
    <3>1. p[f] = q[f]
      BY <2>2, <1>1, <1>10
    <3>2. raw[f] = 100 * q[f] + r[f] /\ q[f] \in Nat /\ r[f] \in 0..99
      BY <1>1
    <3> QED BY ONLY <3>1, <3>2
  <2> QED BY <2>1, <2>2
<1>14. SumOf(p) = total /\ SumOf(p) \in 0..100
  BY <1>7, <1>8, <1>11
<1> QED BY <1>13, <1>14 DEF p

(***************************************************************************)
(* Scores.                                                                 *)
(***************************************************************************)
Rules == {"AUTH-001", "LABEL-001", "RATE-001", "BASELINE-001", "TELEMETRY-ROC-001"} \cup NetworkRules

LEMMA MeasuredFacts ==
    ASSUME NEW es, NEW rule \in NetworkRules, NEW active, IsFiniteSet(active)
    PROVE  Measured(es, rule, active) \in Nat
<1>1. Cardinality(Destinations(es, active)) \in Nat
  <2> DEFINE g == [i \in active |-> es[i].kind.dst]
  <2>1. Destinations(es, active) = {g[i] : i \in active} \ {None}
    BY DEF Destinations
  <2> HIDE DEF g
  <2>2. IsFiniteSet({g[i] : i \in active})
    BY ImageFinite
  <2>3. IsFiniteSet({g[i] : i \in active} \ {None})
    BY <2>2, FS_Difference
  <2> QED BY <2>1, <2>3, FS_CardinalityType
<1>2. Cardinality(Ports(es, active)) \in Nat
  <2> DEFINE A == {j \in active : es[j].kind.dst # None /\ es[j].kind.port # None}
             g == [i \in A |-> <<es[i].kind.dst, es[i].kind.port>>]
  <2>1. Ports(es, active) = {g[i] : i \in A}
    BY DEF Ports
  <2>2. IsFiniteSet(A)
    BY FS_Subset
  <2> HIDE DEF g, A
  <2>3. IsFiniteSet({g[i] : i \in A})
    BY <2>2, ImageFinite
  <2> QED BY <2>1, <2>3, FS_CardinalityType
<1>3. Cardinality(Failures(es, active)) \in Nat
  <2>1. Failures(es, active) \in SUBSET active
    BY DEF Failures
  <2> QED BY <2>1, FS_Subset, FS_CardinalityType
<1> QED BY <1>1, <1>2, <1>3 DEF Measured, NetworkRules

LEMMA CountFacts ==
    ASSUME NEW es, IsCase(es), NEW c \in Detect(es)
    PROVE  c.count \in Nat
<1>1. CASE c \in MaliciousLabel(es)
  <2>1. PICK k \in LabelKeys(es), timed \in BOOLEAN : \E A \in LabelSessions(es, k, timed) :
              c = Candidate("LABEL-001", k[3], k[4], A, A, Cardinality(A)) /\ c.events = A /\ Shaped(es, c)
    BY <1>1, LabelShape
  <2>2. PICK A \in LabelSessions(es, k, timed) :
              c = Candidate("LABEL-001", k[3], k[4], A, A, Cardinality(A)) /\ c.events = A /\ Shaped(es, c)
    BY <2>1
  <2>3. A \in SUBSET Ids(es)
    BY <2>2 DEF Shaped
  <2>4. Cardinality(A) \in Nat
    BY <2>3, CaseFacts, FS_Subset, FS_CardinalityType
  <2>5. c.count = Cardinality(A)
    BY <2>2 DEF Candidate
  <2> QED BY <2>4, <2>5
<1>2. CASE c \in RequestRate(es)
  BY <1>2 DEF RequestRate, Candidate
<1>3. CASE c \in AuthenticationFailures(es)
  <2>1. c.count = AuthThreshold
    BY <1>3 DEF AuthenticationFailures, Candidate
  <2> QED BY <2>1, ConfigFacts
<1>4. CASE c \in NetworkBehaviors(es)
  <2>1. PICK group \in FlowGroups(es) : \E i \in NetTriggers(es, c.rule, group) : c = FlowFinding(es, c.rule, group, i)
    BY <1>4, NetMade
  <2>2. PICK i \in NetTriggers(es, c.rule, group) : c = FlowFinding(es, c.rule, group, i)
    BY <2>1
  <2>3. c.rule \in NetworkRules
    BY <1>4, NetShape
  <2>4. i \in group /\ group \in SUBSET Ids(es)
    BY <2>2, FlowGroupFacts
  <2>5. Active(es, group, i, NetWindow) \in SUBSET group
    BY <2>4, ConfigFacts, ActiveFacts
  <2>6. IsFiniteSet(Active(es, group, i, NetWindow))
    BY <2>4, <2>5, CaseFacts, FS_Subset
  <2>7. Measured(es, c.rule, Active(es, group, i, NetWindow)) \in Nat
    BY <2>3, <2>6, MeasuredFacts
  <2>8. FlowFinding(es, c.rule, group, i).count = Measured(es, c.rule, Active(es, group, i, NetWindow))
    BY DEF FlowFinding, Candidate
  <2> QED BY <2>2, <2>7, <2>8
<1>5. CASE c \in BaselineSpikes(es)
  BY <1>5 DEF BaselineSpikes, Candidate
<1>6. CASE c \in TelemetryRateChange(es)
  BY <1>6 DEF TelemetryRateChange, Candidate
<1> QED BY <1>1, <1>2, <1>3, <1>4, <1>5, <1>6 DEF Detect

LEMMA MinOfHundred ==
    ASSUME NEW n \in Nat
    PROVE  Min({100, n}) \in 0..100
<1>1. \E x \in {100, n} : \A y \in {100, n} : x <= y
  OBVIOUS
<1>2. Min({100, n}) \in {100, n} /\ \A y \in {100, n} : Min({100, n}) <= y
  BY <1>1 DEF Min
<1> QED BY <1>2

LEMMA FactorFacts ==
    ASSUME NEW es, NEW c, NEW links, c.rule \in Rules, c.count \in Nat
    PROVE  /\ FactorScores(es, c, links)[1] \in 0..100 /\ FactorScores(es, c, links)[2] \in 0..100
           /\ FactorScores(es, c, links)[3] \in 0..100 /\ FactorScores(es, c, links)[4] \in 0..100
           /\ FactorScores(es, c, links)[5] \in 0..100
<1> DEFINE ref == RepetitionReference(c.rule)
           n == RoundHalfUp(100 * c.count, ref)
<1>1. SeverityScore(c) \in 0..100
  <2>1. \A k \in DOMAIN KnownClasses : KnownClasses[k] \in 0..100
    BY ConfigConstants
  <2> QED BY <2>1 DEF SeverityScore
<1>2. Confidence(c.rule) \in 0..100
  BY DEF Confidence, Rules, NetworkRules
<1>3. ref \in Nat /\ ref >= 1
  BY ConfigFacts DEF RepetitionReference, Threshold, NetworkRules, Rules
<1>4. n \in Nat
  <2> DEFINE a == 2 * (100 * c.count) + ref
             b == 2 * ref
  <2>1. a \in Nat /\ b \in Nat /\ b >= 1
    BY <1>3
  <2>2. n = a \div b
    BY DEF RoundHalfUp
  <2> HIDE DEF a, b
  <2> QED BY <2>1, <2>2
<1>5. Min({100, n}) \in 0..100
  <2> HIDE DEF n
  <2> QED BY <1>4, MinOfHundred
<1>6. Corroboration(es, c, links) \in 0..100
  BY DEF Corroboration
<1> QED BY <1>1, <1>2, <1>5, <1>6 DEF FactorScores

LEMMA WeightedFacts ==
    ASSUME NEW scores, scores[1] \in 0..100, scores[2] \in 0..100, scores[3] \in 0..100,
           scores[4] \in 0..100, scores[5] \in 0..100
    PROVE  /\ Weighted(scores) \in [1..5 -> Nat] /\ SumOf(Weighted(scores)) <= 10000
           /\ \A f \in 1..5 : Weighted(scores)[f] = scores[f] * Weights[f]
<1>1. Weights[1] = 30 /\ Weights[2] = 25 /\ Weights[3] = 20 /\ Weights[4] = 15 /\ Weights[5] = 10
  BY DEF Weights
<1>2. \A f \in 1..5 : Weighted(scores)[f] = scores[f] * Weights[f]
  BY DEF Weighted
<1> DEFINE w == Weighted(scores)
<1>3. w = [f \in 1..5 |-> w[f]]
  BY DEF Weighted
<1> HIDE DEF w
<1>4. \A f \in 1..5 : w[f] = scores[f] * Weights[f]
  BY <1>2 DEF w
<1>5. w[1] = scores[1] * 30 /\ w[2] = scores[2] * 25 /\ w[3] = scores[3] * 20 /\ w[4] = scores[4] * 15
        /\ w[5] = scores[5] * 10
  BY <1>1, <1>4
<1>6. w[1] \in Nat /\ w[1] <= 3000
  BY <1>5
<1>7. w[2] \in Nat /\ w[2] <= 2500
  BY <1>5
<1>8. w[3] \in Nat /\ w[3] <= 2000
  BY <1>5
<1>9. w[4] \in Nat /\ w[4] <= 1500
  BY <1>5
<1>10. w[5] \in Nat /\ w[5] <= 1000
  BY <1>5
<1>11. ASSUME NEW f \in 1..5 PROVE w[f] \in Nat
  <2>1. f = 1 \/ f = 2 \/ f = 3 \/ f = 4 \/ f = 5
    OBVIOUS
  <2> QED BY ONLY <2>1, <1>6, <1>7, <1>8, <1>9, <1>10
<1>12. SumOf(w) <= 10000
  <2>1. SumOf(w) = w[1] + w[2] + w[3] + w[4] + w[5]
    BY DEF SumOf
  <2> QED BY ONLY <2>1, <1>6, <1>7, <1>8, <1>9, <1>10
<1> QED BY <1>2, <1>3, <1>11, <1>12 DEF w

\* The points of a finding are its weighted scores, rounded, and its risk is in range.
LEMMA ScoreFacts ==
    ASSUME NEW es, IsCase(es), NEW c \in Detect(es), NEW links
    PROVE  LET s == Score(es, c, links)
               raw == Weighted(FactorScores(es, c, links))
           IN /\ s.candidate = c /\ s.risk \in 0..100
              /\ SumOf(s.points) = RoundHalfUp(SumOf(raw), 100)
              /\ \A f \in 1..5 : -100 < 100 * s.points[f] - raw[f] /\ 100 * s.points[f] - raw[f] < 100
<1> DEFINE raw == Weighted(FactorScores(es, c, links))
           points == Allocate(raw)
           n == SumOf(points) - Penalty(es, c)
<1>1. c.rule \in Rules /\ c.count \in Nat
  BY RuleOf, CountFacts DEF Rules
<1>2. raw \in [1..5 -> Nat] /\ SumOf(raw) <= 10000
  BY <1>1, FactorFacts, WeightedFacts
<1> HIDE DEF raw
<1>3. /\ SumOf(points) = RoundHalfUp(SumOf(raw), 100) /\ SumOf(points) \in 0..100
      /\ \A f \in 1..5 : -100 < 100 * points[f] - raw[f] /\ 100 * points[f] - raw[f] < 100
  BY <1>2, AllocateFacts
<1>4. Score(es, c, links) = [candidate |-> c, points |-> points, risk |-> Max({0, n})]
  BY DEF Score, raw
<1>5. Max({0, n}) \in 0..100
  <2>1. Penalty(es, c) \in 0..25
    BY DEF Penalty
  <2>2. n \in Int /\ n <= 100
    BY <1>3, <2>1
  <2> HIDE DEF n
  <2>3. \E x \in {0, n} : \A y \in {0, n} : x >= y
    BY <2>2
  <2>4. Max({0, n}) \in {0, n} /\ \A y \in {0, n} : Max({0, n}) >= y
    BY <2>3 DEF Max
  <2> QED BY <2>2, <2>4
<1> QED BY <1>3, <1>4, <1>5 DEF raw

LEMMA RiskStatic ==
    ASSUME AnalysisInv, ~failed
    PROVE  RiskReconciles
<1> DEFINE links == Correlate(events)
<1>1. IsCase(events) /\ Found = Detect(events) /\ analysis.risks = {Score(events, c, links) : c \in Found}
  BY CompletedAnalysis DEF AnalysisInv
<1> HIDE DEF links
<1>2. ASSUME NEW c \in Found
      PROVE  LET s == Score(events, c, links)
                 scores == FactorScores(events, s.candidate, links)
             IN /\ s.risk \in 0..100
                /\ SumOf(s.points) = RoundHalfUp(SumOf(Weighted(scores)), 100)
                /\ \A f \in 1..5 :
                      LET over == 100 * s.points[f] - scores[f] * Weights[f] IN -100 < over /\ over < 100
  <2> DEFINE s == Score(events, c, links)
             scores == FactorScores(events, c, links)
             raw == Weighted(scores)
  <2>1. /\ s.candidate = c /\ s.risk \in 0..100 /\ SumOf(s.points) = RoundHalfUp(SumOf(raw), 100)
        /\ \A f \in 1..5 : -100 < 100 * s.points[f] - raw[f] /\ 100 * s.points[f] - raw[f] < 100
    BY <1>1, ScoreFacts
  <2>2. \A f \in 1..5 : raw[f] = scores[f] * Weights[f]
    BY DEF Weighted
  <2> HIDE DEF s, scores, raw
  <2>3. \A f \in 1..5 : -100 < 100 * s.points[f] - scores[f] * Weights[f]
                          /\ 100 * s.points[f] - scores[f] * Weights[f] < 100
    BY <2>1, <2>2
  <2> QED BY <2>1, <2>3 DEF s, scores, raw
<1> QED BY <1>1, <1>2 DEF RiskReconciles, links

\* The stored points of a finding add up to the rounded weighted sum of its scores, each within one of its
\* exact share (risk.py, largest remainder).
THEOREM PointsReconcile == Spec => [](~failed => RiskReconciles)
<1>1. AnalysisInv => (~failed => RiskReconciles)
  BY RiskStatic
<1> QED BY <1>1, AnalysisInvariant, PTL

(***************************************************************************)
(* The derived views.                                                      *)
(***************************************************************************)
LEMMA MaxIs ==
    ASSUME NEW S \in SUBSET Int, IsFiniteSet(S), S # {}
    PROVE  Max(S) \in S /\ \A y \in S : y <= Max(S)
<1> DEFINE key == [i \in S |-> i]
<1>1. \A i \in S : key[i] = i /\ key[i] \in Int
  OBVIOUS
<1> HIDE DEF key
<1>2. PICK x \in S : \A y \in S : key[y] <= key[x]
  BY <1>1, Extremes
<1>3. x \in S /\ \A y \in S : x >= y
  BY <1>1, <1>2
<1>4. Max(S) \in S /\ \A y \in S : Max(S) >= y
  BY <1>3 DEF Max
<1> QED BY <1>4

LEMMA PrecedesIf ==
    ASSUME NEW a, NEW b, a.occurred = Untimed <=> b.occurred = Untimed,
           \/ a.occurred < b.occurred
           \/ a.occurred = b.occurred /\ a.ingested < b.ingested
           \/ a.occurred = b.occurred /\ a.ingested = b.ingested /\ a.order < b.order
    PROVE  Precedes(a, b)
<1>1. ((a.occurred = Untimed) # (b.occurred = Untimed)) = FALSE
  <2>1. CASE a.occurred = Untimed
    <3>1. (a.occurred = Untimed) = TRUE /\ (b.occurred = Untimed) = TRUE
      BY <2>1
    <3> QED BY <3>1
  <2>2. CASE a.occurred # Untimed
    <3>1. (a.occurred = Untimed) = FALSE /\ (b.occurred = Untimed) = FALSE
      BY <2>2
    <3> QED BY <3>1
  <2> QED BY <2>1, <2>2
<1> QED BY <1>1 DEF Precedes

\* A finding is shown after the events it rests on.
LEMMA EntriesStatic ==
    ASSUME NEW es, IsCase(es), NEW c, Shaped(es, c), NEW i \in c.events
    PROVE  Precedes(EventEntry(es, i), FindingEntry(es, c))
<1> DEFINE times == {At(es, j) : j \in c.events} \ {Untimed}
           marks == {Ingested(j) : j \in c.events}
           e == EventEntry(es, i)
           f == FindingEntry(es, c)
<1>1. c.events \in SUBSET Ids(es) /\ IsFiniteSet(c.events)
  BY CaseFacts, FS_Subset DEF Shaped
<1>2. IsFiniteSet(times)
  <2> DEFINE g == [j \in c.events |-> At(es, j)]
  <2>1. times = {g[j] : j \in c.events} \ {Untimed}
    OBVIOUS
  <2> HIDE DEF g, times
  <2>2. IsFiniteSet({g[j] : j \in c.events})
    BY <1>1, ImageFinite
  <2> QED BY <2>1, <2>2, FS_Difference
<1>3. IsFiniteSet(marks)
  <2> DEFINE g == [j \in c.events |-> Ingested(j)]
  <2>1. marks = {g[j] : j \in c.events}
    OBVIOUS
  <2> HIDE DEF g, marks
  <2> QED BY <2>1, <1>1, ImageFinite
<1>4. times \in SUBSET Int /\ marks \in SUBSET Int
  BY <1>1, CaseFacts, AnalysisFacts DEF Ingested
<1>5. Ingested(i) \in marks
  OBVIOUS
<1>6. Ingested(i) <= Max(marks) /\ Ingested(i) \in Int /\ Max(marks) \in Int
  <2> HIDE DEF marks
  <2> QED BY <1>3, <1>4, <1>5, MaxIs
<1>7. /\ e.order = 0 /\ e.occurred = At(es, i) /\ e.ingested = Ingested(i)
      /\ f.order = 1 /\ f.ingested = Max(marks) /\ f.occurred = (IF times = {} THEN Untimed ELSE Max(times))
  BY DEF EventEntry, FindingEntry, Latest
<1> HIDE DEF e, f, marks
<1>8. CASE \A j \in c.events : ~IsTimed(es, j)
  <2>1. times = {} /\ At(es, i) = Untimed
    BY <1>8 DEF IsTimed
  <2> HIDE DEF times
  <2>2. e.occurred = f.occurred
    BY <2>1, <1>7
  <2>3. e.occurred = Untimed <=> f.occurred = Untimed
    BY <2>2
  <2>4. e.ingested < f.ingested \/ (e.ingested = f.ingested /\ e.order < f.order)
    BY <1>6, <1>7
  <2>5. Precedes(e, f)
    BY <2>2, <2>3, <2>4, PrecedesIf
  <2> QED BY <2>5 DEF e, f
<1>9. CASE \A j \in c.events : IsTimed(es, j)
  <2>1. At(es, i) \in times /\ Untimed \notin times
    BY <1>9 DEF IsTimed
  <2> HIDE DEF times
  <2>2. Max(times) \in times /\ At(es, i) <= Max(times)
    BY <2>1, <1>2, <1>4, MaxIs
  <2>3. /\ e.occurred # Untimed /\ f.occurred # Untimed /\ e.occurred <= f.occurred
        /\ e.occurred \in Int /\ f.occurred \in Int
    BY <2>1, <2>2, <1>4, <1>7
  <2>4. e.occurred = Untimed <=> f.occurred = Untimed
    BY <2>3
  <2>5. e.ingested < f.ingested \/ (e.ingested = f.ingested /\ e.order < f.order)
    BY <1>6, <1>7
  <2>6. e.occurred < f.occurred \/ e.occurred = f.occurred
    BY <2>3
  <2>7. Precedes(e, f)
    BY <2>4, <2>5, <2>6, PrecedesIf
  <2> QED BY <2>7 DEF e, f
<1> QED BY <1>8, <1>9 DEF Shaped

\* A node of the graph is at most as risky as the incidents it is in.
LEMMA NodesStatic ==
    ASSUME AnalysisInv, ~failed, NEW node
    PROVE  NodeRisk(events, node, analysis.risks)
             <= Max({0} \cup {n.risk : n \in {m \in analysis.incidents :
                                                m.events \cap NodeEvents(events, node) # {}}})
<1> DEFINE links == Correlate(events)
           P == Sessions(events, Found, links)
           Of(A) == Incident(events, A, links, analysis.risks)
           touched == NodeEvents(events, node)
           mine == {s \in analysis.risks : s.candidate.events \cap touched # {}}
           theirs == {m \in analysis.incidents : m.events \cap touched # {}}
           R == {s.risk : s \in mine}
           T == {n.risk : n \in theirs}
<1>1. /\ IsCase(events) /\ Found = Detect(events) /\ Completes(events, Found)
      /\ analysis.risks = {Score(events, c, links) : c \in Found}
      /\ analysis.incidents = {Of(A) : A \in P}
  BY CompletedAnalysis DEF AnalysisInv
<1>2. \A A : Of(A).events = Supports(A)
              /\ Of(A).risk = Max({s.risk : s \in {r \in analysis.risks : r.candidate \in A}})
  BY DEF Incident
<1> DEFINE g == [c \in Found |-> Score(events, c, links).risk]
<1>3. \A s \in analysis.risks : s.candidate \in Found /\ s.risk \in 0..100 /\ s.risk = g[s.candidate]
  <2> HIDE DEF links
  <2> QED BY <1>1, ScoreFacts
<1> HIDE DEF links, Of, P, g, touched
<1>4. IsFiniteSet(Found)
  BY <1>1 DEF Completes
<1>5. ASSUME NEW B \in SUBSET analysis.risks
      PROVE  {s.risk : s \in B} \in SUBSET (0..100) /\ IsFiniteSet({s.risk : s \in B})
  <2>1. {s.risk : s \in B} \in SUBSET (0..100)
    BY <1>3
  <2>2. IsFiniteSet(0..100)
    <3>1. 0 \in Int /\ 100 \in Int
      OBVIOUS
    <3> QED BY <3>1, FS_Interval
  <2> QED BY <2>1, <2>2, FS_Subset
<1>6. /\ \A A \in P : A \in SUBSET Found /\ A # {}
      /\ \A c \in Found : \E A \in P : c \in A
  BY <1>1, SessionFacts DEF P
<1>7. ASSUME NEW A \in P
      PROVE  /\ Of(A).risk \in 0..100
             /\ \A s \in analysis.risks : s.candidate \in A => s.risk <= Of(A).risk
  <2> DEFINE B == {r \in analysis.risks : r.candidate \in A}
             S == {s.risk : s \in B}
  <2>1. S \in SUBSET (0..100) /\ IsFiniteSet(S)
    BY <1>5
  <2>2. S # {}
    <3>1. PICK c \in A : c \in Found
      BY <1>6
    <3>2. Score(events, c, links) \in analysis.risks
      BY <3>1, <1>1
    <3>3. Score(events, c, links).candidate = c
      BY DEF Score
    <3> QED BY <3>1, <3>2, <3>3
  <2>3. S \in SUBSET Int
    BY <2>1
  <2>4. Of(A).risk = Max(S)
    BY <1>2
  <2>5. \A s \in analysis.risks : s.candidate \in A => s.risk \in S
    OBVIOUS
  <2> HIDE DEF S, B
  <2>6. Max(S) \in S /\ \A y \in S : y <= Max(S)
    BY <2>1, <2>2, <2>3, MaxIs
  <2> QED BY <2>1, <2>4, <2>5, <2>6
<1>8. T \in SUBSET (0..100)
  BY <1>1, <1>7
<1>9. \A S \in SUBSET (0..100) : /\ {0} \cup S \in SUBSET Int
                                 /\ Max({0} \cup S) \in {0} \cup S
                                 /\ \A y \in {0} \cup S : y <= Max({0} \cup S)
  <2> SUFFICES ASSUME NEW S \in SUBSET (0..100)
               PROVE  /\ {0} \cup S \in SUBSET Int
                      /\ Max({0} \cup S) \in {0} \cup S /\ \A y \in {0} \cup S : y <= Max({0} \cup S)
    OBVIOUS
  <2> DEFINE Z == {0} \cup S
  <2>1. Z \in SUBSET (0..100) /\ Z # {} /\ Z \in SUBSET Int
    OBVIOUS
  <2>2. IsFiniteSet(0..100)
    <3>1. 0 \in Int /\ 100 \in Int
      OBVIOUS
    <3> QED BY <3>1, FS_Interval
  <2>3. IsFiniteSet(Z)
    BY <2>1, <2>2, FS_Subset
  <2> HIDE DEF Z
  <2>4. Max(Z) \in Z /\ \A y \in Z : y <= Max(Z)
    BY <2>1, <2>3, MaxIs
  <2> QED BY <2>1, <2>4 DEF Z
<1>10. R \in SUBSET (0..100)
  BY <1>3
<1>11. ASSUME NEW v \in R PROVE \E t \in T : v <= t
  <2>1. PICK s \in mine : v = s.risk
    OBVIOUS
  <2>2. PICK A \in P : s.candidate \in A
    BY <1>3, <1>6
  <2>3. s.candidate.events \subseteq Supports(A)
    BY <2>2 DEF Supports
  <2>4. Of(A) \in theirs
    BY <2>1, <2>2, <2>3, <1>1, <1>2
  <2>5. Of(A).risk \in T /\ v <= Of(A).risk
    BY <2>1, <2>2, <2>4, <1>7
  <2> QED BY <2>5
<1>12. NodeRisk(events, node, analysis.risks) = Max({0} \cup R)
  BY DEF NodeRisk, touched
<1> HIDE DEF R, T, mine, theirs
<1>13. Max({0} \cup R) <= Max({0} \cup T)
  <2>1. Max({0} \cup R) \in {0} \cup R /\ {0} \cup R \in SUBSET Int
    BY <1>9, <1>10
  <2>2. (\A y \in {0} \cup T : y <= Max({0} \cup T)) /\ Max({0} \cup T) \in Int
    BY <1>8, <1>9
  <2>3. CASE Max({0} \cup R) = 0
    BY <2>2, <2>3
  <2>4. CASE Max({0} \cup R) \in R
    <3>1. PICK t \in T : Max({0} \cup R) <= t
      BY <2>4, <1>11
    <3>2. t \in Int /\ t <= Max({0} \cup T)
      BY <2>2, <1>8
    <3> QED BY <3>1, <3>2, <2>1, <2>2
  <2> QED BY <2>1, <2>3, <2>4
<1> QED BY <1>12, <1>13 DEF T, theirs, touched

LEMMA MaxOfTwo ==
    ASSUME NEW n \in Int
    PROVE  Max({0, n}) = IF n >= 0 THEN n ELSE 0
<1>1. \E x \in {0, n} : \A y \in {0, n} : x >= y
  OBVIOUS
<1>2. Max({0, n}) \in {0, n} /\ \A y \in {0, n} : Max({0, n}) >= y
  BY <1>1 DEF Max
<1> QED BY <1>2

\* The k-th smallest of some numbers: k of them are not larger.
LEMMA SmallestIs ==
    ASSUME NEW S, IsFiniteSet(S), NEW values \in [S -> Nat], NEW k \in Nat, k >= 1, k <= Cardinality(S)
    PROVE  /\ \E x \in S : Smallest(values, k) = values[x]
           /\ Cardinality({x \in S : values[x] <= Smallest(values, k)}) >= k
<1> DEFINE Below(v) == {x \in S : values[x] <= v}
           V == {values[x] : x \in S}
           T == {v \in V : Cardinality(Below(v)) >= k}
           key == [v \in T |-> v]
<1>1. S # {}
  BY FS_EmptySet
<1>2. PICK x \in S : \A y \in S : values[y] <= values[x]
  BY <1>1, Extremes
<1>3. Below(values[x]) = S
  BY <1>2
<1>4. values[x] \in T
  BY <1>3
<1>5. Smallest(values, k) = Min(T)
  <2>1. Range(values) = V /\ DOMAIN values = S
    BY DEF Range
  <2> QED BY <2>1 DEF Smallest
<1>6. IsFiniteSet(T)
  <2>1. IsFiniteSet(V)
    BY ImageFinite
  <2> QED BY <2>1, FS_Subset
<1>7. \A v \in T : key[v] = v /\ key[v] \in Int
  OBVIOUS
<1> HIDE DEF key
<1>8. Min(T) \in T
  <2> HIDE DEF T
  <2>1. PICK u \in T : \A v \in T : key[u] <= key[v]
    BY <1>4, <1>6, <1>7, Extremes
  <2>2. u \in T /\ \A v \in T : u <= v
    BY <2>1, <1>7
  <2> QED BY <2>2 DEF Min
<1> QED BY <1>5, <1>8

LEMMA WindowFacts ==
    ASSUME NEW es, IsCase(es)
    PROVE  /\ IsFiniteSet(Windows(es)) /\ Cardinality(Windows(es)) \in Nat
           /\ WindowCounts(es) \in [Windows(es) -> Nat]
           /\ \A w \in Windows(es) : WindowCounts(es)[w] = Cardinality(InWindow(es, w)) /\ WindowCounts(es)[w] >= 1
<1> DEFINE J == {j \in Ids(es) : IsTimed(es, j)}
           g == [i \in J |-> Window(es, i)]
<1>1. IsFiniteSet(J)
  BY CaseFacts, FS_Subset
<1>2. Windows(es) = {g[i] : i \in J}
  BY DEF Windows
<1>3. IsFiniteSet(Windows(es)) /\ Cardinality(Windows(es)) \in Nat
  <2>1. IsFiniteSet({g[i] : i \in J})
    <3> HIDE DEF J, g
    <3> QED BY <1>1, ImageFinite
  <2> QED BY <2>1, <1>2, FS_CardinalityType
<1>4. ASSUME NEW w \in Windows(es) PROVE Cardinality(InWindow(es, w)) \in Nat /\ Cardinality(InWindow(es, w)) >= 1
  <2>1. InWindow(es, w) \in SUBSET Ids(es)
    BY DEF InWindow
  <2>2. IsFiniteSet(InWindow(es, w))
    BY <2>1, CaseFacts, FS_Subset
  <2>3. InWindow(es, w) # {}
    BY DEF InWindow, Windows
  <2>4. Cardinality(InWindow(es, w)) \in Nat /\ Cardinality(InWindow(es, w)) # 0
    BY <2>2, <2>3, FS_EmptySet, FS_CardinalityType
  <2> QED BY <2>4
<1>5. \A w \in Windows(es) : WindowCounts(es)[w] = Cardinality(InWindow(es, w))
  BY DEF WindowCounts
<1>6. WindowCounts(es) \in [Windows(es) -> Nat]
  BY <1>4 DEF WindowCounts
<1> QED BY <1>3, <1>4, <1>5, <1>6

\* Less than half of the minutes stand out.
LEMMA AnomaliesStatic ==
    ASSUME NEW es, IsCase(es)
    PROVE  2 * Cardinality({w \in Windows(es) : IsVolumeAnomaly(es, w)}) <= Max({0, Cardinality(Windows(es)) - 1})
<1> DEFINE W == Windows(es)
           values == WindowCounts(es)
           n == Cardinality(W)
           A == {w \in W : IsVolumeAnomaly(es, w)}
           low == Smallest(values, (n + 1) \div 2)
           high == Smallest(values, (n + 2) \div 2)
           L == {w \in W : values[w] <= high}
<1>1. /\ IsFiniteSet(W) /\ n \in Nat /\ values \in [W -> Nat]
      /\ \A w \in W : values[w] = Cardinality(InWindow(es, w)) /\ values[w] >= 1
  BY WindowFacts
<1>2. \A w \in A : w \in W /\ 2 * values[w] >= 3 * (low + high)
  <2>1. DOMAIN values = W
    BY <1>1
  <2>2. TwiceMedian(values) = low + high
    BY <2>1 DEF TwiceMedian
  <2> HIDE DEF values, low, high
  <2>3. \A w : IsVolumeAnomaly(es, w) => 2 * Cardinality(InWindow(es, w)) >= 3 * TwiceMedian(values)
    BY DEF IsVolumeAnomaly, values
  <2> QED BY <2>2, <2>3, <1>1
<1>3. IsFiniteSet(A) /\ Cardinality(A) \in Nat
  BY <1>1, FS_Subset, FS_CardinalityType
<1>4. Max({0, n - 1}) = IF n - 1 >= 0 THEN n - 1 ELSE 0
  <2>1. n - 1 \in Int
    BY <1>1
  <2> HIDE DEF n
  <2> QED BY <2>1, MaxOfTwo
<1>5. CASE n = 0
  <2>1. W = {}
    BY <1>1, <1>5, FS_EmptySet
  <2>2. A = {}
    BY <2>1
  <2>3. Cardinality(A) = 0
    BY <2>2, FS_EmptySet
  <2> QED BY <2>3, <1>1, <1>4, <1>5
<1>6. CASE n # 0
  <2> HIDE DEF values, n, A, W
  <2> DEFINE k == (n + 1) \div 2
             m == (n + 2) \div 2
  <2>1. k \in Nat /\ k >= 1 /\ k <= n /\ m \in Nat /\ m >= 1 /\ m <= n /\ 2 * m >= n + 1
    BY <1>1, <1>6
  <2> HIDE DEF k, m
  <2>2. low \in Nat /\ low >= 1
    <3>1. PICK x \in W : Smallest(values, k) = values[x]
      BY <2>1, <1>1, SmallestIs DEF n
    <3> QED BY <3>1, <1>1 DEF k
  <2>3. high \in Nat /\ high >= 1 /\ Cardinality(L) >= m
    <3>1. PICK x \in W : Smallest(values, m) = values[x]
      BY <2>1, <1>1, SmallestIs DEF n
    <3>2. Cardinality({w \in W : values[w] <= Smallest(values, m)}) >= m
      BY <2>1, <1>1, SmallestIs DEF n
    <3> QED BY <3>1, <3>2, <1>1 DEF m
  <2> HIDE DEF low, high
  <2>4. A \in SUBSET (W \ L)
    <3>1. ASSUME NEW w \in A PROVE w \in W /\ ~(values[w] <= high)
      <4>1. w \in W /\ values[w] \in Nat /\ 2 * values[w] >= 3 * (low + high)
        BY <1>1, <1>2
      <4> QED BY <4>1, <2>2, <2>3
    <3> QED BY <3>1
  <2>5. L \in SUBSET W
    OBVIOUS
  <2> HIDE DEF L
  <2>6. IsFiniteSet(L) /\ Cardinality(L) \in Nat
    BY <2>5, <1>1, FS_Subset, FS_CardinalityType
  <2>7. IsFiniteSet(W \ L) /\ Cardinality(W \ L) = n - Cardinality(L)
    <3>1. W \cap L = L
      BY <2>5
    <3>2. IsFiniteSet(W \ L) /\ Cardinality(W \ L) = Cardinality(W) - Cardinality(W \cap L)
      BY <1>1, <2>6, FS_Difference
    <3> QED BY <3>1, <3>2 DEF n
  <2>8. Cardinality(A) <= Cardinality(W \ L)
    BY <2>4, <2>7, FS_Subset
  <2> QED BY <2>1, <2>3, <2>6, <2>7, <2>8, <1>1, <1>3, <1>4, <1>6 DEF A, n, W
<1> QED BY <1>5, <1>6

\* The points of one category of a chart: none, or the number of what falls in it.
ChartedAs(points, v) == Max({0} \cup {p.value : p \in {q \in points : q.category = v}})
Falling(category, v) == {x \in DOMAIN category : category[x] = v}

LEMMA CountsOf ==
    ASSUME NEW category, IsFiniteSet(DOMAIN category), NEW v
    PROVE  ChartedAs(Counts(category), v) = Cardinality(Falling(category, v))
<1> DEFINE S == DOMAIN category
           Of(u) == [category |-> u, value |-> Cardinality({x \in S : category[x] = u})]
           mine == {q \in Counts(category) : q.category = v}
           X == {x \in S : category[x] = v}
           n == Cardinality(X)
<1>1. Counts(category) = {Of(u) : u \in Range(category)}
  BY DEF Counts
<1>2. n \in Nat
  BY FS_Subset, FS_CardinalityType
<1>3. v \in Range(category) <=> X # {}
  BY DEF Range
<1>4. \A u : Of(u).category = u
  OBVIOUS
<1>5. Of(v).value = n
  OBVIOUS
<1>6. CASE X = {}
  <2>1. v \notin Range(category)
    BY <1>3, <1>6
  <2>2. n = 0
    BY <1>6, FS_EmptySet
  <2> HIDE DEF Of, n, X
  <2>3. mine = {}
    BY <2>1, <1>1, <1>4
  <2> HIDE DEF mine
  <2>4. {0} \cup {p.value : p \in mine} = {0, 0}
    BY <2>3
  <2>5. Max({0, 0}) = 0
    BY MaxOfTwo
  <2> QED BY <2>2, <2>4, <2>5 DEF mine, n, X, ChartedAs, Falling
<1>7. CASE X # {}
  <2>1. v \in Range(category)
    BY <1>3, <1>7
  <2> HIDE DEF Of, n, X
  <2>2. mine = {Of(v)}
    BY <2>1, <1>1, <1>4
  <2> HIDE DEF mine
  <2>3. {0} \cup {p.value : p \in mine} = {0, n}
    BY <2>2, <1>5
  <2>4. Max({0, n}) = n
    BY <1>2, MaxOfTwo
  <2> QED BY <2>3, <2>4 DEF mine, n, X, ChartedAs, Falling
<1> QED BY <1>6, <1>7

\* The chart by minute and origin counts the events of the activity windows.
LEMMA ChartStatic ==
    ASSUME NEW es, IsCase(es), NEW risks, NEW w
    PROVE  LET points == ChartPoints(es, risks).activity_minute
               Charted(live) == {p.value : p \in {q \in points : q.category = <<w, live>>}}
           IN Max({0} \cup Charted(TRUE)) + Max({0} \cup Charted(FALSE)) = Cardinality(InWindow(es, w))
<1> DEFINE timed == {i \in Ids(es) : IsTimed(es, i)}
           kindOf == [i \in timed |-> <<Window(es, i), es[i].kind.live>>]
           points == ChartPoints(es, risks).activity_minute
           Of(live) == {i \in timed : kindOf[i] = <<w, live>>}
<1>1. points = Counts(kindOf)
  BY DEF ChartPoints
<1>2. IsFiniteSet(timed)
  BY CaseFacts, FS_Subset
<1>3. ASSUME NEW live
      PROVE  Max({0} \cup {p.value : p \in {q \in points : q.category = <<w, live>>}}) = Cardinality(Of(live))
  <2> DEFINE cell == <<w, live>>
  <2>1. DOMAIN kindOf = timed
    OBVIOUS
  <2> HIDE DEF timed, kindOf, points, cell
  <2>2. ChartedAs(Counts(kindOf), cell) = Cardinality(Falling(kindOf, cell))
    BY <1>2, <2>1, CountsOf
  <2>3. Falling(kindOf, cell) = Of(live)
    BY <2>1 DEF Falling, cell
  <2> QED BY <2>2, <2>3, <1>1 DEF cell, ChartedAs
<1>4. \A i \in timed : es[i].kind.live \in BOOLEAN
  BY AnalysisConstants DEF IsCase
<1>5. \A live : Of(live) = {i \in timed : Window(es, i) = w /\ es[i].kind.live = live}
  OBVIOUS
<1>6. InWindow(es, w) = {i \in timed : Window(es, i) = w}
  BY DEF InWindow
<1> HIDE DEF timed, kindOf, points, Of
<1>7. Of(TRUE) \cup Of(FALSE) = InWindow(es, w)
  <2>1. \A i \in timed : es[i].kind.live = TRUE \/ es[i].kind.live = FALSE
    BY <1>4
  <2> QED BY <2>1, <1>5, <1>6
<1>8. Of(TRUE) \cap Of(FALSE) = {}
  BY <1>5
<1>9. IsFiniteSet(Of(TRUE)) /\ IsFiniteSet(Of(FALSE))
  BY <1>2, <1>5, FS_Subset
<1>10. Cardinality(Of(TRUE) \cup Of(FALSE))
         = Cardinality(Of(TRUE)) + Cardinality(Of(FALSE)) - Cardinality(Of(TRUE) \cap Of(FALSE))
  BY <1>9, FS_Union
<1>11. Cardinality(Of(TRUE) \cap Of(FALSE)) = 0
  BY <1>8, FS_EmptySet
<1>12. Cardinality(Of(TRUE)) \in Nat /\ Cardinality(Of(FALSE)) \in Nat
  BY <1>9, FS_CardinalityType
<1>13. Cardinality(InWindow(es, w))
          = Cardinality(Of(TRUE)) + Cardinality(Of(FALSE)) - Cardinality(Of(TRUE) \cap Of(FALSE))
  BY <1>7, <1>10
<1>14. Cardinality(InWindow(es, w)) = Cardinality(Of(TRUE)) + Cardinality(Of(FALSE))
  <2> DEFINE m == Cardinality(Of(TRUE))
             n == Cardinality(Of(FALSE))
  <2>1. m \in Nat /\ n \in Nat
    BY <1>12
  <2> HIDE DEF m, n
  <2>2. Cardinality(InWindow(es, w)) = m + n - 0
    BY <1>11, <1>13 DEF m, n
  <2>3. Cardinality(InWindow(es, w)) = m + n
    BY <2>1, <2>2
  <2> QED BY <2>3 DEF m, n
<1>15. /\ Max({0} \cup {p.value : p \in {q \in points : q.category = <<w, TRUE>>}}) = Cardinality(Of(TRUE))
       /\ Max({0} \cup {p.value : p \in {q \in points : q.category = <<w, FALSE>>}}) = Cardinality(Of(FALSE))
  BY <1>3
<1> QED BY <1>14, <1>15 DEF points

\* The events of an incident are those of its findings.
LEMMA CausesStatic ==
    ASSUME AnalysisInv, ~failed, NEW w, NEW n \in analysis.incidents, n.events \cap InWindow(events, w) # {}
    PROVE  CauseStatus(events, w, Found) # "undetermined"
<1>1. PICK A \in Sessions(events, Found, Correlate(events)) :
         n = Incident(events, A, Correlate(events), analysis.risks)
  BY CompletedAnalysis
<1>2. n.events = Supports(A)
  BY <1>1 DEF Incident
<1>3. A \in SUBSET Found
  BY CompletedAnalysis, SessionFacts
<1>4. \E c \in Found : c.events \cap InWindow(events, w) # {}
  BY <1>2, <1>3 DEF Supports
<1> QED BY <1>4 DEF CauseStatus

LEMMA ViewsStatic ==
    ASSUME AnalysisInv, ~failed
    PROVE  ViewsAgree
<1>1. IsCase(events) /\ Found = Detect(events)
  BY CompletedAnalysis DEF AnalysisInv
<1>2. \A c \in Found : \A i \in c.events : Precedes(EventEntry(events, i), FindingEntry(events, c))
  BY <1>1, CandidateShape, EntriesStatic
<1>3. \A node \in GraphNodes(events) :
        NodeRisk(events, node, analysis.risks)
          <= Max({0} \cup {n.risk : n \in {m \in analysis.incidents :
                                             m.events \cap NodeEvents(events, node) # {}}})
  BY NodesStatic
<1>4. 2 * Cardinality({w \in Windows(events) : IsVolumeAnomaly(events, w)})
        <= Max({0, Cardinality(Windows(events)) - 1})
  BY <1>1, AnomaliesStatic
<1>5. \A w \in Windows(events) :
        LET points == ChartPoints(events, analysis.risks).activity_minute
            Charted(live) == {p.value : p \in {q \in points : q.category = <<w, live>>}}
        IN Max({0} \cup Charted(TRUE)) + Max({0} \cup Charted(FALSE)) = Cardinality(InWindow(events, w))
  BY <1>1, ChartStatic
<1>6. \A w \in Windows(events) :
        (\E n \in analysis.incidents : n.events \cap InWindow(events, w) # {})
          => CauseStatus(events, w, Found) # "undetermined"
  BY CausesStatic
<1> QED BY <1>2, <1>3, <1>4, <1>5, <1>6 DEF ViewsAgree

\* The timeline, the graph, the activity windows and the chart agree with the findings (timeline.py,
\* entity_graph.py and aggregates.py).
THEOREM ViewsFollow == Spec => [](~failed => ViewsAgree)
<1>1. AnalysisInv => (~failed => ViewsAgree)
  BY ViewsStatic
<1> QED BY <1>1, AnalysisInvariant, PTL

\* What a completed analysis says of the events it was made from, all of it.
THEOREM FindingsAreSound == Spec => []FindingsSound
<1>1. AnalysisInv => FindingsSound
  BY RaisesStatic, BurstsReportedStatic, BurstsOnceStatic, LabelsStatic, RiskStatic, ViewsStatic DEF FindingsSound
<1> QED BY <1>1, AnalysisInvariant, PTL

(***************************************************************************)
(* A case that goes on.  What a detector, other than that of labels, makes *)
(* of the events so far it also makes of them and a later one.             *)
(***************************************************************************)
Extends(es, fs) ==
    /\ IsCase(es) /\ IsCase(fs) /\ Ids(es) \in SUBSET Ids(fs)
    /\ \A i \in Ids(es) : fs[i] = es[i]
    /\ \A i \in Ids(es) : \A j \in Ids(fs) : j <= i => j \in Ids(es)

\* There is one way to scan.
LEMMA ScansAgree ==
    ASSUME NEW S, NEW key, NEW apart, Ordered(S, key), NEW M \in SUBSET S, NEW N \in SUBSET S,
           Scanned(S, key, apart, M), Scanned(S, key, apart, N)
    PROVE  M = N
<1> DEFINE D == {x \in S : ~(x \in M <=> x \in N)}
<1>1. D = {}
  <2> SUFFICES ASSUME D # {} PROVE FALSE
    OBVIOUS
  <2>1. IsFiniteSet(D) /\ \A x \in D : key[x] \in Int
    BY FS_Subset DEF Ordered
  <2>2. PICK d \in D : \A y \in D : key[d] <= key[y]
    <3> HIDE DEF D
    <3> QED BY <2>1, Extremes
  <2>3. ASSUME NEW y \in S, key[y] < key[d] PROVE y \in M <=> y \in N
    <3>1. key[y] \in Int /\ key[d] \in Int
      BY <2>2 DEF Ordered
    <3>2. y \notin D
      BY <2>2, <2>3, <3>1
    <3> QED BY <3>2
  <2> HIDE DEF D
  <2>4. \A m : Before(M, key, d, m) <=> Before(N, key, d, m)
    BY <2>3 DEF Before
  <2>5. (\A m \in M : Before(M, key, d, m) => d \in apart[m])
          <=> (\A m \in N : Before(N, key, d, m) => d \in apart[m])
    <3>1. \A m : (Before(M, key, d, m) => m \in M) /\ (Before(N, key, d, m) => m \in N)
      BY DEF Before
    <3> QED BY <3>1, <2>4
  <2>6. d \in M <=> d \in N
    BY <2>2, <2>5 DEF Scanned, D
  <2> QED BY <2>2, <2>6 DEF D
<1> QED BY <1>1

\* Items that come last do not change what is marked before.
LEMMA MarksGrow ==
    ASSUME NEW T, NEW S \in SUBSET T, NEW key, NEW keyT, NEW apart, NEW apartT, Ordered(T, keyT),
           \A x \in S : key[x] = keyT[x], \A x \in S : \A y \in T \ S : keyT[x] < keyT[y],
           \A m, x \in S : x \in apart[m] <=> x \in apartT[m]
    PROVE  Marks(S, key, apart) \in SUBSET Marks(T, keyT, apartT)
<1> DEFINE N == Marks(T, keyT, apartT)
           M == N \cap S
<1>1. N \in SUBSET T /\ Scanned(T, keyT, apartT, N)
  BY MarksScan
<1>2. Ordered(S, key)
  BY FS_Subset DEF Ordered
<1> HIDE DEF N
<1>3. Scanned(S, key, apart, M)
  <2> SUFFICES ASSUME NEW x \in S
               PROVE  x \in M <=> \A m \in M : Before(M, key, x, m) => x \in apart[m]
    BY DEF Scanned
  <2>1. \A y \in N : keyT[y] < keyT[x] => y \in M /\ key[y] = keyT[y]
    <3> SUFFICES ASSUME NEW y \in N, keyT[y] < keyT[x] PROVE y \in S
      OBVIOUS
    <3>1. keyT[x] \in Int /\ keyT[y] \in Int /\ y \in T
      BY <1>1 DEF Ordered
    <3> QED BY <3>1
  <2>2. key[x] = keyT[x]
    OBVIOUS
  <2>3. ASSUME NEW m PROVE Before(M, key, x, m) <=> Before(N, keyT, x, m)
    <3>1. \A l : (l \in M /\ key[l] < key[x]) <=> (l \in N /\ keyT[l] < keyT[x])
      BY <2>1, <2>2
    <3>2. \A l \in M : key[l] = keyT[l]
      OBVIOUS
    <3> HIDE DEF M
    <3>3. ASSUME Before(M, key, x, m) PROVE Before(N, keyT, x, m)
      BY <3>1, <3>2, <3>3, <2>1 DEF Before
    <3>4. ASSUME Before(N, keyT, x, m) PROVE Before(M, key, x, m)
      BY <3>1, <3>2, <3>4, <2>1 DEF Before
    <3> QED BY <3>3, <3>4
  <2>4. \A m : Before(M, key, x, m) => m \in S
    BY DEF Before
  <2>5. x \in N <=> \A m \in N : Before(N, keyT, x, m) => x \in apartT[m]
    BY <1>1 DEF Scanned
  <2>6. \A m : Before(N, keyT, x, m) => m \in M /\ m \in N
    BY <2>1 DEF Before
  <2>7. x \in M <=> x \in N
    OBVIOUS
  <2> HIDE DEF M
  <2> QED BY <2>3, <2>4, <2>5, <2>6, <2>7
<1>4. M \in SUBSET S
  OBVIOUS
<1>5. Marks(S, key, apart) \in SUBSET S /\ Scanned(S, key, apart, Marks(S, key, apart))
  BY <1>2, MarksScan
<1>6. Marks(S, key, apart) = M
  <2> HIDE DEF M
  <2> QED BY <1>2, <1>3, <1>4, <1>5, ScansAgree
<1> QED BY <1>6 DEF N

LEMMA ExtendsFacts ==
    ASSUME NEW es, NEW fs, Extends(es, fs)
    PROVE  \A i \in Ids(es) : /\ At(fs, i) = At(es, i) /\ (IsTimed(fs, i) <=> IsTimed(es, i))
                              /\ PrimaryEntity(fs, i) = PrimaryEntity(es, i)
BY DEF Extends, At, IsTimed, PrimaryEntity

LEMMA LaterIds ==
    ASSUME NEW es, NEW fs, Extends(es, fs), NEW T \in SUBSET Ids(fs), NEW S, S = T \cap Ids(es)
    PROVE  /\ Ordered(T, [i \in T |-> i]) /\ S \in SUBSET T
           /\ \A x \in S : \A y \in T \ S : x < y
<1>1. Ordered(T, [i \in T |-> i])
  BY IdsOrdered DEF Extends
<1>2. ASSUME NEW x \in S, NEW y \in T \ S PROVE x < y
  <2>1. x \in Ids(es) /\ y \in Ids(fs) /\ y \notin Ids(es)
    OBVIOUS
  <2>2. x \in Int /\ y \in Int /\ ~(y <= x)
    BY <2>1, CaseFacts DEF Extends
  <2> QED BY <2>2
<1> QED BY <1>1, <1>2

LEMMA TriggersGrow ==
    ASSUME NEW es, NEW fs, Extends(es, fs), NEW T \in SUBSET Ids(fs), NEW S, S = T \cap Ids(es), NEW window
    PROVE  Triggers(es, S, window) \in SUBSET Triggers(fs, T, window)
<1> DEFINE key == [i \in S |-> i]
           keyT == [i \in T |-> i]
           apart == [i \in S |-> {j \in S : ~Silenced(es, i, j, window)}]
           apartT == [i \in T |-> {j \in T : ~Silenced(fs, i, j, window)}]
<1>1. Ordered(T, keyT) /\ S \in SUBSET T /\ \A x \in S : \A y \in T \ S : x < y
  BY LaterIds
<1>2. \A x \in S : key[x] = keyT[x]
  BY <1>1
<1>3. \A x \in S : \A y \in T \ S : keyT[x] < keyT[y]
  BY <1>1
<1>4. \A m, x \in S : x \in apart[m] <=> x \in apartT[m]
  <2>1. \A m, x \in S : Silenced(es, m, x, window) <=> Silenced(fs, m, x, window)
    BY ExtendsFacts DEF Silenced
  <2> HIDE DEF key, keyT
  <2> QED BY <2>1, <1>1
<1>5. Triggers(es, S, window) = Marks(S, key, apart) /\ Triggers(fs, T, window) = Marks(T, keyT, apartT)
  BY DEF Triggers
<1> HIDE DEF key, keyT, apart, apartT
<1> QED BY <1>1, <1>2, <1>3, <1>4, <1>5, MarksGrow

\* The events of a group inside the window at one of them.
LEMMA ActiveGrows ==
    ASSUME NEW es, NEW fs, Extends(es, fs), NEW group, NEW wider \in SUBSET Ids(fs),
           group = wider \cap Ids(es), NEW i \in Ids(es), NEW window
    PROVE  Active(fs, wider, i, window) = Active(es, group, i, window)
<1>1. \A j \in wider : j <= i => j \in Ids(es)
  BY DEF Extends
<1>2. \A j \in Ids(es) : At(fs, j) = At(es, j)
  BY ExtendsFacts
<1> QED BY <1>1, <1>2 DEF Active

LEMMA GroupsGrow ==
    ASSUME NEW es, NEW fs, Extends(es, fs), NEW i \in Ids(es)
    PROVE  /\ AuthGrouped(fs, i) <=> AuthGrouped(es, i)
           /\ AuthKey(fs, i) = AuthKey(es, i) /\ AuthEntity(fs, i) = AuthEntity(es, i)
           /\ AuthGroup(es, i) = AuthGroup(fs, i) \cap Ids(es) /\ AuthGroup(fs, i) \in SUBSET Ids(fs)
           /\ IsFlow(fs, i) <=> IsFlow(es, i)
           /\ FlowGroup(es, i) = FlowGroup(fs, i) \cap Ids(es) /\ FlowGroup(fs, i) \in SUBSET Ids(fs)
<1>1. \A j \in Ids(es) : /\ fs[j] = es[j] /\ j \in Ids(fs)
                         /\ AuthGrouped(fs, j) <=> AuthGrouped(es, j)
                         /\ AuthKey(fs, j) = AuthKey(es, j) /\ AuthEntity(fs, j) = AuthEntity(es, j)
                         /\ IsFlow(fs, j) <=> IsFlow(es, j)
  BY ExtendsFacts DEF Extends, AuthGrouped, AuthKey, AuthEntity, IsAuthenticationFailure, IsFlow
<1>2. AuthGroup(es, i) = AuthGroup(fs, i) \cap Ids(es) /\ AuthGroup(fs, i) \in SUBSET Ids(fs)
  BY <1>1 DEF AuthGroup
<1>3. FlowGroup(es, i) = FlowGroup(fs, i) \cap Ids(es) /\ FlowGroup(fs, i) \in SUBSET Ids(fs)
  BY <1>1 DEF FlowGroup
<1> QED BY <1>1, <1>2, <1>3

LEMMA RateGrows ==
    ASSUME NEW es, NEW fs, Extends(es, fs), NEW c \in RequestRate(es)
    PROVE  c \in RequestRate(fs)
<1>1. PICK i \in Ids(es) : /\ es[i].kind.usual > 0 /\ es[i].kind.requests >= RateMultiplier * es[i].kind.usual
                           /\ c = Candidate("RATE-001", PrimaryEntity(es, i), None, {i}, {i}, 1)
  BY DEF RequestRate
<1>2. i \in Ids(fs) /\ fs[i] = es[i] /\ PrimaryEntity(fs, i) = PrimaryEntity(es, i)
  BY ExtendsFacts DEF Extends
<1> QED BY <1>1, <1>2 DEF RequestRate

LEMMA AuthGrows ==
    ASSUME NEW es, NEW fs, Extends(es, fs), NEW c \in AuthenticationFailures(es)
    PROVE  c \in AuthenticationFailures(fs)
<1>1. PICK group \in AuthGroups(es) : \E i \in AuthTriggers(es, group) :
              c = Candidate("AUTH-001", AuthEntity(es, i), es[i].kind.actor,
                            Newest(Active(es, group, i, AuthWindow), AuthThreshold), {i}, AuthThreshold)
  BY DEF AuthenticationFailures
<1>2. PICK i \in AuthTriggers(es, group) :
              c = Candidate("AUTH-001", AuthEntity(es, i), es[i].kind.actor,
                            Newest(Active(es, group, i, AuthWindow), AuthThreshold), {i}, AuthThreshold)
  BY <1>1
<1>3. PICK k \in Ids(es) : AuthGrouped(es, k) /\ group = AuthGroup(es, k)
  BY DEF AuthGroups
<1> DEFINE wider == AuthGroup(fs, k)
           S == {j \in group : AuthReached(es, group, j)}
           T == {j \in wider : AuthReached(fs, wider, j)}
<1>4. /\ wider \in AuthGroups(fs) /\ wider \in SUBSET Ids(fs) /\ group = wider \cap Ids(es)
      /\ group \in SUBSET Ids(es)
  <2>1. k \in Ids(fs) /\ AuthGrouped(fs, k)
    BY <1>3, GroupsGrow DEF Extends
  <2>2. wider \in AuthGroups(fs)
    BY <2>1 DEF AuthGroups
  <2> QED BY <2>2, <1>3, GroupsGrow
<1> HIDE DEF wider
<1>5. \A j \in Ids(es) : Active(fs, wider, j, AuthWindow) = Active(es, group, j, AuthWindow)
  BY <1>4, ActiveGrows
<1>6. \A j \in Ids(es) : AuthReached(fs, wider, j) <=> AuthReached(es, group, j)
  BY <1>5 DEF AuthReached
<1>7. S = T \cap Ids(es) /\ T \in SUBSET Ids(fs)
  BY <1>4, <1>6
<1>8. AuthTriggers(es, group) = Triggers(es, S, AuthWindow) /\ AuthTriggers(fs, wider) = Triggers(fs, T, AuthWindow)
  BY DEF AuthTriggers
<1> HIDE DEF S, T
<1>9. i \in AuthTriggers(fs, wider)
  BY <1>2, <1>7, <1>8, TriggersGrow
<1>10. i \in Ids(es)
  <2>1. IsCase(es)
    BY DEF Extends
  <2> QED BY <2>1, <1>2, <1>4, AuthGroupFacts
<1>11. c = Candidate("AUTH-001", AuthEntity(fs, i), fs[i].kind.actor,
                     Newest(Active(fs, wider, i, AuthWindow), AuthThreshold), {i}, AuthThreshold)
  <2>1. fs[i] = es[i] /\ AuthEntity(fs, i) = AuthEntity(es, i)
    BY <1>10, GroupsGrow DEF Extends
  <2> QED BY <2>1, <1>2, <1>5, <1>10
<1> DEFINE Of(g) == {Candidate("AUTH-001", AuthEntity(fs, j), fs[j].kind.actor,
                               Newest(Active(fs, g, j, AuthWindow), AuthThreshold), {j}, AuthThreshold) :
                        j \in AuthTriggers(fs, g)}
<1>12. c \in Of(wider)
  BY <1>9, <1>11
<1>13. AuthenticationFailures(fs) = UNION {Of(g) : g \in AuthGroups(fs)}
  BY DEF AuthenticationFailures
<1> HIDE DEF Of
<1> QED BY <1>4, <1>12, <1>13

LEMMA MeasuredGrows ==
    ASSUME NEW es, NEW fs, Extends(es, fs), NEW active \in SUBSET Ids(es), NEW rule \in NetworkRules
    PROVE  /\ Measured(fs, rule, active) = Measured(es, rule, active)
           /\ Supporting(fs, rule, active) = Supporting(es, rule, active)
<1>1. \A j \in active : fs[j] = es[j]
  BY DEF Extends
<1>2. /\ Failures(fs, active) = Failures(es, active) /\ Ports(fs, active) = Ports(es, active)
      /\ Destinations(fs, active) = Destinations(es, active)
  <2>1. Failures(fs, active) = Failures(es, active)
    BY <1>1 DEF Failures
  <2>2. Destinations(fs, active) = Destinations(es, active)
    BY <1>1 DEF Destinations
  <2>3. Ports(fs, active) = Ports(es, active)
    BY <1>1 DEF Ports
  <2> QED BY <2>1, <2>2, <2>3
<1> QED BY <1>2 DEF Measured, Supporting, NetworkRules

LEMMA NetGrows ==
    ASSUME NEW es, NEW fs, Extends(es, fs), NEW c \in NetworkBehaviors(es)
    PROVE  c \in NetworkBehaviors(fs)
<1>1. PICK p \in NetworkRules \X FlowGroups(es) : \E i \in NetTriggers(es, p[1], p[2]) :
         c = FlowFinding(es, p[1], p[2], i)
  BY DEF NetworkBehaviors, FlowFinding
<1>2. PICK rule \in NetworkRules, group \in FlowGroups(es) : p = <<rule, group>>
  BY <1>1
<1>3. PICK i \in NetTriggers(es, rule, group) : c = FlowFinding(es, rule, group, i)
  BY <1>1, <1>2
<1>4. PICK k \in Ids(es) : IsFlow(es, k) /\ group = FlowGroup(es, k)
  BY DEF FlowGroups
<1> DEFINE wider == FlowGroup(fs, k)
           S == {j \in group : NetReached(es, rule, group, j)}
           T == {j \in wider : NetReached(fs, rule, wider, j)}
<1>5. /\ wider \in FlowGroups(fs) /\ wider \in SUBSET Ids(fs) /\ group = wider \cap Ids(es)
      /\ group \in SUBSET Ids(es)
  <2>1. k \in Ids(fs) /\ IsFlow(fs, k)
    BY <1>4, GroupsGrow DEF Extends
  <2>2. wider \in FlowGroups(fs)
    BY <2>1 DEF FlowGroups
  <2> QED BY <2>2, <1>4, GroupsGrow
<1> HIDE DEF wider
<1>6. \A j \in Ids(es) : /\ Active(fs, wider, j, NetWindow) = Active(es, group, j, NetWindow)
                         /\ Active(es, group, j, NetWindow) \in SUBSET Ids(es)
  <2>1. \A j \in Ids(es) : Active(es, group, j, NetWindow) \in SUBSET Ids(es)
    BY <1>5 DEF Active
  <2> QED BY <2>1, <1>5, ActiveGrows
<1>7. \A j \in Ids(es) : NetReached(fs, rule, wider, j) <=> NetReached(es, rule, group, j)
  BY <1>6, MeasuredGrows DEF NetReached
<1>8. S = T \cap Ids(es) /\ T \in SUBSET Ids(fs)
  BY <1>5, <1>7
<1>9. NetTriggers(es, rule, group) = Triggers(es, S, NetWindow) /\ NetTriggers(fs, rule, wider) = Triggers(fs, T, NetWindow)
  BY DEF NetTriggers
<1> HIDE DEF S, T
<1>10. i \in NetTriggers(fs, rule, wider)
  BY <1>3, <1>8, <1>9, TriggersGrow
<1>11. i \in Ids(es)
  <2>1. IsCase(es)
    BY DEF Extends
  <2> QED BY <2>1, <1>3, <1>5, FlowGroupFacts
<1>12. c = FlowFinding(fs, rule, wider, i)
  <2>1. fs[i] = es[i] /\ PrimaryEntity(fs, i) = PrimaryEntity(es, i)
    BY <1>11, ExtendsFacts DEF Extends
  <2>2. Active(fs, wider, i, NetWindow) = Active(es, group, i, NetWindow)
    BY <1>6, <1>11
  <2>3. /\ Measured(fs, rule, Active(es, group, i, NetWindow)) = Measured(es, rule, Active(es, group, i, NetWindow))
        /\ Supporting(fs, rule, Active(es, group, i, NetWindow)) = Supporting(es, rule, Active(es, group, i, NetWindow))
    BY <1>6, <1>11, MeasuredGrows
  <2> QED BY <2>1, <2>2, <2>3, <1>3 DEF FlowFinding
<1> DEFINE q == <<rule, wider>>
<1>13. q \in NetworkRules \X FlowGroups(fs) /\ q[1] = rule /\ q[2] = wider
  BY <1>5
<1> HIDE DEF q
<1> DEFINE Of(r) == {FlowFinding(fs, r[1], r[2], j) : j \in NetTriggers(fs, r[1], r[2])}
<1>14. c \in Of(q)
  BY <1>10, <1>12, <1>13
<1>15. NetworkBehaviors(fs) = UNION {Of(r) : r \in NetworkRules \X FlowGroups(fs)}
  BY DEF NetworkBehaviors, FlowFinding
<1> HIDE DEF Of
<1> QED BY <1>13, <1>14, <1>15

LEMMA SamplesGrow ==
    ASSUME NEW es, NEW fs, Extends(es, fs), NEW stream
    PROVE  LET S == Samples(es, stream)
               T == Samples(fs, stream)
           IN /\ S = T \cap Ids(es) /\ T \in SUBSET Ids(fs)
              /\ \A i \in Ids(es) : /\ Earlier(T, i) = Earlier(S, i) /\ Earlier(S, i) \in SUBSET Ids(es)
                                    /\ Value(fs, stream, i) = Value(es, stream, i)
<1> DEFINE S == Samples(es, stream)
           T == Samples(fs, stream)
<1>1. \A i \in Ids(es) : /\ i \in Ids(fs) /\ fs[i] = es[i] /\ Measures(fs, i) = Measures(es, i)
                         /\ PrimaryEntity(fs, i) = PrimaryEntity(es, i)
  BY ExtendsFacts DEF Extends, Measures
<1>2. S = T \cap Ids(es) /\ T \in SUBSET Ids(fs)
  BY <1>1 DEF Samples
<1>3. \A i \in Ids(es) : Value(fs, stream, i) = Value(es, stream, i)
  BY <1>1 DEF Value
<1> HIDE DEF S, T
<1>4. ASSUME NEW i \in Ids(es) PROVE Earlier(T, i) = Earlier(S, i) /\ Earlier(S, i) \in SUBSET Ids(es)
  <2>1. Ids(fs) \in SUBSET Int
    BY CaseFacts DEF Extends
  <2>2. \A j \in T : j < i => j \in Ids(es)
    <3> SUFFICES ASSUME NEW j \in T, j < i PROVE j \in Ids(es)
      OBVIOUS
    <3>1. j \in Ids(fs) /\ i \in Ids(fs)
      BY <1>1, <1>2
    <3>2. j <= i
      BY <2>1, <3>1
    <3> QED BY <3>1, <3>2 DEF Extends
  <2> QED BY <2>2, <1>2 DEF Earlier
<1> QED BY <1>2, <1>3, <1>4 DEF S, T

LEMMA StreamsGrow ==
    ASSUME NEW es, NEW fs, Extends(es, fs)
    PROVE  Streams(es) \in SUBSET Streams(fs)
<1> SUFFICES ASSUME NEW stream \in Streams(es) PROVE stream \in Streams(fs)
  OBVIOUS
<1>1. PICK i \in Ids(es) : stream \in {<<PrimaryEntity(es, i), m>> : m \in Measures(es, i)}
  BY DEF Streams
<1>2. i \in Ids(fs) /\ Measures(fs, i) = Measures(es, i) /\ PrimaryEntity(fs, i) = PrimaryEntity(es, i)
  BY ExtendsFacts DEF Extends, Measures
<1>3. stream \in {<<PrimaryEntity(fs, i), m>> : m \in Measures(fs, i)}
  BY <1>1, <1>2
<1> DEFINE Of(j) == {<<PrimaryEntity(fs, j), m>> : m \in Measures(fs, j)}
<1>4. stream \in Of(i) /\ Streams(fs) = UNION {Of(j) : j \in Ids(fs)}
  BY <1>3 DEF Streams
<1> HIDE DEF Of
<1> QED BY <1>2, <1>4

LEMMA SpikesGrow ==
    ASSUME NEW es, NEW fs, Extends(es, fs), NEW c \in BaselineSpikes(es)
    PROVE  c \in BaselineSpikes(fs)
<1>1. PICK stream \in Streams(es) : \E i \in Spikes(es, stream) :
         c = Candidate("BASELINE-001", stream[1], stream[2], History(Samples(es, stream), i) \cup {i}, {i}, 1)
  BY DEF BaselineSpikes
<1>2. PICK i \in Spikes(es, stream) :
         c = Candidate("BASELINE-001", stream[1], stream[2], History(Samples(es, stream), i) \cup {i}, {i}, 1)
  BY <1>1
<1> DEFINE S == Samples(es, stream)
           T == Samples(fs, stream)
<1>3. /\ S = T \cap Ids(es)
      /\ \A j \in Ids(es) : /\ Earlier(T, j) = Earlier(S, j) /\ Earlier(S, j) \in SUBSET Ids(es)
                            /\ Value(fs, stream, j) = Value(es, stream, j)
  BY SamplesGrow
<1>4. /\ i \in S /\ Cardinality(Earlier(S, i)) >= MinSamples
      /\ Exceeds(Value(es, stream, i), [j \in History(S, i) |-> Value(es, stream, j)])
  BY DEF Spikes
<1> HIDE DEF S, T
<1>5. i \in T /\ i \in Ids(es) /\ Earlier(T, i) = Earlier(S, i) /\ Value(fs, stream, i) = Value(es, stream, i)
  BY <1>3, <1>4
<1>6. History(T, i) = History(S, i) /\ History(S, i) \in SUBSET Ids(es)
  BY <1>3, <1>5 DEF History, Newest
<1>7. [j \in History(T, i) |-> Value(fs, stream, j)] = [j \in History(S, i) |-> Value(es, stream, j)]
  <2>1. \A j \in History(S, i) : Value(fs, stream, j) = Value(es, stream, j)
    BY <1>3, <1>6
  <2> QED BY <2>1, <1>6
<1>8. i \in Spikes(fs, stream)
  <2>1. i \in {k \in T : /\ Cardinality(Earlier(T, k)) >= MinSamples
                         /\ Exceeds(Value(fs, stream, k), [j \in History(T, k) |-> Value(fs, stream, j)])}
    BY <1>4, <1>5, <1>7
  <2> QED BY <2>1 DEF Spikes, T
<1> DEFINE Of(s) == {Candidate("BASELINE-001", s[1], s[2], History(Samples(fs, s), k) \cup {k}, {k}, 1) :
                        k \in Spikes(fs, s)}
<1>9. c \in Of(stream)
  BY <1>2, <1>6, <1>8 DEF S, T
<1>10. BaselineSpikes(fs) = UNION {Of(s) : s \in Streams(fs)}
  BY DEF BaselineSpikes
<1>11. stream \in Streams(fs)
  BY StreamsGrow
<1> HIDE DEF Of
<1> QED BY <1>9, <1>10, <1>11

LEMMA JumpsGrow ==
    ASSUME NEW es, NEW fs, Extends(es, fs), NEW stream
    PROVE  /\ Jumps(es, stream) = Jumps(fs, stream) \cap Ids(es)
           /\ \A i \in Ids(es) : Previous(Samples(fs, stream), i) = Previous(Samples(es, stream), i)
<1> DEFINE S == Samples(es, stream)
           T == Samples(fs, stream)
<1>1. /\ S = T \cap Ids(es)
      /\ \A j \in Ids(es) : /\ Earlier(T, j) = Earlier(S, j) /\ Earlier(S, j) \in SUBSET Ids(es)
                            /\ Value(fs, stream, j) = Value(es, stream, j)
  BY SamplesGrow
<1>2. \A i \in Ids(es) : Previous(T, i) = Previous(S, i)
  <2> HIDE DEF S, T
  <2> QED BY <1>1 DEF Previous
<1>3. ASSUME NEW i \in S, NEW j \in Ids(es), j = i \/ j \in Changed(S, i), Changed(S, i) # {}
      PROVE  Change(fs, stream, j) = Change(es, stream, j)
  <2>1. Earlier(S, j) # {}
    <3> HIDE DEF S
    <3> QED BY <1>3 DEF Changed
  <2>2. Earlier(S, j) \in SUBSET Ids(es) /\ IsCase(es)
    BY <1>1 DEF Extends
  <2>3. Max(Earlier(S, j)) \in Earlier(S, j)
    <3> HIDE DEF S
    <3> QED BY <2>1, <2>2, LastId
  <2>4. Previous(S, j) \in Ids(es)
    BY <2>2, <2>3 DEF Previous
  <2>5. Value(fs, stream, Previous(S, j)) = Value(es, stream, Previous(S, j))
    BY <2>4, <1>1
  <2>6. Value(fs, stream, j) = Value(es, stream, j) /\ Previous(T, j) = Previous(S, j)
    BY <1>1, <1>2
  <2> QED BY <2>5, <2>6 DEF Change
<1>4. ASSUME NEW i \in S PROVE IsJump(fs, stream, i) <=> IsJump(es, stream, i)
  <2>1. i \in Ids(es)
    BY <1>1
  <2> HIDE DEF S, T
  <2>2. Changed(T, i) = Changed(S, i) /\ Changed(S, i) \in SUBSET Ids(es)
    BY <1>1, <2>1 DEF Changed
  <2>3. CASE Changed(S, i) = {}
    <3>1. ~(Cardinality(Changed(S, i)) >= MinSamples)
      BY <2>3, FS_EmptySet, ConfigFacts
    <3> QED BY <3>1, <2>2 DEF IsJump, S, T
  <2>4. CASE Changed(S, i) # {}
    <3>1. Change(fs, stream, i) = Change(es, stream, i)
      BY <1>3, <2>1, <2>4
    <3>2. \A j \in Changed(S, i) : Change(fs, stream, j) = Change(es, stream, j)
      BY <1>3, <2>2, <2>4
    <3>3. Newest(Changed(S, i), MaxSamples) \in SUBSET Changed(S, i)
      BY DEF Newest
    <3>4. [j \in Newest(Changed(S, i), MaxSamples) |-> Change(fs, stream, j)]
            = [j \in Newest(Changed(S, i), MaxSamples) |-> Change(es, stream, j)]
      BY <3>2, <3>3
    <3> QED BY <3>1, <3>4, <2>2 DEF IsJump, S, T
  <2> QED BY <2>3, <2>4
<1>5. Jumps(es, stream) = {i \in S : IsJump(es, stream, i)} /\ Jumps(fs, stream) = {i \in T : IsJump(fs, stream, i)}
  BY DEF Jumps
<1> HIDE DEF S, T
<1>6. Jumps(es, stream) = Jumps(fs, stream) \cap Ids(es)
  BY <1>1, <1>4, <1>5
<1> QED BY <1>2, <1>6 DEF S, T

LEMMA TurnsGrow ==
    ASSUME NEW es, NEW fs, Extends(es, fs), NEW stream
    PROVE  Turns(Samples(es, stream), Jumps(es, stream)) \in SUBSET Turns(Samples(fs, stream), Jumps(fs, stream))
<1> DEFINE S == Jumps(es, stream)
           T == Jumps(fs, stream)
           key == [i \in S |-> i]
           keyT == [i \in T |-> i]
           apart == [i \in S |-> {j \in S : Previous(Samples(es, stream), j) # i}]
           apartT == [i \in T |-> {j \in T : Previous(Samples(fs, stream), j) # i}]
<1>1. S = T \cap Ids(es) /\ \A i \in Ids(es) : Previous(Samples(fs, stream), i) = Previous(Samples(es, stream), i)
  BY JumpsGrow
<1>2. T \in SUBSET Ids(fs)
  <2>1. T \in SUBSET Samples(fs, stream)
    BY DEF Jumps
  <2>2. Samples(fs, stream) \in SUBSET Ids(fs)
    BY SamplesGrow
  <2> QED BY <2>1, <2>2
<1>3. Turns(Samples(es, stream), S) = Marks(S, key, apart) /\ Turns(Samples(fs, stream), T) = Marks(T, keyT, apartT)
  BY DEF Turns
<1> HIDE DEF S, T
<1>4. Ordered(T, keyT) /\ S \in SUBSET T /\ \A x \in S : \A y \in T \ S : x < y
  BY <1>1, <1>2, LaterIds
<1>5. \A x \in S : key[x] = keyT[x]
  BY <1>4
<1>6. \A x \in S : \A y \in T \ S : keyT[x] < keyT[y]
  BY <1>4
<1>7. \A m, x \in S : x \in apart[m] <=> x \in apartT[m]
  BY <1>1, <1>4
<1> HIDE DEF key, keyT, apart, apartT
<1>8. Marks(S, key, apart) \in SUBSET Marks(T, keyT, apartT)
  BY <1>4, <1>5, <1>6, <1>7, MarksGrow
<1> QED BY <1>3, <1>8 DEF S, T

LEMMA ChangesGrow ==
    ASSUME NEW es, NEW fs, Extends(es, fs), NEW c \in TelemetryRateChange(es)
    PROVE  c \in TelemetryRateChange(fs)
<1>1. PICK stream \in Streams(es) : \E i \in Turns(Samples(es, stream), Jumps(es, stream)) :
         c = Candidate("TELEMETRY-ROC-001", stream[1], stream[2], {Previous(Samples(es, stream), i), i}, {i}, 1)
  BY DEF TelemetryRateChange
<1>2. PICK i \in Turns(Samples(es, stream), Jumps(es, stream)) :
         c = Candidate("TELEMETRY-ROC-001", stream[1], stream[2], {Previous(Samples(es, stream), i), i}, {i}, 1)
  BY <1>1
<1>3. i \in Ids(es)
  <2>1. Jumps(es, stream) \in SUBSET Ids(es) /\ IsCase(es)
    BY JumpsGrow DEF Extends
  <2> QED BY <2>1, <1>2, TurnsFacts
<1>4. i \in Turns(Samples(fs, stream), Jumps(fs, stream))
  BY <1>2, TurnsGrow
<1>5. Previous(Samples(fs, stream), i) = Previous(Samples(es, stream), i)
  BY <1>3, JumpsGrow
<1> DEFINE Of(s) == {Candidate("TELEMETRY-ROC-001", s[1], s[2], {Previous(Samples(fs, s), k), k}, {k}, 1) :
                        k \in Turns(Samples(fs, s), Jumps(fs, s))}
<1>6. c \in Of(stream)
  BY <1>2, <1>4, <1>5
<1>7. TelemetryRateChange(fs) = UNION {Of(s) : s \in Streams(fs)}
  BY DEF TelemetryRateChange
<1>8. stream \in Streams(fs)
  BY StreamsGrow
<1> HIDE DEF Of
<1> QED BY <1>6, <1>7, <1>8

\* Only a label finding may change or go when an event comes last.
LEMMA AlertsGrow ==
    ASSUME NEW es, NEW fs, Extends(es, fs), NEW c \in Alerts(es, Detect(es)), c.rule # "LABEL-001"
    PROVE  c \in Alerts(fs, Detect(fs))
<1>1. c \in Detect(es) /\ LiveTriggers(es, c) # {} /\ IsCase(es)
  BY DEF Alerts, Extends
<1>2. c \notin MaliciousLabel(es)
  <2>1. \A d \in MaliciousLabel(es) : d.rule = "LABEL-001"
    BY <1>1, LabelShape
  <2> QED BY <2>1
<1>3. c \in Detect(fs)
  BY <1>1, <1>2, RateGrows, AuthGrows, NetGrows, SpikesGrow, ChangesGrow DEF Detect
<1>4. LiveTriggers(fs, c) = LiveTriggers(es, c)
  <2>1. c.triggers \in SUBSET Ids(es)
    BY <1>1, CandidateShape DEF Shaped
  <2> QED BY <2>1 DEF Extends, LiveTriggers
<1> QED BY <1>1, <1>3, <1>4 DEF Alerts

\* Also after analyses that raised: the alerts of the last one completed would still be found.
AlertsKept == \A c \in analysis.alerts : c.rule # "LABEL-001" => c \in Alerts(events, Detect(events))

LEMMA ArrivalExtends ==
    ASSUME AnalysisInv, NEW kind \in feed, NEW at \in Times(kind), Arrive(kind, at)
    PROVE  Extends(events, events')
<1> DEFINE e == [kind |-> kind, at |-> at]
           fs == Append(events, e)
<1>1. kind \in Kinds /\ InOrder(events, at) /\ events' = fs
  BY AnalysisConstants DEF AnalysisInv, Arrive
<1>2. IsCase(events) /\ IsCase(fs)
  BY <1>1, CaseGrows DEF AnalysisInv
<1>3. e \in CaseEvents /\ events \in Seq(CaseEvents)
  BY <1>1 DEF CaseEvents, Times, AnalysisInv
<1> HIDE DEF e
<1>4. Len(fs) = Len(events) + 1 /\ Len(events) \in Nat
  BY <1>3
<1>5. \A i \in Ids(events) : fs[i] = events[i]
  BY <1>3 DEF Ids
<1> HIDE DEF fs
<1>6. /\ Ids(events) \in SUBSET Ids(fs)
      /\ \A i \in Ids(events) : \A j \in Ids(fs) : j <= i => j \in Ids(events)
  BY <1>4 DEF Ids
<1> QED BY <1>1, <1>2, <1>5, <1>6 DEF Extends

LEMMA AlertsStep ==
    ASSUME AnalysisInv, AlertsKept, Next
    PROVE  /\ AlertsKept'
           /\ ~failed' => \A c \in analysis.alerts : c.rule # "LABEL-001" => c \in analysis'.alerts
<1>1. PICK kind \in feed : \E at \in Times(kind) : Arrive(kind, at)
  BY DEF Next
<1>2. PICK at \in Times(kind) : Arrive(kind, at)
  BY <1>1
<1>3. Extends(events, events')
  BY <1>2, ArrivalExtends
<1>4. \A c \in analysis.alerts : c.rule # "LABEL-001" => c \in Alerts(events', Detect(events'))
  BY <1>3, AlertsGrow DEF AlertsKept
<1>5. analysis' = IF failed' THEN analysis ELSE Analyze(events', Detect(events'))
  BY <1>2 DEF Arrive
<1>6. CASE failed'
  BY <1>4, <1>5, <1>6 DEF AlertsKept
<1>7. CASE ~failed'
  <2>1. analysis'.alerts = Alerts(events', Detect(events'))
    BY <1>5, <1>7 DEF Analyze
  <2> QED BY <2>1, <1>4 DEF AlertsKept
<1> QED BY <1>6, <1>7

\* Between two analyses, whatever raised, no alert but one of labels is of events that would not give it.
THEOREM AlertsInvariant == Spec => []AlertsKept
<1>1. Init => AlertsKept
  BY DEF Init, AlertsKept, Nothing
<1>2. AnalysisInv /\ AlertsKept /\ [Next]_vars => AlertsKept'
  <2>1. CASE UNCHANGED vars
    BY <2>1 DEF vars, AlertsKept, Alerts, LiveTriggers, Detect
  <2> QED BY <2>1, AlertsStep
<1> QED BY <1>1, <1>2, AnalysisInvariant, PTL DEF Spec

\* An alert, other than one of labels, is found again by every later analysis of the events and more of
\* them, also when analyses in between raised (detection.py scans in time order and looks at earlier events
\* only; phase3.py keeps the state of an alert by its identifier).
THEOREM AlertsArePersistent == Spec => AlertsPersist
<1> DEFINE Persist == (Len(events') > Len(events) /\ ~failed' /\ IsTimed(events', Len(events'))
                         /\ \A i \in Ids(events) : At(events, i) < At(events', Len(events')))
                      => \A c \in analysis.alerts : c.rule # "LABEL-001" => c \in analysis'.alerts
<1>1. AnalysisInv /\ AlertsKept /\ [Next]_vars => [Persist]_vars
  <2>1. AnalysisInv /\ AlertsKept /\ Next => Persist
    BY AlertsStep
  <2> HIDE DEF Persist
  <2> QED BY <2>1
<1>2. AlertsPersist <=> [][Persist]_vars
  BY DEF AlertsPersist
<1> HIDE DEF Persist
<1>3. Spec => [][Persist]_vars
  BY <1>1, AnalysisInvariant, AlertsInvariant, PTL DEF Spec
<1> QED BY <1>2, <1>3
=============================================================================
