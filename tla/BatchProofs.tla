---------------------------- MODULE BatchProofs -----------------------------
(***************************************************************************)
(* Proofs about Batch, for batches of any size: the sort puts every request*)
(* after what it depends on or finds a real cycle, every request of an     *)
(* answered batch has an answer, and what depends on a failed request is   *)
(* never executed.                                                         *)
(***************************************************************************)
EXTENDS Batch, FiniteSetTheorems, SequenceTheorems, TLAPS

\* The vertices that topological_sort has numbered or is about to.
Line == order \o queue
Sorted == {order[i] : i \in DOMAIN order}
Dependencies(w) == {v \in Vertices : <<v, w>> \in edges}
Unsorted(w) == {v \in Dependencies(w) : v \notin Sorted}

OneToOne(s) == \A i, j \in DOMAIN s : s[i] = s[j] => i = j

\* What nobody has touched yet.
NotSorted == phase \in {"read", "refused"} => order = <<>> /\ queue = <<>>
NotRun ==
    phase \in {"read", "refused", "sort", "cycle"} =>
        cursor = 1 /\ processed = {}
AllRead == phase \notin {"read", "refused"} => unread = 0

\* The table counts the unsorted dependencies, and those without any stand in
\* line, once each.
Sorting ==
    phase \in {"sort", "run", "done", "cycle", "crashed"} =>
        /\ OneToOne(Line)
        /\ \A w \in Vertices : indegree[w] = Cardinality(Unsorted(w))
        /\ \A w \in Vertices :
              indegree[w] = 0 <=> \E i \in DOMAIN Line : Line[i] = w

SortEnds ==
    phase \in {"run", "done", "crashed"} => queue = <<>> /\ Len(order) = size

SortInv ==
    /\ TypeOK
    /\ NotSorted
    /\ NotRun
    /\ AllRead
    /\ Sorting
    /\ SortEnds
    /\ SortedOrRefused

\* What the loop has passed is answered.
PassedIsProcessed ==
    \A i \in 1 .. cursor - 1 : order[i] \in requests /\ order[i] \in processed
ProcessedIsAnswered ==
    \A v \in processed : v \in Vertices /\ (phase # "crashed" => answers[v] > 0)
DoneHasPassed == phase = "done" => cursor = Len(order) + 1

\* The dependents of what failed, or was not executed for it, are processed.
DependentsAreProcessed ==
    \A u \in processed :
        u \notin executed \/ u \in failed =>
            \A w \in Adjacent(u) \ {0} : w \in processed

\* What is executed has only dependencies that were and succeeded.
SucceededDirectly ==
    \A e \in edges : e[2] \in executed \ {0} => e[1] \in executed \ failed

RunInv ==
    /\ PassedIsProcessed
    /\ ProcessedIsAnswered
    /\ DoneHasPassed
    /\ DependentsAreProcessed
    /\ SucceededDirectly

BatchInv == SortInv /\ RunInv

-----------------------------------------------------------------------------
(* Finite sets of naturals                                                 *)

\* A set of naturals has a least element: take the least of the sets of what
\* is not above a member.
LEMMA LeastElement ==
    ASSUME NEW S, S \subseteq Nat, S # {}
    PROVE  \E x \in S : \A y \in S : x <= y
<1> DEFINE below(x) == {y \in S : y <= x}
           T == {below(x) : x \in S}
<1>1. T \subseteq FiniteSubsetsOf(S)
    <2> SUFFICES ASSUME NEW x \in S
                 PROVE  below(x) \in FiniteSubsetsOf(S)
        OBVIOUS
    <2>1. below(x) \in SUBSET Nat /\ x \in Nat /\ \A y \in below(x) : y <= x
        OBVIOUS
    <2> HIDE DEF below
    <2>2. IsFiniteSet(below(x))
        BY <2>1, FS_BoundedSetOfNaturals
    <2> QED BY <2>2 DEF FiniteSubsetsOf, below
<1>2. T # {}
    OBVIOUS
<1>3. \E B \in T : \A C \in T : <<C, B>> \notin StrictSubsetOrdering(S)
    <2> HIDE DEF T
    <2> QED BY <1>1, <1>2, FS_StrictSubsetOrderingWellFounded, WFMin
<1>4. PICK x \in S : \A y \in S : <<below(y), below(x)>> \notin StrictSubsetOrdering(S)
    BY <1>3
<1>5. ASSUME NEW y \in S, ~(x <= y)
      PROVE  FALSE
    <2>1. x \in Nat /\ y \in Nat /\ y < x
        BY <1>5
    <2>2. below(y) \subseteq below(x)
        <3> SUFFICES ASSUME NEW z \in S, z <= y
                     PROVE  z <= x
            OBVIOUS
        <3>1. z \in Nat
            OBVIOUS
        <3> QED BY <2>1, <3>1
    <2>3. x \in below(x) /\ x \notin below(y)
        BY <2>1
    <2>4. below(x) \subseteq S /\ below(y) \subseteq S
        OBVIOUS
    <2> HIDE DEF below
    <2>5. <<below(y), below(x)>> \in StrictSubsetOrdering(S)
        BY <2>2, <2>3, <2>4 DEF StrictSubsetOrdering
    <2> QED BY <1>4, <2>5
<1> QED BY <1>5

\* The members of a finite set of naturals can be put in ascending order: each
\* at the number of members that are not above it.
LEMMA AscendingExists ==
    ASSUME NEW S, S \subseteq Nat, IsFiniteSet(S)
    PROVE  \E s \in [1 .. Cardinality(S) -> S] :
               \A i, j \in DOMAIN s : i < j => s[i] < s[j]
<1> DEFINE n == Cardinality(S)
           below(x) == {y \in S : y <= x}
           rank == [x \in S |-> Cardinality(below(x))]
<1>1. n \in Nat
    BY FS_CardinalityType
<1>2. ASSUME NEW x \in S
      PROVE  IsFiniteSet(below(x)) /\ Cardinality(below(x)) \in 1 .. n
    <2>1. below(x) \subseteq S /\ x \in below(x)
        OBVIOUS
    <2> HIDE DEF below
    <2>2. IsFiniteSet(below(x)) /\ Cardinality(below(x)) <= n
        BY <2>1, FS_Subset
    <2>3. Cardinality(below(x)) \in Nat /\ Cardinality(below(x)) # 0
        BY <2>1, <2>2, FS_CardinalityType, FS_EmptySet
    <2> QED BY <1>1, <2>2, <2>3
<1>3. ASSUME NEW x \in S, NEW y \in S, x < y
      PROVE  Cardinality(below(x)) < Cardinality(below(y))
    <2>1. x \in Nat /\ y \in Nat
        OBVIOUS
    <2>2. below(x) \subseteq below(y)
        <3> SUFFICES ASSUME NEW z \in S, z <= x
                     PROVE  z <= y
            OBVIOUS
        <3>1. z \in Nat
            OBVIOUS
        <3> QED BY <1>3, <2>1, <3>1
    <2>3. y \in below(y) /\ y \notin below(x)
        BY <1>3, <2>1
    <2>4. /\ IsFiniteSet(below(y))
          /\ Cardinality(below(x)) \in Nat /\ Cardinality(below(y)) \in Nat
        BY <1>1, <1>2
    <2> HIDE DEF below
    <2>5. /\ Cardinality(below(x)) <= Cardinality(below(y))
          /\ Cardinality(below(x)) # Cardinality(below(y))
        BY <2>2, <2>3, <2>4, FS_Subset
    <2> QED BY <2>4, <2>5
<1>4. rank \in Injection(S, 1 .. n)
    <2>1. rank \in [S -> 1 .. n]
        BY <1>2
    <2>2. ASSUME NEW x \in S, NEW y \in S, rank[x] = rank[y]
          PROVE  x = y
        <3>1. x \in Nat /\ y \in Nat
            OBVIOUS
        <3>2. rank[x] = Cardinality(below(x)) /\ rank[y] = Cardinality(below(y))
            OBVIOUS
        <3>3. Cardinality(below(x)) \in Nat /\ Cardinality(below(y)) \in Nat
            BY <1>1, <1>2
        <3>4. Cardinality(below(x)) = Cardinality(below(y))
            BY <2>2, <3>2, Zenon
        <3>5. x < y => Cardinality(below(x)) < Cardinality(below(y))
            BY <1>3, Zenon
        <3>6. y < x => Cardinality(below(y)) < Cardinality(below(x))
            BY <1>3, Zenon
        <3> HIDE DEF below, rank
        <3> QED BY <3>1, <3>3, <3>4, <3>5, <3>6
    <2> HIDE DEF rank
    <2> QED BY <2>1, <2>2 DEF Injection, IsInjective
<1>5. rank \in Surjection(S, 1 .. n)
    <2>1. IsFiniteSet(1 .. n) /\ Cardinality(1 .. n) = n
        BY <1>1, FS_Interval
    <2> HIDE DEF rank
    <2> QED BY <1>4, <2>1, FS_Injection
<1> DEFINE s == [i \in 1 .. n |-> CHOOSE x \in S : rank[x] = i]
<1>6. \A i \in 1 .. n : s[i] \in S /\ rank[s[i]] = i
    <2> SUFFICES ASSUME NEW i \in 1 .. n
                 PROVE  s[i] \in S /\ rank[s[i]] = i
        OBVIOUS
    <2> HIDE DEF rank, n
    <2>1. \E x \in S : rank[x] = i
        BY <1>5 DEF Surjection
    <2> QED BY <2>1
<1>7. ASSUME NEW i \in 1 .. n, NEW j \in 1 .. n, i < j
      PROVE  s[i] < s[j]
    <2>1. s[i] \in S /\ s[j] \in S /\ rank[s[i]] = i /\ rank[s[j]] = j
        BY <1>6
    <2>2. \A x \in S : rank[x] = Cardinality(below(x))
        OBVIOUS
    <2> HIDE DEF s, rank, below, n
    <2>3. s[i] \in Nat /\ s[j] \in Nat /\ i \in Nat /\ j \in Nat
        <3>1. s[i] \in Nat /\ s[j] \in Nat
            BY <2>1
        <3> QED BY <1>1, <3>1
    <2> QED BY <1>3, <1>7, <2>1, <2>2, <2>3
<1>8. s \in [1 .. n -> S] /\ DOMAIN s = 1 .. n
    BY <1>6
<1> HIDE DEF s, n
<1> QED BY <1>7, <1>8 DEF n

\* What a loop over range(num_vertices) finds is a sequence of it, once each.
LEMMA AscendingProperties ==
    ASSUME NEW S, S \subseteq Nat, IsFiniteSet(S)
    PROVE  /\ Ascending(S) \in Seq(S)
           /\ OneToOne(Ascending(S))
           /\ \A x \in S : \E i \in DOMAIN Ascending(S) : Ascending(S)[i] = x
<1> DEFINE n == Cardinality(S)
           s == Ascending(S)
<1>1. n \in Nat
    BY FS_CardinalityType
<1>2. /\ s \in [1 .. n -> S]
      /\ \A i, j \in DOMAIN s : i < j => s[i] < s[j]
    BY AscendingExists, Zenon DEF Ascending
<1>3. s \in Seq(S)
    BY <1>1, <1>2
<1> HIDE DEF n, s
<1>4. OneToOne(s)
    <2> SUFFICES ASSUME NEW i \in DOMAIN s, NEW j \in DOMAIN s, s[i] = s[j]
                 PROVE  i = j
        BY DEF OneToOne
    <2>1. i \in 1 .. n /\ j \in 1 .. n /\ s[i] \in S /\ s[j] \in S
        BY <1>2
    <2>2. s[i] \in Nat /\ s[j] \in Nat
        BY <2>1
    <2>3. ~(i < j) /\ ~(j < i)
        BY <1>2, <2>2
    <2> QED BY <1>1, <2>1, <2>3
<1>5. s \in Surjection(1 .. n, S)
    <2>1. s \in Injection(1 .. n, S)
        BY <1>2, <1>4 DEF OneToOne, Injection, IsInjective
    <2>2. Cardinality(1 .. n) = Cardinality(S)
        BY <1>1, FS_Interval DEF n
    <2> QED BY <2>1, <2>2, FS_Injection
<1>6. \A x \in S : \E i \in DOMAIN s : s[i] = x
    BY <1>2, <1>5 DEF Surjection
<1> QED BY <1>3, <1>4, <1>6 DEF s

LEMMA ConcatOneToOne ==
    ASSUME NEW S, NEW s \in Seq(S), NEW t \in Seq(S),
           OneToOne(s), OneToOne(t),
           \A i \in DOMAIN s, j \in DOMAIN t : s[i] # t[j]
    PROVE  OneToOne(s \o t)
<1>1. /\ Len(s) \in Nat /\ Len(t) \in Nat
      /\ DOMAIN s = 1 .. Len(s) /\ DOMAIN t = 1 .. Len(t)
      /\ DOMAIN (s \o t) = 1 .. Len(s) + Len(t)
      /\ \A i \in 1 .. Len(s) + Len(t) :
            (s \o t)[i] = IF i <= Len(s) THEN s[i] ELSE t[i - Len(s)]
    BY LenProperties, ConcatProperties
<1> SUFFICES ASSUME NEW i \in 1 .. Len(s) + Len(t), NEW j \in 1 .. Len(s) + Len(t),
                    (s \o t)[i] = (s \o t)[j]
             PROVE  i = j
    BY <1>1 DEF OneToOne
<1>2. \A k \in 1 .. Len(s) + Len(t) :
          k <= Len(s) => k \in DOMAIN s /\ (s \o t)[k] = s[k]
    BY <1>1
<1>3. \A k \in 1 .. Len(s) + Len(t) :
          ~(k <= Len(s)) => /\ k - Len(s) \in DOMAIN t
                            /\ (s \o t)[k] = t[k - Len(s)]
    BY <1>1
<1>4. CASE i <= Len(s) /\ j <= Len(s)
    BY <1>2, <1>4 DEF OneToOne
<1>5. CASE ~(i <= Len(s)) /\ ~(j <= Len(s))
    <2>1. i - Len(s) = j - Len(s)
        BY <1>3, <1>5 DEF OneToOne
    <2> QED BY <1>1, <2>1
<1>6. CASE i <= Len(s) /\ ~(j <= Len(s))
    BY <1>2, <1>3, <1>6
<1>7. CASE ~(i <= Len(s)) /\ j <= Len(s)
    BY <1>2, <1>3, <1>7
<1> QED BY <1>4, <1>5, <1>6, <1>7

-----------------------------------------------------------------------------
(* Vertices                                                                *)

LEMMA VerticesFinite ==
    ASSUME size \in 1 .. MaxRequests
    PROVE  /\ IsFiniteSet(Vertices) /\ Cardinality(Vertices) = size
           /\ Vertices \subseteq Nat /\ Vertices \subseteq Ids
<1>1. size \in Nat \ {0} /\ size <= MaxRequests /\ MaxRequests \in Nat
    BY MaxRequestsAssumption
<1>2. IsFiniteSet(Vertices) /\ Cardinality(Vertices) = size
    BY <1>1, FS_Interval DEF Vertices
<1>3. Vertices \subseteq Nat /\ Vertices \subseteq Ids
    BY <1>1 DEF Vertices, Ids
<1> QED BY <1>2, <1>3

LEMMA UnsortedFinite ==
    ASSUME size \in 1 .. MaxRequests
    PROVE  \A w : /\ IsFiniteSet(Dependencies(w)) /\ IsFiniteSet(Unsorted(w))
                  /\ Cardinality(Dependencies(w)) \in Nat
                  /\ Cardinality(Unsorted(w)) \in Nat
<1> SUFFICES ASSUME NEW w
             PROVE  /\ IsFiniteSet(Dependencies(w)) /\ IsFiniteSet(Unsorted(w))
                    /\ Cardinality(Dependencies(w)) \in Nat
                    /\ Cardinality(Unsorted(w)) \in Nat
    OBVIOUS
<1>1. Dependencies(w) \subseteq Vertices /\ Unsorted(w) \subseteq Vertices
    BY DEF Dependencies, Unsorted
<1>2. IsFiniteSet(Dependencies(w)) /\ IsFiniteSet(Unsorted(w))
    BY <1>1, VerticesFinite, FS_Subset
<1> QED BY <1>2, FS_CardinalityType

\* A sorted line as long as there are vertices has all of them.
LEMMA WholeLine ==
    ASSUME size \in 1 .. MaxRequests, NEW s \in Seq(Vertices), OneToOne(s)
    PROVE  Len(s) = size <=> \A v \in Vertices : \E i \in DOMAIN s : s[i] = v
<1>1. /\ IsFiniteSet(Vertices) /\ Cardinality(Vertices) = size
    BY VerticesFinite
<1>2. Len(s) \in Nat /\ DOMAIN s = 1 .. Len(s) /\ s \in [1 .. Len(s) -> Vertices]
    BY LenProperties
<1>3. s \in Injection(1 .. Len(s), Vertices)
    BY <1>2 DEF OneToOne, Injection, IsInjective
<1>4. Cardinality(1 .. Len(s)) = Len(s)
    <2>1. \A n \in Nat : Cardinality(1 .. n) = IF 1 > n THEN 0 ELSE n - 1 + 1
        BY FS_Interval
    <2>2. \A n \in Nat : (IF 1 > n THEN 0 ELSE n - 1 + 1) = n
        OBVIOUS
    <2> QED BY <1>2, <2>1, <2>2, Zenon
<1>5. Len(s) = size <=> s \in Surjection(1 .. Len(s), Vertices)
    BY <1>1, <1>3, <1>4, FS_Injection
<1> QED BY <1>2, <1>5 DEF Surjection

-----------------------------------------------------------------------------
(* topological_sort                                                        *)

\* A step that leaves the graph and the sort alone, and does not start it.
LEMMA SortedStays ==
    ASSUME SortInv, TypeOK', UNCHANGED <<graph, sorting>>,
           phase = "run", phase' \in {"run", "done", "crashed"}
    PROVE  SortInv'
<1> USE DEF graph, sorting
<1>1. /\ Line' = Line /\ Vertices' = Vertices
      /\ \A w : Unsorted(w)' = Unsorted(w)
    BY DEF Line, Vertices, Unsorted, Dependencies, Sorted
<1>2. HasCycle' <=> HasCycle
    BY <1>1 DEF HasCycle
<1>3. SortedByDependency' <=> SortedByDependency
    BY DEF SortedByDependency
<1>4. NotSorted' /\ NotRun' /\ AllRead' /\ SortEnds'
    BY DEF SortInv, NotSorted, NotRun, AllRead, SortEnds
<1>5. Sorting'
    BY <1>1 DEF SortInv, Sorting
<1>6. SortedOrRefused'
    BY <1>2, <1>3 DEF SortInv, SortedOrRefused, CyclesAreRefused
<1> QED BY <1>4, <1>5, <1>6 DEF SortInv

LEMMA SortInitial == Init => SortInv
<1> SUFFICES ASSUME Init
             PROVE  SortInv
    OBVIOUS
<1> USE DEF Init
<1>1. size \in Nat \ {0} /\ size <= MaxRequests /\ MaxRequests \in Nat
    BY MaxRequestsAssumption
<1>2. TypeOK
    <2>1. Cardinality(requests) = size - unread /\ unread \in 0 .. size
        BY <1>1, FS_EmptySet
    <2>2. /\ queue \in Seq(Vertices) /\ order \in Seq(Vertices)
          /\ cursor \in 1 .. Len(order) + 1
        BY EmptySeq
    <2>3. indegree \in [Ids -> Nat] /\ answers \in [Ids -> Nat]
        OBVIOUS
    <2> QED BY <2>1, <2>2, <2>3 DEF TypeOK, Phases
<1>3. SortedOrRefused
    BY DEF SortedOrRefused, SortedByDependency, CyclesAreRefused
<1>4. NotSorted /\ NotRun /\ AllRead /\ Sorting /\ SortEnds
    BY DEF NotSorted, NotRun, AllRead, Sorting, SortEnds
<1> QED BY <1>2, <1>3, <1>4 DEF SortInv

LEMMA ReadKeepsSort ==
    ASSUME SortInv, NEW v \in 0 .. MaxRequests + 1, NEW D \in SUBSET Vertices,
           ReadRequest(v, D)
    PROVE  SortInv' /\ phase' \in {"read", "refused"}
<1> USE DEF ReadRequest, sorting, running
<1>1. phase = "read" /\ phase' \in {"read", "refused"} /\ Vertices' = Vertices
    BY DEF Vertices
<1>2. TypeOK'
    <2>1. CASE Acceptable(v, D)
        <3>1. /\ requests' = requests \cup {v} /\ v \notin requests /\ v <= size
              /\ edges' = edges \cup (D \X {v}) /\ (D # {} => v \in Vertices)
              /\ unread' = unread - 1 /\ UNCHANGED phase
            BY <2>1 DEF Acceptable
        <3>2. size \in Nat /\ unread \in Nat /\ unread > 0 /\ unread <= size
            BY MaxRequestsAssumption DEF SortInv, TypeOK
        <3>3. IsFiniteSet(requests)
            <4>1. IsFiniteSet(0 .. size)
                BY <3>2, FS_Interval
            <4> QED BY <4>1, FS_Subset DEF SortInv, TypeOK
        <3>4. Cardinality(requests') = Cardinality(requests) + 1
            BY <3>1, <3>3, FS_AddElement
        <3>5. Cardinality(requests') = size - unread'
            BY <3>1, <3>2, <3>4 DEF SortInv, TypeOK
        <3>6. unread' \in 0 .. size
            BY <3>1, <3>2
        <3>7. requests' \subseteq 0 .. size
            BY <3>1, <3>2 DEF SortInv, TypeOK
        <3>8. edges' \subseteq Vertices \X Vertices
            BY <3>1 DEF SortInv, TypeOK
        <3> QED BY <1>1, <3>1, <3>5, <3>6, <3>7, <3>8 DEF SortInv, TypeOK
    <2>2. CASE ~Acceptable(v, D)
        BY <1>1, <2>2 DEF SortInv, TypeOK, Phases, Ends
    <2> QED BY <2>1, <2>2
<1>3. SortedOrRefused'
    BY <1>1 DEF SortInv, NotSorted, SortedOrRefused, SortedByDependency,
                CyclesAreRefused
<1>4. NotSorted' /\ NotRun' /\ AllRead' /\ Sorting' /\ SortEnds'
    BY <1>1 DEF SortInv, NotSorted, NotRun, AllRead, Sorting, SortEnds
<1> QED BY <1>1, <1>2, <1>3, <1>4 DEF SortInv

LEMMA RefuseKeepsSort ==
    ASSUME SortInv, RefuseDependency
    PROVE  SortInv' /\ phase' = "refused"
<1> USE DEF RefuseDependency, graph, sorting, running
<1>1. TypeOK'
    BY DEF SortInv, TypeOK, Phases, Ends, Vertices
<1>2. SortedOrRefused'
    BY DEF SortInv, NotSorted, SortedOrRefused, SortedByDependency, CyclesAreRefused
<1>3. NotSorted' /\ NotRun' /\ AllRead' /\ Sorting' /\ SortEnds'
    BY DEF SortInv, NotSorted, NotRun, AllRead, Sorting, SortEnds
<1> QED BY <1>1, <1>2, <1>3 DEF SortInv

LEMMA StartKeepsSort ==
    ASSUME SortInv, StartSort
    PROVE  SortInv' /\ phase' \in {"sort", "cycle"}
<1> DEFINE free == {v \in Vertices : Indegree(v) = 0}
<1>1. /\ phase = "read" /\ unread = 0
      /\ queue' = Ascending(free)
      /\ phase' = IF free = {} THEN "cycle" ELSE "sort"
      /\ indegree' = [v \in Ids |-> IF v \in Vertices THEN Indegree(v) ELSE 0]
      /\ UNCHANGED <<graph, order, running>>
    BY DEF StartSort
<1>2. /\ size \in 1 .. MaxRequests
      /\ order = <<>> /\ order' = <<>> /\ cursor' = 1 /\ processed' = {}
      /\ size' = size /\ edges' = edges /\ unread' = 0 /\ Vertices' = Vertices
    BY <1>1 DEF SortInv, TypeOK, NotSorted, NotRun, graph, running, Vertices
<1>3. /\ Vertices \subseteq Nat /\ Vertices \subseteq Ids /\ Vertices # {}
      /\ IsFiniteSet(Vertices)
    <2>1. 0 \in Vertices
        BY <1>2, MaxRequestsAssumption DEF Vertices
    <2> QED BY <1>2, <2>1, VerticesFinite
<1>4. /\ \A w : Indegree(w) = Cardinality(Dependencies(w)) /\ Indegree(w) \in Nat
      /\ \A w : Unsorted(w)' = Dependencies(w)
    <2>1. \A w : Indegree(w) = Cardinality(Dependencies(w))
        BY DEF Indegree, Dependencies
    <2>2. \A w : Unsorted(w)' = Dependencies(w)
        BY <1>2 DEF Unsorted, Dependencies, Sorted
    <2> QED BY <1>2, <2>1, <2>2, UnsortedFinite
<1>5. /\ free \subseteq Vertices /\ queue' \in Seq(free) /\ OneToOne(queue')
      /\ \A x \in free : \E i \in DOMAIN queue' : queue'[i] = x
    <2>1. free \subseteq Vertices /\ free \subseteq Nat
        BY <1>3
    <2> HIDE DEF free
    <2>2. IsFiniteSet(free)
        BY <1>3, <2>1, FS_Subset
    <2> QED BY <1>1, <2>1, <2>2, AscendingProperties
<1> HIDE DEF free
<1>6. Line' = queue' /\ queue' \in Seq(Vertices)
    BY <1>2, <1>5, SeqMonotonic, ConcatEmptySeq DEF Line
<1>7. TypeOK'
    <2>1. indegree' \in [Ids -> Nat]
        BY <1>1, <1>4
    <2>2. phase' \in Phases
        BY <1>1 DEF Phases, Ends
    <2>3. cursor' \in 1 .. Len(order') + 1 /\ order' \in Seq(Vertices')
        BY <1>2, EmptySeq
    <2> QED BY <1>1, <1>2, <1>6, <2>1, <2>2, <2>3
            DEF SortInv, TypeOK, graph, running
<1>8. Sorting'
    <2>1. \A w \in Vertices : indegree'[w] = Indegree(w)
        BY <1>1, <1>3
    <2>2. \A i \in DOMAIN queue' : queue'[i] \in free
        BY <1>5, LenProperties, ElementOfSeq
    <2>3. \A w \in Vertices : Indegree(w) = 0 <=> w \in free
        BY DEF free
    <2>4. OneToOne(Line')
        BY <1>5, <1>6
    <2>5. \A w \in Vertices' : indegree'[w] = Cardinality(Unsorted(w)')
        BY <1>2, <1>4, <2>1
    <2>6. \A w \in Vertices' :
              indegree'[w] = 0 <=> \E i \in DOMAIN Line' : Line'[i] = w
        BY <1>2, <1>5, <1>6, <2>1, <2>2, <2>3
    <2> QED BY <2>4, <2>5, <2>6 DEF Sorting, OneToOne
<1>9. SortedOrRefused'
    <2>1. SortedByDependency'
        BY <1>2 DEF SortedByDependency
    <2>2. ASSUME free = {}
          PROVE  HasCycle'
        <3>1. \A w \in Vertices : \E v \in Vertices : <<v, w>> \in edges
            <4> SUFFICES ASSUME NEW w \in Vertices
                         PROVE  \E v \in Vertices : <<v, w>> \in edges
                OBVIOUS
            <4>1. Cardinality(Dependencies(w)) # 0
                BY <1>4, <2>2 DEF free
            <4>2. Dependencies(w) # {}
                BY <4>1, FS_EmptySet
            <4> QED BY <4>2 DEF Dependencies
        <3> QED BY <1>2, <1>3, <3>1 DEF HasCycle
    <2>3. phase' = "cycle" => HasCycle'
        BY <1>1, <2>2
    <2>4. phase' \notin {"run", "done"}
        BY <1>1
    <2> QED BY <2>1, <2>3, <2>4 DEF SortedOrRefused, CyclesAreRefused
<1>10. NotSorted' /\ NotRun' /\ AllRead' /\ SortEnds' /\ phase' \in {"sort", "cycle"}
    BY <1>1, <1>2 DEF NotSorted, NotRun, AllRead, SortEnds
<1> QED BY <1>7, <1>8, <1>9, <1>10 DEF SortInv

LEMMA SortVertexKeepsSort ==
    ASSUME SortInv, SortVertex
    PROVE  SortInv' /\ phase' = "sort"
<1> DEFINE v == Head(queue)
           rest == Tail(queue)
           A == Ascending(Freed(v))
<1>1. /\ phase = "sort" /\ phase' = "sort" /\ queue # <<>>
      /\ order' = Append(order, v)
      /\ queue' = rest \o A
      /\ indegree' = [w \in Ids |-> IF w \in Adjacent(v)
                                    THEN indegree[w] - 1 ELSE indegree[w]]
      /\ UNCHANGED <<graph, running>>
    BY DEF SortVertex
<1>2. /\ size \in 1 .. MaxRequests /\ Vertices' = Vertices /\ edges' = edges
      /\ order \in Seq(Vertices) /\ queue \in Seq(Vertices)
      /\ indegree \in [Ids -> Nat]
      /\ OneToOne(Line)
      /\ \A w \in Vertices : indegree[w] = Cardinality(Unsorted(w))
      /\ \A w \in Vertices :
            indegree[w] = 0 <=> \E i \in DOMAIN Line : Line[i] = w
      /\ SortedByDependency
    BY <1>1 DEF SortInv, TypeOK, Sorting, SortedOrRefused, graph, Vertices
<1>3. /\ Vertices \subseteq Nat /\ Vertices \subseteq Ids /\ IsFiniteSet(Vertices)
    BY <1>2, VerticesFinite
\* The line with its first unsorted member picked out
<1>4. /\ v \in Vertices /\ rest \in Seq(Vertices)
      /\ queue = <<v>> \o rest
    <2>1. /\ v \in Vertices /\ rest \in Seq(Vertices) /\ Len(rest) = Len(queue) - 1
          /\ \A i \in 1 .. Len(rest) : rest[i] = queue[i + 1]
          /\ v = queue[1]
        BY <1>1, <1>2, HeadTailProperties
    <2> HIDE DEF v, rest
    <2>2. /\ <<v>> \in Seq(Vertices) /\ Len(<<v>>) = 1 /\ <<v>>[1] = v
          /\ Len(queue) \in Nat
        BY <1>2, <2>1, LenProperties
    <2>3. /\ <<v>> \o rest \in Seq(Vertices) /\ Len(<<v>> \o rest) = 1 + Len(rest)
          /\ \A i \in 1 .. 1 + Len(rest) :
                (<<v>> \o rest)[i] = IF i <= 1 THEN <<v>>[i] ELSE rest[i - 1]
        BY <2>1, <2>2, ConcatProperties
    <2>4. \A i \in 1 .. Len(queue) : queue[i] = (<<v>> \o rest)[i]
        <3> SUFFICES ASSUME NEW i \in 1 .. Len(queue)
                     PROVE  queue[i] = (<<v>> \o rest)[i]
            OBVIOUS
        <3>1. CASE i = 1
            BY <2>1, <2>2, <2>3, <3>1
        <3>2. CASE i # 1
            <4>1. i - 1 \in 1 .. Len(rest) /\ (i - 1) + 1 = i /\ ~(i <= 1)
                BY <2>1, <2>2, <3>2
            <4>2. rest[i - 1] = queue[i]
                BY <2>1, <4>1
            <4> QED BY <2>1, <2>2, <2>3, <4>1, <4>2
        <3> QED BY <3>1, <3>2
    <2>5. Len(queue) = Len(<<v>> \o rest)
        BY <2>1, <2>2, <2>3
    <2> QED BY <1>2, <2>1, <2>3, <2>4, <2>5, SeqEqual
<1> HIDE DEF v, rest
<1>5. /\ Line \in Seq(Vertices)
      /\ DOMAIN order = 1 .. Len(order) /\ Len(order) \in Nat
      /\ \A i \in DOMAIN order : i \in DOMAIN Line /\ Line[i] = order[i]
      /\ Len(order) + 1 \in DOMAIN Line /\ Line[Len(order) + 1] = v
    <2>1. /\ Line \in Seq(Vertices) /\ Len(Line) = Len(order) + Len(queue)
          /\ \A i \in 1 .. Len(order) + Len(queue) :
                Line[i] = IF i <= Len(order) THEN order[i] ELSE queue[i - Len(order)]
        BY <1>2, ConcatProperties DEF Line
    <2>2. /\ Len(order) \in Nat /\ Len(queue) \in Nat \ {0}
          /\ DOMAIN order = 1 .. Len(order) /\ DOMAIN Line = 1 .. Len(Line)
        BY <1>1, <1>2, <2>1, LenProperties, EmptySeq
    <2>3. \A i \in DOMAIN order : i \in DOMAIN Line /\ Line[i] = order[i]
        BY <2>1, <2>2
    <2>4. queue[1] = v
        BY <1>1, <1>2 DEF v
    <2>5. /\ Len(order) + 1 \in 1 .. Len(order) + Len(queue)
          /\ ~(Len(order) + 1 <= Len(order)) /\ Len(order) + 1 - Len(order) = 1
        BY <2>2
    <2> QED BY <2>1, <2>2, <2>3, <2>4, <2>5
<1>6. v \notin Sorted
    <2> SUFFICES ASSUME NEW i \in DOMAIN order, order[i] = v
                 PROVE  FALSE
        BY DEF Sorted
    <2>1. i = Len(order) + 1
        BY <1>2, <1>5 DEF OneToOne
    <2> QED BY <1>5, <2>1
<1>7. indegree[v] = 0 /\ Unsorted(v) = {}
    <2>1. indegree[v] = 0
        BY <1>2, <1>4, <1>5
    <2>2. Cardinality(Unsorted(v)) = 0 /\ IsFiniteSet(Unsorted(v))
        BY <1>2, <1>4, <2>1, UnsortedFinite
    <2> QED BY <2>1, <2>2, FS_EmptySet
<1>8. /\ order' \in Seq(Vertices) /\ Len(order') = Len(order) + 1
      /\ \A i \in 1 .. Len(order) : order'[i] = order[i]
      /\ order'[Len(order) + 1] = v
      /\ DOMAIN order' = 1 .. Len(order) + 1
    BY <1>1, <1>2, <1>4, AppendProperties, LenProperties
<1>9. /\ Sorted' = Sorted \cup {v}
      /\ \A w : Unsorted(w)' = Unsorted(w) \ {v}
    <2>1. \A i \in DOMAIN order' : order'[i] \in Sorted \cup {v}
        <3> SUFFICES ASSUME NEW i \in 1 .. Len(order) + 1
                     PROVE  order'[i] \in Sorted \cup {v}
            BY <1>8
        <3>1. CASE i = Len(order) + 1
            BY <1>8, <3>1
        <3>2. CASE i # Len(order) + 1
            <4>1. i \in 1 .. Len(order)
                BY <1>5, <3>2
            <4> QED BY <1>5, <1>8, <4>1 DEF Sorted
        <3> QED BY <3>1, <3>2
    <2>2. \A i \in DOMAIN order : i \in DOMAIN order' /\ order'[i] = order[i]
        BY <1>5, <1>8
    <2>3. Len(order) + 1 \in DOMAIN order'
        BY <1>5, <1>8
    <2>4. Sorted' = Sorted \cup {v}
        <3>1. Sorted' \subseteq Sorted \cup {v}
            BY <2>1 DEF Sorted
        <3>2. Sorted \subseteq Sorted'
            BY <2>2 DEF Sorted
        <3>3. v \in Sorted'
            BY <1>8, <2>3 DEF Sorted
        <3> QED BY <3>1, <3>2, <3>3
    <2>5. \A w : Dependencies(w)' = Dependencies(w)
        BY <1>2 DEF Dependencies
    <2> QED BY <2>4, <2>5 DEF Unsorted
\* What the step does to the table
<1>10. ASSUME NEW w \in Vertices, w \in Adjacent(v)
       PROVE  /\ indegree[w] \in Nat /\ indegree[w] > 0
              /\ indegree'[w] = indegree[w] - 1
              /\ Cardinality(Unsorted(w)') = indegree[w] - 1
    <2>1. v \in Unsorted(w)
        BY <1>4, <1>6, <1>10 DEF Adjacent, Unsorted, Dependencies
    <2>2. /\ IsFiniteSet(Unsorted(w)) /\ indegree[w] = Cardinality(Unsorted(w))
          /\ indegree[w] \in Nat
        BY <1>2, UnsortedFinite
    <2>3. indegree[w] # 0
        BY <2>1, <2>2, FS_EmptySet
    <2>4. Cardinality(Unsorted(w)') = indegree[w] - 1
        BY <1>9, <2>1, <2>2, FS_RemoveElement
    <2>5. indegree'[w] = indegree[w] - 1
        BY <1>1, <1>3, <1>10
    <2> QED BY <2>2, <2>3, <2>4, <2>5
<1>11. ASSUME NEW w \in Vertices, w \notin Adjacent(v)
       PROVE  indegree'[w] = indegree[w] /\ Unsorted(w)' = Unsorted(w)
    <2>1. v \notin Unsorted(w)
        BY <1>11 DEF Adjacent, Unsorted, Dependencies
    <2>2. indegree'[w] = indegree[w]
        BY <1>1, <1>3, <1>11
    <2> QED BY <1>9, <2>1, <2>2
\* What it adds to the line
<1>12. /\ Freed(v) \subseteq Vertices /\ A \in Seq(Vertices) /\ OneToOne(A)
       /\ \A w \in Vertices : w \in Freed(v) <=> \E i \in DOMAIN A : A[i] = w
    <2>1. Freed(v) \subseteq Vertices /\ Freed(v) \subseteq Nat
        BY <1>3 DEF Freed, Adjacent
    <2>2. IsFiniteSet(Freed(v))
        BY <1>3, <2>1, FS_Subset
    <2>3. /\ A \in Seq(Freed(v)) /\ OneToOne(A)
          /\ \A x \in Freed(v) : \E i \in DOMAIN A : A[i] = x
        BY <2>1, <2>2, AscendingProperties
    <2> HIDE DEF A
    <2>4. A \in Seq(Vertices)
        BY <2>1, <2>3, SeqMonotonic
    <2>5. \A i \in DOMAIN A : A[i] \in Freed(v)
        BY <2>3, LenProperties, ElementOfSeq
    <2> QED BY <2>1, <2>3, <2>4, <2>5
<1>13. Line' = Line \o A /\ queue' \in Seq(Vertices)
    <2> HIDE DEF A
    <2>1. <<v>> \in Seq(Vertices)
        BY <1>4
    <2>2. order' = order \o <<v>>
        BY <1>1, <1>2, <1>4, AppendIsConcat
    <2>3. rest \o A \in Seq(Vertices) /\ <<v>> \o rest \in Seq(Vertices)
        BY <1>4, <1>12, <2>1, ConcatProperties
    <2>4. Line' = order \o (<<v>> \o (rest \o A))
        BY <1>1, <1>2, <2>1, <2>2, <2>3, ConcatAssociative DEF Line
    <2>5. <<v>> \o (rest \o A) = (<<v>> \o rest) \o A
        BY <1>4, <1>12, <2>1, ConcatAssociative
    <2>6. order \o ((<<v>> \o rest) \o A) = (order \o (<<v>> \o rest)) \o A
        <3> DEFINE t == <<v>> \o rest
        <3>1. t \in Seq(Vertices)
            BY <2>3
        <3> HIDE DEF t
        <3>2. order \o (t \o A) = (order \o t) \o A
            BY <1>2, <1>12, <3>1, ConcatAssociative
        <3> QED BY <3>2 DEF t
    <2>7. Line' = (order \o (<<v>> \o rest)) \o A
        BY <2>4, <2>5, <2>6, Zenon
    <2> QED BY <1>1, <1>4, <2>3, <2>7 DEF Line
<1> HIDE DEF A
<1>14. \A w \in Vertices : w \in Freed(v) <=> w \in Adjacent(v) /\ indegree[w] = 1
    BY DEF Freed, Adjacent
<1>15. TypeOK'
    <2>1. indegree' \in [Ids -> Nat]
        <3>1. \A w \in Ids : w \in Adjacent(v) => w \in Vertices
            BY DEF Adjacent
        <3>2. \A w \in Ids : indegree[w] \in Nat
            BY <1>2
        <3>3. \A w \in Ids : w \in Adjacent(v) => indegree[w] - 1 \in Nat
            BY <1>10, <3>1
        <3> QED BY <1>1, <3>2, <3>3
    <2>2. cursor' \in 1 .. Len(order') + 1
        BY <1>1, <1>5, <1>8 DEF SortInv, TypeOK, running
    <2> QED BY <1>1, <1>2, <1>8, <1>13, <2>1, <2>2
            DEF SortInv, TypeOK, graph, running
<1>16. Sorting'
    <2>1. OneToOne(Line')
        <3>1. ASSUME NEW i \in DOMAIN Line, NEW j \in DOMAIN A, Line[i] = A[j]
              PROVE  FALSE
            <4>1. A[j] \in Vertices
                BY <1>12, LenProperties, ElementOfSeq
            <4>2. indegree[A[j]] = 0
                BY <1>2, <3>1, <4>1
            <4>3. A[j] \in Freed(v)
                BY <1>12, <4>1
            <4> QED BY <1>14, <4>1, <4>2, <4>3
        <3>2. OneToOne(Line \o A)
            BY <1>2, <1>5, <1>12, <3>1, ConcatOneToOne
        <3> QED BY <1>13, <3>2
    <2>2. ASSUME NEW w \in Vertices
          PROVE  indegree'[w] = Cardinality(Unsorted(w)')
        BY <1>2, <1>10, <1>11
    <2>3. ASSUME NEW w \in Vertices
          PROVE  indegree'[w] = 0 <=> \E i \in DOMAIN Line' : Line'[i] = w
        <3>1. (\E i \in DOMAIN Line' : Line'[i] = w) <=>
                  \/ \E i \in DOMAIN Line : Line[i] = w
                  \/ \E i \in DOMAIN A : A[i] = w
            <4>1. Line \in Seq(Vertices) /\ A \in Seq(Vertices)
                BY <1>5, <1>12
            <4>2. Range(Line \o A) = Range(Line) \cup Range(A)
                BY <4>1, RangeConcatenation
            <4>3. w \in Range(Line') <=> w \in Range(Line) \/ w \in Range(A)
                BY <1>13, <4>2
            <4> QED BY <4>3 DEF Range
        <3>2. (\E i \in DOMAIN Line' : Line'[i] = w) <=>
                  indegree[w] = 0 \/ (w \in Adjacent(v) /\ indegree[w] = 1)
            BY <1>2, <1>12, <1>14, <3>1
        <3>3. CASE w \in Adjacent(v)
            <4>1. indegree'[w] = 0 <=> indegree[w] = 1
                BY <1>10, <3>3
            <4>2. indegree[w] # 0
                BY <1>10, <3>3
            <4> QED BY <3>2, <3>3, <4>1, <4>2
        <3>4. CASE w \notin Adjacent(v)
            BY <1>11, <3>2, <3>4
        <3> QED BY <3>3, <3>4
    <2> QED BY <1>2, <2>1, <2>2, <2>3 DEF Sorting, OneToOne
<1>17. SortedByDependency'
    <2>1. ASSUME NEW j \in 1 .. Len(order) + 1, NEW i \in 1 .. Len(order) + 1,
                 order'[i] = order'[j]
          PROVE  i = j
        <3>1. \A k \in 1 .. Len(order) + 1 :
                  k \in DOMAIN Line /\ Line[k] = order'[k]
            <4> SUFFICES ASSUME NEW k \in 1 .. Len(order) + 1
                         PROVE  k \in DOMAIN Line /\ Line[k] = order'[k]
                OBVIOUS
            <4>1. CASE k = Len(order) + 1
                BY <1>5, <1>8, <4>1
            <4>2. CASE k # Len(order) + 1
                <5>1. k \in 1 .. Len(order)
                    BY <1>5, <4>2
                <5> QED BY <1>5, <1>8, <5>1
            <4> QED BY <4>1, <4>2
        <3> QED BY <1>2, <2>1, <3>1 DEF OneToOne
    <2>2. ASSUME NEW j \in 1 .. Len(order) + 1, NEW e \in edges, e[2] = order'[j]
          PROVE  \E i \in 1 .. j - 1 : order'[i] = e[1]
        <3>1. CASE j = Len(order) + 1
            <4>1. e[2] = v /\ e[1] \in Dependencies(v)
                <5>1. e[2] = v
                    BY <1>8, <2>2, <3>1
                <5>2. e \in Vertices \X Vertices
                    BY <2>2 DEF SortInv, TypeOK
                <5>3. e = <<e[1], e[2]>> /\ e[1] \in Vertices
                    BY <5>2
                <5> QED BY <2>2, <5>1, <5>3 DEF Dependencies
            <4>2. e[1] \in Sorted
                BY <1>7, <4>1 DEF Unsorted
            <4>3. PICK i \in DOMAIN order : order[i] = e[1]
                BY <4>2 DEF Sorted
            <4>4. i \in 1 .. j - 1 /\ order'[i] = e[1]
                BY <1>5, <1>8, <3>1, <4>3
            <4> QED BY <4>4
        <3>2. CASE j # Len(order) + 1
            <4>1. j \in 1 .. Len(order) /\ j \in DOMAIN order
                BY <1>5, <3>2
            <4>2. e[2] = order[j]
                BY <1>8, <2>2, <4>1
            <4>3. PICK i \in 1 .. j - 1 : order[i] = e[1]
                BY <1>2, <4>1, <4>2 DEF SortedByDependency
            <4>4. i \in 1 .. Len(order)
                BY <1>5, <4>1
            <4> QED BY <1>8, <4>3, <4>4
        <3> QED BY <3>1, <3>2
    <2> QED BY <1>2, <1>8, <2>1, <2>2 DEF SortedByDependency
<1>18. SortedOrRefused'
    BY <1>1, <1>17 DEF SortedOrRefused, CyclesAreRefused
<1>19. NotSorted' /\ NotRun' /\ AllRead' /\ SortEnds'
    BY <1>1 DEF SortInv, NotSorted, NotRun, AllRead, SortEnds, graph, running
<1> QED BY <1>1, <1>15, <1>16, <1>18, <1>19 DEF SortInv

LEMMA EndKeepsSort ==
    ASSUME SortInv, EndSort
    PROVE  SortInv' /\ phase' \in {"run", "cycle"}
<1>1. /\ phase = "sort" /\ queue = <<>>
      /\ phase' = IF Len(order) = size THEN "run" ELSE "cycle"
      /\ UNCHANGED <<graph, sorting, running>>
    BY DEF EndSort
<1>2. /\ size \in 1 .. MaxRequests /\ Vertices' = Vertices /\ edges' = edges
      /\ order \in Seq(Vertices) /\ Line = order /\ Line' = Line
      /\ OneToOne(order)
      /\ \A w \in Vertices : indegree[w] = Cardinality(Unsorted(w))
      /\ \A w \in Vertices : indegree[w] = 0 <=> w \in Sorted
      /\ SortedByDependency
      /\ \A w : Unsorted(w)' = Unsorted(w)
    <2>1. /\ size \in 1 .. MaxRequests /\ Vertices' = Vertices /\ edges' = edges
          /\ order \in Seq(Vertices) /\ SortedByDependency /\ Line' = Line
        BY <1>1 DEF SortInv, TypeOK, SortedOrRefused, graph, sorting, Line, Vertices
    <2>2. Line = order
        BY <1>1, <2>1, ConcatEmptySeq DEF Line
    <2>3. /\ OneToOne(Line)
          /\ \A w \in Vertices : indegree[w] = Cardinality(Unsorted(w))
          /\ \A w \in Vertices :
                indegree[w] = 0 <=> \E i \in DOMAIN Line : Line[i] = w
        BY <1>1 DEF SortInv, Sorting
    <2>4. \A w \in Vertices : indegree[w] = 0 <=> w \in Sorted
        BY <2>2, <2>3 DEF Sorted
    <2>5. \A w : Unsorted(w)' = Unsorted(w)
        BY <1>1, <2>1 DEF sorting, Unsorted, Sorted, Dependencies
    <2> QED BY <2>1, <2>2, <2>3, <2>4, <2>5
<1>3. Len(order) = size <=> \A w \in Vertices : w \in Sorted
    BY <1>2, WholeLine DEF Sorted
<1>4. ASSUME Len(order) # size
      PROVE  HasCycle'
    <2> DEFINE S == {w \in Vertices : w \notin Sorted}
    <2>1. S # {}
        BY <1>3, <1>4
    <2>2. ASSUME NEW w \in S
          PROVE  \E u \in S : <<u, w>> \in edges
        <3>1. Cardinality(Unsorted(w)) # 0
            BY <1>2, <2>2
        <3>2. Unsorted(w) # {}
            BY <3>1, FS_EmptySet
        <3>3. PICK u \in Unsorted(w) : TRUE
            BY <3>2
        <3> QED BY <3>3 DEF Unsorted, Dependencies
    <2>3. S \in (SUBSET Vertices) \ {{}}
        BY <2>1
    <2> HIDE DEF S
    <2> QED BY <1>2, <2>2, <2>3 DEF HasCycle
<1>5. ASSUME Len(order) = size, HasCycle
      PROVE  FALSE
    <2>1. PICK S \in (SUBSET Vertices) \ {{}} :
              \A w \in S : \E u \in S : <<u, w>> \in edges
        BY <1>5 DEF HasCycle
    <2> DEFINE P == {i \in DOMAIN order : order[i] \in S}
    <2>2. DOMAIN order = 1 .. Len(order) /\ Len(order) \in Nat
        BY <1>2, LenProperties
    <2>3. P # {}
        <3>1. PICK w \in S : w \in Sorted
            BY <1>3, <1>5, <2>1
        <3> QED BY <3>1 DEF Sorted
    <2>4. P \subseteq Nat
        BY <2>2
    <2>5. PICK j \in P : \A i \in P : j <= i
        <3> HIDE DEF P
        <3> QED BY <2>3, <2>4, LeastElement
    <2>6. PICK u \in S : <<u, order[j]>> \in edges
        BY <2>1
    <2>7. PICK i \in 1 .. j - 1 : order[i] = u
        BY <1>2, <2>6 DEF SortedByDependency
    <2>8. i \in P /\ i < j
        BY <2>2, <2>4, <2>6, <2>7
    <2>9. i \in Nat /\ j \in Nat
        BY <2>4, <2>8
    <2> QED BY <2>5, <2>8, <2>9
<1>6. HasCycle' <=> HasCycle
    BY <1>2 DEF HasCycle
<1>7. SortedOrRefused'
    <2>1. SortedByDependency'
        BY <1>1, <1>2 DEF SortedByDependency, sorting
    <2> QED BY <1>1, <1>4, <1>5, <1>6, <2>1 DEF SortedOrRefused, CyclesAreRefused
<1>8. TypeOK'
    BY <1>1, <1>2 DEF SortInv, TypeOK, Phases, Ends, graph, sorting, running
<1>9. Sorting'
    BY <1>1, <1>2 DEF SortInv, Sorting, sorting
<1>10. /\ NotSorted' /\ NotRun' /\ AllRead' /\ SortEnds'
       /\ phase' \in {"run", "cycle"}
    BY <1>1 DEF SortInv, NotSorted, NotRun, AllRead, SortEnds, graph, sorting, running
<1> QED BY <1>7, <1>8, <1>9, <1>10 DEF SortInv

-----------------------------------------------------------------------------
(* on_post                                                                 *)

\* Before the loop there is nothing to be said.
LEMMA StartOfRun ==
    ASSUME SortInv', cursor' = 1, processed' = {}, phase' # "done"
    PROVE  RunInv'
<1>1. executed' = {}
    BY DEF SortInv, TypeOK
<1>2. PassedIsProcessed'
    BY DEF PassedIsProcessed
<1> QED BY <1>1, <1>2 DEF RunInv, ProcessedIsAnswered, DoneHasPassed,
                DependentsAreProcessed, SucceededDirectly

\* The vertex a round is about, when it has an entry.
LEMMA CurrentVertex ==
    ASSUME SortInv, phase = "run", cursor <= Len(order)
    PROVE  /\ size \in 1 .. MaxRequests /\ order \in Seq(Vertices)
           /\ cursor \in Nat /\ cursor > 0
           /\ cursor + 1 \in 1 .. Len(order) + 1
           /\ order[cursor] \in Vertices /\ order[cursor] \in Ids
           /\ \A u \in Adjacent(order[cursor]) : u \in Vertices /\ u \in Ids
           /\ \A e \in edges :
                 e[2] = order[cursor] =>
                     \E i \in 1 .. cursor - 1 : order[i] = e[1]
<1>1. /\ size \in 1 .. MaxRequests /\ order \in Seq(Vertices)
      /\ cursor \in 1 .. Len(order) + 1 /\ SortedByDependency
    BY DEF SortInv, TypeOK, SortedOrRefused
<1>2. Len(order) \in Nat /\ DOMAIN order = 1 .. Len(order)
    BY <1>1, LenProperties
<1>3. /\ cursor \in 1 .. Len(order) /\ cursor + 1 \in 1 .. Len(order) + 1
      /\ cursor \in Nat /\ cursor > 0
    BY <1>1, <1>2
<1>4. order[cursor] \in Vertices
    BY <1>1, <1>3, ElementOfSeq
<1>5. Vertices \subseteq Ids
    BY <1>1, VerticesFinite
<1>6. \A u \in Adjacent(order[cursor]) : u \in Vertices /\ u \in Ids
    BY <1>5 DEF Adjacent
<1> QED BY <1>1, <1>2, <1>3, <1>4, <1>5, <1>6 DEF SortedByDependency

\* A vertex about to be executed has only dependencies that succeeded.
LEMMA DependenciesSucceeded ==
    ASSUME SortInv, RunInv, phase = "run", cursor <= Len(order),
           order[cursor] \notin processed
    PROVE  \A e \in edges :
               e[2] = order[cursor] =>
                   /\ e[1] \in processed
                   /\ order[cursor] # 0 => e[1] \in executed /\ e[1] \notin failed
<1> SUFFICES ASSUME NEW e \in edges, e[2] = order[cursor]
             PROVE  /\ e[1] \in processed
                    /\ order[cursor] # 0 => e[1] \in executed /\ e[1] \notin failed
    OBVIOUS
<1>1. PICK i \in 1 .. cursor - 1 : order[i] = e[1]
    BY CurrentVertex
<1>2. e[1] \in processed
    BY <1>1 DEF RunInv, PassedIsProcessed
<1>3. order[cursor] \in Adjacent(e[1])
    <2>1. e \in Vertices \X Vertices
        BY DEF SortInv, TypeOK
    <2>2. e = <<e[1], e[2]>> /\ e[2] \in Vertices
        BY <2>1
    <2>3. <<e[1], order[cursor]>> \in edges
        BY <2>2
    <2> QED BY <2>2, <2>3 DEF Adjacent
<1>4. ASSUME order[cursor] # 0
      PROVE  e[1] \in executed /\ e[1] \notin failed
    BY <1>2, <1>3, <1>4 DEF RunInv, DependentsAreProcessed
<1> QED BY <1>2, <1>4

LEMMA CrashKeeps ==
    ASSUME BatchInv, Crash
    PROVE  BatchInv'
<1> USE DEF BatchInv, Crash, running
<1>1. TypeOK'
    BY DEF SortInv, TypeOK, Phases, Ends, graph, sorting, Vertices
<1>2. SortInv'
    BY <1>1, SortedStays
<1>3. RunInv'
    BY DEF RunInv, PassedIsProcessed, ProcessedIsAnswered, DoneHasPassed,
           DependentsAreProcessed, SucceededDirectly, graph, sorting, Vertices,
           Adjacent
<1> QED BY <1>2, <1>3

LEMMA RespondKeeps ==
    ASSUME BatchInv, Respond
    PROVE  BatchInv'
<1> USE DEF BatchInv, Respond, running
<1>1. TypeOK'
    BY DEF SortInv, TypeOK, Phases, Ends, graph, sorting, Vertices
<1>2. SortInv'
    BY <1>1, SortedStays
<1>3. cursor = Len(order) + 1
    <2>1. Len(order) \in Nat /\ cursor \in 1 .. Len(order) + 1
        BY LenProperties DEF SortInv, TypeOK
    <2> QED BY <2>1
<1>4. DoneHasPassed'
    BY <1>3 DEF DoneHasPassed, sorting
<1>5. RunInv'
    BY <1>4 DEF RunInv, PassedIsProcessed, ProcessedIsAnswered,
           DependentsAreProcessed, SucceededDirectly, graph, sorting, Vertices,
           Adjacent
<1> QED BY <1>2, <1>5

LEMMA SkipKeeps ==
    ASSUME BatchInv, Skip
    PROVE  BatchInv'
<1> USE DEF BatchInv, Skip
<1>1. cursor + 1 \in 1 .. Len(order) + 1 /\ cursor \in Nat
    BY CurrentVertex
<1>2. TypeOK'
    BY <1>1 DEF SortInv, TypeOK, graph, sorting, Vertices
<1>3. SortInv'
    BY <1>2, SortedStays
<1>4. PassedIsProcessed'
    <2>1. \A i \in 1 .. cursor' - 1 : i = cursor \/ i \in 1 .. cursor - 1
        BY <1>1
    <2> QED BY <2>1 DEF RunInv, PassedIsProcessed, graph, sorting
<1>5. RunInv'
    BY <1>4 DEF RunInv, ProcessedIsAnswered, DoneHasPassed,
           DependentsAreProcessed, SucceededDirectly, graph, Vertices, Adjacent
<1> QED BY <1>3, <1>5

LEMMA SucceedKeeps ==
    ASSUME BatchInv, Succeed
    PROVE  BatchInv'
<1> DEFINE v == order[cursor]
<1>1. /\ phase = "run" /\ phase' = "run" /\ cursor <= Len(order)
      /\ v \in requests /\ v \notin processed
      /\ processed' = processed \cup {v}
      /\ executed' = executed \cup {v}
      /\ failed' = failed
      /\ answers' = [answers EXCEPT ![v] = @ + 1]
      /\ cursor' = cursor + 1
      /\ UNCHANGED <<graph, sorting>>
    BY DEF Succeed, Unprocessed
<1>2. /\ cursor \in Nat /\ cursor + 1 \in 1 .. Len(order) + 1
      /\ v \in Vertices /\ v \in Ids /\ answers \in [Ids -> Nat]
      /\ executed \subseteq processed /\ failed \subseteq executed
      /\ \A e \in edges : e[2] = v /\ v # 0 => e[1] \in executed /\ e[1] \notin failed
    BY <1>1, CurrentVertex, DependenciesSucceeded DEF BatchInv, SortInv, TypeOK
<1> HIDE DEF v
<1>3. answers' \in [Ids -> Nat] /\ answers'[v] > 0
      /\ \A w \in Ids : w # v => answers'[w] = answers[w]
    BY <1>1, <1>2
<1>4. TypeOK'
    BY <1>1, <1>2, <1>3 DEF BatchInv, SortInv, TypeOK, graph, sorting, Vertices, Ids
<1>5. SortInv'
    BY <1>1, <1>4, SortedStays DEF BatchInv
<1>6. PassedIsProcessed'
    <2>1. \A i \in 1 .. cursor' - 1 : i = cursor \/ i \in 1 .. cursor - 1
        BY <1>1, <1>2
    <2>2. order' = order /\ requests' = requests
        BY <1>1 DEF graph, sorting
    <2> QED BY <1>1, <2>1, <2>2 DEF BatchInv, RunInv, PassedIsProcessed, v
<1>7. ProcessedIsAnswered'
    <2>1. Vertices' = Vertices
        BY <1>1 DEF graph, Vertices
    <2>2. \A w \in processed : w \in Vertices /\ w \in Ids /\ answers[w] > 0
        BY <1>1 DEF BatchInv, SortInv, TypeOK, RunInv, ProcessedIsAnswered
    <2> QED BY <1>1, <1>2, <1>3, <2>1, <2>2 DEF ProcessedIsAnswered
<1>8. DependentsAreProcessed'
    <2>1. \A u : Adjacent(u)' = Adjacent(u)
        BY <1>1 DEF graph, Vertices, Adjacent
    <2> QED BY <1>1, <1>2, <2>1 DEF BatchInv, RunInv, DependentsAreProcessed
<1>9. SucceededDirectly'
    BY <1>1, <1>2 DEF BatchInv, RunInv, SucceededDirectly, graph
<1>10. DoneHasPassed'
    BY <1>1 DEF DoneHasPassed
<1> QED BY <1>5, <1>6, <1>7, <1>8, <1>9, <1>10 DEF BatchInv, RunInv

LEMMA CrashOnBodyKeeps ==
    ASSUME BatchInv, CrashOnBody
    PROVE  BatchInv'
<1> DEFINE v == order[cursor]
<1>1. /\ phase = "run" /\ phase' = "crashed" /\ cursor <= Len(order)
      /\ v \in requests /\ v \notin processed
      /\ processed' = processed \cup {v}
      /\ executed' = executed \cup {v}
      /\ UNCHANGED <<graph, sorting, cursor, failed, answers>>
    BY DEF CrashOnBody, Unprocessed
<1>2. /\ v \in Vertices /\ v \in Ids
      /\ executed \subseteq processed /\ failed \subseteq executed
      /\ \A e \in edges : e[2] = v /\ v # 0 => e[1] \in executed /\ e[1] \notin failed
    BY <1>1, CurrentVertex, DependenciesSucceeded DEF BatchInv, SortInv, TypeOK
<1> HIDE DEF v
<1>3. TypeOK'
    BY <1>1, <1>2
       DEF BatchInv, SortInv, TypeOK, graph, sorting, Vertices, Ids, Phases, Ends
<1>4. SortInv'
    BY <1>1, <1>3, SortedStays DEF BatchInv
<1>5. PassedIsProcessed' /\ DoneHasPassed'
    BY <1>1 DEF BatchInv, RunInv, PassedIsProcessed, DoneHasPassed, graph, sorting
<1>6. ProcessedIsAnswered'
    BY <1>1, <1>2 DEF BatchInv, RunInv, ProcessedIsAnswered, graph, Vertices
<1>7. DependentsAreProcessed'
    <2>1. \A u : Adjacent(u)' = Adjacent(u)
        BY <1>1 DEF graph, Vertices, Adjacent
    <2> QED BY <1>1, <1>2, <2>1 DEF BatchInv, RunInv, DependentsAreProcessed
<1>8. SucceededDirectly'
    BY <1>1, <1>2 DEF BatchInv, RunInv, SucceededDirectly, graph
<1> QED BY <1>4, <1>5, <1>6, <1>7, <1>8 DEF BatchInv, RunInv

\* get_vertices_chain(v) is closed: it has the dependents of v and, of each of
\* its members, the dependents of that one.
LEMMA ChainIsClosed ==
    ASSUME NEW v \in Vertices
    PROVE  /\ \A w \in Adjacent(v) \ {0} : <<v, w>> \in Chain(v)
           /\ \A p \in Chain(v) :
                 /\ p[2] \in Vertices
                 /\ \A w \in Adjacent(p[2]) \ {0} : <<p[2], w>> \in Chain(v)
<1>1. v \in Reached(v)
    BY DEF Reached
<1>2. \A u \in Reached(v) : \A w \in Adjacent(u) \ {0} : w \in Reached(v)
    BY DEF Reached, Adjacent
<1>3. \A u \in Reached(v) : \A w \in Adjacent(u) \ {0} : <<u, w>> \in Chain(v)
    BY DEF Chain, Adjacent
<1>4. \A p \in Chain(v) : p[2] \in Reached(v) /\ p[2] \in Vertices
    BY <1>2 DEF Chain
<1> QED BY <1>1, <1>3, <1>4

LEMMA FailedDependencyCounts ==
    ASSUME size \in 1 .. MaxRequests, NEW v
    PROVE  /\ \A w : FailedDependency(v, w) \in Nat
           /\ \A p \in Chain(v) : FailedDependency(v, p[2]) > 0
<1>1. IsFiniteSet(Chain(v))
    <2>1. IsFiniteSet(Vertices \X Vertices)
        BY VerticesFinite, FS_Product
    <2>2. Chain(v) \subseteq Vertices \X Vertices
        BY DEF Chain, Reached
    <2> QED BY <2>1, <2>2, FS_Subset
<1>2. \A w : IsFiniteSet({p \in Chain(v) : p[2] = w})
    <2> SUFFICES ASSUME NEW w
                 PROVE  IsFiniteSet({p \in Chain(v) : p[2] = w})
        OBVIOUS
    <2>1. {p \in Chain(v) : p[2] = w} \subseteq Chain(v)
        OBVIOUS
    <2> QED BY <1>1, <2>1, FS_Subset
<1>3. \A w : FailedDependency(v, w) \in Nat
    BY <1>2, FS_CardinalityType DEF FailedDependency
<1>4. ASSUME NEW p \in Chain(v)
      PROVE  FailedDependency(v, p[2]) # 0
    <2>1. p \in {q \in Chain(v) : q[2] = p[2]}
        OBVIOUS
    <2> QED BY <1>2, <2>1, FS_EmptySet DEF FailedDependency
<1> QED BY <1>3, <1>4

LEMMA FailKeeps ==
    ASSUME BatchInv, Fail
    PROVE  BatchInv'
<1> DEFINE v == order[cursor]
           dependents == {p[2] : p \in Chain(v)}
<1>1. /\ phase = "run" /\ phase' = "run" /\ cursor <= Len(order)
      /\ v \in requests /\ v \notin processed
      /\ processed' = processed \cup {v} \cup dependents
      /\ executed' = executed \cup {v}
      /\ failed' = failed \cup {v}
      /\ answers' = [w \in Ids |-> answers[w] + FailedDependency(v, w)
                                     + IF w = v THEN 1 ELSE 0]
      /\ cursor' = cursor + 1
      /\ UNCHANGED <<graph, sorting>>
    BY DEF Fail, Unprocessed
<1>2. /\ cursor \in Nat /\ cursor + 1 \in 1 .. Len(order) + 1
      /\ v \in Vertices /\ v \in Ids /\ answers \in [Ids -> Nat]
      /\ executed \subseteq processed /\ failed \subseteq executed
      /\ size \in 1 .. MaxRequests
    BY <1>1, CurrentVertex DEF BatchInv, SortInv, TypeOK
<1>3. \A e \in edges :
          e[2] = v =>
              /\ e[1] \in processed
              /\ v # 0 => e[1] \in executed /\ e[1] \notin failed
    BY <1>1, DependenciesSucceeded DEF BatchInv
<1> HIDE DEF v
<1>4. /\ \A w \in dependents : w \in Vertices /\ FailedDependency(v, w) > 0
      /\ \A w \in Adjacent(v) \ {0} : w \in dependents
      /\ \A u \in dependents : \A w \in Adjacent(u) \ {0} : w \in dependents
      /\ \A w : FailedDependency(v, w) \in Nat
    <2>1. /\ \A w : FailedDependency(v, w) \in Nat
          /\ \A p \in Chain(v) : FailedDependency(v, p[2]) > 0
        BY <1>2, FailedDependencyCounts
    <2>2. /\ \A w \in Adjacent(v) \ {0} : <<v, w>> \in Chain(v)
          /\ \A p \in Chain(v) :
                /\ p[2] \in Vertices
                /\ \A w \in Adjacent(p[2]) \ {0} : <<p[2], w>> \in Chain(v)
        BY <1>2, ChainIsClosed
    <2>3. \A u, w : <<u, w>> \in Chain(v) => w \in dependents
        OBVIOUS
    <2> QED BY <2>1, <2>2, <2>3
<1> HIDE DEF dependents
<1>5. Vertices \subseteq Ids
    BY <1>2, VerticesFinite
<1>6. /\ answers' \in [Ids -> Nat]
      /\ \A w \in Ids : answers'[w] = answers[w] + FailedDependency(v, w)
                                        + IF w = v THEN 1 ELSE 0
    <2>1. \A w \in Ids : answers[w] \in Nat /\ FailedDependency(v, w) \in Nat
        BY <1>2, <1>4
    <2>2. \A w \in Ids : answers[w] + FailedDependency(v, w)
                             + (IF w = v THEN 1 ELSE 0) \in Nat
        BY <2>1
    <2> QED BY <1>1, <2>2
<1>7. TypeOK'
    <2>1. processed' \subseteq Ids
        BY <1>1, <1>2, <1>4, <1>5 DEF BatchInv, SortInv, TypeOK
    <2>2. Vertices' = Vertices /\ Ids' = Ids
        BY <1>1 DEF graph, Vertices, Ids
    <2> QED BY <1>1, <1>2, <1>6, <2>1, <2>2
            DEF BatchInv, SortInv, TypeOK, graph, sorting
<1>8. SortInv'
    BY <1>1, <1>7, SortedStays DEF BatchInv
<1>9. PassedIsProcessed'
    <2>1. \A i \in 1 .. cursor' - 1 : i = cursor \/ i \in 1 .. cursor - 1
        BY <1>1, <1>2
    <2>2. order' = order /\ requests' = requests
        BY <1>1 DEF graph, sorting
    <2> QED BY <1>1, <2>1, <2>2 DEF BatchInv, RunInv, PassedIsProcessed, v
<1>10. ProcessedIsAnswered'
    <2> SUFFICES ASSUME NEW w \in processed'
                 PROVE  w \in Vertices /\ answers'[w] > 0
        BY <1>1 DEF ProcessedIsAnswered, graph, Vertices
    <2>1. w \in Vertices /\ (answers[w] > 0 \/ w = v \/ FailedDependency(v, w) > 0)
        BY <1>1, <1>2, <1>4 DEF BatchInv, RunInv, ProcessedIsAnswered
    <2>2. w \in Ids /\ answers[w] \in Nat /\ FailedDependency(v, w) \in Nat
        BY <1>2, <1>4, <1>5, <2>1
    <2> QED BY <1>6, <2>1, <2>2
<1>11. DependentsAreProcessed'
    <2>1. \A u : Adjacent(u)' = Adjacent(u)
        BY <1>1 DEF graph, Vertices, Adjacent
    <2> SUFFICES ASSUME NEW u \in processed', u \notin executed' \/ u \in failed',
                        NEW w \in Adjacent(u) \ {0}
                 PROVE  w \in processed'
        BY <2>1 DEF DependentsAreProcessed
    <2>2. CASE u = v \/ u \in dependents
        BY <1>1, <1>4, <2>2
    <2>3. CASE u # v /\ u \notin dependents
        <3>1. u \in processed /\ (u \notin executed \/ u \in failed)
            BY <1>1, <2>3
        <3>2. w \in processed
            BY <3>1 DEF BatchInv, RunInv, DependentsAreProcessed
        <3> QED BY <1>1, <3>2
    <2> QED BY <2>2, <2>3
<1>12. SucceededDirectly'
    <2> SUFFICES ASSUME NEW e \in edges, e[2] \in executed', e[2] # 0
                 PROVE  e[1] \in executed' /\ e[1] \notin failed'
        BY <1>1 DEF SucceededDirectly, graph
    <2>1. e[1] \in executed /\ e[1] \notin failed
        BY <1>1, <1>3 DEF BatchInv, RunInv, SucceededDirectly
    <2>2. e[1] # v
        BY <1>1, <1>2, <2>1
    <2> QED BY <1>1, <2>1, <2>2
<1>13. DoneHasPassed'
    BY <1>1 DEF DoneHasPassed
<1> QED BY <1>8, <1>9, <1>10, <1>11, <1>12, <1>13 DEF BatchInv, RunInv

-----------------------------------------------------------------------------
(* The theorems                                                            *)

LEMMA BatchStep == BatchInv /\ [Next]_vars => BatchInv'
<1> SUFFICES ASSUME BatchInv, [Next]_vars
             PROVE  BatchInv'
    OBVIOUS
\* Up to the end of the sort the loop has not begun.
<1>1. ASSUME SortInv', phase \in {"read", "sort"}, UNCHANGED running, phase' # "done"
      PROVE  BatchInv'
    <2>1. cursor' = 1 /\ processed' = {}
        BY <1>1 DEF BatchInv, SortInv, NotRun, running
    <2> QED BY <1>1, <2>1, StartOfRun DEF BatchInv
<1>2. ASSUME NEW v \in 0 .. MaxRequests + 1, NEW D \in SUBSET Vertices,
             ReadRequest(v, D)
      PROVE  BatchInv'
    <2>1. SortInv' /\ phase' # "done"
        BY <1>2, ReadKeepsSort DEF BatchInv
    <2> QED BY <1>1, <1>2, <2>1 DEF ReadRequest
<1>3. CASE RefuseDependency
    <2>1. SortInv' /\ phase' # "done"
        BY <1>3, RefuseKeepsSort DEF BatchInv
    <2> QED BY <1>1, <1>3, <2>1 DEF RefuseDependency
<1>4. CASE StartSort
    <2>1. SortInv' /\ phase' # "done"
        BY <1>4, StartKeepsSort DEF BatchInv
    <2> QED BY <1>1, <1>4, <2>1 DEF StartSort
<1>5. CASE SortVertex
    <2>1. SortInv' /\ phase' # "done"
        BY <1>5, SortVertexKeepsSort DEF BatchInv
    <2> QED BY <1>1, <1>5, <2>1 DEF SortVertex
<1>6. CASE EndSort
    <2>1. SortInv' /\ phase' # "done"
        BY <1>6, EndKeepsSort DEF BatchInv
    <2> QED BY <1>1, <1>6, <2>1 DEF EndSort
<1>7. CASE UNCHANGED vars
    <2> USE <1>7 DEF vars, graph, sorting, running
    <2>1. /\ Line' = Line /\ Vertices' = Vertices
          /\ \A w : Unsorted(w)' = Unsorted(w) /\ Adjacent(w)' = Adjacent(w)
        BY DEF Line, Vertices, Unsorted, Dependencies, Sorted, Adjacent
    <2>2. TypeOK'
        BY <2>1 DEF BatchInv, SortInv, TypeOK
    <2>3. NotSorted' /\ NotRun' /\ AllRead' /\ SortEnds'
        BY DEF BatchInv, SortInv, NotSorted, NotRun, AllRead, SortEnds
    <2>4. Sorting'
        BY <2>1 DEF BatchInv, SortInv, Sorting
    <2>5. SortedOrRefused'
        BY <2>1 DEF BatchInv, SortInv, SortedOrRefused, SortedByDependency,
                    CyclesAreRefused, HasCycle
    <2>6. RunInv'
        BY <2>1 DEF BatchInv, RunInv, PassedIsProcessed, ProcessedIsAnswered,
                    DoneHasPassed, DependentsAreProcessed, SucceededDirectly
    <2> QED BY <2>2, <2>3, <2>4, <2>5, <2>6 DEF BatchInv, SortInv
<1> QED BY <1>2, <1>3, <1>4, <1>5, <1>6, <1>7, CrashKeeps, SkipKeeps, SucceedKeeps,
           CrashOnBodyKeeps, FailKeeps, RespondKeeps DEF Next

\* The inductive invariant holds in every behaviour.
THEOREM InvariantHolds == Spec => []BatchInv
<1>1. Init => BatchInv
    <2> SUFFICES ASSUME Init
                 PROVE  BatchInv
        OBVIOUS
    <2>1. RunInv
        BY DEF Init, RunInv, PassedIsProcessed, ProcessedIsAnswered, DoneHasPassed,
               DependentsAreProcessed, SucceededDirectly
    <2> QED BY <2>1, SortInitial DEF BatchInv
<1> QED BY <1>1, BatchStep, PTL DEF Spec

\* Every variable of a batch keeps its type.
THEOREM TypeCorrect == Spec => []TypeOK
<1>1. BatchInv => TypeOK
    BY DEF BatchInv, SortInv
<1> QED BY <1>1, InvariantHolds, PTL

\* A batch of any size is sorted by its dependencies, or refused for a cycle
\* that is really there.
THEOREM BatchIsSorted == Spec => []SortedOrRefused
<1>1. BatchInv => SortedOrRefused
    BY DEF BatchInv, SortInv
<1> QED BY <1>1, InvariantHolds, PTL

\* What depends on a request that failed, however many dependencies other than
\* vertex 0 lie between, is not executed, in however large a batch: what was
\* executed and succeeded is a set that Needed is the least of.
THEOREM FailureIsPassedOn == Spec => []ExecutedAfterSuccess
<1>1. BatchInv => ExecutedAfterSuccess
    <2> SUFFICES ASSUME BatchInv, NEW w \in executed \ {0}
                 PROVE  Needed(w) \subseteq executed \ failed
        BY DEF ExecutedAfterSuccess
    <2> DEFINE S == executed \ failed
    <2>1. S \in SUBSET Vertices
        BY DEF BatchInv, SortInv, TypeOK, RunInv, ProcessedIsAnswered
    <2>2. \A e \in edges : e[2] \in {w} \cup (S \ {0}) => e[1] \in S
        BY DEF BatchInv, RunInv, SucceededDirectly
    <2> HIDE DEF S
    <2>3. Needed(w) \subseteq S
        BY <2>1, <2>2 DEF Needed
    <2> QED BY <2>3 DEF S
<1> QED BY <1>1, InvariantHolds, PTL

\* A batch that is answered has an answer to each of its requests: the loop has
\* passed a line that has every vertex, and the requests are the vertices, for
\* there are as many of them.
THEOREM BatchIsAnswered == Spec => []EveryoneIsAnswered
<1>1. BatchInv => EveryoneIsAnswered
    <2> SUFFICES ASSUME BatchInv, phase = "done"
                 PROVE  \A v \in requests : answers[v] > 0
        BY DEF EveryoneIsAnswered
    <2>1. /\ size \in 1 .. MaxRequests /\ order \in Seq(Vertices)
          /\ requests \subseteq 0 .. size /\ Cardinality(requests) = size - unread
          /\ unread = 0 /\ Len(order) = size /\ queue = <<>>
          /\ cursor = Len(order) + 1
        BY DEF BatchInv, SortInv, TypeOK, AllRead, SortEnds, RunInv, DoneHasPassed
    <2>2. size \in Nat /\ DOMAIN order = 1 .. size
        BY <2>1, MaxRequestsAssumption, LenProperties
    <2>3. OneToOne(order)
        <3>1. Line = order
            BY <2>1, ConcatEmptySeq DEF Line
        <3> QED BY <3>1 DEF BatchInv, SortInv, Sorting
    <2>4. \A v \in Vertices : v \in requests /\ v \in processed
        <3>1. \A i \in DOMAIN order : order[i] \in requests /\ order[i] \in processed
            BY <2>1, <2>2 DEF BatchInv, RunInv, PassedIsProcessed
        <3> QED BY <2>1, <2>3, <3>1, WholeLine
    <2>5. requests = Vertices
        <3>1. IsFiniteSet(0 .. size)
            BY <2>2, FS_Interval
        <3>2. IsFiniteSet(requests)
            BY <2>1, <3>1, FS_Subset
        <3>3. Cardinality(requests) = Cardinality(Vertices)
            BY <2>1, <2>2, VerticesFinite
        <3> QED BY <2>4, <3>2, <3>3, FS_Subset
    <2> QED BY <2>4, <2>5 DEF BatchInv, RunInv, ProcessedIsAnswered
<1> QED BY <1>1, InvariantHolds, PTL

=============================================================================
