---------------------------- MODULE PagingProofs ----------------------------
(***************************************************************************)
(* Proofs about Paging, for any items, page sizes and number of pages: the *)
(* pages of a list at rest are the list, rows that arrive hide none of it, *)
(* and a client that follows the links of a paged list comes to an end.    *)
(***************************************************************************)
EXTENDS Paging, FiniteSetTheorems, SequenceTheorems, TLAPS

\* A client goes on with the list and the options it started with. Only the
\* links of the LDAP backend drop some.
SameQuery ==
    /\ query.listing = first.listing
    /\ first.listing # "ldapUsers" => query.top = first.top
    /\ first.listing # "ldapUsers" \/ first.option = "none" => query.option = first.option

\* No page is longer than this.
Longest ==
    IF first.listing = "ldapUsers" /\ first.top < DEFAULT_TOP THEN DEFAULT_TOP ELSE first.top

PagesAreShort == Paged => query.top <= Longest /\ Len(got) <= pages * Longest

\* Every page moves the client on by a row at least, and there is a page after
\* the last one only if that one was not past all rows.
PagesMoveOn ==
    Paged => /\ pages <= query.skip
             /\ pc = "asked" /\ pages > 0 => pages <= Cardinality(Items)

Beginning ==
    pc = "idle" => query.skip = 0 /\ got = <<>> /\ disturbed = "no"

\* What the client has of a list at rest.
UpTo(rows, n) == SubSeq(rows, 1, IF n < Len(rows) THEN n ELSE Len(rows))

ListIsPassed ==
    Paged /\ ~cut /\ disturbed = "no" =>
        /\ pc \in {"idle", "asked"} => got = UpTo(Listed, query.skip)
        /\ pc = "done" => got = Listed

\* Rows only move away from the client as long as none leaves.
StayedAreThere == disturbed # "shrunk" => stayed \subseteq Range(table)

NoneIsHidden ==
    Paged /\ ~cut /\ disturbed # "shrunk" =>
        \A n \in 1 .. Len(Listed) :
            Listed[n] \in stayed /\ (pc = "done" \/ (pc = "asked" /\ n <= query.skip)) =>
                Listed[n] \in Range(got)

PagingInv ==
    /\ TypeOK
    /\ SameQuery
    /\ PagesAreShort
    /\ PagesMoveOn
    /\ Beginning
    /\ ListIsPassed
    /\ StayedAreThere
    /\ NoneIsHidden
    /\ PagingEnds

-----------------------------------------------------------------------------
(* Positions and the rows at them                                          *)

\* The members of a finite set of numbers are counted 1, 2, 3, ... from below.
LEMMA Ranks ==
    ASSUME NEW P, P \subseteq Nat, IsFiniteSet(P)
    PROVE  /\ Cardinality(P) \in Nat
           /\ \A n \in P : Rank(P, n) \in 1 .. Cardinality(P)
           /\ \A m, n \in P : m < n => Rank(P, m) < Rank(P, n)
           /\ \A k \in 1 .. Cardinality(P) : \E n \in P : Rank(P, n) = k
<1> DEFINE c == Cardinality(P)
           upTo(n) == {m \in P : m <= n}
           rank == [n \in P |-> Rank(P, n)]
<1>1. c \in Nat
    BY FS_CardinalityType
<1>2. ASSUME NEW n \in P
      PROVE  IsFiniteSet(upTo(n)) /\ Cardinality(upTo(n)) \in 1 .. c
    <2>1. upTo(n) \subseteq P /\ n \in upTo(n)
        OBVIOUS
    <2> HIDE DEF upTo
    <2>2. IsFiniteSet(upTo(n)) /\ Cardinality(upTo(n)) <= c
        BY <2>1, FS_Subset
    <2>3. Cardinality(upTo(n)) \in Nat /\ Cardinality(upTo(n)) # 0
        BY <2>1, <2>2, FS_CardinalityType, FS_EmptySet
    <2> QED BY <1>1, <2>2, <2>3
<1>3. ASSUME NEW m \in P, NEW n \in P, m < n
      PROVE  Cardinality(upTo(m)) < Cardinality(upTo(n))
    <2>1. upTo(m) \subseteq upTo(n)
        <3> SUFFICES ASSUME NEW k \in P, k <= m
                     PROVE  k <= n
            OBVIOUS
        <3>1. k \in Nat /\ m \in Nat /\ n \in Nat
            OBVIOUS
        <3> QED BY <1>3, <3>1
    <2>2. n \in upTo(n) /\ n \notin upTo(m)
        <3>1. m \in Nat /\ n \in Nat
            OBVIOUS
        <3> QED BY <1>3, <3>1
    <2>3. /\ IsFiniteSet(upTo(n))
          /\ Cardinality(upTo(m)) \in Nat /\ Cardinality(upTo(n)) \in Nat
        BY <1>1, <1>2
    <2> HIDE DEF upTo
    <2>4. /\ Cardinality(upTo(m)) <= Cardinality(upTo(n))
          /\ Cardinality(upTo(m)) # Cardinality(upTo(n))
        BY <2>1, <2>2, <2>3, FS_Subset
    <2> QED BY <2>3, <2>4
<1>4. \A n \in P : Rank(P, n) = Cardinality(upTo(n))
    BY DEF Rank
<1>5. \A n \in P : Rank(P, n) \in 1 .. c
    BY <1>2, <1>4, Zenon
<1>6. \A m, n \in P : m < n => Rank(P, m) < Rank(P, n)
    <2> SUFFICES ASSUME NEW m \in P, NEW n \in P, m < n
                 PROVE  Rank(P, m) < Rank(P, n)
        OBVIOUS
    <2>1. Cardinality(upTo(m)) < Cardinality(upTo(n))
        BY <1>3, Zenon
    <2> QED BY <1>4, <2>1, Zenon
<1> HIDE DEF upTo
<1>7. rank \in Injection(P, 1 .. c)
    <2>1. rank \in [P -> 1 .. c] /\ \A n \in P : rank[n] = Rank(P, n)
        BY <1>5
    <2>2. ASSUME NEW m \in P, NEW n \in P, rank[m] = rank[n]
          PROVE  m = n
        <3>1. m \in Nat /\ n \in Nat /\ Rank(P, m) \in Nat /\ Rank(P, m) = Rank(P, n)
            BY <1>1, <1>5, <2>1, <2>2
        <3> QED BY <1>6, <3>1
    <2> HIDE DEF rank
    <2> QED BY <2>1, <2>2 DEF Injection, IsInjective
<1>8. rank \in Surjection(P, 1 .. c)
    <2>1. IsFiniteSet(1 .. c) /\ Cardinality(1 .. c) = c
        BY <1>1, FS_Interval
    <2> HIDE DEF rank
    <2> QED BY <1>7, <2>1, FS_Injection
<1>9. \A k \in 1 .. c : \E n \in P : Rank(P, n) = k
    <2>1. \A n \in P : rank[n] = Rank(P, n)
        OBVIOUS
    <2> HIDE DEF rank
    <2> QED BY <1>8, <2>1 DEF Surjection
<1> QED BY <1>1, <1>5, <1>6, <1>9

\* The first of them is the least.
LEMMA Least ==
    ASSUME NEW P, P \subseteq Nat, IsFiniteSet(P), P # {}
    PROVE  \E n \in P : \A m \in P : n <= m
<1>1. Cardinality(P) \in Nat /\ Cardinality(P) # 0
    BY FS_CardinalityType, FS_EmptySet
<1>2. PICK n \in P : Rank(P, n) = 1
    <2>1. 1 \in 1 .. Cardinality(P)
        BY <1>1
    <2>2. \A k \in 1 .. Cardinality(P) : \E n \in P : Rank(P, n) = k
        BY Ranks
    <2> QED BY <2>1, <2>2
<1>3. ASSUME NEW m \in P
      PROVE  n <= m
    <2>1. Rank(P, m) \in 1 .. Cardinality(P) /\ (m < n => Rank(P, m) < Rank(P, n))
        BY Ranks
    <2>2. m \in Nat /\ n \in Nat
        OBVIOUS
    <2> QED BY <1>1, <1>2, <2>1, <2>2
<1> QED BY <1>3

\* Select keeps the rows that are in S, each at its rank.
Kept(rows, S) == {n \in DOMAIN rows : rows[n] \in S}

LEMMA KeptIsFinite ==
    ASSUME NEW T, NEW rows \in Seq(T), NEW S
    PROVE  /\ Kept(rows, S) \subseteq 1 .. Len(rows)
           /\ Kept(rows, S) \subseteq Nat
           /\ IsFiniteSet(Kept(rows, S))
           /\ Cardinality(Kept(rows, S)) \in 0 .. Len(rows)
<1>1. Len(rows) \in Nat /\ DOMAIN rows = 1 .. Len(rows)
    BY LenProperties
<1>2. Kept(rows, S) \subseteq 1 .. Len(rows)
    BY <1>1 DEF Kept
<1>3. IsFiniteSet(1 .. Len(rows)) /\ Cardinality(1 .. Len(rows)) = Len(rows)
    BY <1>1, FS_Interval
<1>4. IsFiniteSet(Kept(rows, S)) /\ Cardinality(Kept(rows, S)) <= Len(rows)
    BY <1>2, <1>3, FS_Subset
<1> QED BY <1>1, <1>2, <1>4, FS_CardinalityType

LEMMA SelectProperties ==
    ASSUME NEW T, NEW rows \in Seq(T), NEW S
    PROVE  /\ Select(rows, S) \in Seq(T)
           /\ Len(Select(rows, S)) = Cardinality(Kept(rows, S))
           /\ \A n \in Kept(rows, S) :
                 Select(rows, S)[Rank(Kept(rows, S), n)] = rows[n]
           /\ \A k \in 1 .. Len(Select(rows, S)) :
                 \E n \in Kept(rows, S) :
                    Rank(Kept(rows, S), n) = k /\ Select(rows, S)[k] = rows[n]
<1> DEFINE P == Kept(rows, S)
           c == Cardinality(P)
           at(k) == CHOOSE n \in P : Rank(P, n) = k
<1>1. /\ P \subseteq Nat /\ IsFiniteSet(P) /\ P \subseteq DOMAIN rows /\ c \in Nat
      /\ \A n \in P : rows[n] \in T
    BY KeptIsFinite, ElementOfSeq, LenProperties
<1>2. Select(rows, S) = [k \in 1 .. c |-> rows[at(k)]]
    BY DEF Select, Kept
<1> HIDE DEF P, c
<1>3. \A k \in 1 .. c : at(k) \in P /\ Rank(P, at(k)) = k
    <2> SUFFICES ASSUME NEW k \in 1 .. c
                 PROVE  at(k) \in P /\ Rank(P, at(k)) = k
        OBVIOUS
    <2>1. \E n \in P : Rank(P, n) = k
        BY <1>1, Ranks DEF c
    <2> QED BY <2>1
<1>4. \A m, n \in P : Rank(P, m) = Rank(P, n) => m = n
    <2> SUFFICES ASSUME NEW m \in P, NEW n \in P, Rank(P, m) = Rank(P, n)
                 PROVE  m = n
        OBVIOUS
    <2>1. \A i, j \in P : i < j => Rank(P, i) < Rank(P, j)
        BY <1>1, Ranks
    <2>2. m \in Nat /\ n \in Nat /\ Rank(P, m) \in Nat
        <3>1. Rank(P, m) \in 1 .. c
            BY <1>1, Ranks DEF c
        <3> QED BY <1>1, <3>1
    <2>3. ~(m < n) /\ ~(n < m)
        BY <2>1, <2>2
    <2> QED BY <2>2, <2>3
<1>5. \A n \in P : Rank(P, n) \in 1 .. c
    BY <1>1, Ranks DEF c
<1> HIDE DEF at
<1>6. Select(rows, S) \in Seq(T) /\ Len(Select(rows, S)) = c
    <2>1. [k \in 1 .. c |-> rows[at(k)]] \in [1 .. c -> T]
        BY <1>1, <1>3
    <2> QED BY <1>1, <1>2, <2>1
<1>7. ASSUME NEW n \in P
      PROVE  Select(rows, S)[Rank(P, n)] = rows[n]
    <2>1. Rank(P, n) \in 1 .. c /\ at(Rank(P, n)) = n
        BY <1>3, <1>4, <1>5
    <2> QED BY <1>2, <2>1
<1>8. ASSUME NEW k \in 1 .. c
      PROVE  \E n \in P : Rank(P, n) = k /\ Select(rows, S)[k] = rows[n]
    BY <1>2, <1>3
<1> QED BY <1>6, <1>7, <1>8 DEF P, c

-----------------------------------------------------------------------------
(* Tables                                                                  *)

OneToOne(s) == \A i, j \in DOMAIN s : s[i] = s[j] => i = j
Orders == UNION {SetToSeqs(S) : S \in SUBSET Items}

LEMMA OrdersAreTables ==
    ASSUME NEW t
    PROVE  t \in Orders <=> t \in Seq(Items) /\ OneToOne(t)
<1>1. ASSUME NEW S \in SUBSET Items, t \in SetToSeqs(S)
      PROVE  t \in Seq(Items) /\ OneToOne(t)
    <2> DEFINE c == Cardinality(S)
    <2>1. c \in Nat
        BY PagingAssumption, FS_Subset, FS_CardinalityType
    <2>2. t \in [1 .. c -> S] /\ \A i, j \in 1 .. c : i # j => t[i] # t[j]
        BY <1>1 DEF SetToSeqs
    <2> HIDE DEF c
    <2>3. t \in [1 .. c -> Items]
        BY <2>2
    <2> QED BY <2>1, <2>2, <2>3 DEF OneToOne
<1>2. ASSUME t \in Seq(Items), OneToOne(t)
      PROVE  \E S \in SUBSET Items : t \in SetToSeqs(S)
    <2> DEFINE n == Len(t)
               S == {t[i] : i \in 1 .. n}
    <2>1. n \in Nat /\ DOMAIN t = 1 .. n /\ t \in [1 .. n -> Items]
        BY <1>2, LenProperties
    <2>2. S \subseteq Items /\ t \in [1 .. n -> S] /\ \A x \in S : \E i \in 1 .. n : t[i] = x
        BY <2>1
    <2> HIDE DEF S, n
    <2>3. t \in Surjection(1 .. n, S) /\ t \in Injection(1 .. n, S)
        BY <1>2, <2>1, <2>2 DEF Surjection, Injection, IsInjective, OneToOne
    <2>4. IsFiniteSet(1 .. n) /\ Cardinality(1 .. n) = n
        BY <2>1, FS_Interval
    <2>5. Cardinality(S) = n
        BY <2>3, <2>4, FS_Surjection
    <2>6. t \in SetToSeqs(S)
        BY <1>2, <2>1, <2>2, <2>5 DEF SetToSeqs, OneToOne
    <2> QED BY <2>2, <2>6
<1> QED BY <1>1, <1>2 DEF Orders

LEMMA TableLength ==
    ASSUME NEW t \in Seq(Items), OneToOne(t)
    PROVE  /\ Cardinality(Items) \in Nat
           /\ Len(t) <= Cardinality(Items)
<1>1. Len(t) \in Nat /\ DOMAIN t = 1 .. Len(t) /\ t \in [1 .. Len(t) -> Items]
    BY LenProperties
<1>2. t \in Injection(1 .. Len(t), Items)
    BY <1>1 DEF Injection, IsInjective, OneToOne
<1>3. Cardinality(1 .. Len(t)) = Len(t)
    BY <1>1, FS_Interval
<1> QED BY <1>2, <1>3, PagingAssumption, FS_Injection, FS_CardinalityType

LEMMA InsertAtProperties ==
    ASSUME NEW T, NEW s \in Seq(T), NEW n \in 1 .. Len(s) + 1, NEW e \in T
    PROVE  /\ InsertAt(s, n, e) \in Seq(T)
           /\ Len(InsertAt(s, n, e)) = Len(s) + 1
           /\ \A j \in 1 .. Len(s) + 1 :
                 InsertAt(s, n, e)[j] = IF j < n THEN s[j] ELSE IF j = n THEN e ELSE s[j - 1]
<1> DEFINE t == SubSeq(s, 1, n - 1)
           u == SubSeq(s, n, Len(s))
<1>1. Len(s) \in Nat /\ n \in Nat
    BY LenProperties
<1>2. /\ t \in Seq(T) /\ Len(t) = n - 1
      /\ \A j \in 1 .. n - 1 : t[j] = s[j]
    <2>1. \A j \in 1 .. n - 1 : s[j] \in T
        BY ElementOfSeq
    <2> HIDE DEF t
    <2>2. /\ t \in Seq(T) /\ Len(t) = IF 1 <= n - 1 THEN (n - 1) - 1 + 1 ELSE 0
          /\ \A j \in 1 .. (n - 1) - 1 + 1 : t[j] = s[1 + j - 1]
        BY <1>1, <2>1, SubSeqProperties DEF t
    <2> QED BY <1>1, <2>2
<1>3. /\ u \in Seq(T) /\ Len(u) = Len(s) - n + 1
      /\ \A j \in 1 .. Len(s) - n + 1 : u[j] = s[n + j - 1]
    <2>1. \A j \in n .. Len(s) : s[j] \in T
        BY ElementOfSeq
    <2> HIDE DEF u
    <2>2. /\ u \in Seq(T) /\ Len(u) = IF n <= Len(s) THEN Len(s) - n + 1 ELSE 0
          /\ \A j \in 1 .. Len(s) - n + 1 : u[j] = s[n + j - 1]
        BY <1>1, <2>1, SubSeqProperties DEF u
    <2> QED BY <1>1, <2>2
<1> HIDE DEF t, u
<1>4. <<e>> \in Seq(T) /\ Len(<<e>>) = 1 /\ <<e>>[1] = e
    OBVIOUS
<1> DEFINE v == t \o <<e>>
<1>5. /\ v \in Seq(T) /\ Len(v) = n
      /\ \A j \in 1 .. n : v[j] = IF j < n THEN s[j] ELSE e
    BY <1>1, <1>2, <1>4, ConcatProperties
<1> HIDE DEF v
<1>6. InsertAt(s, n, e) = v \o u
    BY DEF InsertAt, t, u, v
<1>7. /\ v \o u \in Seq(T) /\ Len(v \o u) = Len(v) + Len(u)
      /\ \A j \in 1 .. Len(v) + Len(u) :
            (v \o u)[j] = IF j <= Len(v) THEN v[j] ELSE u[j - Len(v)]
    BY <1>3, <1>5, ConcatProperties
<1>8. /\ Len(v) = n /\ Len(v) + Len(u) = Len(s) + 1
      /\ \A j \in 1 .. n : v[j] = IF j < n THEN s[j] ELSE e
    BY <1>1, <1>3, <1>5
<1>9. ASSUME NEW j \in 1 .. Len(s) + 1
      PROVE  (v \o u)[j] = IF j < n THEN s[j] ELSE IF j = n THEN e ELSE s[j - 1]
    <2>1. CASE j <= n
        BY <1>1, <1>7, <1>8, <2>1
    <2>2. CASE ~(j <= n)
        <3>1. j - n \in 1 .. Len(s) - n + 1 /\ n + (j - n) - 1 = j - 1
            BY <1>1, <2>2
        <3>2. (v \o u)[j] = u[j - n]
            BY <1>7, <1>8, <2>2
        <3>3. u[j - n] = s[j - 1]
            BY <1>3, <3>1
        <3> QED BY <1>1, <2>2, <3>2, <3>3
    <2> QED BY <2>1, <2>2
<1> QED BY <1>6, <1>7, <1>8, <1>9

LEMMA RemoveAtProperties ==
    ASSUME NEW T, NEW s \in Seq(T), NEW n \in 1 .. Len(s)
    PROVE  /\ RemoveAt(s, n) \in Seq(T)
           /\ Len(RemoveAt(s, n)) = Len(s) - 1
           /\ \A j \in 1 .. Len(s) - 1 :
                 RemoveAt(s, n)[j] = IF j < n THEN s[j] ELSE s[j + 1]
<1> DEFINE t == SubSeq(s, 1, n - 1)
           u == SubSeq(s, n + 1, Len(s))
<1>1. Len(s) \in Nat /\ n \in Nat
    BY LenProperties
<1>2. /\ t \in Seq(T) /\ Len(t) = n - 1
      /\ \A j \in 1 .. n - 1 : t[j] = s[j]
    <2>1. \A j \in 1 .. n - 1 : s[j] \in T
        BY ElementOfSeq
    <2> HIDE DEF t
    <2>2. /\ t \in Seq(T) /\ Len(t) = IF 1 <= n - 1 THEN (n - 1) - 1 + 1 ELSE 0
          /\ \A j \in 1 .. (n - 1) - 1 + 1 : t[j] = s[1 + j - 1]
        BY <1>1, <2>1, SubSeqProperties DEF t
    <2> QED BY <1>1, <2>2
<1>3. /\ u \in Seq(T) /\ Len(u) = Len(s) - n
      /\ \A j \in 1 .. Len(s) - n : u[j] = s[j + n]
    <2>1. \A j \in n + 1 .. Len(s) : s[j] \in T
        BY ElementOfSeq
    <2> HIDE DEF u
    <2>2. /\ u \in Seq(T)
          /\ Len(u) = IF n + 1 <= Len(s) THEN Len(s) - (n + 1) + 1 ELSE 0
          /\ \A j \in 1 .. Len(s) - (n + 1) + 1 : u[j] = s[(n + 1) + j - 1]
        BY <1>1, <2>1, SubSeqProperties DEF u
    <2> QED BY <1>1, <2>2
<1> HIDE DEF t, u
<1>4. RemoveAt(s, n) = t \o u
    BY DEF RemoveAt, t, u
<1>5. /\ t \o u \in Seq(T) /\ Len(t \o u) = Len(t) + Len(u)
      /\ \A j \in 1 .. Len(t) + Len(u) :
            (t \o u)[j] = IF j <= Len(t) THEN t[j] ELSE u[j - Len(t)]
    BY <1>2, <1>3, ConcatProperties
<1>6. Len(t) + Len(u) = Len(s) - 1
    BY <1>1, <1>2, <1>3
<1>7. ASSUME NEW j \in 1 .. Len(s) - 1
      PROVE  (t \o u)[j] = IF j < n THEN s[j] ELSE s[j + 1]
    <2>1. CASE j < n
        BY <1>1, <1>2, <1>5, <1>6, <2>1
    <2>2. CASE ~(j < n)
        <3>1. j - (n - 1) \in 1 .. Len(s) - n /\ j - (n - 1) + n = j + 1
            BY <1>1, <2>2
        <3>2. u[j - (n - 1)] = s[j + 1]
            BY <1>3, <3>1
        <3> QED BY <1>1, <1>2, <1>5, <1>6, <2>2, <3>2
    <2> QED BY <2>1, <2>2
<1> QED BY <1>4, <1>5, <1>6, <1>7

LEMMA InsertInTable ==
    ASSUME NEW t \in Seq(Items), NEW i \in Items, NEW p \in 1 .. Len(t) + 1
    PROVE  /\ InsertAt(t, p, i) \in Seq(Items)
           /\ Len(InsertAt(t, p, i)) = Len(t) + 1
           /\ \A j \in 1 .. Len(t) + 1 :
                 InsertAt(t, p, i)[j] =
                    IF j < p THEN t[j] ELSE IF j = p THEN i ELSE t[j - 1]
    BY InsertAtProperties

\* A row that arrives moves the others towards the end, if at all.
LEMMA TableGrows ==
    ASSUME NEW t \in Seq(Items), NEW i \in Items, NEW p \in 1 .. Len(t) + 1,
           NEW k \in 1 .. Len(InsertAt(t, p, i)), InsertAt(t, p, i)[k] # i
    PROVE  LET m == IF k < p THEN k ELSE k - 1
           IN m \in 1 .. Len(t) /\ m <= k /\ t[m] = InsertAt(t, p, i)[k]
<1>1. Len(t) \in Nat
    BY LenProperties
<1> QED BY <1>1, InsertAtProperties

LEMMA SelectionGrows ==
    ASSUME NEW t \in Seq(Items), NEW i \in Items, NEW p \in 1 .. Len(t) + 1, NEW S,
           NEW k \in 1 .. Len(Select(InsertAt(t, p, i), S)),
           Select(InsertAt(t, p, i), S)[k] # i
    PROVE  \E m \in 1 .. Len(Select(t, S)) :
               m <= k /\ Select(t, S)[m] = Select(InsertAt(t, p, i), S)[k]
<1> DEFINE u == InsertAt(t, p, i)
           P == Kept(t, S)
           Q == Kept(u, S)
<1>1. /\ Len(t) \in Nat /\ DOMAIN t = 1 .. Len(t)
      /\ u \in Seq(Items) /\ Len(u) = Len(t) + 1 /\ DOMAIN u = 1 .. Len(t) + 1
      /\ \A j \in 1 .. Len(t) + 1 :
            u[j] = IF j < p THEN t[j] ELSE IF j = p THEN i ELSE t[j - 1]
    <2>1. Len(t) \in Nat /\ DOMAIN t = 1 .. Len(t)
        BY LenProperties
    <2>2. /\ u \in Seq(Items) /\ Len(u) = Len(t) + 1
          /\ \A j \in 1 .. Len(t) + 1 :
                u[j] = IF j < p THEN t[j] ELSE IF j = p THEN i ELSE t[j - 1]
        BY InsertAtProperties
    <2> HIDE DEF u
    <2> QED BY <2>1, <2>2, LenProperties
<1> HIDE DEF u
<1>2. PICK q \in Q : Rank(Q, q) = k /\ Select(u, S)[k] = u[q]
    BY <1>1, SelectProperties DEF u
<1> DEFINE m == IF q < p THEN q ELSE q - 1
<1>3. m \in P /\ t[m] = u[q]
    BY <1>1, <1>2 DEF Kept, u
<1>4. /\ P \subseteq 1 .. Len(t) /\ IsFiniteSet(P)
      /\ Q \subseteq 1 .. Len(t) + 1 /\ IsFiniteSet(Q)
    BY <1>1, KeptIsFinite
<1> DEFINE L == {x \in P : x <= m}
           R == {x \in Q : x <= q}
           shift == [x \in L |-> IF x < p THEN x ELSE x + 1]
<1>5. shift \in Injection(L, R)
    <2>1. ASSUME NEW x \in P, x <= m
          PROVE  /\ (IF x < p THEN x ELSE x + 1) \in Q
                 /\ (IF x < p THEN x ELSE x + 1) <= q
        <3> DEFINE y == IF x < p THEN x ELSE x + 1
        <3>1. x \in Nat /\ q \in Nat /\ x \in 1 .. Len(t) /\ t[x] \in S
            BY <1>4 DEF Kept
        <3>2. y <= q
            BY <2>1, <3>1
        <3>3. y \in 1 .. Len(t) + 1 /\ u[y] = t[x]
            BY <1>1, <3>1
        <3> HIDE DEF y
        <3>4. y \in Q
            BY <1>1, <3>1, <3>3 DEF Kept
        <3> QED BY <3>2, <3>4 DEF y
    <2>2. shift \in [L -> R]
        BY <2>1
    <2>3. ASSUME NEW x \in L, NEW y \in L, shift[x] = shift[y]
          PROVE  x = y
        <3>1. x \in Nat /\ y \in Nat
            BY <1>4
        <3> QED BY <2>3, <3>1
    <2> HIDE DEF shift
    <2> QED BY <2>2, <2>3 DEF Injection, IsInjective
<1>6. IsFiniteSet(R) /\ R \subseteq Q
    BY <1>4, FS_Subset
<1>7. Cardinality(L) <= Cardinality(R)
    <2> HIDE DEF L, R, shift
    <2> QED BY <1>5, <1>6, FS_Injection
<1>8. Rank(P, m) <= k
    <2>1. Rank(P, m) = Cardinality(L) /\ Rank(Q, q) = Cardinality(R)
        BY DEF Rank
    <2> HIDE DEF L, R, m, P, Q
    <2> QED BY <1>2, <1>7, <2>1
<1>9. /\ Rank(P, m) \in 1 .. Len(Select(t, S))
      /\ Select(t, S)[Rank(P, m)] = t[m]
    <2>1. P \subseteq Nat
        BY <1>4
    <2> HIDE DEF m
    <2> QED BY <1>3, <1>4, <2>1, Ranks, SelectProperties
<1> QED BY <1>2, <1>3, <1>8, <1>9 DEF u

-----------------------------------------------------------------------------
(* A list in pages                                                         *)

LEMMA UpToProperties ==
    ASSUME NEW rows \in Seq(Items), NEW n \in Nat
    PROVE  /\ UpTo(rows, n) \in Seq(Items)
           /\ UpTo(rows, 0) = <<>>
           /\ Len(rows) <= n => UpTo(rows, n) = rows
<1>1. Len(rows) \in Nat
    BY LenProperties
<1>2. \A i \in 1 .. (IF n < Len(rows) THEN n ELSE Len(rows)) : rows[i] \in Items
    BY <1>1, ElementOfSeq
<1>3. UpTo(rows, n) \in Seq(Items)
    BY <1>1, <1>2, SubSeqProperties DEF UpTo
<1>4. UpTo(rows, 0) = <<>>
    <2>1. (IF 0 < Len(rows) THEN 0 ELSE Len(rows)) = 0
        BY <1>1
    <2> QED BY <2>1, SubSeqEmpty DEF UpTo
<1>5. ASSUME Len(rows) <= n
      PROVE  UpTo(rows, n) = rows
    <2>1. (IF n < Len(rows) THEN n ELSE Len(rows)) = Len(rows)
        BY <1>1, <1>5
    <2> QED BY <2>1, SubSeqFull DEF UpTo
<1> QED BY <1>3, <1>4, <1>5

LEMMA WindowProperties ==
    ASSUME NEW rows \in Seq(Items), query.skip \in Nat, query.top \in Nat \ {0}
    PROVE  /\ Window(rows) \in Seq(Items)
           /\ Len(Window(rows)) <= query.top
           /\ Len(Window(rows)) > 0 <=> query.skip < Len(rows)
           /\ UpTo(rows, query.skip) \o Window(rows) = UpTo(rows, query.skip + query.top)
           /\ \A n \in 1 .. Len(rows) :
                 query.skip < n /\ n <= query.skip + query.top => rows[n] \in Range(Window(rows))
<1> DEFINE skip == query.skip
           last == IF skip + query.top < Len(rows) THEN skip + query.top ELSE Len(rows)
           w == Window(rows)
<1>1. Len(rows) \in Nat /\ skip \in Nat /\ query.top \in Nat \ {0} /\ last \in 0 .. Len(rows)
    BY LenProperties
<1>2. w = SubSeq(rows, skip + 1, last)
    BY DEF Window
<1>3. last <= skip + query.top /\ (last > skip <=> skip < Len(rows))
    BY <1>1
<1>4. \A n \in 1 .. Len(rows) : skip < n /\ n <= skip + query.top => n \in skip + 1 .. last
    BY <1>1
<1>5. UpTo(rows, skip + query.top) = SubSeq(rows, 1, last)
    BY DEF UpTo
<1> HIDE DEF last, w
<1>6. /\ w \in Seq(Items)
      /\ Len(w) = IF skip + 1 <= last THEN last - skip ELSE 0
      /\ \A i \in 1 .. last - skip : w[i] = rows[skip + i]
    <2>1. \A i \in skip + 1 .. last : rows[i] \in Items
        BY <1>1, ElementOfSeq
    <2>2. /\ SubSeq(rows, skip + 1, last) \in Seq(Items)
          /\ Len(SubSeq(rows, skip + 1, last)) =
                IF skip + 1 <= last THEN last - (skip + 1) + 1 ELSE 0
          /\ \A i \in 1 .. last - (skip + 1) + 1 :
                SubSeq(rows, skip + 1, last)[i] = rows[(skip + 1) + i - 1]
        BY <1>1, <2>1, SubSeqProperties
    <2>3. /\ last - (skip + 1) + 1 = last - skip
          /\ \A i \in 1 .. last - skip : (skip + 1) + i - 1 = skip + i
        BY <1>1
    <2> QED BY <1>2, <2>2, <2>3
<1>7. Len(w) <= query.top
    BY <1>1, <1>3, <1>6
<1>8. Len(w) > 0 <=> skip < Len(rows)
    BY <1>1, <1>3, <1>6
<1>9. UpTo(rows, skip) \o w = SubSeq(rows, 1, last)
    <2>1. CASE skip < Len(rows)
        <3>1. /\ skip \in (1 - 1) .. Len(rows) /\ last \in skip .. Len(rows)
              /\ 1 \in 1 .. Len(rows) + 1
            BY <1>1, <1>3, <2>1
        <3>2. UpTo(rows, skip) = SubSeq(rows, 1, skip)
            BY <2>1 DEF UpTo
        <3> HIDE DEF skip
        <3> QED BY <1>2, <3>1, <3>2, ConcatAdjacentSubSeq
    <2>2. CASE ~(skip < Len(rows))
        <3>1. w = <<>>
            BY <1>6, <1>8, <2>2, EmptySeq
        <3>2. last = Len(rows)
            BY <1>1, <2>2 DEF last
        <3>3. UpTo(rows, skip) = SubSeq(rows, 1, Len(rows)) /\ UpTo(rows, skip) \in Seq(Items)
            BY <1>1, <2>2, UpToProperties DEF UpTo
        <3> QED BY <3>1, <3>2, <3>3, ConcatEmptySeq
    <2> QED BY <2>1, <2>2
<1>10. ASSUME NEW n \in 1 .. Len(rows), skip < n, n <= skip + query.top
       PROVE  rows[n] \in Range(w)
    <2>1. n \in skip + 1 .. last
        BY <1>4, <1>10
    <2>2. n - skip \in 1 .. last - skip /\ skip + (n - skip) = n
        BY <1>1, <2>1
    <2>3. w[n - skip] = rows[n] /\ n - skip \in DOMAIN w
        BY <1>1, <1>6, <2>2, LenProperties
    <2> QED BY <2>3 DEF Range
<1> QED BY <1>5, <1>6, <1>7, <1>8, <1>9, <1>10 DEF w

\* What is listed is a sequence of items, however it changes.
LEMMA ListedProperties ==
    ASSUME TypeOK
    PROVE  /\ table \in Seq(Items) /\ OneToOne(table)
           /\ Found \in Seq(Items) /\ Listed \in Seq(Items) /\ Restricted \in Seq(Items)
           /\ Cardinality(Items) \in Nat
           /\ Len(Listed) \in 0 .. Cardinality(Items)
<1>1. table \in Seq(Items) /\ OneToOne(table)
    BY OrdersAreTables DEF TypeOK, Orders
<1>2. Found \in Seq(Items) /\ Len(Found) \in 0 .. Len(table)
    BY <1>1, KeptIsFinite, SelectProperties DEF Found
<1>3. Cardinality(Items) \in Nat /\ Len(table) <= Cardinality(Items) /\ Len(table) \in Nat
    BY <1>1, TableLength, LenProperties
<1> QED BY <1>1, <1>2, <1>3 DEF Listed, Restricted

LEMMA QueryTypes ==
    ASSUME TypeOK
    PROVE  /\ query.skip \in Nat /\ query.top \in Nat \ {0} /\ query.top \in Tops
           /\ first.top \in Nat \ {0} /\ first.top \in Tops
           /\ query.listing \in Listings /\ query.option \in Options
           /\ first.listing \in Listings /\ first.option \in Options
           /\ DEFAULT_TOP \in Nat \ {0} /\ Longest \in Tops /\ Longest \in Nat \ {0}
    BY PagingAssumption DEF TypeOK, Queries, Longest

-----------------------------------------------------------------------------
(* A page comes.                                                           *)

TurnsPage(value) ==
    /\ pc = "asked" /\ pages < MaxPages
    /\ pc' \in {"asked", "done"}
    /\ got' = got \o value
    /\ pages' = pages + 1
    /\ query' \in Queries
    /\ cut' \in BOOLEAN
    /\ cut => cut'
    /\ UNCHANGED <<table, changes, history>>

\* What a page of a paged list is, whichever handler made it.
IsPage(value) ==
    /\ Len(value) <= query.top
    /\ query'.skip = query.skip + query.top
    /\ query'.top <= Longest
    /\ pc' = "asked" => query.skip < Len(Listed)
    /\ ~cut' => /\ value = Window(Listed)
                /\ pc' = "done" => Len(Listed) <= query.skip + query.top

LEMMA PageKeeps ==
    ASSUME PagingInv, NEW value \in Seq(Items), TurnsPage(value), SameQuery',
           Paged => IsPage(value)
    PROVE  PagingInv'
<1> USE DEF TurnsPage
<1>1. /\ table' = table /\ changes' = changes /\ first' = first
      /\ stayed' = stayed /\ disturbed' = disturbed
    BY DEF history
<1>2. (Paged' <=> Paged) /\ Listed' = Listed /\ Longest' = Longest
    BY <1>1 DEF Paged, Listed, Found, Longest
<1>3. /\ query.skip \in Nat /\ query.top \in Nat \ {0} /\ Longest \in Tops /\ Longest \in Nat \ {0}
      /\ Listed \in Seq(Items) /\ Len(Listed) \in 0 .. Cardinality(Items)
      /\ Cardinality(Items) \in Nat /\ pages \in Nat /\ got \in Seq(Items)
    BY QueryTypes, ListedProperties DEF PagingInv, TypeOK
<1>4. /\ got' \in Seq(Items) /\ Len(got') = Len(got) + Len(value)
      /\ Len(got) \in Nat /\ Len(value) \in Nat /\ Range(got') = Range(got) \cup Range(value)
    BY <1>3, ConcatProperties, LenProperties, RangeConcatenation
<1>5. PagesAreShort'
    <2> SUFFICES ASSUME Paged
                 PROVE  query'.top <= Longest /\ Len(got') <= (pages + 1) * Longest
        BY <1>2 DEF PagesAreShort
    <2>1. /\ Len(got) <= pages * Longest /\ query.top <= Longest
          /\ Len(value) <= query.top /\ query'.top <= Longest
        BY DEF PagingInv, PagesAreShort, IsPage
    <2>2. (pages + 1) * Longest = pages * Longest + Longest /\ pages * Longest \in Nat
        BY <1>3
    <2> QED BY <1>3, <1>4, <2>1, <2>2
<1>6. TypeOK'
    <2>1. Paged' => \E top \in Tops : Len(got') <= pages' * top
        BY <1>2, <1>3, <1>5 DEF PagesAreShort
    <2>2. pages' \in 0 .. MaxPages /\ pc' \in {"idle", "asked", "done", "failed", "gone"}
        BY <1>3, PagingAssumption
    <2>3. /\ table \in UNION {SetToSeqs(S) : S \in SUBSET Items} /\ changes \in 0 .. MaxChanges
          /\ first \in Queries /\ stayed \subseteq Items /\ disturbed \in {"no", "grown", "shrunk"}
        BY DEF PagingInv, TypeOK
    <2> HIDE DEF TurnsPage
    <2> QED BY <1>1, <1>4, <2>1, <2>2, <2>3 DEF TypeOK, TurnsPage
<1>7. PagesMoveOn'
    <2> SUFFICES ASSUME Paged
                 PROVE  /\ pages + 1 <= query'.skip
                        /\ pc' = "asked" => pages + 1 <= Cardinality(Items)
        BY <1>2 DEF PagesMoveOn
    <2>1. pages <= query.skip /\ query'.skip = query.skip + query.top
        BY DEF PagingInv, PagesMoveOn, IsPage
    <2>2. pc' = "asked" => query.skip < Len(Listed)
        BY DEF IsPage
    <2> QED BY <1>3, <2>1, <2>2
<1>8. Beginning'
    BY DEF Beginning
<1>9. ASSUME Paged, ~cut'
      PROVE  /\ value = Window(Listed) /\ ~cut
             /\ query'.skip = query.skip + query.top
             /\ pc' = "done" => Len(Listed) <= query'.skip
    BY <1>9 DEF IsPage
<1>10. ListIsPassed'
    <2> SUFFICES ASSUME Paged, ~cut', disturbed = "no"
                 PROVE  /\ got' = UpTo(Listed, query'.skip)
                        /\ pc' = "done" => got' = Listed
        BY <1>1, <1>2 DEF ListIsPassed, UpTo
    <2>1. got = UpTo(Listed, query.skip)
        BY <1>9 DEF PagingInv, ListIsPassed
    <2>2. got' = UpTo(Listed, query'.skip)
        BY <1>3, <1>9, <2>1, WindowProperties
    <2>3. query'.skip \in Nat
        BY <1>3, <1>9
    <2> QED BY <1>3, <1>9, <2>2, <2>3, UpToProperties
<1>11. StayedAreThere'
    BY <1>1 DEF PagingInv, StayedAreThere
<1>12. NoneIsHidden'
    <2> SUFFICES ASSUME Paged, ~cut', disturbed # "shrunk",
                        NEW n \in 1 .. Len(Listed), Listed[n] \in stayed,
                        pc' = "done" \/ n <= query'.skip
                 PROVE  Listed[n] \in Range(got')
        BY <1>1, <1>2 DEF NoneIsHidden
    <2>1. n <= query.skip => Listed[n] \in Range(got)
        BY <1>9 DEF PagingInv, NoneIsHidden
    <2>2. n <= query.skip + query.top
        BY <1>3, <1>9
    <2>3. query.skip < n => Listed[n] \in Range(value)
        BY <1>3, <1>9, <2>2, WindowProperties
    <2> QED BY <1>3, <1>4, <2>1, <2>3
<1>13. PagingEnds'
    BY DEF PagingEnds
<1> HIDE DEF TurnsPage
<1> QED BY <1>5, <1>6, <1>7, <1>8, <1>10, <1>11, <1>12, <1>13 DEF PagingInv

LEMMA RespondTurns ==
    ASSUME TypeOK, SameQuery, pc = "asked", pages < MaxPages,
           NEW rows \in Seq(Items), NEW skip \in Nat, NEW top \in Nat, Respond(rows, skip, top)
    PROVE  \E value \in Seq(Items) :
               /\ TurnsPage(value) /\ SameQuery'
               /\ query' = [query EXCEPT !.skip = skip + top]
               /\ Len(value) <= Len(rows)
               /\ pc' = "asked" => Len(rows) > 0
               /\ ~cut' => value = rows /\ (pc' = "done" => Len(rows) = 0)
<1>1. PICK n \in 0 .. Len(rows) :
          /\ got' = got \o SubSeq(rows, 1, n)
          /\ cut' = (cut \/ n < Len(rows))
          /\ pages' = pages + 1
          /\ query' = NextLink(skip, top)
          /\ pc' = IF n = 0 THEN "done" ELSE "asked"
          /\ UNCHANGED <<table, changes, history>>
    BY DEF Respond
<1>2. Len(rows) \in Nat /\ n \in Nat /\ n <= Len(rows)
    BY LenProperties
<1>3. SubSeq(rows, 1, n) \in Seq(Items) /\ Len(SubSeq(rows, 1, n)) = n
    <2>1. \A i \in 1 .. n : rows[i] \in Items
        BY <1>2, ElementOfSeq
    <2>2. /\ SubSeq(rows, 1, n) \in Seq(Items)
          /\ Len(SubSeq(rows, 1, n)) = IF 1 <= n THEN n - 1 + 1 ELSE 0
        BY <1>2, <2>1, SubSeqProperties
    <2> QED BY <1>2, <2>2
<1>4. query' = [query EXCEPT !.skip = skip + top] /\ query' \in Queries
    <2>1. query \in [listing : Listings, option : Options, top : Tops, skip : Nat]
        BY DEF TypeOK, Queries
    <2>2. skip + top \in Nat
        OBVIOUS
    <2> QED BY <1>1, <2>1, <2>2 DEF NextLink, Queries
<1>5. SameQuery'
    <2>1. query'.listing = query.listing /\ query'.option = query.option /\ query'.top = query.top
        BY <1>4 DEF TypeOK, Queries
    <2>2. first' = first
        BY <1>1 DEF history
    <2> QED BY <2>1, <2>2 DEF SameQuery
<1>6. cut' \in BOOLEAN /\ (cut => cut') /\ (~cut' => ~(n < Len(rows)))
    BY <1>1, Zenon
<1>7. ~cut' => SubSeq(rows, 1, n) = rows /\ n = Len(rows)
    BY <1>2, <1>6, SubSeqFull
<1>8. TurnsPage(SubSeq(rows, 1, n))
    BY <1>1, <1>4, <1>6 DEF TurnsPage
<1>9. (pc' = "asked" => n > 0) /\ (pc' = "done" => n = 0)
    BY <1>1, <1>2
<1> DEFINE value == SubSeq(rows, 1, n)
<1>10. /\ value \in Seq(Items) /\ TurnsPage(value) /\ Len(value) <= Len(rows)
       /\ ~cut' => value = rows
    BY <1>2, <1>3, <1>7, <1>8
<1>11. /\ pc' = "asked" => Len(rows) > 0
       /\ ~cut' => (pc' = "done" => Len(rows) = 0)
    BY <1>2, <1>7, <1>9
<1> HIDE DEF value
<1> QED BY <1>4, <1>5, <1>10, <1>11

LEMMA GenerateKeeps ==
    ASSUME PagingInv, pc = "asked", pages < MaxPages,
           NEW rows \in Seq(Items), Generate(rows), Paged => rows = Listed
    PROVE  PagingInv'
<1>1. /\ TypeOK /\ SameQuery /\ query.skip \in Nat /\ query.top \in Nat \ {0}
      /\ query \in Queries
    BY QueryTypes DEF PagingInv, TypeOK
<1>2. Window(rows) \in Seq(Items)
    BY <1>1, WindowProperties
<1>3. PICK value \in Seq(Items) :
          /\ TurnsPage(value) /\ SameQuery'
          /\ query' = [query EXCEPT !.skip = query.skip + query.top]
          /\ Len(value) <= Len(Window(rows))
          /\ pc' = "asked" => Len(Window(rows)) > 0
          /\ ~cut' => value = Window(rows) /\ (pc' = "done" => Len(Window(rows)) = 0)
    BY <1>1, <1>2, RespondTurns DEF Generate
<1>4. ASSUME Paged
      PROVE  IsPage(value)
    <2>1. query'.skip = query.skip + query.top /\ query'.top = query.top
        BY <1>1, <1>3 DEF Queries
    <2>2. query.top <= Longest
        BY <1>4 DEF PagingInv, PagesAreShort
    <2>3. /\ Len(Window(rows)) <= query.top /\ rows = Listed
          /\ Len(Window(rows)) > 0 <=> query.skip < Len(rows)
        BY <1>1, <1>4, WindowProperties
    <2>4. Len(value) \in Nat /\ Len(Window(rows)) \in Nat /\ Len(rows) \in Nat
        BY <1>2, LenProperties
    <2>5. Len(value) <= query.top
        BY <1>1, <1>3, <2>3, <2>4
    <2>6. pc' = "asked" => query.skip < Len(Listed)
        BY <1>3, <2>3
    <2>7. ~cut' => value = Window(Listed) /\ (pc' = "done" => Len(Listed) <= query.skip + query.top)
        BY <1>1, <1>3, <2>3, <2>4
    <2> QED BY <2>1, <2>2, <2>5, <2>6, <2>7 DEF IsPage
<1> QED BY <1>3, <1>4, PageKeeps

LEMMA UnpagedKeeps ==
    ASSUME PagingInv, pc = "asked", pages < MaxPages, ~Paged,
           NEW rows \in Seq(Items), NEW skip \in Nat, NEW top \in Nat, Respond(rows, skip, top)
    PROVE  PagingInv'
<1>1. TypeOK /\ SameQuery
    BY DEF PagingInv
<1>2. PICK value \in Seq(Items) : TurnsPage(value) /\ SameQuery'
    BY <1>1, RespondTurns
<1> QED BY <1>2, PageKeeps

LEMMA StopKeeps ==
    ASSUME PagingInv, NEW end \in {"failed", "gone"}, Stop(end), Paged => end # "gone"
    PROVE  PagingInv'
<1>1. /\ table' = table /\ changes' = changes /\ first' = first /\ stayed' = stayed
      /\ disturbed' = disturbed /\ query' = query /\ got' = got /\ pages' = pages
      /\ cut' = cut /\ pc' = end
    BY DEF Stop, history
<1>2. (Paged' <=> Paged) /\ Listed' = Listed /\ Longest' = Longest
    BY <1>1 DEF Paged, Listed, Found, Longest
<1>3. TypeOK'
    BY <1>1, <1>2 DEF PagingInv, TypeOK
<1>4. SameQuery' /\ PagesAreShort' /\ PagesMoveOn' /\ Beginning' /\ StayedAreThere'
    BY <1>1, <1>2 DEF PagingInv, SameQuery, PagesAreShort, PagesMoveOn, Beginning, StayedAreThere
<1>5. ListIsPassed'
    BY <1>1 DEF ListIsPassed
<1>6. NoneIsHidden'
    BY <1>1 DEF NoneIsHidden
<1>7. PagingEnds'
    BY <1>1, <1>2 DEF PagingEnds
<1> QED BY <1>3, <1>4, <1>5, <1>6, <1>7 DEF PagingInv

\* The handlers of the kopano backend: what has pages at all generates them
\* from what is listed.
LEMMA TablesAreListed ==
    ASSUME PagingInv
    PROVE  /\ query.listing \in FolderItems /\ Paged => query.option = "none" /\ Listed = table
           /\ query.listing \in Tables \ Searched => Listed = table
           /\ query.listing \in Searched => Listed = Restricted
           /\ query.listing \in Wholes => ~Paged
    BY DEF PagingInv, SameQuery, FolderItems, Tables, Searched, Wholes, Paged, Listed, Restricted

LEMMA FolderGenKeeps ==
    ASSUME PagingInv, pc = "asked", pages < MaxPages, query.listing \in FolderItems, FolderGen
    PROVE  PagingInv'
<1>1. /\ query.skip \in Nat /\ query.top \in Nat /\ table \in Seq(Items) /\ Found \in Seq(Items)
    BY QueryTypes, ListedProperties DEF PagingInv
<1>2. CASE query.option = "$orderby"
    BY <1>2, StopKeeps DEF FolderGen
<1>3. CASE query.option = "$search"
    <2>1. Respond(Found, query.skip, query.top) /\ ~Paged
        BY <1>3, TablesAreListed DEF FolderGen
    <2> QED BY <1>1, <2>1, UnpagedKeeps
<1>4. CASE query.option \notin {"$orderby", "$search"}
    <2>1. Generate(table)
        BY <1>4 DEF FolderGen
    <2> QED BY <1>1, <2>1, GenerateKeeps, TablesAreListed
<1> QED BY <1>2, <1>3, <1>4

LEMMA WholeKeeps ==
    ASSUME PagingInv, pc = "asked", pages < MaxPages, query.listing \in Wholes, Whole
    PROVE  PagingInv'
<1>1. DEFAULT_TOP \in Nat /\ table \in Seq(Items)
    BY QueryTypes, ListedProperties DEF PagingInv
<1> QED BY <1>1, UnpagedKeeps, TablesAreListed DEF Whole

-----------------------------------------------------------------------------
(* The pages of the LDAP backend                                           *)

\* Users past $skip that may end a page.
Full(users) ==
    {n \in DOMAIN users : /\ n > query.skip
                          /\ n >= query.skip + query.top
                          /\ users[n] \notin Nameless \/ EndsLdapPage(n)}

LdapPage(users) == SubSeq(users, query.skip + 1, LastUser(users))

LEMMA LastUserProperties ==
    ASSUME NEW users \in Seq(Items), query.skip \in Nat, query.top \in Nat \ {0}
    PROVE  /\ LastUser(users) \in 0 .. Len(users)
           /\ Full(users) = {} => LastUser(users) = Len(users)
           /\ Full(users) # {} => LastUser(users) \in Full(users)
           /\ \A n \in Full(users) : LastUser(users) <= n
<1>1. Len(users) \in Nat /\ DOMAIN users = 1 .. Len(users)
    BY LenProperties
<1>2. /\ Full(users) \subseteq 1 .. Len(users)
      /\ Full(users) \subseteq Nat
    BY <1>1 DEF Full
<1>3. IsFiniteSet(Full(users))
    <2>1. IsFiniteSet(1 .. Len(users))
        BY <1>1, FS_Interval
    <2> QED BY <1>2, <2>1, FS_Subset
<1>4. LastUser(users) = IF Full(users) = {} THEN Len(users)
                        ELSE CHOOSE n \in Full(users) : \A m \in Full(users) : n <= m
    BY DEF LastUser, Full
<1>5. CASE Full(users) = {}
    BY <1>1, <1>4, <1>5
<1>6. CASE Full(users) # {}
    <2>1. \E n \in Full(users) : \A m \in Full(users) : n <= m
        BY <1>2, <1>3, <1>6, Least
    <2>2. /\ LastUser(users) \in Full(users)
          /\ \A m \in Full(users) : LastUser(users) <= m
        BY <1>4, <1>6, <2>1
    <2> QED BY <1>1, <1>2, <1>6, <2>2
<1> QED BY <1>5, <1>6

LEMMA LdapPageProperties ==
    ASSUME NEW users \in Seq(Items), query.skip \in Nat, query.top \in Nat \ {0}
    PROVE  /\ LdapPage(users) \in Seq(Items)
           /\ Len(LdapPage(users)) =
                IF query.skip + 1 <= LastUser(users) THEN LastUser(users) - query.skip ELSE 0
           /\ \A i \in 1 .. Len(LdapPage(users)) : LdapPage(users)[i] = users[query.skip + i]
<1> DEFINE last == LastUser(users)
           skip == query.skip
<1>1. Len(users) \in Nat /\ last \in 0 .. Len(users) /\ skip \in Nat
    BY LastUserProperties, LenProperties
<1> HIDE DEF last, skip
<1>2. \A i \in skip + 1 .. last : users[i] \in Items
    BY <1>1, ElementOfSeq
<1>3. /\ SubSeq(users, skip + 1, last) \in Seq(Items)
      /\ Len(SubSeq(users, skip + 1, last)) =
            IF skip + 1 <= last THEN last - (skip + 1) + 1 ELSE 0
      /\ \A i \in 1 .. last - (skip + 1) + 1 :
            SubSeq(users, skip + 1, last)[i] = users[(skip + 1) + i - 1]
    BY <1>1, <1>2, SubSeqProperties
<1>4. /\ last - (skip + 1) + 1 = last - skip
      /\ \A i \in 1 .. last - skip : (skip + 1) + i - 1 = skip + i
    BY <1>1
<1>5. LdapPage(users) = SubSeq(users, skip + 1, last)
    BY DEF LdapPage, skip, last
<1>6. /\ SubSeq(users, skip + 1, last) \in Seq(Items)
      /\ Len(SubSeq(users, skip + 1, last)) = IF skip + 1 <= last THEN last - skip ELSE 0
      /\ \A i \in 1 .. last - skip : SubSeq(users, skip + 1, last)[i] = users[skip + i]
    BY <1>3, <1>4
<1>7. \A i \in 1 .. Len(LdapPage(users)) : i \in 1 .. last - skip
    BY <1>1, <1>5, <1>6
<1> QED BY <1>5, <1>6, <1>7 DEF last, skip

\* Users without a login are left out of the page, which is then no longer than
\* it may be: none but the last of those past $skip + $top has one.
LEMMA LdapPageIsShort ==
    ASSUME NEW users \in Seq(Items), query.skip \in Nat, query.top \in Nat \ {0}
    PROVE  Len(Select(LdapPage(users), Items \ Nameless)) <= query.top
<1> DEFINE page == LdapPage(users)
           K == Kept(page, Items \ Nameless)
           last == LastUser(users)
           skip == query.skip
           top == query.top
           bound == (1 .. top - 1) \cup {last - skip}
<1>1. /\ page \in Seq(Items) /\ DOMAIN page = 1 .. Len(page) /\ Len(page) \in Nat
      /\ Len(page) = IF skip + 1 <= last THEN last - skip ELSE 0
      /\ \A i \in 1 .. Len(page) : page[i] = users[skip + i]
    BY LdapPageProperties, LenProperties
<1>2. /\ last \in 0 .. Len(users) /\ Len(users) \in Nat /\ DOMAIN users = 1 .. Len(users)
      /\ \A n \in Full(users) : last <= n
    BY LastUserProperties, LenProperties
<1> HIDE DEF page, last
<1>3. ASSUME NEW m \in K, m \notin 1 .. top - 1
      PROVE  m = last - skip
    <2>1. m \in 1 .. Len(page) /\ users[skip + m] \notin Nameless
        BY <1>1 DEF Kept
    <2>2. m \in Nat /\ m >= top /\ m <= last - skip /\ skip \in Nat /\ top \in Nat \ {0}
        BY <1>1, <1>2, <1>3, <2>1
    <2>3. skip + m \in 1 .. Len(users) /\ skip + m > skip /\ skip + m >= skip + top
        BY <1>2, <2>2
    <2>4. skip + m \in Full(users)
        BY <1>2, <2>1, <2>3 DEF Full
    <2>5. last <= skip + m
        BY <1>2, <2>4
    <2> QED BY <1>2, <2>2, <2>5
<1>4. K \subseteq bound
    BY <1>3
<1>5. IsFiniteSet(1 .. top - 1) /\ Cardinality(1 .. top - 1) = top - 1
    <2>1. 1 \in Int /\ top - 1 \in Int
        OBVIOUS
    <2>2. IsFiniteSet(1 .. top - 1) /\ Cardinality(1 .. top - 1) = IF 1 > top - 1 THEN 0 ELSE top - 1 - 1 + 1
        BY <2>1, FS_Interval
    <2> QED BY <2>2
<1>6. IsFiniteSet(bound) /\ Cardinality(bound) <= top
    <2>1. /\ IsFiniteSet(bound)
          /\ Cardinality(bound) = IF last - skip \in 1 .. top - 1
                                  THEN Cardinality(1 .. top - 1) ELSE Cardinality(1 .. top - 1) + 1
        BY <1>5, FS_AddElement
    <2> HIDE DEF bound
    <2> QED BY <1>5, <2>1
<1>7. Cardinality(K) <= Cardinality(bound)
    <2> HIDE DEF K, bound
    <2> QED BY <1>4, <1>6, FS_Subset
<1>8. Cardinality(K) \in Nat /\ Cardinality(bound) \in Nat
    <2> HIDE DEF K, bound
    <2> QED BY <1>4, <1>6, FS_Subset, FS_CardinalityType
<1>9. Len(Select(page, Items \ Nameless)) = Cardinality(K)
    BY <1>1, SelectProperties
<1> HIDE DEF K, bound
<1> QED BY <1>6, <1>7, <1>8, <1>9 DEF page

\* A page that leaves nobody out is the one that $skip and $top say.
LEMMA LdapPageIsWindow ==
    ASSUME NEW users \in Seq(Items), query.skip \in Nat, query.top \in Nat \ {0},
           Select(LdapPage(users), Items \ Nameless) = LdapPage(users)
    PROVE  /\ LdapPage(users) = Window(users)
           /\ Len(LdapPage(users)) < query.top => Len(users) <= query.skip + query.top
<1> DEFINE page == LdapPage(users)
           last == LastUser(users)
           skip == query.skip
           top == query.top
<1>1. /\ page \in Seq(Items) /\ DOMAIN page = 1 .. Len(page) /\ Len(page) \in Nat
      /\ Len(page) = IF skip + 1 <= last THEN last - skip ELSE 0
      /\ \A i \in 1 .. Len(page) : page[i] = users[skip + i]
    BY LdapPageProperties, LenProperties
<1>2. /\ last \in 0 .. Len(users) /\ Len(users) \in Nat /\ DOMAIN users = 1 .. Len(users)
      /\ Full(users) = {} => last = Len(users)
      /\ Full(users) # {} => last \in Full(users)
      /\ \A n \in Full(users) : last <= n
    BY LastUserProperties, LenProperties
<1>t. skip \in Nat /\ top \in Nat \ {0}
    OBVIOUS
<1>f. \A n \in 1 .. Len(users) :
          /\ n \in Full(users) => n > skip /\ n >= skip + top
          /\ n > skip /\ n >= skip + top /\ users[n] \notin Nameless => n \in Full(users)
    BY <1>2 DEF Full
<1>n. last \in Nat /\ Len(users) \in Nat /\ last <= Len(users) /\ Len(page) \in Nat
    BY <1>1, <1>2
<1> HIDE DEF last
<1>3. ASSUME NEW i \in 1 .. Len(page)
      PROVE  users[skip + i] \notin Nameless
    <2>1. Select(page, Items \ Nameless) = page
        OBVIOUS
    <2> HIDE DEF page
    <2>2. \E n \in Kept(page, Items \ Nameless) :
              Select(page, Items \ Nameless)[i] = page[n]
        BY <1>1, <1>3, <2>1, SelectProperties
    <2>3. page[i] \in Items \ Nameless
        BY <2>1, <2>2 DEF Kept
    <2> QED BY <1>1, <2>3
<1> HIDE DEF page, skip, top
<1>4. ASSUME skip + top <= last
      PROVE  last = skip + top
    <2>1. top \in 1 .. Len(page)
        <3>1. skip + 1 <= last /\ top <= last - skip
            BY <1>4, <1>n, <1>t
        <3>2. Len(page) = last - skip
            BY <1>1, <3>1
        <3> QED BY <1>n, <1>t, <3>1, <3>2
    <2>2. users[skip + top] \notin Nameless /\ skip + top \in 1 .. Len(users) /\ skip + top > skip
        BY <1>3, <1>4, <1>n, <1>t, <2>1
    <2>3. skip + top \in Full(users) /\ skip + top \in Nat
        BY <1>f, <1>t, <2>2
    <2>4. last <= skip + top
        BY <1>2, <2>3
    <2> QED BY <1>4, <1>n, <1>t, <2>4
<1>5. \/ last = skip + top
      \/ last < skip + top /\ last = Len(users)
    <2>1. CASE skip + top <= last
        BY <1>4, <2>1
    <2>2. CASE ~(skip + top <= last)
        <3>1. last \notin Full(users)
            BY <1>2, <1>f, <1>t, <2>2 DEF Full
        <3>2. last = Len(users)
            BY <1>2, <3>1
        <3> QED BY <1>n, <1>t, <2>2, <3>2
    <2> QED BY <2>1, <2>2
<1>6. last = IF skip + top < Len(users) THEN skip + top ELSE Len(users)
    BY <1>n, <1>t, <1>5
<1>7. page = Window(users)
    BY <1>6 DEF Window, LdapPage, page, last, skip, top
<1>8. Len(page) < top => Len(users) <= skip + top
    BY <1>1, <1>n, <1>t, <1>5
<1> QED BY <1>7, <1>8 DEF page, skip, top

LEMMA LdapKeeps ==
    ASSUME PagingInv, GetLdapUsers
    PROVE  PagingInv'
<1> DEFINE users == Restricted
           page == LdapPage(users)
           value == Select(page, Items \ Nameless)
<1>1. /\ pc = "asked" /\ pages < MaxPages /\ query.listing = "ldapUsers"
      /\ got' = got \o value
      /\ cut' = (cut \/ value # page)
      /\ pc' = IF Len(value) >= query.top THEN "asked" ELSE "done"
      /\ pages' = pages + 1
      /\ query' = [NextLink(query.skip, query.top) EXCEPT !.option = "none", !.top = DEFAULT_TOP]
      /\ UNCHANGED <<table, changes, history>>
    BY DEF GetLdapUsers, Asked, LdapPage
<1>2. /\ query \in Queries /\ users \in Seq(Items)
      /\ query.skip \in Nat /\ query.top \in Nat \ {0} /\ DEFAULT_TOP \in Tops
      /\ DEFAULT_TOP \in Nat /\ first.top \in Nat
    BY QueryTypes, ListedProperties, PagingAssumption DEF PagingInv, TypeOK
<1>3. first.listing = "ldapUsers"
    BY <1>1 DEF PagingInv, SameQuery
<1>4. page \in Seq(Items) /\ value \in Seq(Items) /\ Len(value) \in Nat
    <2>1. page \in Seq(Items)
        BY <1>2, LdapPageProperties
    <2> HIDE DEF page
    <2> QED BY <2>1, SelectProperties, LenProperties
<1>5. /\ Len(value) <= query.top
      /\ value = page => /\ page = Window(users)
                         /\ Len(page) < query.top => Len(users) <= query.skip + query.top
      /\ Len(page) > 0 => query.skip < Len(users)
    <2>1. Len(value) <= query.top
        BY <1>2, LdapPageIsShort
    <2>2. value = page => /\ page = Window(users)
                          /\ Len(page) < query.top => Len(users) <= query.skip + query.top
        BY <1>2, LdapPageIsWindow
    <2>3. LastUser(users) \in 0 .. Len(users) /\ Len(users) \in Nat
        BY <1>2, LastUserProperties, LenProperties
    <2>4. Len(page) = IF query.skip + 1 <= LastUser(users) THEN LastUser(users) - query.skip ELSE 0
        BY <1>2, LdapPageProperties
    <2> HIDE DEF page, users, value
    <2> QED BY <1>2, <2>1, <2>2, <2>3, <2>4
<1>6. Len(value) <= Len(page) /\ Len(page) \in Nat
    <2> HIDE DEF page
    <2>1. Len(value) = Cardinality(Kept(page, Items \ Nameless))
        BY <1>4, SelectProperties
    <2>2. Cardinality(Kept(page, Items \ Nameless)) \in 0 .. Len(page) /\ Len(page) \in Nat
        BY <1>4, KeptIsFinite, LenProperties
    <2> QED BY <2>1, <2>2
<1> HIDE DEF value, page, users
<1>7. /\ query' \in Queries /\ query'.listing = query.listing /\ query'.option = "none"
      /\ query'.skip = query.skip + query.top /\ query'.top = DEFAULT_TOP
    <2> DEFINE next == [query EXCEPT !.skip = query.skip + query.top]
    <2>1. query \in [listing : Listings, option : Options, top : Tops, skip : Nat]
        BY <1>2 DEF Queries
    <2>2. query.skip + query.top \in Nat /\ "none" \in Options
        BY <1>2 DEF Options
    <2>3. /\ next \in [listing : Listings, option : Options, top : Tops, skip : Nat]
          /\ next.skip = query.skip + query.top /\ next.listing = query.listing
        BY <2>1, <2>2
    <2>4. query' = [next EXCEPT !.option = "none", !.top = DEFAULT_TOP]
        BY <1>1 DEF NextLink
    <2> HIDE DEF next
    <2> QED BY <1>2, <2>2, <2>3, <2>4 DEF Queries
<1>8. pc' \in {"asked", "done"} /\ (pc' = "asked" => Len(value) >= query.top)
      /\ (pc' = "done" => Len(value) < query.top)
    BY <1>1, <1>2, <1>4
<1>9. cut' \in BOOLEAN /\ (cut => cut') /\ (~cut' => value = page)
    BY <1>1, Zenon
<1>10. TurnsPage(value)
    BY <1>1, <1>7, <1>8, <1>9 DEF TurnsPage
<1>11. SameQuery'
    <2>1. first' = first
        BY <1>1 DEF history
    <2> QED BY <1>1, <1>3, <1>7, <2>1 DEF SameQuery
<1>12. ASSUME Paged
       PROVE  IsPage(value)
    <2>1. users = Listed
        <3>1. query.option = "none"
            BY <1>3, <1>12 DEF Paged, PagingInv, SameQuery, Tables, FolderItems
        <3> QED BY <1>3, <3>1 DEF users, Restricted, Listed, Searched
    <2>2. query'.top <= Longest
        BY <1>2, <1>3, <1>7 DEF Longest
    <2>3. pc' = "asked" => query.skip < Len(Listed)
        BY <1>2, <1>4, <1>5, <1>6, <1>8, <2>1
    <2>4. ~cut' => value = Window(Listed) /\ (pc' = "done" => Len(Listed) <= query.skip + query.top)
        BY <1>5, <1>8, <1>9, <2>1
    <2> QED BY <1>5, <1>7, <2>2, <2>3, <2>4 DEF IsPage
<1> QED BY <1>4, <1>10, <1>11, <1>12, PageKeeps

LEMMA GetKeeps ==
    ASSUME PagingInv, Get
    PROVE  PagingInv'
<1> USE DEF Asked
<1>1. table \in Seq(Items) /\ Restricted \in Seq(Items)
    BY ListedProperties DEF PagingInv
<1>2. CASE GetMessages \/ GetContacts \/ GetContactsOfFolder
    BY <1>2, FolderGenKeeps DEF GetMessages, GetContacts, GetContactsOfFolder, FolderItems
<1>3. CASE \/ GetEvents \/ GetEventsOfCalendar \/ GetInstances \/ GetCalendarView
           \/ GetCalendars \/ GetContactFolders
    <2>1. /\ pc = "asked" /\ pages < MaxPages /\ query.listing \in Tables \ Searched
          /\ Generate(table)
        BY <1>3
           DEF GetEvents, GetEventsOfCalendar, GetInstances, GetCalendarView,
               GetCalendars, GetContactFolders, Tables, Searched
    <2> QED BY <1>1, <2>1, GenerateKeeps, TablesAreListed
<1>4. CASE GetMailFolders \/ GetChildFolders \/ GetUsers
    <2>1. /\ pc = "asked" /\ pages < MaxPages /\ query.listing \in Searched
          /\ Generate(Restricted)
        BY <1>4 DEF GetMailFolders, GetChildFolders, GetUsers, Searched
    <2> QED BY <1>1, <2>1, GenerateKeeps, TablesAreListed
<1>5. CASE GetGroups \/ GetMembers \/ GetMemberOf \/ GetAttachments
    BY <1>5, WholeKeeps DEF GetGroups, GetMembers, GetMemberOf, GetAttachments, Wholes
<1>6. CASE GetLdapUsers
    BY <1>6, LdapKeeps
<1> QED BY <1>2, <1>3, <1>4, <1>5, <1>6 DEF Get

-----------------------------------------------------------------------------
(* The table changes.                                                      *)

LEMMA InsertedIsTable ==
    ASSUME NEW t \in Seq(Items), OneToOne(t), NEW i \in Items, i \notin Range(t),
           NEW p \in 1 .. Len(t) + 1
    PROVE  /\ InsertAt(t, p, i) \in Seq(Items) /\ OneToOne(InsertAt(t, p, i))
           /\ Range(t) \subseteq Range(InsertAt(t, p, i))
<1>0. /\ InsertAt(t, p, i) \in Seq(Items)
      /\ Len(InsertAt(t, p, i)) = Len(t) + 1
      /\ \A j \in 1 .. Len(t) + 1 :
            InsertAt(t, p, i)[j] = IF j < p THEN t[j] ELSE IF j = p THEN i ELSE t[j - 1]
    BY InsertInTable
<1> DEFINE u == InsertAt(t, p, i)
<1>1. Len(t) \in Nat /\ DOMAIN t = 1 .. Len(t) /\ p \in Nat
    BY LenProperties
<1>2. /\ u \in Seq(Items) /\ Len(u) = Len(t) + 1
      /\ \A j \in 1 .. Len(t) + 1 :
            u[j] = IF j < p THEN t[j] ELSE IF j = p THEN i ELSE t[j - 1]
    BY <1>0
<1> HIDE DEF u
<1>3. DOMAIN u = 1 .. Len(t) + 1
    BY <1>2, LenProperties
<1>4. \A j \in 1 .. Len(t) : t[j] # i
    BY <1>1 DEF Range
<1>5. OneToOne(u)
    <2> DEFINE back(j) == IF j < p THEN j ELSE j - 1
    <2>1. ASSUME NEW j \in 1 .. Len(t) + 1, j # p
          PROVE  back(j) \in 1 .. Len(t) /\ u[j] = t[back(j)] /\ u[j] # i
        BY <1>1, <1>2, <1>4, <2>1
    <2>2. u[p] = i
        BY <1>1, <1>2
    <2> SUFFICES ASSUME NEW j \in 1 .. Len(t) + 1, NEW k \in 1 .. Len(t) + 1, u[j] = u[k]
                 PROVE  j = k
        BY <1>3 DEF OneToOne
    <2>3. CASE j = p \/ k = p
        BY <2>1, <2>2, <2>3
    <2>4. CASE j # p /\ k # p
        <3>1. back(j) = back(k)
            <4>1. /\ back(j) \in DOMAIN t /\ back(k) \in DOMAIN t
                  /\ t[back(j)] = t[back(k)]
                BY <1>1, <2>1, <2>4
            <4> HIDE DEF back
            <4> QED BY <4>1 DEF OneToOne
        <3> QED BY <1>1, <2>4, <3>1
    <2> QED BY <2>3, <2>4
<1>6. ASSUME NEW j \in 1 .. Len(t)
      PROVE  t[j] \in Range(u)
    <2>1. CASE j < p
        BY <1>1, <1>2, <1>3, <2>1 DEF Range
    <2>2. CASE ~(j < p)
        <3>1. j + 1 \in 1 .. Len(t) + 1 /\ ~(j + 1 < p) /\ j + 1 # p /\ (j + 1) - 1 = j
            BY <1>1, <2>2
        <3>2. u[j + 1] = t[j]
            BY <1>2, <3>1
        <3> QED BY <1>3, <3>1, <3>2 DEF Range
    <2> QED BY <2>1, <2>2
<1>7. Range(t) \subseteq Range(u)
    BY <1>1, <1>6 DEF Range
<1> QED BY <1>2, <1>5, <1>7 DEF u

LEMMA RemovedIsTable ==
    ASSUME NEW t \in Seq(Items), OneToOne(t), NEW p \in 1 .. Len(t)
    PROVE  RemoveAt(t, p) \in Seq(Items) /\ OneToOne(RemoveAt(t, p))
<1> DEFINE u == RemoveAt(t, p)
<1>1. Len(t) \in Nat /\ DOMAIN t = 1 .. Len(t) /\ p \in Nat
    BY LenProperties
<1>2. /\ u \in Seq(Items) /\ Len(u) = Len(t) - 1
      /\ \A j \in 1 .. Len(t) - 1 : u[j] = IF j < p THEN t[j] ELSE t[j + 1]
    BY RemoveAtProperties
<1> HIDE DEF u
<1>3. DOMAIN u = 1 .. Len(t) - 1
    BY <1>2, LenProperties
<1>4. OneToOne(u)
    <2> DEFINE back(j) == IF j < p THEN j ELSE j + 1
    <2>1. ASSUME NEW j \in 1 .. Len(t) - 1
          PROVE  back(j) \in 1 .. Len(t) /\ u[j] = t[back(j)]
        BY <1>1, <1>2
    <2> SUFFICES ASSUME NEW j \in 1 .. Len(t) - 1, NEW k \in 1 .. Len(t) - 1, u[j] = u[k]
                 PROVE  j = k
        BY <1>3 DEF OneToOne
    <2>2. back(j) = back(k)
        <3>1. /\ back(j) \in DOMAIN t /\ back(k) \in DOMAIN t
              /\ t[back(j)] = t[back(k)]
            BY <1>1, <2>1
        <3> HIDE DEF back
        <3> QED BY <3>1 DEF OneToOne
    <2> QED BY <1>1, <2>2
<1> QED BY <1>2, <1>4 DEF u

LEMMA ArriveKeeps ==
    ASSUME PagingInv, NEW i \in Items, NEW p \in 1 .. Len(table) + 1, Arrive(i, p)
    PROVE  PagingInv'
<1>1. /\ pc = "asked" /\ changes < MaxChanges /\ changes' = changes + 1
      /\ i \notin Range(table) /\ table' = InsertAt(table, p, i)
      /\ disturbed' = (IF disturbed = "shrunk" THEN "shrunk" ELSE "grown")
      /\ pc' = pc /\ query' = query /\ got' = got /\ pages' = pages /\ cut' = cut
      /\ first' = first /\ stayed' = stayed
    BY DEF Arrive, MayChange, client
<1>2. table \in Seq(Items) /\ OneToOne(table)
    BY ListedProperties DEF PagingInv
<1>3. /\ table' \in Seq(Items) /\ OneToOne(table')
      /\ Range(table) \subseteq Range(table')
    BY <1>1, <1>2, InsertedIsTable
<1>4. (Paged' <=> Paged) /\ Longest' = Longest
    BY <1>1 DEF Paged, Longest
<1>5. TypeOK'
    <2>1. table' \in UNION {SetToSeqs(S) : S \in SUBSET Items}
        BY <1>3, OrdersAreTables DEF Orders
    <2>2. changes' \in 0 .. MaxChanges
        BY <1>1, PagingAssumption DEF PagingInv, TypeOK
    <2>3. disturbed' \in {"no", "grown", "shrunk"}
        BY <1>1
    <2> QED BY <1>1, <1>4, <2>1, <2>2, <2>3 DEF PagingInv, TypeOK
<1>6. SameQuery' /\ PagesAreShort' /\ PagesMoveOn' /\ Beginning' /\ PagingEnds'
    BY <1>1, <1>4
       DEF PagingInv, SameQuery, PagesAreShort, PagesMoveOn, Beginning, PagingEnds
<1>7. disturbed' # "no" /\ (disturbed' # "shrunk" => disturbed # "shrunk")
    BY <1>1
<1>8. ListIsPassed'
    BY <1>7 DEF ListIsPassed
<1>9. StayedAreThere'
    BY <1>1, <1>3, <1>7 DEF PagingInv, StayedAreThere
<1>10. NoneIsHidden'
    <2> SUFFICES ASSUME Paged, ~cut, disturbed # "shrunk",
                        NEW n \in 1 .. Len(Listed'), Listed'[n] \in stayed,
                        n <= query.skip
                 PROVE  Listed'[n] \in Range(got)
        BY <1>1, <1>4, <1>7 DEF NoneIsHidden
    <2>1. Listed'[n] # i
        BY <1>1 DEF PagingInv, StayedAreThere
    <2>2. \E m \in 1 .. Len(Listed) : m <= n /\ Listed[m] = Listed'[n]
        <3>1. CASE first.listing \in Searched /\ first.option = "$search"
            <4>1. /\ Listed = Select(table, Matching)
                  /\ Listed' = Select(InsertAt(table, p, i), Matching)
                BY <1>1, <3>1 DEF Listed, Found
            <4> QED BY <1>2, <2>1, <4>1, SelectionGrows
        <3>2. CASE ~(first.listing \in Searched /\ first.option = "$search")
            <4>1. Listed = table /\ Listed' = InsertAt(table, p, i)
                BY <1>1, <3>2 DEF Listed
            <4>2. LET m == IF n < p THEN n ELSE n - 1
                  IN m \in 1 .. Len(table) /\ m <= n /\ table[m] = InsertAt(table, p, i)[n]
                BY <1>2, <2>1, <4>1, TableGrows
            <4> QED BY <4>1, <4>2
        <3> QED BY <3>1, <3>2
    <2>3. PICK m \in 1 .. Len(Listed) : m <= n /\ Listed[m] = Listed'[n]
        BY <2>2
    <2>4. m <= query.skip
        <3>1. query.skip \in Nat /\ m \in Nat /\ n \in Nat
            BY QueryTypes DEF PagingInv
        <3> QED BY <2>3, <3>1
    <2> QED BY <1>1, <2>3, <2>4 DEF PagingInv, NoneIsHidden
<1> QED BY <1>5, <1>6, <1>8, <1>9, <1>10 DEF PagingInv

LEMMA LeaveKeeps ==
    ASSUME PagingInv, NEW p \in 1 .. Len(table), Leave(p)
    PROVE  PagingInv'
<1>1. /\ pc = "asked" /\ changes < MaxChanges /\ changes' = changes + 1
      /\ table' = RemoveAt(table, p) /\ stayed' = stayed \ {table[p]}
      /\ disturbed' = "shrunk"
      /\ pc' = pc /\ query' = query /\ got' = got /\ pages' = pages /\ cut' = cut
      /\ first' = first
    BY DEF Leave, MayChange, client
<1>2. table \in Seq(Items) /\ OneToOne(table)
    BY ListedProperties DEF PagingInv
<1>3. table' \in Seq(Items) /\ OneToOne(table')
    BY <1>1, <1>2, RemovedIsTable
<1>4. (Paged' <=> Paged) /\ Longest' = Longest
    BY <1>1 DEF Paged, Longest
<1>5. TypeOK'
    <2>1. table' \in UNION {SetToSeqs(S) : S \in SUBSET Items}
        BY <1>3, OrdersAreTables DEF Orders
    <2>2. changes' \in 0 .. MaxChanges /\ stayed' \subseteq Items
        BY <1>1, PagingAssumption DEF PagingInv, TypeOK
    <2> QED BY <1>1, <1>4, <2>1, <2>2 DEF PagingInv, TypeOK
<1>6. SameQuery' /\ PagesAreShort' /\ PagesMoveOn' /\ Beginning' /\ PagingEnds'
    BY <1>1, <1>4
       DEF PagingInv, SameQuery, PagesAreShort, PagesMoveOn, Beginning, PagingEnds
<1>7. ListIsPassed' /\ StayedAreThere' /\ NoneIsHidden'
    BY <1>1 DEF ListIsPassed, StayedAreThere, NoneIsHidden
<1> QED BY <1>5, <1>6, <1>7 DEF PagingInv

-----------------------------------------------------------------------------
(* The invariant                                                           *)

LEMMA OpenKeeps ==
    ASSUME PagingInv, Open
    PROVE  PagingInv'
<1>1. /\ pc = "idle" /\ pc' = "asked" /\ stayed' = Range(table) /\ disturbed' = "no"
      /\ table' = table /\ changes' = changes /\ query' = query /\ got' = got
      /\ pages' = pages /\ first' = first /\ cut' = cut
    BY DEF Open
<1>2. /\ table \in Seq(Items) /\ Listed \in Seq(Items) /\ query.skip = 0 /\ got = <<>>
      /\ pages \in Nat
    BY <1>1, ListedProperties DEF PagingInv, Beginning, TypeOK
<1>3. (Paged' <=> Paged) /\ Listed' = Listed /\ Longest' = Longest
    BY <1>1 DEF Paged, Listed, Found, Longest
<1>4. Range(table) \subseteq Items
    BY <1>2 DEF Range
<1>5. TypeOK'
    BY <1>1, <1>3, <1>4 DEF PagingInv, TypeOK
<1>6. SameQuery' /\ PagesAreShort' /\ Beginning' /\ StayedAreThere' /\ PagingEnds'
    BY <1>1, <1>3
       DEF PagingInv, SameQuery, PagesAreShort, Beginning, StayedAreThere, PagingEnds
<1>7. PagesMoveOn'
    <2>1. Paged => pages <= query.skip
        BY DEF PagingInv, PagesMoveOn
    <2> QED BY <1>1, <1>2, <1>3, <2>1 DEF PagesMoveOn
<1>8. ListIsPassed'
    <2>1. UpTo(Listed, 0) = <<>>
        BY <1>2, UpToProperties
    <2> QED BY <1>1, <1>2, <1>3, <2>1 DEF ListIsPassed, UpTo
<1>9. NoneIsHidden'
    BY <1>1, <1>2 DEF NoneIsHidden
<1> QED BY <1>5, <1>6, <1>7, <1>8, <1>9 DEF PagingInv

\* A client that gives up has seen more pages than there are items.
LEMMA GiveUpKeeps ==
    ASSUME PagingInv, GiveUp
    PROVE  PagingInv'
<1>1. pc = "asked" /\ pages = MaxPages /\ Stop("gone")
    BY DEF GiveUp
<1>2. Cardinality(Items) \in Nat
    BY ListedProperties DEF PagingInv
<1>3. ~Paged
    BY <1>1, <1>2, PagingAssumption DEF PagingInv, PagesMoveOn
<1> QED BY <1>1, <1>3, StopKeeps

LEMMA InitInv == Init => PagingInv
<1> SUFFICES ASSUME Init
             PROVE  PagingInv
    OBVIOUS
<1> USE DEF Init
<1>1. /\ query \in [listing : Listings, option : Options, top : Tops, skip : {0}]
      /\ first = query /\ query.top \in Nat \ {0}
    BY PagingAssumption DEF FirstQueries
<1>2. table \in UNION {SetToSeqs(S) : S \in SUBSET Items}
    OBVIOUS
<1>3. table \in Seq(Items) /\ Listed \in Seq(Items)
    <2>1. table \in Seq(Items)
        BY <1>2, OrdersAreTables DEF Orders
    <2> QED BY <2>1, SelectProperties DEF Listed, Found
<1>4. got = <<>> /\ Len(got) = 0 /\ got \in Seq(Items)
    BY EmptySeq
<1>5. Longest \in Nat \ {0} /\ query.top <= Longest
    BY <1>1, PagingAssumption DEF Longest
<1>6. TypeOK
    <2>1. query \in Queries /\ query.skip = 0
        BY <1>1 DEF Queries
    <2>2. \E top \in Tops : Len(got) <= pages * top
        BY <1>4, PagingAssumption
    <2>3. changes \in 0 .. MaxChanges /\ pages \in 0 .. MaxPages
        BY PagingAssumption
    <2>4. /\ pc \in {"idle", "asked", "done", "failed", "gone"} /\ stayed \subseteq Items
          /\ disturbed \in {"no", "grown", "shrunk"} /\ cut \in BOOLEAN
        OBVIOUS
    <2> QED BY <1>1, <1>2, <1>4, <2>1, <2>2, <2>3, <2>4 DEF TypeOK
<1>7. SameQuery /\ StayedAreThere /\ PagingEnds
    BY <1>1 DEF SameQuery, StayedAreThere, PagingEnds
<1>8. PagesAreShort /\ PagesMoveOn /\ Beginning
    BY <1>1, <1>4, <1>5 DEF PagesAreShort, PagesMoveOn, Beginning
<1>9. ListIsPassed
    <2>1. UpTo(Listed, 0) = <<>> /\ query.skip = 0
        BY <1>1, <1>3, UpToProperties
    <2> QED BY <1>4, <2>1 DEF ListIsPassed
<1>10. NoneIsHidden
    BY DEF NoneIsHidden
<1> QED BY <1>6, <1>7, <1>8, <1>9, <1>10 DEF PagingInv

LEMMA NextInv == PagingInv /\ [Next]_vars => PagingInv'
<1> SUFFICES ASSUME PagingInv, [Next]_vars
             PROVE  PagingInv'
    OBVIOUS
<1>1. CASE Open
    BY <1>1, OpenKeeps
<1>2. CASE Get
    BY <1>2, GetKeeps
<1>3. CASE Refuse \/ Fail
    BY <1>3, StopKeeps DEF Refuse, Fail
<1>4. CASE GiveUp
    BY <1>4, GiveUpKeeps
<1>5. CASE \E i \in Items : \E n \in 1 .. Len(table) + 1 : Arrive(i, n)
    BY <1>5, ArriveKeeps
<1>6. CASE \E n \in 1 .. Len(table) : Leave(n)
    BY <1>6, LeaveKeeps
<1>7. CASE UNCHANGED vars
    BY <1>7
       DEF vars, client, history, PagingInv, TypeOK, SameQuery, PagesAreShort, PagesMoveOn,
           Beginning, ListIsPassed, StayedAreThere, NoneIsHidden, PagingEnds, Paged, Listed,
           Found, Longest, UpTo
<1> QED BY <1>1, <1>2, <1>3, <1>4, <1>5, <1>6, <1>7 DEF Next

\* The invariant that the theorems follow from: a client goes on with its
\* query, every page moves it on, and what it has is the list up to there.
THEOREM InvariantHolds == Spec => []PagingInv
<1> QED BY InitInv, NextInv, PTL DEF Spec

\* Every variable stays in its type, and no page of a paged list is longer
\* than the largest page size (page_limit of the generator).
THEOREM TypeCorrect == Spec => []TypeOK
<1>1. PagingInv => TypeOK
    BY DEF PagingInv
<1> QED BY <1>1, InvariantHolds, PTL

\* What a client put together from the pages is the list if that was at rest,
\* and hides no row that was there all the time if rows only arrived; for any
\* items, page size and $skip of the links (json_multi, generator).
THEOREM PagesAreListed == Spec => []PagesAreTheListing
<1>1. PagingInv => PagesAreTheListing
    <2> SUFFICES ASSUME PagingInv, pc = "done", Paged, ~cut
                 PROVE  /\ disturbed = "no" => got = Listed
                        /\ disturbed = "grown" => stayed \cap Range(Listed) \subseteq Range(got)
        BY DEF PagesAreTheListing
    <2>1. disturbed = "no" => got = Listed
        BY DEF PagingInv, ListIsPassed
    <2>2. ASSUME disturbed = "grown", NEW i \in stayed \cap Range(Listed)
          PROVE  i \in Range(got)
        <3>1. Listed \in Seq(Items)
            BY ListedProperties DEF PagingInv
        <3>2. PICK n \in 1 .. Len(Listed) : Listed[n] = i
            BY <2>2, <3>1, LenProperties DEF Range
        <3> QED BY <2>2, <3>2 DEF PagingInv, NoneIsHidden
    <2> QED BY <2>1, <2>2
<1> QED BY <1>1, InvariantHolds, PTL

\* A client that follows the links of a paged list is never left with links
\* after more pages than there are items, though json_multi puts one on every
\* page: each page but the last was not past all rows.
THEOREM PagingComesToAnEnd == Spec => []PagingEnds
<1>1. PagingInv => PagingEnds
    BY DEF PagingInv
<1> QED BY <1>1, InvariantHolds, PTL

=============================================================================
