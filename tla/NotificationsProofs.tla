------------------------ MODULE NotificationsProofs -------------------------
(***************************************************************************)
(* Proofs about Notifications, for any threads, subscriptions and changes  *)
(* and a queue of any size: nothing that a sink was told is lost on its    *)
(* way, and a batch keeps the order of the last notifications.             *)
(***************************************************************************)
EXTENDS Notifications, SequenceTheorems, TLAPS

\* The processor is at the start of its batch unless it posts one.
CursorInv == processor = "get" => cursor = 1

NotificationsInv ==
    /\ TypeOK
    /\ CursorInv
    /\ BatchInOrder
    /\ processor = "dead" \/ NothingLost

-----------------------------------------------------------------------------
(* Sequences                                                               *)

LEMMA RemoveAtProperties ==
    ASSUME NEW S, NEW s \in Seq(S), NEW i \in 1 .. Len(s)
    PROVE  /\ RemoveAt(s, i) \in Seq(S)
           /\ Len(RemoveAt(s, i)) = Len(s) - 1
           /\ \A j \in 1 .. Len(s) - 1 :
                 RemoveAt(s, i)[j] = IF j < i THEN s[j] ELSE s[j + 1]
<1> DEFINE t == SubSeq(s, 1, i - 1)
           u == SubSeq(s, i + 1, Len(s))
<1>1. Len(s) \in Nat /\ i \in Nat
    OBVIOUS
<1>2. /\ t \in Seq(S) /\ Len(t) = i - 1
      /\ \A j \in 1 .. i - 1 : t[j] = s[j]
    <2>1. \A j \in 1 .. i - 1 : s[j] \in S
        BY ElementOfSeq
    <2> HIDE DEF t
    <2>2. /\ t \in Seq(S) /\ Len(t) = IF 1 <= i - 1 THEN (i - 1) - 1 + 1 ELSE 0
          /\ \A j \in 1 .. (i - 1) - 1 + 1 : t[j] = s[1 + j - 1]
        BY <1>1, <2>1, SubSeqProperties DEF t
    <2> QED BY <1>1, <2>2
<1>3. /\ u \in Seq(S) /\ Len(u) = Len(s) - i
      /\ \A j \in 1 .. Len(s) - i : u[j] = s[j + i]
    <2>1. \A j \in i + 1 .. Len(s) : s[j] \in S
        BY ElementOfSeq
    <2> HIDE DEF u
    <2>2. /\ u \in Seq(S)
          /\ Len(u) = IF i + 1 <= Len(s) THEN Len(s) - (i + 1) + 1 ELSE 0
          /\ \A j \in 1 .. Len(s) - (i + 1) + 1 : u[j] = s[(i + 1) + j - 1]
        BY <1>1, <2>1, SubSeqProperties DEF u
    <2> QED BY <1>1, <2>2
<1> HIDE DEF t, u
<1>4. RemoveAt(s, i) = t \o u
    BY DEF RemoveAt, t, u
<1>5. /\ t \o u \in Seq(S) /\ Len(t \o u) = Len(s) - 1
      /\ \A j \in 1 .. Len(s) - 1 :
            (t \o u)[j] = IF j <= i - 1 THEN t[j] ELSE u[j - (i - 1)]
    <2>1. /\ t \o u \in Seq(S) /\ Len(t \o u) = Len(t) + Len(u)
          /\ \A j \in 1 .. Len(t) + Len(u) :
                (t \o u)[j] = IF j <= Len(t) THEN t[j] ELSE u[j - Len(t)]
        BY <1>2, <1>3, ConcatProperties
    <2>2. Len(t) + Len(u) = Len(s) - 1
        BY <1>1, <1>2, <1>3
    <2> QED BY <1>2, <2>1, <2>2
<1>6. ASSUME NEW j \in 1 .. Len(s) - 1
      PROVE  (t \o u)[j] = IF j < i THEN s[j] ELSE s[j + 1]
    <2>1. CASE j < i
        BY <1>1, <1>2, <1>5, <2>1
    <2>2. CASE ~(j < i)
        <3>1. j - (i - 1) \in 1 .. Len(s) - i
            BY <1>1, <2>2
        <3>2. u[j - (i - 1)] = s[j - (i - 1) + i]
            BY <1>3, <3>1
        <3>3. j - (i - 1) + i = j + 1
            BY <1>1
        <3> QED BY <1>1, <1>5, <2>2, <3>2, <3>3
    <2> QED BY <2>1, <2>2
<1> QED BY <1>4, <1>5, <1>6

LEMMA TailProperties ==
    ASSUME NEW S, NEW s \in Seq(S), s # <<>>
    PROVE  /\ Tail(s) \in Seq(S)
           /\ Len(Tail(s)) = Len(s) - 1
           /\ \A j \in 1 .. Len(s) - 1 : Tail(s)[j] = s[j + 1]
           /\ Head(s) \in S
           /\ Head(s) = s[1]
           /\ Entries(s) = {Head(s)} \cup Entries(Tail(s))
<1>1. /\ Tail(s) \in Seq(S)
      /\ Len(Tail(s)) = Len(s) - 1
      /\ \A j \in 1 .. Len(s) - 1 : Tail(s)[j] = s[j + 1]
      /\ Head(s) \in S
      /\ Head(s) = s[1]
    BY HeadTailProperties, EmptySeq
<1>2. Len(s) \in Nat /\ Len(s) >= 1 /\ DOMAIN s = 1 .. Len(s)
    BY EmptySeq
<1>3. DOMAIN Tail(s) = 1 .. Len(s) - 1
    BY <1>1
<1>4. ASSUME NEW r \in Entries(s), r # s[1]
      PROVE  r \in Entries(Tail(s))
    <2>1. PICK i \in 1 .. Len(s) : s[i] = r
        BY <1>2 DEF Entries
    <2>2. i - 1 \in 1 .. Len(s) - 1 /\ (i - 1) + 1 = i
        BY <1>2, <1>4, <2>1
    <2> QED BY <1>1, <1>3, <2>1, <2>2 DEF Entries
<1>5. ASSUME NEW r \in Entries(Tail(s))
      PROVE  r \in Entries(s)
    BY <1>1, <1>2, <1>3, <1>5 DEF Entries
<1>6. s[1] \in Entries(s)
    BY <1>2 DEF Entries
<1> QED BY <1>1, <1>4, <1>5, <1>6

LEMMA AppendEntries ==
    ASSUME NEW S, NEW s \in Seq(S), NEW r \in S
    PROVE  /\ Append(s, r) \in Seq(S)
           /\ Len(Append(s, r)) = Len(s) + 1
           /\ \A i \in 1 .. Len(s) : Append(s, r)[i] = s[i]
           /\ Append(s, r)[Len(s) + 1] = r
           /\ Entries(Append(s, r)) = Entries(s) \cup {r}
<1>1. /\ Append(s, r) \in Seq(S)
      /\ Len(Append(s, r)) = Len(s) + 1
      /\ \A i \in 1 .. Len(s) : Append(s, r)[i] = s[i]
      /\ Append(s, r)[Len(s) + 1] = r
    BY AppendProperties
<1>2. DOMAIN s = 1 .. Len(s) /\ DOMAIN Append(s, r) = 1 .. Len(s) + 1 /\ Len(s) \in Nat
    BY <1>1
<1> QED BY <1>1, <1>2 DEF Entries

(* The LastUpdatedOrderedDict: the entries are those there were and the    *)
(* new one, which comes last, and the others keep their order: the one now *)
(* at i was at Was(i).                                                     *)
Distinct(s) == \A i, j \in DOMAIN s : i < j => s[i] # s[j]

Was(s, r, i) == IF r \in Entries(s) /\ i >= Place(s, r) THEN i + 1 ELSE i

UpdatedWith(s, r, new) ==
    LET n == Len(new)
    IN /\ n \in Nat \ {0}
       /\ new[n] = r
       /\ \A i \in 1 .. n - 1 :
             /\ Was(s, r, i) \in DOMAIN s
             /\ new[i] = s[Was(s, r, i)]
             /\ new[i] # r
       /\ \A i, j \in 1 .. n - 1 : i < j => Was(s, r, i) < Was(s, r, j)
       /\ Entries(new) = Entries(s) \cup {r}

LEMMA LastUpdatedProperties ==
    ASSUME NEW S, NEW s \in Seq(S), NEW r \in S, Distinct(s),
           NEW new, new = LastUpdated(s, r)
    PROVE  new \in Seq(S) /\ UpdatedWith(s, r, new)
<1> DEFINE old == IF r \in Entries(s) THEN RemoveAt(s, Place(s, r)) ELSE s
           n == Len(new)
<1>1. Len(s) \in Nat /\ DOMAIN s = 1 .. Len(s)
    OBVIOUS
<1>2. /\ old \in Seq(S) /\ Len(old) \in Nat
      /\ \A i \in 1 .. Len(old) :
            /\ Was(s, r, i) \in DOMAIN s
            /\ old[i] = s[Was(s, r, i)]
            /\ old[i] # r
      /\ \A i, j \in 1 .. Len(old) : i < j => Was(s, r, i) < Was(s, r, j)
      /\ Entries(s) \subseteq Entries(old) \cup {r}
    <2>1. CASE r \in Entries(s)
        <3> DEFINE k == Place(s, r)
        <3>1. k \in 1 .. Len(s) /\ s[k] = r
            BY <1>1, <2>1 DEF Entries, Place
        <3> HIDE DEF k
        <3>2. old = RemoveAt(s, k)
            BY <2>1 DEF k
        <3>3. /\ old \in Seq(S) /\ Len(old) = Len(s) - 1
              /\ \A i \in 1 .. Len(s) - 1 :
                    old[i] = IF i < k THEN s[i] ELSE s[i + 1]
            BY <3>1, <3>2, RemoveAtProperties
        <3>4. \A i \in 1 .. Len(s) - 1 : Was(s, r, i) = IF i >= k THEN i + 1 ELSE i
            BY <2>1 DEF Was, k
        <3> HIDE DEF old
        <3>5. \A i \in 1 .. Len(s) : i # k => s[i] # r
            BY <1>1, <3>1 DEF Distinct
        <3>6. ASSUME NEW i \in 1 .. Len(s) - 1
              PROVE  /\ Was(s, r, i) \in DOMAIN s
                     /\ old[i] = s[Was(s, r, i)]
                     /\ old[i] # r
            <4>1. CASE i < k
                BY <1>1, <3>1, <3>3, <3>4, <3>5, <4>1
            <4>2. CASE ~(i < k)
                BY <1>1, <3>1, <3>3, <3>4, <3>5, <4>2
            <4> QED BY <4>1, <4>2
        <3>7. ASSUME NEW i \in 1 .. Len(s) - 1, NEW j \in 1 .. Len(s) - 1, i < j
              PROVE  Was(s, r, i) < Was(s, r, j)
            BY <3>1, <3>4, <3>7, <1>1
        <3>8. ASSUME NEW x \in Entries(s), x # r
              PROVE  x \in Entries(old)
            <4>1. PICK i \in 1 .. Len(s) : s[i] = x
                BY <1>1 DEF Entries
            <4>2. CASE i < k
                BY <1>1, <3>1, <3>3, <4>1, <4>2 DEF Entries
            <4>3. CASE i > k
                <5>1. i - 1 \in 1 .. Len(s) - 1 /\ ~(i - 1 < k) /\ (i - 1) + 1 = i
                    BY <1>1, <3>1, <4>3
                <5>2. old[i - 1] = x
                    BY <3>3, <4>1, <5>1
                <5> QED BY <3>3, <5>1, <5>2 DEF Entries
            <4> QED BY <1>1, <3>1, <3>8, <4>1, <4>2, <4>3
        <3> QED BY <1>1, <3>1, <3>3, <3>6, <3>7, <3>8
    <2>2. CASE r \notin Entries(s)
        BY <1>1, <2>2 DEF Entries, Was
    <2> QED BY <2>1, <2>2
<1> HIDE DEF old
<1>3. new = Append(old, r)
    BY DEF LastUpdated, old
<1>4. /\ new \in Seq(S)
      /\ n = Len(old) + 1
      /\ \A i \in 1 .. Len(old) : new[i] = old[i]
      /\ new[Len(old) + 1] = r
      /\ Entries(new) = Entries(old) \cup {r}
    BY <1>2, <1>3, AppendEntries
<1>5. Entries(old) \subseteq Entries(s)
    BY <1>2 DEF Entries
<1>6. Entries(new) = Entries(s) \cup {r}
    BY <1>2, <1>4, <1>5
<1>7. n - 1 = Len(old)
    BY <1>2, <1>4
<1> QED BY <1>2, <1>4, <1>6, <1>7 DEF UpdatedWith

-----------------------------------------------------------------------------
(* The invariant                                                           *)

LEMMA NoneIsNoRecord == None \notin Records
BY NotificationsAssumption DEF Records

LEMMA InitInv == Init => NotificationsInv
<1> SUFFICES ASSUME Init PROVE NotificationsInv
    OBVIOUS
<1>1. TypeOK
    <2>1. <<>> \in Seq(Records) /\ Len(<<>>) = 0
        BY EmptySeq
    <2>2. due \in BOOLEAN /\ waited \in BOOLEAN
        BY Zenon DEF Init
    <2> QED BY <2>1, <2>2, NotificationsAssumption DEF Init, TypeOK
<1>2. BatchInOrder
    <2>1. DOMAIN pending = {}
        BY DEF Init
    <2> QED BY <2>1 DEF BatchInOrder
<1> QED BY <1>1, <1>2 DEF NotificationsInv, Init, CursorInv, NothingLost

(* What the notification threads do.                                       *)

LEMMA UpdateStep ==
    ASSUME NotificationsInv, NEW t \in Threads, NEW r \in Records, Update(t, r)
    PROVE  NotificationsInv'
<1>1. inHand'[t] = r /\ inHand \in [Threads -> Records \cup {None}]
    BY DEF Update, NotificationsInv, TypeOK
<1>2. TypeOK'
    BY DEF Update, NotificationsInv, TypeOK, processorVars
<1>3. CursorInv' /\ BatchInOrder'
    BY DEF Update, NotificationsInv, CursorInv, BatchInOrder, processorVars
<1>4. ASSUME processor # "dead" PROVE NothingLost'
    <2> SUFFICES ASSUME NEW x \in owed'
                 PROVE  \/ \E u \in Threads : inHand'[u] = x
                        \/ x \in Entries(queue)
                        \/ \E i \in cursor .. Len(pending) : pending[i] = x
        BY <1>4 DEF NothingLost, Update, processorVars, Entries
    <2>1. CASE x = r
        BY <1>1, <2>1
    <2>2. CASE x # r
        <3>1. x \in owed
            BY <2>2 DEF Update
        <3>2. \A u \in Threads : inHand[u] = x => inHand'[u] = x
            BY <1>1, NoneIsNoRecord, <3>1 DEF Update, NotificationsInv, TypeOK
        <3> QED BY <1>4, <3>1, <3>2 DEF NotificationsInv, NothingLost
    <2> QED BY <2>1, <2>2
<1> QED BY <1>2, <1>3, <1>4 DEF NotificationsInv, Update, processorVars

LEMMA PutStep ==
    ASSUME NotificationsInv, NEW t \in Threads, Put(t)
    PROVE  NotificationsInv'
<1> DEFINE r == inHand[t]
<1>1. r \in Records /\ queue \in Seq(Records) /\ queue' = Append(queue, r)
    BY DEF Put, NotificationsInv, TypeOK
<1>2. /\ queue' \in Seq(Records)
      /\ Len(queue') = Len(queue) + 1
      /\ Entries(queue') = Entries(queue) \cup {r}
    BY <1>1, AppendEntries
<1>3. TypeOK'
    <2>1. Len(queue') <= QueueMaxSize
        BY <1>1, <1>2, NotificationsAssumption DEF Put, HasRoom
    <2>2. inHand' \in [Threads -> Records \cup {None}]
        BY DEF Put, NotificationsInv, TypeOK
    <2>3. napping' \subseteq {u \in Threads : inHand'[u] # None}
        BY DEF Put, NotificationsInv, TypeOK
    <2>4. UNCHANGED <<attached, processorVars, owed>>
        BY DEF Put
    <2> QED BY <1>2, <2>1, <2>2, <2>3, <2>4 DEF NotificationsInv, TypeOK, processorVars
<1>4. CursorInv' /\ BatchInOrder'
    BY DEF Put, NotificationsInv, CursorInv, BatchInOrder, processorVars
<1>5. ASSUME processor # "dead" PROVE NothingLost'
    <2> SUFFICES ASSUME NEW x \in owed
                 PROVE  \/ \E u \in Threads : inHand'[u] = x
                        \/ x \in Entries(queue')
                        \/ \E i \in cursor .. Len(pending) : pending[i] = x
        BY <1>5 DEF NothingLost, Put, processorVars, Entries
    <2>1. \A u \in Threads : inHand[u] = x => u = t \/ inHand'[u] = x
        BY DEF Put, NotificationsInv, TypeOK
    <2>2. inHand[t] = x => x \in Entries(queue')
        BY <1>2
    <2> QED BY <1>2, <1>5, <2>1, <2>2 DEF NotificationsInv, NothingLost
<1> QED BY <1>3, <1>4, <1>5 DEF NotificationsInv, Put, processorVars

LEMMA SinkAndClockStep ==
    ASSUME NotificationsInv,
           \/ \E t \in Threads : PutFull(t) \/ Wake(t)
           \/ \E s \in Subs : Unsubscribe(s)
           \/ Clock
           \/ UNCHANGED vars
    PROVE  NotificationsInv'
<1>1. TypeOK'
    BY DEF NotificationsInv, TypeOK, PutFull, Wake, Unsubscribe, Clock, BecomeDue,
           WaitLong, vars, processorVars
<1>2. UNCHANGED <<queue, inHand, pending, processor, cursor, owed, earlier>>
    BY DEF PutFull, Wake, Unsubscribe, Clock, BecomeDue, WaitLong, vars, processorVars
<1> QED BY <1>1, <1>2
        DEF NotificationsInv, CursorInv, BatchInOrder, NothingLost, Entries

(* What the processor does.                                                *)

LEMMA GetStep ==
    ASSUME NotificationsInv, Get
    PROVE  NotificationsInv'
<1> DEFINE r == Head(queue)
<1>1. /\ queue \in Seq(Records) /\ pending \in Seq(Records)
      /\ inHand \in [Threads -> Records \cup {None}]
      /\ owed \subseteq Records /\ earlier \subseteq Records \X Records
      /\ processor = "get" /\ cursor = 1 /\ queue # <<>>
      /\ queue' = Tail(queue)
      /\ UNCHANGED <<inHand, napping, attached, owed>>
    BY DEF Get, NotificationsInv, TypeOK, CursorInv
<1>2. /\ queue' \in Seq(Records)
      /\ Len(queue') = Len(queue) - 1
      /\ r \in Records
      /\ Entries(queue) = {r} \cup Entries(queue')
    BY <1>1, TailProperties
<1>3. queue' \in Seq(Records) /\ Len(queue') <= QueueMaxSize
    BY <1>1, <1>2, NotificationsAssumption DEF NotificationsInv, TypeOK
<1>4. CASE r[1] \notin WithClientState
    <2>1. processor' = "dead" /\ UNCHANGED <<pending, due, waited, cursor, earlier>>
        BY <1>4 DEF Get
    <2>2. TypeOK'
        BY <1>1, <1>3, <2>1 DEF NotificationsInv, TypeOK
    <2> QED BY <2>1, <2>2 DEF NotificationsInv, CursorInv, BatchInOrder
<1>5. CASE r[1] \in WithClientState
    <2> DEFINE n == Len(pending')
    <2>1. /\ pending' = LastUpdated(pending, r)
          /\ earlier' = EarlierWith(r)
          /\ due' = (due /\ pending # <<>>)
          /\ waited' = FALSE
          /\ processor' = IF due /\ pending # <<>> THEN "post" ELSE "get"
          /\ UNCHANGED cursor
        BY <1>5 DEF Get
    <2>2. Distinct(pending)
        BY DEF NotificationsInv, BatchInOrder, Distinct
    <2>3. /\ pending' \in Seq(Records)
          /\ n \in Nat \ {0}
          /\ pending'[n] = r
          /\ \A i \in 1 .. n - 1 :
                /\ Was(pending, r, i) \in DOMAIN pending
                /\ pending'[i] = pending[Was(pending, r, i)]
                /\ pending'[i] # r
          /\ \A i, j \in 1 .. n - 1 :
                i < j => Was(pending, r, i) < Was(pending, r, j)
          /\ Entries(pending') = Entries(pending) \cup {r}
        <3>1. pending' \in Seq(Records) /\ UpdatedWith(pending, r, pending')
            <4>1. pending \in Seq(Records) /\ r \in Records
                BY <1>1, <1>2
            <4> HIDE DEF r
            <4> QED BY <2>1, <2>2, <4>1, LastUpdatedProperties
        <3> QED BY <3>1 DEF UpdatedWith
    <2>4. TypeOK'
        <3>1. earlier' \subseteq Records \X Records
            <4>1. Entries(pending) \subseteq Records
                BY <1>1 DEF Entries
            <4> QED BY <1>1, <1>2, <2>1, <4>1 DEF EarlierWith
        <3>2. cursor' \in 1 .. Len(pending') + 1
            BY <1>1, <2>1, <2>3
        <3>3. due' \in BOOLEAN /\ waited' \in BOOLEAN
            BY <2>1, Zenon
        <3>4. processor' \in {"get", "post", "dead"}
            BY <2>1
        <3> QED BY <1>1, <1>3, <2>3, <3>1, <3>2, <3>3, <3>4 DEF NotificationsInv, TypeOK
    <2>5. CursorInv'
        BY <1>1, <2>1 DEF CursorInv
    <2>6. BatchInOrder'
        <3> SUFFICES ASSUME NEW i \in DOMAIN pending', NEW j \in DOMAIN pending', i < j
                     PROVE  /\ pending'[i] # pending'[j]
                            /\ <<pending'[i], pending'[j]>> \in earlier'
            BY DEF BatchInOrder
        <3>1. i \in 1 .. n - 1 /\ j \in 1 .. n
            BY <2>3
        <3> DEFINE k == Was(pending, r, i)
        <3>2. k \in DOMAIN pending /\ pending'[i] = pending[k] /\ pending'[i] # r
            BY <2>3, <3>1
        <3>3. CASE j = n
            <4>1. pending'[i] \in Entries(pending) \ {r}
                BY <3>2 DEF Entries
            <4> QED BY <2>1, <2>3, <3>2, <3>3, <4>1 DEF EarlierWith
        <3>4. CASE j # n
            <4> DEFINE l == Was(pending, r, j)
            <4>1. j \in 1 .. n - 1
                BY <2>3, <3>1, <3>4
            <4>2. l \in DOMAIN pending /\ pending'[j] = pending[l] /\ pending'[j] # r
                  /\ k < l
                BY <2>3, <3>1, <4>1
            <4> HIDE DEF k, l
            <4>3. pending[k] # pending[l] /\ <<pending[k], pending[l]>> \in earlier
                BY <3>2, <4>2 DEF NotificationsInv, BatchInOrder
            <4> QED BY <2>1, <3>2, <4>2, <4>3 DEF EarlierWith
        <3> QED BY <3>3, <3>4
    <2>7. NothingLost'
        <3> SUFFICES ASSUME NEW x \in owed
                     PROVE  \/ \E t \in Threads : inHand[t] = x
                            \/ x \in Entries(queue')
                            \/ \E i \in 1 .. n : pending'[i] = x
            BY <1>1, <2>1 DEF NothingLost, Entries
        <3>1. DOMAIN pending' = 1 .. n /\ DOMAIN pending = 1 .. Len(pending)
            BY <1>1, <2>3
        <3>2. x \in Entries(pending') => \E i \in 1 .. n : pending'[i] = x
            BY <3>1 DEF Entries
        <3>3. \/ \E t \in Threads : inHand[t] = x
              \/ x \in Entries(queue)
              \/ x \in Entries(pending)
            BY <1>1, <3>1 DEF NotificationsInv, NothingLost, Entries
        <3> QED BY <1>2, <2>3, <3>2, <3>3
    <2> QED BY <2>4, <2>5, <2>6, <2>7 DEF NotificationsInv
<1> QED BY <1>4, <1>5

LEMMA GetEmptyStep ==
    ASSUME NotificationsInv, GetEmpty
    PROVE  NotificationsInv'
<1>1. /\ processor = "get" /\ processor' = "post"
      /\ UNCHANGED <<queue, inHand, napping, attached, pending, due, waited,
                     cursor, owed, earlier>>
    BY DEF GetEmpty
<1> QED BY <1>1
        DEF NotificationsInv, TypeOK, CursorInv, BatchInOrder, NothingLost, Entries

\* A record that was told again stays owed: a thread or the queue has it. The
\* others of the batch are not at the cursor, for a batch names each once.
LEMMA PostStep ==
    ASSUME NotificationsInv, Post
    PROVE  NotificationsInv'
<1>1. PICK r \in Records :
        /\ processor = "post" /\ cursor <= Len(pending) /\ pending[cursor] = r
        /\ cursor' = cursor + 1
        /\ owed' = IF ToldAgain(r) THEN owed ELSE owed \ {r}
        /\ UNCHANGED <<queue, inHand, napping, attached, pending, due, waited,
                       processor, earlier>>
    BY DEF Post, Posting
<1>2. cursor \in 1 .. Len(pending) + 1 /\ Len(pending) \in Nat
    BY DEF NotificationsInv, TypeOK
<1>3. TypeOK'
    <2>1. cursor' \in 1 .. Len(pending') + 1
        BY <1>1, <1>2
    <2>2. owed' \subseteq Records
        BY <1>1 DEF NotificationsInv, TypeOK
    <2> QED BY <1>1, <2>1, <2>2 DEF NotificationsInv, TypeOK
<1>4. CursorInv' /\ BatchInOrder'
    BY <1>1 DEF NotificationsInv, CursorInv, BatchInOrder
<1>5. NothingLost'
    <2> SUFFICES ASSUME NEW x \in owed'
                 PROVE  \/ \E t \in Threads : inHand[t] = x
                        \/ x \in Entries(queue)
                        \/ \E i \in cursor + 1 .. Len(pending) : pending[i] = x
        BY <1>1 DEF NothingLost, Entries
    <2>1. CASE ToldAgain(r) /\ x = r
        BY <2>1 DEF ToldAgain
    <2>2. CASE x # r
        <3>1. \/ \E t \in Threads : inHand[t] = x
              \/ x \in Entries(queue)
              \/ \E i \in cursor .. Len(pending) : pending[i] = x
            BY <1>1 DEF NotificationsInv, NothingLost
        <3>2. ASSUME NEW i \in cursor .. Len(pending), pending[i] = x
              PROVE  i \in cursor + 1 .. Len(pending)
            BY <1>1, <1>2, <2>2, <3>2
        <3> QED BY <3>1, <3>2
    <2> QED BY <1>1, <2>1, <2>2
<1> QED BY <1>3, <1>4, <1>5 DEF NotificationsInv

LEMMA EndBatchStep ==
    ASSUME NotificationsInv, EndBatch
    PROVE  NotificationsInv'
<1>1. /\ processor = "post" /\ cursor > Len(pending)
      /\ pending' = <<>> /\ earlier' = {} /\ due' = FALSE /\ waited' = FALSE
      /\ cursor' = 1 /\ processor' = "get"
      /\ UNCHANGED <<queue, inHand, napping, attached, owed>>
    BY DEF EndBatch
<1>2. pending' \in Seq(Records) /\ Len(pending') = 0 /\ DOMAIN pending' = {}
    BY <1>1, EmptySeq
<1>3. TypeOK'
    <2>1. due' \in BOOLEAN /\ waited' \in BOOLEAN
        BY <1>1, Zenon
    <2> QED BY <1>1, <1>2, <2>1 DEF NotificationsInv, TypeOK
<1>4. CursorInv' /\ BatchInOrder'
    BY <1>1, <1>2 DEF CursorInv, BatchInOrder
<1>5. NothingLost'
    <2>1. cursor \in 1 .. Len(pending) + 1 /\ Len(pending) \in Nat
        BY DEF NotificationsInv, TypeOK
    <2>2. ~ \E i \in cursor .. Len(pending) : TRUE
        BY <1>1, <2>1
    <2> QED BY <1>1, <2>2 DEF NotificationsInv, NothingLost, Entries
<1> QED BY <1>3, <1>4, <1>5 DEF NotificationsInv

LEMMA NextInv == NotificationsInv /\ [Next]_vars => NotificationsInv'
<1> SUFFICES ASSUME NotificationsInv, [Next]_vars PROVE NotificationsInv'
    OBVIOUS
<1> QED BY UpdateStep, PutStep, SinkAndClockStep, GetStep, GetEmptyStep, PostStep,
           EndBatchStep DEF Next, Processor, Sink

THEOREM InvariantHolds == Spec => []NotificationsInv
<1> QED BY InitInv, NextInv, PTL DEF Spec

-----------------------------------------------------------------------------
(* The properties of the run                                               *)

\* Every variable keeps its type: among others the queue never holds more than
\* config.SUBSCRIPTION_QUEUE_MAXSIZE, and only a thread with a notification naps.
THEOREM TypeCorrect == Spec => []TypeOK
BY InvariantHolds, PTL DEF NotificationsInv

\* SubscriptionProcessor posts a batch in the order of the last notifications,
\* each record once.
THEOREM BatchKeepsOrder == Spec => []BatchInOrder
BY InvariantHolds, PTL DEF NotificationsInv

\* As long as the processor thread lives, what a sink was told is with its
\* thread, on the queue or in the batch until its POST was tried.
THEOREM NothingLostAlive == Spec => [](processor # "dead" => NothingLost)
<1>1. NotificationsInv => (processor # "dead" => NothingLost)
    BY DEF NotificationsInv
<1> QED BY <1>1, InvariantHolds, PTL

\* Only a subscription without clientState ends the processor: when all have
\* one, nothing is ever lost on the way.
THEOREM NothingIsLost ==
    ASSUME WithClientState = Subs
    PROVE  Spec => []NothingLost
<1> DEFINE Alive == processor # "dead"
<1>1. Init => Alive
    BY DEF Init
<1>2. NotificationsInv /\ Alive /\ [Next]_vars => Alive'
    <2> SUFFICES ASSUME NotificationsInv, Alive, [Next]_vars
                 PROVE  Alive'
        OBVIOUS
    <2>1. CASE Get
        <3>1. Head(queue) \in Records
            BY <2>1, TailProperties DEF Get, NotificationsInv, TypeOK
        <3>2. Head(queue)[1] \in WithClientState
            BY <3>1 DEF Records
        <3> QED BY <2>1, <3>2 DEF Get
    <2>2. CASE ~Get
        BY <2>2 DEF Next, Processor, Clock, Sink, GetEmpty, Post, EndBatch, BecomeDue,
                    WaitLong, Put, PutFull, Wake, Update, Unsubscribe, vars, processorVars
    <2> QED BY <2>1, <2>2
<1>3. NotificationsInv /\ Alive => NothingLost
    BY DEF NotificationsInv
<1> HIDE DEF Alive
<1> QED BY <1>1, <1>2, <1>3, InvariantHolds, PTL DEF Spec

=============================================================================
