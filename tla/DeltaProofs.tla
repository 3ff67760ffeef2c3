---------------------------- MODULE DeltaProofs -----------------------------
(***************************************************************************)
(* Proofs about Delta, for every number of clients, items and changes: no  *)
(* entry of the mapping database is lost, and what a client puts together  *)
(* from its answers is the folder in the state of its deltaLink.           *)
(***************************************************************************)
EXTENDS Delta, TLAPS

Busy(c) == ~At(c, "idle")

\* What is in the folder was created, and nothing changed before that.
FolderInv ==
    \A i \in Items :
        /\ created[i] <= changed[i]
        /\ i \in present => created[i] > 0

\* The request that writes the file is the one that has the lock, and it has
\* read the file as it is. Its item is an item.
WriterInv ==
    \A c \in Clients :
        /\ At(c, "write") <=> lock = c
        /\ At(c, "write") => req[c].view = mapping_db
        /\ At(c, "put") \/ At(c, "write") => req[c].item \in Items

\* A client knows only of items that were created before the state it has.
KnownInv(c) == \A i \in has[c] : created[i] \in 1 .. token[c]

\* What a request holds of items that have not changed since it was asked: the
\* updates are there and the removals are not; whatever else is there and new
\* to the client was hidden by its filter; and what the client knows and is not
\* there any more is among the removals, unless one of them failed.
Settled(c, i) ==
    /\ i \in req[c].changes \cup req[c].updates => i \in present
    /\ i \in req[c].removals \cup req[c].deletes => i \notin present
    /\ changed[i] > token[c] /\ i \in present =>
          \/ i \in req[c].changes \cup req[c].updates
          \/ c \in filtered /\ i \in Old
    /\ changed[i] > token[c] /\ i \notin present /\ created[i] <= token[c] =>
          \/ i \in req[c].removals \cup req[c].deletes
          \/ c \in misled

RequestInv(c) ==
    Busy(c) =>
        /\ req[c].state \in token[c] .. clock
        /\ \A i \in req[c].changes \cup req[c].updates : created[i] \in 1 .. req[c].state
        /\ \A i \in req[c].changes \cup req[c].updates \cup req[c].removals \cup req[c].deletes :
              changed[i] > token[c]
        /\ \A i \in Items : changed[i] <= req[c].state => Settled(c, i)

ClientInv(c) ==
    /\ KnownInv(c)
    /\ RequestInv(c)
    /\ c \notin misled => Tracks(c)

DeltaInv ==
    /\ TypeOK
    /\ FolderInv
    /\ WriterInv
    /\ NoMappingLost
    /\ \A c \in Clients : ClientInv(c)

-----------------------------------------------------------------------------
(* The control record of a request                                         *)

LEMMA BusyRequest ==
    ASSUME TypeOK, NEW c \in Clients, Busy(c)
    PROVE  req[c] \in Requests
    BY DEF TypeOK, Busy, At, Idle

LEMMA IdleRequest ==
    ASSUME TypeOK, NEW c \in Clients, At(c, "idle")
    PROVE  req[c] = Idle
    BY DEF TypeOK, At, Idle, Requests

LEMMA DeltaInit == Init => DeltaInv
<1> SUFFICES ASSUME Init PROVE DeltaInv
    OBVIOUS
<1>1. TypeOK
    BY MaxChangeAssumption DEF Init, TypeOK
<1>2. FolderInv /\ NoMappingLost
    BY DEF Init, FolderInv, NoMappingLost
<1>3. WriterInv
    BY ClientsAssumption DEF Init, WriterInv, At, Idle
<1>4. ASSUME NEW c \in Clients PROVE ClientInv(c)
    BY DEF Init, ClientInv, KnownInv, RequestInv, Tracks, Busy, At, Idle
<1> QED BY <1>1, <1>2, <1>3, <1>4 DEF DeltaInv

-----------------------------------------------------------------------------
(* What one action can do                                                  *)

\* A change of the folder gives one item a new state, and no other item
\* anything. An item is created only once.
FolderStep(i) ==
    /\ clock < MaxChange
    /\ clock' = clock + 1
    /\ changed' = [changed EXCEPT ![i] = clock + 1]
    /\ created' \in {created, [created EXCEPT ![i] = clock + 1]}
    /\ created[i] # 0 => created' = created
    /\ present' \subseteq present \cup {i}
    /\ present \subseteq present' \cup {i}
    /\ i \in present' => created'[i] # 0
    /\ UNCHANGED <<database, client, req>>

LEMMA FolderSteps ==
    ASSUME TypeOK, FolderInv, NEW i \in Items, Create(i) \/ Modify(i) \/ Remove(i)
    PROVE  FolderStep(i)
<1>1. CASE Create(i)
    BY <1>1 DEF Create, Change, FolderStep, TypeOK
<1>2. CASE Modify(i)
    BY <1>2 DEF Modify, Change, FolderStep, TypeOK, FolderInv
<1>3. CASE Remove(i)
    BY <1>3 DEF Remove, Change, FolderStep, TypeOK, FolderInv
<1> QED BY <1>1, <1>2, <1>3

LEMMA FolderKeepsClients ==
    ASSUME DeltaInv, NEW i \in Items, FolderStep(i), NEW c \in Clients
    PROVE  ClientInv(c)'
<1> USE DEF DeltaInv, TypeOK, FolderStep, client
<1> DEFINE r == req[c]
<1>1. r' = r /\ token'[c] = token[c] /\ has'[c] = has[c] /\ filtered' = filtered /\ misled' = misled
    OBVIOUS
<1>2. token[c] \in 0 .. clock
    OBVIOUS
<1>3. \A j \in Items : j # i => /\ changed'[j] = changed[j]
                               /\ created'[j] = created[j]
                               /\ j \in present' <=> j \in present
    OBVIOUS
<1>4. changed'[i] = clock + 1 /\ clock \in Nat
    BY MaxChangeAssumption
<1>5. \A j \in Items : created[j] # 0 => created'[j] = created[j]
    BY <1>3
<1>6. KnownInv(c)'
    BY <1>1, <1>2, <1>5 DEF ClientInv, KnownInv
<1>7. Busy(c)' <=> Busy(c)
    BY DEF Busy, At
<1>8. ASSUME Busy(c) PROVE RequestInv(c)'
    <2> USE <1>8 DEF ClientInv, RequestInv
    <2>1. r \in Requests
        BY BusyRequest
    <2>2. r'.state \in token'[c] .. clock'
        BY <1>1, <1>2, <1>4, <2>1 DEF Requests
    <2>3. \A j \in r'.changes \cup r'.updates : created'[j] \in 1 .. r'.state
        BY <1>1, <1>5, <2>1 DEF Requests
    <2>4. \A j \in r'.changes \cup r'.updates \cup r'.removals \cup r'.deletes :
              changed'[j] > token'[c]
        BY <1>1, <1>2, <1>3, <1>4, <2>1 DEF Requests
    <2>5. ASSUME NEW j \in Items, changed'[j] <= r'.state PROVE Settled(c, j)'
        <3>1. j # i
            BY <1>1, <1>4, <2>1, <2>2, <2>5 DEF Requests
        <3>2. Settled(c, j)
            BY <1>1, <1>3, <2>5, <3>1
        <3> QED BY <1>1, <1>3, <3>1, <3>2 DEF Settled
    <2> QED BY <2>2, <2>3, <2>4, <2>5
<1>9. ASSUME c \notin misled PROVE Tracks(c)'
    <2> SUFFICES ASSUME NEW j \in Items, changed'[j] <= token'[c]
                 PROVE  /\ j \in has'[c] => j \in present'
                        /\ j \in present' /\ ~(c \in filtered' /\ j \in Old) => j \in has'[c]
        BY DEF Tracks
    <2>1. j # i
        BY <1>1, <1>2, <1>4
    <2> QED BY <1>1, <1>3, <1>9, <2>1 DEF ClientInv, Tracks
<1> QED BY <1>1, <1>6, <1>7, <1>8, <1>9 DEF ClientInv, RequestInv

LEMMA FolderKeeps ==
    ASSUME DeltaInv, NEW i \in Items, FolderStep(i)
    PROVE  DeltaInv'
<1> USE DEF DeltaInv, FolderStep, database
<1>1. TypeOK'
    <2>1. clock' \in 0 .. MaxChange /\ clock \in Nat /\ clock' = clock + 1
        BY MaxChangeAssumption DEF TypeOK
    <2>2. created' \in [Items -> 0 .. clock'] /\ changed' \in [Items -> 0 .. clock']
        BY <2>1 DEF TypeOK
    <2>3. token' \in [Clients -> 0 .. clock']
        BY <2>1 DEF TypeOK, client
    <2> QED BY <2>1, <2>2, <2>3 DEF TypeOK, client
<1>2. FolderInv'
    <2>1. clock \in Nat
        BY MaxChangeAssumption DEF TypeOK
    <2> QED BY <2>1 DEF FolderInv, TypeOK
<1>3. WriterInv'
    BY DEF WriterInv, At
<1>4. NoMappingLost'
    BY DEF NoMappingLost
<1> QED BY <1>1, <1>2, <1>3, <1>4, FolderKeepsClients

\* What a request does leaves the other clients alone.
OnlyOf(c) ==
    /\ UNCHANGED folder
    /\ \A d \in Clients \ {c} :
          /\ req'[d] = req[d]
          /\ token'[d] = token[d]
          /\ has'[d] = has[d]
          /\ d \in filtered' <=> d \in filtered
          /\ d \in misled => d \in misled'

LEMMA OthersKeep ==
    ASSUME DeltaInv, NEW c \in Clients, OnlyOf(c), NEW d \in Clients \ {c},
           d \in misled' => d \in misled
    PROVE  ClientInv(d)'
<1> USE DEF OnlyOf, folder
<1>1. ClientInv(d)
    BY DEF DeltaInv
<1>2. /\ req'[d] = req[d] /\ token'[d] = token[d] /\ has'[d] = has[d]
      /\ d \in filtered' <=> d \in filtered
      /\ d \in misled' <=> d \in misled
    OBVIOUS
<1>3. KnownInv(d)'
    BY <1>1, <1>2 DEF ClientInv, KnownInv
<1>4. RequestInv(d)'
    BY <1>1, <1>2 DEF ClientInv, RequestInv, Settled, Busy, At
<1>5. d \notin misled' => Tracks(d)'
    BY <1>1, <1>2 DEF ClientInv, Tracks
<1> QED BY <1>3, <1>4, <1>5 DEF ClientInv

\* The record of one request is replaced.
LEMMA RequestsType ==
    ASSUME TypeOK, NEW c \in Clients, NEW r \in Requests \cup {Idle},
           req' = [req EXCEPT ![c] = r]
    PROVE  /\ req' \in [Clients -> Requests \cup {Idle}]
           /\ req'[c] = r
           /\ \A d \in Clients \ {c} : req'[d] = req[d]
    BY DEF TypeOK

-----------------------------------------------------------------------------
(* ItemResource.delta, step by step                                        *)

LEMMA AskKeeps ==
    ASSUME DeltaInv, NEW c \in Clients, NEW filter \in BOOLEAN, Ask(c, filter)
    PROVE  DeltaInv'
<1> USE DEF DeltaInv, Ask, folder, database
<1>1. PICK removals \in SUBSET MayReport(token[c]) :
          /\ MustReport(token[c]) \subseteq removals
          /\ req' = [req EXCEPT ![c] =
                      [pc |-> "sync", state |-> clock,
                       changes |-> (Since(token[c]) \cap present)
                                       \ (IF filter THEN Hidden(c) ELSE {}),
                       removals |-> removals, updates |-> {}, deletes |-> {},
                       item |-> None, view |-> {}]]
    OBVIOUS
<1> DEFINE r == [pc |-> "sync", state |-> clock,
                 changes |-> (Since(token[c]) \cap present)
                                 \ (IF filter THEN Hidden(c) ELSE {}),
                 removals |-> removals, updates |-> {}, deletes |-> {},
                 item |-> None, view |-> {}]
<1>2. removals \subseteq Since(token[c]) \ present /\ Since(token[c]) \subseteq Items
    BY DEF MayReport, Since
<1>3. r \in Requests
    BY <1>2 DEF Requests, TypeOK
<1>4. /\ req' \in [Clients -> Requests \cup {Idle}]
      /\ req'[c] = r
      /\ \A d \in Clients \ {c} : req'[d] = req[d]
    BY <1>1, <1>3, RequestsType
<1>5. TypeOK'
    BY <1>4 DEF TypeOK
<1>6. FolderInv' /\ NoMappingLost'
    BY DEF FolderInv, NoMappingLost
<1>7. WriterInv'
    BY <1>4 DEF WriterInv, At
<1>8. OnlyOf(c)
    BY <1>4 DEF OnlyOf, folder
<1>9. KnownInv(c)'
    BY DEF ClientInv, KnownInv
<1>10. RequestInv(c)'
    <2>1. token[c] \in 0 .. clock /\ clock \in Nat
        BY MaxChangeAssumption DEF TypeOK
    <2>2. \A i \in Items : created[i] \in 0 .. clock /\ changed[i] \in 0 .. clock
        BY DEF TypeOK
    <2>3. req'[c].state \in token'[c] .. clock'
        BY <1>4, <2>1
    <2>4. \A i \in r.changes : created[i] \in 1 .. clock
        BY <2>1, <2>2, <1>2 DEF FolderInv
    <2>5. \A i \in r.changes \cup r.removals : changed[i] > token[c]
        BY <1>2 DEF Since
    <2>6. ASSUME NEW i \in Items PROVE Settled(c, i)'
        <3>1. /\ i \in r.changes => i \in present
              /\ i \in r.removals => i \notin present
            BY <1>2
        <3>2. ASSUME changed[i] > token[c], i \in present
              PROVE  i \in r.changes \/ (c \in filtered' /\ i \in Old)
            <4>1. CASE filter
                <5>1. i \in Hidden(c) => token[c] = 0 /\ i \in Old
                    BY DEF Hidden
                <5>2. token[c] = 0 => c \in filtered'
                    BY <4>1
                <5> QED BY <3>2, <5>1, <5>2 DEF Since
            <4>2. CASE ~filter
                BY <3>2, <4>2 DEF Since
            <4> QED BY <4>1, <4>2
        <3>3. ASSUME changed[i] > token[c], i \notin present, created[i] <= token[c]
              PROVE  i \in r.removals
            BY <1>1, <3>3 DEF MustReport, Since
        <3> QED BY <1>4, <3>1, <3>2, <3>3 DEF Settled
    <2> QED BY <1>4, <2>3, <2>4, <2>5, <2>6 DEF RequestInv
<1>11. c \notin misled' => Tracks(c)'
    <2> SUFFICES ASSUME c \notin misled,
                        NEW i \in Items, changed[i] <= token[c]
                 PROVE  /\ i \in has[c] => i \in present
                        /\ i \in present /\ ~(c \in filtered' /\ i \in Old) => i \in has[c]
        BY DEF Tracks
    <2>1. Tracks(c)
        BY DEF ClientInv
    <2>2. CASE token[c] > 0
        BY <2>1, <2>2 DEF Tracks
    <2>3. CASE ~(token[c] > 0)
        <3>1. token[c] \in Nat /\ created[i] \in Nat /\ changed[i] \in Nat
            BY MaxChangeAssumption DEF TypeOK
        <3>2. created[i] = 0
            BY <2>3, <3>1 DEF FolderInv
        <3>3. i \notin present
            BY <3>2 DEF FolderInv
        <3> QED BY <2>1, <3>3 DEF Tracks
    <2> QED BY <2>2, <2>3
<1>12. \A d \in Clients : ClientInv(d)'
    BY <1>8, <1>9, <1>10, <1>11, OthersKeep DEF ClientInv
<1> QED BY <1>5, <1>6, <1>7, <1>12

LEMMA ImportUpdateKeeps ==
    ASSUME DeltaInv, NEW c \in Clients, NEW i \in Items, ImportUpdate(c, i)
    PROVE  DeltaInv'
<1> USE DEF DeltaInv, ImportUpdate, folder, database, client
<1> DEFINE r == [req[c] EXCEPT !.changes = @ \ {i},
                               !.updates = IF i \in present THEN @ \cup {i} ELSE @,
                               !.item = IF i \in present THEN i ELSE None,
                               !.pc = IF i \in present THEN "put" ELSE "sync"]
<1>1. req[c] \in Requests /\ Busy(c)
    BY BusyRequest DEF Busy, At
<1>2. r \in Requests
    BY <1>1 DEF Requests
<1>3. req' = [req EXCEPT ![c] = r]
    BY <1>1, <1>2 DEF TypeOK, Requests
<1>4. /\ req' \in [Clients -> Requests \cup {Idle}]
      /\ req'[c] = r
      /\ \A d \in Clients \ {c} : req'[d] = req[d]
    BY <1>2, <1>3, RequestsType
<1>5. /\ r.state = req[c].state /\ r.changes = req[c].changes \ {i}
      /\ r.updates = IF i \in present THEN req[c].updates \cup {i} ELSE req[c].updates
      /\ r.removals = req[c].removals /\ r.deletes = req[c].deletes
      /\ r.pc = IF i \in present THEN "put" ELSE "sync"
      /\ r.item = IF i \in present THEN i ELSE None
    BY <1>1 DEF Requests
<1>6. TypeOK'
    BY <1>4 DEF TypeOK
<1>7. FolderInv' /\ NoMappingLost'
    BY DEF FolderInv, NoMappingLost
<1>8. WriterInv'
    BY <1>4, <1>5 DEF WriterInv, At
<1>9. OnlyOf(c)
    BY <1>4 DEF OnlyOf, folder
<1>10. RequestInv(c)'
    <2>1. RequestInv(c) /\ Busy(c)
        BY <1>1 DEF ClientInv
    <2>2. \A j \in Items : Settled(c, j) => Settled(c, j)'
        BY <1>4, <1>5 DEF Settled
    <2> QED BY <1>4, <1>5, <2>1, <2>2 DEF RequestInv
<1>11. KnownInv(c)' /\ (c \notin misled' => Tracks(c)')
    BY DEF ClientInv, KnownInv, Tracks
<1>12. \A d \in Clients : ClientInv(d)'
    BY <1>9, <1>10, <1>11, OthersKeep DEF ClientInv
<1> QED BY <1>6, <1>7, <1>8, <1>12

LEMMA OpenKeeps ==
    ASSUME DeltaInv, NEW c \in Clients, Open(c)
    PROVE  DeltaInv'
<1> USE DEF DeltaInv, Open, folder, client
<1> DEFINE r == [req[c] EXCEPT !.pc = "write", !.view = mapping_db]
<1>1. req[c] \in Requests /\ Busy(c)
    BY BusyRequest DEF Busy, At
<1>2. r \in Requests
    BY <1>1 DEF Requests, TypeOK
<1>3. req' = [req EXCEPT ![c] = r]
    BY <1>1, <1>2 DEF TypeOK, Requests
<1>4. /\ req' \in [Clients -> Requests \cup {Idle}]
      /\ req'[c] = r
      /\ \A d \in Clients \ {c} : req'[d] = req[d]
    BY <1>2, <1>3, RequestsType
<1>5. /\ r.state = req[c].state /\ r.changes = req[c].changes /\ r.updates = req[c].updates
      /\ r.removals = req[c].removals /\ r.deletes = req[c].deletes
      /\ r.pc = "write" /\ r.view = mapping_db /\ r.item = req[c].item
    BY <1>1 DEF Requests
<1>6. TypeOK'
    BY <1>4 DEF TypeOK
<1>7. FolderInv' /\ NoMappingLost'
    BY DEF FolderInv, NoMappingLost
<1>8. WriterInv'
    BY <1>4, <1>5, ClientsAssumption DEF WriterInv, At
<1>9. OnlyOf(c)
    BY <1>4 DEF OnlyOf, folder
<1>10. ClientInv(c)'
    BY <1>1, <1>4, <1>5
       DEF ClientInv, KnownInv, RequestInv, Settled, Tracks, Busy, At
<1>11. \A d \in Clients : ClientInv(d)'
    BY <1>9, <1>10, OthersKeep
<1> QED BY <1>6, <1>7, <1>8, <1>11

\* The file has not changed since it was read, so nothing in it is lost.
LEMMA WriteKeeps ==
    ASSUME DeltaInv, NEW c \in Clients, Write(c)
    PROVE  DeltaInv'
<1> USE DEF DeltaInv, Write, folder, client
<1> DEFINE r == [req[c] EXCEPT !.pc = "sync", !.item = None, !.view = {}]
<1>1. req[c] \in Requests /\ Busy(c)
    BY BusyRequest DEF Busy, At
<1>2. r \in Requests
    BY <1>1 DEF Requests
<1>3. req' = [req EXCEPT ![c] = r]
    BY <1>1, <1>2 DEF TypeOK, Requests
<1>4. /\ req' \in [Clients -> Requests \cup {Idle}]
      /\ req'[c] = r
      /\ \A d \in Clients \ {c} : req'[d] = req[d]
    BY <1>2, <1>3, RequestsType
<1>5. /\ r.state = req[c].state /\ r.changes = req[c].changes /\ r.updates = req[c].updates
      /\ r.removals = req[c].removals /\ r.deletes = req[c].deletes /\ r.pc = "sync"
    BY <1>1 DEF Requests
<1>6. lock = c /\ req[c].view = mapping_db /\ req[c].item \in Items
    BY DEF WriterInv
<1>7. TypeOK'
    BY <1>4, <1>6 DEF TypeOK
<1>8. FolderInv'
    BY DEF FolderInv
<1>9. NoMappingLost'
    BY <1>6 DEF NoMappingLost
<1>10. WriterInv'
    <2>1. ASSUME NEW d \in Clients \ {c} PROVE ~At(d, "write")
        BY <1>6 DEF WriterInv
    <2> QED BY <1>4, <1>5, <2>1, ClientsAssumption DEF WriterInv, At
<1>11. OnlyOf(c)
    BY <1>4 DEF OnlyOf, folder
<1>12. ClientInv(c)'
    BY <1>1, <1>4, <1>5
       DEF ClientInv, KnownInv, RequestInv, Settled, Tracks, Busy, At
<1>13. \A d \in Clients : ClientInv(d)'
    BY <1>11, <1>12, OthersKeep
<1> QED BY <1>7, <1>8, <1>9, <1>10, <1>13

LEMMA ImportDeleteKeeps ==
    ASSUME DeltaInv, NEW c \in Clients, NEW i \in Items, ImportDelete(c, i)
    PROVE  DeltaInv'
<1> USE DEF DeltaInv, ImportDelete, folder, database, client
<1> DEFINE r == [req[c] EXCEPT !.removals = @ \ {i}, !.deletes = @ \cup {i}]
<1>1. req[c] \in Requests /\ Busy(c)
    BY BusyRequest DEF Busy, At
<1>2. r \in Requests
    BY <1>1 DEF Requests
<1>3. req' = [req EXCEPT ![c] = r]
    BY <1>1, <1>2 DEF TypeOK, Requests
<1>4. /\ req' \in [Clients -> Requests \cup {Idle}]
      /\ req'[c] = r
      /\ \A d \in Clients \ {c} : req'[d] = req[d]
    BY <1>2, <1>3, RequestsType
<1>5. /\ r.state = req[c].state /\ r.changes = req[c].changes /\ r.updates = req[c].updates
      /\ r.removals = req[c].removals \ {i} /\ r.deletes = req[c].deletes \cup {i}
      /\ r.pc = req[c].pc
    BY <1>1 DEF Requests
<1>6. TypeOK'
    BY <1>4 DEF TypeOK
<1>7. FolderInv' /\ NoMappingLost'
    BY DEF FolderInv, NoMappingLost
<1>8. WriterInv'
    BY <1>4, <1>5 DEF WriterInv, At
<1>9. OnlyOf(c)
    BY <1>4 DEF OnlyOf, folder
<1>10. ClientInv(c)'
    BY <1>1, <1>4, <1>5
       DEF ClientInv, KnownInv, RequestInv, Settled, Tracks, Busy, At
<1>11. \A d \in Clients : ClientInv(d)'
    BY <1>9, <1>10, OthersKeep
<1> QED BY <1>6, <1>7, <1>8, <1>11

LEMMA FailDeleteKeeps ==
    ASSUME DeltaInv, NEW c \in Clients, NEW i \in Items, FailDelete(c, i)
    PROVE  DeltaInv'
<1> USE DEF DeltaInv, FailDelete, folder, database
<1>1. req[c] \in Requests /\ Busy(c)
    BY BusyRequest DEF Busy, At
<1>2. PICK r \in Requests \cup {Idle} :
          /\ req' = [req EXCEPT ![c] = r]
          /\ misled' \in {misled, misled \cup {c}}
          /\ r = Idle \/ /\ r.state = req[c].state /\ r.changes = req[c].changes
                         /\ r.updates = req[c].updates /\ r.deletes = req[c].deletes
                         /\ r.removals \subseteq req[c].removals /\ r.pc = "sync"
                         /\ c \in misled'
    <2>1. CASE req' = [req EXCEPT ![c] = Idle] /\ UNCHANGED misled
        BY <2>1
    <2>2. ASSUME NEW lost \in SUBSET req[c].removals,
                 req' = [req EXCEPT ![c].removals = @ \ lost],
                 misled' = misled \cup {c}
          PROVE  \E r \in Requests :
                    /\ req' = [req EXCEPT ![c] = r]
                    /\ r.state = req[c].state /\ r.changes = req[c].changes
                    /\ r.updates = req[c].updates /\ r.deletes = req[c].deletes
                    /\ r.removals \subseteq req[c].removals /\ r.pc = "sync"
        <3> DEFINE q == [req[c] EXCEPT !.removals = @ \ lost]
        <3>1. q \in Requests
            BY <1>1 DEF Requests
        <3>2. req' = [req EXCEPT ![c] = q]
            BY <1>1, <2>2 DEF TypeOK, Requests
        <3>3. /\ q.state = req[c].state /\ q.changes = req[c].changes
              /\ q.updates = req[c].updates /\ q.deletes = req[c].deletes
              /\ q.removals \subseteq req[c].removals /\ q.pc = "sync"
            BY <1>1 DEF Requests, At
        <3> QED BY <3>1, <3>2, <3>3
    <2> QED BY <2>1, <2>2
<1>3. /\ req' \in [Clients -> Requests \cup {Idle}]
      /\ req'[c] = r
      /\ \A d \in Clients \ {c} : req'[d] = req[d]
    BY <1>2, RequestsType
<1>4. TypeOK'
    BY <1>2, <1>3 DEF TypeOK
<1>5. FolderInv' /\ NoMappingLost'
    BY DEF FolderInv, NoMappingLost
<1>6. WriterInv'
    BY <1>2, <1>3 DEF WriterInv, At, Idle
<1>7. OnlyOf(c) /\ \A d \in Clients \ {c} : d \in misled' => d \in misled
    BY <1>2, <1>3 DEF OnlyOf, folder
<1>8. ClientInv(c)'
    <2>1. CASE r = Idle
        BY <1>2, <1>3, <2>1 DEF ClientInv, KnownInv, RequestInv, Tracks, Busy, At, Idle
    <2>2. CASE r # Idle
        BY <1>1, <1>2, <1>3, <2>2
           DEF ClientInv, KnownInv, RequestInv, Settled, Busy, At
    <2> QED BY <2>1, <2>2
<1>9. \A d \in Clients : ClientInv(d)'
    BY <1>7, <1>8, OthersKeep
<1> QED BY <1>4, <1>5, <1>6, <1>9

\* The client applies the answer, or some of it: what it knows then was created
\* before the state of its new link.
LEMMA FinishKeeps ==
    ASSUME DeltaInv, NEW c \in Clients, Imported(c), NEW sent, Finish(c, sent),
           misled' \in {misled, misled \cup {c}}, c \notin misled' => Tracks(c)'
    PROVE  DeltaInv'
<1> USE DEF DeltaInv, Finish, folder, database
<1>1. req[c] \in Requests /\ Busy(c)
    BY BusyRequest DEF Imported, Busy, At
<1>2. /\ req' \in [Clients -> Requests \cup {Idle}]
      /\ req'[c] = Idle
      /\ \A d \in Clients \ {c} : req'[d] = req[d]
    BY RequestsType
<1>3. req[c].state \in token[c] .. clock /\ token[c] \in 0 .. clock /\ clock \in Nat
    BY <1>1, MaxChangeAssumption DEF ClientInv, RequestInv, TypeOK
<1>4. Applied(c, sent) \subseteq has[c] \cup req[c].updates
    BY DEF Applied
<1>5. TypeOK'
    <2>1. token' \in [Clients -> 0 .. clock']
        BY <1>3 DEF TypeOK
    <2>2. has' \in [Clients -> SUBSET Items]
        BY <1>1, <1>4 DEF TypeOK, Requests
    <2> QED BY <1>2, <2>1, <2>2 DEF TypeOK
<1>6. FolderInv' /\ NoMappingLost'
    BY DEF FolderInv, NoMappingLost
<1>7. WriterInv'
    BY <1>2 DEF WriterInv, At, Idle, Imported
<1>8. OnlyOf(c) /\ \A d \in Clients \ {c} : d \in misled' => d \in misled
    BY <1>2 DEF OnlyOf, folder, TypeOK
<1>9. KnownInv(c)'
    <2>1. has'[c] = Applied(c, sent) /\ token'[c] = req[c].state
        BY DEF TypeOK
    <2>2. \A i \in has[c] : created[i] \in 1 .. req[c].state
        BY <1>3 DEF ClientInv, KnownInv
    <2>3. \A i \in req[c].updates : created[i] \in 1 .. req[c].state
        BY <1>1 DEF ClientInv, RequestInv
    <2> QED BY <1>4, <2>1, <2>2, <2>3 DEF KnownInv
<1>10. RequestInv(c)'
    BY <1>2 DEF RequestInv, Busy, At, Idle
<1>11. \A d \in Clients : ClientInv(d)'
    BY <1>8, <1>9, <1>10, OthersKeep DEF ClientInv
<1> QED BY <1>5, <1>6, <1>7, <1>11

\* All of the answer leads from the state of the old link to that of the new one.
LEMMA EndStreamKeeps ==
    ASSUME DeltaInv, NEW c \in Clients, EndStream(c)
    PROVE  DeltaInv'
<1> USE DEF DeltaInv, EndStream, Finish, folder
<1> DEFINE sent == req[c].updates \cup req[c].deletes
<1>1. req[c] \in Requests /\ Busy(c)
    BY BusyRequest DEF Imported, Busy, At
<1>2. RequestInv(c) /\ KnownInv(c) /\ (c \notin misled => Tracks(c))
    BY DEF ClientInv
<1>3. has'[c] = (has[c] \cup req[c].updates) \ req[c].deletes /\ token'[c] = req[c].state
    BY DEF TypeOK, Applied
<1>4. ASSUME c \notin misled PROVE Tracks(c)'
    <2> SUFFICES ASSUME NEW i \in Items, changed[i] <= req[c].state
                 PROVE  /\ i \in has'[c] => i \in present
                        /\ i \in present /\ ~(c \in filtered /\ i \in Old) => i \in has'[c]
        BY <1>3 DEF Tracks
    <2>1. Settled(c, i)
        BY <1>1, <1>2 DEF RequestInv
    <2>2. req[c].changes = {} /\ req[c].removals = {}
        BY DEF Imported
    <2>3. CASE changed[i] > token[c]
        <3>1. ASSUME i \in has'[c], i \notin present PROVE FALSE
            <4>1. i \in has[c] /\ i \notin req[c].deletes
                BY <1>3, <2>1, <3>1 DEF Settled
            <4>2. created[i] <= token[c]
                BY <1>2, <4>1, MaxChangeAssumption DEF KnownInv, TypeOK
            <4> QED BY <1>4, <2>1, <2>2, <2>3, <3>1, <4>1, <4>2 DEF Settled
        <3>2. ASSUME i \in present, ~(c \in filtered /\ i \in Old) PROVE i \in has'[c]
            BY <1>3, <2>1, <2>2, <2>3, <3>2 DEF Settled
        <3> QED BY <3>1, <3>2
    <2>4. CASE ~(changed[i] > token[c])
        <3>1. changed[i] \in Nat /\ token[c] \in Nat
            BY MaxChangeAssumption DEF TypeOK
        <3>2. i \notin req[c].updates \cup req[c].deletes
            BY <1>1, <1>2, <2>4 DEF RequestInv
        <3>3. i \in has'[c] <=> i \in has[c]
            BY <1>3, <3>2
        <3> QED BY <1>2, <1>4, <2>4, <3>1, <3>3 DEF Tracks
    <2> QED BY <2>3, <2>4
<1> QED BY <1>4, FinishKeeps

LEMMA TruncateKeeps ==
    ASSUME DeltaInv, NEW c \in Clients, Truncate(c)
    PROVE  DeltaInv'
<1>1. PICK sent : Finish(c, sent)
    BY DEF Truncate
<1> QED BY <1>1, FinishKeeps DEF Truncate

-----------------------------------------------------------------------------
(* Theorems                                                                *)

LEMMA DeltaInvariant == Spec => []DeltaInv
<1>1. DeltaInv /\ [Next]_vars => DeltaInv'
    <2> SUFFICES ASSUME DeltaInv, [Next]_vars PROVE DeltaInv'
        OBVIOUS
    <2>1. ASSUME NEW i \in Items, Create(i) \/ Modify(i) \/ Remove(i) PROVE DeltaInv'
        BY <2>1, FolderSteps, FolderKeeps DEF DeltaInv
    <2>2. ASSUME NEW c \in Clients, NEW filter \in BOOLEAN, Ask(c, filter) PROVE DeltaInv'
        BY <2>2, AskKeeps
    <2>3. ASSUME NEW c \in Clients, Handle(c) PROVE DeltaInv'
        BY <2>3, OpenKeeps, WriteKeeps, EndStreamKeeps, ImportUpdateKeeps, FailDeleteKeeps
           DEF Handle
    <2>4. ASSUME NEW c \in Clients, NEW i \in Items, ImportDelete(c, i) PROVE DeltaInv'
        BY <2>4, ImportDeleteKeeps
    <2>5. ASSUME NEW c \in Clients, Truncate(c) PROVE DeltaInv'
        BY <2>5, TruncateKeeps
    <2>6. CASE UNCHANGED vars
        BY <2>6 DEF vars, folder, database, client, DeltaInv, TypeOK, FolderInv, WriterInv,
               NoMappingLost, ClientInv, KnownInv, RequestInv, Settled, Tracks, Busy, At
    <2> QED BY <2>1, <2>2, <2>3, <2>4, <2>5, <2>6 DEF Next, Folder
<1> QED BY <1>1, DeltaInit, PTL DEF Spec

\* Every variable of the folder, the mapping database, the clients and their
\* requests keeps its type, for any numbers of them.
THEOREM TypeCorrect == Spec => []TypeOK
<1>1. DeltaInv => TypeOK
    BY DEF DeltaInv
<1> QED BY <1>1, DeltaInvariant, PTL

\* However many workers write mapping_db, what db_put has stored stays there:
\* the flock covers reading and writing.
THEOREM MappingsStay == Spec => []NoMappingLost
<1>1. DeltaInv => NoMappingLost
    BY DEF DeltaInv
<1> QED BY <1>1, DeltaInvariant, PTL

\* Whatever happens to the folder while answers are made, and in whatever order
\* requests interleave, a client that applies its answers knows the folder as it
\* was in the state of its deltaLink (ItemResource.delta, json_multi).
THEOREM ClientsTrack == Spec => []ClientsTrackTheFolder
<1>1. DeltaInv => ClientsTrackTheFolder
    BY DEF DeltaInv, ClientInv, ClientsTrackTheFolder
<1> QED BY <1>1, DeltaInvariant, PTL

=============================================================================
