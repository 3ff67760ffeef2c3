------------------------------- MODULE Delta --------------------------------
(***************************************************************************)
(* Delta requests on one folder and the mapping database they share        *)
(* (grapi/backend/kopano/item.py, db_get and db_put of utils.py, and the   *)
(* streamed answer of resource.py).                                        *)
(*                                                                         *)
(* A client asks for what has changed since the state in its deltaLink.    *)
(* folder.sync, a library, hands every change to an ItemImporter and gives *)
(* the new state. The importer of an update stores sourcekey -> entryid in *)
(* mapping_db, a file of all workers; of a removed item the server only    *)
(* knows the sourcekey, so the importer of a removal looks it up there.    *)
(* Then the answer is streamed, the link to the new state first.           *)
(*                                                                         *)
(* Each worker process answers one request at a time. Requests that run at *)
(* the same time are in different workers, so a request is known by its    *)
(* client.                                                                 *)
(***************************************************************************)
EXTENDS Naturals, FiniteSets

CONSTANTS
    Clients,
    Items,         \* messages; each is created and removed at most once
    Old,           \* items that a $filter on receivedDateTime leaves out
    MaxChange,     \* bound: changes of the folder
    None           \* nobody, or no item

ASSUME ClientsAssumption == IsFiniteSet(Clients) /\ None \notin Clients
ASSUME ItemsAssumption == IsFiniteSet(Items) /\ None \notin Items
ASSUME OldAssumption == Old \subseteq Items
ASSUME MaxChangeAssumption == MaxChange \in Nat

VARIABLES
    clock,         \* external: the state of the folder
    present,       \* external: the items in it
    created,       \* external: item -> the state that first had it, or 0
    changed,       \* external: item -> the state of its last change, or 0
    mapping_db,    \* items whose sourcekey is in the file
    lock,          \* the client whose request holds the flock, or None
    stored,        \* history: items whose db_put has returned
    token,         \* client -> the state of its deltaLink, 0 for none
    filtered,      \* clients whose first request had a $filter that hid items
    has,           \* client -> the items it knows of
    misled,        \* history: clients whose answer left out what its link covers
    req            \* client -> its request

folder == <<clock, present, created, changed>>
database == <<mapping_db, lock, stored>>
client == <<token, filtered, has, misled>>
vars == <<folder, database, client, req>>

Idle == [pc |-> "idle"]
Requests == [pc : {"sync", "put", "write"}, state : 0 .. MaxChange,
             changes : SUBSET Items, removals : SUBSET Items,
             updates : SUBSET Items, deletes : SUBSET Items,
             item : Items \cup {None}, view : SUBSET Items]

At(c, pc) == req[c].pc = pc

Init ==
    /\ clock = 0
    /\ present = {}
    /\ created = [i \in Items |-> 0]
    /\ changed = [i \in Items |-> 0]
    /\ mapping_db = {}
    /\ lock = None
    /\ stored = {}
    /\ token = [c \in Clients |-> 0]
    /\ filtered = {}
    /\ has = [c \in Clients |-> {}]
    /\ misled = {}
    /\ req = [c \in Clients |-> Idle]

-----------------------------------------------------------------------------
(* The folder, changed by anyone                                           *)

Change(i) ==
    /\ clock < MaxChange
    /\ clock' = clock + 1
    /\ changed' = [changed EXCEPT ![i] = clock + 1]
    /\ UNCHANGED <<database, client, req>>

Create(i) ==
    /\ created[i] = 0
    /\ present' = present \cup {i}
    /\ created' = [created EXCEPT ![i] = clock + 1]
    /\ Change(i)

Modify(i) ==
    /\ i \in present
    /\ Change(i)
    /\ UNCHANGED <<present, created>>

Remove(i) ==
    /\ i \in present
    /\ present' = present \ {i}
    /\ Change(i)
    /\ UNCHANGED created

-----------------------------------------------------------------------------
(* ItemResource.delta                                                      *)

Since(s) == {i \in Items : changed[i] > s}
\* Removals that the server reports: those of items the state t had, and
\* perhaps of items that came and went after it.
MustReport(t) == {i \in Since(t) \ present : created[i] <= t}
MayReport(t) == IF t = 0 THEN {} ELSE Since(t) \ present

\* What a filter hides of the first answer; later ones have none, since the
\* deltaLink does not keep it.
Hidden(c) == IF token[c] = 0 THEN Old \cap present ELSE {}

Ask(c, filter) ==
    /\ At(c, "idle")
    /\ filter => Hidden(c) # {}
    /\ filtered' = IF token[c] > 0 THEN filtered
                   ELSE IF filter THEN filtered \cup {c} ELSE filtered \ {c}
    /\ \E removals \in SUBSET MayReport(token[c]) :
        /\ MustReport(token[c]) \subseteq removals
        /\ req' = [req EXCEPT ![c] =
                    [pc |-> "sync", state |-> clock,
                     changes |-> (Since(token[c]) \cap present)
                                     \ (IF filter THEN Hidden(c) ELSE {}),
                     removals |-> removals, updates |-> {}, deletes |-> {},
                     item |-> None, view |-> {}]]
    /\ UNCHANGED <<folder, database, token, has, misled>>

ImportUpdateSlip(c, i) ==
    /\ At(c, "sync")
    /\ i \in req[c].changes
    /\ req' = [req EXCEPT ![c].changes = @ \ {i},
                          ![c].updates = IF i \in present THEN @ \cup {i} ELSE @,
                          ![c].item = IF i \in present THEN i ELSE None,
                          ![c].pc = "put"]
    /\ UNCHANGED <<folder, database, client>>

\* ItemImporter.update; not called for an item that is gone by now.
ImportUpdate(c, i) ==
    /\ At(c, "sync")
    /\ i \in req[c].changes
    /\ req' = [req EXCEPT ![c].changes = @ \ {i},
                          ![c].updates = IF i \in present THEN @ \cup {i} ELSE @,
                          ![c].item = IF i \in present THEN i ELSE None,
                          ![c].pc = IF i \in present THEN "put" ELSE "sync"]
    /\ UNCHANGED <<folder, database, client>>

OpenSlip(c) ==
    /\ At(c, "put")
    /\ lock' = c
    /\ req' = [req EXCEPT ![c].pc = "write", ![c].view = mapping_db]
    /\ UNCHANGED <<folder, mapping_db, stored, client>>

\* db_put: flock, then hashopen reads the file.
Open(c) ==
    /\ At(c, "put")
    /\ lock = None
    /\ lock' = c
    /\ req' = [req EXCEPT ![c].pc = "write", ![c].view = mapping_db]
    /\ UNCHANGED <<folder, mapping_db, stored, client>>

\* Closing the database writes what was read and the new key.
Write(c) ==
    /\ At(c, "write")
    /\ mapping_db' = req[c].view \cup {req[c].item}
    /\ stored' = stored \cup {req[c].item}
    /\ lock' = None
    /\ req' = [req EXCEPT ![c].pc = "sync", ![c].item = None, ![c].view = {}]
    /\ UNCHANGED <<folder, client>>

\* ItemImporter.delete and db_get, which takes no lock.
ImportDelete(c, i) ==
    /\ At(c, "sync")
    /\ req[c].changes = {}
    /\ i \in req[c].removals
    /\ i \in mapping_db
    /\ req' = [req EXCEPT ![c].removals = @ \ {i}, ![c].deletes = @ \cup {i}]
    /\ UNCHANGED <<folder, database, client>>

\* The key is not in the file, or the file is being written: an exception. It
\* ends the request, or folder.sync logs it and goes on, maybe without other
\* removals.
FailDelete(c, i) ==
    /\ At(c, "sync")
    /\ req[c].changes = {}
    /\ i \in req[c].removals
    /\ i \notin mapping_db \/ lock # None
    /\ \/ /\ req' = [req EXCEPT ![c] = Idle]
          /\ UNCHANGED misled
       \/ \E lost \in SUBSET req[c].removals :
            /\ i \in lost
            /\ req' = [req EXCEPT ![c].removals = @ \ lost]
            /\ misled' = misled \cup {c}
    /\ UNCHANGED <<folder, database, token, filtered, has>>

\* folder.sync has returned the new state, and the answer is streamed.
Imported(c) == At(c, "sync") /\ req[c].changes = {} /\ req[c].removals = {}

\* What the client knows after the updates and removals in sent.
Applied(c, sent) == (has[c] \cup (req[c].updates \cap sent)) \ (req[c].deletes \cap sent)

\* The client has the answer, or the part in sent, and keeps the deltaLink.
Finish(c, sent) ==
    /\ has' = [has EXCEPT ![c] = Applied(c, sent)]
    /\ token' = [token EXCEPT ![c] = req[c].state]
    /\ req' = [req EXCEPT ![c] = Idle]
    /\ UNCHANGED <<folder, database, filtered>>

EndStreamSlip(c) ==
    /\ Imported(c)
    /\ Finish(c, req[c].updates)
    /\ UNCHANGED misled

EndStreamOldLinkSlip(c) ==
    /\ Imported(c)
    /\ req' = [req EXCEPT ![c] = Idle]
    /\ UNCHANGED <<folder, database, client>>

\* json_multi: the link, the updates, then the removals. One step, since
\* nobody else reads any of it.
EndStream(c) ==
    /\ Imported(c)
    /\ Finish(c, req[c].updates \cup req[c].deletes)
    /\ UNCHANGED misled

\* An exception in json_multi is logged, and the JSON text is closed.
Truncate(c) ==
    /\ Imported(c)
    /\ \E sent \in SUBSET (req[c].updates \cup req[c].deletes) :
        /\ sent # req[c].updates \cup req[c].deletes
        /\ sent \cap req[c].deletes # {} => req[c].updates \subseteq sent
        /\ Finish(c, sent)
    /\ misled' = misled \cup {c}

-----------------------------------------------------------------------------
Folder == \E i \in Items : Create(i) \/ Modify(i) \/ Remove(i)

Handle(c) ==
    \/ Open(c) \/ Write(c) \/ EndStream(c)
    \/ \E i \in Items : ImportUpdate(c, i) \/ FailDelete(c, i)

Next ==
    \/ Folder
    \/ \E c \in Clients :
        \/ \E filter \in BOOLEAN : Ask(c, filter)
        \/ Handle(c)
        \/ \E i \in Items : ImportDelete(c, i)
        \/ Truncate(c)

Spec == Init /\ [][Next]_vars

\* Requests are carried out and clients ask again. A request gets the lock
\* and finds the file at rest now and then.
Fairness ==
    \A c \in Clients :
        /\ WF_vars(Ask(c, FALSE) \/ Handle(c))
        /\ SF_vars(Open(c))
        /\ SF_vars(\E i \in Items : ImportDelete(c, i))

FairSpec == Spec /\ Fairness

-----------------------------------------------------------------------------
(* Properties                                                              *)

TypeOK ==
    /\ clock \in 0 .. MaxChange
    /\ present \subseteq Items
    /\ created \in [Items -> 0 .. clock]
    /\ changed \in [Items -> 0 .. clock]
    /\ mapping_db \subseteq Items
    /\ lock \in Clients \cup {None}
    /\ stored \subseteq Items
    /\ token \in [Clients -> 0 .. clock]
    /\ filtered \subseteq Clients
    /\ has \in [Clients -> SUBSET Items]
    /\ misled \subseteq Clients
    /\ req \in [Clients -> Requests \cup {Idle}]

\* A worker that adds its key to the file never undoes what another worker
\* has added: what was put stays there.
NoMappingLost == stored \subseteq mapping_db

\* A client between two requests knows the folder as it was in the state of
\* its deltaLink: items that have not changed since are there or are not, as
\* in the folder. A filter hides old items that were never changed after. Of a
\* client that got an answer cut short, or one without a removal that was not
\* mapped, nothing is said.
Tracks(c) ==
    \A i \in Items :
        changed[i] <= token[c] =>
            /\ i \in has[c] => i \in present
            /\ i \in present /\ ~(c \in filtered /\ i \in Old) => i \in has[c]
ClientsTrackTheFolder ==
    \A c \in Clients \ misled : At(c, "idle") => Tracks(c)

\* Once the folder is quiet every client gets to its last state, unless it is
\* told of a removal that mapping_db has never heard of.
Unmapped(c) == \E i \in Since(token[c]) \ (present \cup mapping_db) : TRUE
ClientsCatchUp ==
    clock = MaxChange ~> \A c \in Clients : token[c] = clock \/ Unmapped(c)

=============================================================================
