-------------------------------- MODULE Items --------------------------------
(***************************************************************************)
(* The store of one user: events, messages and contacts, their folders and *)
(* attachments (grapi/backend/kopano: event.py, message.py, contact.py,    *)
(* mailfolder.py, attachment.py and what they share in resource.py and     *)
(* utils.py). Workers serve the owner, delegates and other users with      *)
(* access to the store.                                                    *)
(*                                                                         *)
(* A handler is a row of calls to the library, and each of them takes      *)
(* effect in the kopano server at once: create_message saves the item      *)
(* before it sets its fields one by one, what is sent is sent before and   *)
(* after, and a call that raises ends the handler and leaves what was done.*)
(* Between two calls come those of other workers. A handler that makes one *)
(* such call is one action.                                                *)
(*                                                                         *)
(* Of the fields of an item only the attendees matter, which make a meeting*)
(* of an event, and whether all were set. A library call on what is gone   *)
(* raises, but an item that was opened can still be sent.                  *)
(***************************************************************************)
EXTENDS Naturals, FiniteSets

CONSTANTS
    Workers,        \* processes that serve requests
    MaxItems,       \* bound: items ever made
    FolderIds,      \* entryids of mail folders; bound: how many are ever made
    Names,          \* displayName of folders
    Budgets,        \* bound: how many of each kind are made is one of these
    MaxDeletes      \* bound: DELETE requests for events

ASSUME ItemsAssumption ==
    /\ MaxItems \in Nat \ {0}
    /\ MaxDeletes \in Nat
    /\ IsFiniteSet(FolderIds)
    /\ FolderIds \cap {"Inbox", "Subtree", "Drafts", "Outbox", "Sentmail", "Contacts",
                      "Calendar", "Other"} = {}
    /\ \A b \in Budgets : /\ b \in [event : Nat, message : Nat, contact : Nat, folder : Nat]
                          /\ b.event + b.message + b.contact <= MaxItems
                          /\ b.folder <= Cardinality(FolderIds)

VARIABLES
    budget,     \* how many of each kind may still be made
    items,      \* the items in the store
    heard,      \* what the addressees of an item were sent last
    folders,    \* the mail folders below Inbox and the subtree of the store
    calendar,   \* the folder that store.calendar names
    req,        \* the request each worker is at
    deletes,    \* how many DELETE requests for events there were
    client,     \* a client that has one message to send by sendMail
    mails,      \* history: the items its requests made
    asked,      \* history: items that a send request found
    early       \* history: events some DELETE found while their POST was under way

history == <<mails, asked, early>>
vars == <<budget, items, heard, folders, calendar, req, deletes, client, history>>

Ids == 1 .. MaxItems

\* The user's calendar, and another one in the same store.
Calendars == {"Calendar", "Other"}

\* Parents of mail folders.
Containers == {"Inbox", "Subtree"} \cup FolderIds

Places == {"Inbox", "Drafts", "Outbox", "Sentmail", "Contacts"} \cup FolderIds

\* What the addressees of an item may hear of it.
Letters == {"nothing", "invitation", "cancellation", "message", "half a message"}

Unmade == [kind |-> "unmade"]
Gone == [kind |-> "gone"]

EventKind == {"event"}
MailKinds == {"message", "contact"}
FolderKind == {"folder"}

Event == [kind : EventKind, folder : Calendars, named : Calendars \cup {"calendar"},
          whole : BOOLEAN, attached : BOOLEAN,
          meeting : BOOLEAN, canceled : BOOLEAN, behalf : BOOLEAN]

Mail == [kind : MailKinds, folder : Places, whole : BOOLEAN, attached : BOOLEAN]

MailFolder == [kind : FolderKind, parent : Containers, name : Names]

IsEvent(e) == items[e].kind = "event"

IsMessage(e) == items[e].kind = "message"

IsContact(e) == items[e].kind = "contact"

Exists(e) == IsEvent(e) \/ IsMessage(e) \/ IsContact(e)

FolderExists(f) == folders[f].kind = "folder"

\* A place that is a mail folder may be gone.
Open(place) == place \in FolderIds => FolderExists(place)

\* The id that is given out next.
NewId == CHOOSE e \in Ids : items[e] = Unmade /\ \A d \in 1 .. e - 1 : items[d] # Unmade

\* Who asks: the owner of the store, a delegate of the owner, or another user.
Users == {"owner", "delegate", "guest"}

Idle == [pc |-> "idle", op |-> "none"]

\* Where the handlers are between two calls, and what they were asked to do.
EventStages == {"attendees", "fields", "send", "notify", "delete"}
EventOps == {"POST", "PATCH", "DELETE"}
MailStages == {"fields", "send"}
MailOps == {"create", "update", "sendMail", "send"}
FolderStages == {"lookup", "respond"}
FolderOps == {"folder"}

EventRequest == [pc : EventStages, op : EventOps, user : Users, item : Ids, meeting : BOOLEAN]

MailRequest == [pc : MailStages, op : MailOps, item : Ids, whole : BOOLEAN, save : BOOLEAN]

FolderRequest == [pc : FolderStages, op : FolderOps, folder : FolderIds, to : Containers,
                  name : Names, new : FolderIds, found : FolderIds \cup {"none"}, touched : BOOLEAN]

Init ==
    /\ budget \in Budgets
    /\ items = [e \in Ids |-> Unmade]
    /\ heard = [e \in Ids |-> "nothing"]
    /\ folders = [f \in FolderIds |-> Unmade]
    /\ calendar = "Calendar"
    /\ req = [w \in Workers |-> Idle]
    /\ deletes = 0
    /\ client = "unsent"
    /\ mails = {}
    /\ asked = {}
    /\ early = {}

At(w, pc) == req[w].pc = pc

Goto(w, pc) == req' = [req EXCEPT ![w].pc = pc]

Answer(w, told) ==
    /\ req' = [req EXCEPT ![w] = Idle]
    /\ client' = IF req[w].op = "sendMail" THEN told ELSE client

\* The answer of an exception. Nothing is undone, and a client that has
\* something to send may ask again.
Fail(w) ==
    /\ req[w] # Idle
    /\ Answer(w, "unsent")
    /\ UNCHANGED <<budget, items, heard, folders, calendar, deletes, history>>

\* folder.create_item saves the item, before any of its fields is set.
Make(item) ==
    /\ budget[item.kind] > 0
    /\ budget' = [budget EXCEPT ![item.kind] = @ - 1]
    /\ items' = [items EXCEPT ![NewId] = item]

-----------------------------------------------------------------------------
(* Events: GET of one calendar, POST and PATCH.                            *)

\* The name "calendar", in any case, or an entryid.
Folder(name) == IF name = "calendar" THEN calendar ELSE name

\* The handler makes the folder the store's calendar to list it.
GetByFolderid(w, folder) ==
    /\ req[w] = Idle
    /\ calendar' = folder
    /\ UNCHANGED <<budget, items, heard, folders, req, deletes, client, history>>

\* Who creates an event in another one's store may be its sender, on behalf of
\* the owner.
CreateEvent(w, user, name, meeting, behalf) ==
    /\ req[w] = Idle
    /\ behalf => user # "owner"
    /\ Make([kind |-> "event", folder |-> Folder(name), named |-> name, whole |-> FALSE,
             attached |-> FALSE, meeting |-> FALSE, canceled |-> FALSE, behalf |-> behalf])
    /\ req' = [req EXCEPT ![w] =
            [pc |-> IF meeting THEN "attendees" ELSE "fields", op |-> "POST",
             user |-> user, item |-> NewId, meeting |-> meeting]]
    /\ UNCHANGED <<heard, folders, calendar, deletes, client, history>>

UpdateEvent(w, user, e, meeting) ==
    /\ req[w] = Idle
    /\ IsEvent(e)
    /\ req' = [req EXCEPT ![w] =
            [pc |-> IF meeting THEN "attendees" ELSE "fields", op |-> "PATCH",
             user |-> user, item |-> e, meeting |-> meeting]]
    /\ UNCHANGED <<budget, items, heard, folders, calendar, deletes, client, history>>

AttendeesSet(w) ==
    LET e == req[w].item
    IN /\ At(w, "attendees")
       /\ Exists(e)
       /\ items' = [items EXCEPT ![e].meeting = TRUE]
       /\ Goto(w, "fields")
       /\ UNCHANGED <<budget, heard, folders, calendar, deletes, client, history>>

\* What is sent once its fields are set: an event with attendees, and the
\* message of sendMail.
SentWhenSet(r) == r.op = "sendMail" \/ (r.op = "POST" /\ r.meeting)

\* The other fields. An update is over with them; what was created is whole.
SetFields(w) ==
    LET e == req[w].item
    IN /\ At(w, "fields")
       /\ Exists(e)
       /\ IF req[w].op \in {"PATCH", "update"}
          THEN UNCHANGED items
          ELSE items' = [items EXCEPT ![e].whole = TRUE]
       /\ IF SentWhenSet(req[w])
          THEN Goto(w, "send") /\ UNCHANGED client
          ELSE Answer(w, "sent")
       /\ UNCHANGED <<budget, heard, folders, calendar, deletes, history>>

\* Invitations, or cancellations when another worker canceled the event.
SendEvent(w) ==
    LET e == req[w].item
    IN /\ At(w, "send") /\ req[w].op = "POST"
       /\ \/ heard' = [heard EXCEPT ![e] = "invitation"]
          \/ /\ Exists(e)
             /\ items[e].canceled
             /\ heard' = [heard EXCEPT ![e] = "cancellation"]
       /\ Answer(w, "sent")
       /\ UNCHANGED <<budget, items, folders, calendar, deletes, history>>

-----------------------------------------------------------------------------
(* DELETE of an event.                                                     *)

IsEventOrganizerSlip(user, e) == items[e].behalf /\ user \in {"owner", "delegate"}

\* from_ and sender are one, and the user has the store or is a delegate.
IsEventOrganizer(user, e) == ~items[e].behalf /\ user \in {"owner", "delegate"}

UnderWay(e) == \E w \in Workers : req[w].op = "POST" /\ req[w].item = e

AfterCheckSlip(user, cancel) ==
    IF cancel /\ user = "delegate" THEN "notify" ELSE "delete"

\* A delegate cannot send yet.
AfterCheck(user, cancel) ==
    IF cancel /\ user # "delegate" THEN "notify" ELSE "delete"

StartDeleteSlip(w, user, e) ==
    /\ req[w] = Idle
    /\ deletes < MaxDeletes
    /\ IsEvent(e)
    /\ deletes' = deletes + 1
    /\ LET cancel == IsEventOrganizer(user, e) /\ items[e].meeting
       IN /\ items' = items
          /\ req' = [req EXCEPT ![w] =
                [pc |-> AfterCheck(user, cancel), op |-> "DELETE",
                 user |-> user, item |-> e, meeting |-> items[e].meeting]]
    /\ early' = IF UnderWay(e) THEN early \cup {e} ELSE early
    /\ UNCHANGED <<budget, heard, folders, calendar, client, mails, asked>>

\* Up to event.cancel(), which marks it as canceled.
StartDelete(w, user, e) ==
    /\ req[w] = Idle
    /\ deletes < MaxDeletes
    /\ IsEvent(e)
    /\ deletes' = deletes + 1
    /\ LET cancel == IsEventOrganizer(user, e) /\ items[e].meeting
       IN /\ items' = [items EXCEPT ![e].canceled = @ \/ cancel]
          /\ req' = [req EXCEPT ![w] =
                [pc |-> AfterCheck(user, cancel), op |-> "DELETE",
                 user |-> user, item |-> e, meeting |-> items[e].meeting]]
    /\ early' = IF UnderWay(e) THEN early \cup {e} ELSE early
    /\ UNCHANGED <<budget, heard, folders, calendar, client, mails, asked>>

Notify(w) ==
    /\ At(w, "notify")
    /\ heard' = [heard EXCEPT ![req[w].item] = "cancellation"]
    /\ Goto(w, "delete")
    /\ UNCHANGED <<budget, items, folders, calendar, deletes, client, history>>

Delete(w) ==
    LET e == req[w].item
    IN /\ At(w, "delete")
       /\ Exists(e)
       /\ items' = [items EXCEPT ![e] = Gone]
       /\ Answer(w, "sent")
       /\ UNCHANGED <<budget, heard, folders, calendar, deletes, history>>

-----------------------------------------------------------------------------
(* Messages and contacts.                                                  *)

Half(kind, place) == [kind |-> kind, folder |-> place, whole |-> FALSE, attached |-> FALSE]

\* POST of a message, to the drafts or to a folder by id.
CreateMessage(w, place) ==
    /\ req[w] = Idle
    /\ place \in {"Drafts"} \cup FolderIds /\ Open(place)
    /\ Make(Half("message", place))
    /\ req' = [req EXCEPT ![w] = [pc |-> "fields", op |-> "create", item |-> NewId,
                                 whole |-> FALSE, save |-> FALSE]]
    /\ UNCHANGED <<heard, folders, calendar, deletes, client, history>>

\* POST of a contact, to the contacts or to a folder by id.
CreateContact(w, place) ==
    /\ req[w] = Idle
    /\ place \in {"Contacts"} \cup FolderIds /\ Open(place)
    /\ Make(Half("contact", place))
    /\ req' = [req EXCEPT ![w] = [pc |-> "fields", op |-> "create", item |-> NewId,
                                 whole |-> FALSE, save |-> FALSE]]
    /\ UNCHANGED <<heard, folders, calendar, deletes, client, history>>

UpdateMessage(w, e) ==
    /\ req[w] = Idle
    /\ IsMessage(e)
    /\ req' = [req EXCEPT ![w] = [pc |-> "fields", op |-> "update", item |-> e,
                                 whole |-> FALSE, save |-> FALSE]]
    /\ UNCHANGED <<budget, items, heard, folders, calendar, deletes, client, history>>

\* item.reply() saves the reply, for all or not, among the drafts.
CreateReply(w, e) ==
    /\ req[w] = Idle
    /\ IsMessage(e)
    /\ Make([Half("message", "Drafts") EXCEPT !.whole = TRUE])
    /\ UNCHANGED <<heard, folders, calendar, req, deletes, client, history>>

\* item.copy(to_folder), or item.move(to_folder) which gives it another id.
CopyOrMove(w, e, place, move) ==
    /\ req[w] = Idle
    /\ IsMessage(e)
    /\ place \in {"Inbox"} \cup FolderIds /\ Open(place)
    /\ budget.message > 0
    /\ budget' = [budget EXCEPT !.message = @ - 1]
    /\ items' = [items EXCEPT ![NewId] = [items[e] EXCEPT !.folder = place],
                             ![e] = IF move THEN Gone ELSE @]
    /\ UNCHANGED <<heard, folders, calendar, req, deletes, client, history>>

\* DELETE of a message or a contact: store.delete(item)
DeleteItem(w, e) ==
    /\ req[w] = Idle
    /\ IsMessage(e) \/ IsContact(e)
    /\ items' = [items EXCEPT ![e] = Gone]
    /\ UNCHANGED <<budget, heard, folders, calendar, req, deletes, client, history>>

\* sendMail makes the message in the outbox. The client asks again after an
\* error only.
SendMail(w, save) ==
    /\ req[w] = Idle
    /\ client = "unsent"
    /\ client' = "waiting"
    /\ Make(Half("message", "Outbox"))
    /\ mails' = mails \cup {NewId}
    /\ req' = [req EXCEPT ![w] = [pc |-> "fields", op |-> "sendMail", item |-> NewId,
                                 whole |-> TRUE, save |-> save]]
    /\ UNCHANGED <<heard, folders, calendar, deletes, asked, early>>

\* POST to the send segment of a message, up to _item.
StartSend(w, e) ==
    /\ req[w] = Idle
    /\ IsMessage(e)
    /\ asked' = asked \cup {e}
    /\ req' = [req EXCEPT ![w] = [pc |-> "send", op |-> "send", item |-> e,
                                 whole |-> items[e].whole, save |-> TRUE]]
    /\ UNCHANGED <<budget, items, heard, folders, calendar, deletes, client, mails, early>>

\* As it was opened or, when it is still there, as it is.
Versions(r) == {r.whole} \cup {items[e].whole : e \in {e \in {r.item} : Exists(e)}}

SendSlip(w) ==
    LET e == req[w].item
    IN /\ At(w, "send") /\ req[w].op \in {"sendMail", "send"}
       /\ \E whole \in Versions(req[w]) :
             heard' = [heard EXCEPT ![e] = IF whole THEN "message" ELSE "half a message"]
       /\ items' = [items EXCEPT ![e] = IF ~Exists(e) THEN @
                                       ELSE IF req[w].save THEN [@ EXCEPT !.folder = "Sentmail"]
                                       ELSE Gone]
       /\ \E told \in {"sent", "unsent"} : Answer(w, told)
       /\ UNCHANGED <<budget, folders, calendar, deletes, history>>

\* message.send(copy_to_sentmail): sent, it is moved or removed. It is the last
\* call of its handler.
Send(w) ==
    LET e == req[w].item
    IN /\ At(w, "send") /\ req[w].op \in {"sendMail", "send"}
       /\ \E whole \in Versions(req[w]) :
             heard' = [heard EXCEPT ![e] = IF whole THEN "message" ELSE "half a message"]
       /\ items' = [items EXCEPT ![e] = IF ~Exists(e) THEN @
                                       ELSE IF req[w].save THEN [@ EXCEPT !.folder = "Sentmail"]
                                       ELSE Gone]
       /\ Answer(w, "sent")
       /\ UNCHANGED <<budget, folders, calendar, deletes, history>>

-----------------------------------------------------------------------------
(* Attachments of messages and events.                                     *)

MessageRoutes == {"messages", "mailFolders"}
EventRoutes == {"events", "calendars"}

\* A path, by what its routes put before the item: the user may be named
\* "calendar...", and so may a mail folder.
Paths == [user : {"me", "calendars-user"}, via : MessageRoutes \cup EventRoutes,
          folder : {"inbox", "calendar"}]

\* "/calendar" in url or "/events/" in url
GetFolderType(path) ==
    IF \/ path.user = "calendars-user"
       \/ path.via = "calendars"
       \/ path.via = "mailFolders" /\ path.folder = "calendar"
       \/ path.via = "events"
    THEN "calendar" ELSE "folder"

\* folder.event takes the id of an event, and _item that of another item.
Finds(path, e) == IF GetFolderType(path) = "calendar" THEN IsEvent(e) ELSE IsMessage(e)

\* Only file attachments are accepted.
AddAttachment(w, e) ==
    /\ req[w] = Idle
    /\ {path \in Paths : Finds(path, e)} # {}
    /\ items' = [items EXCEPT ![e].attached = TRUE]
    /\ UNCHANGED <<budget, heard, folders, calendar, req, deletes, client, history>>

DeleteAttachment(w, e) ==
    /\ req[w] = Idle
    /\ {path \in Paths : Finds(path, e)} # {}
    /\ items[e].attached
    /\ items' = [items EXCEPT ![e].attached = FALSE]
    /\ UNCHANGED <<budget, heard, folders, calendar, req, deletes, client, history>>

-----------------------------------------------------------------------------
(* Mail folders.                                                           *)

\* The folders directly in one of S.
Children(S) == {g \in FolderIds : FolderExists(g) /\ folders[g].parent \in S}

\* f and what is in it: the least set with f that has the children of its folders.
Tree(f) ==
    {g \in FolderIds :
        \A S \in SUBSET FolderIds : f \in S /\ Children(S) \subseteq S => g \in S}

Named(place, name) == {f \in FolderIds : folders[f] = [kind |-> "folder", parent |-> place, name |-> name]}

\* The requests at work on a folder of the set are touched by another one.
Touched(changed) ==
    [w \in Workers |-> IF req[w].op = "folder" /\ {req[w].folder, req[w].new} \cap changed # {}
                      THEN [req[w] EXCEPT !.touched = TRUE] ELSE req[w]]

\* POST of a child folder, or of one of the subtree; DuplicateError otherwise.
CreateFolder(w, new, place, name) ==
    /\ req[w] = Idle
    /\ budget.folder > 0 /\ folders[new] = Unmade
    /\ Open(place)
    /\ Named(place, name) = {}
    /\ budget' = [budget EXCEPT !.folder = @ - 1]
    /\ folders' = [folders EXCEPT ![new] = [kind |-> "folder", parent |-> place, name |-> name]]
    /\ UNCHANGED <<items, heard, calendar, req, deletes, client, history>>

RenameFolder(w, f, name) ==
    /\ req[w] = Idle
    /\ FolderExists(f)
    /\ Named(folders[f].parent, name) = {}
    /\ folders' = [folders EXCEPT ![f].name = name]
    /\ req' = Touched({f})
    /\ UNCHANGED <<budget, items, heard, calendar, deletes, client, history>>

\* With all that is in it.
DeleteFolder(w, f) ==
    /\ req[w] = Idle
    /\ FolderExists(f)
    /\ folders' = [g \in FolderIds |-> IF g \in Tree(f) THEN Gone ELSE folders[g]]
    /\ items' = [e \in Ids |-> IF Exists(e) /\ items[e].folder \in Tree(f) THEN Gone ELSE items[e]]
    /\ req' = Touched(Tree(f))
    /\ UNCHANGED <<budget, heard, calendar, deletes, client, history>>

\* The name of a folder is read after it was copied or moved, from an object
\* that was opened before.
FolderAt(f, place, new) ==
    [pc |-> "lookup", op |-> "folder", folder |-> f, to |-> place, name |-> folders[f].name,
     new |-> new, found |-> "none", touched |-> FALSE]

\* Up to folder.parent.move(folder, to_folder); MAPIErrorCollision otherwise.
MoveFolder(w, f, place) ==
    /\ req[w] = Idle
    /\ FolderExists(f)
    /\ Open(place) /\ place \notin Tree(f)
    /\ Named(place, folders[f].name) = {}
    /\ folders' = [folders EXCEPT ![f].parent = place]
    /\ req' = [Touched({f}) EXCEPT ![w] = FolderAt(f, place, f)]
    /\ UNCHANGED <<budget, items, heard, calendar, deletes, client, history>>

\* Up to folder.parent.copy(folder, to_folder). Bound: the folder is empty.
CopyFolder(w, f, place, new) ==
    /\ req[w] = Idle
    /\ FolderExists(f)
    /\ Tree(f) = {f} /\ \A e \in Ids : Exists(e) => items[e].folder # f
    /\ Open(place) /\ place \notin Tree(f)
    /\ Named(place, folders[f].name) = {}
    /\ budget.folder > 0 /\ folders[new] = Unmade
    /\ budget' = [budget EXCEPT !.folder = @ - 1]
    /\ folders' = [folders EXCEPT ![new] = [folders[f] EXCEPT !.parent = place]]
    /\ req' = [req EXCEPT ![w] = FolderAt(f, place, new)]
    /\ UNCHANGED <<items, heard, calendar, deletes, client, history>>

LookupInSlip(r) == IF FolderExists(r.folder) THEN folders[r.folder].parent ELSE r.to

\* to_folder.folder(...)
LookupIn(r) == r.to

\* The new folder is the one of that name.
LookupFolder(w) ==
    /\ At(w, "lookup")
    /\ \E name \in {req[w].name} \cup {folders[f].name : f \in {f \in {req[w].folder} : FolderExists(f)}} :
          \E f \in Named(LookupIn(req[w]), name) :
             req' = [req EXCEPT ![w].pc = "respond", ![w].found = f]
    /\ UNCHANGED <<budget, items, heard, folders, calendar, deletes, client, history>>

Respond(w) ==
    /\ At(w, "respond")
    /\ Answer(w, "sent")
    /\ UNCHANGED <<budget, items, heard, folders, calendar, deletes, history>>

-----------------------------------------------------------------------------
EventsNext(w) ==
    \/ \E folder \in Calendars : GetByFolderid(w, folder)
    \/ \E user \in Users, name \in Calendars \cup {"calendar"}, meeting, behalf \in BOOLEAN :
          CreateEvent(w, user, name, meeting, behalf)
    \/ \E user \in Users, e \in Ids, meeting \in BOOLEAN : UpdateEvent(w, user, e, meeting)
    \/ \E user \in Users, e \in Ids : StartDelete(w, user, e)
    \/ AttendeesSet(w) \/ SendEvent(w) \/ Notify(w) \/ Delete(w)

MailNext(w) ==
    \/ \E place \in Places : CreateMessage(w, place) \/ CreateContact(w, place)
    \/ \E save \in BOOLEAN : SendMail(w, save)
    \/ \E e \in Ids : \/ UpdateMessage(w, e) \/ CreateReply(w, e) \/ DeleteItem(w, e) \/ StartSend(w, e)
                    \/ AddAttachment(w, e) \/ DeleteAttachment(w, e)
    \/ \E e \in Ids, place \in Places, move \in BOOLEAN : CopyOrMove(w, e, place, move)
    \/ Send(w)

FoldersNext(w) ==
    \/ \E new \in FolderIds, place \in Containers, name \in Names : CreateFolder(w, new, place, name)
    \/ \E f \in FolderIds, name \in Names : RenameFolder(w, f, name)
    \/ \E f \in FolderIds : DeleteFolder(w, f)
    \/ \E f \in FolderIds, place \in Containers : MoveFolder(w, f, place)
    \/ \E f, new \in FolderIds, place \in Containers : CopyFolder(w, f, place, new)
    \/ LookupFolder(w) \/ Respond(w)

Next == \E w \in Workers : EventsNext(w) \/ MailNext(w) \/ FoldersNext(w) \/ SetFields(w) \/ Fail(w)

Spec == Init /\ [][Next]_vars

-----------------------------------------------------------------------------
(* Properties.                                                             *)

\* The type of every variable. An event is in the calendar it was posted to by
\* id, and only the owner gets to notify attendees, of a canceled event. What
\* exists is in a folder that exists, and the names in a folder differ.
TypeOK ==
    /\ budget \in [event : Nat, message : Nat, contact : Nat, folder : Nat]
    /\ items \in [Ids -> Event \cup Mail \cup {Unmade, Gone}]
    /\ heard \in [Ids -> Letters]
    /\ folders \in [FolderIds -> MailFolder \cup {Unmade, Gone}]
    /\ calendar \in Calendars
    /\ req \in [Workers -> EventRequest \cup MailRequest \cup FolderRequest \cup {Idle}]
    /\ deletes \in 0 .. MaxDeletes
    /\ client \in {"unsent", "waiting", "sent"}
    /\ mails \cup asked \cup early \subseteq Ids
    /\ \A e \in Ids : IsEvent(e) => items[e].folder = items[e].named \/ items[e].named = "calendar"
    /\ \A e \in Ids : Exists(e) => Open(items[e].folder)
    /\ \A f \in FolderIds : FolderExists(f) =>
          Open(folders[f].parent) /\ Named(folders[f].parent, folders[f].name) = {f}
    /\ \A w \in Workers : At(w, "notify") =>
          LET e == req[w].item
          IN req[w].user = "owner" /\ (Exists(e) => items[e].canceled)

\* When a DELETE of the owner removes an event, its attendees do not keep an
\* invitation (_delete_event), whatever failed before it and whoever else was
\* at the event. Not so when it was found before its POST was through, or was
\* made on behalf of the owner, which is_event_organizer denies.
OrganizerCancelsFirst ==
    [][\A w \in Workers :
        At(w, "delete") /\ req[w].user = "owner" /\ Exists(req[w].item) /\ items'[req[w].item] = Gone =>
            LET e == req[w].item
            IN heard[e] # "invitation" \/ e \in early \/ items[e].behalf]_vars

\* What was sent last is so, also after requests that failed: attendees of an
\* event were invited when all of its fields were set (_create_event), and told
\* of its cancellation when whoever sees it sees that it is canceled
\* (_delete_event); and half a message went only to whom somebody sent it by its
\* id (on_post_send), never by the sendMail that was making it.
WhatIsSentIsTrue ==
    \A e \in Ids :
        /\ IsEvent(e) =>
              /\ heard[e] = "invitation" => items[e].whole
              /\ heard[e] = "cancellation" => items[e].canceled
        /\ heard[e] = "half a message" => e \in asked

\* A client that repeats sendMail after an error has its message sent once: an
\* error says that it was not sent (on_post_send_mail sends last). It is another
\* matter when somebody sends from the outbox what a failed request left there.
SentOnce == Cardinality({e \in mails \ asked : heard[e] # "nothing"}) <= 1

\* The answer to a copy or move describes the folder that was copied or moved
\* (_folder_copy_or_move looks it up by its name), unless another request
\* renamed, moved or deleted that folder or its copy meanwhile.
AnswerNamesTheFolder ==
    \A w \in Workers :
        req[w].op = "folder" /\ At(w, "respond") => req[w].found = req[w].new \/ req[w].touched

=============================================================================
