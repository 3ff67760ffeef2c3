---------------------------- MODULE ItemsProofs -----------------------------
(***************************************************************************)
(* Proofs about Items, for any workers, items and folders: the answer to a *)
(* copy or move names the right folder, nothing untrue is sent, a message  *)
(* is sent once and a deleted event is canceled first.                     *)
(***************************************************************************)
EXTENDS Items, FiniteSetTheorems, TLAPS

-----------------------------------------------------------------------------
(* The inductive invariant                                                 *)

Unused == {e \in Ids : items[e] = Unmade}

\* What may still be made has an id left.
IdsSuffice ==
    /\ Cardinality(Unused) >= budget.event + budget.message + budget.contact

OfEvent(w) == req[w].op \in EventOps
OfMail(w) == req[w].op \in MailOps

\* Nobody has to do with an item that was not made yet.
UnusedAreUnknown ==
    \A e \in Unused : /\ heard[e] = "nothing"
                      /\ e \notin mails /\ e \notin asked /\ e \notin early

MailsAreMessages == \A e \in mails : items[e].kind \in {"message", "gone"}

\* A request has an item of its kind, or one that is gone since.
Fits(w) ==
    /\ OfEvent(w) => /\ items[req[w].item].kind \in {"event", "gone"}
                     /\ req[w].item \notin mails
    /\ OfMail(w) => items[req[w].item].kind \in {"message", "contact", "gone"}
    /\ req[w].op = "DELETE" <=> req[w].pc \in {"notify", "delete"}
    /\ req[w].pc = "send" /\ OfEvent(w) => req[w].op = "POST" /\ req[w].meeting

RequestsFit == \A w \in Workers : Fits(w)

\* What a POST has done to its event.
Progresses(w) ==
    req[w].op = "POST" /\ IsEvent(req[w].item) =>
        /\ req[w].pc \in {"fields", "send"} /\ req[w].meeting =>
              items[req[w].item].meeting
        /\ req[w].pc = "send" => items[req[w].item].whole

PostsProgress == \A w \in Workers : Progresses(w)

\* What a request has that is about to send a message.
Knows(w) ==
    /\ req[w].op = "send" => req[w].item \in asked
    /\ req[w].op = "sendMail" =>
          /\ req[w].whole
          /\ req[w].pc = "send" /\ Exists(req[w].item) => items[req[w].item].whole

SendersKnow == \A w \in Workers : Knows(w)

InvitedAreMeetings ==
    \A e \in Ids : IsEvent(e) /\ heard[e] = "invitation" => items[e].meeting

\* The client has one sendMail under way at most, and its message was not sent
\* unless it was told so.
OneSendMail ==
    \A v, w \in Workers :
        req[v].op = "sendMail" =>
            client = "waiting" /\ (req[w].op = "sendMail" => v = w)

SentMails == {e \in mails : e \notin asked /\ heard[e] # "nothing"}
SentWhenTold ==
    /\ client # "sent" => SentMails = {}
    /\ \A d, e \in SentMails : d = e

\* An event found whole is not posted to any more.
DeletesAreLate ==
    \A w \in Workers :
        req[w].op = "DELETE" /\ req[w].item \notin early =>
            \A v \in Workers : req[v].op = "POST" => req[v].item # req[w].item

HasCanceled(w) ==
    At(w, "delete") /\ req[w].user = "owner" /\ Exists(req[w].item) =>
        \/ heard[req[w].item] # "invitation"
        \/ req[w].item \in early
        \/ items[req[w].item].behalf

Canceled == \A w \in Workers : HasCanceled(w)

\* A folder that was copied or moved is as its request left it, or touched.
Untouched(w) ==
    req[w].op = "folder" =>
        /\ folders[req[w].folder] # Unmade /\ folders[req[w].new] # Unmade
        /\ ~req[w].touched =>
              /\ folders[req[w].new] = [kind |-> "folder", parent |-> req[w].to,
                                        name |-> req[w].name]
              /\ FolderExists(req[w].folder)
              /\ folders[req[w].folder].name = req[w].name

UntouchedStay == \A w \in Workers : Untouched(w)

ItemsInv ==
    /\ TypeOK
    /\ IdsSuffice /\ UnusedAreUnknown /\ MailsAreMessages /\ RequestsFit /\ PostsProgress
    /\ SendersKnow /\ InvitedAreMeetings /\ OneSendMail /\ SentWhenTold
    /\ DeletesAreLate /\ Canceled /\ UntouchedStay
    /\ WhatIsSentIsTrue /\ AnswerNamesTheFolder

-----------------------------------------------------------------------------
(* What TypeOK says of the variables one by one, and the rest of it        *)

Types ==
    /\ budget \in [event : Nat, message : Nat, contact : Nat, folder : Nat]
    /\ items \in [Ids -> Event \cup Mail \cup {Unmade, Gone}]
    /\ heard \in [Ids -> Letters]
    /\ folders \in [FolderIds -> MailFolder \cup {Unmade, Gone}]
    /\ calendar \in Calendars
    /\ req \in [Workers -> EventRequest \cup MailRequest \cup FolderRequest \cup {Idle}]
    /\ deletes \in 0 .. MaxDeletes
    /\ client \in {"unsent", "waiting", "sent"}
    /\ mails \cup asked \cup early \subseteq Ids

PostedById ==
    \A e \in Ids : IsEvent(e) => items[e].folder = items[e].named \/ items[e].named = "calendar"

Housed == \A e \in Ids : Exists(e) => Open(items[e].folder)

Tidy ==
    \A f \in FolderIds : FolderExists(f) =>
        Open(folders[f].parent) /\ Named(folders[f].parent, folders[f].name) = {f}

Notifies(w) ==
    At(w, "notify") =>
        LET e == req[w].item
        IN req[w].user = "owner" /\ (Exists(e) => items[e].canceled)

NotifiersCanceled == \A w \in Workers : Notifies(w)

LEMMA TypeOKParts ==
    TypeOK <=> Types /\ PostedById /\ Housed /\ Tidy /\ NotifiersCanceled
BY DEF TypeOK, Types, PostedById, Housed, Tidy, NotifiersCanceled, Notifies

\* The kinds of what an id or a request can stand for
LEMMA ItemCases ==
    ASSUME Types, NEW e \in Ids
    PROVE  /\ items[e] \in Event \/ items[e] \in Mail \/ items[e] \in {Unmade, Gone}
           /\ IsEvent(e) <=> items[e] \in Event
           /\ IsMessage(e) \/ IsContact(e) <=> items[e] \in Mail
           /\ items[e] = Unmade <=> items[e].kind = "unmade"
           /\ items[e] = Gone <=> items[e].kind = "gone"
<1>1. items[e] \in Event \cup Mail \cup {Unmade, Gone}
    BY DEF Types
<1>2. CASE items[e] \in Event
    <2>1. items[e].kind = "event"
        BY <1>2 DEF Event, EventKind
    <2>2. items[e] \notin Mail /\ items[e] \notin {Unmade, Gone}
        BY <2>1 DEF Mail, MailKinds, Unmade, Gone
    <2> QED BY <1>2, <2>1, <2>2 DEF IsEvent, IsMessage, IsContact
<1>3. CASE items[e] \in Mail
    <2>1. items[e].kind \in {"message", "contact"}
        BY <1>3 DEF Mail, MailKinds
    <2>2. items[e] \notin Event /\ items[e] \notin {Unmade, Gone}
        BY <2>1 DEF Event, EventKind, Unmade, Gone
    <2> QED BY <1>3, <2>1, <2>2 DEF IsEvent, IsMessage, IsContact
<1>4. CASE items[e] \in {Unmade, Gone}
    <2>1. items[e].kind \in {"unmade", "gone"}
        BY <1>4 DEF Unmade, Gone
    <2>2. items[e] \notin Event /\ items[e] \notin Mail
        BY <2>1 DEF Event, EventKind, Mail, MailKinds
    <2>3. Unmade.kind = "unmade" /\ Gone.kind = "gone"
        BY DEF Unmade, Gone
    <2> QED BY <1>4, <2>1, <2>2, <2>3 DEF IsEvent, IsMessage, IsContact
<1> QED BY <1>1, <1>2, <1>3, <1>4

LEMMA RequestCases ==
    ASSUME Types, NEW w \in Workers
    PROVE  /\ \/ req[w] \in EventRequest \/ req[w] \in MailRequest
              \/ req[w] \in FolderRequest \/ req[w] = Idle
           /\ req[w] = Idle => req[w].op = "none" /\ req[w].pc = "idle"
           /\ OfEvent(w) <=> req[w] \in EventRequest
           /\ OfMail(w) <=> req[w] \in MailRequest
           /\ req[w].op = "folder" <=> req[w] \in FolderRequest
<1>1. req[w] \in EventRequest \cup MailRequest \cup FolderRequest \cup {Idle}
    BY DEF Types
<1>2. CASE req[w] \in EventRequest
    <2>1. req[w].op \in EventOps
        BY <1>2 DEF EventRequest
    <2>2. req[w] \notin MailRequest /\ req[w] \notin FolderRequest /\ req[w] # Idle
        BY <2>1 DEF EventOps, MailRequest, MailOps, FolderRequest, FolderOps, Idle
    <2> QED BY <1>2, <2>1, <2>2 DEF OfEvent, OfMail, EventOps, MailOps
<1>3. CASE req[w] \in MailRequest
    <2>1. req[w].op \in MailOps
        BY <1>3 DEF MailRequest
    <2>2. req[w] \notin EventRequest /\ req[w] \notin FolderRequest /\ req[w] # Idle
        BY <2>1 DEF MailOps, EventRequest, EventOps, FolderRequest, FolderOps, Idle
    <2> QED BY <1>3, <2>1, <2>2 DEF OfEvent, OfMail, EventOps, MailOps
<1>4. CASE req[w] \in FolderRequest
    <2>1. req[w].op \in FolderOps
        BY <1>4 DEF FolderRequest
    <2>2. req[w] \notin EventRequest /\ req[w] \notin MailRequest /\ req[w] # Idle
        BY <2>1 DEF FolderOps, EventRequest, EventOps, MailRequest, MailOps, Idle
    <2> QED BY <1>4, <2>1, <2>2 DEF OfEvent, OfMail, EventOps, MailOps, FolderOps
<1>5. CASE req[w] = Idle
    <2>1. req[w].op = "none" /\ req[w].pc = "idle"
        BY <1>5 DEF Idle
    <2>2. req[w] \notin EventRequest /\ req[w] \notin MailRequest /\ req[w] \notin FolderRequest
        BY <2>1 DEF EventRequest, EventOps, MailRequest, MailOps, FolderRequest, FolderOps
    <2> QED BY <1>5, <2>1, <2>2 DEF OfEvent, OfMail, EventOps, MailOps
<1> QED BY <1>1, <1>2, <1>3, <1>4, <1>5

-----------------------------------------------------------------------------
(* Ids                                                                     *)

\* A set of naturals has a least element: take the least of the sets of what
\* is not above a member.
LEMMA LeastElement ==
    ASSUME NEW S, S \subseteq Nat, S # {}
    PROVE  \E x \in S : \A y \in S : x <= y
<1> DEFINE below(x) == {y \in S : y <= x}
           T == {below(x) : x \in S}
<1>1. T \subseteq FiniteSubsetsOf(S)
    <2> SUFFICES ASSUME NEW x \in S
                 PROVE  below(x) \in FiniteSubsetsOf(S)
        OBVIOUS
    <2>1. below(x) \in SUBSET Nat /\ x \in Nat /\ \A y \in below(x) : y <= x
        OBVIOUS
    <2> HIDE DEF below
    <2>2. IsFiniteSet(below(x))
        BY <2>1, FS_BoundedSetOfNaturals
    <2> QED BY <2>2 DEF FiniteSubsetsOf, below
<1>2. T # {}
    OBVIOUS
<1>3. \E B \in T : \A C \in T : <<C, B>> \notin StrictSubsetOrdering(S)
    <2> HIDE DEF T
    <2> QED BY <1>1, <1>2, FS_StrictSubsetOrderingWellFounded, WFMin
<1>4. PICK x \in S : \A y \in S : <<below(y), below(x)>> \notin StrictSubsetOrdering(S)
    BY <1>3
<1>5. ASSUME NEW y \in S, ~(x <= y)
      PROVE  FALSE
    <2>1. x \in Nat /\ y \in Nat /\ y < x
        BY <1>5
    <2>2. below(y) \subseteq below(x)
        <3> SUFFICES ASSUME NEW z \in S, z <= y
                     PROVE  z <= x
            OBVIOUS
        <3>1. z \in Nat
            OBVIOUS
        <3> QED BY <2>1, <3>1
    <2>3. x \in below(x) /\ x \notin below(y)
        BY <2>1
    <2>4. below(x) \subseteq S /\ below(y) \subseteq S
        OBVIOUS
    <2> HIDE DEF below
    <2>5. <<below(y), below(x)>> \in StrictSubsetOrdering(S)
        BY <2>2, <2>3, <2>4 DEF StrictSubsetOrdering
    <2> QED BY <1>4, <2>5
<1> QED BY <1>5

LEMMA UnusedFinite ==
    /\ IsFiniteSet(Unused) /\ Cardinality(Unused) \in Nat
    /\ Ids \subseteq Nat /\ IsFiniteSet(Ids)
<1>1. MaxItems \in Nat
    BY ItemsAssumption
<1>2. IsFiniteSet(Ids) /\ Ids \subseteq Nat
    BY <1>1, FS_Interval DEF Ids
<1>3. Unused \subseteq Ids
    BY DEF Unused
<1>4. IsFiniteSet(Unused)
    BY <1>2, <1>3, FS_Subset
<1> QED BY <1>2, <1>4, FS_CardinalityType

\* An id that is given out is unused, as long as something may be made.
LEMMA NewIdIsUnused ==
    ASSUME Types, IdsSuffice, budget.event + budget.message + budget.contact > 0
    PROVE  NewId \in Ids /\ items[NewId] = Unmade
<1>1. Unused # {}
    <2>1. Cardinality(Unused) # 0
        <3>1. /\ budget.event \in Nat /\ budget.message \in Nat /\ budget.contact \in Nat
              /\ Cardinality(Unused) \in Nat
            BY UnusedFinite DEF Types
        <3> QED BY <3>1 DEF IdsSuffice
    <2> QED BY <2>1, FS_EmptySet
<1>2. PICK e \in Unused : \A d \in Unused : e <= d
    BY <1>1, UnusedFinite, LeastElement DEF Unused
<1>3. e \in Ids /\ items[e] = Unmade /\ \A d \in 1 .. e - 1 : items[d] # Unmade
    <2>1. e \in 1 .. MaxItems /\ items[e] = Unmade /\ MaxItems \in Nat
        BY <1>2, ItemsAssumption DEF Unused, Ids
    <2>2. ASSUME NEW d \in 1 .. e - 1, items[d] = Unmade
          PROVE  FALSE
        <3>1. d \in Ids /\ d < e /\ d \in Nat /\ e \in Nat
            BY <2>1 DEF Ids
        <3> QED BY <1>2, <2>2, <3>1 DEF Unused
    <2> QED BY <2>1, <2>2 DEF Ids
<1> QED BY <1>3, Zenon DEF NewId

-----------------------------------------------------------------------------
(* What a step may do to the items                                         *)

\* What becomes of an item that was made: it stays what it is, and what was
\* set of it, canceled or made on behalf stays so, or it is gone.
Keeps(e) ==
    items[e] # Unmade =>
        /\ items'[e] # Unmade
        /\ items'[e].kind \in {items[e].kind, "gone"}
        /\ IsEvent(e)' =>
              /\ items[e].whole => items'[e].whole
              /\ items[e].canceled => items'[e].canceled
              /\ items[e].meeting => items'[e].meeting
              /\ items'[e].behalf = items[e].behalf
              /\ items'[e].folder = items[e].folder
              /\ items'[e].named = items[e].named
        /\ IsMessage(e)' \/ IsContact(e)' => (items[e].whole => items'[e].whole)

ItemsKept == \A e \in Ids : Keeps(e)

BudgetType == [event : Nat, message : Nat, contact : Nat, folder : Nat]
ItemType == Event \cup Mail \cup {Unmade, Gone}

\* What Make, or a copy, does
LEMMA OneIsMade ==
    ASSUME Types, IdsSuffice, NEW kind \in {"event", "message", "contact"}, NEW item,
           item # Unmade,
           budget[kind] > 0, budget' = [budget EXCEPT ![kind] = @ - 1],
           NewId \in Ids, items[NewId] = Unmade, items'[NewId] = item,
           \A e \in Ids : e # NewId => (items[e] = Unmade <=> items'[e] = Unmade)
    PROVE  budget' \in BudgetType /\ IdsSuffice'
<1>1. Unused' = Unused \ {NewId} /\ NewId \in Unused
    BY DEF Unused
<1>2. /\ Cardinality(Unused') = Cardinality(Unused) - 1
      /\ Cardinality(Unused) \in Nat
    BY <1>1, UnusedFinite, FS_RemoveElement
<1>3. /\ budget \in BudgetType
      /\ budget.event \in Nat /\ budget.message \in Nat /\ budget.contact \in Nat
      /\ Cardinality(Unused) >= budget.event + budget.message + budget.contact
    BY DEF Types, IdsSuffice, BudgetType
<1>4. CASE kind = "event"
    <2>1. budget' = [budget EXCEPT !.event = @ - 1] /\ budget.event > 0
        BY <1>4
    <2>2. /\ budget'.event = budget.event - 1
          /\ budget'.message = budget.message /\ budget'.contact = budget.contact
          /\ budget' \in BudgetType
        BY <1>3, <2>1 DEF BudgetType
    <2> QED BY <1>2, <1>3, <2>1, <2>2 DEF IdsSuffice
<1>5. CASE kind = "message"
    <2>1. budget' = [budget EXCEPT !.message = @ - 1] /\ budget.message > 0
        BY <1>5
    <2>2. /\ budget'.message = budget.message - 1
          /\ budget'.event = budget.event /\ budget'.contact = budget.contact
          /\ budget' \in BudgetType
        BY <1>3, <2>1 DEF BudgetType
    <2> QED BY <1>2, <1>3, <2>1, <2>2 DEF IdsSuffice
<1>6. CASE kind = "contact"
    <2>1. budget' = [budget EXCEPT !.contact = @ - 1] /\ budget.contact > 0
        BY <1>6
    <2>2. /\ budget'.contact = budget.contact - 1
          /\ budget'.event = budget.event /\ budget'.message = budget.message
          /\ budget' \in BudgetType
        BY <1>3, <2>1 DEF BudgetType
    <2> QED BY <1>2, <1>3, <2>1, <2>2 DEF IdsSuffice
<1> QED BY <1>4, <1>5, <1>6

\* An id is there for what is still in the budget.
LEMMA MakeHasId ==
    ASSUME Types, IdsSuffice, NEW kind \in {"event", "message", "contact"},
           budget[kind] > 0
    PROVE  NewId \in Ids /\ items[NewId] = Unmade
<1>1. budget.event \in Nat /\ budget.message \in Nat /\ budget.contact \in Nat
    BY DEF Types
<1>2. budget.event > 0 \/ budget.message > 0 \/ budget.contact > 0
    BY Zenon
<1>3. budget.event + budget.message + budget.contact > 0
    BY <1>1, <1>2
<1> QED BY <1>3, NewIdIsUnused

LEMMA MakeProperties ==
    ASSUME Types, IdsSuffice, NEW item \in Event \cup Mail, Make(item)
    PROVE  /\ NewId \in Ids /\ items[NewId] = Unmade
           /\ items' = [items EXCEPT ![NewId] = item]
           /\ items' \in [Ids -> ItemType] /\ budget' \in BudgetType
           /\ IdsSuffice' /\ ItemsKept
<1>1. /\ budget[item.kind] > 0 /\ budget' = [budget EXCEPT ![item.kind] = @ - 1]
      /\ items' = [items EXCEPT ![NewId] = item]
    BY DEF Make
<1>2. item.kind \in {"event", "message", "contact"}
    BY DEF Event, EventKind, Mail, MailKinds
<1>3. NewId \in Ids /\ items[NewId] = Unmade
    BY <1>1, <1>2, MakeHasId
<1>4. item # Unmade
    BY <1>2 DEF Unmade
<1>5. /\ items' \in [Ids -> ItemType] /\ items'[NewId] = item
      /\ \A e \in Ids : e # NewId => items'[e] = items[e]
    BY <1>1, <1>3 DEF Types, ItemType
<1>6. budget' \in BudgetType /\ IdsSuffice'
    <2>1. \A e \in Ids : e # NewId => (items[e] = Unmade <=> items'[e] = Unmade)
        BY <1>5
    <2> QED BY <1>1, <1>2, <1>3, <1>4, <1>5, <2>1, OneIsMade
<1>7. ItemsKept
    BY <1>3, <1>5 DEF ItemsKept, Keeps, IsEvent, IsMessage, IsContact
<1> QED BY <1>1, <1>3, <1>5, <1>6, <1>7

\* What the steps of every request are asked for first
StepOk == Types' /\ IdsSuffice' /\ ItemsKept

RequestType == EventRequest \cup MailRequest \cup FolderRequest \cup {Idle}

LEMMA InvParts ==
    ItemsInv => /\ Types /\ PostedById /\ Housed /\ Tidy /\ NotifiersCanceled
                /\ IdsSuffice /\ UnusedAreUnknown /\ RequestsFit
BY TypeOKParts DEF ItemsInv

\* A step that leaves items and budget alone is fine if its types are.
LEMMA ItemsUntouched ==
    ASSUME ItemsInv, UNCHANGED <<items, budget>>, Types'
    PROVE  StepOk
<1>1. IdsSuffice'
    <2>1. Unused' = Unused
        BY DEF Unused
    <2> QED BY <2>1, InvParts DEF IdsSuffice
<1>2. ItemsKept
    BY DEF ItemsKept, Keeps, IsEvent, IsMessage, IsContact
<1> QED BY <1>1, <1>2 DEF StepOk

\* A step that changes one item which is made, or loses it
LEMMA ItemChanged ==
    ASSUME ItemsInv, NEW e \in Ids, items[e] # Unmade, NEW item \in Event \cup Mail \cup {Gone},
           items' = [items EXCEPT ![e] = item], budget' = budget, Keeps(e), Types'
    PROVE  StepOk
<1>1. \A d \in Ids : items'[d] = IF d = e THEN item ELSE items[d]
    BY InvParts DEF Types
<1>2. \A d \in Ids : Keeps(d)
    BY <1>1 DEF Keeps, IsEvent, IsMessage, IsContact
<1>3. item # Unmade
    BY DEF Event, EventKind, Mail, MailKinds, Gone, Unmade
<1>4. Unused' = Unused
    BY <1>1, <1>3 DEF Unused
<1> QED BY <1>2, <1>4, InvParts DEF StepOk, ItemsKept, IdsSuffice

LEMMA EventChanged ==
    ASSUME ItemsInv, NEW e \in Ids, items[e] \in Event, NEW item \in Event,
           items' = [items EXCEPT ![e] = item], budget' = budget, Types',
           items[e].whole => item.whole, items[e].canceled => item.canceled,
           items[e].meeting => item.meeting, item.behalf = items[e].behalf,
           item.folder = items[e].folder, item.named = items[e].named
    PROVE  StepOk
<1>1. items'[e] = item
    BY InvParts DEF Types
<1>2. item.kind = "event" /\ items[e].kind = "event"
    BY DEF Event, EventKind
<1>3. items[e] # Unmade /\ item # Unmade
    BY <1>2 DEF Unmade
<1>4. Keeps(e)
    BY <1>1, <1>2, <1>3 DEF Keeps, IsEvent, IsMessage, IsContact
<1> QED BY <1>3, <1>4, ItemChanged

LEMMA MailChanged ==
    ASSUME ItemsInv, NEW e \in Ids, items[e] \in Mail, NEW item \in Mail,
           items' = [items EXCEPT ![e] = item], budget' = budget, Types',
           items[e].whole => item.whole, item.kind = items[e].kind
    PROVE  StepOk
<1>1. items'[e] = item
    BY InvParts DEF Types
<1>2. item.kind \in {"message", "contact"}
    BY DEF Mail, MailKinds
<1>3. items[e] # Unmade /\ item # Unmade
    BY <1>2 DEF Unmade
<1>4. Keeps(e)
    BY <1>1, <1>2, <1>3 DEF Keeps, IsEvent, IsMessage, IsContact
<1> QED BY <1>3, <1>4, ItemChanged

LEMMA ItemIsGone ==
    ASSUME ItemsInv, NEW e \in Ids, items[e] # Unmade,
           items' = [items EXCEPT ![e] = Gone], budget' = budget, Types'
    PROVE  StepOk
<1>1. items'[e] = Gone
    BY InvParts DEF Types
<1>2. Gone.kind = "gone" /\ Unmade.kind = "unmade"
    BY DEF Gone, Unmade
<1>3. Keeps(e)
    BY <1>1, <1>2 DEF Keeps, IsEvent, IsMessage, IsContact
<1> QED BY <1>3, ItemChanged

LEMMA AnswerType ==
    ASSUME Types, NEW w \in Workers, NEW told \in {"sent", "unsent"}, Answer(w, told)
    PROVE  /\ req' \in [Workers -> RequestType]
           /\ client' \in {"unsent", "waiting", "sent"}
           /\ req'[w] = Idle /\ \A v \in Workers : v # w => req'[v] = req[v]
BY DEF Types, Answer, RequestType

LEMMA EventsStep ==
    ASSUME ItemsInv, NEW w \in Workers, EventsNext(w)
    PROVE  StepOk
<1>a. Types /\ IdsSuffice /\ RequestsFit
    BY InvParts
<1> USE <1>a
<1>1. ASSUME NEW folder \in Calendars, GetByFolderid(w, folder)
      PROVE  StepOk
    <2>1. Types'
        BY <1>1 DEF Types, GetByFolderid, history
    <2> QED BY <1>1, <2>1, ItemsUntouched DEF GetByFolderid
<1>2. ASSUME NEW user \in Users, NEW name \in Calendars \cup {"calendar"},
             NEW meeting \in BOOLEAN, NEW behalf \in BOOLEAN,
             CreateEvent(w, user, name, meeting, behalf)
      PROVE  StepOk
    <2> DEFINE item == [kind |-> "event", folder |-> Folder(name), named |-> name,
                        whole |-> FALSE, attached |-> FALSE, meeting |-> FALSE,
                        canceled |-> FALSE, behalf |-> behalf]
               r == [pc |-> IF meeting THEN "attendees" ELSE "fields", op |-> "POST",
                     user |-> user, item |-> NewId, meeting |-> meeting]
    <2>1. item \in Event
        <3>1. Folder(name) \in Calendars
            BY DEF Folder, Types
        <3> QED BY <3>1 DEF Event, EventKind
    <2>2. Make(item) /\ req' = [req EXCEPT ![w] = r]
          /\ UNCHANGED <<heard, folders, calendar, deletes, client, history>>
        BY <1>2 DEF CreateEvent
    <2> HIDE DEF item
    <2>3. /\ NewId \in Ids /\ items' \in [Ids -> ItemType] /\ budget' \in BudgetType
          /\ IdsSuffice' /\ ItemsKept
        BY <2>1, <2>2, MakeProperties
    <2>4. r \in EventRequest
        BY <2>3 DEF EventRequest, EventStages, EventOps
    <2> HIDE DEF r
    <2>5. Types'
        BY <2>2, <2>3, <2>4 DEF Types, ItemType, BudgetType, history
    <2> QED BY <2>3, <2>5 DEF StepOk
<1>3. ASSUME NEW user \in Users, NEW e \in Ids, NEW meeting \in BOOLEAN,
             UpdateEvent(w, user, e, meeting)
      PROVE  StepOk
    <2> DEFINE r == [pc |-> IF meeting THEN "attendees" ELSE "fields", op |-> "PATCH",
                     user |-> user, item |-> e, meeting |-> meeting]
    <2>1. r \in EventRequest
        BY DEF EventRequest, EventStages, EventOps
    <2>2. req' = [req EXCEPT ![w] = r]
        BY <1>3 DEF UpdateEvent
    <2> HIDE DEF r
    <2>3. Types'
        BY <1>3, <2>1, <2>2 DEF Types, UpdateEvent, history
    <2> QED BY <1>3, <2>3, ItemsUntouched DEF UpdateEvent
<1>4. ASSUME NEW user \in Users, NEW e \in Ids, StartDelete(w, user, e)
      PROVE  StepOk
    <2> DEFINE cancel == IsEventOrganizer(user, e) /\ items[e].meeting
               r == [pc |-> AfterCheck(user, cancel), op |-> "DELETE",
                     user |-> user, item |-> e, meeting |-> items[e].meeting]
               item == [items[e] EXCEPT !.canceled = @ \/ cancel]
    <2>1. /\ items' = [items EXCEPT ![e].canceled = @ \/ cancel]
          /\ req' = [req EXCEPT ![w] = r]
          /\ deletes < MaxDeletes /\ deletes' = deletes + 1
          /\ early' = IF UnderWay(e) THEN early \cup {e} ELSE early
          /\ UNCHANGED <<budget, heard, folders, calendar, client, mails, asked>>
          /\ IsEvent(e)
        BY <1>4 DEF StartDelete
    <2>2. items[e] \in Event /\ items[e] # Unmade
        BY <2>1, ItemCases DEF IsEvent
    <2>3. /\ item \in Event /\ items' = [items EXCEPT ![e] = item]
          /\ item.kind = "event" /\ item.whole = items[e].whole
          /\ item.meeting = items[e].meeting /\ item.behalf = items[e].behalf
          /\ item.folder = items[e].folder /\ item.named = items[e].named
          /\ items[e].canceled => item.canceled
        <3>1. (items[e].canceled \/ cancel) \in BOOLEAN
            OBVIOUS
        <3> HIDE DEF cancel
        <3> QED BY <2>1, <2>2, <3>1 DEF Event, EventKind
    <2>4. r \in EventRequest
        <3>1. items[e].meeting \in BOOLEAN
            BY <2>2 DEF Event
        <3> QED BY <3>1 DEF EventRequest, EventStages, EventOps, AfterCheck
    <2> HIDE DEF item, r
    <2>5. deletes' \in 0 .. MaxDeletes
        BY <2>1, ItemsAssumption DEF Types
    <2>6. items' \in [Ids -> ItemType]
        BY <2>3 DEF Types, ItemType
    <2>7. Types'
        BY <2>1, <2>4, <2>5, <2>6 DEF Types, ItemType
    <2> QED BY <2>1, <2>2, <2>3, <2>7, EventChanged
<1>5. CASE AttendeesSet(w)
    <2> DEFINE e == req[w].item
               item == [items[e] EXCEPT !.meeting = TRUE]
    <2>1. /\ At(w, "attendees") /\ Exists(e)
          /\ items' = [items EXCEPT ![e] = item]
          /\ req' = [req EXCEPT ![w].pc = "fields"]
          /\ UNCHANGED <<budget, heard, folders, calendar, deletes, client, history>>
        BY <1>5 DEF AttendeesSet, Goto
    <2>2. req[w] \in EventRequest
        <3>1. req[w].pc = "attendees"
            BY <2>1 DEF At
        <3>2. req[w] \notin MailRequest /\ req[w] \notin FolderRequest /\ req[w].pc # "idle"
            BY <3>1 DEF MailRequest, MailStages, FolderRequest, FolderStages
        <3> QED BY <3>2, RequestCases
    <2>3. e \in Ids /\ items[e].kind \in {"event", "gone"}
        BY <2>2, RequestCases DEF EventRequest, RequestsFit, Fits
    <2>4. items[e] \in Event /\ items[e] # Unmade
        <3>1. items[e].kind = "event"
            BY <2>1, <2>3 DEF Exists, IsEvent, IsMessage, IsContact
        <3> QED BY <2>3, <3>1, ItemCases DEF IsEvent
    <2>5. /\ item \in Event
          /\ item.kind = "event" /\ item.whole = items[e].whole
          /\ item.meeting /\ item.behalf = items[e].behalf
          /\ item.folder = items[e].folder /\ item.named = items[e].named
          /\ item.canceled = items[e].canceled
        BY <2>4 DEF Event, EventKind
    <2>6. [req[w] EXCEPT !.pc = "fields"] \in EventRequest
        BY <2>2 DEF EventRequest, EventStages
    <2> HIDE DEF item
    <2>7. items' \in [Ids -> ItemType]
        BY <2>1, <2>5 DEF Types, ItemType
    <2>8. Types'
        BY <2>1, <2>6, <2>7 DEF Types, ItemType, history
    <2> QED BY <2>1, <2>3, <2>4, <2>5, <2>8, EventChanged
<1>6. CASE SendEvent(w)
    <2>1. /\ req[w].item \in Ids
          /\ heard' \in [Ids -> Letters]
          /\ UNCHANGED <<budget, items, folders, calendar, deletes, history>>
          /\ Answer(w, "sent")
        <3>1. OfEvent(w)
            BY <1>6 DEF SendEvent, OfEvent, EventOps
        <3>2. req[w].item \in Ids
            BY <3>1, RequestCases DEF EventRequest
        <3>3. \/ heard' = [heard EXCEPT ![req[w].item] = "invitation"]
              \/ heard' = [heard EXCEPT ![req[w].item] = "cancellation"]
            BY <1>6 DEF SendEvent
        <3>4. heard' \in [Ids -> Letters]
            BY <3>3 DEF Types, Letters
        <3> QED BY <1>6, <3>2, <3>4 DEF SendEvent
    <2>2. Types'
        BY <2>1, AnswerType DEF Types, RequestType, history
    <2> QED BY <2>1, <2>2, ItemsUntouched
<1>7. CASE Notify(w)
    <2>1. /\ req[w].pc = "notify" /\ req' = [req EXCEPT ![w].pc = "delete"]
          /\ heard' = [heard EXCEPT ![req[w].item] = "cancellation"]
          /\ UNCHANGED <<budget, items, folders, calendar, deletes, client, history>>
        BY <1>7 DEF Notify, At, Goto
    <2>2. req[w] \in EventRequest
        <3>1. req[w] \notin MailRequest /\ req[w] \notin FolderRequest /\ req[w].pc # "idle"
            BY <2>1 DEF MailRequest, MailStages, FolderRequest, FolderStages
        <3> QED BY <3>1, RequestCases
    <2>3. [req[w] EXCEPT !.pc = "delete"] \in EventRequest /\ req[w].item \in Ids
        BY <2>2 DEF EventRequest, EventStages
    <2>4. Types'
        BY <2>1, <2>3 DEF Types, Letters, history
    <2> QED BY <2>1, <2>4, ItemsUntouched
<1>8. CASE Delete(w)
    <2> DEFINE e == req[w].item
    <2>1. /\ At(w, "delete") /\ Exists(e) /\ items' = [items EXCEPT ![e] = Gone]
          /\ Answer(w, "sent")
          /\ UNCHANGED <<budget, heard, folders, calendar, deletes, history>>
        BY <1>8 DEF Delete
    <2>2. req[w] \in EventRequest
        <3>1. req[w].pc = "delete"
            BY <2>1 DEF At
        <3>2. req[w] \notin MailRequest /\ req[w] \notin FolderRequest /\ req[w].pc # "idle"
            BY <3>1 DEF MailRequest, MailStages, FolderRequest, FolderStages
        <3> QED BY <3>2, RequestCases
    <2>3. e \in Ids /\ items[e] # Unmade
        BY <2>1, <2>2 DEF EventRequest, Exists, IsEvent, IsMessage, IsContact, Unmade
    <2>4. items' \in [Ids -> ItemType]
        BY <2>1 DEF Types, ItemType
    <2>5. Types'
        BY <2>1, <2>4, AnswerType DEF Types, ItemType, RequestType, history
    <2> QED BY <2>1, <2>3, <2>5, ItemIsGone
<1> QED BY <1>1, <1>2, <1>3, <1>4, <1>5, <1>6, <1>7, <1>8 DEF EventsNext

LEMMA HalfType ==
    ASSUME NEW kind \in MailKinds, NEW place \in Places
    PROVE  /\ Half(kind, place) \in Mail
           /\ [Half(kind, place) EXCEPT !.whole = TRUE] \in Mail
BY DEF Half, Mail

\* A POST of a message or a contact
LEMMA CreateStep ==
    ASSUME ItemsInv, NEW w \in Workers, NEW kind \in MailKinds, NEW place \in Places,
           NEW r \in MailRequest, Make(Half(kind, place)),
           req' = [req EXCEPT ![w] = r],
           UNCHANGED <<heard, folders, calendar, deletes>>,
           client' \in {"unsent", "waiting", "sent"},
           mails' \subseteq mails \cup {NewId}, UNCHANGED <<asked, early>>
    PROVE  StepOk
<1>a. Types /\ IdsSuffice /\ RequestsFit
    BY InvParts
<1>1. Half(kind, place) \in Event \cup Mail
    BY HalfType
<1>2. /\ NewId \in Ids /\ items' \in [Ids -> ItemType] /\ budget' \in BudgetType
      /\ IdsSuffice' /\ ItemsKept
    BY <1>a, <1>1, MakeProperties
<1>3. Types'
    BY <1>a, <1>2 DEF Types, ItemType, BudgetType
<1> QED BY <1>2, <1>3 DEF StepOk

LEMMA PostMailStep ==
    ASSUME ItemsInv, NEW w \in Workers, NEW place \in Places, NEW save \in BOOLEAN,
           CreateMessage(w, place) \/ CreateContact(w, place) \/ SendMail(w, save)
    PROVE  StepOk
<1>a. Types /\ IdsSuffice
    BY InvParts
<1>b. "message" \in MailKinds /\ "contact" \in MailKinds /\ "Outbox" \in Places
    BY DEF MailKinds, Places
<1> DEFINE new(op, whole, kept) ==
               [pc |-> "fields", op |-> op, item |-> NewId, whole |-> whole, save |-> kept]
<1>1. NewId \in Ids => /\ new("create", FALSE, FALSE) \in MailRequest
                       /\ new("sendMail", TRUE, save) \in MailRequest
    BY DEF MailRequest, MailStages, MailOps
<1>2. \A kind \in MailKinds, p \in Places : Make(Half(kind, p)) => NewId \in Ids
    BY <1>a, HalfType, MakeProperties
<1>3. CASE CreateMessage(w, place)
    <2>1. /\ Make(Half("message", place))
          /\ req' = [req EXCEPT ![w] = new("create", FALSE, FALSE)]
          /\ UNCHANGED <<heard, folders, calendar, deletes, client, mails, asked, early>>
        BY <1>3 DEF CreateMessage, history
    <2>2. new("create", FALSE, FALSE) \in MailRequest
        BY <1>1, <1>2, <1>b, <2>1
    <2> HIDE DEF new
    <2>3. client' \in {"unsent", "waiting", "sent"} /\ mails' \subseteq mails \cup {NewId}
        BY <1>a, <2>1 DEF Types
    <2> QED BY <1>b, <2>1, <2>2, <2>3, CreateStep
<1>4. CASE CreateContact(w, place)
    <2>1. /\ Make(Half("contact", place))
          /\ req' = [req EXCEPT ![w] = new("create", FALSE, FALSE)]
          /\ UNCHANGED <<heard, folders, calendar, deletes, client, mails, asked, early>>
        BY <1>4 DEF CreateContact, history
    <2>2. new("create", FALSE, FALSE) \in MailRequest
        BY <1>1, <1>2, <1>b, <2>1
    <2> HIDE DEF new
    <2>3. client' \in {"unsent", "waiting", "sent"} /\ mails' \subseteq mails \cup {NewId}
        BY <1>a, <2>1 DEF Types
    <2> QED BY <1>b, <2>1, <2>2, <2>3, CreateStep
<1>5. CASE SendMail(w, save)
    <2>1. /\ Make(Half("message", "Outbox"))
          /\ req' = [req EXCEPT ![w] = new("sendMail", TRUE, save)]
          /\ client' = "waiting" /\ mails' = mails \cup {NewId}
          /\ UNCHANGED <<heard, folders, calendar, deletes, asked, early>>
        BY <1>5 DEF SendMail
    <2>2. new("sendMail", TRUE, save) \in MailRequest
        BY <1>1, <1>2, <1>b, <2>1
    <2> HIDE DEF new
    <2> QED BY <1>b, <2>1, <2>2, CreateStep
<1> QED BY <1>3, <1>4, <1>5

\* What is copied takes an id, and what is moved loses its own.
LEMMA CopyOrMoveStep ==
    ASSUME ItemsInv, NEW w \in Workers, NEW e \in Ids, NEW place \in Places,
           NEW move \in BOOLEAN, CopyOrMove(w, e, place, move)
    PROVE  /\ StepOk /\ NewId \in Ids /\ items[NewId] = Unmade /\ items[e] \in Mail
           /\ items'[NewId] = [items[e] EXCEPT !.folder = place]
           /\ \A d \in Ids : d # NewId =>
                  items'[d] = items[d] \/ (d = e /\ items'[d] = Gone)
<1>a. Types /\ IdsSuffice
    BY InvParts
<1> DEFINE copy == [items[e] EXCEPT !.folder = place]
<1>1. /\ budget["message"] > 0 /\ budget' = [budget EXCEPT !["message"] = @ - 1]
      /\ items' = [items EXCEPT ![NewId] = copy, ![e] = IF move THEN Gone ELSE @]
      /\ IsMessage(e)
      /\ UNCHANGED <<heard, folders, calendar, req, deletes, client, history>>
    BY DEF CopyOrMove
<1>2. NewId \in Ids /\ items[NewId] = Unmade
    BY <1>a, <1>1, MakeHasId
<1>3. items[e] \in Mail /\ items[e] # Unmade /\ e # NewId
    <2>1. items[e] \in Mail
        BY <1>a, <1>1, ItemCases
    <2>2. items[e] # Unmade
        BY <1>1 DEF IsMessage, Unmade
    <2> QED BY <1>2, <2>1, <2>2
<1>4. copy \in Mail /\ copy # Unmade
    <2>1. copy \in Mail
        BY <1>3 DEF Mail
    <2>2. copy.kind \in {"message", "contact"}
        BY <2>1 DEF Mail, MailKinds
    <2> QED BY <2>1, <2>2 DEF Unmade
<1> HIDE DEF copy
<1>5. /\ items'[NewId] = copy
      /\ items'[e] = IF move THEN Gone ELSE items[e]
      /\ \A d \in Ids : d # NewId /\ d # e => items'[d] = items[d]
    BY <1>a, <1>1, <1>2, <1>3 DEF Types
<1>6. items' \in [Ids -> ItemType]
    <2>1. \A d \in Ids : items[d] \in ItemType
        BY <1>a DEF Types, ItemType
    <2>2. copy \in ItemType /\ Gone \in ItemType
        BY <1>4 DEF ItemType
    <2>3. \A d \in Ids : items'[d] \in ItemType
        BY <1>5, <2>1, <2>2
    <2>4. DOMAIN items' = Ids /\ items' = [d \in Ids |-> items'[d]]
        BY <1>a, <1>1 DEF Types
    <2> QED BY <2>3, <2>4
<1>7. Gone # Unmade /\ Gone.kind = "gone"
    BY DEF Gone, Unmade
<1>8. budget' \in BudgetType /\ IdsSuffice'
    <2>1. \A d \in Ids : d # NewId => (items[d] = Unmade <=> items'[d] = Unmade)
        BY <1>3, <1>5, <1>7
    <2> QED BY <1>a, <1>1, <1>2, <1>4, <1>5, <2>1, OneIsMade
<1>9. ItemsKept
    <2> SUFFICES ASSUME NEW d \in Ids, items[d] # Unmade
                 PROVE  Keeps(d)
        BY DEF ItemsKept, Keeps
    <2>1. CASE items'[d] = Gone
        BY <1>7, <2>1 DEF Keeps, IsEvent, IsMessage, IsContact
    <2>2. CASE items'[d] = items[d]
        BY <2>2 DEF Keeps, IsEvent, IsMessage, IsContact
    <2> QED BY <1>2, <1>5, <2>1, <2>2
<1>10. Types'
    BY <1>a, <1>1, <1>6, <1>8 DEF Types, ItemType, BudgetType, history
<1> QED BY <1>2, <1>3, <1>5, <1>7, <1>8, <1>9, <1>10 DEF StepOk, copy

LEMMA SendProperties ==
    ASSUME ItemsInv, NEW w \in Workers, Send(w)
    PROVE  /\ req[w] \in MailRequest /\ req[w].item \in Ids
           /\ \/ items' = items
              \/ /\ items[req[w].item] \in Mail /\ Exists(req[w].item)
                 /\ items' = [items EXCEPT ![req[w].item] =
                                  [items[req[w].item] EXCEPT !.folder = "Sentmail"]]
              \/ /\ items[req[w].item] \in Mail /\ Exists(req[w].item)
                 /\ items' = [items EXCEPT ![req[w].item] = Gone]
<1> DEFINE e == req[w].item
<1>a. Types /\ RequestsFit
    BY InvParts
<1>1. /\ req[w].op \in {"sendMail", "send"}
      /\ items' = [items EXCEPT ![e] = IF ~Exists(e) THEN @
                                       ELSE IF req[w].save THEN [@ EXCEPT !.folder = "Sentmail"]
                                       ELSE Gone]
    BY DEF Send
<1>2. OfMail(w) /\ req[w] \in MailRequest
    BY <1>a, <1>1, RequestCases DEF OfMail, MailOps
<1>3. e \in Ids /\ items[e].kind \in {"message", "contact", "gone"}
    BY <1>a, <1>2 DEF MailRequest, RequestsFit, Fits
<1>4. Exists(e) => items[e] \in Mail
    BY <1>a, <1>3, ItemCases DEF Exists, IsEvent, IsMessage, IsContact
<1>5. CASE ~Exists(e)
    <2>1. items' = items
        BY <1>a, <1>1, <1>5 DEF Types
    <2> QED BY <1>2, <1>3, <2>1
<1>6. CASE Exists(e) /\ req[w].save
    BY <1>1, <1>2, <1>3, <1>4, <1>6
<1>7. CASE Exists(e) /\ ~req[w].save
    BY <1>1, <1>2, <1>3, <1>4, <1>7
<1> QED BY <1>5, <1>6, <1>7

LEMMA SendStep ==
    ASSUME ItemsInv, NEW w \in Workers, Send(w)
    PROVE  StepOk
<1> DEFINE e == req[w].item
<1>a. Types
    BY InvParts
<1>1. /\ Answer(w, "sent")
      /\ \E l \in {"message", "half a message"} : heard' = [heard EXCEPT ![e] = l]
      /\ UNCHANGED <<budget, folders, calendar, deletes, history>>
    <2>1. PICK whole \in Versions(req[w]) :
              heard' = [heard EXCEPT ![e] = IF whole THEN "message" ELSE "half a message"]
        BY DEF Send
    <2>2. (IF whole THEN "message" ELSE "half a message") \in {"message", "half a message"}
        OBVIOUS
    <2> QED BY <2>1, <2>2 DEF Send
<1>2. heard' \in [Ids -> Letters]
    BY <1>a, <1>1 DEF Types, Letters
<1>3. items' \in [Ids -> ItemType] => Types'
    BY <1>a, <1>1, <1>2, AnswerType DEF Types, ItemType, RequestType, history
<1>4. items \in [Ids -> ItemType] /\ e \in Ids
    BY <1>a, SendProperties DEF Types, ItemType
<1>5. CASE items' = items
    BY <1>1, <1>3, <1>4, <1>5, ItemsUntouched
<1>6. CASE /\ items[e] \in Mail
           /\ items' = [items EXCEPT ![e] = [items[e] EXCEPT !.folder = "Sentmail"]]
    <2> DEFINE item == [items[e] EXCEPT !.folder = "Sentmail"]
    <2>1. item \in Mail /\ item.whole = items[e].whole /\ item.kind = items[e].kind
        BY <1>6 DEF Mail, Places
    <2> HIDE DEF item
    <2>2. items' = [items EXCEPT ![e] = item]
        BY <1>6 DEF item
    <2>3. items' \in [Ids -> ItemType]
        BY <1>4, <2>1, <2>2 DEF ItemType
    <2> QED BY <1>1, <1>3, <1>4, <1>6, <2>1, <2>2, <2>3, MailChanged
<1>7. CASE /\ items[e] \in Mail
           /\ items' = [items EXCEPT ![e] = Gone]
    <2>1. items' \in [Ids -> ItemType]
        BY <1>4, <1>7 DEF ItemType
    <2>2. items[e] # Unmade
        BY <1>7 DEF Mail, MailKinds, Unmade
    <2> QED BY <1>1, <1>3, <1>4, <1>7, <2>1, <2>2, ItemIsGone
<1> QED BY <1>5, <1>6, <1>7, SendProperties

LEMMA AttachmentStep ==
    ASSUME ItemsInv, NEW w \in Workers, NEW e \in Ids,
           AddAttachment(w, e) \/ DeleteAttachment(w, e)
    PROVE  StepOk
<1>a. Types
    BY InvParts
<1>1. /\ \E b \in BOOLEAN : items' = [items EXCEPT ![e] = [items[e] EXCEPT !.attached = b]]
      /\ UNCHANGED <<budget, heard, folders, calendar, req, deletes, client, history>>
    BY DEF AddAttachment, DeleteAttachment
<1>2. \E path \in Paths : Finds(path, e)
    BY DEF AddAttachment, DeleteAttachment
<1>3. items[e] \in Event \/ items[e] \in Mail
    BY <1>a, <1>2, ItemCases DEF Finds
<1>4. PICK b \in BOOLEAN : items' = [items EXCEPT ![e] = [items[e] EXCEPT !.attached = b]]
    BY <1>1
<1> DEFINE item == [items[e] EXCEPT !.attached = b]
<1>5. CASE items[e] \in Event
    <2>1. /\ item \in Event /\ item.whole = items[e].whole
          /\ item.canceled = items[e].canceled /\ item.meeting = items[e].meeting
          /\ item.behalf = items[e].behalf /\ item.folder = items[e].folder
          /\ item.named = items[e].named
        BY <1>5 DEF Event
    <2> HIDE DEF item
    <2>2. items' = [items EXCEPT ![e] = item]
        BY <1>4 DEF item
    <2>3. Types'
        BY <1>a, <1>1, <2>1, <2>2 DEF Types, history
    <2> QED BY <1>1, <1>5, <2>1, <2>2, <2>3, EventChanged
<1>6. CASE items[e] \in Mail
    <2>1. item \in Mail /\ item.whole = items[e].whole /\ item.kind = items[e].kind
        BY <1>6 DEF Mail
    <2> HIDE DEF item
    <2>2. items' = [items EXCEPT ![e] = item]
        BY <1>4 DEF item
    <2>3. Types'
        BY <1>a, <1>1, <2>1, <2>2 DEF Types, history
    <2> QED BY <1>1, <1>6, <2>1, <2>2, <2>3, MailChanged
<1> QED BY <1>3, <1>5, <1>6

LEMMA MailStep ==
    ASSUME ItemsInv, NEW w \in Workers, MailNext(w)
    PROVE  StepOk
<1>a. Types /\ IdsSuffice /\ RequestsFit
    BY InvParts
<1>1. ASSUME NEW e \in Ids, UpdateMessage(w, e)
      PROVE  StepOk
    <2> DEFINE r == [pc |-> "fields", op |-> "update", item |-> e, whole |-> FALSE,
                     save |-> FALSE]
    <2>1. r \in MailRequest
        BY DEF MailRequest, MailStages, MailOps
    <2>2. /\ req' = [req EXCEPT ![w] = r]
          /\ UNCHANGED <<budget, items, heard, folders, calendar, deletes, client, history>>
        BY <1>1 DEF UpdateMessage
    <2> HIDE DEF r
    <2>3. Types'
        BY <1>a, <2>1, <2>2 DEF Types, history
    <2> QED BY <2>2, <2>3, ItemsUntouched
<1>2. ASSUME NEW e \in Ids, CreateReply(w, e)
      PROVE  StepOk
    <2> DEFINE item == [Half("message", "Drafts") EXCEPT !.whole = TRUE]
    <2>1. item \in Event \cup Mail
        BY HalfType DEF MailKinds, Places
    <2>2. Make(item) /\ UNCHANGED <<heard, folders, calendar, req, deletes, client, history>>
        BY <1>2 DEF CreateReply
    <2> HIDE DEF item
    <2>3. /\ items' \in [Ids -> ItemType] /\ budget' \in BudgetType
          /\ IdsSuffice' /\ ItemsKept
        BY <1>a, <2>1, <2>2, MakeProperties
    <2>4. Types'
        BY <1>a, <2>2, <2>3 DEF Types, ItemType, BudgetType, history
    <2> QED BY <2>3, <2>4 DEF StepOk
<1>3. ASSUME NEW e \in Ids, DeleteItem(w, e)
      PROVE  StepOk
    <2>1. /\ items' = [items EXCEPT ![e] = Gone]
          /\ (IsMessage(e) \/ IsContact(e))
          /\ UNCHANGED <<budget, heard, folders, calendar, req, deletes, client, history>>
        BY <1>3 DEF DeleteItem
    <2>2. items[e] # Unmade
        BY <2>1 DEF IsMessage, IsContact, Unmade
    <2>3. Types'
        BY <1>a, <2>1 DEF Types, history
    <2> QED BY <2>1, <2>2, <2>3, ItemIsGone
<1>4. ASSUME NEW e \in Ids, StartSend(w, e)
      PROVE  StepOk
    <2> DEFINE r == [pc |-> "send", op |-> "send", item |-> e, whole |-> items[e].whole,
                     save |-> TRUE]
    <2>1. /\ req' = [req EXCEPT ![w] = r] /\ asked' = asked \cup {e} /\ IsMessage(e)
          /\ UNCHANGED <<budget, items, heard, folders, calendar, deletes, client, mails, early>>
        BY <1>4 DEF StartSend
    <2>2. r \in MailRequest
        <3>1. items[e] \in Mail
            BY <1>a, <2>1, ItemCases
        <3>2. items[e].whole \in BOOLEAN
            BY <3>1 DEF Mail
        <3> QED BY <3>2 DEF MailRequest, MailStages, MailOps
    <2> HIDE DEF r
    <2>3. Types'
        BY <1>a, <2>1, <2>2 DEF Types
    <2> QED BY <2>1, <2>3, ItemsUntouched
<1>5. ASSUME NEW place \in Places, CreateMessage(w, place) \/ CreateContact(w, place)
      PROVE  StepOk
    <2>1. FALSE \in BOOLEAN
        OBVIOUS
    <2> QED BY <1>5, <2>1, PostMailStep
<1>6. ASSUME NEW save \in BOOLEAN, SendMail(w, save)
      PROVE  StepOk
    <2>1. "Outbox" \in Places
        BY DEF Places
    <2> QED BY <1>6, <2>1, PostMailStep
<1>7. ASSUME NEW e \in Ids, AddAttachment(w, e) \/ DeleteAttachment(w, e)
      PROVE  StepOk
    BY <1>7, AttachmentStep
<1>8. ASSUME NEW e \in Ids, NEW place \in Places, NEW move \in BOOLEAN,
             CopyOrMove(w, e, place, move)
      PROVE  StepOk
    BY <1>8, CopyOrMoveStep
<1>9. CASE Send(w)
    BY <1>9, SendStep
<1> QED BY <1>1, <1>2, <1>3, <1>4, <1>5, <1>6, <1>7, <1>8, <1>9 DEF MailNext

LEMMA FailStep ==
    ASSUME ItemsInv, NEW w \in Workers, Fail(w)
    PROVE  StepOk
<1>a. Types
    BY InvParts
<1>1. /\ Answer(w, "unsent")
      /\ UNCHANGED <<budget, items, heard, folders, calendar, deletes, history>>
    BY DEF Fail
<1>2. Types'
    BY <1>a, <1>1, AnswerType DEF Types, RequestType, history
<1> QED BY <1>1, <1>2, ItemsUntouched

LEMMA SetFieldsProperties ==
    ASSUME ItemsInv, NEW w \in Workers, SetFields(w)
    PROVE  /\ req[w].item \in Ids /\ Exists(req[w].item)
           /\ \/ OfEvent(w) /\ items[req[w].item] \in Event
              \/ OfMail(w) /\ items[req[w].item] \in Mail
           /\ IF req[w].op \in {"PATCH", "update"} THEN items' = items
              ELSE items' = [items EXCEPT ![req[w].item] =
                                 [items[req[w].item] EXCEPT !.whole = TRUE]]
<1> DEFINE e == req[w].item
<1>a. Types /\ RequestsFit
    BY InvParts
<1>1. /\ req[w].pc = "fields" /\ Exists(e)
      /\ IF req[w].op \in {"PATCH", "update"} THEN UNCHANGED items
         ELSE items' = [items EXCEPT ![e].whole = TRUE]
    BY DEF SetFields, At
<1>2. req[w] \in EventRequest \/ req[w] \in MailRequest
    <2>1. req[w] \notin FolderRequest /\ req[w].pc # "idle"
        BY <1>1 DEF FolderRequest, FolderStages
    <2> QED BY <1>a, <2>1, RequestCases
<1>3. CASE req[w] \in EventRequest
    <2>1. e \in Ids /\ OfEvent(w) /\ items[e].kind \in {"event", "gone"}
        BY <1>a, <1>3, RequestCases DEF EventRequest, RequestsFit, Fits
    <2>2. items[e] \in Event
        BY <1>a, <1>1, <2>1, ItemCases DEF Exists, IsEvent, IsMessage, IsContact
    <2> QED BY <1>1, <2>1, <2>2
<1>4. CASE req[w] \in MailRequest
    <2>1. e \in Ids /\ OfMail(w) /\ items[e].kind \in {"message", "contact", "gone"}
        BY <1>a, <1>4, RequestCases DEF MailRequest, RequestsFit, Fits
    <2>2. items[e] \in Mail
        BY <1>a, <1>1, <2>1, ItemCases DEF Exists, IsEvent, IsMessage, IsContact
    <2> QED BY <1>1, <2>1, <2>2
<1> QED BY <1>2, <1>3, <1>4

LEMMA SetFieldsStep ==
    ASSUME ItemsInv, NEW w \in Workers, SetFields(w)
    PROVE  StepOk
<1> DEFINE e == req[w].item
           item == [items[e] EXCEPT !.whole = TRUE]
<1>a. Types
    BY InvParts
<1>1. UNCHANGED <<budget, heard, folders, calendar, deletes, history>>
    BY DEF SetFields
<1>2. req' \in [Workers -> RequestType] /\ client' \in {"unsent", "waiting", "sent"}
    <2>1. CASE SentWhenSet(req[w])
        <3>1. req' = [req EXCEPT ![w].pc = "send"] /\ client' = client
            BY <2>1 DEF SetFields, Goto
        <3>2. [req[w] EXCEPT !.pc = "send"] \in RequestType
            <4>1. req[w] \in EventRequest \/ req[w] \in MailRequest
                BY <1>a, <2>1, RequestCases DEF SentWhenSet, OfEvent, OfMail, EventOps, MailOps
            <4>2. CASE req[w] \in EventRequest
                BY <4>2 DEF EventRequest, EventStages, RequestType
            <4>3. CASE req[w] \in MailRequest
                BY <4>3 DEF MailRequest, MailStages, RequestType
            <4> QED BY <4>1, <4>2, <4>3
        <3> QED BY <1>a, <3>1, <3>2 DEF Types, RequestType
    <2>2. CASE ~SentWhenSet(req[w])
        <3>1. Answer(w, "sent")
            BY <2>2 DEF SetFields
        <3> QED BY <1>a, <3>1, AnswerType
    <2> QED BY <2>1, <2>2
<1>3. items' \in [Ids -> ItemType] => Types'
    BY <1>a, <1>1, <1>2 DEF Types, ItemType, RequestType, history
<1>4. items \in [Ids -> ItemType] /\ e \in Ids
    BY <1>a, SetFieldsProperties DEF Types, ItemType
<1>5. CASE items' = items
    BY <1>1, <1>3, <1>4, <1>5, ItemsUntouched
<1>6. CASE items[e] \in Event /\ items' = [items EXCEPT ![e] = item]
    <2>1. /\ item \in Event /\ item.whole
          /\ item.canceled = items[e].canceled /\ item.meeting = items[e].meeting
          /\ item.behalf = items[e].behalf /\ item.folder = items[e].folder
          /\ item.named = items[e].named
        BY <1>6 DEF Event
    <2> HIDE DEF item
    <2>2. items' \in [Ids -> ItemType]
        BY <1>4, <1>6, <2>1 DEF ItemType
    <2> QED BY <1>1, <1>3, <1>4, <1>6, <2>1, <2>2, EventChanged
<1>7. CASE items[e] \in Mail /\ items' = [items EXCEPT ![e] = item]
    <2>1. item \in Mail /\ item.whole /\ item.kind = items[e].kind
        BY <1>7 DEF Mail
    <2> HIDE DEF item
    <2>2. items' \in [Ids -> ItemType]
        BY <1>4, <1>7, <2>1 DEF ItemType
    <2> QED BY <1>1, <1>3, <1>4, <1>7, <2>1, <2>2, MailChanged
<1> QED BY <1>5, <1>6, <1>7, SetFieldsProperties

\* A request at work on a folder is touched, and no other one is.
LEMMA TouchedRequests ==
    ASSUME Types, NEW S
    PROVE  /\ Touched(S) \in [Workers -> RequestType]
           /\ \A v \in Workers :
                 \/ Touched(S)[v] = req[v]
                 \/ /\ req[v] \in FolderRequest /\ Touched(S)[v] \in FolderRequest
                    /\ Touched(S)[v] = [req[v] EXCEPT !.touched = TRUE]
           /\ \A v \in Workers :
                 req[v].op = "folder" /\ {req[v].folder, req[v].new} \cap S # {} =>
                     Touched(S)[v].touched
<1>1. ASSUME NEW v \in Workers
      PROVE  req[v] \in RequestType
    BY DEF Types, RequestType
<1>2. ASSUME NEW v \in Workers, req[v].op = "folder"
      PROVE  /\ req[v] \in FolderRequest /\ [req[v] EXCEPT !.touched = TRUE] \in FolderRequest
             /\ [req[v] EXCEPT !.touched = TRUE].touched
    <2>1. req[v] \in FolderRequest
        BY <1>2, RequestCases
    <2> QED BY <2>1 DEF FolderRequest
<1>3. ASSUME NEW v \in Workers
      PROVE  /\ \/ Touched(S)[v] = req[v]
                \/ /\ req[v].op = "folder"
                   /\ Touched(S)[v] = [req[v] EXCEPT !.touched = TRUE]
             /\ req[v].op = "folder" /\ {req[v].folder, req[v].new} \cap S # {} =>
                    Touched(S)[v] = [req[v] EXCEPT !.touched = TRUE]
    BY DEF Touched
<1>4. \A v \in Workers : Touched(S)[v] \in RequestType
    BY <1>1, <1>2, <1>3 DEF RequestType
<1>5. Touched(S) = [v \in Workers |-> Touched(S)[v]]
    BY DEF Touched
<1> QED BY <1>2, <1>3, <1>4, <1>5

LEMMA FolderMade ==
    ASSUME ItemsInv, items' = items, budget.folder > 0,
           budget' = [budget EXCEPT !.folder = @ - 1]
    PROVE  budget' \in BudgetType /\ IdsSuffice' /\ ItemsKept
<1>1. budget \in BudgetType /\ IdsSuffice
    BY InvParts DEF Types, BudgetType
<1>2. /\ budget'.event = budget.event /\ budget'.message = budget.message
      /\ budget'.contact = budget.contact /\ budget' \in BudgetType
    BY <1>1 DEF BudgetType
<1>3. Unused' = Unused
    BY DEF Unused
<1>4. ItemsKept
    BY DEF ItemsKept, Keeps, IsEvent, IsMessage, IsContact
<1> QED BY <1>1, <1>2, <1>3, <1>4 DEF IdsSuffice

\* What a folder that was made or renamed is
LEMMA FolderType ==
    /\ \A place \in Containers, name \in Names :
          [kind |-> "folder", parent |-> place, name |-> name] \in MailFolder
    /\ \A m \in MailFolder, place \in Containers : [m EXCEPT !.parent = place] \in MailFolder
    /\ \A m \in MailFolder, name \in Names : [m EXCEPT !.name = name] \in MailFolder
    /\ \A m \in MailFolder :
          m.kind = "folder" /\ m.parent \in Containers /\ m.name \in Names
    /\ Unmade.kind = "unmade" /\ Gone.kind = "gone"
BY DEF MailFolder, FolderKind, Unmade, Gone

LEMMA FolderCases ==
    ASSUME Types, NEW f \in FolderIds
    PROVE  /\ FolderExists(f) <=> folders[f] \in MailFolder
           /\ folders[f] \in MailFolder \cup {Unmade, Gone}
           /\ FolderExists(f) => folders[f] # Unmade /\ folders[f] # Gone
<1>1. folders[f] \in MailFolder \cup {Unmade, Gone}
    BY DEF Types
<1> QED BY <1>1, FolderType DEF FolderExists

LEMMA FoldersStep ==
    ASSUME ItemsInv, NEW w \in Workers, FoldersNext(w)
    PROVE  StepOk
<1>a. Types
    BY InvParts
<1>1. ASSUME NEW new \in FolderIds, NEW place \in Containers, NEW name \in Names,
             CreateFolder(w, new, place, name)
      PROVE  StepOk
    <2> DEFINE folder == [kind |-> "folder", parent |-> place, name |-> name]
    <2>1. /\ folders' = [folders EXCEPT ![new] = folder]
          /\ budget.folder > 0 /\ budget' = [budget EXCEPT !.folder = @ - 1]
          /\ UNCHANGED <<items, heard, calendar, req, deletes, client, history>>
        BY <1>1 DEF CreateFolder
    <2>2. folder \in MailFolder
        BY FolderType
    <2> HIDE DEF folder
    <2>3. budget' \in BudgetType /\ IdsSuffice' /\ ItemsKept
        BY <2>1, FolderMade
    <2>4. Types'
        BY <1>a, <2>1, <2>2, <2>3 DEF Types, BudgetType, history
    <2> QED BY <2>3, <2>4 DEF StepOk
<1>2. ASSUME NEW f \in FolderIds, NEW name \in Names, RenameFolder(w, f, name)
      PROVE  StepOk
    <2> DEFINE folder == [folders[f] EXCEPT !.name = name]
    <2>1. /\ folders' = [folders EXCEPT ![f] = folder] /\ FolderExists(f)
          /\ req' = Touched({f})
          /\ UNCHANGED <<budget, items, heard, calendar, deletes, client, history>>
        BY <1>2 DEF RenameFolder
    <2>2. folder \in MailFolder
        BY <1>a, <2>1, FolderCases, FolderType
    <2> HIDE DEF folder
    <2>3. Types'
        BY <1>a, <2>1, <2>2, TouchedRequests DEF Types, RequestType, history
    <2> QED BY <2>1, <2>3, ItemsUntouched
<1>3. ASSUME NEW f \in FolderIds, DeleteFolder(w, f)
      PROVE  StepOk
    <2>1. /\ folders' = [g \in FolderIds |-> IF g \in Tree(f) THEN Gone ELSE folders[g]]
          /\ items' = [e \in Ids |-> IF Exists(e) /\ items[e].folder \in Tree(f) THEN Gone
                                     ELSE items[e]]
          /\ req' = Touched(Tree(f))
          /\ UNCHANGED <<budget, heard, calendar, deletes, client, history>>
        BY <1>3 DEF DeleteFolder
    <2>2. Types'
        BY <1>a, <2>1, TouchedRequests DEF Types, RequestType, history
    <2>3. \A e \in Ids : items'[e] = items[e] \/ (Exists(e) /\ items'[e] = Gone)
        BY <2>1
    <2>4. Gone # Unmade /\ Gone.kind = "gone" /\ Unmade.kind = "unmade"
        BY DEF Gone, Unmade
    <2>5. ItemsKept
        BY <2>3, <2>4 DEF ItemsKept, Keeps, IsEvent, IsMessage, IsContact
    <2>6. Unused' = Unused
        BY <2>3, <2>4 DEF Unused, Exists, IsEvent, IsMessage, IsContact
    <2>7. IdsSuffice'
        BY <2>1, <2>6, InvParts DEF IdsSuffice
    <2> QED BY <2>2, <2>5, <2>7 DEF StepOk
<1>4. ASSUME NEW f \in FolderIds, NEW place \in Containers, NEW new \in FolderIds,
             FolderExists(f)
      PROVE  FolderAt(f, place, new) \in FolderRequest
    <2>1. folders[f].name \in Names
        BY <1>a, <1>4, FolderCases, FolderType
    <2> QED BY <2>1 DEF FolderAt, FolderRequest, FolderStages, FolderOps
<1>5. ASSUME NEW f \in FolderIds, NEW place \in Containers, MoveFolder(w, f, place)
      PROVE  StepOk
    <2> DEFINE folder == [folders[f] EXCEPT !.parent = place]
    <2>1. /\ folders' = [folders EXCEPT ![f] = folder] /\ FolderExists(f)
          /\ req' = [Touched({f}) EXCEPT ![w] = FolderAt(f, place, f)]
          /\ UNCHANGED <<budget, items, heard, calendar, deletes, client, history>>
        BY <1>5 DEF MoveFolder
    <2>2. folder \in MailFolder
        BY <1>a, <2>1, FolderCases, FolderType
    <2>3. FolderAt(f, place, f) \in RequestType
        BY <1>4, <2>1 DEF RequestType
    <2> HIDE DEF folder
    <2>4. Types'
        BY <1>a, <2>1, <2>2, <2>3, TouchedRequests DEF Types, RequestType, history
    <2> QED BY <2>1, <2>4, ItemsUntouched
<1>6. ASSUME NEW f \in FolderIds, NEW new \in FolderIds, NEW place \in Containers,
             CopyFolder(w, f, place, new)
      PROVE  StepOk
    <2> DEFINE folder == [folders[f] EXCEPT !.parent = place]
    <2>1. /\ folders' = [folders EXCEPT ![new] = folder] /\ FolderExists(f)
          /\ budget.folder > 0 /\ budget' = [budget EXCEPT !.folder = @ - 1]
          /\ req' = [req EXCEPT ![w] = FolderAt(f, place, new)]
          /\ UNCHANGED <<items, heard, calendar, deletes, client, history>>
        BY <1>6 DEF CopyFolder
    <2>2. folder \in MailFolder
        BY <1>a, <2>1, FolderCases, FolderType
    <2>3. FolderAt(f, place, new) \in FolderRequest
        BY <1>4, <2>1
    <2> HIDE DEF folder
    <2>4. budget' \in BudgetType /\ IdsSuffice' /\ ItemsKept
        BY <2>1, FolderMade
    <2>5. Types'
        BY <1>a, <2>1, <2>2, <2>3, <2>4 DEF Types, BudgetType, history
    <2> QED BY <2>4, <2>5 DEF StepOk
<1>7. CASE LookupFolder(w)
    <2>1. /\ req[w].pc = "lookup"
          /\ \E f \in FolderIds : req' = [req EXCEPT ![w].pc = "respond", ![w].found = f]
          /\ UNCHANGED <<budget, items, heard, folders, calendar, deletes, client, history>>
        BY <1>7 DEF LookupFolder, At, Named
    <2>2. PICK f \in FolderIds :
              req' = [req EXCEPT ![w] = [req[w] EXCEPT !.pc = "respond", !.found = f]]
        BY <2>1
    <2>3. req[w] \in FolderRequest
        <3>1. req[w] \notin EventRequest /\ req[w] \notin MailRequest /\ req[w].pc # "idle"
            BY <2>1 DEF EventRequest, EventStages, MailRequest, MailStages
        <3> QED BY <1>a, <3>1, RequestCases
    <2>4. [req[w] EXCEPT !.pc = "respond", !.found = f] \in FolderRequest
        BY <2>3 DEF FolderRequest, FolderStages
    <2>5. Types'
        BY <1>a, <2>1, <2>2, <2>4 DEF Types, history
    <2> QED BY <2>1, <2>5, ItemsUntouched
<1>8. CASE Respond(w)
    <2>1. /\ Answer(w, "sent")
          /\ UNCHANGED <<budget, items, heard, folders, calendar, deletes, history>>
        BY <1>8 DEF Respond
    <2>2. Types'
        BY <1>a, <2>1, AnswerType DEF Types, RequestType, history
    <2> QED BY <2>1, <2>2, ItemsUntouched
<1> QED BY <1>1, <1>2, <1>3, <1>5, <1>6, <1>7, <1>8 DEF FoldersNext

-----------------------------------------------------------------------------
(* What every step keeps, of requests, letters and histories               *)

\* What is known of the request of w
Right(w) == Fits(w) /\ Progresses(w) /\ Knows(w) /\ Notifies(w) /\ HasCanceled(w)

\* A step leaves the request as it is, ends it, or it is one of folders.
GoesOn(w) == req'[w] = req[w] \/ req'[w] = Idle \/ req'[w].op = "folder"

HistoryGrows ==
    /\ asked \subseteq asked' /\ early \subseteq early'
    /\ \A e \in Ids : e \in mails' /\ e \notin mails =>
          items[e] = Unmade /\ items'[e].kind = "message"
    /\ \A e \in Ids : e \in asked' /\ e \notin asked => items[e] # Unmade
    /\ \A e \in Ids : e \in early' /\ e \notin early => items[e] # Unmade

\* What is sent in a step
HeardRight ==
    \A e \in Ids :
        \/ heard'[e] = heard[e]
        \/ /\ items[e] # Unmade
           /\ heard'[e] = "invitation" =>
                 \E v \in Workers : req[v].op = "POST" /\ req[v].pc = "send" /\ req[v].item = e
           /\ heard'[e] = "cancellation" => (IsEvent(e) => items[e].canceled)
           /\ heard'[e] = "half a message" => e \in asked

\* The kinds, once more
LEMMA Kinds ==
    /\ Unmade.kind = "unmade" /\ Gone.kind = "gone"
    /\ Idle.op = "none" /\ Idle.pc = "idle"
BY DEF Unmade, Gone, Idle

LEMMA RequestsRight ==
    ItemsInv <=> /\ Types /\ PostedById /\ Housed /\ Tidy /\ IdsSuffice /\ UnusedAreUnknown
                 /\ MailsAreMessages /\ InvitedAreMeetings /\ OneSendMail /\ SentWhenTold
                 /\ DeletesAreLate /\ UntouchedStay /\ WhatIsSentIsTrue /\ AnswerNamesTheFolder
                 /\ \A w \in Workers : Right(w)
BY TypeOKParts DEF ItemsInv, Right, RequestsFit, PostsProgress, SendersKnow, NotifiersCanceled,
   Canceled

\* The kind of an item that was made stays, unless it is gone.
LEMMA KindStays ==
    ASSUME Types, StepOk, NEW e \in Ids, items[e] # Unmade
    PROVE  /\ items'[e] # Unmade
           /\ items[e].kind = "event" => items'[e].kind \in {"event", "gone"}
           /\ items[e].kind \in {"message", "contact"} =>
                  items'[e].kind \in {items[e].kind, "gone"}
           /\ items[e].kind = "gone" => items'[e].kind = "gone"
           /\ IsEvent(e)' => IsEvent(e)
           /\ Exists(e)' => Exists(e)
<1>1. items'[e] # Unmade /\ items'[e].kind \in {items[e].kind, "gone"}
    BY DEF StepOk, ItemsKept, Keeps
<1> QED BY <1>1 DEF IsEvent, IsMessage, IsContact, Exists

LEMMA RightGoesOn ==
    ASSUME ItemsInv, StepOk, HistoryGrows, HeardRight, NEW w \in Workers, GoesOn(w)
    PROVE  Right(w)'
<1> DEFINE e == req[w].item
<1>a. Types /\ Right(w) /\ DeletesAreLate
    BY RequestsRight
<1>b. Types'
    BY DEF StepOk
<1>1. CASE req'[w] = Idle
    <2>1. req'[w].op = "none" /\ req'[w].pc = "idle"
        BY <1>1, Kinds
    <2> QED BY <2>1 DEF Right, Fits, OfEvent, OfMail, EventOps, MailOps, Progresses, Knows,
               Notifies, HasCanceled, At
<1>2. CASE req'[w].op = "folder"
    <2>1. req'[w].pc \in {"lookup", "respond"}
        <3>1. req'[w] \in EventRequest \cup MailRequest \cup FolderRequest \cup {Idle}
            BY <1>b DEF Types
        <3>2. req'[w] \notin EventRequest /\ req'[w] \notin MailRequest /\ req'[w] # Idle
            BY <1>2, Kinds DEF EventRequest, EventOps, MailRequest, MailOps
        <3> QED BY <3>1, <3>2 DEF FolderRequest, FolderStages
    <2> QED BY <1>2, <2>1 DEF Right, Fits, OfEvent, OfMail, EventOps, MailOps, Progresses,
               Knows, Notifies, HasCanceled, At
<1>3. CASE req'[w] = req[w] /\ OfEvent(w)
    <2>1. e \in Ids /\ items[e].kind \in {"event", "gone"} /\ e \notin mails /\ ~OfMail(w)
        <3>1. e \in Ids
            BY <1>a, <1>3, RequestCases DEF EventRequest
        <3> QED BY <1>a, <1>3, <3>1 DEF Right, Fits, OfEvent, OfMail, EventOps, MailOps
    <2>2. items[e] # Unmade
        BY <2>1, Kinds
    <2>3. items'[e].kind \in {"event", "gone"} /\ e \notin mails'
        BY <1>a, <2>1, <2>2, KindStays DEF HistoryGrows
    <2>4. Fits(w)'
        BY <1>a, <1>3, <2>1, <2>3 DEF Right, Fits, OfEvent, OfMail
    <2>5. items'[e].kind = "event" =>
              /\ IsEvent(e)
              /\ items[e].whole => items'[e].whole
              /\ items[e].canceled => items'[e].canceled
              /\ items[e].meeting => items'[e].meeting
              /\ items'[e].behalf = items[e].behalf
        <3>1. PICK d \in Ids : d = e
            BY <2>1
        <3>2. Keeps(d) /\ items[d] # Unmade
            BY <2>2, <3>1 DEF StepOk, ItemsKept
        <3>3. items'[d].kind = "event" => items[d].kind = "event"
            BY <2>1, <3>1, <3>2 DEF Keeps
        <3> QED BY <3>1, <3>2, <3>3 DEF Keeps, IsEvent
    <2>6. Progresses(w)'
        BY <1>a, <1>3, <2>5 DEF Right, Progresses, IsEvent
    <2>7. Knows(w)'
        BY <1>3 DEF Knows, OfEvent, EventOps
    <2>8. Exists(e)' => IsEvent(e)' /\ Exists(e)
        BY <1>a, <1>3, <2>1, <2>2, <2>3, KindStays DEF Exists, IsEvent, IsMessage, IsContact
    <2>9. Notifies(w)'
        BY <1>a, <1>3, <2>5, <2>8 DEF Right, Notifies, IsEvent, At
    <2>10. HasCanceled(w)'
        <3> SUFFICES ASSUME req[w].pc = "delete", req[w].user = "owner", Exists(e)',
                            heard'[e] = "invitation", e \notin early'
                     PROVE  items'[e].behalf
            BY <1>3 DEF HasCanceled, At
        <3>1. req[w].op = "DELETE" /\ e \notin early
            BY <1>a DEF Right, Fits, HistoryGrows
        <3>2. heard[e] = "invitation"
            BY <1>a, <2>1, <3>1 DEF HeardRight, DeletesAreLate
        <3>3. items[e].behalf
            BY <1>a, <2>8, <3>1, <3>2 DEF Right, HasCanceled, At
        <3> QED BY <1>3, <2>5, <2>8, <3>3 DEF IsEvent
    <2> QED BY <2>4, <2>6, <2>7, <2>9, <2>10 DEF Right
<1>4. CASE req'[w] = req[w] /\ OfMail(w)
    <2>1. e \in Ids /\ items[e].kind \in {"message", "contact", "gone"} /\ ~OfEvent(w)
        <3>1. e \in Ids
            BY <1>a, <1>4, RequestCases DEF MailRequest
        <3> QED BY <1>a, <1>4, <3>1 DEF Right, Fits, OfEvent, OfMail, EventOps, MailOps
    <2>2. items[e] # Unmade
        BY <2>1, Kinds
    <2>3. items'[e].kind \in {"message", "contact", "gone"}
        BY <1>a, <2>1, <2>2, KindStays
    <2>4. Fits(w)'
        BY <1>a, <1>4, <2>1, <2>3 DEF Right, Fits, OfEvent, OfMail
    <2>5. Exists(e)' => Exists(e) /\ (IsMessage(e)' \/ IsContact(e)')
        BY <1>a, <1>4, <2>1, <2>2, <2>3, KindStays DEF Exists, IsEvent, IsMessage, IsContact
    <2>6. Exists(e)' => (items[e].whole => items'[e].whole)
        BY <1>4, <2>1, <2>2, <2>5
           DEF StepOk, ItemsKept, Keeps, Exists, IsEvent, IsMessage, IsContact
    <2>7. Knows(w)'
        BY <1>a, <1>4, <2>5, <2>6 DEF Right, Knows, HistoryGrows
    <2>8. req[w].op # "POST" /\ req[w].op # "DELETE"
        BY <1>4 DEF OfMail, MailOps
    <2>9. Progresses(w)'
        BY <1>4, <2>8 DEF Progresses
    <2>10. Notifies(w)' /\ HasCanceled(w)'
        BY <1>a, <1>4, <2>8 DEF Right, Fits, Notifies, HasCanceled, At
    <2> QED BY <2>4, <2>7, <2>9, <2>10 DEF Right
<1>5. CASE req'[w] = req[w] /\ ~OfEvent(w) /\ ~OfMail(w)
    <2>1. req'[w] = Idle \/ req'[w].op = "folder"
        BY <1>a, <1>5, RequestCases
    <2> QED BY <1>1, <1>2, <2>1
<1> QED BY <1>1, <1>2, <1>3, <1>4, <1>5 DEF GoesOn

LEMMA UnknownStays ==
    ASSUME ItemsInv, StepOk, HistoryGrows, HeardRight
    PROVE  UnusedAreUnknown' /\ MailsAreMessages'
<1>a. Types /\ UnusedAreUnknown /\ MailsAreMessages
    BY RequestsRight
<1>1. \A e \in Ids : e \in mails' /\ e \notin mails => items'[e].kind = "message"
    BY DEF HistoryGrows
<1>2. UnusedAreUnknown'
    <2> SUFFICES ASSUME NEW e \in Ids, items'[e] = Unmade
                 PROVE  /\ heard'[e] = "nothing"
                        /\ e \notin mails' /\ e \notin asked' /\ e \notin early'
        BY DEF UnusedAreUnknown, Unused
    <2>1. items[e] = Unmade
        BY <1>a, KindStays
    <2>2. heard[e] = "nothing" /\ e \notin mails /\ e \notin asked /\ e \notin early
        BY <1>a, <2>1 DEF UnusedAreUnknown, Unused
    <2>3. items'[e].kind # "message"
        BY Kinds
    <2> QED BY <1>1, <2>1, <2>2, <2>3 DEF HistoryGrows, HeardRight
<1>3. MailsAreMessages'
    <2> SUFFICES ASSUME NEW e \in mails'
                 PROVE  items'[e].kind \in {"message", "gone"}
        BY DEF MailsAreMessages
    <2>1. e \in Ids
        BY DEF StepOk, Types
    <2>2. CASE e \in mails
        <3>1. items[e].kind \in {"message", "gone"}
            BY <1>a, <2>2 DEF MailsAreMessages
        <3>2. items[e] # Unmade
            BY <3>1, Kinds
        <3> QED BY <1>a, <2>1, <3>1, <3>2, KindStays
    <2> QED BY <1>1, <2>1, <2>2
<1> QED BY <1>2, <1>3

LEMMA TruthStays ==
    ASSUME ItemsInv, StepOk, HistoryGrows, HeardRight
    PROVE  InvitedAreMeetings' /\ WhatIsSentIsTrue'
<1>a. /\ Types /\ UnusedAreUnknown /\ InvitedAreMeetings /\ WhatIsSentIsTrue
      /\ \A v \in Workers : Right(v)
    BY RequestsRight
<1>1. ASSUME NEW e \in Ids
      PROVE  items[e] = Unmade => heard'[e] = "nothing"
    BY <1>a DEF UnusedAreUnknown, Unused, HeardRight
<1>2. ASSUME NEW e \in Ids, IsEvent(e)', heard'[e] = "invitation"
      PROVE  items'[e].meeting /\ items'[e].whole
    <2>1. items[e] # Unmade
        BY <1>1, <1>2
    <2>2. IsEvent(e) /\ Keeps(e)
        BY <1>a, <1>2, <2>1, KindStays DEF StepOk, ItemsKept
    <2>3. items[e].meeting /\ items[e].whole
        <3>1. CASE heard[e] = "invitation"
            BY <1>a, <2>2, <3>1 DEF InvitedAreMeetings, WhatIsSentIsTrue
        <3>2. CASE heard[e] # "invitation"
            <4>1. PICK v \in Workers :
                      req[v].op = "POST" /\ req[v].pc = "send" /\ req[v].item = e
                BY <1>2, <3>2 DEF HeardRight
            <4>2. req[v].meeting
                BY <1>a, <4>1 DEF Right, Fits, OfEvent, EventOps
            <4> QED BY <1>a, <2>2, <4>1, <4>2 DEF Right, Progresses
        <3> QED BY <3>1, <3>2
    <2> QED BY <1>2, <2>1, <2>2, <2>3 DEF Keeps
<1>3. ASSUME NEW e \in Ids, IsEvent(e)', heard'[e] = "cancellation"
      PROVE  items'[e].canceled
    <2>1. items[e] # Unmade
        BY <1>1, <1>3
    <2>2. IsEvent(e) /\ Keeps(e)
        BY <1>a, <1>3, <2>1, KindStays DEF StepOk, ItemsKept
    <2>3. items[e].canceled
        BY <1>a, <1>3, <2>2 DEF HeardRight, WhatIsSentIsTrue
    <2> QED BY <1>3, <2>1, <2>2, <2>3 DEF Keeps
<1>4. ASSUME NEW e \in Ids, heard'[e] = "half a message"
      PROVE  e \in asked'
    BY <1>a, <1>4 DEF HeardRight, WhatIsSentIsTrue, HistoryGrows
<1> QED BY <1>2, <1>3, <1>4 DEF InvitedAreMeetings, WhatIsSentIsTrue

\* A step of w may make w POST a new event, or DELETE one.
PostsKept(w) ==
    \A v \in Workers :
        /\ req'[v].op = "POST" =>
              \/ req[v].op = "POST" /\ req[v].item = req'[v].item
              \/ v = w /\ req'[v].item \in Ids /\ items[req'[v].item] = Unmade
        /\ req'[v].op = "DELETE" =>
              \/ req[v].op = "DELETE" /\ req[v].item = req'[v].item
              \/ /\ v = w
                 /\ \A u \in Workers :
                       req[u].op = "POST" /\ req[u].item = req'[v].item => req'[v].item \in early'

LEMMA DeletesStayLate ==
    ASSUME ItemsInv, StepOk, HistoryGrows, NEW w \in Workers, PostsKept(w)
    PROVE  DeletesAreLate'
<1>a. Types /\ DeletesAreLate /\ \A v \in Workers : Right(v)
    BY RequestsRight
<1> SUFFICES ASSUME NEW v \in Workers, req'[v].op = "DELETE", req'[v].item \notin early',
                    NEW u \in Workers, req'[u].op = "POST", req'[u].item = req'[v].item
             PROVE  FALSE
    BY DEF DeletesAreLate
<1>1. u # v
    OBVIOUS
<1>2. CASE req[v].op = "DELETE" /\ req[v].item = req'[v].item
    <2>1. req[v].item \notin early
        BY <1>2 DEF HistoryGrows
    <2>2. ~(req[u].op = "POST" /\ req[u].item = req'[u].item)
        BY <1>a, <1>2, <2>1 DEF DeletesAreLate
    <2>3. items[req[v].item] = Unmade
        BY <1>2, <2>2 DEF PostsKept
    <2>4. items[req[v].item].kind \in {"event", "gone"}
        BY <1>a, <1>2 DEF Right, Fits, OfEvent, EventOps
    <2> QED BY <2>3, <2>4, Kinds
<1>3. CASE ~(req[v].op = "DELETE" /\ req[v].item = req'[v].item)
    <2>1. v = w /\ \A x \in Workers : req[x].op = "POST" => req[x].item # req'[v].item
        BY <1>3 DEF PostsKept
    <2>2. req[u].op = "POST" /\ req[u].item = req'[u].item
        BY <1>1, <2>1 DEF PostsKept
    <2> QED BY <2>1, <2>2
<1> QED BY <1>2, <1>3

\* The client has a sendMail that ends, or starts one.
ClientKept(w) ==
    \/ /\ \A v \in Workers : req'[v].op = "sendMail" => req[v].op = "sendMail"
       /\ client' = client \/ (req[w].op = "sendMail" /\ req'[w].op # "sendMail")
    \/ /\ client = "unsent" /\ client' = "waiting"
       /\ \A v \in Workers : v # w => (req'[v].op = "sendMail" => req[v].op = "sendMail")

LEMMA OneSendMailStays ==
    ASSUME ItemsInv, NEW w \in Workers, ClientKept(w)
    PROVE  OneSendMail'
<1>a. OneSendMail
    BY RequestsRight
<1>1. CASE /\ \A v \in Workers : req'[v].op = "sendMail" => req[v].op = "sendMail"
           /\ client' = client \/ (req[w].op = "sendMail" /\ req'[w].op # "sendMail")
    BY <1>a, <1>1 DEF OneSendMail
<1>2. CASE /\ client = "unsent" /\ client' = "waiting"
           /\ \A v \in Workers : v # w => (req'[v].op = "sendMail" => req[v].op = "sendMail")
    <2>1. \A v \in Workers : req[v].op # "sendMail"
        BY <1>a, <1>2 DEF OneSendMail
    <2> QED BY <1>2, <2>1 DEF OneSendMail
<1> QED BY <1>1, <1>2 DEF ClientKept

SentKept ==
    \/ SentMails' \subseteq SentMails /\ (client' = client \/ client # "sent")
    \/ client # "sent" /\ client' = "sent" /\ \E e : SentMails' \subseteq SentMails \cup {e}

LEMMA SentWhenToldStays ==
    ASSUME ItemsInv, SentKept
    PROVE  SentWhenTold'
<1>a. SentWhenTold
    BY RequestsRight
<1>1. CASE SentMails' \subseteq SentMails /\ (client' = client \/ client # "sent")
    BY <1>a, <1>1 DEF SentWhenTold
<1>2. CASE client # "sent" /\ client' = "sent" /\ \E e : SentMails' \subseteq SentMails \cup {e}
    <2>1. SentMails = {}
        BY <1>a, <1>2 DEF SentWhenTold
    <2>2. PICK e : SentMails' \subseteq {e}
        BY <1>2, <2>1
    <2>3. \A c, d \in SentMails' : c = d
        BY <2>2
    <2> QED BY <1>2, <2>3 DEF SentWhenTold
<1> QED BY <1>1, <1>2 DEF SentKept

\* What a step of w does to requests, letters and histories
Proper(w) ==
    /\ StepOk /\ HistoryGrows /\ HeardRight
    /\ \A v \in Workers : v # w => GoesOn(v)
    /\ GoesOn(w) \/ Right(w)'
    /\ PostsKept(w) /\ ClientKept(w) /\ SentKept

LEMMA ProperKeeps ==
    ASSUME ItemsInv, NEW w \in Workers, Proper(w)
    PROVE  /\ UnusedAreUnknown' /\ MailsAreMessages' /\ InvitedAreMeetings' /\ WhatIsSentIsTrue'
           /\ OneSendMail' /\ SentWhenTold' /\ DeletesAreLate'
           /\ \A v \in Workers : Right(v)'
<1>1. \A v \in Workers : Right(v)'
    BY RightGoesOn DEF Proper
<1> QED BY <1>1, UnknownStays, TruthStays, DeletesStayLate, OneSendMailStays, SentWhenToldStays
        DEF Proper

\* Steps that send nothing and have no part in the histories
LEMMA QuietStep ==
    ASSUME ItemsInv, StepOk, NEW w \in Workers, UNCHANGED <<heard, client, history>>,
           \A v \in Workers : v # w => GoesOn(v),
           GoesOn(w) \/ Right(w)',
           req'[w].op \in {"POST", "DELETE", "sendMail"} =>
               req[w].op = req'[w].op /\ req[w].item = req'[w].item
    PROVE  Proper(w)
<1>1. HistoryGrows /\ HeardRight
    BY DEF HistoryGrows, HeardRight, history
<1>2. ASSUME NEW v \in Workers, req'[v].op \in {"POST", "DELETE", "sendMail"}
      PROVE  req[v].op = req'[v].op /\ req[v].item = req'[v].item
    BY <1>2, Kinds DEF GoesOn
<1>3. PostsKept(w) /\ ClientKept(w)
    BY <1>2 DEF PostsKept, ClientKept
<1>4. SentKept
    BY DEF SentKept, SentMails, history
<1> QED BY <1>1, <1>3, <1>4 DEF Proper

\* Answers of requests that sent nothing
LEMMA AnswerStep ==
    ASSUME ItemsInv, StepOk, NEW w \in Workers, NEW told \in {"sent", "unsent"},
           Answer(w, told), UNCHANGED <<heard, history>>,
           told = "unsent" \/ req[w].op # "sendMail"
    PROVE  Proper(w)
<1>a. Types /\ OneSendMail
    BY RequestsRight
<1>1. HistoryGrows /\ HeardRight
    BY DEF HistoryGrows, HeardRight, history
<1>2. /\ req'[w] = Idle /\ \A v \in Workers : v # w => req'[v] = req[v]
      /\ client' = IF req[w].op = "sendMail" THEN told ELSE client
    BY <1>a, AnswerType DEF Answer
<1>3. req'[w].op = "none"
    BY <1>2, Kinds
<1>4. PostsKept(w) /\ ClientKept(w)
    BY <1>2, <1>3 DEF PostsKept, ClientKept
<1>5. SentKept
    <2>1. SentMails' = SentMails
        BY DEF SentMails, history
    <2>2. client' = client \/ client # "sent"
        BY <1>a, <1>2 DEF OneSendMail
    <2> QED BY <2>1, <2>2 DEF SentKept
<1> QED BY <1>1, <1>2, <1>4, <1>5 DEF Proper, GoesOn

\* What is known of the item that a request is given
LEMMA EventKnown ==
    ASSUME ItemsInv, NEW e \in Ids, IsEvent(e)
    PROVE  e \notin mails /\ items[e] # Unmade /\ items[e] \in Event
BY RequestsRight, Kinds, ItemCases DEF MailsAreMessages, IsEvent

LEMMA MailKnown ==
    ASSUME ItemsInv, NEW e \in Ids, IsMessage(e) \/ IsContact(e)
    PROVE  items[e] # Unmade /\ items[e].kind \in {"message", "contact", "gone"}
BY Kinds DEF IsMessage, IsContact

LEMMA EventsProper ==
    ASSUME ItemsInv, NEW w \in Workers, EventsNext(w)
    PROVE  Proper(w)
<1>a. /\ Types /\ InvitedAreMeetings /\ UnusedAreUnknown /\ IdsSuffice
      /\ \A v \in Workers : Right(v)
    BY RequestsRight
<1>b. StepOk /\ Types'
    BY EventsStep DEF StepOk
<1>1. ASSUME NEW folder \in Calendars, GetByFolderid(w, folder)
      PROVE  Proper(w)
    <2>1. UNCHANGED <<heard, client, history, req>>
        BY <1>1 DEF GetByFolderid
    <2> QED BY <1>b, <2>1, QuietStep DEF GoesOn
<1>2. ASSUME NEW user \in Users, NEW name \in Calendars \cup {"calendar"},
             NEW meeting \in BOOLEAN, NEW behalf \in BOOLEAN,
             CreateEvent(w, user, name, meeting, behalf)
      PROVE  Proper(w)
    <2> DEFINE item == [kind |-> "event", folder |-> Folder(name), named |-> name,
                        whole |-> FALSE, attached |-> FALSE, meeting |-> FALSE,
                        canceled |-> FALSE, behalf |-> behalf]
               r == [pc |-> IF meeting THEN "attendees" ELSE "fields", op |-> "POST",
                     user |-> user, item |-> NewId, meeting |-> meeting]
    <2>1. /\ Make(item) /\ req' = [req EXCEPT ![w] = r]
          /\ UNCHANGED <<heard, folders, calendar, deletes, client, history>>
        BY <1>2 DEF CreateEvent
    <2>2. item \in Event /\ item.kind = "event"
        <3>1. Folder(name) \in Calendars
            BY <1>a DEF Folder, Types
        <3> QED BY <3>1 DEF Event, EventKind
    <2>3. /\ r.op = "POST" /\ r.item = NewId /\ r.meeting = meeting
          /\ r.pc = IF meeting THEN "attendees" ELSE "fields"
        OBVIOUS
    <2> HIDE DEF item, r
    <2>4. NewId \in Ids /\ items[NewId] = Unmade /\ items' = [items EXCEPT ![NewId] = item]
        BY <1>a, <2>1, <2>2, MakeProperties
    <2>5. /\ items'[NewId].kind = "event" /\ NewId \notin mails'
          /\ req'[w] = r /\ \A v \in Workers : v # w => req'[v] = req[v]
        BY <1>a, <2>1, <2>2, <2>4 DEF Types, UnusedAreUnknown, Unused, history
    <2>6. Right(w)'
        BY <2>3, <2>5 DEF Right, Fits, Progresses, Knows, Notifies, HasCanceled, At,
           OfEvent, OfMail, EventOps, MailOps
    <2>7. HistoryGrows /\ HeardRight /\ SentKept
        BY <2>1 DEF HistoryGrows, HeardRight, SentKept, SentMails, history
    <2>8. PostsKept(w) /\ ClientKept(w)
        BY <2>1, <2>3, <2>4, <2>5 DEF PostsKept, ClientKept
    <2> QED BY <1>b, <2>5, <2>6, <2>7, <2>8 DEF Proper, GoesOn
<1>3. ASSUME NEW user \in Users, NEW e \in Ids, NEW meeting \in BOOLEAN,
             UpdateEvent(w, user, e, meeting)
      PROVE  Proper(w)
    <2> DEFINE r == [pc |-> IF meeting THEN "attendees" ELSE "fields", op |-> "PATCH",
                     user |-> user, item |-> e, meeting |-> meeting]
    <2>1. /\ req' = [req EXCEPT ![w] = r] /\ IsEvent(e)
          /\ UNCHANGED <<budget, items, heard, folders, calendar, deletes, client, history>>
        BY <1>3 DEF UpdateEvent
    <2>2. r.op = "PATCH" /\ r.item = e /\ r.pc \in {"attendees", "fields"}
        OBVIOUS
    <2> HIDE DEF r
    <2>3. req'[w] = r /\ \A v \in Workers : v # w => req'[v] = req[v]
        BY <1>a, <2>1 DEF Types
    <2>4. items'[e].kind = "event" /\ e \notin mails'
        BY <2>1, EventKnown DEF IsEvent, history
    <2>5. Right(w)'
        BY <2>2, <2>3, <2>4 DEF Right, Fits, Progresses, Knows, Notifies, HasCanceled, At,
           OfEvent, OfMail, EventOps, MailOps
    <2> QED BY <1>b, <2>1, <2>2, <2>3, <2>5, QuietStep DEF GoesOn
<1>4. ASSUME NEW user \in Users, NEW e \in Ids, StartDelete(w, user, e)
      PROVE  Proper(w)
    <2> DEFINE cancel == IsEventOrganizer(user, e) /\ items[e].meeting
               r == [pc |-> AfterCheck(user, cancel), op |-> "DELETE",
                     user |-> user, item |-> e, meeting |-> items[e].meeting]
    <2>1. /\ items' = [items EXCEPT ![e].canceled = @ \/ cancel]
          /\ req' = [req EXCEPT ![w] = r]
          /\ early' = IF UnderWay(e) THEN early \cup {e} ELSE early
          /\ UNCHANGED <<budget, heard, folders, calendar, client, mails, asked>>
          /\ IsEvent(e)
        BY <1>4 DEF StartDelete
    <2>2. /\ r.op = "DELETE" /\ r.item = e /\ r.user = user
          /\ r.pc = AfterCheck(user, cancel) /\ r.pc \in {"notify", "delete"}
        BY DEF AfterCheck
    <2> HIDE DEF r
    <2>3. req'[w] = r /\ \A v \in Workers : v # w => req'[v] = req[v]
        BY <1>a, <2>1 DEF Types
    <2>4. items[e] \in Event /\ items[e] # Unmade /\ e \notin mails'
        BY <2>1, EventKnown
    <2>5. /\ items'[e].kind = "event" /\ items'[e].behalf = items[e].behalf
          /\ items'[e].canceled = (items[e].canceled \/ cancel)
        <3> HIDE DEF cancel
        <3>1. items'[e] = [items[e] EXCEPT !.canceled = items[e].canceled \/ cancel]
            BY <1>a, <2>1 DEF Types
        <3> QED BY <2>4, <3>1 DEF Event, EventKind
    <2>6. r.pc = "notify" => user = "owner" /\ items'[e].canceled
        <3>1. r.pc = "notify" => cancel /\ user # "delegate"
            BY <2>2 DEF AfterCheck
        <3> QED BY <2>5, <3>1 DEF IsEventOrganizer
    <2>7. r.pc = "delete" /\ user = "owner" => heard[e] # "invitation" \/ items'[e].behalf
        <3>1. r.pc = "delete" /\ user = "owner" => ~cancel
            BY <2>2 DEF AfterCheck
        <3>2. heard[e] = "invitation" => items[e].meeting
            BY <1>a, <2>1 DEF InvitedAreMeetings
        <3> QED BY <2>5, <3>1, <3>2 DEF IsEventOrganizer
    <2>8. Right(w)'
        BY <2>1, <2>2, <2>3, <2>4, <2>5, <2>6, <2>7 DEF Right, Fits, Progresses, Knows, Notifies,
           HasCanceled, At, OfEvent, OfMail, EventOps, MailOps
    <2>9. HistoryGrows /\ HeardRight /\ SentKept
        BY <2>1, <2>4 DEF HistoryGrows, HeardRight, SentKept, SentMails
    <2>10. PostsKept(w) /\ ClientKept(w)
        BY <2>1, <2>2, <2>3 DEF PostsKept, ClientKept, UnderWay
    <2> QED BY <1>b, <2>3, <2>8, <2>9, <2>10 DEF Proper, GoesOn
<1>5. CASE AttendeesSet(w)
    <2> DEFINE e == req[w].item
    <2>1. /\ req[w].pc = "attendees" /\ Exists(e)
          /\ items' = [items EXCEPT ![e].meeting = TRUE]
          /\ req' = [req EXCEPT ![w].pc = "fields"]
          /\ UNCHANGED <<budget, heard, folders, calendar, deletes, client, history>>
        BY <1>5 DEF AttendeesSet, Goto, At
    <2>2. req[w] \in EventRequest
        <3>1. req[w] \notin MailRequest /\ req[w] \notin FolderRequest /\ req[w].pc # "idle"
            BY <2>1 DEF MailRequest, MailStages, FolderRequest, FolderStages
        <3> QED BY <1>a, <3>1, RequestCases
    <2>3. /\ req'[w] = [req[w] EXCEPT !.pc = "fields"]
          /\ \A v \in Workers : v # w => req'[v] = req[v]
        BY <1>a, <2>1 DEF Types
    <2>4. req'[w].op = req[w].op /\ req'[w].item = e /\ req'[w].pc = "fields"
        BY <2>2, <2>3 DEF EventRequest
    <2>5. /\ e \in Ids /\ OfEvent(w) /\ items[e].kind = "event" /\ e \notin mails
          /\ req[w].op # "DELETE"
        BY <1>a, <2>1, <2>2, RequestCases DEF Right, Fits, EventRequest, Exists, IsEvent, IsMessage, IsContact
    <2>6. items'[e].kind = "event" /\ items'[e].meeting
        <3>1. items[e] \in Event /\ items'[e] = [items[e] EXCEPT !.meeting = TRUE]
            BY <1>a, <2>1, <2>5, ItemCases DEF Types, IsEvent
        <3> QED BY <3>1 DEF Event, EventKind
    <2>7. Right(w)'
        BY <2>1, <2>4, <2>5, <2>6 DEF Right, Fits, Progresses, Knows, Notifies, HasCanceled, At,
           OfEvent, OfMail, EventOps, MailOps, history
    <2> QED BY <1>b, <2>1, <2>3, <2>4, <2>7, QuietStep DEF GoesOn
<1>6. CASE SendEvent(w)
    <2> DEFINE e == req[w].item
    <2>1. /\ req[w].pc = "send" /\ req[w].op = "POST" /\ Answer(w, "sent")
          /\ \/ heard' = [heard EXCEPT ![e] = "invitation"]
             \/ /\ Exists(e) /\ items[e].canceled
                /\ heard' = [heard EXCEPT ![e] = "cancellation"]
          /\ UNCHANGED <<budget, items, folders, calendar, deletes, history>>
        BY <1>6 DEF SendEvent, At
    <2>2. e \in Ids /\ items[e] # Unmade /\ e \notin mails
        <3>1. OfEvent(w) /\ req[w] \in EventRequest
            BY <1>a, <2>1, RequestCases DEF OfEvent, EventOps
        <3> QED BY <1>a, <3>1, Kinds DEF EventRequest, Right, Fits
    <2>3. /\ req'[w] = Idle /\ \A v \in Workers : v # w => req'[v] = req[v]
          /\ client' = client
        BY <1>a, <2>1, AnswerType DEF Answer
    <2>4. \A d \in Ids : d # e => heard'[d] = heard[d]
        BY <1>a, <2>1 DEF Types
    <2>5. HeardRight
        <3>1. \/ heard'[e] = "invitation"
              \/ heard'[e] = "cancellation" /\ items[e].canceled
            BY <1>a, <2>1, <2>2 DEF Types
        <3> QED BY <2>1, <2>2, <2>4, <3>1 DEF HeardRight
    <2>6. HistoryGrows
        BY <2>1 DEF HistoryGrows, history
    <2>7. SentKept
        BY <1>a, <2>1, <2>2, <2>3, <2>4 DEF SentKept, SentMails, history, Types
    <2>8. PostsKept(w) /\ ClientKept(w)
        BY <2>3, Kinds DEF PostsKept, ClientKept
    <2> QED BY <1>b, <2>3, <2>5, <2>6, <2>7, <2>8 DEF Proper, GoesOn
<1>7. CASE Notify(w)
    <2> DEFINE e == req[w].item
    <2>1. /\ req[w].pc = "notify" /\ req' = [req EXCEPT ![w].pc = "delete"]
          /\ heard' = [heard EXCEPT ![e] = "cancellation"]
          /\ UNCHANGED <<budget, items, folders, calendar, deletes, client, history>>
        BY <1>7 DEF Notify, At, Goto
    <2>2. /\ req[w].op = "DELETE" /\ OfEvent(w) /\ req[w] \in EventRequest /\ e \in Ids
          /\ items[e].kind \in {"event", "gone"} /\ e \notin mails /\ req[w].user = "owner"
          /\ Exists(e) => items[e].canceled
        <3>1. req[w].op = "DELETE" /\ OfEvent(w)
            BY <1>a, <2>1 DEF Right, Fits, OfEvent, EventOps
        <3> QED BY <1>a, <2>1, <3>1, RequestCases DEF Right, Fits, Notifies, At, EventRequest
    <2>3. /\ req'[w] = [req[w] EXCEPT !.pc = "delete"]
          /\ \A v \in Workers : v # w => req'[v] = req[v]
          /\ heard'[e] = "cancellation" /\ \A d \in Ids : d # e => heard'[d] = heard[d]
        BY <1>a, <2>1, <2>2 DEF Types
    <2>4. req'[w].op = "DELETE" /\ req'[w].item = e /\ req'[w].pc = "delete"
        BY <2>2, <2>3 DEF EventRequest
    <2>5. Right(w)'
        BY <2>1, <2>2, <2>3, <2>4 DEF Right, Fits, Progresses, Knows, Notifies, HasCanceled, At,
           OfEvent, OfMail, EventOps, MailOps, history
    <2>6. HeardRight
        BY <2>2, <2>3, Kinds DEF HeardRight, Exists
    <2>7. HistoryGrows
        BY <2>1 DEF HistoryGrows, history
    <2>8. SentKept
        BY <1>a, <2>1, <2>2, <2>3 DEF SentKept, SentMails, history, Types
    <2>9. PostsKept(w) /\ ClientKept(w)
        BY <2>1, <2>2, <2>3, <2>4 DEF PostsKept, ClientKept
    <2> QED BY <1>b, <2>3, <2>5, <2>6, <2>7, <2>8, <2>9 DEF Proper, GoesOn
<1>8. CASE Delete(w)
    <2>1. Answer(w, "sent") /\ UNCHANGED <<heard, history>> /\ req[w].pc = "delete"
        BY <1>8 DEF Delete, At
    <2>2. req[w].op # "sendMail"
        BY <1>a, <2>1 DEF Right, Fits
    <2> QED BY <1>b, <2>1, <2>2, AnswerStep
<1> QED BY <1>1, <1>2, <1>3, <1>4, <1>5, <1>6, <1>7, <1>8 DEF EventsNext

\* A POST of a message or a contact
LEMMA CreateProper ==
    ASSUME ItemsInv, StepOk, NEW w \in Workers, NEW kind \in MailKinds, NEW place \in Places,
           Make(Half(kind, place)),
           req' = [req EXCEPT ![w] = [pc |-> "fields", op |-> "create", item |-> NewId,
                                      whole |-> FALSE, save |-> FALSE]],
           UNCHANGED <<heard, client, history>>
    PROVE  Proper(w)
<1> DEFINE r == [pc |-> "fields", op |-> "create", item |-> NewId, whole |-> FALSE,
                 save |-> FALSE]
<1>a. Types /\ IdsSuffice
    BY RequestsRight
<1>1. Half(kind, place) \in Mail /\ Half(kind, place).kind = kind
    BY HalfType DEF Half
<1>2. NewId \in Ids /\ items'[NewId] = Half(kind, place)
    BY <1>a, <1>1, MakeProperties DEF Types
<1>3. r.pc = "fields" /\ r.op = "create" /\ r.item = NewId
    OBVIOUS
<1>4. req'[w] = r /\ \A v \in Workers : v # w => req'[v] = req[v]
    BY <1>a DEF Types
<1> HIDE DEF r
<1>5. Right(w)'
    BY <1>1, <1>2, <1>3, <1>4 DEF Right, Fits, Progresses, Knows, Notifies, HasCanceled, At,
       OfEvent, OfMail, EventOps, MailOps, MailKinds
<1> QED BY <1>3, <1>4, <1>5, QuietStep DEF GoesOn

LEMMA SendMailProper ==
    ASSUME ItemsInv, StepOk, NEW w \in Workers, NEW save \in BOOLEAN, SendMail(w, save)
    PROVE  Proper(w)
<1> DEFINE r == [pc |-> "fields", op |-> "sendMail", item |-> NewId, whole |-> TRUE,
                 save |-> save]
<1>a. Types /\ IdsSuffice /\ UnusedAreUnknown
    BY RequestsRight
<1>1. /\ client = "unsent" /\ client' = "waiting" /\ Make(Half("message", "Outbox"))
      /\ mails' = mails \cup {NewId} /\ req' = [req EXCEPT ![w] = r]
      /\ UNCHANGED <<heard, asked, early>>
    BY DEF SendMail
<1>2. Half("message", "Outbox") \in Mail /\ Half("message", "Outbox").kind = "message"
    BY HalfType DEF Half, MailKinds, Places
<1>3. /\ NewId \in Ids /\ items[NewId] = Unmade /\ items'[NewId].kind = "message"
      /\ heard[NewId] = "nothing"
    BY <1>a, <1>1, <1>2, MakeProperties DEF Types, UnusedAreUnknown, Unused
<1>4. r.pc = "fields" /\ r.op = "sendMail" /\ r.item = NewId /\ r.whole
    OBVIOUS
<1>5. req'[w] = r /\ \A v \in Workers : v # w => req'[v] = req[v]
    BY <1>a, <1>1 DEF Types
<1> HIDE DEF r
<1>6. Right(w)'
    BY <1>3, <1>4, <1>5 DEF Right, Fits, Progresses, Knows, Notifies, HasCanceled, At,
       OfEvent, OfMail, EventOps, MailOps
<1>7. HistoryGrows /\ HeardRight
    BY <1>1, <1>3 DEF HistoryGrows, HeardRight
<1>8. SentKept
    <2>1. SentMails' \subseteq SentMails
        BY <1>1, <1>3 DEF SentMails
    <2> QED BY <1>1, <2>1 DEF SentKept
<1>9. PostsKept(w) /\ ClientKept(w)
    BY <1>1, <1>4, <1>5 DEF PostsKept, ClientKept
<1> QED BY <1>5, <1>6, <1>7, <1>8, <1>9 DEF Proper, GoesOn

LEMMA StartSendProper ==
    ASSUME ItemsInv, StepOk, NEW w \in Workers, NEW e \in Ids, StartSend(w, e)
    PROVE  Proper(w)
<1> DEFINE r == [pc |-> "send", op |-> "send", item |-> e, whole |-> items[e].whole,
                 save |-> TRUE]
<1>a. Types
    BY RequestsRight
<1>1. /\ IsMessage(e) /\ asked' = asked \cup {e} /\ req' = [req EXCEPT ![w] = r]
      /\ UNCHANGED <<items, heard, client, mails, early>>
    BY DEF StartSend
<1>2. items[e] # Unmade /\ items'[e].kind = "message"
    BY <1>1, Kinds DEF IsMessage
<1>3. r.pc = "send" /\ r.op = "send" /\ r.item = e
    OBVIOUS
<1>4. req'[w] = r /\ \A v \in Workers : v # w => req'[v] = req[v]
    BY <1>a, <1>1 DEF Types
<1> HIDE DEF r
<1>5. Right(w)'
    BY <1>1, <1>2, <1>3, <1>4 DEF Right, Fits, Progresses, Knows, Notifies, HasCanceled, At,
       OfEvent, OfMail, EventOps, MailOps
<1>6. HistoryGrows /\ HeardRight
    BY <1>1, <1>2 DEF HistoryGrows, HeardRight
<1>7. SentKept
    <2>1. SentMails' \subseteq SentMails
        BY <1>1 DEF SentMails
    <2> QED BY <1>1, <2>1 DEF SentKept
<1>8. PostsKept(w) /\ ClientKept(w)
    BY <1>1, <1>3, <1>4 DEF PostsKept, ClientKept
<1> QED BY <1>4, <1>5, <1>6, <1>7, <1>8 DEF Proper, GoesOn

LEMMA SendProper ==
    ASSUME ItemsInv, StepOk, NEW w \in Workers, Send(w)
    PROVE  Proper(w)
<1> DEFINE e == req[w].item
<1>a. Types /\ Right(w) /\ OneSendMail
    BY RequestsRight
<1>1. /\ req[w].pc = "send" /\ req[w].op \in {"sendMail", "send"} /\ Answer(w, "sent")
      /\ UNCHANGED history
    BY DEF Send, At
<1>2. e \in Ids /\ items[e] # Unmade
    BY <1>a, <1>1, SendProperties, Kinds DEF Right, Fits, OfMail, MailOps
<1>3. PICK whole \in Versions(req[w]) :
          heard' = [heard EXCEPT ![e] = IF whole THEN "message" ELSE "half a message"]
    BY DEF Send
<1>4. whole \/ e \in asked
    <2>1. CASE req[w].op = "send"
        BY <1>a, <2>1 DEF Right, Knows
    <2>2. CASE req[w].op = "sendMail"
        <3>1. req[w].whole /\ (Exists(e) => items[e].whole)
            BY <1>a, <1>1, <2>2 DEF Right, Knows
        <3>2. whole = req[w].whole \/ (Exists(e) /\ whole = items[e].whole)
            BY <1>3 DEF Versions
        <3> QED BY <3>1, <3>2
    <2> QED BY <1>1, <2>1, <2>2
<1>5. /\ heard'[e] = IF whole THEN "message" ELSE "half a message"
      /\ \A d \in Ids : d # e => heard'[d] = heard[d]
    BY <1>a, <1>2, <1>3 DEF Types
<1>6. /\ req'[w] = Idle /\ \A v \in Workers : v # w => req'[v] = req[v]
      /\ client' = IF req[w].op = "sendMail" THEN "sent" ELSE client
    BY <1>a, <1>1, AnswerType DEF Answer
<1>7. HistoryGrows
    BY <1>1 DEF HistoryGrows, history
<1>8. HeardRight
    <2>1. heard'[e] = "message" \/ (heard'[e] = "half a message" /\ e \in asked)
        BY <1>4, <1>5
    <2> QED BY <1>2, <1>5, <2>1 DEF HeardRight
<1>9. SentKept
    <2>1. CASE req[w].op = "send"
        <3>1. e \in asked
            BY <1>a, <2>1 DEF Right, Knows
        <3>2. SentMails' \subseteq SentMails
            BY <1>a, <1>1, <1>5, <3>1 DEF SentMails, history, Types
        <3> QED BY <1>6, <2>1, <3>2 DEF SentKept
    <2>2. CASE req[w].op = "sendMail"
        <3>1. client = "waiting" /\ client' = "sent"
            BY <1>a, <1>6, <2>2 DEF OneSendMail
        <3>2. SentMails' \subseteq SentMails \cup {e}
            BY <1>a, <1>1, <1>5 DEF SentMails, history, Types
        <3> QED BY <3>1, <3>2 DEF SentKept
    <2> QED BY <1>1, <2>1, <2>2
<1>10. PostsKept(w) /\ ClientKept(w)
    BY <1>6, Kinds DEF PostsKept, ClientKept
<1> QED BY <1>6, <1>7, <1>8, <1>9, <1>10 DEF Proper, GoesOn

LEMMA MailProper ==
    ASSUME ItemsInv, NEW w \in Workers, MailNext(w)
    PROVE  Proper(w)
<1>a. Types
    BY RequestsRight
<1>b. StepOk
    BY MailStep
<1>1. ASSUME NEW place \in Places, CreateMessage(w, place)
      PROVE  Proper(w)
    <2>1. "message" \in MailKinds
        BY DEF MailKinds
    <2> QED BY <1>b, <1>1, <2>1, CreateProper DEF CreateMessage
<1>2. ASSUME NEW place \in Places, CreateContact(w, place)
      PROVE  Proper(w)
    <2>1. "contact" \in MailKinds
        BY DEF MailKinds
    <2> QED BY <1>b, <1>2, <2>1, CreateProper DEF CreateContact
<1>3. ASSUME NEW e \in Ids, UpdateMessage(w, e)
      PROVE  Proper(w)
    <2> DEFINE r == [pc |-> "fields", op |-> "update", item |-> e, whole |-> FALSE,
                     save |-> FALSE]
    <2>1. /\ req' = [req EXCEPT ![w] = r] /\ IsMessage(e)
          /\ UNCHANGED <<items, heard, client, history>>
        BY <1>3 DEF UpdateMessage
    <2>2. r.pc = "fields" /\ r.op = "update" /\ r.item = e
        OBVIOUS
    <2>3. req'[w] = r /\ \A v \in Workers : v # w => req'[v] = req[v]
        BY <1>a, <2>1 DEF Types
    <2> HIDE DEF r
    <2>4. Right(w)'
        BY <2>1, <2>2, <2>3 DEF Right, Fits, Progresses, Knows, Notifies, HasCanceled, At,
           OfEvent, OfMail, EventOps, MailOps, IsMessage
    <2> QED BY <1>b, <2>1, <2>2, <2>3, <2>4, QuietStep DEF GoesOn
<1>4. ASSUME UNCHANGED <<heard, req, client, history>>
      PROVE  Proper(w)
    BY <1>b, <1>4, QuietStep DEF GoesOn
<1>5. ASSUME NEW e \in Ids, CreateReply(w, e) \/ DeleteItem(w, e)
      PROVE  Proper(w)
    BY <1>4, <1>5 DEF CreateReply, DeleteItem
<1>6. ASSUME NEW e \in Ids, AddAttachment(w, e) \/ DeleteAttachment(w, e)
      PROVE  Proper(w)
    BY <1>4, <1>6 DEF AddAttachment, DeleteAttachment
<1>7. ASSUME NEW e \in Ids, NEW place \in Places, NEW move \in BOOLEAN,
             CopyOrMove(w, e, place, move)
      PROVE  Proper(w)
    BY <1>4, <1>7 DEF CopyOrMove
<1>8. ASSUME NEW save \in BOOLEAN, SendMail(w, save)
      PROVE  Proper(w)
    BY <1>b, <1>8, SendMailProper
<1>9. ASSUME NEW e \in Ids, StartSend(w, e)
      PROVE  Proper(w)
    BY <1>b, <1>9, StartSendProper
<1>10. CASE Send(w)
    BY <1>b, <1>10, SendProper
<1> QED BY <1>1, <1>2, <1>3, <1>5, <1>6, <1>7, <1>8, <1>9, <1>10 DEF MailNext

LEMMA SetFieldsProper ==
    ASSUME ItemsInv, NEW w \in Workers, SetFields(w)
    PROVE  Proper(w)
<1> DEFINE e == req[w].item
<1>a. Types /\ Right(w) /\ MailsAreMessages
    BY RequestsRight
<1>b. StepOk
    BY SetFieldsStep
<1>c. UNCHANGED <<heard, history>> /\ req[w].pc = "fields"
    BY DEF SetFields, At
<1>1. CASE ~SentWhenSet(req[w])
    <2>1. Answer(w, "sent") /\ req[w].op # "sendMail"
        BY <1>1 DEF SetFields, SentWhenSet
    <2> QED BY <1>b, <1>c, <2>1, AnswerStep
<1>2. CASE SentWhenSet(req[w])
    <2>1. /\ req' = [req EXCEPT ![w].pc = "send"] /\ client' = client
          /\ req[w].op = "sendMail" \/ (req[w].op = "POST" /\ req[w].meeting)
        BY <1>2 DEF SetFields, Goto, SentWhenSet
    <2>2. req'[w] = [req[w] EXCEPT !.pc = "send"] /\ \A v \in Workers : v # w => req'[v] = req[v]
        BY <1>a, <2>1 DEF Types
    <2>3. items'[e] = [items[e] EXCEPT !.whole = TRUE] /\ e \in Ids
        BY <1>a, <2>1, SetFieldsProperties DEF Types
    <2>4. CASE req[w].op = "sendMail"
        <3>1. req[w] \in MailRequest /\ OfMail(w) /\ ~OfEvent(w)
            BY <1>a, <2>4, RequestCases DEF OfMail, MailOps, OfEvent, EventOps
        <3>2. req'[w].op = "sendMail" /\ req'[w].item = e /\ req'[w].pc = "send"
              /\ req'[w].whole = req[w].whole
            BY <2>2, <2>4, <3>1 DEF MailRequest
        <3>3. items[e] \in Mail
            BY <3>1, SetFieldsProperties
        <3>4. items'[e].kind \in {"message", "contact"} /\ items'[e].whole
            BY <2>3, <3>3 DEF Mail, MailKinds
        <3>5. Right(w)'
            BY <1>a, <2>4, <3>2, <3>4 DEF Right, Fits, Progresses, Knows, Notifies,
               HasCanceled, At, OfEvent, OfMail, EventOps, MailOps
        <3> QED BY <1>b, <1>c, <2>1, <2>2, <2>4, <3>2, <3>5, QuietStep DEF GoesOn
    <2>5. CASE req[w].op = "POST" /\ req[w].meeting
        <3>1. req[w] \in EventRequest /\ OfEvent(w) /\ ~OfMail(w)
            BY <1>a, <2>5, RequestCases DEF OfMail, MailOps, OfEvent, EventOps
        <3>2. req'[w].op = "POST" /\ req'[w].item = e /\ req'[w].pc = "send"
              /\ req'[w].meeting
            BY <2>2, <2>5, <3>1 DEF EventRequest
        <3>3. items[e] \in Event /\ IsEvent(e)
            BY <1>a, <3>1, SetFieldsProperties, ItemCases
        <3>4. items[e].meeting
            BY <1>a, <1>c, <2>5, <3>3 DEF Right, Progresses
        <3>5. items'[e].kind = "event" /\ items'[e].whole /\ items'[e].meeting
            BY <2>3, <3>3, <3>4 DEF Event, EventKind
        <3>6. e \notin mails'
            BY <1>a, <1>c, <3>1 DEF Right, Fits, history
        <3>7. Right(w)'
            BY <3>2, <3>5, <3>6 DEF Right, Fits, Progresses, Knows, Notifies,
               HasCanceled, At, OfEvent, OfMail, EventOps, MailOps
        <3> QED BY <1>b, <1>c, <2>1, <2>2, <2>5, <3>2, <3>7, QuietStep DEF GoesOn
    <2> QED BY <2>1, <2>4, <2>5
<1> QED BY <1>1, <1>2

LEMMA FoldersProper ==
    ASSUME ItemsInv, NEW w \in Workers, FoldersNext(w)
    PROVE  Proper(w)
<1>a. Types
    BY RequestsRight
<1>b. StepOk
    BY FoldersStep
<1>1. ASSUME NEW S, NEW v \in Workers
      PROVE  Touched(S)[v] = req[v] \/ Touched(S)[v].op = "folder"
    <2>1. Touched(S)[v] = req[v] \/ Touched(S)[v] \in FolderRequest
        BY <1>a, TouchedRequests
    <2>2. \A r \in FolderRequest : r.op = "folder"
        BY DEF FolderRequest, FolderOps
    <2> QED BY <2>1, <2>2
<1>2. ASSUME UNCHANGED <<heard, client, history>>,
             \A v \in Workers : req'[v] = req[v] \/ req'[v].op = "folder"
      PROVE  Proper(w)
    BY <1>b, <1>2, QuietStep DEF GoesOn
<1>3. ASSUME NEW new \in FolderIds, NEW place \in Containers, NEW name \in Names,
             CreateFolder(w, new, place, name)
      PROVE  Proper(w)
    BY <1>2, <1>3 DEF CreateFolder
<1>4. ASSUME NEW f \in FolderIds, NEW name \in Names, RenameFolder(w, f, name)
      PROVE  Proper(w)
    BY <1>1, <1>2, <1>4 DEF RenameFolder
<1>5. ASSUME NEW f \in FolderIds, DeleteFolder(w, f)
      PROVE  Proper(w)
    BY <1>1, <1>2, <1>5 DEF DeleteFolder
<1>6. ASSUME NEW f \in FolderIds, NEW place \in Containers, NEW new \in FolderIds
      PROVE  FolderAt(f, place, new).op = "folder"
    BY DEF FolderAt
<1>7. ASSUME NEW f \in FolderIds, NEW place \in Containers, MoveFolder(w, f, place)
      PROVE  Proper(w)
    <2>1. /\ req' = [Touched({f}) EXCEPT ![w] = FolderAt(f, place, f)]
          /\ UNCHANGED <<heard, client, history>>
        BY <1>7 DEF MoveFolder
    <2>2. \A v \in Workers : req'[v] = req[v] \/ req'[v].op = "folder"
        BY <1>a, <1>1, <1>6, <2>1, TouchedRequests
    <2> QED BY <1>2, <2>1, <2>2
<1>8. ASSUME NEW f \in FolderIds, NEW new \in FolderIds, NEW place \in Containers,
             CopyFolder(w, f, place, new)
      PROVE  Proper(w)
    <2>1. /\ req' = [req EXCEPT ![w] = FolderAt(f, place, new)]
          /\ UNCHANGED <<heard, client, history>>
        BY <1>8 DEF CopyFolder
    <2>2. \A v \in Workers : req'[v] = req[v] \/ req'[v].op = "folder"
        BY <1>a, <1>6, <2>1 DEF Types
    <2> QED BY <1>2, <2>1, <2>2
<1>9. ASSUME req[w].pc \in {"lookup", "respond"}
      PROVE  req[w] \in FolderRequest /\ req[w].op = "folder"
    <2>1. req[w] \notin EventRequest /\ req[w] \notin MailRequest /\ req[w].pc # "idle"
        BY <1>9 DEF EventRequest, EventStages, MailRequest, MailStages
    <2> QED BY <1>a, <2>1, RequestCases
<1>10. CASE LookupFolder(w)
    <2>1. /\ req[w].pc = "lookup" /\ UNCHANGED <<heard, client, history>>
          /\ \E f \in FolderIds :
                req' = [req EXCEPT ![w] = [req[w] EXCEPT !.pc = "respond", !.found = f]]
        BY <1>10 DEF LookupFolder, At, Named
    <2>2. PICK f \in FolderIds :
              req' = [req EXCEPT ![w] = [req[w] EXCEPT !.pc = "respond", !.found = f]]
        BY <2>1
    <2>3. [req[w] EXCEPT !.pc = "respond", !.found = f].op = "folder"
        BY <1>9, <2>1 DEF FolderRequest
    <2>4. \A v \in Workers : req'[v] = req[v] \/ req'[v].op = "folder"
        BY <1>a, <2>2, <2>3 DEF Types
    <2> QED BY <1>2, <2>1, <2>4
<1>11. CASE Respond(w)
    <2>1. Answer(w, "sent") /\ UNCHANGED <<heard, history>> /\ req[w].pc = "respond"
        BY <1>11 DEF Respond, At
    <2> QED BY <1>b, <1>9, <2>1, AnswerStep
<1> QED BY <1>3, <1>4, <1>5, <1>7, <1>8, <1>10, <1>11 DEF FoldersNext

LEMMA StepsAreProper ==
    ASSUME ItemsInv, Next
    PROVE  \E w \in Workers : Proper(w)
<1>1. ASSUME NEW w \in Workers, Fail(w)
      PROVE  Proper(w)
    BY <1>1, FailStep, AnswerStep DEF Fail
<1> QED BY <1>1, EventsProper, MailProper, FoldersProper, SetFieldsProper DEF Next

-----------------------------------------------------------------------------
(* What every step keeps, of folders and of what is in them                *)

AnswersRight(w) == req[w].op = "folder" /\ At(w, "respond") => req[w].found = req[w].new \/ req[w].touched

LEMMA FoldersRight ==
    /\ AnswerNamesTheFolder <=> \A w \in Workers : AnswersRight(w)
    /\ ItemsInv => /\ Types /\ PostedById /\ Housed /\ Tidy
                   /\ \A w \in Workers : Untouched(w) /\ AnswersRight(w)
BY RequestsRight DEF AnswerNamesTheFolder, AnswersRight, UntouchedStay

\* The well-known folders are always there.
LEMMA WellKnown ==
    ASSUME NEW place \in {"Inbox", "Subtree", "Drafts", "Outbox", "Sentmail", "Contacts"}
                         \cup Calendars
    PROVE  place \notin FolderIds /\ Open(place) /\ Open(place)'
<1>1. place \notin FolderIds
    BY ItemsAssumption DEF Calendars
<1> QED BY <1>1 DEF Open

\* What is made is in a folder that exists, and what was made stays in its
\* folder or comes to one that exists.
Placed ==
    \A e \in Ids :
        /\ items[e] = Unmade /\ IsEvent(e)' =>
              items'[e].folder = items'[e].named \/ items'[e].named = "calendar"
        /\ Exists(e)' =>
              \/ Exists(e) /\ items'[e].folder = items[e].folder
              \/ Open(items'[e].folder)

LEMMA NothingMoves ==
    ASSUME ItemsInv, StepOk, NEW e \in Ids, NEW item, items[e] # Unmade,
           items' = [items EXCEPT ![e] = item],
           item = Gone \/ item.folder = items[e].folder \/ Open(item.folder)
    PROVE  Placed
<1>a. Types
    BY InvParts
<1>1. \A d \in Ids : items'[d] = IF d = e THEN item ELSE items[d]
    BY <1>a DEF Types
<1>2. \A d \in Ids : items[d] = Unmade => items'[d].kind = "unmade"
    BY <1>1, Kinds
<1>3. Exists(e)' => Exists(e) /\ item # Gone
    BY <1>a, <1>1, KindStays, Kinds DEF Exists, IsEvent, IsMessage, IsContact
<1>4. \A d \in Ids : items[d] = Unmade => ~(IsEvent(d)')
    BY <1>2 DEF IsEvent
<1>5. \A d \in Ids : Exists(d)' => \/ Exists(d) /\ items'[d].folder = items[d].folder
                                   \/ Open(items'[d].folder)
    BY <1>1, <1>3 DEF Exists, IsEvent, IsMessage, IsContact
<1> QED BY <1>4, <1>5 DEF Placed

LEMMA MadeIsPlaced ==
    ASSUME ItemsInv, NEW item \in Event \cup Mail, Make(item), Open(item.folder),
           item.kind = "event" => item.folder = item.named \/ item.named = "calendar"
    PROVE  Placed
<1>a. Types /\ IdsSuffice
    BY InvParts
<1>1. NewId \in Ids /\ items' = [items EXCEPT ![NewId] = item]
    BY <1>a, MakeProperties
<1>2. \A d \in Ids : items'[d] = IF d = NewId THEN item ELSE items[d]
    BY <1>a, <1>1 DEF Types
<1>3. \A d \in Ids : d # NewId /\ items[d] = Unmade => items'[d].kind = "unmade"
    BY <1>2, Kinds
<1>4. ASSUME NEW d \in Ids, items[d] = Unmade, IsEvent(d)'
      PROVE  items'[d].folder = items'[d].named \/ items'[d].named = "calendar"
    BY <1>2, <1>3, <1>4 DEF IsEvent
<1>5. ASSUME NEW d \in Ids, Exists(d)'
      PROVE  \/ Exists(d) /\ items'[d].folder = items[d].folder
             \/ Open(items'[d].folder)
    BY <1>2, <1>5 DEF Exists, IsEvent, IsMessage, IsContact
<1> QED BY <1>4, <1>5 DEF Placed

\* Events stay as they were posted.
LEMMA PostedStay ==
    ASSUME ItemsInv, StepOk, Placed
    PROVE  PostedById'
<1>a. Types /\ PostedById
    BY InvParts
<1> SUFFICES ASSUME NEW e \in Ids, items'[e].kind = "event"
             PROVE  items'[e].folder = items'[e].named \/ items'[e].named = "calendar"
    BY DEF PostedById, IsEvent
<1>1. CASE items[e] = Unmade
    BY <1>1 DEF Placed, IsEvent
<1>2. CASE items[e] # Unmade
    <2>1. IsEvent(e)' /\ IsEvent(e) /\ Keeps(e)
        BY <1>a, <1>2, KindStays DEF StepOk, ItemsKept, IsEvent
    <2>2. items'[e].folder = items[e].folder /\ items'[e].named = items[e].named
        BY <1>2, <2>1 DEF Keeps
    <2> QED BY <1>a, <2>1, <2>2 DEF PostedById
<1> QED BY <1>1, <1>2

\* A step that has nothing to do with folders
LEMMA OutsideFolders ==
    ASSUME ItemsInv, StepOk, Placed, UNCHANGED folders,
           \A w \in Workers : req'[w].op = "folder" => req'[w] = req[w]
    PROVE  PostedById' /\ Housed' /\ Tidy' /\ UntouchedStay' /\ AnswerNamesTheFolder'
<1>a. /\ Types /\ Housed /\ Tidy
      /\ \A w \in Workers : Untouched(w) /\ AnswersRight(w)
    BY FoldersRight
<1>1. Housed'
    BY <1>a DEF Housed, Placed, Open, FolderExists
<1>2. Tidy'
    BY <1>a DEF Tidy, Open, FolderExists, Named
<1>3. UntouchedStay'
    BY <1>a DEF UntouchedStay, Untouched, FolderExists
<1>4. AnswerNamesTheFolder'
    BY <1>a DEF AnswerNamesTheFolder, AnswersRight, At
<1> QED BY <1>1, <1>2, <1>3, <1>4, PostedStay

FoldersKept ==
    PostedById' /\ Housed' /\ Tidy' /\ UntouchedStay' /\ AnswerNamesTheFolder'

\* A step that leaves items alone, too
LEMMA NothingChanges ==
    ASSUME ItemsInv, StepOk, UNCHANGED <<items, folders>>,
           \A w \in Workers : req'[w].op = "folder" => req'[w] = req[w]
    PROVE  FoldersKept
<1>1. \A e \in Ids : items[e] = Unmade => items'[e].kind = "unmade"
    BY Kinds
<1>2. Placed
    BY <1>1 DEF Placed, Exists, IsEvent, IsMessage, IsContact
<1> QED BY <1>2, OutsideFolders DEF FoldersKept

LEMMA AnswerKeepsFolders ==
    ASSUME ItemsInv, NEW w \in Workers, NEW told \in {"sent", "unsent"}, Answer(w, told)
    PROVE  \A v \in Workers : req'[v].op = "folder" => req'[v] = req[v]
BY AnswerType, InvParts, Kinds

LEMMA EventsKeepFolders ==
    ASSUME ItemsInv, NEW w \in Workers, EventsNext(w)
    PROVE  FoldersKept
<1>a. Types /\ \A v \in Workers : Right(v)
    BY RequestsRight
<1>b. StepOk
    BY EventsStep
<1>1. ASSUME NEW folder \in Calendars, GetByFolderid(w, folder)
      PROVE  FoldersKept
    BY <1>b, <1>1, NothingChanges DEF GetByFolderid
<1>2. ASSUME NEW user \in Users, NEW name \in Calendars \cup {"calendar"},
             NEW meeting \in BOOLEAN, NEW behalf \in BOOLEAN,
             CreateEvent(w, user, name, meeting, behalf)
      PROVE  FoldersKept
    <2> DEFINE item == [kind |-> "event", folder |-> Folder(name), named |-> name,
                        whole |-> FALSE, attached |-> FALSE, meeting |-> FALSE,
                        canceled |-> FALSE, behalf |-> behalf]
               r == [pc |-> IF meeting THEN "attendees" ELSE "fields", op |-> "POST",
                     user |-> user, item |-> NewId, meeting |-> meeting]
    <2>1. Make(item) /\ req' = [req EXCEPT ![w] = r] /\ UNCHANGED folders
        BY <1>2 DEF CreateEvent
    <2>2. Folder(name) \in Calendars /\ (Folder(name) = name \/ name = "calendar")
        BY <1>a DEF Folder, Types
    <2>3. /\ item \in Event \cup Mail /\ item.folder = Folder(name) /\ item.named = name
          /\ r.op = "POST"
        BY <2>2 DEF Event, EventKind
    <2> HIDE DEF item, r
    <2>4. Open(item.folder)
        BY <2>2, <2>3, WellKnown
    <2>5. Placed
        BY <2>1, <2>2, <2>3, <2>4, MadeIsPlaced
    <2>6. \A v \in Workers : req'[v].op = "folder" => req'[v] = req[v]
        BY <1>a, <2>1, <2>3 DEF Types
    <2> QED BY <1>b, <2>1, <2>5, <2>6, OutsideFolders DEF FoldersKept
<1>3. ASSUME NEW r \in EventRequest, req' = [req EXCEPT ![w] = r]
      PROVE  \A v \in Workers : req'[v].op = "folder" => req'[v] = req[v]
    <2>1. r.op # "folder"
        BY DEF EventRequest, EventOps
    <2> QED BY <1>a, <1>3, <2>1 DEF Types
<1>4. ASSUME NEW user \in Users, NEW e \in Ids, NEW meeting \in BOOLEAN,
             UpdateEvent(w, user, e, meeting)
      PROVE  FoldersKept
    <2> DEFINE r == [pc |-> IF meeting THEN "attendees" ELSE "fields", op |-> "PATCH",
                     user |-> user, item |-> e, meeting |-> meeting]
    <2>1. r \in EventRequest
        BY DEF EventRequest, EventStages, EventOps
    <2>2. req' = [req EXCEPT ![w] = r] /\ UNCHANGED <<items, folders>>
        BY <1>4 DEF UpdateEvent
    <2> HIDE DEF r
    <2> QED BY <1>b, <1>3, <2>1, <2>2, NothingChanges
<1>5. ASSUME NEW user \in Users, NEW e \in Ids, StartDelete(w, user, e)
      PROVE  FoldersKept
    <2> DEFINE cancel == IsEventOrganizer(user, e) /\ items[e].meeting
               r == [pc |-> AfterCheck(user, cancel), op |-> "DELETE",
                     user |-> user, item |-> e, meeting |-> items[e].meeting]
               item == [items[e] EXCEPT !.canceled = @ \/ cancel]
    <2>1. /\ items' = [items EXCEPT ![e] = item] /\ IsEvent(e)
          /\ req' = [req EXCEPT ![w] = r] /\ UNCHANGED folders
        BY <1>5 DEF StartDelete
    <2>2. items[e] # Unmade /\ items[e] \in Event
        BY <2>1, EventKnown
    <2>3. item.folder = items[e].folder /\ r.op = "DELETE"
        BY <2>2 DEF Event
    <2> HIDE DEF item, r
    <2>4. Placed
        BY <1>b, <2>1, <2>2, <2>3, NothingMoves
    <2>5. \A v \in Workers : req'[v].op = "folder" => req'[v] = req[v]
        BY <1>a, <2>1, <2>3 DEF Types
    <2> QED BY <1>b, <2>1, <2>4, <2>5, OutsideFolders DEF FoldersKept
<1>6. CASE AttendeesSet(w)
    <2> DEFINE e == req[w].item
               item == [items[e] EXCEPT !.meeting = TRUE]
    <2>1. /\ req[w].pc = "attendees" /\ Exists(e) /\ items' = [items EXCEPT ![e] = item]
          /\ req' = [req EXCEPT ![w].pc = "fields"] /\ UNCHANGED folders
        BY <1>6 DEF AttendeesSet, Goto, At
    <2>2. req[w] \in EventRequest
        <3>1. req[w] \notin MailRequest /\ req[w] \notin FolderRequest /\ req[w].pc # "idle"
            BY <2>1 DEF MailRequest, MailStages, FolderRequest, FolderStages
        <3> QED BY <1>a, <3>1, RequestCases
    <2>3. [req[w] EXCEPT !.pc = "fields"] \in EventRequest /\ e \in Ids
        BY <2>2 DEF EventRequest, EventStages
    <2>4. items[e].kind = "event" /\ items[e] # Unmade
        BY <1>a, <2>1, <2>2, RequestCases, Kinds
           DEF Right, Fits, Exists, IsEvent, IsMessage, IsContact
    <2>5. items[e] \in Event
        BY <1>a, <2>3, <2>4, ItemCases DEF IsEvent
    <2>6. item.folder = items[e].folder
        BY <2>5 DEF Event
    <2> HIDE DEF item
    <2>7. Placed
        BY <1>b, <2>1, <2>3, <2>4, <2>6, NothingMoves
    <2> QED BY <1>3, <1>b, <2>1, <2>3, <2>7, OutsideFolders DEF FoldersKept
<1>7. CASE SendEvent(w)
    BY <1>b, <1>7, AnswerKeepsFolders, NothingChanges DEF SendEvent
<1>8. CASE Notify(w)
    <2>1. /\ req[w].pc = "notify" /\ req' = [req EXCEPT ![w].pc = "delete"]
          /\ UNCHANGED <<items, folders>>
        BY <1>8 DEF Notify, At, Goto
    <2>2. req[w] \in EventRequest
        <3>1. req[w] \notin MailRequest /\ req[w] \notin FolderRequest /\ req[w].pc # "idle"
            BY <2>1 DEF MailRequest, MailStages, FolderRequest, FolderStages
        <3> QED BY <1>a, <3>1, RequestCases
    <2>3. [req[w] EXCEPT !.pc = "delete"] \in EventRequest
        BY <2>2 DEF EventRequest, EventStages
    <2> QED BY <1>3, <1>b, <2>1, <2>3, NothingChanges
<1>9. CASE Delete(w)
    <2> DEFINE e == req[w].item
    <2>1. /\ req[w].pc = "delete" /\ Exists(e) /\ items' = [items EXCEPT ![e] = Gone]
          /\ Answer(w, "sent") /\ UNCHANGED folders
        BY <1>9 DEF Delete, At
    <2>2. e \in Ids
        <3>1. OfEvent(w)
            BY <1>a, <2>1 DEF Right, Fits, OfEvent, EventOps
        <3> QED BY <1>a, <3>1, RequestCases DEF EventRequest
    <2>3. items[e] # Unmade
        BY <2>1, Kinds DEF Exists, IsEvent, IsMessage, IsContact
    <2>4. Placed
        BY <1>b, <2>1, <2>2, <2>3, NothingMoves
    <2> QED BY <1>b, <2>1, <2>4, AnswerKeepsFolders, OutsideFolders DEF FoldersKept
<1> QED BY <1>1, <1>2, <1>4, <1>5, <1>6, <1>7, <1>8, <1>9 DEF EventsNext

LEMMA MailKeepsFolders ==
    ASSUME ItemsInv, NEW w \in Workers, MailNext(w)
    PROVE  FoldersKept
<1>a. Types /\ IdsSuffice
    BY RequestsRight
<1>b. StepOk
    BY MailStep
<1>c. "message" \in MailKinds /\ "contact" \in MailKinds /\ "Outbox" \in Places
      /\ "Drafts" \in Places
    BY DEF MailKinds, Places
<1>1. ASSUME NEW r, r.op \in MailOps, req' = [req EXCEPT ![w] = r]
      PROVE  \A v \in Workers : req'[v].op = "folder" => req'[v] = req[v]
    BY <1>a, <1>1 DEF Types, MailOps
<1>2. ASSUME NEW kind \in MailKinds, NEW place \in Places, Open(place),
             NEW item \in Mail, item.kind = kind, item.folder = place, Make(item),
             UNCHANGED folders,
             \A v \in Workers : req'[v].op = "folder" => req'[v] = req[v]
      PROVE  FoldersKept
    <2>1. kind # "event"
        BY DEF MailKinds
    <2>2. Placed
        BY <1>2, <2>1, MadeIsPlaced
    <2> QED BY <1>2, <1>b, <2>2, OutsideFolders DEF FoldersKept
<1>3. \A kind \in MailKinds, place \in Places :
          /\ Half(kind, place) \in Mail
          /\ Half(kind, place).kind = kind /\ Half(kind, place).folder = place
    BY HalfType DEF Half
<1>4. ASSUME NEW place \in Places, CreateMessage(w, place) \/ CreateContact(w, place)
      PROVE  FoldersKept
    <2> DEFINE r == [pc |-> "fields", op |-> "create", item |-> NewId, whole |-> FALSE,
                     save |-> FALSE]
    <2>1. PICK kind \in MailKinds : Make(Half(kind, place))
        BY <1>4, <1>c DEF CreateMessage, CreateContact
    <2>2. Open(place) /\ req' = [req EXCEPT ![w] = r] /\ UNCHANGED folders
        BY <1>4 DEF CreateMessage, CreateContact
    <2>3. r.op \in MailOps
        BY DEF MailOps
    <2> HIDE DEF r
    <2> QED BY <1>1, <1>2, <1>3, <2>1, <2>2, <2>3
<1>5. ASSUME NEW save \in BOOLEAN, SendMail(w, save)
      PROVE  FoldersKept
    <2> DEFINE r == [pc |-> "fields", op |-> "sendMail", item |-> NewId, whole |-> TRUE,
                     save |-> save]
    <2>1. /\ Make(Half("message", "Outbox")) /\ req' = [req EXCEPT ![w] = r]
          /\ UNCHANGED folders
        BY <1>5 DEF SendMail
    <2>2. r.op \in MailOps
        BY DEF MailOps
    <2> HIDE DEF r
    <2>3. Open("Outbox")
        BY WellKnown
    <2>4. \A v \in Workers : req'[v].op = "folder" => req'[v] = req[v]
        BY <1>1, <2>1, <2>2
    <2>5. /\ Half("message", "Outbox") \in Mail /\ Half("message", "Outbox").kind = "message"
          /\ Half("message", "Outbox").folder = "Outbox"
        BY <1>3, <1>c
    <2> QED BY <1>2, <1>c, <2>1, <2>3, <2>4, <2>5
<1>6. ASSUME NEW e \in Ids, CreateReply(w, e)
      PROVE  FoldersKept
    <2> DEFINE item == [Half("message", "Drafts") EXCEPT !.whole = TRUE]
    <2>1. item \in Mail /\ item.kind = "message" /\ item.folder = "Drafts"
        BY <1>c, HalfType DEF Half
    <2>2. Make(item) /\ UNCHANGED <<folders, req>>
        BY <1>6 DEF CreateReply
    <2> HIDE DEF item
    <2>3. Open("Drafts")
        BY WellKnown
    <2> QED BY <1>2, <1>c, <2>1, <2>2, <2>3
<1>7. ASSUME NEW e \in Ids, UpdateMessage(w, e) \/ StartSend(w, e)
      PROVE  FoldersKept
    <2> DEFINE u == [pc |-> "fields", op |-> "update", item |-> e, whole |-> FALSE,
                     save |-> FALSE]
               r == [pc |-> "send", op |-> "send", item |-> e, whole |-> items[e].whole,
                     save |-> TRUE]
    <2>1. /\ req' = [req EXCEPT ![w] = u] \/ req' = [req EXCEPT ![w] = r]
          /\ UNCHANGED <<items, folders>>
        BY <1>7 DEF UpdateMessage, StartSend
    <2>2. u.op \in MailOps /\ r.op \in MailOps
        BY DEF MailOps
    <2> HIDE DEF u, r
    <2> QED BY <1>1, <1>b, <2>1, <2>2, NothingChanges
<1>8. ASSUME NEW e \in Ids, DeleteItem(w, e)
      PROVE  FoldersKept
    <2>1. /\ items' = [items EXCEPT ![e] = Gone] /\ UNCHANGED <<folders, req>>
          /\ (IsMessage(e) \/ IsContact(e))
        BY <1>8 DEF DeleteItem
    <2>2. Placed
        BY <1>b, <2>1, MailKnown, NothingMoves
    <2> QED BY <1>b, <2>1, <2>2, OutsideFolders DEF FoldersKept
<1>9. ASSUME NEW e \in Ids, AddAttachment(w, e) \/ DeleteAttachment(w, e)
      PROVE  FoldersKept
    <2>1. /\ \E b \in BOOLEAN : items' = [items EXCEPT ![e] = [items[e] EXCEPT !.attached = b]]
          /\ UNCHANGED <<folders, req>> /\ \E path \in Paths : Finds(path, e)
        BY <1>9 DEF AddAttachment, DeleteAttachment
    <2>2. PICK b \in BOOLEAN : items' = [items EXCEPT ![e] = [items[e] EXCEPT !.attached = b]]
        BY <2>1
    <2> DEFINE item == [items[e] EXCEPT !.attached = b]
    <2>3. IsEvent(e) \/ IsMessage(e)
        BY <2>1 DEF Finds
    <2>4. items[e] \in Event \/ items[e] \in Mail
        BY <1>a, <2>3, ItemCases
    <2>5. items[e] # Unmade
        BY <2>3, Kinds DEF IsEvent, IsMessage
    <2>6. item.folder = items[e].folder
        BY <2>4 DEF Event, Mail
    <2> HIDE DEF item
    <2>7. items' = [items EXCEPT ![e] = item]
        BY <2>2 DEF item
    <2>8. Placed
        BY <1>b, <2>5, <2>6, <2>7, NothingMoves
    <2> QED BY <1>b, <2>1, <2>8, OutsideFolders DEF FoldersKept
<1>10. ASSUME NEW e \in Ids, NEW place \in Places, NEW move \in BOOLEAN,
              CopyOrMove(w, e, place, move)
       PROVE  FoldersKept
    <2>1. Open(place) /\ UNCHANGED <<folders, req>>
        BY <1>10 DEF CopyOrMove
    <2>2. PICK n \in Ids :
              /\ items'[n] = [items[e] EXCEPT !.folder = place] /\ items[e] \in Mail
              /\ \A d \in Ids : d # n => items'[d] = items[d] \/ items'[d] = Gone
        BY <1>10, CopyOrMoveStep
    <2>3. items'[n].kind \in MailKinds /\ items'[n].folder = place
        BY <2>2 DEF Mail
    <2>4. ~(IsEvent(n)')
        BY <2>3 DEF IsEvent, MailKinds
    <2>5. ASSUME NEW d \in Ids, d # n
          PROVE  /\ items[d] = Unmade => ~(IsEvent(d)')
                 /\ Exists(d)' => Exists(d) /\ items'[d].folder = items[d].folder
        BY <2>2, <2>5, Kinds DEF Exists, IsEvent, IsMessage, IsContact
    <2>6. Placed
        BY <2>1, <2>3, <2>4, <2>5 DEF Placed, Open, FolderExists
    <2> QED BY <1>b, <2>1, <2>6, OutsideFolders DEF FoldersKept
<1>11. CASE Send(w)
    <2> DEFINE e == req[w].item
    <2>1. Answer(w, "sent") /\ UNCHANGED folders
        BY <1>11 DEF Send
    <2>2. \A v \in Workers : req'[v].op = "folder" => req'[v] = req[v]
        BY <2>1, AnswerKeepsFolders
    <2>3. CASE items' = items
        BY <1>b, <2>1, <2>2, <2>3, NothingChanges
    <2>4. ASSUME NEW item, items[e] \in Mail, items' = [items EXCEPT ![e] = item],
                 item = Gone \/ Open(item.folder)
          PROVE  FoldersKept
        <3>1. e \in Ids
            BY <1>11, SendProperties
        <3>2. items[e].kind \in MailKinds
            BY <2>4 DEF Mail
        <3>3. items[e] # Unmade
            BY <3>2, Kinds DEF MailKinds
        <3>4. Placed
            BY <1>b, <2>4, <3>1, <3>3, NothingMoves
        <3> QED BY <1>b, <2>1, <2>2, <3>4, OutsideFolders DEF FoldersKept
    <2>5. ASSUME items[e] \in Mail
          PROVE  Open([items[e] EXCEPT !.folder = "Sentmail"].folder)
        <3>1. [items[e] EXCEPT !.folder = "Sentmail"].folder = "Sentmail"
            BY <2>5 DEF Mail
        <3> QED BY <3>1, WellKnown
    <2> QED BY <1>11, <2>3, <2>4, <2>5, SendProperties
<1> QED BY <1>4, <1>5, <1>6, <1>7, <1>8, <1>9, <1>10, <1>11 DEF MailNext

LEMMA SetFieldsKeepsFolders ==
    ASSUME ItemsInv, NEW w \in Workers, SetFields(w)
    PROVE  FoldersKept
<1> DEFINE e == req[w].item
<1>a. Types
    BY RequestsRight
<1>b. StepOk
    BY SetFieldsStep
<1>1. UNCHANGED folders
    BY DEF SetFields
<1>2. \A v \in Workers : req'[v].op = "folder" => req'[v] = req[v]
    <2>1. CASE SentWhenSet(req[w])
        <3>1. req' = [req EXCEPT ![w].pc = "send"] /\ req[w].op \in {"sendMail", "POST"}
            BY <2>1 DEF SetFields, Goto, SentWhenSet
        <3>2. req[w] \in EventRequest \/ req[w] \in MailRequest
            BY <1>a, <3>1, RequestCases DEF OfEvent, OfMail, EventOps, MailOps
        <3>3. [req[w] EXCEPT !.pc = "send"].op = req[w].op
            BY <3>2 DEF EventRequest, MailRequest
        <3> QED BY <1>a, <3>1, <3>3 DEF Types
    <2>2. CASE ~SentWhenSet(req[w])
        <3>1. Answer(w, "sent")
            BY <2>2 DEF SetFields
        <3> QED BY <3>1, AnswerKeepsFolders
    <2> QED BY <2>1, <2>2
<1>3. CASE items' = items
    BY <1>1, <1>2, <1>3, <1>b, NothingChanges
<1>4. CASE items' = [items EXCEPT ![e] = [items[e] EXCEPT !.whole = TRUE]]
    <2>1. e \in Ids /\ Exists(e) /\ (items[e] \in Event \/ items[e] \in Mail)
        BY SetFieldsProperties
    <2>2. items[e] # Unmade
        BY <2>1, Kinds DEF Exists, IsEvent, IsMessage, IsContact
    <2>3. [items[e] EXCEPT !.whole = TRUE].folder = items[e].folder
        BY <2>1 DEF Event, Mail
    <2>4. Placed
        BY <1>4, <1>b, <2>1, <2>2, <2>3, NothingMoves
    <2> QED BY <1>1, <1>2, <1>b, <2>4, OutsideFolders DEF FoldersKept
<1> QED BY <1>3, <1>4, SetFieldsProperties

\* What is in a folder of the tree is in the tree.
LEMMA TreeIsClosed ==
    ASSUME NEW f \in FolderIds
    PROVE  f \in Tree(f) /\ Tree(f) \subseteq FolderIds /\ Children(Tree(f)) \subseteq Tree(f)
<1>1. f \in Tree(f) /\ Tree(f) \subseteq FolderIds
    BY DEF Tree
<1>2. ASSUME NEW g \in Children(Tree(f))
      PROVE  g \in Tree(f)
    <2> SUFFICES ASSUME NEW S \in SUBSET FolderIds, f \in S, Children(S) \subseteq S
                 PROVE  g \in S
        BY DEF Tree, Children
    <2>1. Tree(f) \subseteq S
        BY DEF Tree
    <2>2. g \in Children(S)
        BY <2>1 DEF Children
    <2> QED BY <2>2
<1> QED BY <1>1, <1>2

\* A folder is what its parent and its name say.
LEMMA FolderIs ==
    ASSUME NEW m \in MailFolder
    PROVE  m = [kind |-> "folder", parent |-> m.parent, name |-> m.name]
BY DEF MailFolder, FolderKind

\* A folder that comes to a free name, in a folder that exists
LEMMA FolderPut ==
    ASSUME ItemsInv, NEW g \in FolderIds, NEW m \in MailFolder, folders' = [folders EXCEPT ![g] = m],
           Open(m.parent), Named(m.parent, m.name) = {}
    PROVE  Tidy' /\ \A f \in FolderIds : FolderExists(f) => FolderExists(f)'
<1>a. Types /\ Tidy
    BY InvParts
<1>1. \A f \in FolderIds : folders'[f] = IF f = g THEN m ELSE folders[f]
    BY <1>a DEF Types
<1>2. \A f \in FolderIds : FolderExists(f) => FolderExists(f)'
    BY <1>1, FolderType DEF FolderExists
<1>3. \A place : Open(place) => Open(place)'
    BY <1>2 DEF Open
<1>4. ASSUME NEW f \in FolderIds, FolderExists(f)'
      PROVE  \E place, name : /\ place = folders'[f].parent /\ name = folders'[f].name
                              /\ Open(place)' /\ Named(place, name)' = {f}
    <2>1. m = [kind |-> "folder", parent |-> m.parent, name |-> m.name]
        BY FolderIs
    <2>2. CASE f = g
        <3>1. folders'[f] = m
            BY <1>1, <2>2
        <3>2. \A h \in FolderIds : folders'[h] = m <=> h = g
            BY <1>1, <2>1 DEF Named
        <3>3. Named(m.parent, m.name)' = {g}
            BY <2>1, <3>2 DEF Named
        <3> QED BY <1>3, <2>2, <3>1, <3>3
    <2>3. CASE f # g
        <3>1. folders'[f] = folders[f] /\ FolderExists(f)
            BY <1>1, <1>4, <2>3 DEF FolderExists
        <3>2. PICK n \in MailFolder : n = folders[f]
            BY <1>a, <3>1, FolderCases
        <3>3. n = [kind |-> "folder", parent |-> n.parent, name |-> n.name]
            BY FolderIs
        <3>4. n # m
            BY <3>2, <3>3 DEF Named
        <3>5. Open(n.parent) /\ Named(n.parent, n.name) = {f}
            BY <1>a, <3>1, <3>2 DEF Tidy
        <3>6. \A h \in FolderIds : folders[h] = n => h = f
            BY <3>3, <3>5 DEF Named
        <3>7. \A h \in FolderIds : folders'[h] = n <=> h = f
            BY <1>1, <3>1, <3>2, <3>4, <3>6
        <3>8. Named(n.parent, n.name)' = {f}
            BY <3>3, <3>7 DEF Named
        <3> QED BY <1>3, <3>1, <3>2, <3>5, <3>8
    <2> QED BY <2>2, <2>3
<1>5. Tidy'
    <2> SUFFICES ASSUME NEW f \in FolderIds, FolderExists(f)'
                 PROVE  (Open(folders[f].parent) /\ Named(folders[f].parent, folders[f].name) = {f})'
        BY DEF Tidy
    <2>1. PICK place, name : /\ place = folders'[f].parent /\ name = folders'[f].name
                             /\ Open(place)' /\ Named(place, name)' = {f}
        BY <1>4
    <2> QED BY <2>1 DEF Open, FolderExists, Named
<1> QED BY <1>2, <1>5

\* A step of another one that changes the folders of S
LEMMA OthersStay ==
    ASSUME ItemsInv, Types', NEW S,
           \A g \in FolderIds : g \notin S => folders'[g] = folders[g],
           \A g \in FolderIds : folders[g] # Unmade => folders'[g] # Unmade,
           NEW v \in Workers,
           req'[v] = req[v] \/ req'[v] = [req[v] EXCEPT !.touched = TRUE],
           req[v].op = "folder" /\ {req[v].folder, req[v].new} \cap S # {} => req'[v].touched
    PROVE  req[v].op = "folder" => Untouched(v)' /\ AnswersRight(v)'
<1>a. Types /\ Untouched(v) /\ AnswersRight(v)
    BY FoldersRight
<1> SUFFICES ASSUME req[v].op = "folder"
             PROVE  Untouched(v)' /\ AnswersRight(v)'
    OBVIOUS
<1>1. req[v] \in FolderRequest
    BY <1>a, RequestCases
<1>2. /\ req'[v].op = "folder" /\ req'[v].folder = req[v].folder /\ req'[v].new = req[v].new
      /\ req'[v].to = req[v].to /\ req'[v].name = req[v].name /\ req'[v].pc = req[v].pc
      /\ req'[v].found = req[v].found
      /\ req[v].touched => req'[v].touched
      /\ req[v].folder \in FolderIds /\ req[v].new \in FolderIds
    BY <1>1 DEF FolderRequest
<1>3. folders'[req[v].folder] # Unmade /\ folders'[req[v].new] # Unmade
    BY <1>a, <1>2 DEF Untouched
<1>4. ASSUME ~req'[v].touched
      PROVE  /\ folders'[req[v].new] = folders[req[v].new]
             /\ folders'[req[v].folder] = folders[req[v].folder] /\ ~req[v].touched
    BY <1>2, <1>4
<1>5. Untouched(v)'
    BY <1>a, <1>2, <1>3, <1>4 DEF Untouched, FolderExists
<1>6. AnswersRight(v)'
    BY <1>a, <1>2 DEF AnswersRight, At
<1> QED BY <1>5, <1>6

\* What is left alone by a step that removes no folder is where it was.
LEMMA FoldersTidy ==
    ASSUME ItemsInv, StepOk, \A f \in FolderIds : FolderExists(f) => FolderExists(f)',
           items' = items
    PROVE  PostedById' /\ Housed'
<1>a. Types /\ Housed
    BY InvParts
<1>1. \A e \in Ids : items[e] = Unmade => items'[e].kind = "unmade"
    BY Kinds
<1>2. Placed
    BY <1>1 DEF Placed, Exists, IsEvent, IsMessage, IsContact
<1>3. Housed'
    BY <1>a DEF Housed, Open, Exists, IsEvent, IsMessage, IsContact
<1> QED BY <1>2, <1>3, PostedStay

LEMMA FoldersFinish ==
    ASSUME PostedById', Housed', Tidy',
           \A v \in Workers : req'[v].op = "folder" => Untouched(v)' /\ AnswersRight(v)'
    PROVE  FoldersKept
<1>1. \A v \in Workers : Untouched(v)' /\ AnswersRight(v)'
    BY DEF Untouched, AnswersRight
<1> QED BY <1>1 DEF FoldersKept, UntouchedStay, AnswerNamesTheFolder, AnswersRight

\* Requests that a step on the folders of S may touch
LEMMA TouchedStay ==
    ASSUME ItemsInv, Types', NEW S,
           \A g \in FolderIds : g \notin S => folders'[g] = folders[g],
           \A g \in FolderIds : folders[g] # Unmade => folders'[g] # Unmade,
           NEW v \in Workers, req'[v] = Touched(S)[v]
    PROVE  req'[v].op = "folder" => Untouched(v)' /\ AnswersRight(v)'
<1>1. /\ \/ req'[v] = req[v]
         \/ req[v] \in FolderRequest /\ req'[v] = [req[v] EXCEPT !.touched = TRUE]
      /\ req[v].op = "folder" /\ {req[v].folder, req[v].new} \cap S # {} => req'[v].touched
    BY InvParts, TouchedRequests
<1>2. req'[v].op = req[v].op
    BY <1>1 DEF FolderRequest
<1> QED BY <1>1, <1>2, OthersStay

\* Requests that a step leaves alone which makes a folder or changes none
LEMMA UntouchedGoOn ==
    ASSUME ItemsInv, Types', NEW v \in Workers, req'[v] = req[v],
           \A g \in FolderIds : folders[g] # Unmade => folders'[g] = folders[g]
    PROVE  req'[v].op = "folder" => Untouched(v)' /\ AnswersRight(v)'
<1> DEFINE S == {g \in FolderIds : folders[g] = Unmade}
<1>1. req[v].op = "folder" => {req[v].folder, req[v].new} \cap S = {}
    BY FoldersRight DEF Untouched
<1>2. /\ \A g \in FolderIds : g \notin S => folders'[g] = folders[g]
      /\ \A g \in FolderIds : folders[g] # Unmade => folders'[g] # Unmade
    OBVIOUS
<1> HIDE DEF S
<1> QED BY <1>1, <1>2, OthersStay

LEMMA DeleteFolderKeeps ==
    ASSUME ItemsInv, StepOk, NEW w \in Workers, NEW f \in FolderIds, DeleteFolder(w, f)
    PROVE  FoldersKept
<1>a. Types /\ Housed /\ Tidy
    BY InvParts
<1>1. /\ \A g \in FolderIds : folders'[g] = IF g \in Tree(f) THEN Gone ELSE folders[g]
      /\ \A e \in Ids : items'[e] = IF Exists(e) /\ items[e].folder \in Tree(f) THEN Gone
                                    ELSE items[e]
      /\ req' = Touched(Tree(f))
    BY DEF DeleteFolder
<1>2. \A e \in Ids : Exists(e)' =>
          Exists(e) /\ items'[e] = items[e] /\ items[e].folder \notin Tree(f)
    BY <1>1, Kinds DEF Exists, IsEvent, IsMessage, IsContact
<1>3. \A g \in FolderIds : FolderExists(g)' =>
          FolderExists(g) /\ folders'[g] = folders[g] /\ g \notin Tree(f)
    BY <1>1, Kinds DEF FolderExists
<1>4. \A g \in FolderIds : g \notin Tree(f) => (FolderExists(g)' <=> FolderExists(g))
    BY <1>1 DEF FolderExists
<1>5. Placed
    <2>1. \A e \in Ids : items[e] = Unmade => items'[e].kind = "unmade"
        BY <1>1, Kinds DEF Exists, IsEvent, IsMessage, IsContact
    <2> QED BY <1>2, <2>1 DEF Placed, IsEvent
<1>6. Housed'
    <2> SUFFICES ASSUME NEW e \in Ids, Exists(e)', items'[e].folder \in FolderIds
                 PROVE  folders'[items'[e].folder].kind = "folder"
        BY DEF Housed, Open, FolderExists
    <2>1. PICK g \in FolderIds : g = items'[e].folder
        OBVIOUS
    <2>2. FolderExists(g) /\ g \notin Tree(f)
        BY <1>2, <1>a, <2>1 DEF Housed, Open
    <2>3. FolderExists(g)'
        BY <1>4, <2>2
    <2> QED BY <2>1, <2>3 DEF FolderExists
<1>7. Tidy'
    <2> SUFFICES ASSUME NEW g \in FolderIds, FolderExists(g)'
                 PROVE  (Open(folders[g].parent) /\ Named(folders[g].parent, folders[g].name) = {g})'
        BY DEF Tidy
    <2>1. FolderExists(g) /\ folders'[g] = folders[g] /\ g \notin Tree(f)
        BY <1>3
    <2>2. PICK n \in MailFolder : n = folders[g]
        BY <1>a, <2>1, FolderCases
    <2>3. n = [kind |-> "folder", parent |-> n.parent, name |-> n.name] /\ n # Gone
        BY FolderIs, FolderType
    <2>4. Open(n.parent) /\ Named(n.parent, n.name) = {g}
        BY <1>a, <2>1, <2>2 DEF Tidy
    <2>5. n.parent \notin Tree(f)
        BY <2>1, <2>2, TreeIsClosed DEF Children
    <2>6. Open(n.parent)'
        BY <1>4, <2>4, <2>5 DEF Open
    <2>7. \A h \in FolderIds : folders[h] = n <=> h = g
        BY <2>2, <2>3, <2>4 DEF Named
    <2>8. \A h \in FolderIds : folders'[h] = n <=> h = g
        BY <1>1, <2>1, <2>2, <2>3, <2>7
    <2>9. Named(n.parent, n.name)' = {g}
        BY <2>3, <2>8 DEF Named
    <2> QED BY <2>1, <2>2, <2>6, <2>9 DEF Open, FolderExists, Named
<1>8. \A g \in FolderIds : folders[g] # Unmade => folders'[g] # Unmade
    BY <1>1, Kinds
<1>9. ASSUME NEW v \in Workers
      PROVE  req'[v].op = "folder" => Untouched(v)' /\ AnswersRight(v)'
    <2>1. req'[v] = Touched(Tree(f))[v]
        BY <1>1
    <2>2. \A g \in FolderIds : g \notin Tree(f) => folders'[g] = folders[g]
        BY <1>1
    <2> QED BY <1>8, <2>1, <2>2, TouchedStay DEF StepOk
<1> QED BY <1>5, <1>6, <1>7, <1>9, PostedStay, FoldersFinish

LEMMA FoldersKeepFolders ==
    ASSUME ItemsInv, NEW w \in Workers, FoldersNext(w)
    PROVE  FoldersKept
<1>a. Types /\ Tidy /\ \A v \in Workers : Untouched(v) /\ AnswersRight(v)
    BY FoldersRight
<1>b. StepOk /\ Types'
    BY FoldersStep DEF StepOk
<1>1. ASSUME NEW g \in FolderIds, NEW m \in MailFolder, folders' = [folders EXCEPT ![g] = m],
             Open(m.parent), Named(m.parent, m.name) = {}, items' = items
      PROVE  /\ PostedById' /\ Housed' /\ Tidy'
             /\ \A h \in FolderIds : h \notin {g} => folders'[h] = folders[h]
             /\ \A h \in FolderIds : folders[h] # Unmade => folders'[h] # Unmade
             /\ folders'[g] = m
    <2>1. Tidy' /\ \A f \in FolderIds : FolderExists(f) => FolderExists(f)'
        BY <1>1, FolderPut
    <2>2. \A h \in FolderIds : folders'[h] = IF h = g THEN m ELSE folders[h]
        BY <1>1, <1>a DEF Types
    <2>3. m # Unmade
        BY FolderType
    <2> QED BY <1>1, <1>b, <2>1, <2>2, <2>3, FoldersTidy
<1>2. ASSUME NEW new \in FolderIds, NEW place \in Containers, NEW name \in Names,
             CreateFolder(w, new, place, name)
      PROVE  FoldersKept
    <2> DEFINE m == [kind |-> "folder", parent |-> place, name |-> name]
    <2>1. /\ folders[new] = Unmade /\ Open(place) /\ Named(place, name) = {}
          /\ folders' = [folders EXCEPT ![new] = m] /\ UNCHANGED <<items, req>>
        BY <1>2 DEF CreateFolder
    <2>2. m \in MailFolder /\ m.parent = place /\ m.name = name
        BY FolderType
    <2> HIDE DEF m
    <2>3. /\ PostedById' /\ Housed' /\ Tidy'
          /\ \A h \in FolderIds : h \notin {new} => folders'[h] = folders[h]
          /\ \A h \in FolderIds : folders[h] # Unmade => folders'[h] # Unmade
        BY <1>1, <2>1, <2>2
    <2>4. ASSUME NEW v \in Workers
          PROVE  req'[v].op = "folder" => Untouched(v)' /\ AnswersRight(v)'
        <3>1. \A g \in FolderIds : folders[g] # Unmade => folders'[g] = folders[g]
            BY <2>1, <2>3
        <3> QED BY <1>b, <2>1, <3>1, UntouchedGoOn
    <2> QED BY <2>3, <2>4, FoldersFinish
<1>3. ASSUME NEW f \in FolderIds, NEW name \in Names, RenameFolder(w, f, name)
      PROVE  FoldersKept
    <2> DEFINE m == [folders[f] EXCEPT !.name = name]
    <2>1. /\ FolderExists(f) /\ Named(folders[f].parent, name) = {}
          /\ folders' = [folders EXCEPT ![f] = m] /\ req' = Touched({f}) /\ items' = items
        BY <1>3 DEF RenameFolder
    <2>2. folders[f] \in MailFolder
        BY <1>a, <2>1, FolderCases
    <2>3. m \in MailFolder /\ m.parent = folders[f].parent /\ m.name = name
        BY <2>2 DEF MailFolder
    <2> HIDE DEF m
    <2>4. Open(m.parent)
        BY <1>a, <2>1, <2>3 DEF Tidy
    <2>5. /\ PostedById' /\ Housed' /\ Tidy'
          /\ \A h \in FolderIds : h \notin {f} => folders'[h] = folders[h]
          /\ \A h \in FolderIds : folders[h] # Unmade => folders'[h] # Unmade
        BY <1>1, <2>1, <2>3, <2>4
    <2>6. ASSUME NEW v \in Workers
          PROVE  req'[v].op = "folder" => Untouched(v)' /\ AnswersRight(v)'
        <3>1. req'[v] = Touched({f})[v]
            BY <2>1
        <3> QED BY <1>b, <2>5, <3>1, TouchedStay
    <2> QED BY <2>5, <2>6, FoldersFinish
<1>4. ASSUME NEW f \in FolderIds, DeleteFolder(w, f)
      PROVE  FoldersKept
    BY <1>4, <1>b, DeleteFolderKeeps
<1>5. ASSUME NEW f \in FolderIds, NEW place \in Containers, NEW new \in FolderIds,
             req'[w] = FolderAt(f, place, new), FolderExists(f), FolderExists(f)',
             folders'[f].name = folders[f].name, folders[f] \in MailFolder,
             folders'[new] = [folders[f] EXCEPT !.parent = place]
      PROVE  Untouched(w)' /\ AnswersRight(w)'
    <2>1. /\ req'[w].op = "folder" /\ req'[w].pc = "lookup" /\ req'[w].folder = f
          /\ req'[w].new = new /\ req'[w].to = place /\ req'[w].name = folders[f].name
        BY <1>5 DEF FolderAt
    <2>2. folders'[new] \in MailFolder /\ folders'[new].parent = place
          /\ folders'[new].name = folders[f].name
        BY <1>5 DEF MailFolder
    <2>3. folders'[new] = [kind |-> "folder", parent |-> place, name |-> folders[f].name]
        BY <2>2, FolderIs
    <2>4. folders'[new] # Unmade /\ folders'[f] # Unmade
        BY <1>5, <2>2, FolderType DEF FolderExists
    <2> QED BY <1>5, <2>1, <2>3, <2>4 DEF Untouched, AnswersRight, At, FolderExists
<1>6. ASSUME NEW f \in FolderIds, NEW place \in Containers, MoveFolder(w, f, place)
      PROVE  FoldersKept
    <2> DEFINE m == [folders[f] EXCEPT !.parent = place]
    <2>1. /\ FolderExists(f) /\ Open(place) /\ Named(place, folders[f].name) = {}
          /\ folders' = [folders EXCEPT ![f] = m] /\ items' = items
          /\ req' = [Touched({f}) EXCEPT ![w] = FolderAt(f, place, f)]
        BY <1>6 DEF MoveFolder
    <2>2. folders[f] \in MailFolder
        BY <1>a, <2>1, FolderCases
    <2>3. m \in MailFolder /\ m.parent = place /\ m.name = folders[f].name
        BY <2>2 DEF MailFolder
    <2>4. /\ PostedById' /\ Housed' /\ Tidy'
          /\ \A h \in FolderIds : h \notin {f} => folders'[h] = folders[h]
          /\ \A h \in FolderIds : folders[h] # Unmade => folders'[h] # Unmade
          /\ folders'[f] = m
        <3> HIDE DEF m
        <3> QED BY <1>1, <2>1, <2>3
    <2>5. \A v \in Workers : v # w => req'[v] = Touched({f})[v]
        BY <1>a, <2>1, TouchedRequests
    <2>6. req'[w] = FolderAt(f, place, f)
        BY <1>a, <2>1, TouchedRequests
    <2>7. Untouched(w)' /\ AnswersRight(w)'
        <3>1. FolderExists(f)'
            BY <2>3, <2>4, FolderType DEF FolderExists
        <3> QED BY <1>5, <2>1, <2>2, <2>3, <2>4, <2>6, <3>1
    <2>8. ASSUME NEW v \in Workers, v # w
          PROVE  req'[v].op = "folder" => Untouched(v)' /\ AnswersRight(v)'
        <3>1. req'[v] = Touched({f})[v]
            BY <2>5, <2>8
        <3> QED BY <1>b, <2>4, <3>1, TouchedStay
    <2> QED BY <2>4, <2>7, <2>8, FoldersFinish
<1>7. ASSUME NEW f \in FolderIds, NEW new \in FolderIds, NEW place \in Containers,
             CopyFolder(w, f, place, new)
      PROVE  FoldersKept
    <2> DEFINE m == [folders[f] EXCEPT !.parent = place]
    <2>1. /\ FolderExists(f) /\ Open(place) /\ Named(place, folders[f].name) = {}
          /\ folders[new] = Unmade
          /\ folders' = [folders EXCEPT ![new] = m] /\ items' = items
          /\ req' = [req EXCEPT ![w] = FolderAt(f, place, new)]
        BY <1>7 DEF CopyFolder
    <2>2. folders[f] \in MailFolder /\ f # new
        BY <1>a, <2>1, FolderCases
    <2>3. m \in MailFolder /\ m.parent = place /\ m.name = folders[f].name
        BY <2>2 DEF MailFolder
    <2>4. /\ PostedById' /\ Housed' /\ Tidy'
          /\ \A h \in FolderIds : h \notin {new} => folders'[h] = folders[h]
          /\ \A h \in FolderIds : folders[h] # Unmade => folders'[h] # Unmade
          /\ folders'[new] = m
        <3> HIDE DEF m
        <3> QED BY <1>1, <2>1, <2>3
    <2>5. req'[w] = FolderAt(f, place, new) /\ \A v \in Workers : v # w => req'[v] = req[v]
        BY <1>a, <2>1 DEF Types
    <2>6. Untouched(w)' /\ AnswersRight(w)'
        <3>1. folders'[f] = folders[f]
            BY <2>2, <2>4
        <3>2. FolderExists(f)'
            BY <2>1, <3>1 DEF FolderExists
        <3> QED BY <1>5, <2>1, <2>2, <2>4, <2>5, <3>1, <3>2
    <2>7. ASSUME NEW v \in Workers, v # w
          PROVE  req'[v].op = "folder" => Untouched(v)' /\ AnswersRight(v)'
        <3>1. req'[v] = req[v]
            BY <2>5, <2>7
        <3>2. \A g \in FolderIds : folders[g] # Unmade => folders'[g] = folders[g]
            BY <2>1, <2>4
        <3> QED BY <1>b, <3>1, <3>2, UntouchedGoOn
    <2> QED BY <2>4, <2>6, <2>7, FoldersFinish
<1>8. ASSUME UNCHANGED <<items, folders>>, NEW r, req' = [req EXCEPT ![w] = r],
             r.op = "folder" => Untouched(w)' /\ AnswersRight(w)'
      PROVE  FoldersKept
    <2>1. \A f \in FolderIds : FolderExists(f) => FolderExists(f)'
        BY <1>8 DEF FolderExists
    <2>2. PostedById' /\ Housed'
        BY <1>8, <1>b, <2>1, FoldersTidy
    <2>3. Tidy'
        BY <1>8, <1>a DEF Tidy, Open, FolderExists, Named
    <2>4. req'[w] = r /\ \A v \in Workers : v # w => req'[v] = req[v]
        BY <1>8, <1>a DEF Types
    <2>5. ASSUME NEW v \in Workers, v # w
          PROVE  req'[v].op = "folder" => Untouched(v)' /\ AnswersRight(v)'
        <3>1. req'[v] = req[v] /\ folders' = folders
            BY <1>8, <2>4, <2>5
        <3> QED BY <1>b, <3>1, UntouchedGoOn
    <2> QED BY <1>8, <2>2, <2>3, <2>4, <2>5, FoldersFinish
<1>9. CASE LookupFolder(w)
    <2>1. /\ req[w].pc = "lookup" /\ UNCHANGED <<items, folders>>
          /\ \E name \in {req[w].name}
                          \cup {folders[f].name : f \in {f \in {req[w].folder} : FolderExists(f)}} :
                \E f \in Named(req[w].to, name) :
                   req' = [req EXCEPT ![w] = [req[w] EXCEPT !.pc = "respond", !.found = f]]
        BY <1>9 DEF LookupFolder, LookupIn, At
    <2>a. PICK name \in {req[w].name}
                          \cup {folders[f].name : f \in {f \in {req[w].folder} : FolderExists(f)}} :
              \E f \in Named(req[w].to, name) :
                 req' = [req EXCEPT ![w] = [req[w] EXCEPT !.pc = "respond", !.found = f]]
        BY <2>1
    <2>b. PICK f \in Named(req[w].to, name) :
              req' = [req EXCEPT ![w] = [req[w] EXCEPT !.pc = "respond", !.found = f]]
        BY <2>a
    <2>2. /\ name = req[w].name \/ name = folders[req[w].folder].name
          /\ f \in Named(req[w].to, name)
          /\ req' = [req EXCEPT ![w] = [req[w] EXCEPT !.pc = "respond", !.found = f]]
        BY <2>b
    <2>3. req[w] \in FolderRequest /\ req[w].op = "folder"
        <3>1. req[w] \notin EventRequest /\ req[w] \notin MailRequest /\ req[w].pc # "idle"
            BY <2>1 DEF EventRequest, EventStages, MailRequest, MailStages
        <3> QED BY <1>a, <3>1, RequestCases
    <2> DEFINE r == [req[w] EXCEPT !.pc = "respond", !.found = f]
    <2>4. /\ r.op = "folder" /\ r.folder = req[w].folder /\ r.new = req[w].new
          /\ r.to = req[w].to /\ r.name = req[w].name /\ r.touched = req[w].touched
          /\ r.found = f /\ r.pc = "respond"
        BY <2>3 DEF FolderRequest
    <2> HIDE DEF r
    <2>5. req'[w] = r
        BY <1>a, <2>2 DEF Types, r
    <2>6. ~req[w].touched => f = req[w].new
        <3> SUFFICES ASSUME ~req[w].touched
                     PROVE  f = req[w].new
            OBVIOUS
        <3>1. /\ folders[req[w].new] = [kind |-> "folder", parent |-> req[w].to,
                                        name |-> req[w].name]
              /\ folders[req[w].folder].name = req[w].name
            BY <1>a, <2>3 DEF Untouched
        <3>2. f \in Named(req[w].to, req[w].name)
            BY <2>2, <3>1
        <3>3. /\ FolderExists(req[w].new) /\ folders[req[w].new].parent = req[w].to
              /\ folders[req[w].new].name = req[w].name
            BY <3>1 DEF FolderExists
        <3>4. req[w].new \in FolderIds
            BY <2>3 DEF FolderRequest
        <3>5. Named(req[w].to, req[w].name) = {req[w].new}
            BY <1>a, <3>3, <3>4 DEF Tidy
        <3> QED BY <3>2, <3>5
    <2>7. Untouched(w)' /\ AnswersRight(w)'
        <3>1. folders' = folders /\ Untouched(w)
            BY <1>a, <2>1
        <3>2. Untouched(w)'
            BY <2>3, <2>4, <2>5, <3>1 DEF Untouched, FolderExists
        <3>3. AnswersRight(w)'
            BY <2>4, <2>5, <2>6 DEF AnswersRight
        <3> QED BY <3>2, <3>3
    <2>8. req' = [req EXCEPT ![w] = r]
        BY <2>2 DEF r
    <2> QED BY <1>8, <2>1, <2>7, <2>8
<1>10. CASE Respond(w)
    <2>1. Answer(w, "sent") /\ UNCHANGED <<items, folders>>
        BY <1>10 DEF Respond
    <2> QED BY <1>b, <2>1, AnswerKeepsFolders, NothingChanges
<1> QED BY <1>2, <1>3, <1>4, <1>6, <1>7, <1>9, <1>10 DEF FoldersNext

LEMMA NextKeepsFolders ==
    ASSUME ItemsInv, Next
    PROVE  FoldersKept
<1>1. ASSUME NEW w \in Workers, Fail(w)
      PROVE  FoldersKept
    <2>1. Answer(w, "unsent") /\ UNCHANGED <<items, folders>>
        BY <1>1 DEF Fail
    <2> QED BY <1>1, <2>1, FailStep, AnswerKeepsFolders, NothingChanges
<1> QED BY <1>1, EventsKeepFolders, MailKeepsFolders, FoldersKeepFolders, SetFieldsKeepsFolders
        DEF Next

-----------------------------------------------------------------------------
(* The invariant                                                           *)

LEMMA ItemsInit ==
    ASSUME Init
    PROVE  ItemsInv
<1>1. /\ budget \in Budgets /\ items = [e \in Ids |-> Unmade]
      /\ heard = [e \in Ids |-> "nothing"] /\ folders = [f \in FolderIds |-> Unmade]
      /\ calendar = "Calendar" /\ req = [w \in Workers |-> Idle] /\ deletes = 0
      /\ client = "unsent" /\ mails = {} /\ asked = {} /\ early = {}
    BY DEF Init
<1>2. /\ budget \in BudgetType
      /\ budget.event + budget.message + budget.contact <= MaxItems
      /\ MaxItems \in Nat /\ MaxDeletes \in Nat
    BY <1>1, ItemsAssumption DEF BudgetType
<1>3. Types
    BY <1>1, <1>2 DEF Types, BudgetType, Calendars, Letters
<1>4. /\ \A e \in Ids : items[e].kind = "unmade" /\ heard[e] = "nothing"
      /\ \A f \in FolderIds : folders[f].kind = "unmade"
      /\ \A w \in Workers : req[w].op = "none" /\ req[w].pc = "idle"
    BY <1>1, Kinds
<1>5. IdsSuffice
    <2>1. Unused = 1 .. MaxItems
        BY <1>1 DEF Unused, Ids
    <2>2. 0 \in Int /\ 1 \in Int /\ Cardinality(1 .. MaxItems) = MaxItems
        BY <1>2, FS_Interval
    <2> QED BY <1>2, <2>1, <2>2 DEF IdsSuffice
<1>6. PostedById /\ Housed /\ Tidy
    BY <1>4 DEF PostedById, Housed, Tidy, Exists, IsEvent, IsMessage, IsContact, FolderExists
<1>7. UnusedAreUnknown /\ MailsAreMessages /\ InvitedAreMeetings /\ WhatIsSentIsTrue
    BY <1>1, <1>4 DEF UnusedAreUnknown, Unused, MailsAreMessages, InvitedAreMeetings,
       WhatIsSentIsTrue
<1>8. OneSendMail /\ SentWhenTold /\ DeletesAreLate /\ UntouchedStay /\ AnswerNamesTheFolder
    BY <1>1, <1>4 DEF OneSendMail, SentWhenTold, SentMails, DeletesAreLate, UntouchedStay,
       Untouched, AnswerNamesTheFolder
<1>9. \A w \in Workers : Right(w)
    BY <1>4 DEF Right, Fits, OfEvent, OfMail, EventOps, MailOps, Progresses, Knows, Notifies,
       HasCanceled, At
<1> QED BY <1>3, <1>5, <1>6, <1>7, <1>8, <1>9, RequestsRight

LEMMA ItemsNext ==
    ASSUME ItemsInv, Next
    PROVE  ItemsInv'
<1>1. PICK w \in Workers : Proper(w)
    BY StepsAreProper
<1>2. /\ UnusedAreUnknown' /\ MailsAreMessages' /\ InvitedAreMeetings' /\ WhatIsSentIsTrue'
      /\ OneSendMail' /\ SentWhenTold' /\ DeletesAreLate'
      /\ \A v \in Workers : Right(v)'
    BY <1>1, ProperKeeps
<1>3. Types' /\ IdsSuffice'
    BY <1>1 DEF Proper, StepOk
<1>4. PostedById' /\ Housed' /\ Tidy' /\ UntouchedStay' /\ AnswerNamesTheFolder'
    BY NextKeepsFolders DEF FoldersKept
<1>5. PostsProgress' /\ SendersKnow' /\ RequestsFit' /\ NotifiersCanceled' /\ Canceled'
    BY <1>2 DEF Right, PostsProgress, SendersKnow, RequestsFit, NotifiersCanceled, Canceled
<1>6. TypeOK'
    BY <1>3, <1>4, <1>5 DEF TypeOK, Types, PostedById, Housed, Tidy, NotifiersCanceled, Notifies
<1> QED BY <1>2, <1>3, <1>4, <1>5, <1>6 DEF ItemsInv

LEMMA ItemsStutter ==
    ASSUME ItemsInv, UNCHANGED vars
    PROVE  ItemsInv'
<1>a. UNCHANGED <<budget, items, heard, folders, calendar, req, deletes, client, mails, asked, early>>
    BY DEF vars, history
<1>1. TypeOK'
    BY <1>a DEF ItemsInv, TypeOK, IsEvent, IsMessage, IsContact, Exists, Open, FolderExists,
       Named, At
<1>2. IdsSuffice' /\ UnusedAreUnknown' /\ MailsAreMessages'
    BY <1>a DEF ItemsInv, IdsSuffice, UnusedAreUnknown, Unused, MailsAreMessages
<1>3. RequestsFit' /\ PostsProgress' /\ SendersKnow' /\ Canceled'
    BY <1>a DEF ItemsInv, RequestsFit, Fits, OfEvent, OfMail, PostsProgress, Progresses,
       SendersKnow, Knows, Canceled, HasCanceled, At, Exists, IsEvent, IsMessage, IsContact
<1>4. /\ InvitedAreMeetings' /\ OneSendMail' /\ SentWhenTold' /\ DeletesAreLate'
      /\ WhatIsSentIsTrue'
    BY <1>a DEF ItemsInv, InvitedAreMeetings, OneSendMail, SentWhenTold, SentMails,
       DeletesAreLate, WhatIsSentIsTrue, IsEvent
<1>5. UntouchedStay' /\ AnswerNamesTheFolder'
    BY <1>a DEF ItemsInv, UntouchedStay, Untouched, FolderExists, AnswerNamesTheFolder, At
<1> QED BY <1>1, <1>2, <1>3, <1>4, <1>5 DEF ItemsInv

\* All of it holds in every reachable state.
THEOREM InvariantHolds == Spec => []ItemsInv
<1>1. Init => ItemsInv
    BY ItemsInit
<1>2. ItemsInv /\ [Next]_vars => ItemsInv'
    BY ItemsNext, ItemsStutter
<1> QED BY <1>1, <1>2, PTL DEF Spec

-----------------------------------------------------------------------------
(* The properties that TLC checks                                          *)

\* The variables have their types; an event is in the calendar it was posted to
\* by id, what exists is in a folder that exists, and the names in a folder
\* differ.
THEOREM TypeCorrect == Spec => []TypeOK
<1>1. ItemsInv => TypeOK
    BY DEF ItemsInv
<1> QED BY <1>1, InvariantHolds, PTL

\* Who was invited was invited to an event with all its fields set, who was told
\* of a cancellation sees it, and half a message went only to whom somebody sent
\* it by its id (_create_event, _delete_event, on_post_send).
THEOREM SentIsTrue == Spec => []WhatIsSentIsTrue
<1>1. ItemsInv => WhatIsSentIsTrue
    BY DEF ItemsInv
<1> QED BY <1>1, InvariantHolds, PTL

\* Of the messages that a client made with sendMail and repeats of it, one was
\* sent at most (on_post_send_mail).
THEOREM SentOnlyOnce == Spec => []SentOnce
<1>1. ASSUME SentWhenTold
      PROVE  SentOnce
    <2>1. {e \in mails \ asked : heard[e] # "nothing"} = SentMails
        BY DEF SentMails
    <2>2. CASE SentMails = {}
        <3>1. Cardinality(SentMails) = 0
            BY <2>2, FS_EmptySet
        <3> QED BY <2>1, <3>1 DEF SentOnce
    <2>3. CASE SentMails # {}
        <3>1. PICK e : e \in SentMails
            BY <2>3
        <3>2. SentMails = {e}
            BY <1>1, <3>1 DEF SentWhenTold
        <3>3. Cardinality(SentMails) = 1
            BY <3>2, FS_Singleton
        <3> QED BY <2>1, <3>3 DEF SentOnce
    <2> QED BY <2>2, <2>3
<1>2. ItemsInv => SentOnce
    BY <1>1 DEF ItemsInv
<1> QED BY <1>2, InvariantHolds, PTL

\* The answer to a copy or move describes the folder that was copied or moved,
\* unless another request touched it (_folder_copy_or_move).
THEOREM AnswersNameTheFolder == Spec => []AnswerNamesTheFolder
<1>1. ItemsInv => AnswerNamesTheFolder
    BY DEF ItemsInv
<1> QED BY <1>1, InvariantHolds, PTL

\* The owner's DELETE of an event leaves no attendee with an invitation, but for
\* events found while being posted or made on behalf (_delete_event).
THEOREM CanceledFirst == Spec => OrganizerCancelsFirst
<1> DEFINE A == \A w \in Workers :
        At(w, "delete") /\ req[w].user = "owner" /\ Exists(req[w].item) /\ items'[req[w].item] = Gone =>
            LET e == req[w].item
            IN heard[e] # "invitation" \/ e \in early \/ items[e].behalf
<1>1. ItemsInv => A
    BY DEF ItemsInv, Canceled, HasCanceled
<1>2. ItemsInv /\ [Next]_vars => [A]_vars
    BY <1>1
<1> QED BY <1>2, InvariantHolds, PTL DEF Spec, OrganizerCancelsFirst

=============================================================================
