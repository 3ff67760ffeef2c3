------------------------------- MODULE Paging -------------------------------
(***************************************************************************)
(* The lists of the API. A handler hands respond() what it found with      *)
(* $top and $skip, json_multi streams it behind the link to the next page  *)
(* (grapi/backend/kopano/resource.py); the LDAP backend builds its pages   *)
(* itself (grapi/backend/ldap/user.py). A client follows the links, and    *)
(* stops where there is none or a page is empty. Between two pages others  *)
(* change what is listed.                                                  *)
(*                                                                         *)
(* The table is in the order the server keeps or was asked for. A page is  *)
(* one step: what happens to its rows while it is streamed is in how many  *)
(* of them arrive.                                                         *)
(***************************************************************************)
EXTENDS Naturals, Sequences, FiniteSets, SequencesExt

CONSTANTS
    Items,          \* what can be listed
    Matching,       \* those that a $search finds
    Nameless,       \* users in LDAP without the login attribute
    Tops,           \* page sizes the client may ask for
    DEFAULT_TOP,    \* and the one it gets when it does not ask
    PAGESIZE,       \* most entries of one answer of the LDAP server
    MaxChanges,     \* bound: changes of the table
    MaxPages        \* bound: pages after which a client gives up

ASSUME PagingAssumption ==
    /\ IsFiniteSet(Items)
    /\ Matching \subseteq Items
    /\ Nameless \subseteq Items
    /\ DEFAULT_TOP \in Tops
    /\ Tops \subseteq Nat \ {0}
    /\ PAGESIZE \in Nat \ {0}
    /\ MaxChanges \in Nat
    /\ MaxPages \in Nat
    /\ MaxPages > Cardinality(Items)

VARIABLES
    table,      \* what there is to list, in its order
    changes,    \* how often it changed
    pc,         \* where the client is
    query,      \* what it asks for, with the $skip of the link it follows
    got,        \* the rows it has
    pages,      \* how many pages that took
    first,      \* history: the query it started with
    stayed,     \* history: rows that have been in the table ever since
    disturbed,  \* history: "grown" or "shrunk" when the table changed since
    cut         \* history: a page came without some of its rows

client == <<pc, query, got, pages, cut>>
history == <<first, stayed, disturbed>>
vars == <<table, changes, client, history>>

FolderItems == {"messages", "contacts", "contactsOfFolder"}
Tables == {"events", "eventsOfCalendar", "instances", "calendarView", "calendars",
           "contactFolders", "mailFolders", "childFolders", "users"}
Searched == {"mailFolders", "childFolders", "users"}
Wholes == {"groups", "members", "memberOf", "attachments"}
Listings == FolderItems \cup Tables \cup Wholes \cup {"ldapUsers"}

\* An option is given twice, or is no number, when it is "malformed".
Options == {"none", "$search", "$orderby", "malformed"}

Queries == [listing : Listings, option : Options, top : Tops, skip : Nat]

\* The first queries worth telling apart: an option that the handler does not
\* look at is left out.
FirstQueries ==
    {q \in [listing : Listings, option : Options, top : Tops, skip : {0}] :
        /\ q.option = "$search" => q.listing \in FolderItems \cup Searched \cup {"ldapUsers"}
        /\ q.option = "$orderby" => q.listing \in FolderItems
        /\ q.listing \in Wholes => q.top = DEFAULT_TOP}

Init ==
    /\ \E S \in SUBSET Items : table \in SetToSeqs(S)
    /\ changes = 0
    /\ pc = "idle"
    /\ query \in FirstQueries
    /\ got = <<>>
    /\ pages = 0
    /\ first = query
    /\ stayed = {}
    /\ disturbed = "no"
    /\ cut = FALSE

\* The client asks for the first page.
Open ==
    /\ pc = "idle"
    /\ pc' = "asked"
    /\ stayed' = Range(table)
    /\ disturbed' = "no"
    /\ UNCHANGED <<table, changes, query, got, pages, first, cut>>

-----------------------------------------------------------------------------
(* What is listed changes.                                                 *)

MayChange ==
    /\ pc = "asked"
    /\ changes < MaxChanges
    /\ changes' = changes + 1

Arrive(i, n) ==
    /\ MayChange
    /\ i \notin Range(table)
    /\ table' = InsertAt(table, n, i)
    /\ disturbed' = IF disturbed = "shrunk" THEN "shrunk" ELSE "grown"
    /\ UNCHANGED <<client, first, stayed>>

Leave(n) ==
    /\ MayChange
    /\ table' = RemoveAt(table, n)
    /\ stayed' = stayed \ {table[n]}
    /\ disturbed' = "shrunk"
    /\ UNCHANGED <<client, first>>

-----------------------------------------------------------------------------
(* One page.                                                               *)

Asked(listing) ==
    /\ pc = "asked"
    /\ pages < MaxPages
    /\ query.listing = listing
    /\ query.option # "malformed"

\* The number of n among P, from below.
Rank(P, n) == Cardinality({m \in P : m <= n})

\* The rows that are in S, in their order.
Select(rows, S) ==
    LET P == {n \in DOMAIN rows : rows[n] \in S}
    IN [k \in 1 .. Cardinality(P) |-> rows[CHOOSE n \in P : Rank(P, n) = k]]

Found == Select(table, Matching)

WindowSlip(rows) ==
    LET last == query.skip + query.top
    IN SubSeq(rows, query.skip + 1, IF last < Len(rows) THEN last + 1 ELSE Len(rows))

\* page_start and page_limit as the library takes them.
Window(rows) ==
    LET last == query.skip + query.top
    IN SubSeq(rows, query.skip + 1, IF last < Len(rows) THEN last ELSE Len(rows))

NextLinkSlip(skip, top) == [query EXCEPT !.skip = skip]

NextLinkDefaultSlip(skip, top) == [query EXCEPT !.skip = skip + DEFAULT_TOP]

\* The nextLink: all other options of the query stay.
NextLink(skip, top) == [query EXCEPT !.skip = skip + top]

\* The stream ends early when a row cannot be marshalled; its header, with
\* the link, has been sent.
Respond(rows, skip, top) ==
    \E n \in 0 .. Len(rows) :
        /\ got' = got \o SubSeq(rows, 1, n)
        /\ cut' = (cut \/ n < Len(rows))
        /\ pages' = pages + 1
        /\ query' = NextLink(skip, top)
        /\ pc' = IF n = 0 THEN "done" ELSE "asked"
        /\ UNCHANGED <<table, changes, history>>

Generate(rows) == Respond(Window(rows), query.skip, query.top)

Stop(end) ==
    /\ pc' = end
    /\ UNCHANGED <<table, changes, query, got, pages, cut, history>>

Refuse ==
    /\ pc = "asked"
    /\ query.option = "malformed"
    /\ Stop("failed")

\* An exception of the library.
Fail ==
    /\ pc = "asked"
    /\ Stop("failed")

GiveUp ==
    /\ pc = "asked"
    /\ pages = MaxPages
    /\ Stop("gone")

\* No field of $orderby is in the map of a resource that gets here: it is
\* removed, and generator looks for it. A $search finds all at once.
FolderGen ==
    CASE query.option = "$orderby" -> Stop("failed")
      [] query.option = "$search" -> Respond(Found, query.skip, query.top)
      [] OTHER -> Generate(table)

Restricted == IF query.option = "$search" THEN Found ELSE table

Whole == Respond(table, 0, DEFAULT_TOP)

-----------------------------------------------------------------------------
(* The handlers.                                                           *)

GetMessages == Asked("messages") /\ FolderGen

GetContacts == Asked("contacts") /\ FolderGen

GetContactsOfFolder == Asked("contactsOfFolder") /\ FolderGen

GetEvents == Asked("events") /\ Generate(table)

GetEventsOfCalendar == Asked("eventsOfCalendar") /\ Generate(table)

GetInstances == Asked("instances") /\ Generate(table)

GetCalendarView == Asked("calendarView") /\ Generate(table)

GetCalendars == Asked("calendars") /\ Generate(table)

GetContactFolders == Asked("contactFolders") /\ Generate(table)

GetMailFolders == Asked("mailFolders") /\ Generate(Restricted)

GetChildFolders == Asked("childFolders") /\ Generate(Restricted)

GetUsers == Asked("users") /\ Generate(Restricted)

GetGroups == Asked("groups") /\ Whole

GetMembers == Asked("members") /\ Whole

GetMemberOf == Asked("memberOf") /\ Whole

GetAttachments == Asked("attachments") /\ Whole

\* The nth entry is the last of an answer of the LDAP server, which is asked for
\* no more entries at once than the page needs.
EndsLdapPage(n) ==
    LET end == query.skip + query.top
    IN n % (IF end < PAGESIZE THEN end ELSE PAGESIZE) = 0

\* Where the loop over the results ends: at the first user past $skip that
\* makes the page full. One without a login ends it only at the end of an
\* answer.
LastUser(users) ==
    LET full == {n \in DOMAIN users : /\ n > query.skip
                                      /\ n >= query.skip + query.top
                                      /\ users[n] \notin Nameless \/ EndsLdapPage(n)}
    IN IF full = {} THEN Len(users) ELSE CHOOSE n \in full : \A m \in full : n <= m

\* The link is there when the page is full, and has no option but $skip.
GetLdapUsers ==
    /\ Asked("ldapUsers")
    /\ LET page == SubSeq(Restricted, query.skip + 1, LastUser(Restricted))
           value == Select(page, Items \ Nameless)
       IN /\ got' = got \o value
          /\ cut' = (cut \/ value # page)
          /\ pc' = IF Len(value) >= query.top THEN "asked" ELSE "done"
    /\ pages' = pages + 1
    /\ query' = [NextLink(query.skip, query.top) EXCEPT !.option = "none", !.top = DEFAULT_TOP]
    /\ UNCHANGED <<table, changes, history>>

Get ==
    \/ GetMessages \/ GetContacts \/ GetContactsOfFolder
    \/ GetEvents \/ GetEventsOfCalendar \/ GetInstances
    \/ GetCalendarView \/ GetCalendars \/ GetContactFolders
    \/ GetMailFolders \/ GetChildFolders \/ GetUsers
    \/ GetGroups \/ GetMembers \/ GetMemberOf \/ GetAttachments
    \/ GetLdapUsers

Next ==
    \/ Open
    \/ Get
    \/ Refuse
    \/ Fail
    \/ GiveUp
    \/ \E i \in Items : \E n \in 1 .. Len(table) + 1 : Arrive(i, n)
    \/ \E n \in 1 .. Len(table) : Leave(n)

Spec == Init /\ [][Next]_vars

-----------------------------------------------------------------------------
(* Properties.                                                             *)

\* The listings that have pages at all. The others answer every page with
\* everything: lists of groups and attachments, and a $search in a folder.
Paged ==
    \/ first.listing \in Tables
    \/ first.listing \in FolderItems /\ first.option = "none"
    \/ first.listing = "ldapUsers" /\ first.option = "none"

Listed ==
    IF first.listing \in Searched /\ first.option = "$search" THEN Found ELSE table

\* The type of every variable; and no page is longer than it may be.
TypeOK ==
    /\ table \in UNION {SetToSeqs(S) : S \in SUBSET Items}
    /\ changes \in 0 .. MaxChanges
    /\ pc \in {"idle", "asked", "done", "failed", "gone"}
    /\ query \in Queries
    /\ got \in Seq(Items)
    /\ pages \in 0 .. MaxPages
    /\ Paged => \E top \in Tops : Len(got) <= pages * top
    /\ first \in Queries
    /\ stayed \subseteq Items
    /\ disturbed \in {"no", "grown", "shrunk"}
    /\ cut \in BOOLEAN

\* The pages that a client put together (generator, json_multi). If nothing
\* was disturbed they are the list: every item once, in order, for any page
\* size. Items that arrive meanwhile may show it a row twice, but never hide
\* one from it.
PagesAreTheListing ==
    pc = "done" /\ Paged /\ ~cut =>
        /\ disturbed = "no" => got = Listed
        /\ disturbed = "grown" => stayed \cap Range(Listed) \subseteq Range(got)

\* A client that follows the links of a paged list comes to its end before it
\* gives up, at the latest on the first page past all items, though json_multi
\* puts a link on every page, the empty one too.
PagingEnds == Paged => pc # "gone"

=============================================================================
