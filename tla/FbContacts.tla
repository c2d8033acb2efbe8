------------------------------ MODULE FbContacts ------------------------------
(***************************************************************************)
(* How an account keeps its buddy list in step with the contacts the       *)
(* server has for it: api.c reads them page by page when the account signs *)
(* on and asks for changes since then, facebook.c puts them on the buddy   *)
(* list, opens the stream when the first reading is complete, and repeats  *)
(* the request by the timer "sync-contacts".                               *)
(*                                                                         *)
(* The server lists users 1..NUsers in pages; some of them are friends of  *)
(* the account, and the account itself may be among them.  A buddy is      *)
(* found by its name (purple_blist_find_buddy); a second buddy of the same *)
(* name and group takes the place of the first in the table of names, and  *)
(* the first, an orphan, stays on the list.                                *)
(*                                                                         *)
(* The buddy list is the only thing that outlives a session.  The user     *)
(* does not edit it.  Pictures of contacts are downloads of FbMessages.    *)
(***************************************************************************)
EXTENDS Naturals

CONSTANTS
    NUsers,     \* users the server lists
    PageSize,   \* FB_API_CONTACTS_COUNT
    Self,       \* the account's place on the list, 0 if it is not listed
    MaxOrphans  \* bound: no user with more orphans becomes a friend again

ASSUME ContactsAssumption ==
    /\ NUsers \in Nat \ {0}
    /\ PageSize \in Nat \ {0}
    /\ Self \in 0..NUsers
    /\ MaxOrphans \in Nat

User == 1..NUsers
Contact == User \ {Self}

VARIABLES
    friends,   \* the server: contacts that are friends
    cursor,    \* priv->contacts_delta is set
    base,      \* the friends the server takes the holder of the cursor to know
    requests,  \* contact requests under way
    timer,     \* the timer "sync-contacts"
    found,     \* the group of the buddy found by a user's name
    orphans,   \* number of buddies of a user that are on the list, not found
    state,     \* PurpleConnection
    opening,   \* fb_api_connect was called, "connect" has not been emitted
    failed,    \* an error was reported: the account is about to go offline
    overlap,   \* history: the timer fired during a request, in this session
    silent     \* history: the last reading to end was passed on to nobody

listVars == <<found, orphans>>
connVars == <<state, opening, failed>>
vars == <<friends, cursor, base, requests, timer, listVars, connVars, overlap,
          silent>>

\* A request: for the page after some user, in a reading that has shown the
\* friends in base so far, or for what changed since they were base.  It is
\* old if the timer was armed while it was under way.
Request == [kind : {"page"}, after : 0..NUsers - 1, base : SUBSET Contact, old : BOOLEAN]
     \cup  [kind : {"delta"}, base : SUBSET Contact, old : BOOLEAN]

TypeOK ==
    /\ friends \subseteq Contact
    /\ cursor \in BOOLEAN
    /\ base \subseteq Contact
    /\ requests \subseteq Request
    /\ timer \in BOOLEAN
    /\ found \in [Contact -> {"none", "friend", "stranger"}]
    /\ orphans \in [Contact -> Nat]
    /\ state \in {"offline", "connecting", "connected"}
    /\ opening \in BOOLEAN
    /\ failed \in BOOLEAN
    /\ overlap \in BOOLEAN /\ silent \in BOOLEAN

Init ==
    /\ friends \in SUBSET Contact
    /\ cursor = FALSE /\ base = {} /\ requests = {} /\ timer = FALSE
    /\ found = [u \in Contact |-> "none"]
    /\ orphans = [u \in Contact |-> 0]
    /\ state = "offline" /\ opening = FALSE /\ failed = FALSE
    /\ overlap = FALSE /\ silent = FALSE

-----------------------------------------------------------------------------
(* Parts of handlers.                                                      *)

PageRequest(after, known) ==
    [kind |-> "page", after |-> after, base |-> known, old |-> FALSE]
DeltaRequest == [kind |-> "delta", base |-> base, old |-> FALSE]

\* fb_api_contacts: changes since the cursor, or everything from the start.
ContactsRequest == IF cursor THEN DeltaRequest ELSE PageRequest(0, {})

\* Mutant: a page is asked for after the last one, too.
NextPageAlways(last, known) == {PageRequest(last, known)}

\* Mutant: a reading ends with the first page that shows no friend, too.
NextPageKnown(last, known) ==
    IF last = NUsers \/ known = {} THEN {} ELSE {PageRequest(last, known)}

\* fb_api_contacts_after.
NextPage(last, known) == IF last = NUsers THEN {} ELSE {PageRequest(last, known)}

\* "contacts" is emitted for a page unless no user of it is left.
PassedOn(users) == users # {}

\* fb_sync_contacts_add_timeout replaces the timer that is there.
Armed(rs) == {[r EXCEPT !.old = TRUE] : r \in rs}

\* Mutant: the buddy of a stranger is kept, and its group with it.
ListPageKeep(users) ==
    /\ found' = [u \in Contact |-> IF u \in users /\ found[u] = "none"
                                  THEN "friend" ELSE found[u]]
    /\ UNCHANGED orphans

\* The list with the users of a page: a buddy in the group of strangers is
\* replaced, one of a friend is kept.
ListPage(users) ==
    /\ found' = [u \in Contact |-> IF u \in users THEN "friend" ELSE found[u]]
    /\ UNCHANGED orphans

\* Mutant: an added user who has a buddy gets none, as on a page.
ListDeltaUnfound(added, removed) ==
    /\ found' = [u \in Contact |->
                    IF u \in added /\ found[u] = "none" THEN "friend" ELSE
                    IF u \in removed THEN "none" ELSE found[u]]
    /\ UNCHANGED orphans

\* The list with the users of a delta: an added user gets a new buddy whether
\* or not there is one, a removed one loses the buddy found by its name.
ListDelta(added, removed) ==
    LET doubled == {u \in added : found[u] = "friend"}
    IN  /\ found' = [u \in Contact |-> IF u \in added THEN "friend" ELSE
                                       IF u \in removed THEN "none" ELSE found[u]]
        /\ orphans' = [u \in Contact |-> IF u \in doubled THEN orphans[u] + 1
                                                          ELSE orphans[u]]

\* What a session starts from and leaves behind, besides the buddy list.
Reset ==
    /\ cursor' = FALSE /\ base' = {} /\ timer' = FALSE
    /\ opening' = FALSE /\ failed' = FALSE /\ overlap' = FALSE /\ silent' = FALSE

-----------------------------------------------------------------------------
(* The session.                                                            *)

SignOn ==
    /\ state = "offline" /\ state' = "connecting"
    /\ requests' = {PageRequest(0, {})}
    /\ Reset
    /\ UNCHANGED <<friends, found, orphans>>

\* fb_close, by the user or by the idle callback after an error.
SignOff ==
    /\ state # "offline" /\ state' = "offline"
    /\ requests' = {}
    /\ Reset
    /\ UNCHANGED <<friends, found, orphans>>

\* The user signs off an account that has no error.
UserSignOff == ~failed /\ SignOff

\* purple_connection_error scheduled it.
DisconnectCb == failed /\ SignOff

\* "connect" of FbApi.
CbApiConnect ==
    /\ opening
    /\ opening' = FALSE /\ state' = "connected"
    /\ UNCHANGED <<friends, cursor, base, requests, timer, listVars, failed, overlap,
                   silent>>

\* The stream fails and is not reopened in silence.
CbApiError ==
    /\ opening \/ state = "connected"
    /\ failed' = TRUE
    /\ UNCHANGED <<friends, cursor, base, requests, timer, listVars, state, opening,
                   overlap, silent>>

-----------------------------------------------------------------------------
(* Contact requests.                                                       *)

\* The answer with a page of contacts.  A page without a friend on it is not
\* passed on, so that, if it is the last one, neither the stream is opened
\* nor the timer armed.  The last page has a cursor for what changes with
\* regard to the pages of this reading, or none.
ReadPage(r) ==
    LET last     == IF r.after + PageSize < NUsers THEN r.after + PageSize ELSE NUsers
        complete == last = NUsers
        users    == {u \in r.after + 1..last : u \in friends \cup {Self}}
        reported == complete /\ PassedOn(users)
        known    == r.base \cup (users \ {Self})
        rest     == (requests \ {r}) \cup NextPage(last, known)
    IN  /\ r.kind = "page"
        /\ cursor' \in IF complete THEN BOOLEAN ELSE {cursor}
        /\ base' = IF complete THEN known ELSE base
        /\ ListPage(users \ {Self})
        /\ timer' = (timer \/ reported)
        /\ requests' = IF reported THEN Armed(rest) ELSE rest
        /\ opening' = (opening \/ (reported /\ state # "connected"))
        /\ silent' = IF complete THEN ~PassedOn(users) ELSE silent
        /\ UNCHANGED <<friends, state, failed, overlap>>

\* The answer with changes since the cursor: all of them, or the first ones.
\* In that case the cursor, which is one for changes, goes into a request for
\* a page, and the server answers as if it had none.
ReadDelta(r) ==
    LET added   == friends \ r.base
        removed == r.base \ friends
    IN  \E part \in SUBSET (added \cup removed) :
            LET all  == part = added \cup removed
                rest == (requests \ {r}) \cup IF all THEN {} ELSE {PageRequest(0, {})}
            IN  /\ r.kind = "delta"
                /\ cursor' = TRUE
                /\ base' = (r.base \cup (added \cap part)) \ (removed \cap part)
                /\ ListDelta(added \cap part, removed \cap part)
                /\ timer' = TRUE
                /\ requests' = Armed(rest)
                /\ silent' = FALSE
                /\ UNCHANGED <<friends, connVars, overlap>>

\* Mutant: the error is not passed on.
RequestFailsQuietly(r) ==
    /\ requests' = requests \ {r}
    /\ UNCHANGED <<friends, cursor, base, timer, listVars, connVars, overlap, silent>>

\* fb_api_http_chk finds an error.
RequestFails(r) ==
    /\ requests' = requests \ {r}
    /\ failed' = TRUE
    /\ UNCHANGED <<friends, cursor, base, timer, listVars, state, opening, overlap,
                   silent>>

Reply == \E r \in requests : ReadPage(r) \/ ReadDelta(r) \/ RequestFails(r)

\* The interval is a minute at least, and libsoup gives up a request after a
\* minute of silence: what was under way when the timer was armed has ended.
SyncContacts ==
    /\ timer /\ timer' = FALSE
    /\ \A r \in requests : ~r.old
    /\ requests' = requests \cup {ContactsRequest}
    /\ overlap' = (overlap \/ requests # {})
    /\ UNCHANGED <<friends, cursor, base, listVars, connVars, silent>>

\* The answer to a request for a user who wrote to the account.  The server may
\* push messages once the stream is open, before "connect" is emitted.
ReadContact(u) ==
    /\ opening \/ state = "connected"
    /\ found[u] = "none"
    /\ found' = [found EXCEPT ![u] = "stranger"]
    /\ UNCHANGED <<friends, cursor, base, requests, timer, orphans, connVars, overlap,
                   silent>>

\* At the server, two users become friends or stop being friends.
Befriend(u) ==
    /\ u \notin friends /\ orphans[u] <= MaxOrphans
    /\ friends' = friends \cup {u}
    /\ UNCHANGED <<cursor, base, requests, timer, listVars, connVars, overlap, silent>>

Unfriend(u) ==
    /\ u \in friends
    /\ friends' = friends \ {u}
    /\ UNCHANGED <<cursor, base, requests, timer, listVars, connVars, overlap, silent>>

Next ==
    \/ SignOn \/ UserSignOff \/ DisconnectCb
    \/ CbApiConnect \/ CbApiError
    \/ Reply \/ SyncContacts
    \/ \E u \in Contact :
          \/ ReadContact(u)
          \/ Befriend(u) \/ Unfriend(u)

Spec == Init /\ [][Next]_vars

\* libsoup answers or fails every request, and GLib runs timers and idle
\* callbacks.
FairSpec ==
    Spec /\ WF_vars(Reply) /\ WF_vars(SyncContacts) /\ WF_vars(DisconnectCb)

-----------------------------------------------------------------------------
(* Properties *)

\* Synchronisation goes on: unless an error was reported, an account online
\* either waits for an answer about its contacts or has the timer for the next
\* request, or the last reading has ended with a page that was passed on to
\* nobody (facebook.c:292, 337).
SyncAlive == state # "offline" /\ ~failed => requests # {} \/ timer \/ silent

\* Nothing else stalls signing on between contacts and stream: before the
\* stream is being opened, a reading of all contacts is under way whose end
\* opens it (facebook.c:289).
SignOnUnderWay ==
    state = "connecting" /\ ~failed /\ ~opening
        => silent \/ \E r \in requests : r.kind = "page"

\* Every answered reading is reported as complete: the signal "contacts" comes
\* with "complete" when the last page has been read (api.c:330-334).
CompletionReported ==
    [][(\E r \in requests : /\ r.kind = "page" /\ r.after + PageSize >= NUsers
                            /\ ReadPage(r)) => timer']_vars

\* What the server takes the account to know is on its list: the group of friends
\* holds whoever a cursor or a request counts as read, so that no change is lost
\* between list and server.  Except once a second request was started before the
\* first was answered (facebook.c:149, 323).
ListHoldsBase ==
    ~overlap => \A known \in {base} \cup {r.base : r \in requests} :
                    \A u \in known : found[u] = "friend"

\* Who stays a friend is found on the list in the end, in the group of friends,
\* while the account stays online and synchronisation goes on: whatever pages
\* and deltas came in which order, and whatever the buddy was before
\* (facebook.c:253, 313).
Online == state = "connected" /\ ~failed /\ ~silent
FriendsListed ==
    \A u \in Contact :
        <>[](Online /\ ~overlap /\ u \in friends) => <>[](found[u] = "friend")
=============================================================================
