------------------------------ MODULE FbMessages ------------------------------
(***************************************************************************)
(* What becomes of the messages an account receives: api.c takes them out  *)
(* of the sync publications and resolves their attachments, facebook.c     *)
(* shows them, parks those of unknown senders and downloads pictures, and  *)
(* data.c keeps the parked ones and the table of downloads, which contact  *)
(* pictures share.                                                         *)
(*                                                                         *)
(* Messages are numbered in the order the server sends them.  Each carries *)
(* a text, an attachment (or sticker), or both, and these parts go their   *)
(* own ways: a part of the kind "text" is a text; an attachment becomes a  *)
(* "link", which is shown as it is, or a "picture" and, once downloaded, a *)
(* "photo".  A contact picture is an "icon", numbered by the page of       *)
(* contacts that announced it.                                             *)
(*                                                                         *)
(* The account has the default options: its own messages and those of      *)
(* group chats are shown.  Unread messages fetched over HTTP, read marks   *)
(* and the threads of group chats are left out, and so are the messages    *)
(* the user sends: they set lastmid, too, so that a delta the server       *)
(* repeats after one is not noticed; the server repeats it at once.        *)
(***************************************************************************)
EXTENDS Naturals, FiniteSets, SequencesExt

CONSTANTS
    User,         \* whoever writes to the account
    MaxMessages,  \* bound: messages the server sends
    MaxBatch,     \* bound: new messages in one publication
    MaxIcons,     \* bound: pages of contacts with changed pictures
    MaxActive,    \* FB_DATA_ICON_MAX
    ImagesFail,   \* may the download of an image fail?
    Nonfatal      \* may error 509, "invalid attachment id", answer a request
                  \* for a contact?

\* With a single download at a time the table would never advance: a download
\* that ends still counts as active when the next is looked for.
ASSUME MessagesAssumption ==
    /\ IsFiniteSet(User)
    /\ MaxMessages \in Nat
    /\ MaxBatch \in Nat
    /\ MaxIcons \in Nat
    /\ MaxActive \in Nat /\ MaxActive > 1
    /\ ImagesFail \in BOOLEAN
    /\ Nonfatal \in BOOLEAN

VARIABLES
    log,        \* the messages the account has looked at
    lastmid,    \* priv->lastmid, 0 in a new session
    failed,     \* an error was reported: the account is about to go offline
    blist,      \* the group of a user's buddy, "none" without one
    attaching,  \* messages whose attachment is being asked for
    asked,      \* contact requests under way for a user
    parked,     \* priv->msgs of FbData: parts of unknown senders
    queued,     \* priv->imgs of FbData: images that are not active
    active,     \* priv->imgs of FbData: images being downloaded
    icons,      \* pages of contacts with changed pictures so far
    shown,      \* parts shown to the user, in this order
    lost,       \* parts that will never be shown
    overtaken   \* history: users who came onto the buddy list by another way
                \* than the reply a text of theirs was waiting for

apiVars  == <<log, lastmid, failed, attaching>>
dataVars == <<asked, parked>>
imgVars  == <<queued, active>>
vars == <<apiVars, blist, dataVars, imgVars, icons, shown, lost, overtaken>>

Message == 1..MaxMessages
Kinds == {"text", "link", "picture", "photo"}
Part(kinds) == [id : Message, uid : User, kind : kinds]
Icon == [id : 1..MaxIcons, uid : User, kind : {"icon"}]
Image == Part({"picture"}) \cup Icon
Contents == SUBSET {"text", "file"} \ {{}}

\* The parts in each place are those that can be there: what is shown has been
\* downloaded, and what waits belongs to a message the account has looked at.
TypeOK ==
    /\ log \in Seq([from : User, parts : Contents]) /\ Len(log) <= MaxMessages
    /\ lastmid \in 0..Len(log)
    /\ failed \in BOOLEAN
    /\ blist \in [User -> {"none", "friend", "other"}]
    /\ attaching \subseteq DOMAIN log
    /\ asked \in [User -> Nat]
    /\ parked \in Seq(Part(Kinds))
    /\ queued \subseteq Image /\ active \subseteq Image
    /\ icons \in 0..MaxIcons
    /\ shown \in Seq(Part({"text", "link", "photo"}))
    /\ lost \subseteq Message \X {"text", "file"}
    /\ overtaken \subseteq User

Init ==
    /\ log = <<>> /\ lastmid = 0 /\ failed = FALSE
    /\ blist \in [User -> {"none", "friend", "other"}]
    /\ attaching = {} /\ asked = [u \in User |-> 0] /\ parked = <<>>
    /\ queued = {} /\ active = {} /\ icons = 0
    /\ shown = <<>> /\ lost = {} /\ overtaken = {}

\* Where a part comes from: the text or the attachment of its message.
Origin(part) == <<part.id, IF part.kind = "text" THEN "text" ELSE "file">>
Origins(parts) == {Origin(p) : p \in {q \in parts : q.kind # "icon"}}

-----------------------------------------------------------------------------
(* Parts of handlers.                                                      *)

\* The elements of seq that are in chosen, in their order.
Selected(seq, chosen) ==
    LET kept[n \in 0..Len(seq)] ==
            IF n = 0 THEN <<>>
            ELSE IF seq[n] \in chosen THEN Append(kept[n - 1], seq[n])
            ELSE kept[n - 1]
    IN  kept[Len(seq)]

\* The elements of parts sent by one of the users.
From(parts, users) == Selected(parts, {p \in Part(Kinds) : p.uid \in users})

\* Mutant: every image counts as downloaded.
IsNoPicture(part) == FALSE

\* FB_API_MESSAGE_FLAG_IMAGE without FB_API_MESSAGE_FLAG_DONE.
IsPicture(part) == part.kind = "picture"

\* Mutant: the active images are not counted.
StartedFresh(act, pool) ==
    {new \in SUBSET pool :
        \/ new = pool /\ Cardinality(new) <= MaxActive
        \/ Cardinality(new) = MaxActive}

\* fb_data_image_queue: the images of pool it starts while act are active.
\* The hash table gives them in any order; of several images added in one go
\* the code prefers the first ones, which is not told apart here.
Started(act, pool) ==
    {new \in SUBSET pool :
        IF Cardinality(act) >= MaxActive
        THEN new = {}
        ELSE \/ new = pool /\ Cardinality(act \cup new) <= MaxActive
             \/ Cardinality(act \cup new) = MaxActive}

QueueImages(pool) ==
    \E new \in Started(active, pool) :
        active' = active \cup new /\ queued' = pool \ new

\* Mutant: a picture's sender is thought to be known.
RequestsNoPhoto(requests, parts) ==
    [u \in User |->
        requests[u] + Cardinality({i \in DOMAIN parts :
            parts[i].uid = u /\ parts[i].kind # "photo"})]

\* fb_api_contact for each part in the list that has been parked.
Requests(requests, parts) ==
    [u \in User |->
        requests[u] + Cardinality({i \in DOMAIN parts : parts[i].uid = u})]

\* fb_cb_api_messages on the messages that need no download: with buddy list
\* list, of unknown senders they are parked and the contact asked for, others
\* shown.  waiting and requests are the parked messages and contact requests
\* as the caller leaves them.
Route(parts, list, waiting, requests) ==
    LET unknown == From(parts, {u \in User : list[u] = "none"})
    IN  /\ parked' = waiting \o unknown
        /\ asked' = Requests(requests, unknown)
        /\ shown' = shown \o Selected(parts,
               {p \in Part(Kinds) : list[p.uid] # "none" /\ ~IsPicture(p)})

\* Mutant: a picture is added to the table and left there.
DeliverUnqueued(parts, list, waiting, requests) ==
    /\ Route(parts, list, waiting, requests)
    /\ queued' = queued \cup
           {p \in Range(parts) : list[p.uid] # "none" /\ IsPicture(p)}
    /\ UNCHANGED active

\* fb_cb_api_messages with the pictures of known senders.
Deliver(parts, list, waiting, requests) ==
    LET pictures == {p \in Range(parts) : list[p.uid] # "none" /\ IsPicture(p)}
    IN  /\ Route(parts, list, waiting, requests)
        /\ IF pictures = {}
           THEN UNCHANGED imgVars
           ELSE QueueImages(queued \cup pictures)

\* Mutant: the taken messages are collected from the head of the queue.
TakeReversed(u) == Reverse(From(parked, {u}))

\* fb_data_take_messages: those of user u, oldest first.
TakeMessages(u) == From(parked, {u})

-----------------------------------------------------------------------------
(* Publications on /t_ms (fb_api_cb_publish_ms).                           *)

\* The texts of the messages mids, in their order.
Texts(mids, deltas) ==
    LET texts == Selected(mids, {m \in DOMAIN deltas : "text" \in deltas[m].parts})
    IN  [i \in DOMAIN texts |->
            [id |-> texts[i], uid |-> deltas[texts[i]].from, kind |-> "text"]]

\* Mutant: no duplicate is ignored.
FreshAll(mids) == mids

\* fb_api_cb_publish_ms_new_message ignores sequential duplicates.
Fresh(mids) == Selected(mids, Message \ {lastmid})

\* What the server puts into a publication: new messages, perhaps after the
\* last one of this session once more.
Published(new, again) ==
    (IF again THEN <<lastmid>> ELSE <<>>)
        \o [i \in 1..Len(new) |-> Len(log) + i]

\* A publication of deltas; with bad a delta follows that cannot be parsed.
\* Then the texts before it are freed and the error is reported, but what was
\* asked for stays asked for.
PublishMs(new, again, bad) ==
    /\ Len(log) + Len(new) <= MaxMessages
    /\ again => lastmid > 0
    /\ again \/ new # <<>>
    /\ LET deltas == log \o new
           mids   == Fresh(Published(new, again))
       IN  /\ log' = deltas
           /\ lastmid' = IF mids = <<>> THEN lastmid ELSE Last(mids)
           /\ attaching' = attaching \cup
                  {m \in Range(mids) : "file" \in deltas[m].parts}
           /\ IF bad
              THEN /\ failed' = TRUE
                   /\ lost' = lost \cup Origins(Range(Texts(mids, deltas)))
                   /\ UNCHANGED <<dataVars, imgVars, shown>>
              ELSE /\ Deliver(Texts(mids, deltas), blist, parked, asked)
                   /\ UNCHANGED <<failed, lost>>
    /\ UNCHANGED <<blist, icons, overtaken>>

\* fb_api_cb_attach, and fb_api_cb_sticker for pictures.
CbAttach(m) ==
    /\ m \in attaching
    /\ attaching' = attaching \ {m}
    /\ UNCHANGED <<log, lastmid, failed, blist, icons, lost, overtaken>>
    /\ \E kind \in {"link", "picture"} :
           Deliver(<<[id |-> m, uid |-> log[m].from, kind |-> kind]>>,
                   blist, parked, asked)

\* The request fails: its message is freed with it.  Error 509 is not reported.
AttachFailed(m) ==
    /\ m \in attaching
    /\ attaching' = attaching \ {m}
    /\ lost' = lost \cup {<<m, "file">>}
    /\ failed' \in {failed, TRUE}
    /\ UNCHANGED <<log, lastmid, blist, dataVars, imgVars, icons, shown, overtaken>>

-----------------------------------------------------------------------------
(* Contacts and the buddy list.                                            *)

\* fb_cb_api_contact.
CbContact(u) ==
    LET list == IF blist[u] = "none" THEN [blist EXCEPT ![u] = "other"] ELSE blist
    IN  /\ asked[u] > 0
        /\ blist' = list
        /\ UNCHANGED <<apiVars, icons, lost, overtaken>>
        /\ Deliver(TakeMessages(u), list,
                   From(parked, User \ {u}),
                   [asked EXCEPT ![u] = @ - 1])

ContactFailed(u) ==
    /\ asked[u] > 0
    /\ asked' = [asked EXCEPT ![u] = @ - 1]
    /\ \/ failed' = TRUE
       \/ Nonfatal /\ UNCHANGED failed
    /\ UNCHANGED <<log, lastmid, attaching, blist, parked, imgVars, icons, shown, lost,
                   overtaken>>

\* The users who come onto the list while a text of theirs is parked: it stays
\* parked, and later ones are shown before it.
Overtake(list) ==
    overtaken' = overtaken \cup
        {u \in User : /\ blist[u] = "none" /\ list[u] # "none"
                      /\ \E p \in Range(parked) : p.uid = u /\ p.kind = "text"}

\* fb_cb_api_contacts for a page of users, changed of whom have a new picture.
\* It looks for images to start whether or not there is a new one.
CbContacts(users, changed) ==
    /\ icons' = IF changed = {} THEN icons ELSE icons + 1
    /\ icons' <= MaxIcons
    /\ blist' = [u \in User |-> IF u \in users THEN "friend" ELSE blist[u]]
    /\ Overtake(blist')
    /\ QueueImages(queued \cup [id : {icons + 1}, uid : changed, kind : {"icon"}])
    /\ UNCHANGED <<apiVars, dataVars, shown, lost>>

\* fb_cb_api_contacts_delta, and the user who removes a buddy.  A buddy both
\* added and removed is removed, as one that is only removed.
CbContactsDelta(added, removed) ==
    /\ blist' = [u \in User |-> IF u \in removed THEN "none"
                                ELSE IF u \in added THEN "friend" ELSE blist[u]]
    /\ Overtake(blist')
    /\ UNCHANGED <<apiVars, dataVars, imgVars, icons, shown, lost>>

-----------------------------------------------------------------------------
(* Downloads (fb_data_image_cb).                                           *)

\* fb_cb_image or fb_cb_icon.  A photo whose sender is not on the buddy list
\* any more is parked like any message.
ImageFunc(img) ==
    IF IsPicture(img)
    THEN Route(<<[img EXCEPT !.kind = "photo"]>>, blist, parked, asked)
    ELSE UNCHANGED <<dataVars, shown>>

\* Mutant: the end of a download starts no other.
ImageDoneOnly(img) ==
    /\ img \in active
    /\ UNCHANGED <<apiVars, blist, icons, lost, overtaken>>
    /\ ImageFunc(img)
    /\ active' = active \ {img}
    /\ UNCHANGED queued

\* The image leaves the table after the next ones were started.
ImageDone(img) ==
    /\ img \in active
    /\ UNCHANGED <<apiVars, blist, icons, lost, overtaken>>
    /\ ImageFunc(img)
    /\ \E new \in Started(active, queued) :
           /\ active' = (active \cup new) \ {img}
           /\ queued' = queued \ new

\* A failed download starts no other.
ImageFailed(img) ==
    /\ ImagesFail
    /\ img \in active
    /\ active' = active \ {img}
    /\ lost' = lost \cup Origins({img})
    /\ UNCHANGED <<apiVars, blist, dataVars, queued, icons, shown, overtaken>>

-----------------------------------------------------------------------------
\* The session ends, after an error or because the user signs off, and the
\* account signs on again: fb_data_dispose, fb_api_dispose.
Restart ==
    /\ lost' = lost \cup Origins(queued \cup active \cup Range(parked))
                    \cup attaching \X {"file"}
    /\ lastmid' = 0 /\ failed' = FALSE
    /\ attaching' = {} /\ asked' = [u \in User |-> 0] /\ parked' = <<>>
    /\ queued' = {} /\ active' = {}
    /\ UNCHANGED <<log, blist, icons, shown, overtaken>>

Next ==
    \/ \E new \in SeqOf([from : User, parts : Contents], MaxBatch),
          again, bad \in BOOLEAN : PublishMs(new, again, bad)
    \/ \E m \in Message : CbAttach(m) \/ AttachFailed(m)
    \/ \E u \in User : CbContact(u) \/ ContactFailed(u)
    \/ \E users \in SUBSET User : \E changed \in SUBSET users :
           CbContacts(users, changed)
    \/ \E added \in SUBSET User : \E removed \in SUBSET (User \ added) :
           CbContactsDelta(added, removed)
    \/ \E img \in Image : ImageDone(img) \/ ImageFailed(img)
    \/ Restart

Spec == Init /\ [][Next]_vars

\* libsoup answers or fails each request, and the main loop runs the idle
\* callback that takes an account with an error offline.
Fairness ==
    /\ \A m \in Message : WF_vars(CbAttach(m) \/ AttachFailed(m))
    /\ \A u \in User : WF_vars(CbContact(u) \/ ContactFailed(u))
    /\ \A img \in Image : WF_vars(ImageDone(img) \/ ImageFailed(img))
    /\ WF_vars(failed /\ Restart)

FairSpec == Spec /\ Fairness

-----------------------------------------------------------------------------
(* Properties.                                                             *)

\* How often the text or attachment origin is in a sequence or set of parts.
InSeq(seq, origin) == Cardinality({i \in DOMAIN seq : Origin(seq[i]) = origin})
InSet(set, origin) == IF origin \in set THEN 1 ELSE 0

\* No message is shown twice, kept twice or dropped in silence: each text and
\* attachment the account has looked at is in exactly one place, although the
\* handlers copy messages, park them, and send photos through
\* fb_cb_api_messages a second time.
Accounted ==
    \A m \in DOMAIN log : \A part \in log[m].parts :
        LET origin == <<m, part>>
        IN  /\ InSeq(shown, origin) + InSeq(parked, origin)
                 + InSet(Origins(queued), origin) + InSet(Origins(active), origin)
                 + InSet(attaching \X {"file"}, origin)
                 + InSet(lost, origin) = 1

\* A parked message is not forgotten: until the account goes offline, a
\* request for its sender is under way, whose reply takes it out of the queue.
ParkedAsked ==
    Nonfatal \/ failed \/ \A p \in Range(parked) : asked[p.uid] > 0

\* FB_DATA_ICON_MAX limits the downloads, whoever starts them.
ActiveBounded == Cardinality(active) <= MaxActive

\* Images do not wait while nothing is being downloaded: there is always a
\* download whose end starts them.
Busy == ImagesFail \/ queued = {} \/ active # {}

\* The texts of a user are shown in the order they were sent, also when the
\* first ones had to wait for the user's name, unless the user came onto the
\* buddy list by another way in the meantime (facebook.c:259, 323, 519).
InOrder ==
    \A i, j \in DOMAIN shown :
        /\ i < j
        /\ shown[i].kind = "text" /\ shown[j].kind = "text"
        /\ shown[i].uid = shown[j].uid /\ shown[i].uid \notin overtaken
        => shown[i].id < shown[j].id

\* Every text and attachment is in the end shown, or known to be lost.
Settled(m) ==
    \A part \in log[m].parts : <<m, part>> \in lost \/ InSeq(shown, <<m, part>>) > 0
Delivered == \A m \in Message : m \in DOMAIN log ~> m \in DOMAIN log /\ Settled(m)
=============================================================================
