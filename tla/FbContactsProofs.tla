---------------------------- MODULE FbContactsProofs ----------------------------
(***************************************************************************)
(* Synchronisation of contacts, for any number of users, any size of page  *)
(* and wherever the server lists the account itself.                       *)
(***************************************************************************)
EXTENDS FbContacts, TLAPS

PageType  == [kind : {"page"}, after : 0..NUsers - 1, base : SUBSET Contact, old : BOOLEAN]
DeltaType == [kind : {"delta"}, base : SUBSET Contact, old : BOOLEAN]

\* A request is for a page or for the changes.
LEMMA RequestType == Request = PageType \cup DeltaType
BY DEF Request, PageType, DeltaType

\* A request for the page after a contact.
LEMMA PageRequestType ==
    ASSUME NEW after \in 0..NUsers - 1, NEW known \in SUBSET Contact
    PROVE  PageRequest(after, known) \in Request
BY RequestType DEF PageRequest, PageType

\* Requests that get old stay requests of their kind.
LEMMA ArmedType ==
    ASSUME NEW rs \in SUBSET Request
    PROVE  /\ Armed(rs) \subseteq Request
           /\ \A r \in rs : \E a \in Armed(rs) : a.kind = r.kind
<1>1. ASSUME NEW r \in rs
      PROVE  [r EXCEPT !.old = TRUE] \in Request /\ [r EXCEPT !.old = TRUE].kind = r.kind
  <2>1. CASE r \in PageType
    BY <2>1, RequestType DEF PageType
  <2>2. CASE r \in DeltaType
    BY <2>2, RequestType DEF DeltaType
  <2> QED  BY <2>1, <2>2, RequestType
<1> QED  BY <1>1 DEF Armed

\* The requests left after an answer with a page.
LEMMA PageNext ==
    ASSUME TypeOK, NEW r \in requests, r \in PageType
    PROVE  LET last  == IF r.after + PageSize < NUsers THEN r.after + PageSize ELSE NUsers
               users == {u \in r.after + 1..last : u \in friends \cup {Self}}
               known == r.base \cup (users \ {Self})
           IN  (requests \ {r}) \cup NextPage(last, known) \subseteq Request
<1> DEFINE last == IF r.after + PageSize < NUsers THEN r.after + PageSize ELSE NUsers
           users == {u \in r.after + 1..last : u \in friends \cup {Self}}
           known == r.base \cup (users \ {Self})
<1>1. NUsers \in Nat \ {0} /\ PageSize \in Nat \ {0} /\ Self \in 0..NUsers
  BY ContactsAssumption
<1>2. r.after \in 0..NUsers - 1 /\ r.base \subseteq Contact
  BY DEF PageType
<1>3. last \in r.after + 1..NUsers
  BY <1>1, <1>2
<1>4. known \in SUBSET Contact
  BY <1>1, <1>2, <1>3 DEF Contact, User
<1>5. CASE last = NUsers
  BY <1>5 DEF NextPage, TypeOK
<1>6. CASE last # NUsers
  <2>1. last \in 0..NUsers - 1
    BY <1>1, <1>2, <1>3, <1>6
  <2>2. NextPage(last, known) = {PageRequest(last, known)}
    BY <1>6 DEF NextPage
  <2>3. NextPage(last, known) \subseteq Request
    <3> HIDE DEF last, known
    <3> QED  BY <2>1, <2>2, <1>4, PageRequestType
  <2> QED  BY <2>3 DEF TypeOK
<1> QED  BY <1>5, <1>6

\* What an answer with a page does, taken apart.
LEMMA PageRead ==
    ASSUME TypeOK, NEW r \in requests, ReadPage(r)
    PROVE  /\ r.kind = "page" /\ r.after \in 0..NUsers - 1
           /\ \E last \in r.after + 1..NUsers, known \in SUBSET Contact, rest \in SUBSET Request :
                 /\ rest = (requests \ {r}) \cup NextPage(last, known)
                 /\ \/ /\ last # NUsers
                       /\ UNCHANGED <<timer, opening, silent>> /\ requests' = rest
                    \/ /\ last = NUsers /\ silent' = TRUE
                       /\ UNCHANGED <<timer, opening>> /\ requests' = rest
                    \/ /\ last = NUsers /\ silent' = FALSE
                       /\ timer' = TRUE /\ requests' = Armed(rest)
                       /\ opening' = (opening \/ state # "connected")
           /\ UNCHANGED <<state, failed>>
<1>0. NUsers \in Nat \ {0} /\ PageSize \in Nat \ {0} /\ Self \in 0..NUsers
  BY ContactsAssumption
<1>1. r.kind = "page" /\ r \in PageType
  BY RequestType DEF ReadPage, TypeOK, DeltaType
<1>2. r.after \in 0..NUsers - 1 /\ r.base \subseteq Contact
  BY <1>1 DEF PageType
<1> DEFINE last == IF r.after + PageSize < NUsers THEN r.after + PageSize ELSE NUsers
           users == {u \in r.after + 1..last : u \in friends \cup {Self}}
           known == r.base \cup (users \ {Self})
           rest == (requests \ {r}) \cup NextPage(last, known)
           reported == last = NUsers /\ PassedOn(users)
<1>3. last \in r.after + 1..NUsers
  BY <1>0, <1>2
<1>4. users \ {Self} \subseteq Contact
  BY <1>0, <1>2, <1>3 DEF Contact, User
<1>5. known \in SUBSET Contact
  BY <1>2, <1>4
<1>6. rest \in SUBSET Request
  BY <1>1, PageNext
<1>7. /\ timer' = (timer \/ reported)
      /\ requests' = IF reported THEN Armed(rest) ELSE rest
      /\ opening' = (opening \/ (reported /\ state # "connected"))
      /\ UNCHANGED <<state, failed>>
  BY DEF ReadPage
<1>8. silent' = IF last = NUsers THEN ~PassedOn(users) ELSE silent
  BY DEF ReadPage
<1>9. timer \in BOOLEAN /\ opening \in BOOLEAN /\ PassedOn(users) \in BOOLEAN
  BY DEF TypeOK, PassedOn
<1> HIDE DEF last, users, known, rest
<1>10. CASE reported
  <2>1. timer' = TRUE /\ requests' = Armed(rest) /\ last = NUsers
        /\ opening' = (opening \/ state # "connected") /\ silent' = FALSE
    BY <1>7, <1>8, <1>9, <1>10
  <2> QED  BY <2>1, <1>1, <1>2, <1>3, <1>5, <1>6, <1>7 DEF rest
<1>11. CASE ~reported
  <2>1. timer' = timer /\ requests' = rest /\ opening' = opening
    BY <1>7, <1>9, <1>11
  <2>2. (last # NUsers /\ silent' = silent) \/ (last = NUsers /\ silent' = TRUE)
    BY <1>8, <1>9, <1>11
  <2> QED  BY <2>1, <2>2, <1>1, <1>2, <1>3, <1>5, <1>6, <1>7 DEF rest
<1> QED  BY <1>10, <1>11

-----------------------------------------------------------------------------
(* Types.                                                                  *)

ListTypes ==
    /\ found \in [Contact -> {"none", "friend", "stranger"}]
    /\ orphans \in [Contact -> Nat]

\* A page changes the list of buddies within its type.
LEMMA ListPageType ==
    ASSUME ListTypes, NEW users, ListPage(users)
    PROVE  ListTypes'
BY DEF ListPage, ListTypes

\* So do the changes.
LEMMA ListDeltaType ==
    ASSUME ListTypes, NEW added, NEW removed, ListDelta(added, removed)
    PROVE  ListTypes'
<1>1. found' \in [Contact -> {"none", "friend", "stranger"}]
  BY DEF ListDelta, ListTypes
<1>2. orphans' \in [Contact -> Nat]
  BY DEF ListDelta, ListTypes
<1> QED  BY <1>1, <1>2 DEF ListTypes

\* The types hold at the start.
LEMMA InitTypeOK == Init => TypeOK
<1> SUFFICES ASSUME Init  PROVE TypeOK
  OBVIOUS
<1>1. friends \subseteq Contact /\ base \subseteq Contact /\ requests \subseteq Request
  BY DEF Init
<1>2. /\ found \in [Contact -> {"none", "friend", "stranger"}]
      /\ orphans \in [Contact -> Nat]
  BY DEF Init
<1> QED  BY <1>1, <1>2 DEF Init, TypeOK

\* They are kept where a session begins or ends.
LEMMA SessionType ==
    ASSUME TypeOK, SignOn \/ SignOff \/ CbApiConnect \/ CbApiError
    PROVE  TypeOK'
<1>1. PageRequest(0, {}) \in Request
  BY PageRequestType, ContactsAssumption
<1>2. CASE SignOn
  BY <1>1, <1>2 DEF SignOn, Reset, TypeOK
<1>3. CASE SignOff
  BY <1>3 DEF SignOff, Reset, TypeOK
<1>4. CASE CbApiConnect
  BY <1>4 DEF CbApiConnect, TypeOK, listVars
<1>5. CASE CbApiError
  BY <1>5 DEF CbApiError, TypeOK, listVars
<1> QED  BY <1>2, <1>3, <1>4, <1>5

\* They are kept by the answer with a page.
LEMMA PageKeepsTypes ==
    ASSUME TypeOK, NEW r \in requests, ReadPage(r)
    PROVE  TypeOK'
<1>0. r \in requests /\ ReadPage(r) /\ TypeOK
  OBVIOUS
<1>1. requests' \subseteq Request /\ timer' \in BOOLEAN /\ opening' \in BOOLEAN
  <2>1. PICK last \in r.after + 1..NUsers, known \in SUBSET Contact, rest \in SUBSET Request :
                 /\ rest = (requests \ {r}) \cup NextPage(last, known)
                 /\ \/ /\ last # NUsers
                       /\ UNCHANGED <<timer, opening, silent>> /\ requests' = rest
                    \/ /\ last = NUsers /\ silent' = TRUE
                       /\ UNCHANGED <<timer, opening>> /\ requests' = rest
                    \/ /\ last = NUsers /\ silent' = FALSE
                       /\ timer' = TRUE /\ requests' = Armed(rest)
                       /\ opening' = (opening \/ state # "connected")
    BY <1>0, PageRead, Zenon
  <2>2. Armed(rest) \subseteq Request
    BY ArmedType
  <2> QED  BY <2>1, <2>2 DEF TypeOK
<1>2. ListTypes'
  <2>1. ListTypes
    BY DEF TypeOK, ListTypes
  <2> QED  BY <2>1, ListPageType DEF ReadPage
<1>3. base' \subseteq Contact /\ cursor' \in BOOLEAN
  <2>1. r.base \subseteq Contact
    BY RequestType DEF TypeOK, PageType, DeltaType
  <2>2. r.after \in Nat
    <3>1. r.after \in 0..NUsers - 1
      BY <1>0, PageRead, Zenon
    <3> QED  BY <3>1, ContactsAssumption
  <2> QED
    BY <2>1, <2>2, ContactsAssumption DEF ReadPage, TypeOK, Contact, User
<1> QED  BY <1>1, <1>2, <1>3 DEF ReadPage, TypeOK, ListTypes

\* They are kept by the answer with changes, which leaves the other requests.
LEMMA DeltaRead ==
    ASSUME TypeOK, NEW r \in requests, ReadDelta(r)
    PROVE  TypeOK' /\ \E rest \in SUBSET Request :
                         requests \ {r} \subseteq rest /\ requests' = Armed(rest)
<1> PICK part \in SUBSET ((friends \ r.base) \cup (r.base \ friends)) :
          LET added   == friends \ r.base
              removed == r.base \ friends
              all  == part = added \cup removed
              rest == (requests \ {r}) \cup IF all THEN {} ELSE {PageRequest(0, {})}
          IN  /\ cursor' = TRUE
              /\ base' = (r.base \cup (added \cap part)) \ (removed \cap part)
              /\ ListDelta(added \cap part, removed \cap part)
              /\ timer' = TRUE
              /\ requests' = Armed(rest)
              /\ silent' = FALSE
              /\ UNCHANGED <<friends, connVars, overlap>>
  BY DEF ReadDelta
<1>1. r.base \subseteq Contact
  BY RequestType DEF TypeOK, PageType, DeltaType
<1>2. PageRequest(0, {}) \in Request
  BY PageRequestType, ContactsAssumption
<1>3. PICK rest \in SUBSET Request : requests \ {r} \subseteq rest /\ requests' = Armed(rest)
  BY <1>2 DEF TypeOK
<1>4. requests' \subseteq Request
  BY <1>3, ArmedType
<1>5. ListTypes'
  <2>1. ListTypes
    BY DEF TypeOK, ListTypes
  <2> QED  BY <2>1, ListDeltaType
<1>6. base' \subseteq Contact
  BY <1>1 DEF TypeOK
<1>7. TypeOK'
  BY <1>4, <1>5, <1>6 DEF TypeOK, ListTypes, connVars
<1> QED  BY <1>3, <1>7

\* And so by every step.
LEMMA NextTypeOK == TypeOK /\ [Next]_vars => TypeOK'
<1> SUFFICES ASSUME TypeOK, [Next]_vars
             PROVE  TypeOK'
  OBVIOUS
<1>1. CASE SignOn \/ UserSignOff \/ DisconnectCb \/ CbApiConnect \/ CbApiError
  BY <1>1, SessionType DEF UserSignOff, DisconnectCb
<1>2. CASE Reply
  <2>1. ASSUME NEW r \in requests, RequestFails(r)
        PROVE  TypeOK'
    BY <2>1 DEF RequestFails, TypeOK, listVars
  <2> QED  BY <1>2, <2>1, PageKeepsTypes, DeltaRead DEF Reply
<1>3. CASE SyncContacts
  <2>1. ContactsRequest \in Request
    <3>1. PageRequest(0, {}) \in Request
      BY PageRequestType, ContactsAssumption
    <3>2. DeltaRequest \in Request
      BY RequestType DEF DeltaRequest, DeltaType, TypeOK
    <3> QED  BY <3>1, <3>2 DEF ContactsRequest
  <2> QED  BY <1>3, <2>1 DEF SyncContacts, TypeOK, listVars, connVars
<1>4. ASSUME NEW u \in Contact, ReadContact(u)
      PROVE  TypeOK'
  BY <1>4 DEF ReadContact, TypeOK, connVars
<1>5. ASSUME NEW u \in Contact, Befriend(u) \/ Unfriend(u)
      PROVE  TypeOK'
  BY <1>5 DEF Befriend, Unfriend, TypeOK, listVars, connVars
<1>6. CASE UNCHANGED vars
  BY <1>6 DEF vars, TypeOK, listVars, connVars
<1> QED  BY <1>1, <1>2, <1>3, <1>4, <1>5, <1>6 DEF Next

\* The data of a synchronisation stay within their types.
THEOREM ContactTypes == Spec => []TypeOK
BY InitTypeOK, NextTypeOK, PTL DEF Spec

-----------------------------------------------------------------------------
(* Synchronisation goes on.                                                *)

\* Nothing of a session is left without one.
NothingLeft == state = "offline" => requests = {} /\ ~opening /\ ~timer

\* Before the stream is being opened, there are only pages to wait for.
PagesOnly ==
    state = "connecting" /\ ~opening => ~timer /\ \A r \in requests : r.kind = "page"

SyncInv == NothingLeft /\ PagesOnly /\ SyncAlive /\ SignOnUnderWay

\* Nothing is to be synchronised yet.
LEMMA InitSync == Init => SyncInv
BY DEF Init, SyncInv, NothingLeft, PagesOnly, SyncAlive, SignOnUnderWay

\* After an answer the reading goes on or the timer of the next one runs.
LEMMA ReplySync ==
    ASSUME TypeOK, SyncInv, Reply
    PROVE  SyncInv'
<1> USE DEF SyncInv, NothingLeft
<1> PICK r \in requests : ReadPage(r) \/ ReadDelta(r) \/ RequestFails(r)
  BY DEF Reply
<1>1. CASE ReadPage(r)
  <2>1. PICK last \in r.after + 1..NUsers, known \in SUBSET Contact, rest \in SUBSET Request :
                 /\ rest = (requests \ {r}) \cup NextPage(last, known)
                 /\ \/ /\ last # NUsers
                       /\ UNCHANGED <<timer, opening, silent>> /\ requests' = rest
                    \/ /\ last = NUsers /\ silent' = TRUE
                       /\ UNCHANGED <<timer, opening>> /\ requests' = rest
                    \/ /\ last = NUsers /\ silent' = FALSE
                       /\ timer' = TRUE /\ requests' = Armed(rest)
                       /\ opening' = (opening \/ state # "connected")
    BY <1>1, PageRead
  <2>2. UNCHANGED <<state, failed>> /\ state # "offline"
    BY <1>1, PageRead
  <2>3. \A q \in NextPage(last, known) : q.kind = "page"
    BY DEF NextPage, PageRequest
  <2>4. CASE last # NUsers /\ UNCHANGED <<timer, opening, silent>> /\ requests' = rest
    <3>1. PageRequest(last, known) \in requests' /\ PageRequest(last, known).kind = "page"
      BY <2>1, <2>4 DEF NextPage, PageRequest
    <3> QED  BY <2>1, <2>2, <2>3, <2>4, <3>1 DEF PagesOnly, SyncAlive, SignOnUnderWay
  <2>5. CASE silent' = TRUE /\ UNCHANGED <<timer, opening>> /\ requests' = rest
    BY <2>1, <2>2, <2>3, <2>5 DEF PagesOnly, SyncAlive, SignOnUnderWay
  <2>6. CASE timer' = TRUE /\ opening' = (opening \/ state # "connected")
    <3>1. opening \in BOOLEAN
      BY DEF TypeOK
    <3> QED  BY <2>2, <2>6, <3>1 DEF PagesOnly, SyncAlive, SignOnUnderWay
  <2> QED  BY <2>1, <2>4, <2>5, <2>6
<1>2. CASE ReadDelta(r)
  <2>1. PICK rest \in SUBSET Request : requests \ {r} \subseteq rest /\ requests' = Armed(rest)
    BY <1>2, DeltaRead
  <2>2. r.kind = "delta" /\ timer' = TRUE /\ UNCHANGED <<state, failed, opening>>
        /\ state # "offline"
    BY <1>2 DEF ReadDelta, connVars
  <2>3. SyncAlive'
    BY <2>2 DEF SyncAlive
  <2>4. ~(state = "connecting" /\ ~opening)
    BY <2>2 DEF PagesOnly
  <2> QED  BY <2>2, <2>3, <2>4 DEF PagesOnly, SignOnUnderWay
<1>3. CASE RequestFails(r)
  BY <1>3 DEF RequestFails, PagesOnly, SyncAlive, SignOnUnderWay
<1> QED  BY <1>1, <1>2, <1>3

\* Every step keeps the synchronisation alive.
LEMMA NextSync == TypeOK /\ SyncInv /\ [Next]_vars => SyncInv'
<1> SUFFICES ASSUME TypeOK, SyncInv, [Next]_vars
             PROVE  SyncInv'
  OBVIOUS
<1> USE DEF SyncInv, NothingLeft, PagesOnly, SyncAlive, SignOnUnderWay
<1>1. CASE SignOn
  BY <1>1 DEF SignOn, Reset, PageRequest
<1>2. CASE UserSignOff \/ DisconnectCb
  BY <1>2 DEF UserSignOff, DisconnectCb, SignOff, Reset
<1>3. CASE CbApiConnect \/ CbApiError
  BY <1>3 DEF CbApiConnect, CbApiError
<1>4. CASE Reply
  BY <1>4, ReplySync
<1>5. CASE SyncContacts
  BY <1>5 DEF SyncContacts, connVars
<1>6. ASSUME NEW u \in Contact, ReadContact(u) \/ Befriend(u) \/ Unfriend(u)
      PROVE  SyncInv'
  BY <1>6 DEF ReadContact, Befriend, Unfriend, connVars
<1>7. CASE UNCHANGED vars
  BY <1>7 DEF vars, connVars
<1> QED  BY <1>1, <1>2, <1>3, <1>4, <1>5, <1>6, <1>7 DEF Next

\* Wherever the server lists the account itself, an account online that has
\* reported no error waits for contacts or has the timer to ask for them, unless
\* the last reading ended with a page that was passed on to nobody.
THEOREM SyncGoesOn == Spec => []SyncAlive
<1>1. TypeOK /\ SyncInv /\ [Next]_vars => SyncInv'
  BY NextSync
<1> QED  BY <1>1, InitTypeOK, NextTypeOK, InitSync, PTL DEF Spec, SyncInv

\* A sign-on that has not opened its stream has a page under way, and so goes on
\* or fails, unless its reading ended with a page that was passed on to nobody.
THEOREM SignOnGoesOn == Spec => []SignOnUnderWay
<1>1. TypeOK /\ SyncInv /\ [Next]_vars => SyncInv'
  BY NextSync
<1> QED  BY <1>1, InitTypeOK, NextTypeOK, InitSync, PTL DEF Spec, SyncInv

-----------------------------------------------------------------------------
(* The list holds what the server takes it to hold.                        *)

\* One request at a time, as long as none was started during another.
Alone == ~overlap => \A p, q \in requests : p = q

ListInv == Alone /\ ListHoldsBase

\* Nothing has been read yet.
LEMMA InitList == Init => ListInv
BY DEF Init, ListInv, Alone, ListHoldsBase

\* Nor does what they start from change.
LEMMA ArmedBase ==
    ASSUME NEW rs \in SUBSET Request
    PROVE  \A a \in Armed(rs) : \E r \in rs : a.base = r.base
<1>1. ASSUME NEW r \in rs
      PROVE  [r EXCEPT !.old = TRUE].base = r.base
  <2>1. CASE r \in PageType
    BY <2>1 DEF PageType
  <2>2. CASE r \in DeltaType
    BY <2>2 DEF DeltaType
  <2> QED  BY <2>1, <2>2, RequestType
<1> QED  BY <1>1 DEF Armed

\* An answer that leaves at most one request, whose base is on the list like
\* the base that is kept, keeps the invariant.
LEMMA AnsweredList ==
    ASSUME NEW rest \in SUBSET Request, NEW known \in SUBSET Contact,
           requests' = rest \/ requests' = Armed(rest),
           \A p, q \in rest : p = q,
           \A q \in rest : q.base \subseteq known,
           base' \subseteq known,
           \A u \in known : found'[u] = "friend"
    PROVE  ListInv'
<1>1. \A p, q \in Armed(rest) : p = q
  BY DEF Armed
<1>2. \A q \in requests' : q.base \subseteq known
  BY ArmedBase
<1>3. Alone'
  BY <1>1 DEF Alone
<1>4. ListHoldsBase'
  BY <1>2 DEF ListHoldsBase
<1> QED  BY <1>3, <1>4 DEF ListInv

\* The users of a page come onto the list as well as into what is known.
LEMMA PageKeepsList ==
    ASSUME TypeOK, ListInv, NEW r \in requests, ReadPage(r)
    PROVE  ListInv'
<1>1. CASE overlap
  BY <1>1 DEF ReadPage, ListInv, Alone, ListHoldsBase
<1>2. CASE ~overlap
  <2> DEFINE last == IF r.after + PageSize < NUsers THEN r.after + PageSize ELSE NUsers
             users == {u \in r.after + 1..last : u \in friends \cup {Self}}
             known == r.base \cup (users \ {Self})
             rest == (requests \ {r}) \cup NextPage(last, known)
  <2>1. /\ r.kind = "page" /\ ListPage(users \ {Self})
        /\ requests' = rest \/ requests' = Armed(rest)
        /\ base' = known \/ base' = base
    BY DEF ReadPage
  <2>2. r \in PageType
    BY <2>1, RequestType DEF TypeOK, DeltaType
  <2>3. known \subseteq Contact
    BY <2>2, ContactsAssumption DEF PageType, Contact, User
  <2>4. requests = {r}
    BY <1>2 DEF ListInv, Alone
  <2>5. \A u \in known \cup base : found'[u] = "friend"
    <3>1. \A u \in r.base \cup base : u \in Contact /\ found[u] = "friend"
      BY <1>2, <2>2 DEF ListInv, ListHoldsBase, PageType, TypeOK
    <3>2. \A u \in users \ {Self} : u \in Contact
      BY <2>3
    <3> HIDE DEF users
    <3> QED  BY <2>1, <3>1, <3>2 DEF ListPage
  <2>6. rest = {} \/ rest = {PageRequest(last, known)}
    BY <2>4 DEF NextPage
  <2>7. rest \subseteq Request
    BY <2>1, <2>2, PageNext
  <2> HIDE DEF last, known, rest
  <2>8. \A q \in rest : q.base = known
    BY <2>6 DEF PageRequest
  <2>9. known \cup base \in SUBSET Contact
    BY <2>3 DEF TypeOK
  <2> QED  BY <2>1, <2>5, <2>6, <2>7, <2>8, <2>9, AnsweredList
<1> QED  BY <1>1, <1>2

\* So do users added by a delta, and those removed leave both.
LEMMA DeltaKeepsList ==
    ASSUME TypeOK, ListInv, NEW r \in requests, ReadDelta(r)
    PROVE  ListInv'
<1>1. CASE overlap
  BY <1>1 DEF ReadDelta, ListInv, Alone, ListHoldsBase
<1>2. CASE ~overlap
  <2>1. PICK part \in SUBSET ((friends \ r.base) \cup (r.base \ friends)) :
            LET added   == friends \ r.base
                removed == r.base \ friends
                all  == part = added \cup removed
                rest == (requests \ {r}) \cup IF all THEN {} ELSE {PageRequest(0, {})}
            IN  /\ base' = (r.base \cup (added \cap part)) \ (removed \cap part)
                /\ ListDelta(added \cap part, removed \cap part)
                /\ requests' = Armed(rest)
    BY DEF ReadDelta
  <2>2. r.base \subseteq Contact /\ friends \subseteq Contact
    BY RequestType DEF TypeOK, PageType, DeltaType
  <2>3. requests = {r}
    BY <1>2 DEF ListInv, Alone
  <2>4. \A u \in r.base : found[u] = "friend"
    BY <1>2 DEF ListInv, ListHoldsBase
  <2>5. base' \subseteq Contact /\ \A u \in base' : found'[u] = "friend"
    BY <2>1, <2>2, <2>4 DEF ListDelta
  <2>6. PICK rest \in SUBSET {PageRequest(0, {})} : requests' = Armed(rest)
    BY <2>1, <2>3
  <2>7. rest \subseteq Request /\ \A q \in rest : q.base = {}
    BY PageRequestType, ContactsAssumption DEF PageRequest
  <2> QED  BY <2>5, <2>6, <2>7, AnsweredList
<1> QED  BY <1>1, <1>2

\* Every step keeps what a request starts from on the list.
LEMMA NextList == TypeOK /\ ListInv /\ [Next]_vars => ListInv'
<1> SUFFICES ASSUME TypeOK, ListInv, [Next]_vars
             PROVE  ListInv'
  OBVIOUS
<1> USE DEF ListInv, Alone, ListHoldsBase
<1>1. CASE SignOn
  BY <1>1 DEF SignOn, Reset, PageRequest
<1>2. CASE UserSignOff \/ DisconnectCb
  BY <1>2 DEF UserSignOff, DisconnectCb, SignOff, Reset
<1>3. CASE CbApiConnect \/ CbApiError
  BY <1>3 DEF CbApiConnect, CbApiError, listVars
<1>4. CASE Reply
  <2>1. ASSUME NEW r \in requests, RequestFails(r)
        PROVE  ListInv'
    BY <2>1 DEF RequestFails, listVars
  <2> QED  BY <1>4, <2>1, PageKeepsList, DeltaKeepsList DEF Reply
<1>5. CASE SyncContacts
  <2>1. ContactsRequest.base \subseteq base
    BY DEF ContactsRequest, DeltaRequest, PageRequest
  <2>2. requests' = requests \cup {ContactsRequest} /\ UNCHANGED <<base, found>>
        /\ overlap' = (overlap \/ requests # {})
    BY <1>5 DEF SyncContacts, listVars
  <2>3. CASE ~overlap'
    <3>1. ~overlap /\ requests' = {ContactsRequest}
      BY <2>2, <2>3
    <3> QED  BY <2>1, <2>2, <3>1
  <2>4. CASE overlap'
    BY <2>4
  <2> QED  BY <2>3, <2>4
<1>6. ASSUME NEW u \in Contact, ReadContact(u)
      PROVE  ListInv'
  <2>1. \A v \in Contact : found[v] = "friend" => found'[v] = "friend"
    BY <1>6 DEF ReadContact, TypeOK
  <2>2. base \subseteq Contact /\ \A r \in requests : r.base \subseteq Contact
    BY RequestType DEF TypeOK, PageType, DeltaType
  <2> QED  BY <1>6, <2>1, <2>2 DEF ReadContact
<1>7. ASSUME NEW u \in Contact, Befriend(u) \/ Unfriend(u)
      PROVE  ListInv'
  BY <1>7 DEF Befriend, Unfriend, listVars
<1>8. CASE UNCHANGED vars
  BY <1>8 DEF vars, listVars
<1> QED  BY <1>1, <1>2, <1>3, <1>4, <1>5, <1>6, <1>7, <1>8 DEF Next

\* Whoever the server counts as known to the account is on its list among the
\* friends, as long as no request was started during another.
THEOREM BaseIsListed == Spec => []ListHoldsBase
<1>1. ListInv => ListHoldsBase
  BY DEF ListInv
<1> QED  BY <1>1, InitTypeOK, NextTypeOK, InitList, NextList, PTL DEF Spec
=============================================================================
