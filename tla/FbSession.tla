------------------------------ MODULE FbSession ------------------------------
(***************************************************************************)
(* One Facebook account online: the protocol plugin (facebook.c), the API  *)
(* (api.c) on top of the MQTT stream (mqtt.c), the PurpleConnection that   *)
(* libpurple keeps for the account (connection.c), and the server.  A step *)
(* is one dispatch of the GLib main loop with every signal handler it      *)
(* reaches, or a step of the user, the network or the server.              *)
(*                                                                         *)
(* The sequence id is abstracted to whether it is known (0 means it is     *)
(* not), the sync token to whether it is there, the access token to what   *)
(* it is good for, a message to its number in the order of sending.  The   *)
(* publications that only announce (foreground state, subscriptions,       *)
(* get_diffs, read marks) count as a write.                                *)
(***************************************************************************)
EXTENDS FbMqttOps, Naturals, SequencesExt

CONSTANTS
    MaxMessages,  \* bound: messages the user sends
    MaxQueries,   \* bound: sequence id queries outstanding at a time
    MaxToggles,   \* bound: times the user switches (in)visibility or whether
                  \* the password is to be remembered
    OmitSeqId,    \* may a sync push come without lastIssuedSeqId?
    Nonfatal      \* may error 509, "invalid attachment id", answer a request
                  \* that has nothing to do with an attachment?

ASSUME SessionAssumption ==
    /\ MaxMessages \in Nat
    /\ MaxQueries \in Nat \ {0}
    /\ MaxToggles \in Nat
    /\ OmitSeqId \in BOOLEAN
    /\ Nonfatal \in BOOLEAN

VARIABLES
    acct,      \* state of the PurpleConnection, "disconnected" without one
    error,     \* the PurpleConnection has an error_info
    saved,     \* token and stoken as the account settings keep them, and
               \* (history) whether the password was to be remembered then
    http,      \* the login request that is outstanding, or what became of it
    mqtt,      \* the FbMqtt object, as in FbMqttOps
    token,     \* priv->token
    stoken,    \* priv->stoken # NULL
    sid,       \* priv->sid, 1 for any sequence id that is not 0
    retrying,  \* priv->retrying
    queries,   \* sequence id queries outstanding
    msgs,      \* priv->msgs
    server,    \* requests on the current stream the server has still to answer
    flight,    \* messages published and not yet answered, oldest first
    log,       \* messages the server has taken, each once
    sent,      \* messages the user has sent so far
    toggles,   \* times the user has switched one or the other
    remember   \* purple_account_get_remember_password

acctVars   == <<acct, error, saved, http>>
apiVars    == <<token, stoken, sid, retrying, queries, msgs>>
serverVars == <<server, flight, log>>
userVars   == <<sent, toggles, remember>>
vars == <<acctVars, mqtt, apiVars, serverVars, userVars>>

Message == 1..MaxMessages
\* NULL, the empty string, or what the server has issued.
Tokens == {"none", "empty", "issued"}

\* What a login waits for.  "unheard": the last page of the contacts has come
\* and fb_api_cb_contacts told nobody that it was the last.  "absent":
\* fb_login gave up before it created anything.
LoginStages == {"none", "auth", "contacts", "unheard", "absent"}

Copy == [msg : Message, state : {"sent", "taken", "refused"}]

TypeOK ==
    /\ acct \in {"disconnected", "connecting", "connected"}
    /\ error \in BOOLEAN
    /\ saved \in [token : Tokens, stoken : BOOLEAN, remembered : BOOLEAN]
    /\ http \in LoginStages
    /\ mqtt \in MqttType
    /\ token \in Tokens /\ stoken \in BOOLEAN
    /\ sid \in 0..1
    /\ retrying \in BOOLEAN
    /\ queries \in 0..MaxQueries
    /\ msgs \in Seq(Message)
    /\ server \subseteq {"connect", "create", "diffs", "ping"}
    /\ flight \in Seq(Copy)
    /\ log \in Seq(Message)
    /\ sent \in 0..MaxMessages
    /\ toggles \in 0..MaxToggles
    /\ remember \in BOOLEAN

Init ==
    /\ acct = "disconnected" /\ error = FALSE /\ http = "none"
    /\ remember \in BOOLEAN
    /\ saved = [token |-> "none", stoken |-> FALSE, remembered |-> remember]
    /\ mqtt = NewMqtt
    /\ token = "none" /\ stoken = FALSE /\ sid = 0
    /\ retrying = FALSE /\ queries = 0 /\ msgs = <<>>
    /\ server = {} /\ flight = <<>> /\ log = <<>>
    /\ sent = 0 /\ toggles = 0

-----------------------------------------------------------------------------
(* Parts of handlers.  m is the stream as the handler finds it.            *)

\* fb_cb_api_error and purple_connection_error: the first error stays, and
\* an idle callback that disconnects the account is scheduled.
ApiError == error' = TRUE

\* What fb_data_save writes: the empty string in the place of the token when
\* the password is not to be remembered.
Settings(t, s) == [token |-> IF remember THEN t ELSE "empty",
                   stoken |-> s, remembered |-> remember]

SaveData == saved' = Settings(token', stoken')

\* An answer fb_api_http_chk or fb_api_json_chk takes for an error: the sync
\* queue is gone (then fb_cb_api_error saves the reset data), the token is
\* refused, or anything else; error 509 is not reported.
ApiFailure ==
    \/ ApiError /\ UNCHANGED token /\ stoken' = FALSE /\ SaveData
    \/ /\ \/ ApiError
          \/ Nonfatal /\ UNCHANGED error
       /\ \/ UNCHANGED <<token, stoken>>
          \/ token' = "none" /\ stoken' = FALSE
       /\ UNCHANGED saved

\* fb_api_connect.  Without a GSocketClient fb_mqtt_open emits an error; the
\* handler tries once more if it may (leaving retrying set), and then gives up.
ApiConnect(m, retry) ==
    /\ server' = {}
    /\ \/ mqtt' = Open(m) /\ retrying' = retry /\ UNCHANGED error
       \/ mqtt' = Close(m) /\ retrying' = TRUE /\ ApiError

\* Mutant: the second error is not reported.
StreamErrorSilent(m, kept) ==
    IF ~retrying
    THEN ApiConnect(m, TRUE)
    ELSE mqtt' = kept /\ UNCHANGED <<error, retrying, server>>

\* fb_api_cb_mqtt_error: reopen once, the next time report.  kept is the
\* stream as the function that raised the error leaves it.
StreamError(m, kept) ==
    IF ~retrying
    THEN ApiConnect(m, TRUE)
    ELSE mqtt' = kept /\ ApiError /\ UNCHANGED <<retrying, server>>

\* fb_mqtt_take_error with any error but the one of a cancelled operation,
\* for which see CbStale.
TakeError(m) == StreamError(m, m)

\* Mutant: does not save the sync token.
ApiConnectedUnsaved == acct' = "connected" /\ UNCHANGED saved

\* fb_cb_api_connect.
ApiConnected == acct' = "connected" /\ SaveData

\* fb_api_message_send: published only on an established stream.
MessageSend(m, copies, msg) ==
    IF Connected(m)
    THEN Append(copies, [msg |-> msg, state |-> "sent"])
    ELSE copies

\* Mutant: does not resend the message at the head of the queue.
ConnectQueueOnly(m, requests, copies) ==
    /\ UNCHANGED <<token, stoken, msgs>>
    /\ flight' = copies
    /\ \/ /\ ~stoken
          /\ server' = IF Connected(m) THEN requests \cup {"create"} ELSE requests
          /\ UNCHANGED <<acct, saved, retrying>>
       \/ /\ stoken
          /\ ApiConnected
          /\ server' = IF Connected(m) THEN requests \cup {"diffs"} ELSE requests
          /\ retrying' = FALSE

\* fb_api_connect_queue: asks for a new sync queue, or resumes the one the
\* token names and resends the oldest message.  requests and copies are the
\* requests and messages under way on the stream.
ConnectQueue(m, requests, copies) ==
    /\ UNCHANGED <<token, stoken, msgs>>
    /\ \/ /\ ~stoken
          /\ server' = IF Connected(m) THEN requests \cup {"create"} ELSE requests
          /\ flight' = copies
          /\ UNCHANGED <<acct, saved, retrying>>
       \/ /\ stoken
          /\ ApiConnected
          /\ server' = IF Connected(m) THEN requests \cup {"diffs"} ELSE requests
          /\ flight' = IF msgs = <<>> THEN copies
                       ELSE MessageSend(m, copies, Head(msgs))
          /\ retrying' = FALSE

\* The account goes offline: fb_close saves (unless there is no FbData to save
\* from) and disconnects, and everything the plugin holds is freed.  What the
\* server got already stays under way.
Shutdown ==
    /\ saved' = IF http = "absent" THEN saved ELSE Settings(token, stoken)
    /\ acct' = "disconnected" /\ error' = FALSE /\ http' = "none"
    /\ mqtt' = Close(Disconnect(mqtt))
    /\ token' = "none" /\ stoken' = FALSE /\ sid' = 0
    /\ retrying' = FALSE /\ queries' = 0 /\ msgs' = <<>>
    /\ server' = {}
    /\ UNCHANGED <<flight, log, userVars>>

-----------------------------------------------------------------------------
(* The account *)

\* purple_account_connect, fb_login and fb_data_load, which finds every string
\* of an earlier session but no access token unless one was to be remembered.
\* Without a proxy resolver fb_login creates nothing.
Login ==
    /\ acct = "disconnected"
    /\ acct' = "connecting"
    /\ \/ /\ token' = saved.token /\ stoken' = saved.stoken
          /\ http' = IF saved.token # "none" /\ saved.stoken /\ remember
                     THEN "contacts" ELSE "auth"
          /\ UNCHANGED error
       \/ /\ http' = "absent"
          /\ ApiError
          /\ UNCHANGED <<token, stoken>>
    /\ UNCHANGED <<saved, mqtt, sid, retrying, queries, msgs,
                   serverVars, userVars>>

\* fb_api_cb_auth and fb_cb_api_auth.
AuthReply ==
    /\ http = "auth"
    /\ \/ /\ token' = "issued"
          /\ http' = "contacts"
          /\ UNCHANGED <<stoken, error>>
          /\ SaveData
       \/ http' = "none" /\ ApiFailure
    /\ UNCHANGED <<acct, mqtt, sid, retrying, queries, msgs,
                   serverVars, userVars>>

\* The last page of the contacts: fb_cb_api_contacts opens the stream if
\* fb_api_cb_contacts tells it that the page is the last, which it may not
\* (FbContacts says when).  The server answers no one without an access token.
ContactsReply ==
    /\ http = "contacts"
    /\ \/ /\ token = "issued"
          /\ http' = "none"
          /\ ApiConnect(mqtt, retrying)
          /\ UNCHANGED <<token, stoken, saved>>
       \/ /\ token = "issued"
          /\ http' = "unheard"
          /\ UNCHANGED <<error, saved, mqtt, token, stoken, retrying, server>>
       \/ /\ http' = "none"
          /\ ApiFailure
          /\ UNCHANGED <<mqtt, retrying, server>>
    /\ UNCHANGED <<acct, sid, queries, msgs, flight, log, userVars>>

\* purple_connection_disconnect_cb, scheduled by the first error.
DisconnectCb == /\ acct # "disconnected"
                /\ error
                /\ Shutdown

\* The user, or the loss of the network, takes the account offline.
GoOffline == /\ acct # "disconnected"
             /\ Shutdown

\* fb_server_set_status to or from invisible reopens the stream.
SetStatus ==
    /\ acct = "connected"
    /\ toggles < MaxToggles
    /\ toggles' = toggles + 1
    /\ ApiConnect(mqtt, retrying)
    /\ UNCHANGED <<acct, saved, http, token, stoken, sid, queries, msgs,
                   flight, log, sent, remember>>

\* The user changes whether the password is to be remembered.
SetRemember ==
    /\ toggles < MaxToggles
    /\ toggles' = toggles + 1
    /\ remember' = ~remember
    /\ UNCHANGED <<acctVars, mqtt, apiVars, serverVars, sent>>

\* Mutant: puts the message at the wrong end of the queue.
SendFirst ==
    /\ acct = "connected"
    /\ sent < MaxMessages
    /\ sent' = sent + 1
    /\ msgs' = <<sent + 1>> \o msgs
    /\ IF msgs = <<>>
       THEN /\ flight' = MessageSend(mqtt, flight, sent + 1)
            /\ mqtt' = Publish(mqtt)
       ELSE UNCHANGED <<flight, mqtt>>
    /\ UNCHANGED <<token, stoken, sid, retrying, queries, acctVars, server, log, toggles,
                   remember>>

\* fb_im_send or fb_chat_send, and fb_api_message.
Send ==
    /\ acct = "connected"
    /\ sent < MaxMessages
    /\ sent' = sent + 1
    /\ msgs' = Append(msgs, sent + 1)
    /\ IF msgs = <<>>
       THEN /\ flight' = MessageSend(mqtt, flight, sent + 1)
            /\ mqtt' = Publish(mqtt)
       ELSE UNCHANGED <<flight, mqtt>>
    /\ UNCHANGED <<token, stoken, sid, retrying, queries, acctVars, server, log, toggles,
                   remember>>

-----------------------------------------------------------------------------
(* Completions of GIO operations and timers (mqtt.c) *)

\* fb_mqtt_cb_open and fb_api_cb_mqtt_open, which fails if the payload of the
\* CONNECT cannot be compressed.
CbOpen ==
    /\ "connect" \in mqtt.ops
    /\ \/ /\ mqtt' = Connect(Opened(mqtt))
          /\ server' = {"connect"}
          /\ UNCHANGED error
       \/ /\ mqtt' = Opened(mqtt)
          /\ ApiError
          /\ UNCHANGED server
    /\ UNCHANGED <<acct, saved, http, apiVars, flight, log, userVars>>

\* What an error of the stream leaves alone.
ErrorFrame ==
    UNCHANGED <<acct, saved, http, token, stoken, sid, queries, msgs,
                flight, log, userVars>>

CbOpenFailed == /\ "connect" \in mqtt.ops
                /\ TakeError(OpenFailed(mqtt))
                /\ ErrorFrame

CbTimeout == /\ mqtt.tev = "timeout"
             /\ StreamError(TimeoutClear(mqtt), TimeoutClear(mqtt))
             /\ ErrorFrame

\* Mutant: does not limit the time for the PINGRESP.
CbPingUntimed == /\ mqtt.tev = "ping"
                 /\ mqtt' = Write(mqtt)
                 /\ server' = server \cup {"ping"}
                 /\ UNCHANGED <<acctVars, apiVars, flight, log, userVars>>

CbPing == /\ mqtt.tev = "ping"
          /\ mqtt' = Timeout(Write(mqtt))
          /\ server' = server \cup {"ping"}
          /\ UNCHANGED <<acctVars, apiVars, flight, log, userVars>>

CbPushed == /\ "write" \in mqtt.ops
            /\ mqtt' = Completed(mqtt, "write")
            /\ UNCHANGED <<acctVars, apiVars, serverVars, userVars>>

CbPushFailed == /\ "write" \in mqtt.ops
                /\ TakeError(Completed(mqtt, "write"))
                /\ ErrorFrame

CbReadFailed == /\ "read" \in mqtt.ops
                /\ TakeError(Completed(mqtt, "read"))
                /\ ErrorFrame

CbStale(op) == /\ op \in mqtt.stale
               /\ mqtt' = [mqtt EXCEPT !.stale = @ \ {op}]
               /\ UNCHANGED <<acctVars, apiVars, serverVars, userVars>>

-----------------------------------------------------------------------------
(* Packets from the server *)

Arrival == "read" \in mqtt.ops

Received == Completed(mqtt, "read")

\* CONNACK that accepts, and fb_api_cb_mqtt_connect.  With the answer to
\* CONNECT the server has dropped what came on an earlier stream.
ReadConnack ==
    /\ Arrival
    /\ mqtt.stream = "open" /\ "connect" \in server
    /\ LET m == Publish(Accepted(Received)) IN
       /\ mqtt' = ReadOn(m)
       /\ \/ /\ sid = 0
             /\ queries < MaxQueries
             /\ queries' = queries + 1
             /\ server' = server \ {"connect"}
             /\ flight' = <<>>
             /\ UNCHANGED <<acct, saved, token, stoken, retrying, msgs>>
          \/ /\ sid # 0
             /\ ConnectQueue(m, server \ {"connect"}, <<>>)
             /\ UNCHANGED queries
    /\ UNCHANGED <<error, http, sid, log, userVars>>

\* CONNACK that refuses, an unknown packet type or a truncated packet.
ReadBad == /\ Arrival
           /\ StreamError(Received, ReadOn(Received))
           /\ ErrorFrame

\* A frame fb_mqtt_message_new_bytes cannot take apart: the reader stops.
ReadMalformed == /\ Arrival
                 /\ StreamError(Received, Received)
                 /\ ErrorFrame

ReadPingresp ==
    /\ Arrival
    /\ "ping" \in server
    /\ server' = server \ {"ping"}
    /\ mqtt' = ReadOn(Ping(Received))
    /\ UNCHANGED <<acctVars, apiVars, flight, log, userVars>>

\* Typing, presence and mark notices, PUBREL and acknowledgements; also when
\* the server sends one too early, before its CONNACK.
ReadOther ==
    /\ Arrival
    /\ mqtt' \in {ReadOn(Received), ReadOn(Write(Received))}
    /\ UNCHANGED <<acctVars, apiVars, serverVars, userVars>>

\* priv->sid after a sync push: 0 when lastIssuedSeqId is missing.
PushedSid == {1} \cup (IF OmitSeqId THEN {0} ELSE {})

\* Mutant: forgets the token.
ReadSyncTokenLost ==
    /\ Arrival /\ Connected(mqtt)
    /\ "create" \in server
    /\ server' = (server \ {"create"}) \cup {"diffs"}
    /\ sid' \in PushedSid
    /\ UNCHANGED <<token, stoken>>
    /\ ApiConnected
    /\ mqtt' = ReadOn(Received)
    /\ UNCHANGED <<error, http, retrying, queries, msgs, flight, log, userVars>>

\* Mutant: does not emit "connect".
ReadSyncTokenQuiet ==
    /\ Arrival /\ Connected(mqtt)
    /\ "create" \in server
    /\ server' = (server \ {"create"}) \cup {"diffs"}
    /\ sid' \in PushedSid
    /\ stoken' = TRUE /\ UNCHANGED token
    /\ mqtt' = ReadOn(Received)
    /\ UNCHANGED <<acctVars, retrying, queries, msgs, flight, log, userVars>>

\* fb_api_cb_publish_ms with the syncToken that answers the create request.
ReadSyncToken ==
    /\ Arrival /\ Connected(mqtt)
    /\ "create" \in server
    /\ server' = (server \ {"create"}) \cup {"diffs"}
    /\ sid' \in PushedSid
    /\ stoken' = TRUE /\ UNCHANGED token
    /\ ApiConnected
    /\ mqtt' = ReadOn(Received)
    /\ UNCHANGED <<error, http, retrying, queries, msgs, flight, log, userVars>>

\* fb_api_cb_publish_ms with deltas of the sync queue the stream was set up
\* with; the plugin may answer with a read mark, or fail to parse them.
ReadDeltas ==
    /\ Arrival /\ Connected(mqtt)
    /\ "diffs" \in server
    /\ sid' \in PushedSid
    /\ mqtt' \in {ReadOn(Received), ReadOn(Publish(Received))}
    /\ UNCHANGED error \/ ApiError
    /\ UNCHANGED <<acct, saved, http, token, stoken, retrying, queries, msgs,
                   serverVars, userVars>>

\* A publication that is an error, on any topic.  The stream is left alone.
ReadApiError ==
    /\ Arrival /\ Connected(mqtt)
    /\ mqtt' = ReadOn(Received)
    /\ ApiFailure
    /\ UNCHANGED <<acct, http, sid, retrying, queries, msgs,
                   serverVars, userVars>>

\* Mutant: does not look whether the message succeeded.
ReadAnySendResult ==
    /\ Arrival /\ Connected(mqtt)
    /\ flight # <<>>
    /\ Head(flight).state \in {"taken", "refused"}
    /\ msgs' = (IF msgs = <<>> THEN msgs ELSE Tail(msgs))
    /\ flight' = IF msgs' = <<>> THEN Tail(flight)
                 ELSE MessageSend(mqtt, Tail(flight), Head(msgs'))
    /\ mqtt' = ReadOn(IF msgs' = <<>> THEN Received ELSE Publish(Received))
    /\ UNCHANGED <<acctVars, token, stoken, sid, retrying, queries, server,
                   log, userVars>>

\* Mutant: does not send the next message.
ReadSendResultOnly ==
    /\ Arrival /\ Connected(mqtt)
    /\ flight # <<>>
    /\ Head(flight).state = "taken"
    /\ msgs' = (IF msgs = <<>> THEN msgs ELSE Tail(msgs))
    /\ flight' = Tail(flight)
    /\ mqtt' = ReadOn(Received)
    /\ UNCHANGED <<acctVars, token, stoken, sid, retrying, queries, server,
                   log, userVars>>

\* fb_api_cb_publish_ms_r: the oldest message is taken to be the one that is
\* answered.
ReadSendResult ==
    /\ Arrival /\ Connected(mqtt)
    /\ flight # <<>>
    /\ \/ /\ Head(flight).state = "taken"
          /\ msgs' = (IF msgs = <<>> THEN msgs ELSE Tail(msgs))
          /\ \/ /\ msgs' = <<>>
                /\ flight' = Tail(flight)
                /\ mqtt' = ReadOn(Received)
             \/ /\ msgs' # <<>>
                /\ flight' = MessageSend(mqtt, Tail(flight), Head(msgs'))
                /\ mqtt' = ReadOn(Publish(Received))
          /\ UNCHANGED <<error, token, stoken, saved>>
       \/ /\ Head(flight).state = "refused"
          /\ flight' = Tail(flight)
          /\ mqtt' = ReadOn(Received)
          /\ ApiFailure
          /\ UNCHANGED msgs
    /\ UNCHANGED <<acct, http, sid, retrying, queries, server, log, userVars>>

-----------------------------------------------------------------------------
(* The HTTP reply to the sequence id query: fb_api_cb_seqid *)

SeqIdReply ==
    /\ queries > 0
    /\ queries' = queries - 1
    /\ \/ /\ sid' = 1
          /\ ConnectQueue(mqtt, server, flight)
          /\ mqtt' = Publish(mqtt)
          /\ UNCHANGED error
       \/ /\ sid' \in {sid, 0}      \* failed, or no sequence id in it
          /\ ApiFailure
          /\ UNCHANGED <<acct, mqtt, retrying, msgs, server, flight>>
    /\ UNCHANGED <<http, log, userVars>>

-----------------------------------------------------------------------------
(* The server *)

\* The next message on the stream is taken or refused; a repetition of the
\* message it took last is taken again, under the new id it was sent with.
ServerTakes ==
    \E i \in DOMAIN flight :
        /\ flight[i].state = "sent"
        /\ \A j \in 1..(i - 1) : flight[j].state # "sent"
        /\ flight' = [flight EXCEPT ![i].state = "taken"]
        /\ log' = IF log # <<>> /\ Last(log) = flight[i].msg THEN log
                  ELSE Append(log, flight[i].msg)
        /\ UNCHANGED <<acctVars, mqtt, apiVars, server, userVars>>

ServerRefuses ==
    \E i \in DOMAIN flight :
        /\ flight[i].state = "sent"
        /\ \A j \in 1..(i - 1) : flight[j].state # "sent"
        /\ flight' = [flight EXCEPT ![i].state = "refused"]
        /\ UNCHANGED <<acctVars, mqtt, apiVars, server, log, userVars>>

-----------------------------------------------------------------------------

Next ==
    \/ Login \/ AuthReply \/ ContactsReply \/ DisconnectCb \/ GoOffline
    \/ SetStatus \/ SetRemember \/ Send
    \/ CbOpen \/ CbOpenFailed \/ CbTimeout \/ CbPing
    \/ CbPushed \/ CbPushFailed \/ CbReadFailed
    \/ \E op \in AsyncOps : CbStale(op)
    \/ ReadConnack \/ ReadBad \/ ReadMalformed \/ ReadPingresp \/ ReadOther
    \/ ReadSyncToken \/ ReadDeltas \/ ReadApiError \/ ReadSendResult
    \/ SeqIdReply
    \/ ServerTakes \/ ServerRefuses

Spec == Init /\ [][Next]_vars

\* What GLib and libsoup guarantee: timers and idle callbacks are dispatched,
\* and an HTTP request is answered or fails.
LocalFairness ==
    /\ WF_vars(DisconnectCb) /\ WF_vars(CbTimeout) /\ WF_vars(CbPing)
    /\ WF_vars(AuthReply) /\ WF_vars(ContactsReply) /\ WF_vars(SeqIdReply)

\* A server that answers what it is asked.  Streams may fail again and again,
\* so what is asked anew on each of them needs strong fairness: in the end one
\* stream lasts long enough.
ServerFairness ==
    /\ WF_vars(ReadSyncToken)
    /\ SF_vars(Connected(mqtt) /\ ServerTakes) /\ SF_vars(ReadSendResult)

LocalSpec == Spec /\ LocalFairness

FairSpec == LocalSpec /\ ServerFairness

-----------------------------------------------------------------------------
(* Properties *)

\* The send queue never stalls: on an established stream, with no error
\* reported and no sequence id query outstanding (whose reply resends), the
\* message at the head is under way.
HeadUnderWay ==
    Connected(mqtt) /\ ~error /\ queries = 0 /\ msgs # <<>>
        => \E i \in DOMAIN flight : flight[i].msg = Head(msgs)

\* Only the path of fb_api_connect_queue with a token resends the queue: as
\* long as no error has been reported, messages wait only where there is one.
QueueHasToken == msgs # <<>> /\ ~error => stoken

\* A connected account has the two tokens it can be resumed with, and so have
\* the settings, or everything but the access token if the password was not to
\* be remembered when they were written.
Resumable ==
    acct = "connected" /\ ~error
        => /\ token = "issued" /\ stoken
           /\ saved.stoken
           /\ saved.token = IF saved.remembered THEN "issued" ELSE "empty"

\* The message at the head has been confirmed, or the session has ended.
PopIsTrue ==
    msgs' # msgs /\ acct' # "disconnected" /\ sent' = sent
        => Head(msgs) \in Range(log)

\* A message leaves the queue only when the server has taken it, unless the
\* session ends.
PopsOnlyTaken == [][PopIsTrue]_vars

\* A single publication is under way, so that there is no question which one
\* an acknowledgement answers.
Unambiguous == Len(flight) = 1

\* A message leaves the queue only when the server has taken it, unless the
\* session ends or several publications were under way.
PopsTakenAlone == [][Unambiguous => PopIsTrue]_vars

\* "connect" of FbApi means the connection process is complete.
ConnectMeansEstablished ==
    [][acct = "connecting" /\ acct' = "connected" => Connected(mqtt')]_vars


\* A peer that answers no ping is noticed: the stream is given up.
DeadPeerNoticed == "ping" \in server ~> "ping" \notin server

\* With a server that answers, signing on succeeds or fails in the end, if the
\* plugin gets to know that the contacts are complete.
LoginEnds == acct = "connecting" ~> acct # "connecting" \/ http = "unheard"

\* With a server that answers, every message leaves the queue in the end,
\* across any number of failing streams, and unless the session ended the
\* server has it.
Drains ==
    \A m \in Message :
        m \in Range(msgs) ~> \/ acct = "disconnected"
                             \/ m \notin Range(msgs) /\ m \in Range(log)

SendQueue == INSTANCE FbSendQueue WITH queue <- msgs

\* The acknowledgement of one of several publications pops the head.
Overtaken == /\ Len(flight) > 1 /\ msgs # <<>>
             /\ msgs' = Tail(msgs)
             /\ UNCHANGED <<sent, log>>

\* The session is an FbSendQueue but for what such acknowledgements pop.
SendQueueImplemented ==
    SendQueue!Init /\ [][SendQueue!Next \/ Overtaken]_(SendQueue!vars)

Stream == INSTANCE FbMqtt WITH reported <- error
StreamImplemented == Stream!Spec
=============================================================================
