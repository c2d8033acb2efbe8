--------------------------- MODULE FbSessionProofs ---------------------------
(***************************************************************************)
(* Theorems about an account online, for any number of messages, queries   *)
(* and status changes.                                                     *)
(***************************************************************************)
EXTENDS FbSession, FbMqttOpsProofs, SequenceTheorems

-----------------------------------------------------------------------------
(* The account uses its stream as FbMqtt allows.                            *)

\* The operators of the instance Stream are those of FbMqttOps.
LEMMA SameOps ==
    ASSUME NEW m
    PROVE  /\ Stream!Connected(m) = Connected(m)
           /\ Stream!TimeoutClear(m) = TimeoutClear(m)
           /\ Stream!Timeout(m) = Timeout(m)
           /\ Stream!Ping(m) = Ping(m)
           /\ Stream!Close(m) = Close(m)
           /\ Stream!Write(m) = Write(m)
           /\ Stream!Open(m) = Open(m)
           /\ Stream!Opened(m) = Opened(m)
           /\ Stream!Connect(m) = Connect(m)
           /\ Stream!Publish(m) = Publish(m)
           /\ Stream!Disconnect(m) = Disconnect(m)
           /\ \A op : Stream!Completed(m, op) = Completed(m, op)
           /\ Stream!OpenFailed(m) = OpenFailed(m)
           /\ Stream!Accepted(m) = Accepted(m)
           /\ Stream!ReadOn(m) = ReadOn(m)
BY DEF Stream!Connected, Stream!TimeoutClear, Stream!Timeout, Stream!Ping,
       Stream!Close, Stream!Write, Stream!Open, Stream!Opened, Stream!Connect,
       Stream!Publish, Stream!Disconnect, Stream!Completed, Stream!OpenFailed,
       Stream!Accepted, Stream!ReadOn,
       Connected, TimeoutClear, Timeout, Ping, Close, Write, Open, Opened,
       Connect, Publish, Disconnect, Completed, OpenFailed, Accepted, ReadOn

\* What the session makes of an error of the stream is a reaction FbMqtt allows.
LEMMA SessionErrors ==
    ASSUME NEW m, NEW k
    PROVE  /\ \A r : ApiConnect(m, r) => Stream!RaiseError(m, k)
           /\ StreamError(m, k) => Stream!RaiseError(m, k)
<1>1. ASSUME NEW r, ApiConnect(m, r) PROVE Stream!RaiseError(m, k)
  BY <1>1, SameOps DEF ApiConnect, ApiError, Stream!RaiseError
<1>2. ASSUME StreamError(m, k) PROVE Stream!RaiseError(m, k)
  BY <1>1, <1>2 DEF StreamError, ApiError, Stream!RaiseError
<1> QED  BY <1>1, <1>2

\* What the plugin does on a failed request is nothing to the stream, or a report.
LEMMA FailureReports == ApiFailure => error' = TRUE \/ UNCHANGED error
BY DEF ApiFailure, ApiError

\* StreamImplemented: whatever session, server and network do, the stream is
\* used as FbMqtt lets an arbitrary client use it.
THEOREM ImplementsStream == Spec => StreamImplemented
<1>1. Init => Stream!Init
  BY DEF Init, Stream!Init, NewMqtt, Stream!NewMqtt
<1>2. [Next]_vars => [Stream!Next]_(Stream!vars)
  <2> SUFFICES ASSUME [Next]_vars
               PROVE  Stream!Next \/ UNCHANGED <<mqtt, error>>
    BY DEF Stream!vars
  <2>1. CASE SetRemember \/ ServerTakes \/ ServerRefuses \/ UNCHANGED vars
    BY <2>1 DEF SetRemember, ServerTakes, ServerRefuses, vars, acctVars
  <2>20. CASE Login
    BY <2>20 DEF Login, ApiError, Stream!Next, Stream!Report
  <2>2. CASE AuthReply
    BY <2>2, FailureReports DEF AuthReply, Stream!Next, Stream!Report
  <2>3. CASE ContactsReply
    <3>1. ASSUME ApiConnect(mqtt, retrying) PROVE Stream!CallOpen
      BY <3>1, SameOps DEF ApiConnect, ApiError, Stream!CallOpen
    <3> QED
      BY <2>3, <3>1, FailureReports
         DEF ContactsReply, Stream!Next, Stream!Report
  <2>4. CASE DisconnectCb \/ GoOffline
    <3>1. Shutdown => Stream!Dispose
      BY SameOps DEF Shutdown, Stream!Dispose
    <3> QED  BY <2>4, <3>1 DEF DisconnectCb, GoOffline, Stream!Next
  <2>5. CASE SetStatus
    BY <2>5, SameOps
       DEF SetStatus, ApiConnect, ApiError, Stream!CallOpen, Stream!Next
  <2>6. CASE Send
    BY <2>6, SameOps DEF Send, acctVars, Stream!CallPublish, Stream!Next
  <2>7. CASE CbOpen
    BY <2>7, SameOps DEF CbOpen, ApiError, Stream!CbOpen, Stream!Next
  <2>8. CASE CbOpenFailed \/ CbPushFailed \/ CbReadFailed \/ CbTimeout
    BY <2>8, SameOps, SessionErrors
       DEF CbOpenFailed, CbPushFailed, CbReadFailed, CbTimeout, TakeError,
           Stream!CbOpenFailed, Stream!CbPushFailed, Stream!CbReadFailed,
           Stream!CbTimeout, Stream!TakeError, Stream!Next
  <2>9. CASE CbPing \/ CbPushed
    BY <2>9, SameOps
       DEF CbPing, CbPushed, acctVars, Stream!CbPing, Stream!CbPushed,
           Stream!Next
  <2>10. ASSUME NEW op \in AsyncOps, CbStale(op) PROVE Stream!Next
    BY <2>10 DEF CbStale, acctVars, Stream!CbStale, Stream!Next, AsyncOps,
                 Stream!AsyncOps
  <2> DEFINE n == Completed(mqtt, "read")
  <2>11. Received = n /\ Stream!Received = n
    BY SameOps DEF Received, Stream!Received
  <2>12. CASE ReadConnack
    <3>1. /\ "read" \in mqtt.ops /\ UNCHANGED error
          /\ mqtt' = ReadOn(Publish(Accepted(n)))
      BY <2>12, <2>11 DEF ReadConnack, Arrival
    <3>2. Stream!ReadConnack
      BY <3>1, <2>11, SameOps DEF Stream!ReadConnack, Stream!Arrival
    <3> QED  BY <3>2 DEF Stream!Next, Stream!Read
  <2>13. CASE ReadBad \/ ReadMalformed
    BY <2>13, <2>11, SameOps, SessionErrors
       DEF ReadBad, ReadMalformed, Arrival, Stream!ReadBad,
           Stream!ReadMalformed, Stream!Arrival, Stream!Next, Stream!Read
  <2>14. CASE ReadPingresp
    BY <2>14, <2>11, SameOps
       DEF ReadPingresp, Arrival, acctVars, Stream!ReadPingresp,
           Stream!Arrival, Stream!Next, Stream!Read
  <2>15. ASSUME /\ "read" \in mqtt.ops
                /\ mqtt' \in {ReadOn(n), ReadOn(Write(n))}
                /\ error' = TRUE \/ UNCHANGED error
         PROVE  Stream!Next
    <3>1. Stream!ReadOther
      BY <2>15, <2>11, SameOps DEF Stream!ReadOther, Stream!Arrival
    <3> QED  BY <3>1 DEF Stream!Next, Stream!Read
  <2>16. ReadOn(Publish(n)) \in {ReadOn(n), ReadOn(Write(n))}
    BY DEF Publish
  <2>17. CASE ReadOther \/ ReadSyncToken \/ ReadApiError
    BY <2>17, <2>11, <2>15, FailureReports
       DEF ReadOther, ReadSyncToken, ReadApiError, Arrival, acctVars
  <2>18. CASE ReadDeltas \/ ReadSendResult
    BY <2>18, <2>11, <2>15, <2>16, FailureReports
       DEF ReadDeltas, ReadSendResult, Arrival, ApiError
  <2>19. CASE SeqIdReply
    BY <2>19, SameOps, FailureReports
       DEF SeqIdReply, Stream!CallPublish, Stream!Report, Stream!Next
  <2> QED
    BY <2>1, <2>2, <2>3, <2>4, <2>5, <2>6, <2>7, <2>8, <2>9, <2>10, <2>12,
       <2>13, <2>14, <2>17, <2>18, <2>19, <2>20 DEF Next
<1> QED  BY <1>1, <1>2, PTL DEF Spec, StreamImplemented, Stream!Spec

-----------------------------------------------------------------------------
(* Types *)

Requests == {"connect", "create", "diffs", "ping"}

Saved == [token : Tokens, stoken : BOOLEAN, remembered : BOOLEAN]

\* Opening or reopening the stream, and what a stream error leads to.
LEMMA ErrorTypes ==
    ASSUME TypeOK, NEW m \in MqttType, NEW k \in MqttType,
           NEW r \in BOOLEAN, ApiConnect(m, r) \/ StreamError(m, k)
    PROVE  /\ mqtt' \in MqttType
           /\ retrying' \in BOOLEAN
           /\ error' \in BOOLEAN
           /\ server' \subseteq Requests
BY OpsType DEF TypeOK, ApiConnect, StreamError, ApiError, Requests

LEMMA SavedTypes ==
    ASSUME TypeOK, NEW t \in Tokens, NEW b \in BOOLEAN
    PROVE  Settings(t, b) \in Saved
BY DEF Settings, Saved, Tokens, TypeOK

\* An answer that reports a failure.
LEMMA FailureTypes ==
    ASSUME TypeOK, ApiFailure
    PROVE  /\ token' \in Tokens /\ stoken' \in BOOLEAN
           /\ error' \in BOOLEAN
           /\ saved' \in Saved
<1>1. token' \in Tokens /\ stoken' \in BOOLEAN
  BY DEF TypeOK, ApiFailure, Tokens
<1>2. error' \in BOOLEAN
  BY DEF TypeOK, ApiFailure, ApiError
<1>3. saved' \in Saved
  BY <1>1, SavedTypes DEF TypeOK, Saved, ApiFailure, SaveData
<1> QED  BY <1>1, <1>2, <1>3

LEMMA SendTypes ==
    ASSUME NEW m, NEW copies \in Seq(Copy), NEW msg \in Message
    PROVE  MessageSend(m, copies, msg) \in Seq(Copy)
<1>1. [msg |-> msg, state |-> "sent"] \in Copy
  BY DEF Copy
<1> QED  BY <1>1, AppendProperties DEF MessageSend

LEMMA ConnectQueueTypes ==
    ASSUME TypeOK, NEW m, NEW requests \in SUBSET Requests,
           NEW copies \in Seq(Copy), ConnectQueue(m, requests, copies)
    PROVE  /\ acct' \in {"disconnected", "connecting", "connected"}
           /\ saved' \in Saved
           /\ retrying' \in BOOLEAN
           /\ server' \subseteq Requests
           /\ flight' \in Seq(Copy)
           /\ UNCHANGED <<token, stoken, msgs>>
<1> USE DEF TypeOK
<1>1. UNCHANGED <<token, stoken, msgs>>
  BY DEF ConnectQueue
<1>2. flight' \in Seq(Copy)
  <2>1. msgs # <<>> => MessageSend(m, copies, Head(msgs)) \in Seq(Copy)
    BY SendTypes
  <2> QED  BY <2>1 DEF ConnectQueue
<1>3. server' \subseteq Requests
  BY DEF ConnectQueue, Requests
<1>4. /\ acct' \in {"disconnected", "connecting", "connected"}
      /\ retrying' \in BOOLEAN
  BY DEF ConnectQueue, ApiConnected
<1>5. saved' \in Saved
  BY <1>1, SavedTypes DEF ConnectQueue, ApiConnected, SaveData, Saved
<1> QED  BY <1>1, <1>2, <1>3, <1>4, <1>5

\* TypeOK holds in every reachable state of a session.
THEOREM SessionTypes == Spec => []TypeOK
<1>1. Init => TypeOK
  <2>1. NewMqtt \in MqttType
    BY DEF NewMqtt, MqttType, Streams, Timers, AsyncOps
  <2>2. Init => saved \in Saved /\ token \in Tokens /\ http \in LoginStages
    BY DEF Init, Saved, Tokens, LoginStages
  <2>3. <<>> \in Seq(Message) /\ <<>> \in Seq(Copy)
    OBVIOUS
  <2>4. FALSE \in BOOLEAN
    OBVIOUS
  <2>5. 0 \in 0..MaxQueries /\ 0 \in 0..MaxMessages /\ 0 \in 0..MaxToggles
    BY SessionAssumption
  <2> SUFFICES ASSUME Init PROVE TypeOK
    OBVIOUS
  <2>6. /\ error \in BOOLEAN /\ stoken \in BOOLEAN
        /\ retrying \in BOOLEAN /\ remember \in BOOLEAN
    BY <2>4 DEF Init
  <2>7. /\ msgs \in Seq(Message) /\ flight \in Seq(Copy) /\ log \in Seq(Message)
    BY <2>3 DEF Init
  <2> QED  BY <2>1, <2>2, <2>5, <2>6, <2>7 DEF Init, TypeOK, Saved
<1>2. TypeOK /\ [Next]_vars => TypeOK'
  <2> SUFFICES ASSUME TypeOK, [Next]_vars PROVE TypeOK'
    OBVIOUS
  <2> USE SessionAssumption DEF TypeOK, Saved
  <2>1. CASE UNCHANGED vars
    BY <2>1 DEF vars, acctVars, apiVars, serverVars, userVars
  <2>2. CASE Login
    <3>1. token' \in Tokens /\ stoken' \in BOOLEAN /\ error' \in BOOLEAN
      BY <2>2 DEF Login, ApiError
    <3>2. http' \in LoginStages
      BY <2>2 DEF Login, LoginStages
    <3> QED  BY <2>2, <3>1, <3>2 DEF Login, serverVars, userVars
  <2>3. CASE AuthReply
    <3>1. /\ token' \in Tokens /\ stoken' \in BOOLEAN
          /\ error' \in BOOLEAN
      BY <2>3, FailureTypes DEF AuthReply, Tokens
    <3>2. saved' \in Saved
      BY <2>3, <3>1, FailureTypes, SavedTypes DEF AuthReply, SaveData
    <3>3. http' \in LoginStages
      BY <2>3 DEF AuthReply, LoginStages
    <3> QED  BY <2>3, <3>1, <3>2, <3>3 DEF AuthReply, serverVars, userVars
  <2>4. CASE ContactsReply
    <3>1. /\ token' \in Tokens /\ stoken' \in BOOLEAN
          /\ error' \in BOOLEAN /\ saved' \in Saved
          /\ mqtt' \in MqttType /\ retrying' \in BOOLEAN
          /\ server' \subseteq Requests
      BY <2>4, FailureTypes, ErrorTypes DEF ContactsReply, Requests
    <3>2. http' \in LoginStages
      BY <2>4 DEF ContactsReply, LoginStages
    <3> QED  BY <2>4, <3>1, <3>2 DEF ContactsReply, userVars, Requests
  <2>5. CASE DisconnectCb \/ GoOffline
    <3>1. Close(Disconnect(mqtt)) \in MqttType
      BY OpsType
    <3>2. /\ saved' \in Saved
          /\ error' \in BOOLEAN /\ token' \in Tokens
          /\ stoken' \in BOOLEAN /\ retrying' \in BOOLEAN
          /\ http' \in LoginStages
      <4>1. FALSE \in BOOLEAN /\ "none" \in Tokens /\ "none" \in LoginStages
        BY DEF Tokens, LoginStages
      <4>2. Settings(token, stoken) \in Saved
        BY SavedTypes
      <4> QED
        BY <2>5, <4>1, <4>2 DEF DisconnectCb, GoOffline, Shutdown
    <3>3. msgs' \in Seq(Message) /\ queries' \in 0..MaxQueries
      <4>1. msgs' = <<>> /\ queries' = 0
        BY <2>5 DEF DisconnectCb, GoOffline, Shutdown
      <4> QED  BY <4>1
    <3> QED
      BY <2>5, <3>1, <3>2, <3>3
         DEF DisconnectCb, GoOffline, Shutdown, userVars
  <2>6. CASE SetStatus
    BY <2>6, ErrorTypes DEF SetStatus, Requests
  <2>7. CASE Send
    <3>1. sent + 1 \in Message /\ sent' \in 0..MaxMessages
      BY <2>7 DEF Send, Message
    <3>2. flight' \in Seq(Copy) /\ mqtt' \in MqttType
      BY <2>7, <3>1, SendTypes, OpsType DEF Send
    <3>3. msgs' \in Seq(Message)
      BY <2>7, <3>1 DEF Send
    <3> QED  BY <2>7, <3>1, <3>2, <3>3 DEF Send, acctVars
  <2>8. CASE CbOpen
    BY <2>8, OpsType DEF CbOpen, ApiError, apiVars, userVars
  <2>9. CASE CbOpenFailed \/ CbPushFailed \/ CbReadFailed \/ CbTimeout
    <3>1. /\ OpenFailed(mqtt) \in MqttType
          /\ Completed(mqtt, "write") \in MqttType
          /\ Completed(mqtt, "read") \in MqttType
          /\ TimeoutClear(mqtt) \in MqttType
      BY OpsType DEF AsyncOps
    <3>2. ErrorFrame
      BY <2>9 DEF CbOpenFailed, CbPushFailed, CbReadFailed, CbTimeout
    <3>3. \E m \in MqttType : StreamError(m, m)
      BY <2>9, <3>1
         DEF CbOpenFailed, CbPushFailed, CbReadFailed, CbTimeout, TakeError
    <3>4. /\ mqtt' \in MqttType /\ retrying' \in BOOLEAN
          /\ error' \in BOOLEAN /\ server' \subseteq Requests
      BY <3>3, ErrorTypes
    <3> QED  BY <3>2, <3>4 DEF ErrorFrame, Requests, userVars
  <2>10. CASE CbPing \/ CbPushed
    BY <2>10, OpsType
       DEF CbPing, CbPushed, AsyncOps, acctVars, apiVars, serverVars, userVars
  <2>11. ASSUME NEW op \in AsyncOps, CbStale(op) PROVE TypeOK'
    BY <2>11, OpsType DEF CbStale, acctVars, apiVars, serverVars, userVars
  <2>12. Received \in MqttType
    BY OpsType DEF Received, AsyncOps
  <2>13. CASE ReadConnack
    <3>1. /\ mqtt' \in MqttType
          /\ UNCHANGED <<error, http, sid, log, sent, toggles, remember>>
      BY <2>13, <2>12, OpsType DEF ReadConnack, userVars
    <3>2. CASE sid = 0
      <4>1. queries' \in 0..MaxQueries
        BY <2>13, <3>2 DEF ReadConnack
      <4>2. flight' \in Seq(Copy)
        BY <2>13, <3>2 DEF ReadConnack
      <4>3. /\ server' \subseteq Requests
            /\ UNCHANGED <<acct, saved, token, stoken, retrying, msgs>>
        BY <2>13, <3>2 DEF ReadConnack, Requests
      <4> QED  BY <3>1, <4>1, <4>2, <4>3 DEF Requests
    <3>3. CASE sid # 0
      <4>1. PICK m : ConnectQueue(m, server \ {"connect"}, <<>>)
        BY <2>13, <3>3 DEF ReadConnack
      <4>2. server \ {"connect"} \in SUBSET Requests /\ <<>> \in Seq(Copy)
        BY DEF Requests
      <4>3. UNCHANGED queries
        BY <2>13, <3>3 DEF ReadConnack
      <4> QED
        BY <3>1, <4>1, <4>2, <4>3, ConnectQueueTypes DEF Requests
    <3> QED  BY <3>2, <3>3
  <2>14. CASE ReadBad \/ ReadMalformed
    <3>1. ReadOn(Received) \in MqttType
      BY <2>12, OpsType
    <3>2. ErrorFrame
      BY <2>14 DEF ReadBad, ReadMalformed
    <3>3. /\ mqtt' \in MqttType /\ retrying' \in BOOLEAN
          /\ error' \in BOOLEAN /\ server' \subseteq Requests
      BY <2>14, <2>12, <3>1, ErrorTypes DEF ReadBad, ReadMalformed
    <3> QED  BY <3>2, <3>3 DEF ErrorFrame, Requests, userVars
  <2>15. CASE ReadPingresp \/ ReadOther
    BY <2>15, <2>12, OpsType
       DEF ReadPingresp, ReadOther, acctVars, apiVars, serverVars, userVars
  <2>16. CASE ReadSyncToken
    BY <2>16, <2>12, OpsType
       DEF ReadSyncToken, PushedSid, ApiConnected, SaveData, Settings, Tokens, userVars
  <2>17. CASE ReadDeltas
    <3>1. error' \in BOOLEAN
      BY <2>17 DEF ReadDeltas, ApiError
    <3>2. mqtt' \in MqttType
      BY <2>17, <2>12, OpsType DEF ReadDeltas
    <3> QED
      BY <2>17, <3>1, <3>2 DEF ReadDeltas, PushedSid, serverVars, userVars
  <2>18. CASE ReadApiError
    BY <2>18, <2>12, FailureTypes, OpsType
       DEF ReadApiError, serverVars, userVars
  <2>19. CASE ReadSendResult
    <3>1. /\ token' \in Tokens /\ stoken' \in BOOLEAN
          /\ error' \in BOOLEAN
          /\ saved' \in Saved
      BY <2>19, FailureTypes DEF ReadSendResult
    <3>2. mqtt' \in MqttType
      BY <2>19, <2>12, OpsType DEF ReadSendResult
    <3>3. msgs' \in Seq(Message)
      <4>1. msgs # <<>> => Tail(msgs) \in Seq(Message)
        BY HeadTailProperties
      <4>2. msgs' \in {msgs, Tail(msgs)} /\ (msgs = <<>> => msgs' = msgs)
        BY <2>19 DEF ReadSendResult
      <4> QED  BY <4>1, <4>2
    <3>4. Tail(flight) \in Seq(Copy)
      BY <2>19 DEF ReadSendResult
    <3>5. msgs' # <<>> => MessageSend(mqtt, Tail(flight), Head(msgs')) \in Seq(Copy)
      BY <3>3, <3>4, SendTypes, HeadTailProperties
    <3>6. flight' \in Seq(Copy)
      BY <2>19, <3>4, <3>5 DEF ReadSendResult
    <3> QED
      BY <2>19, <3>1, <3>2, <3>3, <3>6 DEF ReadSendResult, userVars
  <2>20. CASE SeqIdReply
    <3>1. queries' \in 0..MaxQueries
      BY <2>20 DEF SeqIdReply
    <3>2. CASE /\ sid' = 1
               /\ ConnectQueue(mqtt, server, flight)
               /\ mqtt' = Publish(mqtt)
               /\ UNCHANGED error
      <4>1. server \in SUBSET Requests
        BY DEF Requests
      <4>2. mqtt' \in MqttType
        BY <3>2, OpsType
      <4>3. /\ acct' \in {"disconnected", "connecting", "connected"}
            /\ saved' \in Saved
            /\ retrying' \in BOOLEAN
            /\ server' \subseteq Requests
            /\ flight' \in Seq(Copy)
            /\ UNCHANGED <<token, stoken, msgs>>
        BY <3>2, <4>1, ConnectQueueTypes
      <4>4. sid' \in 0..1
        BY <3>2
      <4>5. UNCHANGED <<http, log, sent, toggles, remember>>
        BY <2>20 DEF SeqIdReply, userVars
      <4> QED
        BY <3>1, <3>2, <4>2, <4>3, <4>4, <4>5 DEF Requests
    <3>3. CASE /\ sid' \in {sid, 0}
               /\ ApiFailure
               /\ UNCHANGED <<acct, mqtt, retrying, msgs, server, flight>>
      BY <2>20, <3>1, <3>3, FailureTypes DEF SeqIdReply, userVars
    <3> QED  BY <2>20, <3>2, <3>3 DEF SeqIdReply
  <2>21. CASE ServerTakes \/ ServerRefuses
    <3>1. ASSUME NEW i \in DOMAIN flight, NEW s \in {"sent", "taken", "refused"}
          PROVE  /\ [flight EXCEPT ![i].state = s] \in Seq(Copy)
                 /\ Append(log, flight[i].msg) \in Seq(Message)
      <4>1. flight[i] \in Copy
        OBVIOUS
      <4>2. [flight[i] EXCEPT !.state = s] \in Copy /\ flight[i].msg \in Message
        BY <4>1 DEF Copy
      <4> QED  BY <4>2, AppendProperties
    <3>2. /\ flight' \in Seq(Copy) /\ log' \in Seq(Message)
          /\ UNCHANGED <<acctVars, mqtt, apiVars, server, userVars>>
      <4>1. CASE ServerTakes
        <5>1. PICK i \in DOMAIN flight :
                 /\ flight' = [flight EXCEPT ![i].state = "taken"]
                 /\ log' \in {log, Append(log, flight[i].msg)}
                 /\ UNCHANGED <<acctVars, mqtt, apiVars, server, userVars>>
          BY <4>1 DEF ServerTakes
        <5> QED  BY <5>1, <3>1
      <4>2. CASE ServerRefuses
        <5>1. PICK i \in DOMAIN flight :
                 /\ flight' = [flight EXCEPT ![i].state = "refused"]
                 /\ UNCHANGED <<acctVars, mqtt, apiVars, server, log, userVars>>
          BY <4>2 DEF ServerRefuses
        <5> QED  BY <5>1, <3>1
      <4> QED  BY <2>21, <4>1, <4>2
    <3> QED  BY <3>2 DEF acctVars, apiVars, userVars
  <2>22. CASE SetRemember
    BY <2>22 DEF SetRemember, acctVars, apiVars, serverVars
  <2> QED
    BY <2>22, <2>1, <2>2, <2>3, <2>4, <2>5, <2>6, <2>7, <2>8, <2>9, <2>10, <2>11,
       <2>13, <2>14, <2>15, <2>16, <2>17, <2>18, <2>19, <2>20, <2>21 DEF Next
<1> QED  BY <1>1, <1>2, PTL DEF Spec

-----------------------------------------------------------------------------
(* The send queue and what is saved, for a server that uses error 509 as    *)
(* documented.  The three properties are inductive once it is known what    *)
(* the account can have on its way when: nothing while it is offline, only  *)
(* the login request until the contacts are there, for which the server     *)
(* wants a token it has issued.                                             *)

Quiet(m) == m.stream = "closed" /\ m.tev = "none" /\ m.ops = {}

Offline ==
    acct = "disconnected" => /\ Quiet(mqtt) /\ http = "none" /\ queries = 0
                             /\ msgs = <<>> /\ ~error

\* What comes before the stream: the access token, then the contacts.
SigningOn == http \in {"auth", "contacts"}

AuthFirst == SigningOn => acct = "connecting" /\ Quiet(mqtt) /\ queries = 0

TokenOnline ==
    acct # "disconnected" /\ ~SigningOn /\ ~error => token = "issued"

USE DEF SigningOn

QueueInv == /\ Offline /\ AuthFirst /\ TokenOnline
            /\ Resumable /\ QueueHasToken /\ HeadUnderWay

\* Which operations on the stream leave it established.
LEMMA StreamKept ==
    ASSUME NEW m \in MqttType
    PROVE  /\ ~Connected(Open(m)) /\ ~Connected(Close(m))
           /\ ~Connected(Opened(m)) /\ ~Connected(OpenFailed(m))
           /\ ~Connected(Connect(Opened(m)))
           /\ Quiet(Close(m))
           /\ Connected(TimeoutClear(m)) = Connected(m)
           /\ Connected(Ping(m)) = Connected(m)
           /\ Connected(Write(m)) = Connected(m)
           /\ Connected(Timeout(m)) = Connected(m)
           /\ Connected(Publish(m)) = Connected(m)
           /\ Connected(ReadOn(m)) = Connected(m)
           /\ \A op : Connected(Completed(m, op)) = Connected(m)
<1> USE DEF Connected, MqttType
<1>1. /\ ~Connected(Open(m)) /\ ~Connected(Close(m))
      /\ ~Connected(Opened(m)) /\ ~Connected(OpenFailed(m))
      /\ Quiet(Close(m))
  BY DEF Open, Close, Opened, OpenFailed, Completed, Timeout, TimeoutClear, Quiet
<1>2. ~Connected(Connect(Opened(m)))
  BY DEF Connect, Opened, Timeout, TimeoutClear, Write
<1>3. /\ Connected(TimeoutClear(m)) = Connected(m)
      /\ Connected(Ping(m)) = Connected(m)
      /\ Connected(Write(m)) = Connected(m)
      /\ Connected(Timeout(m)) = Connected(m)
  BY DEF TimeoutClear, Ping, Write, Timeout
<1>4. /\ Connected(Publish(m)) = Connected(m)
      /\ Connected(ReadOn(m)) = Connected(m)
      /\ \A op : Connected(Completed(m, op)) = Connected(m)
  BY DEF Publish, ReadOn, Write, Completed
<1> QED  BY <1>1, <1>2, <1>3, <1>4

\* Steps that concern the stream alone, and do not establish it.
LEMMA StreamStep ==
    ASSUME QueueInv,
           UNCHANGED <<acct, saved, http, token, stoken, queries, msgs, flight>>,
           acct # "disconnected", ~SigningOn,
           \/ error' = TRUE
           \/ UNCHANGED error /\ (Connected(mqtt') => Connected(mqtt))
    PROVE  QueueInv'
<1>1. Offline' /\ AuthFirst'
  BY DEF Offline, AuthFirst
<1>2. TokenOnline' /\ Resumable' /\ QueueHasToken' /\ HeadUnderWay'
  BY DEF QueueInv, TokenOnline, Resumable, QueueHasToken, HeadUnderWay
<1> QED  BY <1>1, <1>2 DEF QueueInv

\* Steps that report an error.
LEMMA ErrorStep ==
    ASSUME QueueInv, error' = TRUE, acct # "disconnected", UNCHANGED acct,
           ~SigningOn'
    PROVE  QueueInv'
<1>1. Offline' /\ AuthFirst'
  BY DEF Offline, AuthFirst
<1>2. TokenOnline' /\ Resumable' /\ QueueHasToken' /\ HeadUnderWay'
  BY DEF TokenOnline, Resumable, QueueHasToken, HeadUnderWay
<1> QED  BY <1>1, <1>2 DEF QueueInv

\* A message sent on an established stream is under way on it.
LEMMA SentIsUnderWay ==
    ASSUME NEW m, Connected(m), NEW copies \in Seq(Copy), NEW msg \in Message
    PROVE  \E i \in DOMAIN MessageSend(m, copies, msg) :
               MessageSend(m, copies, msg)[i].msg = msg
<1> DEFINE c == [msg |-> msg, state |-> "sent"]
<1>1. c \in Copy
  BY DEF Copy
<1>2. MessageSend(m, copies, msg) = Append(copies, c)
  BY DEF MessageSend
<1>3. /\ Append(copies, c) \in Seq(Copy)
      /\ Len(Append(copies, c)) = Len(copies) + 1
      /\ Append(copies, c)[Len(copies) + 1] = c
  BY <1>1, AppendProperties
<1>4. Len(copies) + 1 \in DOMAIN Append(copies, c)
  BY <1>3, LenProperties
<1> QED  BY <1>2, <1>3, <1>4

\* What is saved of a session that has both tokens.
LEMMA SavedGood ==
    LET s == Settings("issued", TRUE)
    IN  s.stoken /\ s.token = IF s.remembered THEN "issued" ELSE "empty"
BY DEF Settings

\* fb_api_connect_queue, wherever it is called from, resends what waits.
LEMMA ConnectQueueStep ==
    ASSUME TypeOK, QueueInv, NEW m, NEW requests, NEW copies \in Seq(Copy),
           ConnectQueue(m, requests, copies), Connected(mqtt') => Connected(m),
           acct # "disconnected", ~SigningOn, UNCHANGED <<error, http>>
    PROVE  QueueInv'
<1>1. UNCHANGED <<token, stoken, msgs>>
  BY DEF ConnectQueue
<1>2. acct' # "disconnected" /\ ~SigningOn'
  BY DEF ConnectQueue, ApiConnected
<1>3. Offline' /\ AuthFirst'
  BY <1>2 DEF Offline, AuthFirst
<1>4. TokenOnline' /\ QueueHasToken'
  BY <1>1 DEF QueueInv, TokenOnline, QueueHasToken
<1>5. Resumable'
  <2> SUFFICES ASSUME ~error PROVE Resumable'
    BY DEF Resumable
  <2>1. token = "issued"
    BY DEF QueueInv, TokenOnline
  <2>2. CASE ~stoken
    BY <1>1, <2>2 DEF ConnectQueue, QueueInv, Resumable
  <2>3. CASE stoken
    <3>1. stoken = TRUE
      BY <2>3 DEF TypeOK
    <3>2. saved' = Settings(token', stoken')
      BY <2>3 DEF ConnectQueue, ApiConnected, SaveData
    <3> QED  BY <1>1, <2>1, <3>1, <3>2, SavedGood DEF Resumable
  <2> QED  BY <2>2, <2>3
<1>6. HeadUnderWay'
  <2> SUFFICES ASSUME Connected(mqtt'), ~error, msgs # <<>>
               PROVE  \E i \in DOMAIN flight' : flight'[i].msg = Head(msgs)
    BY <1>1 DEF HeadUnderWay
  <2>1. stoken
    BY DEF QueueInv, QueueHasToken
  <2>2. flight' = MessageSend(m, copies, Head(msgs))
    BY <2>1 DEF ConnectQueue
  <2>3. Head(msgs) \in Message
    BY HeadTailProperties DEF TypeOK
  <2> QED  BY <2>2, <2>3, SentIsUnderWay
<1> QED  BY <1>3, <1>4, <1>5, <1>6 DEF QueueInv

\* Whatever is pending on the stream, or still to be answered, belongs to an
\* account that is online and has its token.
LEMMA Online ==
    ASSUME QueueInv
    PROVE  /\ (\/ mqtt.tev # "none" \/ (\E op : op \in mqtt.ops)
               \/ queries # 0 \/ acct = "connected")
                 => acct # "disconnected" /\ ~SigningOn
           /\ http # "none" => acct # "disconnected"
BY DEF QueueInv, Offline, AuthFirst, Quiet

\* ApiConnect and StreamError as seen by StreamStep.
LEMMA ReopenStep ==
    ASSUME TypeOK, NEW m \in MqttType, NEW k \in MqttType, NEW r,
           ApiConnect(m, r) \/ StreamError(m, k)
    PROVE  error' = TRUE \/ (UNCHANGED error /\ ~Connected(mqtt'))
<1>1. ~Connected(Open(m))
  BY StreamKept
<1>2. ASSUME NEW q, ApiConnect(m, q)
      PROVE  error' = TRUE \/ (UNCHANGED error /\ ~Connected(mqtt'))
  BY <1>1, <1>2 DEF ApiConnect, ApiError
<1>3. CASE StreamError(m, k)
  BY <1>2, <1>3 DEF StreamError, ApiError
<1> QED  BY <1>2, <1>3

\* A message is under way still after the server has looked at one, or after
\* the answer to another.
LEMMA UnderWayKept ==
    ASSUME NEW i \in DOMAIN flight, NEW s,
           flight' = [flight EXCEPT ![i].state = s], flight \in Seq(Copy),
           UNCHANGED <<acctVars, mqtt, apiVars>>, QueueInv
    PROVE  QueueInv'
<1>1. HeadUnderWay'
  <2> SUFFICES ASSUME Connected(mqtt), ~error, queries = 0, msgs # <<>>
               PROVE  \E j \in DOMAIN flight' : flight'[j].msg = Head(msgs)
    BY DEF HeadUnderWay, acctVars, apiVars
  <2>1. PICK j \in DOMAIN flight : flight[j].msg = Head(msgs)
    BY DEF QueueInv, HeadUnderWay
  <2>2. flight[j] \in Copy
    OBVIOUS
  <2>3. flight'[j].msg = flight[j].msg /\ DOMAIN flight' = DOMAIN flight
    BY <2>2 DEF Copy
  <2> QED  BY <2>1, <2>3
<1>2. /\ Offline' /\ AuthFirst' /\ TokenOnline'
      /\ Resumable' /\ QueueHasToken'
  BY DEF QueueInv, Offline, AuthFirst, TokenOnline, Resumable, QueueHasToken,
         acctVars, apiVars
<1> QED  BY <1>1, <1>2 DEF QueueInv

\* One step keeps QueueInv.
LEMMA QueueStep ==
    ASSUME ~Nonfatal, TypeOK, QueueInv, [Next]_vars
    PROVE  QueueInv'
<1> USE DEF TypeOK
<1>1. CASE UNCHANGED vars
  <2>1. UNCHANGED <<acct, error, saved, http, mqtt, token, stoken, queries, msgs, flight>>
    BY <1>1 DEF vars, acctVars, apiVars, serverVars
  <2> QED
    BY <2>1 DEF QueueInv, Offline, AuthFirst, TokenOnline, Resumable,
                QueueHasToken, HeadUnderWay
<1>2. CASE Login
  <2>1. /\ acct = "disconnected" /\ acct' = "connecting"
        /\ SigningOn' \/ (error' = TRUE /\ ~SigningOn')
        /\ UNCHANGED <<mqtt, queries, msgs>>
    BY <1>2 DEF Login, ApiError
  <2>2. Quiet(mqtt) /\ queries = 0 /\ msgs = <<>> /\ ~Connected(mqtt)
    BY <2>1 DEF QueueInv, Offline, Quiet, Connected
  <2> QED
    BY <2>1, <2>2 DEF QueueInv, Offline, AuthFirst, TokenOnline, Resumable,
                      QueueHasToken, HeadUnderWay, Quiet
<1>3. CASE AuthReply
  <2>1. acct = "connecting" /\ Quiet(mqtt) /\ queries = 0 /\ UNCHANGED <<acct, mqtt, queries, msgs>>
    BY <1>3 DEF AuthReply, QueueInv, AuthFirst
  <2>3. CASE http' = "none" /\ ApiFailure
    BY <2>1, <2>3, ErrorStep DEF ApiFailure, ApiError
  <2>4. CASE http' = "contacts" /\ UNCHANGED <<stoken, error>>
    BY <2>1, <2>4
       DEF QueueInv, Offline, AuthFirst, TokenOnline, Resumable,
           QueueHasToken, HeadUnderWay, Quiet, Connected
  <2> QED  BY <1>3, <2>3, <2>4 DEF AuthReply
<1>4. CASE ContactsReply
  <2>1. /\ acct = "connecting" /\ ~SigningOn'
        /\ UNCHANGED <<acct, queries, msgs>>
    BY <1>4 DEF ContactsReply, QueueInv, AuthFirst
  <2>2. CASE error' = TRUE
    BY <2>1, <2>2, ErrorStep
  <2>3. CASE /\ UNCHANGED error /\ ~Connected(mqtt') /\ token = "issued"
             /\ UNCHANGED <<token, stoken, saved>>
    BY <2>1, <2>3
       DEF QueueInv, Offline, AuthFirst, TokenOnline, Resumable,
           QueueHasToken, HeadUnderWay
  <2>4. ApiFailure => error' = TRUE
    BY DEF ApiFailure, ApiError
  <2>5. ApiConnect(mqtt, retrying)
           => error' = TRUE \/ (UNCHANGED error /\ ~Connected(mqtt'))
    BY ReopenStep
  <2>6. Quiet(mqtt) => ~Connected(mqtt)
    BY DEF Quiet, Connected
  <2> QED
    BY <1>4, <2>2, <2>3, <2>4, <2>5, <2>6 DEF ContactsReply, QueueInv, AuthFirst
<1>5. CASE DisconnectCb \/ GoOffline
  <2>1. Quiet(Close(Disconnect(mqtt))) /\ ~Connected(Close(Disconnect(mqtt)))
    BY StreamKept, OpsType
  <2>2. /\ acct' = "disconnected" /\ error' = FALSE /\ http' = "none"
        /\ mqtt' = Close(Disconnect(mqtt))
        /\ queries' = 0 /\ msgs' = <<>>
    BY <1>5 DEF DisconnectCb, GoOffline, Shutdown
  <2> QED
    BY <2>1, <2>2 DEF QueueInv, Offline, AuthFirst, TokenOnline, Resumable,
                      QueueHasToken, HeadUnderWay, Quiet
<1>6. CASE SetStatus
  <2>1. error' = TRUE \/ (UNCHANGED error /\ ~Connected(mqtt'))
    BY <1>6, ReopenStep DEF SetStatus
  <2> QED  BY <1>6, <2>1, StreamStep, Online DEF SetStatus
<1>7. CASE Send
  <2>1. /\ acct = "connected" /\ msgs' = Append(msgs, sent + 1)
        /\ sent + 1 \in Message
        /\ UNCHANGED <<acct, error, saved, http, token, stoken, queries>>
    BY <1>7, SessionAssumption DEF Send, acctVars, Message
  <2>2. Offline' /\ AuthFirst' /\ TokenOnline' /\ Resumable'
    BY <2>1 DEF QueueInv, Offline, AuthFirst, TokenOnline, Resumable
  <2>3. QueueHasToken'
    BY <2>1 DEF QueueInv, Resumable, QueueHasToken
  <2>4. HeadUnderWay'
    <3> SUFFICES ASSUME Connected(mqtt'), ~error, queries = 0
                 PROVE  \E i \in DOMAIN flight' : flight'[i].msg = Head(msgs')
      BY <2>1 DEF HeadUnderWay
    <3>1. Connected(mqtt)
      BY <1>7, StreamKept DEF Send
    <3>2. Head(msgs') = IF msgs = <<>> THEN sent + 1 ELSE Head(msgs)
      BY <2>1, HeadTailAppend
    <3>3. CASE msgs = <<>>
      <4>1. flight' = MessageSend(mqtt, flight, sent + 1)
        BY <1>7, <3>3 DEF Send
      <4> QED  BY <2>1, <3>1, <3>2, <3>3, <4>1, SentIsUnderWay
    <3>4. CASE msgs # <<>>
      <4>1. flight' = flight
        BY <1>7, <3>4 DEF Send
      <4> QED  BY <3>1, <3>2, <3>4, <4>1 DEF QueueInv, HeadUnderWay
    <3> QED  BY <3>3, <3>4
  <2> QED  BY <2>2, <2>3, <2>4 DEF QueueInv
<1>8. CASE CbOpen
  <2>1. /\ \E op : op \in mqtt.ops
        /\ error' = TRUE \/ (UNCHANGED error /\ mqtt' = Connect(Opened(mqtt)))
        /\ UNCHANGED <<acct, saved, http, token, stoken, queries, msgs, flight>>
    BY <1>8 DEF CbOpen, ApiError, apiVars
  <2>2. ~Connected(Connect(Opened(mqtt)))
    BY StreamKept
  <2>3. error' = TRUE \/ (UNCHANGED error /\ ~Connected(mqtt'))
    BY <2>1, <2>2
  <2>4. acct # "disconnected" /\ ~SigningOn
    BY <2>1, Online
  <2> QED  BY <2>1, <2>3, <2>4, StreamStep
<1>9. CASE CbOpenFailed \/ CbPushFailed \/ CbReadFailed \/ CbTimeout
  <2>1. (\E op : op \in mqtt.ops) \/ mqtt.tev # "none"
    BY <1>9 DEF CbOpenFailed, CbPushFailed, CbReadFailed, CbTimeout
  <2>2. \E m \in MqttType : StreamError(m, m)
    <3>1. /\ OpenFailed(mqtt) \in MqttType
          /\ Completed(mqtt, "write") \in MqttType
          /\ Completed(mqtt, "read") \in MqttType
          /\ TimeoutClear(mqtt) \in MqttType
      BY OpsType DEF AsyncOps
    <3> QED
      BY <1>9, <3>1
         DEF CbOpenFailed, CbPushFailed, CbReadFailed, CbTimeout, TakeError
  <2>3. error' = TRUE \/ (UNCHANGED error /\ ~Connected(mqtt'))
    BY <2>2, ReopenStep
  <2>4. ErrorFrame
    BY <1>9 DEF CbOpenFailed, CbPushFailed, CbReadFailed, CbTimeout
  <2> QED  BY <2>1, <2>3, <2>4, StreamStep, Online DEF ErrorFrame
<1>10. CASE CbPing \/ CbPushed
  <2>1. /\ (\E op : op \in mqtt.ops) \/ mqtt.tev # "none"
        /\ mqtt' \in {Timeout(Write(mqtt)), Completed(mqtt, "write")}
        /\ UNCHANGED <<acct, error, saved, http, token, stoken, queries, msgs, flight>>
    BY <1>10 DEF CbPing, CbPushed, acctVars, apiVars, serverVars
  <2>2. Connected(mqtt') = Connected(mqtt)
    <3>1. /\ Write(mqtt) \in MqttType
          /\ Connected(Write(mqtt)) = Connected(mqtt)
          /\ Connected(Completed(mqtt, "write")) = Connected(mqtt)
      BY OpsType, StreamKept
    <3>2. Connected(Timeout(Write(mqtt))) = Connected(Write(mqtt))
      BY <3>1, StreamKept
    <3> QED  BY <2>1, <3>1, <3>2
  <2> QED  BY <2>1, <2>2, StreamStep, Online
<1>11. ASSUME NEW op \in AsyncOps, CbStale(op) PROVE QueueInv'
  <2>1. /\ mqtt' = [mqtt EXCEPT !.stale = @ \ {op}]
        /\ UNCHANGED <<acct, error, saved, http, token, stoken, queries, msgs, flight>>
    BY <1>11 DEF CbStale, acctVars, apiVars, serverVars
  <2>2. /\ Connected(mqtt') = Connected(mqtt)
        /\ Quiet(mqtt') = Quiet(mqtt)
    BY <2>1 DEF Connected, Quiet, MqttType
  <2> QED
    BY <2>1, <2>2 DEF QueueInv, Offline, AuthFirst, TokenOnline, Resumable,
                      QueueHasToken, HeadUnderWay
<1>12. Received \in MqttType /\ Connected(Received) = Connected(mqtt)
  BY OpsType, StreamKept DEF Received, AsyncOps
<1>13. Arrival => acct # "disconnected" /\ ~SigningOn
  BY Online DEF Arrival
<1>14. ASSUME Arrival,
              UNCHANGED <<acct, saved, http, token, stoken, queries, msgs, flight>>,
              error' = TRUE \/ UNCHANGED error,
              mqtt' \in {ReadOn(Received), ReadOn(Write(Received)),
                         ReadOn(Publish(Received)), ReadOn(Ping(Received))}
       PROVE  QueueInv'
  <2>1. Connected(mqtt') = Connected(mqtt)
    <3>1. /\ Write(Received) \in MqttType /\ Publish(Received) \in MqttType
          /\ Ping(Received) \in MqttType
      BY <1>12, OpsType
    <3> QED  BY <1>12, <1>14, <3>1, StreamKept
  <2> QED  BY <1>13, <1>14, <2>1, StreamStep
<1>15. ASSUME Arrival, ApiFailure, UNCHANGED <<acct, http>> PROVE QueueInv'
  BY <1>13, <1>15, ErrorStep DEF ApiFailure, ApiError
<1>16. CASE ReadConnack
  <2> DEFINE m == Publish(Accepted(Received))
  <2>1. Arrival /\ mqtt' = ReadOn(m) /\ UNCHANGED <<error, http>>
    BY <1>16 DEF ReadConnack
  <2>2. CASE ConnectQueue(m, server \ {"connect"}, <<>>)
    <3>1. Connected(mqtt') = Connected(m)
      BY <1>12, <2>1, StreamKept, OpsType
    <3>2. <<>> \in Seq(Copy)
      OBVIOUS
    <3> QED  BY <1>13, <2>1, <2>2, <3>1, <3>2, ConnectQueueStep
  <2>3. CASE /\ queries' = queries + 1
             /\ UNCHANGED <<acct, saved, token, stoken, retrying, msgs>>
    <3>1. queries' # 0
      BY <2>3
    <3>2. acct # "disconnected" /\ ~SigningOn
      BY <1>13, <2>1
    <3> QED
      BY <2>1, <2>3, <3>1, <3>2
         DEF QueueInv, Offline, AuthFirst, TokenOnline, Resumable,
             QueueHasToken, HeadUnderWay
  <2> QED  BY <1>16, <2>2, <2>3 DEF ReadConnack
<1>17. CASE ReadBad \/ ReadMalformed
  <2>1. Arrival /\ ErrorFrame
    BY <1>17 DEF ReadBad, ReadMalformed
  <2>2. ReadOn(Received) \in MqttType
    BY <1>12, OpsType
  <2>3. error' = TRUE \/ (UNCHANGED error /\ ~Connected(mqtt'))
    BY <1>12, <1>17, <2>2, ReopenStep DEF ReadBad, ReadMalformed
  <2> QED  BY <1>13, <2>1, <2>3, StreamStep DEF ErrorFrame
<1>18. CASE ReadPingresp \/ ReadOther
  BY <1>14, <1>18
     DEF ReadPingresp, ReadOther, acctVars, apiVars, serverVars
<1>19. CASE ReadSyncToken
  <2>1. /\ acct # "disconnected" /\ ~SigningOn
        /\ acct' = "connected" /\ stoken' = TRUE
        /\ saved' = Settings(token', stoken')
        /\ UNCHANGED <<error, http, token, queries, msgs, flight>>
    BY <1>13, <1>19 DEF ReadSyncToken, ApiConnected, SaveData
  <2>2. Connected(mqtt') => Connected(mqtt)
    BY <1>19 DEF ReadSyncToken
  <2>3. ~error => token = "issued"
    BY <2>1 DEF QueueInv, TokenOnline
  <2>4. Resumable'
    BY <2>1, <2>3, SavedGood DEF Resumable
  <2>5. Offline' /\ AuthFirst' /\ TokenOnline' /\ QueueHasToken'
    BY <2>1, <2>3 DEF QueueInv, Offline, AuthFirst, TokenOnline, QueueHasToken
  <2>6. HeadUnderWay'
    BY <2>1, <2>2 DEF QueueInv, HeadUnderWay
  <2> QED  BY <2>4, <2>5, <2>6 DEF QueueInv
<1>20. CASE ReadDeltas
  BY <1>14, <1>20 DEF ReadDeltas, ApiError, serverVars
<1>21. CASE ReadApiError
  BY <1>15, <1>21 DEF ReadApiError
<1>22. CASE ReadSendResult
  <2>1. CASE ApiFailure
    BY <1>15, <1>22, <2>1 DEF ReadSendResult
  <2>2. CASE /\ Head(flight).state = "taken"
             /\ msgs' = (IF msgs = <<>> THEN msgs ELSE Tail(msgs))
             /\ msgs' # <<>> =>
                   flight' = MessageSend(mqtt, Tail(flight), Head(msgs'))
             /\ UNCHANGED <<error, token, stoken, saved>>
    <3>1. /\ acct # "disconnected" /\ ~SigningOn /\ Connected(mqtt)
          /\ flight # <<>> /\ UNCHANGED <<acct, http, queries>>
      BY <1>13, <1>22 DEF ReadSendResult
    <3>2. msgs' # <<>> => msgs # <<>>
      BY <2>2
    <3>3. /\ Offline' /\ AuthFirst' /\ TokenOnline' /\ Resumable'
          /\ QueueHasToken'
      BY <2>2, <3>1, <3>2 DEF QueueInv, Offline, AuthFirst, TokenOnline,
                              Resumable, QueueHasToken
    <3>4. HeadUnderWay'
      <4> SUFFICES ASSUME msgs' # <<>>
                   PROVE  \E i \in DOMAIN flight' :
                              flight'[i].msg = Head(msgs')
        BY DEF HeadUnderWay
      <4>1. msgs' = Tail(msgs)
        BY <2>2, <3>2
      <4>2. Tail(msgs) \in Seq(Message)
        BY <3>2, HeadTailProperties
      <4>3. Head(msgs') \in Message
        BY <4>1, <4>2, HeadTailProperties
      <4>4. Tail(flight) \in Seq(Copy)
        BY <3>1, HeadTailProperties
      <4>5. flight' = MessageSend(mqtt, Tail(flight), Head(msgs'))
        BY <2>2
      <4> DEFINE f(msg) == MessageSend(mqtt, Tail(flight), msg)
      <4>6. \A msg \in Message : \E i \in DOMAIN f(msg) : f(msg)[i].msg = msg
        BY <3>1, <4>4, SentIsUnderWay
      <4>7. flight' = f(Head(msgs'))
        BY <4>5
      <4> HIDE DEF f
      <4> QED  BY <4>3, <4>6, <4>7
    <3> QED  BY <3>3, <3>4 DEF QueueInv
  <2> QED  BY <1>22, <2>1, <2>2 DEF ReadSendResult
<1>23. CASE SeqIdReply
  <2>1. acct # "disconnected" /\ ~SigningOn /\ UNCHANGED http
    BY <1>23, Online DEF SeqIdReply
  <2>2. CASE ConnectQueue(mqtt, server, flight) /\ mqtt' = Publish(mqtt) /\ UNCHANGED error
    <3>1. Connected(mqtt') = Connected(mqtt)
      BY <2>2, StreamKept
    <3> QED  BY <2>1, <2>2, <3>1, ConnectQueueStep
  <2>3. CASE ApiFailure /\ UNCHANGED acct
    BY <2>1, <2>3, ErrorStep DEF ApiFailure, ApiError
  <2> QED  BY <1>23, <2>2, <2>3 DEF SeqIdReply
<1>24. CASE ServerTakes
  BY <1>24, UnderWayKept DEF ServerTakes
<1>25. CASE ServerRefuses
  BY <1>25, UnderWayKept DEF ServerRefuses
<1>26. CASE SetRemember
  BY <1>26 DEF SetRemember, acctVars, apiVars, serverVars, QueueInv, Offline, AuthFirst,
               TokenOnline, Resumable, QueueHasToken, HeadUnderWay
<1> QED
  BY <1>1, <1>2, <1>3, <1>4, <1>5, <1>6, <1>7, <1>8, <1>9, <1>10, <1>11,
     <1>16, <1>17, <1>18, <1>19, <1>20, <1>21, <1>22, <1>23, <1>24, <1>25, <1>26
     DEF Next

\* HeadUnderWay, QueueHasToken and Resumable: the send queue never stalls on an
\* established stream, and what is saved suffices to resume, however many
\* messages, queries and reconnections there are.
THEOREM QueueSafe ==
    ASSUME ~Nonfatal
    PROVE  Spec => [](HeadUnderWay /\ QueueHasToken /\ Resumable)
<1>1. Init => QueueInv
  <2>1. ASSUME Init PROVE Quiet(mqtt) /\ ~Connected(mqtt)
    BY <2>1 DEF Init, NewMqtt, Quiet, Connected
  <2> QED
    BY <2>1 DEF Init, QueueInv, Offline, AuthFirst, TokenOnline, Resumable,
                QueueHasToken, HeadUnderWay
<1>2. TypeOK /\ QueueInv /\ [Next]_vars => QueueInv'
  BY QueueStep
<1>3. QueueInv => HeadUnderWay /\ QueueHasToken /\ Resumable
  BY DEF QueueInv
<1> QED  BY <1>1, <1>2, <1>3, SessionTypes, PTL DEF Spec

\* Whatever waits to be sent can be resent after a reconnection, for there is a
\* token to resume with.
THEOREM QueueResent == ASSUME ~Nonfatal PROVE Spec => []QueueHasToken
BY QueueSafe, PTL

\* What is saved suffices to resume the session.
THEOREM SavedResumable == ASSUME ~Nonfatal PROVE Spec => []Resumable
BY QueueSafe, PTL

-----------------------------------------------------------------------------
(***************************************************************************)
(* The send queue: the server takes messages in the order the user sent    *)
(* them, and a message is popped only when the server has it, unless       *)
(* several publications were under way.  The theorems assume nothing of    *)
(* the number of sequence id queries or of what a sync push carries, so    *)
(* they cover the overlapping queries that put a second copy of a message  *)
(* under way.                                                              *)
(*                                                                         *)
(* The argument: whatever is published is at that moment the head of the   *)
(* queue.  The head only moves on, so what is under way is sorted, is      *)
(* nowhere ahead of the queue, and on an established stream ends with the  *)
(* head.  A single publication is therefore one of the head.               *)
(***************************************************************************)

Ascending(s) == \A i, j \in DOMAIN s : i < j => s[i] < s[j]

\* Queue q, publications c and log l of the server fit each other when the user
\* has sent n messages.
Tidy(q, c, l, n) ==
    /\ Ascending(q) /\ Ascending(l)
    /\ \A i \in DOMAIN q : q[i] <= n
    /\ \A i \in DOMAIN l : l[i] <= n
    /\ \A i \in DOMAIN c : c[i].msg <= n
    /\ \A i, j \in DOMAIN c : i < j => c[i].msg <= c[j].msg
    /\ \A i \in DOMAIN l, j \in DOMAIN q : l[i] <= q[j]
    /\ \A i \in DOMAIN c, j \in DOMAIN q : c[i].msg <= q[j]
    /\ \A i \in DOMAIN c : c[i].state = "sent" => \A j \in DOMAIN l : l[j] <= c[i].msg
    /\ \A i \in DOMAIN c : c[i].state = "taken" => \E j \in DOMAIN l : l[j] = c[i].msg

HeadLast ==
    Connected(mqtt) /\ flight # <<>> /\ msgs # <<>>
        => flight[Len(flight)].msg = msgs[1]

SendInv == Tidy(msgs, flight, log, sent) /\ HeadLast

\* What is known of the numbers of messages.
LEMMA MessageNat == Message \subseteq Nat /\ MaxMessages \in Nat
BY SessionAssumption DEF Message

\* Messages and copies are numbers and records.
LEMMA Parts ==
    ASSUME NEW q \in Seq(Message), NEW c \in Seq(Copy)
    PROVE  /\ \A i \in DOMAIN q : q[i] \in Nat
           /\ \A i \in DOMAIN c : /\ c[i] \in Copy /\ c[i].msg \in Message
                                  /\ c[i].msg \in Nat
<1>1. \A i \in DOMAIN c : c[i] \in Copy
  OBVIOUS
<1>2. \A x \in Copy : x.msg \in Message /\ x.msg \in Nat
  BY MessageNat DEF Copy
<1>3. \A i \in DOMAIN q : q[i] \in Message
  OBVIOUS
<1>4. \A i \in DOMAIN q : q[i] \in Nat
  BY <1>3, MessageNat
<1> QED  BY <1>1, <1>2, <1>4

\* The head of the queue is published.
LEMMA TidySend ==
    ASSUME NEW q \in Seq(Message), NEW c \in Seq(Copy), NEW l \in Seq(Message),
           NEW n \in Nat, Tidy(q, c, l, n), q # <<>>, NEW m, Connected(m)
    PROVE  LET d == MessageSend(m, c, Head(q))
           IN  /\ Tidy(q, d, l, n)
               /\ d[Len(d)].msg = q[1]
<1> DEFINE x == [msg |-> q[1], state |-> "sent"]
           d == Append(c, x)
           k == Len(c) + 1
<1>1. /\ q[1] \in Nat /\ q[1] \in Message /\ 1 \in DOMAIN q /\ Head(q) = q[1]
      /\ \A i \in DOMAIN q : q[i] \in Nat
      /\ \A i \in DOMAIN l : l[i] \in Nat
      /\ \A i \in DOMAIN c : c[i].msg \in Nat
  BY Parts
<1>2. /\ x \in Copy /\ x.msg = q[1] /\ x.state = "sent"
  BY <1>1 DEF Copy
<1>3. /\ DOMAIN d = DOMAIN c \cup {k} /\ Len(d) = k /\ k \notin DOMAIN c
      /\ d[k] = x
      /\ \A i \in DOMAIN c : d[i] = c[i] /\ i < k /\ i \in Nat
  BY <1>2
<1>4. \A i \in DOMAIN q : q[1] <= q[i]
  BY <1>1 DEF Tidy, Ascending
<1>5. \A i \in DOMAIN c : ~(k < i)
  BY <1>3
<1> HIDE DEF x, d, k
<1>6. /\ \A i \in DOMAIN d : d[i].msg <= n
      /\ \A i, j \in DOMAIN d : i < j => d[i].msg <= d[j].msg
  BY <1>1, <1>2, <1>3, <1>5 DEF Tidy
<1>7. /\ \A i \in DOMAIN d, j \in DOMAIN q : d[i].msg <= q[j]
      /\ \A i \in DOMAIN d : d[i].state = "sent" => \A j \in DOMAIN l : l[j] <= d[i].msg
  BY <1>1, <1>2, <1>3, <1>4 DEF Tidy
<1>8. \A i \in DOMAIN d : d[i].state = "taken" => \E j \in DOMAIN l : l[j] = d[i].msg
  BY <1>2, <1>3 DEF Tidy
<1>9. Tidy(q, d, l, n)
  BY <1>6, <1>7, <1>8 DEF Tidy
<1>10. MessageSend(m, c, Head(q)) = d
  BY <1>1 DEF MessageSend, d, x
<1> QED  BY <1>2, <1>3, <1>9, <1>10

\* The oldest publication is answered.
LEMMA TidyAnswer ==
    ASSUME NEW q \in Seq(Message), NEW c \in Seq(Copy), NEW l \in Seq(Message),
           NEW n \in Nat, Tidy(q, c, l, n), c # <<>>
    PROVE  /\ Tail(c) \in Seq(Copy)
           /\ Tidy(q, Tail(c), l, n)
           /\ Tail(c) # <<>> => Tail(c)[Len(Tail(c))] = c[Len(c)]
<1>1. /\ Tail(c) \in Seq(Copy) /\ Len(Tail(c)) = Len(c) - 1
      /\ \A i \in DOMAIN Tail(c) : i \in Nat /\ i + 1 \in DOMAIN c /\ Tail(c)[i] = c[i + 1]
  OBVIOUS
<1>2. Tail(c) # <<>> => Tail(c)[Len(Tail(c))] = c[Len(c)]
  BY <1>1
<1> DEFINE d == Tail(c)
<1>3. /\ \A i \in DOMAIN d : d[i].msg <= n
      /\ \A i \in DOMAIN d, j \in DOMAIN q : d[i].msg <= q[j]
      /\ \A i \in DOMAIN d : d[i].state = "sent" => \A j \in DOMAIN l : l[j] <= d[i].msg
      /\ \A i \in DOMAIN d : d[i].state = "taken" => \E j \in DOMAIN l : l[j] = d[i].msg
  BY <1>1, Zenon DEF Tidy
<1>4. \A i, j \in DOMAIN d : i < j => d[i].msg <= d[j].msg
  BY <1>1 DEF Tidy
<1>5. Tidy(q, d, l, n)
  BY <1>3, <1>4 DEF Tidy
<1> QED  BY <1>1, <1>2, <1>5

\* The head of the queue is popped.
LEMMA TidyPop ==
    ASSUME NEW q \in Seq(Message), NEW c \in Seq(Copy), NEW l \in Seq(Message),
           NEW n \in Nat, Tidy(q, c, l, n), q # <<>>
    PROVE  Tail(q) \in Seq(Message) /\ Tidy(Tail(q), c, l, n)
<1> DEFINE p == Tail(q)
<1>1. /\ p \in Seq(Message)
      /\ \A i \in DOMAIN p : i \in Nat /\ i + 1 \in DOMAIN q /\ p[i] = q[i + 1]
  OBVIOUS
<1> HIDE DEF p
<1>2. Ascending(p)
  BY <1>1 DEF Tidy, Ascending
<1>3. /\ \A i \in DOMAIN p : p[i] <= n
      /\ \A i \in DOMAIN l, j \in DOMAIN p : l[i] <= p[j]
      /\ \A i \in DOMAIN c, j \in DOMAIN p : c[i].msg <= p[j]
  BY <1>1, Zenon DEF Tidy
<1>4. Tidy(p, c, l, n)
  BY <1>2, <1>3 DEF Tidy
<1> QED  BY <1>1, <1>4 DEF p

\* The queue, or everything under way, is dropped.
LEMMA TidyDrop ==
    ASSUME NEW q, NEW c, NEW l, NEW n, Tidy(q, c, l, n)
    PROVE  Tidy(<<>>, c, l, n) /\ Tidy(q, <<>>, l, n)
BY DEF Tidy, Ascending

\* The user sends the next message.
LEMMA TidySubmit ==
    ASSUME NEW q \in Seq(Message), NEW c \in Seq(Copy), NEW l \in Seq(Message),
           NEW n \in Nat, Tidy(q, c, l, n), n + 1 \in Message
    PROVE  /\ Append(q, n + 1) \in Seq(Message)
           /\ Tidy(Append(q, n + 1), c, l, n + 1)
           /\ Append(q, n + 1)[1] = IF q = <<>> THEN n + 1 ELSE q[1]
<1> DEFINE p == Append(q, n + 1)
           k == Len(q) + 1
<1>1. /\ p \in Seq(Message) /\ DOMAIN p = DOMAIN q \cup {k} /\ p[k] = n + 1
      /\ \A i \in DOMAIN q : p[i] = q[i] /\ i < k /\ i \in Nat
      /\ k \in Nat
  OBVIOUS
<1>2. p[1] = IF q = <<>> THEN n + 1 ELSE q[1]
  OBVIOUS
<1>3. /\ \A i \in DOMAIN q : q[i] \in Nat
      /\ \A i \in DOMAIN l : l[i] \in Nat
      /\ \A i \in DOMAIN c : c[i].msg \in Nat
  BY Parts
<1> HIDE DEF p, k
<1>4. Ascending(p)
  BY <1>1, <1>3 DEF Tidy, Ascending
<1>5. /\ \A i \in DOMAIN p : p[i] <= n + 1
      /\ \A i \in DOMAIN l : l[i] <= n + 1
      /\ \A i \in DOMAIN c : c[i].msg <= n + 1
  BY <1>1, <1>3 DEF Tidy
<1>6. /\ \A i \in DOMAIN l, j \in DOMAIN p : l[i] <= p[j]
      /\ \A i \in DOMAIN c, j \in DOMAIN p : c[i].msg <= p[j]
  BY <1>1, <1>3 DEF Tidy
<1>7. Tidy(p, c, l, n + 1)
  BY <1>4, <1>5, <1>6 DEF Tidy
<1> QED  BY <1>1, <1>2, <1>7 DEF p

\* One publication is looked at by the server: it is taken or refused.
Marked(c, d, k, s) ==
    /\ DOMAIN d = DOMAIN c /\ Len(d) = Len(c)
    /\ \A i \in DOMAIN c : d[i].msg = c[i].msg
    /\ \A i \in DOMAIN c : i # k => d[i] = c[i]
    /\ d[k].state = s

Holds(l, x) == \E j \in DOMAIN l : l[j] = x

LEMMA TidyMark ==
    ASSUME NEW q, NEW c, NEW l, NEW n, NEW d, NEW k \in DOMAIN c,
           NEW s \in {"taken", "refused"},
           Tidy(q, c, l, n), Marked(c, d, k, s),
           s = "taken" => Holds(l, c[k].msg)
    PROVE  Tidy(q, d, l, n)
BY DEF Tidy, Marked, Holds

\* The server logs a message it has not logged before.
LEMMA TidyLog ==
    ASSUME NEW q \in Seq(Message), NEW c \in Seq(Copy), NEW l \in Seq(Message),
           NEW n \in Nat, Tidy(q, c, l, n), NEW k \in DOMAIN c,
           c[k].state = "sent", \A j \in 1..(k - 1) : c[j].state # "sent",
           l = <<>> \/ Last(l) # c[k].msg
    PROVE  /\ Append(l, c[k].msg) \in Seq(Message)
           /\ Tidy(q, c, Append(l, c[k].msg), n)
           /\ c[k].msg \in 1..n
           /\ \A i \in DOMAIN l : l[i] < c[k].msg
<1> DEFINE m == c[k].msg
           e == Append(l, m)
           z == Len(l) + 1
<1>1. /\ \A i \in DOMAIN q : q[i] \in Nat
      /\ \A i \in DOMAIN l : l[i] \in Nat
      /\ \A i \in DOMAIN c : c[i].msg \in Nat
      /\ \A i \in DOMAIN c : i \in Nat /\ i > 0
      /\ m \in Message
  <2>1. \A i \in DOMAIN c : i \in Nat /\ i > 0
    OBVIOUS
  <2> QED  BY <2>1, Parts
<1>2. /\ e \in Seq(Message) /\ DOMAIN e = DOMAIN l \cup {z} /\ e[z] = m
      /\ \A i \in DOMAIN l : e[i] = l[i] /\ i < z /\ i \in Nat
      /\ z \in Nat
  BY <1>1
<1>3. m \in 1..n
  BY <1>1, SessionAssumption DEF Tidy, Message
<1>4. \A i \in DOMAIN l : l[i] < m
  <2> SUFFICES ASSUME NEW i \in DOMAIN l  PROVE l[i] < m
    OBVIOUS
  <2>1. Last(l) = l[Len(l)] /\ Len(l) \in DOMAIN l /\ i <= Len(l)
    BY DEF Last
  <2>2. l[Len(l)] <= m /\ l[Len(l)] # m
    BY <2>1 DEF Tidy
  <2>3. i = Len(l) \/ l[i] < l[Len(l)]
    BY <2>1 DEF Tidy, Ascending
  <2> QED  BY <1>1, <2>1, <2>2, <2>3
<1>5. \A i \in DOMAIN c : c[i].state = "sent" => m <= c[i].msg
  <2> SUFFICES ASSUME NEW i \in DOMAIN c, c[i].state = "sent"  PROVE m <= c[i].msg
    OBVIOUS
  <2>1. ~(i < k)
    BY <1>1
  <2> QED  BY <1>1, <2>1 DEF Tidy
<1> HIDE DEF m, e, z
<1>6. Ascending(e)
  BY <1>1, <1>2, <1>4 DEF Tidy, Ascending
<1>7. /\ \A i \in DOMAIN e : e[i] <= n
      /\ \A i \in DOMAIN e, j \in DOMAIN q : e[i] <= q[j]
  BY <1>2, <1>3 DEF Tidy, m
<1>8. \A i \in DOMAIN c : c[i].state = "sent" => \A j \in DOMAIN e : e[j] <= c[i].msg
  BY <1>2, <1>5 DEF Tidy
<1>9. \A i \in DOMAIN c : c[i].state = "taken" => \E j \in DOMAIN e : e[j] = c[i].msg
  BY <1>2 DEF Tidy
<1>10. Tidy(q, c, e, n)
  BY <1>6, <1>7, <1>8, <1>9 DEF Tidy
<1> QED  BY <1>2, <1>3, <1>4, <1>10 DEF m, e

-----------------------------------------------------------------------------
(* The steps of the session as steps of queue, publications and log.        *)

LEMMA InitSend == Init => SendInv
<1> SUFFICES ASSUME Init  PROVE SendInv
  OBVIOUS
<1>1. ~Connected(mqtt)
  BY DEF Init, NewMqtt, Connected
<1>2. Tidy(<<>>, <<>>, <<>>, 0)
  BY DEF Tidy, Ascending
<1> QED  BY <1>1, <1>2 DEF SendInv, HeadLast, Init

\* Steps that do not touch messages do not establish the stream either.
LEMMA StreamOnly ==
    ASSUME SendInv, UNCHANGED <<msgs, flight, log, sent>>,
           Connected(mqtt') => Connected(mqtt)
    PROVE  SendInv'
BY DEF SendInv, HeadLast

\* What ApiConnect and StreamError do to stream and server.
LEMMA Reopened ==
    ASSUME TypeOK, NEW m \in MqttType, NEW k \in MqttType, NEW r,
           Connected(k) => Connected(mqtt),
           ApiConnect(m, r) \/ StreamError(m, k)
    PROVE  Connected(mqtt') => Connected(mqtt)
<1>1. ~Connected(Open(m)) /\ ~Connected(Close(m))
  BY StreamKept
<1>2. ASSUME NEW q, ApiConnect(m, q)
      PROVE  ~Connected(mqtt')
  BY <1>1, <1>2 DEF ApiConnect
<1>3. CASE StreamError(m, k)
  BY <1>2, <1>3 DEF StreamError
<1> QED  BY <1>2, <1>3

\* fb_api_connect_queue on a new stream, or on the stream that is there.
LEMMA ConnectQueueSend ==
    ASSUME TypeOK, SendInv, NEW m, NEW requests, NEW copies,
           ConnectQueue(m, requests, copies), UNCHANGED <<log, sent>>,
           Connected(mqtt') = Connected(m),
           \/ Connected(m) /\ copies = <<>>
           \/ copies = flight /\ Connected(m) = Connected(mqtt)
    PROVE  SendInv'
<1>1. UNCHANGED msgs
  BY DEF ConnectQueue
<1>2. /\ msgs \in Seq(Message) /\ log \in Seq(Message) /\ sent \in Nat
      /\ copies \in Seq(Copy) /\ Tidy(msgs, copies, log, sent)
  <2>1. /\ msgs \in Seq(Message) /\ log \in Seq(Message) /\ sent \in Nat
        /\ flight \in Seq(Copy) /\ Tidy(msgs, flight, log, sent)
    BY MessageNat DEF TypeOK, SendInv
  <2>2. Tidy(msgs, <<>>, log, sent) /\ <<>> \in Seq(Copy)
    BY <2>1, TidyDrop
  <2>3. CASE copies = flight
    BY <2>1, <2>3
  <2>4. CASE copies = <<>>
    BY <2>1, <2>2, <2>4
  <2> QED  BY <2>3, <2>4
<1>3. CASE flight' = copies
  <2>1. HeadLast'
    BY <1>1, <1>3 DEF SendInv, HeadLast
  <2> QED  BY <1>1, <1>2, <1>3, <2>1 DEF SendInv
<1>4. CASE /\ msgs # <<>> /\ Connected(m)
           /\ flight' = MessageSend(m, copies, Head(msgs))
  <2>1. Tidy(msgs, MessageSend(m, copies, Head(msgs)), log, sent)
    BY <1>2, <1>4, TidySend
  <2>2. flight'[Len(flight')].msg = msgs[1]
    BY <1>2, <1>4, TidySend
  <2>3. HeadLast'
    BY <1>1, <2>2 DEF HeadLast
  <2> QED  BY <1>1, <1>4, <2>1, <2>3 DEF SendInv
<1>5. flight' = copies \/ (msgs # <<>> /\ flight' = MessageSend(m, copies, Head(msgs)))
  BY DEF ConnectQueue
<1>6. ~Connected(m) => MessageSend(m, copies, Head(msgs)) = copies
  BY DEF MessageSend
<1> QED  BY <1>3, <1>4, <1>5, <1>6

\* A message is popped or refused, and the next one sent.
LEMMA ResultStep ==
    ASSUME TypeOK, SendInv, ReadSendResult
    PROVE  /\ SendInv'
           /\ msgs' # msgs => /\ msgs # <<>> /\ msgs' = Tail(msgs) /\ flight # <<>>
                              /\ Unambiguous => Head(msgs) \in Range(log)
<1>1. /\ Connected(mqtt) /\ flight # <<>> /\ UNCHANGED <<log, sent>>
      /\ Received \in MqttType /\ mqtt \in MqttType
  BY OpsType DEF ReadSendResult, userVars, Received, TypeOK, AsyncOps
<1>2. Connected(mqtt')
  <2>1. /\ Connected(Received) = Connected(mqtt)
        /\ Connected(ReadOn(Received)) = Connected(Received)
        /\ Connected(Publish(Received)) = Connected(Received)
        /\ Connected(ReadOn(Publish(Received))) = Connected(Publish(Received))
    BY <1>1, OpsType, StreamKept DEF Received
  <2> QED  BY <1>1, <2>1 DEF ReadSendResult
<1>3. /\ msgs \in Seq(Message) /\ log \in Seq(Message) /\ sent \in Nat
      /\ flight \in Seq(Copy) /\ Tidy(msgs, flight, log, sent)
      /\ flight[1] \in Copy /\ Head(flight) = flight[1] /\ 1 \in DOMAIN flight
  <2>1. flight \in Seq(Copy) /\ flight # <<>>
    BY <1>1 DEF TypeOK
  <2>2. flight[1] \in Copy /\ Head(flight) = flight[1] /\ 1 \in DOMAIN flight
    BY <2>1
  <2> QED  BY <2>1, <2>2, MessageNat DEF TypeOK, SendInv
<1> DEFINE rest == Tail(flight)
<1>4. /\ rest \in Seq(Copy) /\ Tidy(msgs, rest, log, sent)
      /\ rest # <<>> => rest[Len(rest)] = flight[Len(flight)]
  BY <1>1, <1>3, TidyAnswer
<1> HIDE DEF rest
<1>5. ASSUME flight' = rest, msgs' = msgs \/ msgs' = <<>>
      PROVE  SendInv'
  <2>1. Tidy(msgs', rest, log, sent)
    BY <1>4, <1>5, TidyDrop
  <2>2. HeadLast'
    BY <1>1, <1>4, <1>5 DEF SendInv, HeadLast
  <2> QED  BY <1>1, <1>5, <2>1, <2>2 DEF SendInv
<1>6. ASSUME msgs # <<>>, msgs' = Tail(msgs), msgs' # <<>>,
             flight' = MessageSend(mqtt, rest, Head(msgs'))
      PROVE  SendInv'
  <2>1. msgs' \in Seq(Message) /\ Tidy(msgs', rest, log, sent)
    BY <1>3, <1>4, <1>6, TidyPop
  <2>2. Tidy(msgs', flight', log, sent) /\ flight'[Len(flight')].msg = msgs'[1]
    <3>1. \A q \in Seq(Message) :
             q # <<>> /\ Tidy(q, rest, log, sent) =>
                LET d == MessageSend(mqtt, rest, Head(q))
                IN  Tidy(q, d, log, sent) /\ d[Len(d)].msg = q[1]
      BY <1>1, <1>3, <1>4, TidySend
    <3> QED  BY <1>6, <2>1, <3>1
  <2> QED  BY <1>1, <2>2 DEF SendInv, HeadLast
<1>7. ASSUME flight[1].state = "taken", msgs # <<>>, Unambiguous
      PROVE  Head(msgs) \in Range(log)
  <2>1. flight[1].msg = msgs[1] /\ Head(msgs) = msgs[1]
    BY <1>1, <1>3, <1>7 DEF SendInv, HeadLast, Unambiguous
  <2>2. \E j \in DOMAIN log : log[j] = flight[1].msg
    BY <1>3, <1>7 DEF Tidy
  <2> QED  BY <2>1, <2>2 DEF Range
<1>8. \/ flight[1].state = "refused" /\ flight' = rest /\ msgs' = msgs
      \/ /\ flight[1].state = "taken"
         /\ msgs' = (IF msgs = <<>> THEN msgs ELSE Tail(msgs))
         /\ \/ msgs' = <<>> /\ flight' = rest
            \/ msgs' # <<>> /\ flight' = MessageSend(mqtt, rest, Head(msgs'))
  BY <1>3 DEF ReadSendResult, rest
<1> QED  BY <1>1, <1>5, <1>6, <1>7, <1>8

\* The server looks at a message.
LEMMA ServerStep ==
    ASSUME TypeOK, SendInv, ServerTakes \/ ServerRefuses
    PROVE  /\ SendInv'
           /\ log' # log =>
                 \E m \in 1..sent : /\ log' = Append(log, m)
                                    /\ \A i \in DOMAIN log : log[i] < m
                                    /\ \A j \in DOMAIN msgs : m <= msgs[j]
<1>1. PICK k \in DOMAIN flight, s \in {"taken", "refused"} :
         /\ flight[k].state = "sent" /\ \A j \in 1..(k - 1) : flight[j].state # "sent"
         /\ flight' = [flight EXCEPT ![k].state = s]
         /\ log' = IF s = "refused" \/ (log # <<>> /\ Last(log) = flight[k].msg)
                   THEN log ELSE Append(log, flight[k].msg)
         /\ UNCHANGED <<mqtt, msgs, sent>>
  <2>1. CASE ServerTakes
    BY <2>1 DEF ServerTakes, apiVars, userVars
  <2>2. CASE ServerRefuses
    BY <2>2 DEF ServerRefuses, apiVars, userVars
  <2> QED  BY <2>1, <2>2
<1> DEFINE m == flight[k].msg
<1>2. /\ msgs \in Seq(Message) /\ log \in Seq(Message) /\ sent \in Nat
      /\ flight \in Seq(Copy) /\ Tidy(msgs, flight, log, sent)
  BY MessageNat DEF TypeOK, SendInv
<1>3. /\ log' \in Seq(Message) /\ Tidy(msgs, flight, log', sent)
      /\ log' # log => /\ log' = Append(log, m) /\ m \in 1..sent
                       /\ \A i \in DOMAIN log : log[i] < m
  <2>1. CASE log' = log
    BY <1>2, <2>1
  <2>2. CASE (log = <<>> \/ Last(log) # m) /\ log' = Append(log, m)
    BY <1>1, <1>2, <2>2, TidyLog
  <2> QED  BY <1>1, <2>1, <2>2
<1>4. s = "taken" => Holds(log', flight[k].msg)
  <2>1. Append(log, m)[Len(log) + 1] = m /\ Len(log) + 1 \in DOMAIN Append(log, m)
    BY <1>2
  <2>2. log # <<>> => Last(log) = log[Len(log)] /\ Len(log) \in DOMAIN log
    BY <1>2 DEF Last
  <2> QED  BY <1>1, <2>1, <2>2 DEF Holds
<1>5. /\ Tidy(msgs, flight', log', sent) /\ Len(flight') = Len(flight)
      /\ \A i \in DOMAIN flight : flight'[i].msg = flight[i].msg
  <2>1. \A i \in DOMAIN flight : flight[i] \in Copy
    BY <1>2, Parts
  <2>2. Marked(flight, flight', k, s)
    BY <1>1, <1>2, <2>1 DEF Marked, Copy
  <2>3. Tidy(msgs, flight', log', sent)
    <3>1. Tidy(msgs, flight, log', sent)
      BY <1>3
    <3>2. Marked(flight, flight', k, s)
      BY <2>2
    <3>3. s = "taken" => Holds(log', flight[k].msg)
      BY <1>4
    <3> QED  BY <3>1, <3>2, <3>3, TidyMark
  <2> QED  BY <2>2, <2>3 DEF Marked
<1>6. HeadLast'
  <2>1. flight # <<>> /\ Len(flight) \in DOMAIN flight
    BY <1>1, <1>2
  <2> QED  BY <1>1, <1>5, <2>1 DEF SendInv, HeadLast
<1>7. SendInv'
  BY <1>1, <1>5, <1>6 DEF SendInv
<1>8. \A j \in DOMAIN msgs : m <= msgs[j]
  BY <1>1, <1>2 DEF Tidy
<1> QED  BY <1>3, <1>7, <1>8

\* The user sends a message: it goes out at once if nothing waits.
LEMMA SubmitStep ==
    ASSUME TypeOK, SendInv, Send
    PROVE  SendInv'
<1>1. /\ sent' = sent + 1 /\ sent + 1 \in Message /\ UNCHANGED log
      /\ msgs' = Append(msgs, sent + 1)
  BY SessionAssumption DEF Send, TypeOK, Message
<1>2. /\ msgs \in Seq(Message) /\ log \in Seq(Message) /\ sent \in Nat
      /\ flight \in Seq(Copy) /\ Tidy(msgs, flight, log, sent)
  BY MessageNat DEF TypeOK, SendInv
<1>3. /\ msgs' \in Seq(Message) /\ Tidy(msgs', flight, log, sent + 1)
      /\ msgs'[1] = IF msgs = <<>> THEN sent + 1 ELSE msgs[1]
  BY <1>1, <1>2, TidySubmit
<1>4. Connected(mqtt') = Connected(mqtt)
  BY StreamKept DEF Send, TypeOK
<1>5. CASE msgs = <<>> /\ Connected(mqtt)
  <2>1. msgs' # <<>> /\ Head(msgs') = sent + 1
    BY <1>1, <1>2, <1>5
  <2>2. flight' = MessageSend(mqtt, flight, Head(msgs'))
    BY <1>5, <2>1 DEF Send
  <2>3. sent + 1 \in Nat
    BY <1>2
  <2>4. Tidy(msgs', flight', log, sent + 1) /\ flight'[Len(flight')].msg = msgs'[1]
    BY <1>2, <1>3, <1>5, <2>1, <2>2, <2>3, TidySend
  <2> QED  BY <1>1, <2>4 DEF SendInv, HeadLast
<1>6. CASE ~(msgs = <<>> /\ Connected(mqtt))
  <2>1. flight' = flight
    BY <1>6 DEF Send, MessageSend
  <2>2. HeadLast'
    BY <1>3, <1>4, <1>6, <2>1 DEF SendInv, HeadLast
  <2> QED  BY <1>1, <1>3, <2>1, <2>2 DEF SendInv
<1> QED  BY <1>5, <1>6

\* The server accepts the stream, on which nothing has been sent.
LEMMA ConnackStep ==
    ASSUME TypeOK, SendInv, ReadConnack
    PROVE  SendInv'
<1> DEFINE m == Publish(Accepted(Received))
<1>1. UNCHANGED <<log, sent>> /\ mqtt' = ReadOn(m)
  BY DEF ReadConnack, userVars
<1>2. CASE flight' = <<>> /\ UNCHANGED msgs
  BY <1>1, <1>2, TidyDrop DEF SendInv, HeadLast
<1>3. CASE ConnectQueue(m, server \ {"connect"}, <<>>)
  <2>1. Connected(m) /\ Connected(mqtt')
    <3>1. /\ Received \in MqttType /\ Accepted(Received) \in MqttType /\ m \in MqttType
      BY OpsType DEF TypeOK, Received, AsyncOps
    <3>2. Connected(Accepted(Received))
      BY <3>1 DEF Accepted, Connected, Ping, MqttType
    <3> QED  BY <1>1, <3>1, <3>2, StreamKept
  <2> QED  BY <1>1, <1>3, <2>1, ConnectQueueSend
<1> QED  BY <1>2, <1>3 DEF ReadConnack

\* What the other steps leave alone.
LEMMA OthersKeepQueue ==
    ASSUME [Next]_vars, ~(Send \/ DisconnectCb \/ GoOffline \/ ReadSendResult)
    PROVE  /\ UNCHANGED <<sent, msgs>>
           /\ ~(ServerTakes \/ ServerRefuses) => UNCHANGED log
<1>1. CASE UNCHANGED vars
  BY <1>1 DEF vars, apiVars, serverVars, userVars
<1>2. CASE Login \/ SetRemember \/ AuthReply \/ ContactsReply \/ SetStatus \/ CbOpen
  BY <1>2 DEF Login, SetRemember, AuthReply, ContactsReply, SetStatus, CbOpen, apiVars, serverVars, userVars
<1>3. CASE CbOpenFailed \/ CbTimeout \/ CbPushFailed \/ CbReadFailed \/ ReadBad \/ ReadMalformed
           \/ \E op \in AsyncOps : CbStale(op)
  BY <1>3 DEF CbOpenFailed, CbTimeout, CbPushFailed, CbReadFailed, ReadBad, ReadMalformed,
              CbStale, ErrorFrame, apiVars, serverVars, userVars
<1>4. CASE CbPing \/ CbPushed \/ ReadPingresp \/ ReadOther \/ ReadSyncToken \/ ReadDeltas
           \/ ReadApiError
  BY <1>4 DEF CbPing, CbPushed, ReadPingresp, ReadOther, ReadSyncToken, ReadDeltas,
              ReadApiError, apiVars, serverVars, userVars
<1>5. CASE ReadConnack
  BY <1>5 DEF ReadConnack, ConnectQueue, userVars
<1>6. CASE SeqIdReply
  BY <1>6 DEF SeqIdReply, ConnectQueue, userVars
<1>7. CASE ServerTakes \/ ServerRefuses
  BY <1>7 DEF ServerTakes, ServerRefuses, apiVars, userVars
<1> QED  BY <1>1, <1>2, <1>3, <1>4, <1>5, <1>6, <1>7 DEF Next

\* One step keeps SendInv.
LEMMA SendStep ==
    ASSUME TypeOK, SendInv, [Next]_vars
    PROVE  SendInv'
<1> DEFINE Same == UNCHANGED <<msgs, flight, log, sent>>
<1>0. /\ mqtt \in MqttType /\ Received \in MqttType
      /\ OpenFailed(mqtt) \in MqttType /\ TimeoutClear(mqtt) \in MqttType
      /\ Completed(mqtt, "write") \in MqttType /\ Completed(mqtt, "read") \in MqttType
      /\ Disconnect(mqtt) \in MqttType /\ ReadOn(Received) \in MqttType
      /\ Publish(Received) \in MqttType /\ Write(Received) \in MqttType
      /\ Ping(Received) \in MqttType /\ Write(mqtt) \in MqttType
      /\ Accepted(Received) \in MqttType
  BY OpsType DEF TypeOK, Received, AsyncOps
<1>r. /\ Connected(Received) = Connected(mqtt)
      /\ Connected(ReadOn(Received)) = Connected(mqtt)
      /\ Connected(ReadOn(Publish(Received))) = Connected(mqtt)
      /\ Connected(ReadOn(Write(Received))) = Connected(mqtt)
      /\ Connected(ReadOn(Ping(Received))) = Connected(mqtt)
  <2>1. Connected(Received) = Connected(mqtt)
    BY <1>0, StreamKept DEF Received
  <2>2. /\ Connected(ReadOn(Received)) = Connected(Received)
        /\ Connected(ReadOn(Publish(Received))) = Connected(Publish(Received))
        /\ Connected(Publish(Received)) = Connected(Received)
    BY <1>0, StreamKept
  <2>3. /\ Connected(ReadOn(Write(Received))) = Connected(Write(Received))
        /\ Connected(Write(Received)) = Connected(Received)
    BY <1>0, StreamKept
  <2>4. /\ Connected(ReadOn(Ping(Received))) = Connected(Ping(Received))
        /\ Connected(Ping(Received)) = Connected(Received)
    BY <1>0, StreamKept
  <2> QED  BY <2>1, <2>2, <2>3, <2>4
<1>1. CASE UNCHANGED vars
  BY <1>1, StreamOnly DEF vars, acctVars, apiVars, serverVars, userVars
<1>2. CASE Login \/ AuthReply \/ SetRemember
  <2>1. Same /\ UNCHANGED mqtt
    BY <1>2 DEF Login, AuthReply, SetRemember, apiVars, serverVars, userVars
  <2> QED  BY <2>1, StreamOnly
<1>3. CASE ContactsReply
  <2>1. Same
    BY <1>3 DEF ContactsReply, userVars
  <2>2. Connected(mqtt') => Connected(mqtt)
    BY <1>0, <1>3, Reopened DEF ContactsReply
  <2> QED  BY <2>1, <2>2, StreamOnly
<1>4. CASE DisconnectCb \/ GoOffline
  <2>1. Shutdown
    BY <1>4 DEF DisconnectCb, GoOffline
  <2>2. ~Connected(mqtt')
    BY <1>0, <2>1, StreamKept DEF Shutdown
  <2>3. msgs' = <<>> /\ UNCHANGED <<flight, log, sent>>
    BY <2>1 DEF Shutdown, userVars
  <2> QED  BY <2>2, <2>3, TidyDrop DEF SendInv, HeadLast
<1>5. CASE SetStatus
  <2>1. Same
    BY <1>5 DEF SetStatus
  <2>2. Connected(mqtt') => Connected(mqtt)
    BY <1>0, <1>5, Reopened DEF SetStatus
  <2> QED  BY <2>1, <2>2, StreamOnly
<1>6. CASE Send
  BY <1>6, SubmitStep
<1>7. CASE CbOpen
  <2>1. Same
    BY <1>7 DEF CbOpen, apiVars, userVars
  <2>2. ~Connected(mqtt')
    BY <1>0, <1>7, StreamKept DEF CbOpen
  <2> QED  BY <2>1, <2>2, StreamOnly
<1>8. CASE CbOpenFailed \/ CbTimeout \/ CbPushFailed \/ CbReadFailed \/ ReadBad \/ ReadMalformed
  <2>1. Same
    BY <1>8 DEF CbOpenFailed, CbTimeout, CbPushFailed, CbReadFailed, ReadBad, ReadMalformed,
                ErrorFrame, userVars
  <2>2. PICK m \in MqttType, k \in MqttType :
            StreamError(m, k) /\ (Connected(k) => Connected(mqtt))
    <3>1. /\ ~Connected(OpenFailed(mqtt))
          /\ Connected(TimeoutClear(mqtt)) = Connected(mqtt)
          /\ Connected(Completed(mqtt, "write")) = Connected(mqtt)
          /\ Connected(Completed(mqtt, "read")) = Connected(mqtt)
      BY <1>0, StreamKept
    <3>2. CASE CbOpenFailed
      BY <1>0, <3>1, <3>2 DEF CbOpenFailed, TakeError
    <3>3. CASE CbTimeout
      BY <1>0, <3>1, <3>3 DEF CbTimeout
    <3>4. CASE CbPushFailed
      BY <1>0, <3>1, <3>4 DEF CbPushFailed, TakeError
    <3>5. CASE CbReadFailed
      BY <1>0, <3>1, <3>5 DEF CbReadFailed, TakeError
    <3>6. CASE ReadBad
      BY <1>0, <1>r, <3>6 DEF ReadBad
    <3>7. CASE ReadMalformed
      BY <1>0, <1>r, <3>7 DEF ReadMalformed
    <3> QED  BY <1>8, <3>2, <3>3, <3>4, <3>5, <3>6, <3>7
  <2>3. Connected(mqtt') => Connected(mqtt)
    BY <2>2, Reopened
  <2> QED  BY <2>1, <2>3, StreamOnly
<1>9. CASE CbPing \/ CbPushed
  <2>1. Same
    BY <1>9 DEF CbPing, CbPushed, acctVars, apiVars, serverVars, userVars
  <2>2. Connected(mqtt') = Connected(mqtt)
    BY <1>0, <1>9, StreamKept DEF CbPing, CbPushed
  <2> QED  BY <2>1, <2>2, StreamOnly
<1>10. ASSUME NEW op \in AsyncOps, CbStale(op)
       PROVE  SendInv'
  <2>1. Same /\ mqtt' = [mqtt EXCEPT !.stale = @ \ {op}]
    BY <1>10 DEF CbStale, apiVars, serverVars, userVars
  <2>2. Connected(mqtt') = Connected(mqtt)
    BY <1>0, <2>1 DEF Connected, MqttType
  <2> QED  BY <2>1, <2>2, StreamOnly
<1>11. CASE ReadConnack
  BY <1>11, ConnackStep
<1>12. CASE ReadPingresp \/ ReadOther
  <2>1. Same
    BY <1>12 DEF ReadPingresp, ReadOther, acctVars, apiVars, serverVars, userVars
  <2>2. Connected(mqtt') = Connected(mqtt)
    BY <1>12, <1>r DEF ReadPingresp, ReadOther
  <2> QED  BY <2>1, <2>2, StreamOnly
<1>13. CASE ReadSyncToken \/ ReadDeltas
  <2>1. Same
    BY <1>13 DEF ReadSyncToken, ReadDeltas, serverVars, userVars
  <2>2. Connected(mqtt') = Connected(mqtt)
    BY <1>13, <1>r DEF ReadSyncToken, ReadDeltas
  <2> QED  BY <2>1, <2>2, StreamOnly
<1>14. CASE ReadApiError
  <2>1. Same
    BY <1>14 DEF ReadApiError, serverVars, userVars
  <2>2. Connected(mqtt') = Connected(mqtt)
    BY <1>14, <1>r DEF ReadApiError
  <2> QED  BY <2>1, <2>2, StreamOnly
<1>15. CASE ReadSendResult
  BY <1>15, ResultStep
<1>16. CASE SeqIdReply
  <2>1. UNCHANGED <<log, sent>>
    BY <1>16 DEF SeqIdReply, userVars
  <2>2. CASE ConnectQueue(mqtt, server, flight) /\ mqtt' = Publish(mqtt)
    <3>1. Connected(mqtt') = Connected(mqtt)
      BY <1>0, <2>2, StreamKept
    <3> QED  BY <2>1, <2>2, <3>1, ConnectQueueSend
  <2>3. CASE UNCHANGED <<mqtt, msgs, flight>>
    BY <2>1, <2>3, StreamOnly
  <2> QED  BY <1>16, <2>2, <2>3 DEF SeqIdReply
<1>17. CASE ServerTakes \/ ServerRefuses
  BY <1>17, ServerStep
<1> QED
  BY <1>1, <1>2, <1>3, <1>4, <1>5, <1>6, <1>7, <1>8, <1>9, <1>10, <1>11, <1>12,
     <1>13, <1>14, <1>15, <1>16, <1>17 DEF Next

LEMMA SendAlways == Spec => [](TypeOK /\ SendInv)
<1>1. TypeOK /\ SendInv /\ [Next]_vars => SendInv'
  BY SendStep
<1> QED  BY <1>1, InitSend, SessionTypes, PTL DEF Spec

\* PopsTakenAlone: a message leaves the queue only when the server has taken it,
\* unless the session ends or several publications were under way, however many
\* streams fail, and however many queries overlap, while it waits.
THEOREM PopsTaken == Spec => PopsTakenAlone
<1>1. TypeOK /\ SendInv /\ [Next]_vars => (Unambiguous => PopIsTrue)
  <2> SUFFICES ASSUME TypeOK, SendInv, [Next]_vars, Unambiguous  PROVE PopIsTrue
    OBVIOUS
  <2>1. CASE ReadSendResult
    BY <2>1, ResultStep DEF PopIsTrue
  <2>2. CASE Send \/ DisconnectCb \/ GoOffline
    <3>1. Send => sent' # sent
      BY SessionAssumption DEF Send, TypeOK
    <3> QED  BY <2>2, <3>1 DEF DisconnectCb, GoOffline, Shutdown, PopIsTrue
  <2>3. CASE ~(Send \/ DisconnectCb \/ GoOffline \/ ReadSendResult)
    BY <2>3, OthersKeepQueue DEF PopIsTrue
  <2> QED  BY <2>1, <2>2, <2>3
<1> QED  BY <1>1, SendAlways, PTL DEF Spec, PopsTakenAlone

\* The session keeps the promises of FbSendQueue: the server takes the messages
\* in the order they were sent, each once; and none is popped before, unless
\* several publications were under way.
THEOREM ImplementsSendQueue == Spec => SendQueueImplemented
<1>1. Init => SendQueue!Init
  BY DEF Init, SendQueue!Init
<1>2. TypeOK /\ SendInv /\ [Next]_vars => [SendQueue!Next \/ Overtaken]_(SendQueue!vars)
  <2> SUFFICES ASSUME TypeOK, SendInv, [Next]_vars
               PROVE  SendQueue!Next \/ Overtaken \/ UNCHANGED <<sent, msgs, log>>
    BY DEF SendQueue!vars
  <2>1. CASE Send
    BY <2>1 DEF Send, SendQueue!Next, SendQueue!Submit
  <2>2. CASE DisconnectCb \/ GoOffline
    BY <2>2 DEF DisconnectCb, GoOffline, Shutdown, userVars, SendQueue!Next, SendQueue!EndSession
  <2>3. CASE ReadSendResult
    <3>1. UNCHANGED <<log, sent>>
      BY <2>3 DEF ReadSendResult, userVars
    <3>2. flight # <<>> => Unambiguous \/ Len(flight) > 1
      <4>1. flight \in Seq(Copy)
        BY DEF TypeOK
      <4>2. Len(flight) \in Nat /\ (Len(flight) = 0 => flight = <<>>)
        BY <4>1, Zenon, EmptySeq, LenProperties
      <4> QED  BY <4>2 DEF Unambiguous
    <3>3. Range(log) = SendQueue!Range(log)
      BY DEF Range, SendQueue!Range
    <3> QED
      BY <2>3, <3>1, <3>2, <3>3, ResultStep
         DEF SendQueue!Next, SendQueue!Confirm, Overtaken
  <2>4. CASE ServerTakes \/ ServerRefuses
    <3>1. UNCHANGED <<sent, msgs>>
      BY <2>4 DEF ServerTakes, ServerRefuses, apiVars, userVars
    <3>2. CASE log' = log
      BY <3>1, <3>2
    <3>3. CASE log' # log
      <4>1. PICK m \in 1..sent : /\ log' = Append(log, m)
                                 /\ \A i \in DOMAIN log : log[i] < m
                                 /\ \A j \in DOMAIN msgs : m <= msgs[j]
        BY <2>4, <3>3, ServerStep
      <4>2. \A j \in DOMAIN msgs : ~(msgs[j] < m)
        BY <4>1, SessionAssumption DEF TypeOK, Message
      <4> QED  BY <3>1, <4>1, <4>2 DEF SendQueue!Next, SendQueue!Take
    <3> QED  BY <3>2, <3>3
  <2>5. CASE ~(Send \/ DisconnectCb \/ GoOffline \/ ReadSendResult \/ ServerTakes \/ ServerRefuses)
    BY <2>5, OthersKeepQueue
  <2> QED  BY <2>1, <2>2, <2>3, <2>4, <2>5
<1> QED  BY <1>1, <1>2, SendAlways, PTL DEF Spec, SendQueueImplemented
=============================================================================
