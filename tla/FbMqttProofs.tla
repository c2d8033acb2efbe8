---------------------------- MODULE FbMqttProofs -----------------------------
(***************************************************************************)
(* The invariants of the MQTT stream, proved for every behaviour of peer,  *)
(* network and client.  The conjunction Inv of FbMqtt, with the type       *)
(* invariant, is inductive: OpsFitStream says which timers and operations  *)
(* can exist in which state of the stream, and from it follow the other    *)
(* three step by step.                                                     *)
(***************************************************************************)
EXTENDS FbMqtt, FbMqttOpsProofs

\* TypeOK holds in every reachable state.
THEOREM TypeCorrect == Spec => []TypeOK
<1>1. Init => TypeOK
  <2>1. NewMqtt \in MqttType
    BY DEF NewMqtt, MqttType, Streams, Timers, AsyncOps
  <2> QED  BY <2>1 DEF Init, TypeOK
<1>2. TypeOK /\ [Next]_vars => TypeOK'
  <2> SUFFICES ASSUME TypeOK, [Next]_vars PROVE TypeOK'
    OBVIOUS
  <2> USE DEF TypeOK
  <2>1. mqtt \in MqttType /\ reported \in BOOLEAN
    OBVIOUS
  <2>2. \A m, k \in MqttType : RaiseError(m, k) => TypeOK'
    BY OpsType DEF RaiseError
  <2>3. Received \in MqttType
    BY OpsType DEF Received, AsyncOps
  <2>4. CASE CallOpen \/ CallPublish \/ CallDisconnect \/ Dispose \/ Report
    <3>1. Disconnect(mqtt) \in MqttType
      BY OpsType
    <3> QED
      BY <2>4, <3>1, OpsType
         DEF CallOpen, CallPublish, CallDisconnect, Dispose, Report
  <2>5. CASE CbOpen \/ CbPing \/ CbPushed
    BY <2>5, OpsType DEF CbOpen, CbPing, CbPushed, AsyncOps
  <2>6. CASE CbOpenFailed \/ CbTimeout
    BY <2>6, <2>2, OpsType DEF CbOpenFailed, CbTimeout, TakeError
  <2>7. CASE CbPushFailed \/ CbReadFailed
    BY <2>7, <2>2, OpsType DEF CbPushFailed, CbReadFailed, TakeError, AsyncOps
  <2>8. ASSUME NEW op \in AsyncOps, CbStale(op) PROVE TypeOK'
    BY <2>8, OpsType DEF CbStale
  <2>9. CASE ReadConnack \/ ReadPingresp
    BY <2>9, <2>3, OpsType DEF ReadConnack, ReadPingresp
  <2>10. CASE ReadBad \/ ReadMalformed
    BY <2>10, <2>2, <2>3, OpsType DEF ReadBad, ReadMalformed
  <2>11. CASE ReadOther
    BY <2>11, <2>3, OpsType DEF ReadOther
  <2>12. CASE UNCHANGED vars
    BY <2>12 DEF vars
  <2> QED
    BY <2>4, <2>5, <2>6, <2>7, <2>8, <2>9, <2>10, <2>11, <2>12 DEF Next, Read
<1> QED  BY <1>1, <1>2, PTL DEF Spec

-----------------------------------------------------------------------------

\* Inv of FbMqtt as a predicate of a stream and of what its client knows.
Sound(m, r) ==
    /\ ("connect" \in m.ops) = (m.stream = "opening")
    /\ "read" \in m.ops \/ "write" \in m.ops => m.stream \in {"open", "up"}
    /\ m.tev = "ping" => m.stream \in {"open", "up"}
    /\ m.stream # "closed" /\ ~r => m.tev # "none"
    /\ m.stream = "up" /\ ~r => "read" \in m.ops
    /\ m.stream = "closed" /\ ~r => m.tev = "none"

LEMMA InvIsSound == Inv <=> Sound(mqtt, reported)
<1>1. OpsFitStream <=> /\ ("connect" \in mqtt.ops) = (mqtt.stream = "opening")
                       /\ "read" \in mqtt.ops \/ "write" \in mqtt.ops
                             => mqtt.stream \in {"open", "up"}
                       /\ mqtt.tev = "ping" => mqtt.stream \in {"open", "up"}
  BY DEF OpsFitStream, HasConn
<1> QED  BY <1>1 DEF Inv, Sound, Watched, ReaderAlive, NoOrphanTimer, Connected

\* Closing or opening a stream makes it sound whatever it was before.
LEMMA FreshSound ==
    ASSUME NEW m \in MqttType, NEW r \in BOOLEAN
    PROVE  Sound(Close(m), r) /\ Sound(Open(m), r)
BY DEF Sound, Close, Open, Timeout, MqttType

\* What stays sound once the client has reported an error, or while the
\* client has not.
LEMMA KeptSound ==
    ASSUME NEW m \in MqttType, NEW r \in BOOLEAN, Sound(m, r)
    PROVE  /\ Sound(m, TRUE)
           /\ Sound(Publish(m), r)
           /\ Sound(Disconnect(m), r)
           /\ Sound(TimeoutClear(m), TRUE)
           /\ Sound(Completed(m, "write"), r)
           /\ Sound(Completed(m, "read"), TRUE)
           /\ \A op \in AsyncOps : Sound([m EXCEPT !.stale = @ \ {op}], r)
           /\ m.tev = "ping" => Sound(Timeout(Write(m)), r)
<1> USE DEF MqttType, Sound
<1>1. Sound(m, TRUE) /\ Sound(Publish(m), r)
  BY DEF Publish, Connected, Write
<1>2. Sound(Disconnect(m), r)
  BY DEF Disconnect, Connected, Write, Close
<1>3. Sound(TimeoutClear(m), TRUE)
  BY DEF TimeoutClear
<1>4. Sound(Completed(m, "write"), r) /\ Sound(Completed(m, "read"), TRUE)
  BY DEF Completed
<1>5. \A op \in AsyncOps : Sound([m EXCEPT !.stale = @ \ {op}], r)
  OBVIOUS
<1>6. m.tev = "ping" => Sound(Timeout(Write(m)), r)
  BY DEF Timeout, Write
<1> QED  BY <1>1, <1>2, <1>3, <1>4, <1>5, <1>6

\* The end of a connection attempt.
LEMMA OpeningSound ==
    ASSUME NEW m \in MqttType, NEW r \in BOOLEAN, Sound(m, r),
           "connect" \in m.ops
    PROVE  /\ Sound(Connect(Opened(m)), r)
           /\ Sound(Opened(m), TRUE)
           /\ Sound(OpenFailed(m), TRUE)
<1> USE DEF MqttType, Sound
<1>1. Sound(Connect(Opened(m)), r)
  BY DEF Connect, Opened, TimeoutClear, Connected, Timeout, Write
<1>2. Sound(Opened(m), TRUE)
  BY DEF Opened, TimeoutClear
<1>3. Sound(OpenFailed(m), TRUE)
  BY DEF OpenFailed, Completed
<1> QED  BY <1>1, <1>2, <1>3

\* The arrival of a packet: between the completion of the read and the next
\* one no read is pending, so it is the record after ReadOn that is sound.
LEMMA ArrivalSound ==
    ASSUME NEW m \in MqttType, NEW r \in BOOLEAN, Sound(m, r),
           "read" \in m.ops, NEW n, n = Completed(m, "read")
    PROVE  /\ Sound(ReadOn(Accepted(n)), r)
           /\ Sound(ReadOn(Publish(Accepted(n))), r)
           /\ Sound(ReadOn(n), r)
           /\ Sound(ReadOn(Write(n)), r)
           /\ Sound(ReadOn(Ping(n)), r)
<1> USE DEF MqttType, Sound, ReadOn, Connected
<1>1. Sound(ReadOn(Accepted(n)), r)
  BY DEF Accepted, Ping, Completed
<1>2. Sound(ReadOn(Publish(Accepted(n))), r)
  BY DEF Accepted, Ping, Completed, Publish, Write
<1>3. Sound(ReadOn(n), r) /\ Sound(ReadOn(Write(n)), r)
  BY DEF Completed, Write
<1>4. Sound(ReadOn(Ping(n)), r)
  BY DEF Completed, Ping
<1> QED  BY <1>1, <1>2, <1>3, <1>4

\* An error, however the client reacts to it, leaves a sound stream.
LEMMA RaiseErrorSound ==
    ASSUME TypeOK, NEW m \in MqttType, NEW k \in MqttType, Sound(k, TRUE),
           RaiseError(m, k)
    PROVE  Sound(mqtt, reported)'
<1>1. CASE mqtt' \in {Open(m), Close(m)} /\ UNCHANGED reported
  BY <1>1, FreshSound DEF TypeOK
<1>2. CASE mqtt' \in {Close(m), k} /\ reported' = TRUE
  BY <1>2, FreshSound
<1> QED  BY <1>1, <1>2 DEF RaiseError

\* The safety of the stream: pending operations and timers fit its state, it
\* is always watched by a timer, never deaf, and leaves no timer behind.
THEOREM StreamSafe == Spec => []Inv
<1>1. Init => Sound(mqtt, reported)
  BY DEF Init, NewMqtt, Sound
<1>2. TypeOK /\ Sound(mqtt, reported) /\ [Next]_vars => Sound(mqtt, reported)'
  <2> SUFFICES ASSUME TypeOK, Sound(mqtt, reported), [Next]_vars
               PROVE  Sound(mqtt, reported)'
    OBVIOUS
  <2> DEFINE Good == Sound(mqtt, reported)'
  <2>1. mqtt \in MqttType /\ reported \in BOOLEAN
    BY DEF TypeOK
  <2>2. Received \in MqttType
    BY <2>1, OpsType DEF Received, AsyncOps
  <2>3. CASE CallOpen \/ Dispose
    <3>1. Disconnect(mqtt) \in MqttType
      BY <2>1, OpsType
    <3> QED  BY <2>1, <2>3, <3>1, FreshSound DEF CallOpen, Dispose
  <2>4. CASE CallPublish \/ CallDisconnect \/ Report
    BY <2>1, <2>4, KeptSound DEF CallPublish, CallDisconnect, Report
  <2>5. CASE CbOpen
    BY <2>1, <2>5, OpeningSound DEF CbOpen
  <2>6. CASE CbOpenFailed
    <3>1. Sound(OpenFailed(mqtt), TRUE) /\ OpenFailed(mqtt) \in MqttType
      BY <2>1, <2>6, OpeningSound, OpsType DEF CbOpenFailed
    <3> QED  BY <2>6, <3>1, RaiseErrorSound DEF CbOpenFailed, TakeError
  <2>7. CASE CbTimeout
    <3>1. Sound(TimeoutClear(mqtt), TRUE) /\ TimeoutClear(mqtt) \in MqttType
      BY <2>1, KeptSound, OpsType
    <3> QED  BY <2>7, <3>1, RaiseErrorSound DEF CbTimeout
  <2>8. CASE CbPing \/ CbPushed
    BY <2>1, <2>8, KeptSound DEF CbPing, CbPushed
  <2>9. CASE CbPushFailed
    <3>1. Completed(mqtt, "write") \in MqttType
      BY <2>1, OpsType DEF AsyncOps
    <3>2. Sound(Completed(mqtt, "write"), TRUE)
      BY <2>1, <3>1, KeptSound
    <3> QED  BY <2>9, <3>1, <3>2, RaiseErrorSound DEF CbPushFailed, TakeError
  <2>10. CASE CbReadFailed
    BY <2>1, <2>2, <2>10, KeptSound, RaiseErrorSound
       DEF CbReadFailed, TakeError, Received
  <2>11. ASSUME NEW op \in AsyncOps, CbStale(op) PROVE Good
    BY <2>1, <2>11, KeptSound DEF CbStale
  <2>12. CASE ReadConnack \/ ReadPingresp
    BY <2>1, <2>12, ArrivalSound DEF ReadConnack, ReadPingresp, Arrival, Received
  <2>13. CASE ReadBad
    <3>1. Sound(ReadOn(Received), TRUE) /\ ReadOn(Received) \in MqttType
      <4>1. Sound(ReadOn(Received), reported)
        BY <2>1, <2>13, ArrivalSound DEF ReadBad, Arrival, Received
      <4> QED  BY <2>1, <2>2, <4>1, OpsType, KeptSound
    <3> QED  BY <2>2, <2>13, <3>1, RaiseErrorSound DEF ReadBad
  <2>14. CASE ReadMalformed
    BY <2>1, <2>2, <2>14, KeptSound, RaiseErrorSound DEF ReadMalformed, Received
  <2>15. CASE ReadOther
    <3> DEFINE r == reported
    <3>1. mqtt' \in {ReadOn(Received), ReadOn(Write(Received))}
      BY <2>15 DEF ReadOther
    <3>2. mqtt' \in MqttType /\ Sound(mqtt', r)
      BY <2>1, <2>2, <2>15, <3>1, ArrivalSound, OpsType
         DEF ReadOther, Arrival, Received
    <3>3. reported' \in {r, TRUE}
      BY <2>15 DEF ReadOther
    <3> QED  BY <2>1, <3>2, <3>3, KeptSound
  <2>16. CASE UNCHANGED vars
    BY <2>16 DEF vars
  <2> QED
    BY <2>3, <2>4, <2>5, <2>6, <2>7, <2>8, <2>9, <2>10, <2>11, <2>12, <2>13,
       <2>14, <2>15, <2>16 DEF Next, Read
<1> QED  BY <1>1, <1>2, TypeCorrect, InvIsSound, PTL DEF Spec

-----------------------------------------------------------------------------

\* The single statements of StreamSafe.
THEOREM OpsFit == Spec => []OpsFitStream
<1>1. Inv => OpsFitStream
  BY DEF Inv
<1> QED  BY <1>1, StreamSafe, PTL

\* A stream is always watched by a timer, so that no peer can stall it.
THEOREM AlwaysWatched == Spec => []Watched
<1>1. Inv => Watched
  BY DEF Inv
<1> QED  BY <1>1, StreamSafe, PTL

\* An established stream never goes deaf.
THEOREM NeverDeaf == Spec => []ReaderAlive
<1>1. Inv => ReaderAlive
  BY DEF Inv
<1> QED  BY <1>1, StreamSafe, PTL

\* No timer outlives its stream unless an error was reported.
THEOREM NoTimerLeft == Spec => []NoOrphanTimer
<1>1. Inv => NoOrphanTimer
  BY DEF Inv
<1> QED  BY <1>1, StreamSafe, PTL
=============================================================================
