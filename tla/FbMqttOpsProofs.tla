-------------------------- MODULE FbMqttOpsProofs ---------------------------
(* What the operators of FbMqttOps preserve, for all proofs about streams. *)
EXTENDS FbMqttOps, TLAPS

\* The operators on the stream keep its type.
LEMMA OpsType ==
    ASSUME NEW m \in MqttType
    PROVE  /\ TimeoutClear(m) \in MqttType
           /\ Timeout(m) \in MqttType
           /\ Ping(m) \in MqttType
           /\ Close(m) \in MqttType
           /\ Write(m) \in MqttType
           /\ Open(m) \in MqttType
           /\ Opened(m) \in MqttType
           /\ Connect(m) \in MqttType
           /\ Publish(m) \in MqttType
           /\ Disconnect(m) \in MqttType
           /\ OpenFailed(m) \in MqttType
           /\ Accepted(m) \in MqttType
           /\ ReadOn(m) \in MqttType
           /\ \A op \in AsyncOps : /\ Completed(m, op) \in MqttType
                                   /\ [m EXCEPT !.stale = @ \ {op}] \in MqttType
<1> USE DEF MqttType, Streams, Timers, AsyncOps
<1>1. /\ TimeoutClear(m) \in MqttType
      /\ Timeout(m) \in MqttType
      /\ Ping(m) \in MqttType
  BY DEF TimeoutClear, Timeout, Ping
<1>2. /\ Close(m) \in MqttType
      /\ Write(m) \in MqttType
  BY DEF Close, Write
<1>3. Open(m) \in MqttType
  BY DEF Open, Close, Timeout
<1>4. Opened(m) \in MqttType
  BY DEF Opened, TimeoutClear
<1>5. Connect(m) \in MqttType /\ Publish(m) \in MqttType
  BY DEF Connect, Publish, Connected, Timeout, Write
<1>6. Disconnect(m) \in MqttType
  BY DEF Disconnect, Connected, Close, Write
<1>7. OpenFailed(m) \in MqttType
  BY DEF OpenFailed, Completed
<1>8. Accepted(m) \in MqttType
  BY DEF Accepted, Ping
<1>9. ReadOn(m) \in MqttType
  BY DEF ReadOn, Connected
<1>10. \A op \in AsyncOps : /\ Completed(m, op) \in MqttType
                            /\ [m EXCEPT !.stale = @ \ {op}] \in MqttType
  BY DEF Completed
<1> QED  BY <1>1, <1>2, <1>3, <1>4, <1>5, <1>6, <1>7, <1>8, <1>9, <1>10
=============================================================================
