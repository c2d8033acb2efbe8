------------------------------ MODULE FbMqttOps ------------------------------
(***************************************************************************)
(* What the functions of libpurple/protocols/facebook/mqtt.c do to an      *)
(* FbMqtt.  One record m stands for the object's private data:             *)
(*                                                                         *)
(*   m.stream  "closed"   conn == NULL and no connection attempt pending   *)
(*             "opening"  conn == NULL, g_socket_client_connect pending    *)
(*             "open"     conn != NULL, connected == FALSE                 *)
(*             "up"       conn != NULL, connected == TRUE                  *)
(*   m.tev     the one timer of the object: none, the connection timeout   *)
(*             (FB_MQTT_TIMEOUT_CONN) or the next ping                     *)
(*             (FB_MQTT_TIMEOUT_PING)                                      *)
(*   m.ops     kinds of the asynchronous operations pending on the current *)
(*             cancellable                                                 *)
(*   m.stale   kinds of the operations of cancelled streams that GIO has   *)
(*             still to complete                                           *)
(*                                                                         *)
(* The operators are functions of the record, so that a handler that calls *)
(* several of them is their composition, in the order of the code.         *)
(*                                                                         *)
(* A definition commented "Mutant" is a plausible bug, in this and in the  *)
(* other modules: put in the place of the definition after it, it breaks   *)
(* the property that PROJECT.json lists with it.                           *)
(***************************************************************************)
EXTENDS FiniteSets

Streams == {"closed", "opening", "open", "up"}
Timers  == {"none", "timeout", "ping"}
AsyncOps == {"connect", "read", "write"}

MqttType == [stream : Streams, tev : Timers,
             ops : SUBSET AsyncOps, stale : SUBSET AsyncOps]

\* fb_mqtt_new: nothing open, no timer.
NewMqtt == [stream |-> "closed", tev |-> "none", ops |-> {}, stale |-> {}]

\* fb_mqtt_connected.
Connected(m) == m.stream = "up"

\* conn != NULL: there is an input and an output stream to use.
HasConn(m) == m.stream \in {"open", "up"}

\* Mutant: the source is removed, but priv->tev is not reset.
DanglingTimeout(m) == [m EXCEPT !.tev = "dangling"]

TimeoutClear(m) == [m EXCEPT !.tev = "none"]

Timeout(m) == [m EXCEPT !.tev = "timeout"]

Ping(m) == [m EXCEPT !.tev = "ping"]

\* Mutant: closes without removing the timer.
CloseKeepsTimer(m) == [m EXCEPT !.stream = "closed",
                                !.ops = {}, !.stale = @ \cup m.ops]

\* Removes the timer, cancels whatever is pending and drops the connection.
Close(m) == [m EXCEPT !.stream = "closed", !.tev = "none",
                      !.ops = {}, !.stale = @ \cup m.ops]

\* Hands a packet to the output queue; the push completes later.  That a
\* packet of 2^28 bytes or more cannot be formatted is left out.
Write(m) == [m EXCEPT !.ops = @ \cup {"write"}]


\* fb_mqtt_open once the GSocketClient exists.
Open(m) == Timeout([Close(m) EXCEPT !.stream = "opening", !.ops = {"connect"}])

\* fb_mqtt_cb_open up to the emission of "open".
Opened(m) == [TimeoutClear(m) EXCEPT !.stream = "open", !.ops = {"read"}]

\* Mutant: no time limit for the CONNACK.
ConnectUntimed(m) == IF Connected(m) THEN m ELSE Write(m)

\* fb_mqtt_connect: the CONNECT packet, and a time limit for its answer.
Connect(m) == IF Connected(m) THEN m ELSE Timeout(Write(m))

\* fb_mqtt_publish, fb_mqtt_subscribe and fb_mqtt_unsubscribe return early
\* when there is no established stream.
Publish(m) == IF Connected(m) THEN Write(m) ELSE m

Disconnect(m) == IF Connected(m) THEN Close(Write(m)) ELSE m

\* The completion of a pending operation is delivered.
Completed(m, op) == [m EXCEPT !.ops = @ \ {op}]

\* The failed connection attempt of fb_mqtt_cb_open: conn stays NULL and the
\* timer of fb_mqtt_open stays armed.
OpenFailed(m) == [Completed(m, "connect") EXCEPT !.stream = "closed"]

\* The handling of a CONNACK that accepts, up to the emission of "connect".
Accepted(m) == Ping([m EXCEPT !.stream = "up"])

\* The end of fb_mqtt_cb_read_packet: read on if the stream is established.
ReadOn(m) == IF Connected(m) THEN [m EXCEPT !.ops = @ \cup {"read"}] ELSE m
=============================================================================
