------------------------------- MODULE FbMqtt --------------------------------
(***************************************************************************)
(* The MQTT stream of the Facebook protocol (mqtt.c) under an arbitrary    *)
(* peer and an arbitrary client.  Every step is one dispatch of the GLib   *)
(* main loop: a GIO completion, a timer, or a call of the client.  A       *)
(* signal is emitted synchronously, so a step includes what the client's   *)
(* handler does to the stream.                                             *)
(*                                                                         *)
(* Of the client the module assumes only what the signal documentation     *)
(* offers it: the "error" handler reopens the stream, closes it, or leaves *)
(* it alone and reports the error to its own user.                         *)
(***************************************************************************)
EXTENDS FbMqttOps

VARIABLES
    mqtt,      \* the FbMqtt object
    reported   \* the client has given up on the stream and said so

vars == <<mqtt, reported>>

TypeOK == /\ mqtt \in MqttType
          /\ reported \in BOOLEAN

Init == /\ mqtt = NewMqtt
        /\ reported = FALSE

-----------------------------------------------------------------------------
(* Errors *)

\* What the client may make of an "error" signal emitted with the stream in
\* state m: reopen it, close it, or report and leave it alone, whereupon the
\* emitting function returns with the stream in state kept.  fb_mqtt_open
\* itself fails, with the stream closed, when no GSocketClient can be had.
RaiseError(m, kept) ==
    \/ mqtt' \in {Open(m), Close(m)} /\ UNCHANGED reported
    \/ mqtt' \in {Close(m), kept} /\ reported' = TRUE

\* fb_mqtt_take_error with any error but the one of a cancelled operation,
\* for which see CbStale.
TakeError(m) == RaiseError(m, m)

-----------------------------------------------------------------------------
(* Calls of the client *)

\* fb_mqtt_open, with and without a GSocketClient.
CallOpen == \/ mqtt' = Open(mqtt) /\ UNCHANGED reported
            \/ mqtt' = Close(mqtt) /\ reported' = TRUE

CallPublish == /\ mqtt' = Publish(mqtt)
               /\ UNCHANGED reported

CallDisconnect == /\ mqtt' = Disconnect(mqtt)
                  /\ UNCHANGED reported

\* The last reference is dropped, perhaps after a DISCONNECT; the client may
\* start again with a new object, but what was cancelled is yet to complete.
Dispose == /\ mqtt' \in {Close(mqtt), Close(Disconnect(mqtt))}
           /\ reported' = FALSE

\* The client reports an error of its own.
Report == /\ reported' = TRUE
          /\ UNCHANGED mqtt

-----------------------------------------------------------------------------
(* Completions of GIO operations and timers *)

CbOpen ==
    /\ "connect" \in mqtt.ops
    /\ \/ mqtt' = Connect(Opened(mqtt)) /\ UNCHANGED reported
       \/ mqtt' = Opened(mqtt) /\ reported' = TRUE  \* "open" handler fails

CbOpenFailed == /\ "connect" \in mqtt.ops
                /\ TakeError(OpenFailed(mqtt))

CbTimeout == /\ mqtt.tev = "timeout"
             /\ RaiseError(TimeoutClear(mqtt), TimeoutClear(mqtt))

CbPing == /\ mqtt.tev = "ping"
          /\ mqtt' = Timeout(Write(mqtt))
          /\ UNCHANGED reported

CbPushed == /\ "write" \in mqtt.ops
            /\ mqtt' = Completed(mqtt, "write")
            /\ UNCHANGED reported

\* The output queue is cleared, so every pending write is gone with this one.
CbPushFailed == /\ "write" \in mqtt.ops
                /\ TakeError(Completed(mqtt, "write"))

\* End of file or error in fb_mqtt_cb_fill or fb_mqtt_cb_read_packet.
CbReadFailed == /\ "read" \in mqtt.ops
                /\ TakeError(Completed(mqtt, "read"))

\* GIO completes an operation of a stream that was closed since.  Its
\* cancellable has been cancelled, so whatever came of it GIO reports it as
\* cancelled, which fb_mqtt_take_error ignores.
CbStale(op) ==
    /\ op \in mqtt.stale
    /\ mqtt' = [mqtt EXCEPT !.stale = @ \ {op}]
    /\ UNCHANGED reported

-----------------------------------------------------------------------------
(* Packets: fb_mqtt_cb_read_packet and the cases of fb_mqtt_read *)

\* A whole packet has arrived and its read operation is done.
Arrival == "read" \in mqtt.ops

Received == Completed(mqtt, "read")

\* The "connect" handler may publish.
ReadConnack ==
    /\ Arrival
    /\ mqtt' \in {ReadOn(Accepted(Received)),
                  ReadOn(Publish(Accepted(Received)))}
    /\ UNCHANGED reported

\* A CONNACK that refuses, an unknown type or a truncated packet.
ReadBad == /\ Arrival
           /\ RaiseError(Received, ReadOn(Received))

\* A frame fb_mqtt_message_new_bytes cannot take apart: the reader stops.
ReadMalformed == /\ Arrival
                 /\ RaiseError(Received, Received)

\* Mutant: does not read on.
ReadPingrespOnly == /\ Arrival
                    /\ mqtt' = Ping(Received)
                    /\ UNCHANGED reported

ReadPingresp == /\ Arrival
                /\ mqtt' = ReadOn(Ping(Received))
                /\ UNCHANGED reported

\* PUBLISH, acknowledged when its quality of service asks for it, and then
\* the "publish" handler, which may publish or report; PUBREL; and the
\* acknowledgements that are ignored.
ReadOther == /\ Arrival
             /\ mqtt' \in {ReadOn(Received), ReadOn(Write(Received))}
             /\ reported' \in {reported, TRUE}

Read == \/ ReadConnack \/ ReadBad \/ ReadMalformed
        \/ ReadPingresp \/ ReadOther

Next == \/ CallOpen \/ CallPublish \/ CallDisconnect \/ Dispose \/ Report
        \/ CbOpen \/ CbOpenFailed \/ CbTimeout \/ CbPing
        \/ CbPushed \/ CbPushFailed \/ CbReadFailed
        \/ \E op \in AsyncOps : CbStale(op)
        \/ Read

Spec == Init /\ [][Next]_vars

-----------------------------------------------------------------------------
(* Properties *)

\* The operations GIO has pending fit the stream they were started on: an
\* attempt to connect exactly while opening, a read or a write only on a
\* connection; and the ping timer, whose callback writes without looking,
\* is armed only while there is an output stream to write to.
OpsFitStream ==
    /\ ("connect" \in mqtt.ops) = (mqtt.stream = "opening")
    /\ mqtt.ops \cap {"read", "write"} # {} => HasConn(mqtt)
    /\ mqtt.tev = "ping" => HasConn(mqtt)

\* No silent stall: as long as the client has not been left with an error,
\* a stream that is opening, being set up or established has a timer armed
\* that will notice a peer that never answers.
Watched == mqtt.stream # "closed" /\ ~reported => mqtt.tev # "none"

\* No deaf stream: an established stream whose client has not given up has
\* a read pending, whatever packets and failures came before.
ReaderAlive == Connected(mqtt) /\ ~reported => "read" \in mqtt.ops

\* A closed stream leaves no timer behind that would later report a timeout
\* of a stream that is gone.
NoOrphanTimer == mqtt.stream = "closed" /\ ~reported => mqtt.tev = "none"

Inv == OpsFitStream /\ Watched /\ ReaderAlive /\ NoOrphanTimer
=============================================================================
