------------------------------- MODULE MqttWire -------------------------------
(***************************************************************************)
(* Packets from end to end: mqtt.c encodes them and pushes the bytes on a  *)
(* queued output stream, the stream below carries them in pieces of any    *)
(* size, and a peer that reads the way mqtt.c does takes them apart again. *)
(* Errors of the reader are those of FbMqtt and are left out here.         *)
(***************************************************************************)
EXTENDS PurpleQueuedOutputStream, MqttCodec

CONSTANT Packets   \* the packets that are written

ASSUME WireAssumption ==
    /\ Packets \subseteq [head : Byte, rest : Seq(Byte)]
    /\ Data = {Encoded(p) : p \in {q \in Packets : Encodable(q)}}

VARIABLES
    packets,   \* history: the packets written
    filled,    \* bytes that have come into the buffer of the peer
    taken,     \* bytes the peer has taken out of it
    rbuf,      \* priv->rbuf: the packet it is reading
    remz,      \* priv->remz: bytes of it that are missing
    got        \* history: the packets it has got

readVars == <<filled, taken, rbuf, remz, got>>
wireVars == <<outVars, packets, readVars>>

TypeOK ==
    /\ OutTypeOK
    /\ packets \in Seq(Packets) /\ Len(packets) = Len(pushed)
    /\ filled \in 0..Len(wire) /\ taken \in 0..filled
    /\ rbuf \in Seq(Byte) /\ remz \in Nat

Init ==
    /\ OutInit
    /\ packets = <<>>
    /\ filled = 0 /\ taken = 0 /\ rbuf = <<>> /\ remz = 0 /\ got = <<>>

\* fb_mqtt_write: a packet that is too long raises an error and is not written.
Write(packet) ==
    /\ Encodable(packet)
    /\ PushBytes(Encoded(packet))
    /\ packets' = Append(packets, packet)
    /\ UNCHANGED readVars

-----------------------------------------------------------------------------
(* The reader: as long as remz is 0 it waits for a header.                 *)

\* Mutant: after a packet, more bytes are awaited before a look at the buffer.
ReadPacketFilled(from, to) ==
    LET bytes == SubSeq(wire, from + 1, to)
    IN  \/ (LastDigit(bytes) = {} \/ from # taken) /\ remz' = 0
        \/ from = taken /\ \E last \in LastDigit(bytes) : remz' = PacketLength(bytes, last)

\* fb_mqtt_read_packet, when so many bytes have been taken and filled: it looks
\* at the bytes in the buffer, or has more come in.
ReadPacket(from, to) ==
    LET bytes == SubSeq(wire, from + 1, to)
    IN  \/ LastDigit(bytes) = {} /\ remz' = 0
        \/ \E last \in LastDigit(bytes) : remz' = PacketLength(bytes, last)

\* fb_mqtt_cb_fill.
CbFill(n) ==
    /\ remz = 0 /\ filled + n <= Len(wire)
    /\ filled' = filled + n
    /\ ReadPacket(taken, filled')
    /\ UNCHANGED <<outVars, packets, taken, rbuf, got>>

\* fb_mqtt_cb_read_packet with n bytes of the packet; when the buffer had not so
\* many, m more may have come into it.
CbReadPacket(n, m) ==
    /\ n <= remz /\ taken + n <= Len(wire)
    /\ taken' = taken + n
    /\ filled' = IF taken + n > filled THEN taken + n + m ELSE filled
    /\ filled' <= Len(wire)
    /\ LET bytes == rbuf \o SubSeq(wire, taken + 1, taken + n)
       IN  \/ n < remz /\ remz' = remz - n /\ rbuf' = bytes /\ UNCHANGED got
           \/ n = remz /\ got' = Append(got, Decoded(bytes)) /\ rbuf' = <<>>
              /\ ReadPacket(taken', filled')
    /\ UNCHANGED <<outVars, packets>>

Read ==
    \/ \E n \in 1..Len(wire) : CbFill(n)
    \/ \E n \in 1..remz, m \in 0..Len(wire) : CbReadPacket(n, m)

Stream == OutSteps /\ UNCHANGED <<packets, readVars>>

Next == (\E packet \in Packets : Write(packet)) \/ Stream \/ Read

Spec == Init /\ [][Next]_wireVars

\* A write under way ends: the peer takes bytes, or the connection breaks, or the
\* owner closes the stream (FbMqtt's timers see to that).  The peer reads.
FairSpec == Spec /\ WF_wireVars(WriteEnds /\ UNCHANGED <<packets, readVars>>)
                 /\ WF_wireVars(Read)

-----------------------------------------------------------------------------
(* Properties *)

\* What the peer gets are the packets written, whole and in order, however the
\* bytes are cut on the way (mqtt.c:446-493).
ReceivedSent == IsPrefix(got, packets)

\* Each packet written arrives, or its push is answered with an error.
Arrives ==
    \A p \in 1..MaxPushes :
        (p \in Push) ~> (Len(got) >= p \/ (p \in Push /\ result[p] = "failed"))
=============================================================================
