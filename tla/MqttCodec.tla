------------------------------- MODULE MqttCodec -------------------------------
(***************************************************************************)
(* The fixed header of an MQTT packet, as mqtt.c writes and reads it: one  *)
(* byte of type and flags, and the length of the rest in digits of seven   *)
(* bits, the least significant first, each but the last with the high bit. *)
(*                                                                         *)
(* A packet is its header byte and the bytes after the header.  Base is    *)
(* 128 in the code, so that a byte has 2 * Base values; a digit with the   *)
(* high bit is one to which Base has been added.                           *)
(***************************************************************************)
EXTENDS Naturals, Sequences

CONSTANTS
    Base,       \* values of a digit: 128
    MaxDigits   \* room for digits: sizeof sbuf

ASSUME CodecAssumption ==
    /\ Base \in Nat /\ Base > 1
    /\ MaxDigits \in Nat \ {0}

Byte == 0..2 * Base - 1

\* fb_mqtt_message_bytes: size, after as many digits have been taken off it.
Sizes(n) ==
    LET size[i \in 0..MaxDigits] == IF i = 0 THEN n ELSE size[i - 1] \div Base
    IN  size

\* It returns NULL for a packet that is too long.
Encodable(packet) == Sizes(Len(packet.rest))[MaxDigits] = 0

\* How often its loop runs.
Digits(n) == CHOOSE k \in 1..MaxDigits :
                /\ Sizes(n)[k] = 0
                /\ \A j \in 1..k - 1 : Sizes(n)[j] > 0

\* What it returns.
Encoded(packet) ==
    LET n == Len(packet.rest)
        k == Digits(n)
        digit(i) == Sizes(n)[i - 1] % Base
    IN  <<packet.head>>
        \o [i \in 1..k |-> IF i < k THEN digit(i) + Base ELSE digit(i)]
        \o packet.rest

\* The position of the last digit, if it is among the bytes there are.
LastDigit(bytes) == {i \in 2..Len(bytes) : /\ bytes[i] < Base
                                           /\ \A j \in 2..i - 1 : bytes[j] >= Base}

\* Mutant: the digits are read from the most significant one.
PacketLengthSwapped(bytes, last) ==
    LET size[i \in 0..last - 1] ==
            IF i = 0 THEN 0 ELSE size[i - 1] * Base + (bytes[i + 1] % Base)
    IN  last + size[last - 1]

\* fb_mqtt_read_packet: the length of a packet with its header.
PacketLength(bytes, last) ==
    LET mult[i \in 0..last - 1] == IF i = 0 THEN 1 ELSE mult[i - 1] * Base
        size[i \in 0..last - 1] ==
            IF i = 0 THEN 0 ELSE size[i - 1] + (bytes[i + 1] % Base) * mult[i - 1]
    IN  last + size[last - 1]

\* fb_mqtt_message_new_bytes, for a whole packet.
Decoded(bytes) ==
    LET last == CHOOSE i \in LastDigit(bytes) : TRUE
    IN  [head |-> bytes[1], rest |-> SubSeq(bytes, last + 1, Len(bytes))]
=============================================================================
