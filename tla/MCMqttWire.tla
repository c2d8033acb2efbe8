---- MODULE MCMqttWire ----
EXTENDS MqttWire
\* Lengths of one digit, of two, and of more than can be written.
MCPackets == {[head |-> 1, rest |-> <<>>],
              [head |-> 3, rest |-> <<0, 3>>],
              [head |-> 2, rest |-> <<1, 1, 1, 1>>]}
MCData == {Encoded(p) : p \in {q \in MCPackets : Encodable(q)}}
====
