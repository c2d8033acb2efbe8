----------------------------- MODULE FbSendQueue -----------------------------
(***************************************************************************)
(* What the Facebook protocol promises about the messages a user sends,    *)
(* whatever happens to the stream in between.  Messages are numbered in    *)
(* the order the user sends them.                                          *)
(*                                                                         *)
(*   - the server takes messages in that order and never one while an      *)
(*     earlier one that it has not got still waits to be sent;             *)
(*   - a message leaves the queue only after the server has it, one at a   *)
(*     time and from the head, or together with all others when the        *)
(*     session ends.                                                       *)
(***************************************************************************)
EXTENDS Naturals, SequencesExt

VARIABLES
    sent,    \* number of messages the user has sent
    queue,   \* messages not yet confirmed, oldest first
    log      \* messages the server has taken, each once, oldest first

vars == <<sent, queue, log>>

Init == /\ sent = 0
        /\ queue = <<>>
        /\ log = <<>>

Submit == /\ sent' = sent + 1
          /\ queue' = Append(queue, sent + 1)
          /\ UNCHANGED log

\* Messages that were queued when a session ended are skipped, or arrive late.
Take == \E m \in 1..sent :
    /\ \A i \in DOMAIN log : log[i] < m
    /\ \A i \in DOMAIN queue : queue[i] < m => queue[i] \in Range(log)
    /\ log' = Append(log, m)
    /\ UNCHANGED <<sent, queue>>

Confirm == /\ queue # <<>>
           /\ Head(queue) \in Range(log)
           /\ queue' = Tail(queue)
           /\ UNCHANGED <<sent, log>>

EndSession == /\ queue' = <<>>
              /\ UNCHANGED <<sent, log>>

Next == Submit \/ Take \/ Confirm \/ EndSession

Spec == Init /\ [][Next]_vars
=============================================================================
