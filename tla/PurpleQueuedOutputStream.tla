----------------------- MODULE PurpleQueuedOutputStream -----------------------
(***************************************************************************)
(* PurpleQueuedOutputStream over a GIO stream, with the owner the protocol *)
(* connections are: it pushes bytes, clears the queue when it is told of a *)
(* failure (fb_mqtt_cb_push_bytes), and in the end cancels everything and  *)
(* has the stream closed as soon as nothing is pending                     *)
(* (purple_gio_graceful_close).                                            *)
(*                                                                         *)
(* A push is the GTask it makes, known by its number.  The stream below    *)
(* takes any part of what it is given, or fails, and takes nothing more    *)
(* after a failure.  All pushes have the owner's cancellable; once that is *)
(* cancelled, GTask reports every write as failed, even one that had taken *)
(* bytes.  That a push finds the stream pending for another operation      *)
(* (line 211) does not happen: only pushes make it pending (NoneForgotten),*)
(* and the owner pushes nothing once it has had it closed.                 *)
(***************************************************************************)
EXTENDS Naturals, SequencesExt

CONSTANTS
    Data,       \* the byte sequences that are pushed
    MaxPushes   \* bound: pushes in all

ASSUME OutputAssumption ==
    /\ \A d \in Data : d \in Seq(Nat) /\ Len(d) > 0
    /\ MaxPushes \in Nat \ {0}

VARIABLES
    pushed,         \* history: the data of each push
    queue,          \* priv->queue: pushes that wait
    current,        \* the push that is being written, 0 if there is none
    left,           \* its data that the stream below has not taken
    pending,        \* g_output_stream_has_pending
    pending_queued, \* priv->pending_queued
    result,         \* what each push was answered
    owed,           \* pushes with an answer, whose callback GLib runs later
    base,           \* the stream below
    closer,         \* the owner has cancelled and called
                    \* purple_gio_graceful_close: not yet, it waits or is done
    wire            \* history: the bytes the stream below has taken

outVars == <<pushed, queue, current, left, pending, pending_queued, result,
             owed, base, closer, wire>>

Push == 1..Len(pushed)
Queued == {queue[i] : i \in 1..Len(queue)}

OutTypeOK ==
    /\ pushed \in Seq(Data) /\ Len(pushed) <= MaxPushes
    /\ queue \in Seq(Push)
    /\ current \in Push \cup {0}
    /\ left \in Seq(Nat)
    /\ pending \in BOOLEAN /\ pending_queued \in BOOLEAN
    /\ result \in [Push -> {"none", "ok", "failed"}]
    /\ owed \subseteq {p \in Push : result[p] = "failed"}
    /\ base \in {"open", "broken"}
    /\ closer \in {"none", "waiting", "done"}
    /\ wire \in Seq(Nat)

OutInit ==
    /\ pushed = <<>> /\ queue = <<>> /\ current = 0 /\ left = <<>>
    /\ pending = FALSE /\ pending_queued = FALSE
    /\ result = <<>> /\ owed = {}
    /\ base = "open" /\ closer = "none"
    /\ wire = <<>>

-----------------------------------------------------------------------------
(* Parts of handlers.                                                      *)

\* Mutant: after the last push the stream counts as pending.
NextPending(waiting) ==
    IF waiting = <<>>
    THEN /\ current' = 0 /\ left' = <<>> /\ queue' = <<>>
         /\ pending_queued' = FALSE /\ UNCHANGED pending
    ELSE /\ current' = Head(waiting) /\ left' = pushed[Head(waiting)]
         /\ queue' = Tail(waiting)
         /\ UNCHANGED <<pending, pending_queued>>

\* The end of purple_queued_output_stream_push_bytes_async_cb after an answer.
TakeNext(waiting) ==
    IF waiting = <<>>
    THEN /\ current' = 0 /\ left' = <<>> /\ queue' = <<>>
         /\ pending' = FALSE /\ pending_queued' = FALSE
    ELSE /\ current' = Head(waiting) /\ left' = pushed[Head(waiting)]
         /\ queue' = Tail(waiting)
         /\ UNCHANGED <<pending, pending_queued>>

\* Mutant: what is cleared gets no answer.
FailedOne(pushes) == [p \in Push |-> IF p = current THEN "failed" ELSE result[p]]

\* The answers when some pushes fail.
Failed(pushes) == [p \in Push |-> IF p \in pushes THEN "failed" ELSE result[p]]

-----------------------------------------------------------------------------
(* The owner.                                                              *)

\* purple_queued_output_stream_push_bytes_async.
PushBytes(data) ==
    LET new == Len(pushed) + 1
    IN  /\ closer = "none"
        /\ Len(pushed) < MaxPushes
        /\ pushed' = Append(pushed, data)
        /\ result' = Append(result, "none")
        /\ \/ ~pending /\ pending' = TRUE /\ pending_queued' = TRUE
              /\ current' = new /\ left' = data /\ UNCHANGED queue
           \/ pending /\ queue' = Append(queue, new)
              /\ UNCHANGED <<pending, pending_queued, current, left>>
        /\ UNCHANGED <<owed, base, closer, wire>>

\* fb_mqtt_close, which cancels what is under way: that fails when GLib gets to
\* it, unless it is done already.
Close ==
    /\ closer = "none" /\ closer' = "waiting"
    /\ UNCHANGED <<pushed, queue, current, left, pending, pending_queued,
                   result, owed, base, wire>>

\* fb_mqtt_cb_push_bytes for an answer given in the main loop iteration that
\* made the push.
Callback(p) ==
    /\ p \in owed
    /\ result' = Failed(Queued)
    /\ \E later \in SUBSET Queued : owed' = (owed \ {p}) \cup later
    /\ queue' = <<>>
    /\ UNCHANGED <<pushed, current, left, pending, pending_queued, base,
                   closer, wire>>

-----------------------------------------------------------------------------
(* GIO.                                                                    *)

\* Mutant: a partial write ends the push.
WrittenOnce(n) ==
    /\ current # 0 /\ base = "open" /\ closer = "none" /\ n <= Len(left)
    /\ wire' = wire \o SubSeq(left, 1, n)
    /\ result' = [result EXCEPT ![current] = "ok"]
    /\ TakeNext(queue)
    /\ UNCHANGED <<pushed, owed, base, closer>>

\* The stream below has taken some bytes.
Written(n) ==
    /\ current # 0 /\ base = "open" /\ closer = "none" /\ n <= Len(left)
    /\ wire' = wire \o SubSeq(left, 1, n)
    /\ \/ n < Len(left) /\ left' = SubSeq(left, n + 1, Len(left))
          /\ UNCHANGED <<queue, current, pending, pending_queued, result>>
       \/ n = Len(left) /\ result' = [result EXCEPT ![current] = "ok"]
          /\ TakeNext(queue)
    /\ UNCHANGED <<pushed, owed, base, closer>>

\* How many bytes the stream below may have taken of a write that fails: when
\* it fails for being cancelled only, all it was given.
TakenAnyhow == IF closer # "none" /\ base = "open" THEN 0..Len(left) ELSE {0}

\* It fails: the callback of the push is called at once and clears the queue.
\* The callbacks of pushes cleared are called at once, too, and find nothing
\* to clear, or later.
WriteFailed ==
    /\ current # 0
    /\ \E n \in TakenAnyhow : wire' = wire \o SubSeq(left, 1, n)
    /\ result' = Failed({current} \cup Queued)
    /\ \E later \in SUBSET Queued : owed' = owed \cup later
    /\ base' = "broken"
    /\ TakeNext(<<>>)
    /\ UNCHANGED <<pushed, closer>>

\* Mutant: the closer does not wait.
CloseNow ==
    /\ closer = "waiting" /\ closer' = "done"
    /\ UNCHANGED <<pushed, queue, current, left, pending, pending_queued,
                   result, owed, base, wire>>

\* graceful_close_cb.
GracefulCloseCb ==
    /\ closer = "waiting" /\ ~pending
    /\ closer' = "done"
    /\ UNCHANGED <<pushed, queue, current, left, pending, pending_queued,
                   result, owed, base, wire>>

\* The operation under way ends.
WriteEnds == WriteFailed \/ \E n \in 1..Len(left) : Written(n)

\* Every step but a push.
OutSteps ==
    \/ Close
    \/ \E p \in owed : Callback(p)
    \/ WriteEnds
    \/ GracefulCloseCb

-----------------------------------------------------------------------------
(* Properties *)

\* A push that has no answer is being written or waits behind one that is, so
\* that it will be reached: the stream counts as pending exactly while it writes
\* (queuedoutputstream.c:102-114).
NoneForgotten ==
    /\ pending <=> current # 0
    /\ pending_queued <=> pending
    /\ queue # <<>> => pending
    /\ \A p \in Push : result[p] = "none" <=> p = current \/ p \in Queued

\* The stream below is closed only when no push is without an answer
\* (purple-gio.c:39).
CloseWaits == closer = "done" => \A p \in Push : result[p] # "none"

\* A push is reported as done only if all its bytes have been handed down, and
\* as failed only if they have not, across partial writes and clearings of the
\* queue; but the push that is last handed down when the owner closes may be
\* reported as failed although nothing of it is missing
\* (queuedoutputstream.c:76-95).
AnswersTrue ==
    \A p \in Push :
        LET end == Len(FlattenSeq(SubSeq(pushed, 1, p)))
        IN  /\ result[p] = "ok" => end <= Len(wire)
            /\ result[p] = "failed" =>
                 Len(wire) < end \/ (closer # "none" /\ Len(wire) = end)
=============================================================================
