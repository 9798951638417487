---------------------------- MODULE MessageStream ----------------------------
(* What one direction of a multiplexer promises, whatever it does with       *)
(* frames: every message within the limit goes through whole or, cut by its   *)
(* sender, as a beginning of it; under its own number, once, in the order of *)
(* completion.                                                               *)
EXTENDS Naturals, Sequences

CONSTANTS
  Messages, Ids, Payloads,
  Limit       \* what is longer is lost

VARIABLES
  state,      \* of a message: "new", "open", "sent" or, for its sender, "failed"
  number,     \* of an open message: its number, otherwise 0
  queue,      \* messages completed and not delivered
  ended,      \* nothing more goes in
  delivered

vars == <<state, number, queue, ended, delivered>>

Item(n, data) == [seq |-> n, data |-> data]

Init ==
  /\ state = [m \in Messages |-> "new"]
  /\ number = [m \in Messages |-> 0]
  /\ queue = <<>>
  /\ ended = FALSE
  /\ delivered = <<>>

Becomes(m, to, n) ==
  /\ state' = [state EXCEPT ![m] = to]
  /\ number' = [number EXCEPT ![m] = n]

\* Two open messages never have the same number.
Begin(m) ==
  /\ state[m] = "new" /\ ~ended
  /\ \E n \in Ids :
       /\ \A other \in Messages : state[other] = "open" => number[other] # n
       /\ Becomes(m, "open", n)
  /\ UNCHANGED <<queue, ended, delivered>>

Queues(m, data) ==
  queue' = IF Len(data) > Limit THEN queue ELSE Append(queue, Item(number[m], data))

Complete(m) ==
  /\ state[m] = "open" /\ ~ended
  /\ Becomes(m, "sent", 0)
  /\ Queues(m, Payloads[m])
  /\ UNCHANGED <<ended, delivered>>

Cut(m) ==
  /\ state[m] = "open" /\ ~ended
  /\ Becomes(m, "failed", 0)
  /\ \E k \in 0 .. Len(Payloads[m]) : Queues(m, SubSeq(Payloads[m], 1, k))
  /\ UNCHANGED <<ended, delivered>>

GiveUp(m) ==
  /\ state[m] = "new" \/ (state[m] = "open" /\ ended)
  /\ Becomes(m, "failed", 0)
  /\ UNCHANGED <<queue, ended, delivered>>

\* What is on its way when the stream ends may be lost, the last first.
End ==
  /\ ~ended
  /\ ended' = TRUE
  /\ \E k \in 0 .. Len(queue) : queue' = SubSeq(queue, 1, k)
  /\ UNCHANGED <<state, number, delivered>>

Deliver ==
  /\ queue # <<>>
  /\ delivered' = Append(delivered, Head(queue))
  /\ queue' = Tail(queue)
  /\ UNCHANGED <<state, number, ended>>

Next ==
  \/ \E m \in Messages : Begin(m) \/ Complete(m) \/ Cut(m) \/ GiveUp(m)
  \/ End
  \/ Deliver

Spec == Init /\ [][Next]_vars
=============================================================================
