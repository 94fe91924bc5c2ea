--------------------------- MODULE FrameDelivery ---------------------------
(* What the display pipeline promises its caller: frames handed over reach  *)
(* the panel one at a time, in the order they were handed over, each strip  *)
(* showing the frame at the head of the queue and nothing else.             *)
EXTENDS Naturals, Sequences

CONSTANTS
  Frame,     \* frame numbers
  Strips,    \* transfers a frame takes
  Capacity   \* frames handed over and not yet released, at most

VARIABLES
  queue,   \* frames handed over and not released, oldest first
  sent     \* the strips of the head frame on the panel: the frame each shows

Init == queue = <<>> /\ sent = <<>>

\* A finished frame is handed over.
Submit(f) ==
  /\ Len(queue) < Capacity
  /\ queue' = Append(queue, f)
  /\ UNCHANGED sent

\* The next strip of the oldest frame goes out.
Send ==
  /\ queue # <<>> /\ Len(sent) < Strips
  /\ sent' = Append(sent, Head(queue))
  /\ UNCHANGED queue

\* The oldest frame is released: it is on the panel, or its transfer failed.
Release ==
  /\ queue # <<>>
  /\ queue' = Tail(queue)
  /\ sent' = <<>>

Next == (\E f \in Frame : Submit(f)) \/ Send \/ Release

Spec == Init /\ [][Next]_<<queue, sent>> /\ WF_<<queue, sent>>(Release)

=============================================================================
