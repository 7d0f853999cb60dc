----------------------------- MODULE EventLoop -----------------------------
(***************************************************************************)
(* What the listener promises of the link stream, without its parts: every *)
(* link is taken in stream order, meets one fate and keeps it, a command   *)
(* that starts is handled, and the loop returns only when the stream is    *)
(* over and nothing is in flight.  The one way to lose a link is to be     *)
(* holding it when a command completes, and a completion costs at most     *)
(* one.                                                                    *)
(***************************************************************************)
EXTENDS Naturals

CONSTANT Position     \* places in the frame stream, from 1

VARIABLES
  status,             \* status[n]: what has become of frame n
  over                \* "no", "ending" (stream over, draining), "yes" (returned)

vars == <<status, over>>

Status == {"ahead", "held", "dropped", "running", "handled", "lost"}

TypeOK == status \in [Position -> Status] /\ over \in {"no", "ending", "yes"}

Init == status = [n \in Position |-> "ahead"] /\ over = "no"

Free == \A n \in Position : status[n] # "held"

\* The first frame not yet taken.
IsNext(n) == status[n] = "ahead" /\ \A m \in Position : m < n => status[m] # "ahead"

\* Taken and at once found to need no command, or kept until its body is known.
Take(n) ==
  /\ over = "no" /\ Free /\ IsNext(n)
  /\ \E s \in {"held", "dropped"} : status' = [status EXCEPT ![n] = s]
  /\ UNCHANGED over

\* The last frame ends the stream.
End(n) ==
  /\ over = "no" /\ Free /\ IsNext(n)
  /\ status' = [status EXCEPT ![n] = "dropped"]
  /\ over' = "ending"

\* The stream ends with no frame to say so.
Break ==
  /\ over = "no" /\ Free
  /\ over' = "ending"
  /\ UNCHANGED status

Drop(n) ==
  /\ status[n] = "held"
  /\ status' = [status EXCEPT ![n] = "dropped"]
  /\ UNCHANGED over

Start(n) ==
  /\ status[n] = "held"
  /\ status' = [status EXCEPT ![n] = "running"]
  /\ UNCHANGED over

\* A command completes; a link held at that moment is lost.
Handle(j) ==
  /\ status[j] = "running"
  /\ status' = [n \in Position |-> IF n = j THEN "handled"
                                   ELSE IF status[n] = "held" THEN "lost"
                                   ELSE status[n]]
  /\ UNCHANGED over

Return ==
  /\ over = "ending"
  /\ \A n \in Position : status[n] # "running"
  /\ over' = "yes"
  /\ UNCHANGED status

Next ==
  \/ \E n \in Position : Take(n) \/ End(n) \/ Drop(n) \/ Start(n) \/ Handle(n)
  \/ Break
  \/ Return

Spec == Init /\ [][Next]_vars
=============================================================================
