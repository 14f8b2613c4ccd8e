----------------------------- MODULE FifoQueue -----------------------------
(***************************************************************************)
(* What concurrency/SpScQueue.hpp promises to its clients, without threads *)
(* or a ring: the values accepted by enqueue are handed to the work        *)
(* function in order, each at most once.  Destroying the queue abandons    *)
(* what is left ("exit even if the work has not been completed"), except   *)
(* for at most one value whose turn had already come.                      *)
(***************************************************************************)
EXTENDS Naturals, Sequences

CONSTANTS Items,     \* the values clients enqueue (pictures, file names)
          NoItem,    \* the worker's variable before the first value
          Capacity   \* how many accepted values may wait

VARIABLES queue,     \* accepted and not yet taken by the worker
          taken,     \* the last value handed to the work function
          phase      \* "open", "closing" (one Take may remain) or "closed"

abstractVars == <<queue, taken, phase>>

AbstractInit ==
  /\ queue = << >>
  /\ taken = NoItem
  /\ phase = "open"

(* A value is accepted.  A full queue refuses a value and nothing changes. *)
Put ==
  /\ phase = "open"
  /\ Len(queue) < Capacity
  /\ \E v \in Items : queue' = Append(queue, v)
  /\ UNCHANGED <<taken, phase>>

Take ==
  /\ phase # "closed"
  /\ queue # << >>
  /\ taken' = Head(queue)
  /\ queue' = Tail(queue)
  /\ phase' = IF phase = "open" THEN "open" ELSE "closed"

(* The destructor raises done_; the worker may be about to take a value.   *)
Close ==
  /\ phase = "open"
  /\ phase' \in {"closing", "closed"}
  /\ UNCHANGED <<queue, taken>>

(* The worker finds nothing to take and will see done_ at its next test.   *)
Leave ==
  /\ phase = "closing"
  /\ phase' = "closed"
  /\ UNCHANGED <<queue, taken>>

AbstractNext == Put \/ Take \/ Close \/ Leave

Fifo == AbstractInit /\ [][AbstractNext]_abstractVars
=============================================================================
