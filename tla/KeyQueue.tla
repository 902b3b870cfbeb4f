------------------------------ MODULE KeyQueue ------------------------------
(***************************************************************************)
(* What the keyboard driver promises: typed characters are taken in the    *)
(* order in which they were typed, each once, and one is refused only when *)
(* Capacity characters wait.                                               *)
(***************************************************************************)
EXTENDS Integers, Sequences

CONSTANTS Keys, Capacity, NoKey

VARIABLES
  queue,  \* characters waiting
  taken,  \* the character last handed to the main loop
  fate    \* what happened to the last character typed

Init == queue = << >> /\ taken = NoKey /\ fate = "none"

Accept(k) ==
  /\ Len(queue) < Capacity
  /\ queue' = Append(queue, k)
  /\ fate' = "queued"
  /\ UNCHANGED taken

Refuse ==
  /\ Len(queue) = Capacity
  /\ fate' = "dropped"
  /\ UNCHANGED <<queue, taken>>

Take ==
  /\ queue # << >>
  /\ taken' = Head(queue)
  /\ queue' = Tail(queue)
  /\ UNCHANGED fate

Next == (\E k \in Keys : Accept(k)) \/ Refuse \/ Take

Spec == Init /\ [][Next]_<<queue, taken, fate>>
=============================================================================
