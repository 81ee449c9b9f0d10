------------------------------ MODULE NtbFifo ------------------------------
(***************************************************************************)
(* What the callers of push_ntb and pop_ntb rely on: NTBs come out in the  *)
(* order they went in, a pop returns NULL only when nothing is held, and a *)
(* push that is refused leaves everything in place.  When a push may be    *)
(* refused is left open, except that an empty list always accepts.         *)
(***************************************************************************)
EXTENDS Sequences

CONSTANTS Ntbs, NULL

VARIABLES
  queue,     \* the NTBs held, oldest first
  pushed,    \* what the last push returned
  popped     \* what the last pop returned

vars == <<queue, pushed, popped>>

Init == queue = <<>> /\ pushed = FALSE /\ popped = NULL

Push(ntb) ==
  /\ \/ ntb # NULL /\ queue' = Append(queue, ntb) /\ pushed' = TRUE
     \/ (ntb = NULL \/ queue # <<>>) /\ queue' = queue /\ pushed' = FALSE
  /\ UNCHANGED popped

Pop ==
  /\ \/ queue # <<>> /\ popped' = Head(queue) /\ queue' = Tail(queue)
     \/ queue = <<>> /\ popped' = NULL /\ queue' = queue
  /\ UNCHANGED pushed

Next == (\E ntb \in Ntbs \cup {NULL} : Push(ntb)) \/ Pop

Spec == Init /\ [][Next]_vars
=============================================================================
