---------------------------- MODULE NtbListSpec ----------------------------
(***************************************************************************)
(* One ntb_list_t under any sequence of push_ntb and pop_ntb calls, and    *)
(* the FIFO that it implements.                                            *)
(***************************************************************************)
EXTENDS NtbList

VARIABLES
  list,      \* the ntb_list_t
  pushed,    \* what the last push_ntb returned
  popped     \* what the last pop_ntb returned

listVars == <<list, pushed, popped>>

ListInit == list = EmptyList /\ pushed = FALSE /\ popped = NULL

Push(ntb) ==
  list' = push_ntb(list, ntb) /\ pushed' = CanPush(list, ntb) /\ UNCHANGED popped

Pop == list' = pop_ntb(list) /\ popped' = Popped(list) /\ UNCHANGED pushed

ListNext == (\E ntb \in NtbPtr : Push(ntb)) \/ Pop

ListSpec == ListInit /\ [][ListNext]_listVars

-----------------------------------------------------------------------------
\* The slots that the indices visit: 0, 1, 3, ... up to the last slot, where
\* both indices then stay.
Visited == {0, 1, 3, 7, 15} \cap Slots
LastSlot == NCM_NTB_N - 1

\* Both indices of a list stay inside ntb_list[NCM_NTB_N] whatever the calls
\* (struct.c:60 and :85 add the successor to the index instead of assigning it).
ListTypeOK == list \in ntb_list_t /\ pushed \in BOOLEAN /\ popped \in NtbPtr

\* The occupied slots are exactly the visited ones from list_front up to, and
\* not including, list_back; only the last slot, on which list_back stays, may
\* be occupied as well.  It is what makes a NULL from pop_ntb mean "empty".
Occupancy ==
  /\ list.list_front \in Visited /\ list.list_back \in Visited
  /\ list.list_front <= list.list_back
  /\ \A i \in Slots :
       i # LastSlot =>
         (list.ntb_list[i] # NULL
            <=> i \in Visited /\ list.list_front <= i /\ i < list.list_back)
  /\ list.list_back # LastSlot => list.ntb_list[LastSlot] = NULL

\* pop_ntb answers NULL ("List Empty", struct.c:77) only when no slot is occupied.
NullMeansEmpty == Popped(list) = NULL => Held(list) = {}

\* A list is what push_ntb and pop_ntb take it for: indices inside the array, occupied
\* slots between them, and NULL for an empty list only.
QueueOK == ListTypeOK /\ Occupancy /\ NullMeansEmpty

\* The slots in the order of the visits, and the place of a slot in it.
Order == <<0, 1, 3, 7, 15>>
Visit(slot) == CHOOSE k \in 1 .. 5 : Order[k] = slot

\* What the list holds, oldest first: from list_front up to list_back, whose own slot is
\* occupied only if list_back cannot move on.
Contents ==
  LET first == Visit(list.list_front)
      end == Visit(list.list_back) + IF list.ntb_list[list.list_back] = NULL THEN 0 ELSE 1
  IN [k \in 1 .. end - first |-> list.ntb_list[Order[first + k - 1]]]

Fifo == INSTANCE NtbFifo WITH queue <- Contents

\* Every call sequence on the list is one of the FIFO: no NTB is lost,
\* duplicated or overtaken, and a refused push changes nothing.
ImplementsFifo == Fifo!Spec

\* struct.c:51-54: a push is refused with "List Full"; a list of NCM_NTB_N
\* slots is full when NCM_NTB_N NTBs are held.
RefusedOnlyWhenFull ==
  [][\A ntb \in Ntbs : Push(ntb) /\ ~pushed' => Len(Contents) = NCM_NTB_N]_listVars
=============================================================================
