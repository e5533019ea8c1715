------------------------- MODULE NotificationLifecycle -------------------------
(***************************************************************************)
(* What the notification engine promises about the status column of the    *)
(* notifications table: a row appears as PENDING and afterwards moves only *)
(* along the edges of VALID_TRANSITIONS.                                   *)
(*                                                                         *)
(* Overwrites is the set of further status changes an implementation is    *)
(* allowed.  With Overwrites = {} this is the documented state machine, in *)
(* which SUPPRESSED, DELIVERED and FAILED are final.                       *)
(***************************************************************************)

CONSTANTS Notification,   \* the rows a behaviour may create
          Overwrites      \* pairs <<from, to>> allowed besides the graph's edges

VARIABLE status           \* Notification -> Status, "ABSENT" before the insert

Status == {"PENDING", "PROCESSING", "SUPPRESSED", "RENDERING",
           "DELIVERING", "SENT", "DELIVERED", "FAILED"}

Terminal == {"SUPPRESSED", "DELIVERED", "FAILED"}

\* VALID_TRANSITIONS; the terminal statuses are no keys of the source's table.
ValidTransitions ==
  [s \in Status \cup {"ABSENT"} |->
     CASE s = "PENDING"    -> {"PROCESSING"}
       [] s = "PROCESSING" -> {"SUPPRESSED", "RENDERING", "FAILED"}
       [] s = "RENDERING"  -> {"DELIVERING", "FAILED"}
       [] s = "DELIVERING" -> {"SENT", "FAILED"}
       [] s = "SENT"       -> {"DELIVERED", "FAILED"}
       [] OTHER            -> {}]

May(from, to) == to \in ValidTransitions[from] \/ <<from, to>> \in Overwrites

-----------------------------------------------------------------------------

Init == status = [n \in Notification |-> "ABSENT"]

Create(n) == /\ status[n] = "ABSENT"
             /\ status' = [status EXCEPT ![n] = "PENDING"]

Move(n, to) == /\ May(status[n], to)
               /\ status' = [status EXCEPT ![n] = to]

Next == \E n \in Notification : Create(n) \/ \E to \in Status : Move(n, to)

Spec == Init /\ [][Next]_status

=============================================================================
