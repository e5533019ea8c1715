------------------------------- MODULE MCDelivery -------------------------------
(***************************************************************************)
(* TLC instances of NotificationDelivery: one notification dispatched by   *)
(* sms, whose fallback is email.                                           *)
(***************************************************************************)
EXTENDS NotificationDelivery, TLC

CONSTANTS sms, email

OnlySms   == {sms}
Both      == {sms, email}
Attempts  == (sms :> 2) @@ (email :> 1)
ToEmail   == (sms :> email) @@ (email :> NoChannel)

=============================================================================
