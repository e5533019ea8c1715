------------------------------- MODULE MCRouter -------------------------------
\* TLC instance of the channel router and its adapters. DeliveryRouter: sms falls back to email, email to
\* push, and push to sms, a cycle the router must not follow. The parts that share no state with it or
\* each other: its provider configuration, sends to an adapter, limiters, media, and the
\* adapters' messages and webhooks. A behaviour exercises one part.
EXTENDS DeliveryRouter, RouterConfig, Adapters, RateLimits, MediaProcessor, TLC

CONSTANTS
  sms, email, push,
  d1                         \* a send to an adapter

ThreeChannels == {sms, email, push}
OnSms(n)      == sms
Attempts      == (sms :> 2) @@ (email :> 1) @@ (push :> 1)
Cycle         == (sms :> email) @@ (email :> push) @@ (push :> sms)

ByEmail       == [p1 |-> "email", p2 |-> "email"]
EmailOnly     == <<"email">>
OneAddress    == d1 :> "a"

Interchangeable == Permutations(Slot) \cup Permutations(Notification)

VARIABLES part

partVars == <<part, vars, routerVars, adapterVars, limitVars, mediaVars, webhookVars, messageVars>>

PartsInit ==
  /\ part \in {"deliveries", "providers", "adapters", "limits", "media", "webhooks", "messages"}
  /\ Init /\ RouterInit /\ AdaptersInit /\ LimitInit /\ MediaInit /\ WebhooksInit
  /\ MessagesInit

\* What a step of each part leaves alone.
Part(p) == part = p /\ UNCHANGED part

PartsNext ==
  \/ Part("deliveries") /\ Next
     /\ UNCHANGED <<routerVars, adapterVars, limitVars, mediaVars, webhookVars, messageVars>>
  \/ Part("providers") /\ RouterNext
     /\ UNCHANGED <<vars, adapterVars, limitVars, mediaVars, webhookVars, messageVars>>
  \/ Part("adapters") /\ AdaptersNext
     /\ UNCHANGED <<vars, routerVars, limitVars, mediaVars, webhookVars, messageVars>>
  \/ Part("limits") /\ LimitNext
     /\ UNCHANGED <<vars, routerVars, adapterVars, mediaVars, webhookVars, messageVars>>
  \/ Part("media") /\ MediaNext
     /\ UNCHANGED <<vars, routerVars, adapterVars, limitVars, webhookVars, messageVars>>
  \/ Part("webhooks") /\ WebhooksNext
     /\ UNCHANGED <<vars, routerVars, adapterVars, limitVars, mediaVars, messageVars>>
  \/ Part("messages") /\ MessagesNext
     /\ UNCHANGED <<vars, routerVars, adapterVars, limitVars, mediaVars, webhookVars>>

PartsSpec == PartsInit /\ [][PartsNext]_partVars
=============================================================================
