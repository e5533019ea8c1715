-------------------------- MODULE ProviderMessages --------------------------
\* The provider adapters' translations: a send request into the provider's message, the provider's event
\* about that message back into the platform's, and the webhook posts that bring those events, which share
\* no state with the messages. Sending is in Adapters.
EXTENDS Naturals, FiniteSets, Sequences, SequencesExt, Functions

CONSTANTS
  Media,               \* kinds of media entries: "image", "file", and "broken" for one too large or gone
  MaxMedia,            \* bound: entries of a request
  Service              \* the adapters, SES in its two modes

ASSUME MessagesAssumption == MaxMedia \in Nat

VARIABLES request, message, event

messageVars == <<request, message, event>>

\* The entries of a sequence at some of its places, in their order.
Picked(s, places) ==
  [n \in 1..Cardinality(places) |-> s[CHOOSE i \in places : Cardinality({j \in places : j <= i}) = n]]

Nothing == [kind |-> "none"]
Ids == {"notification", "correlation", "cycle"}

\* Texts and ids a request may carry; the body may be plain text or hold markup of its own.
SendRequest ==
  [service : Service, channel : {"email", "sms", "whatsapp", "push"}, template : BOOLEAN, prefixed : BOOLEAN,
   params : BOOLEAN, html : BOOLEAN, body : {"plain", "markup", "empty"}, media : BoundedSeq(Media, MaxMedia),
   ids : {{"notification"}, Ids}, configured : BOOLEAN]

MessagesInit == request = Nothing /\ message = Nothing /\ event = Nothing

Content(text, media, ids) == [kind |-> "message", text |-> text, media |-> media, ids |-> ids]
Refused == [kind |-> "refused"]

-----------------------------------------------------------------------------
\* Requests into messages.

\* WhatsApp: a template named by the metadata or by the subject, else the first entry of media
\* with the body as caption, else text. A template has no media.
TemplateText(r) == IF r.template /\ r.params THEN "params" ELSE IF r.body = "empty" THEN "none" ELSE "body"
MediaMessage(r) == Content(IF r.body = "empty" THEN "none" ELSE "body", <<Head(r.media)>>, {})

WhatsApp(r) ==
  IF r.template \/ r.prefixed THEN Content(TemplateText(r), <<>>, {})
  ELSE IF r.media # <<>> THEN MediaMessage(r)
  ELSE Content("body", <<>>, {})

\* The text of a mail: the request's html, or its body.
MailText(r) == IF r.html THEN "html" ELSE "body"

\* Braze: ids travel in the extras of mails only, and never the cycle's.
BrazeEmail(r) == Content(MailText(r), r.media, r.ids \ {"cycle"})
BrazeSms(r) == IF r.configured THEN Content("body", r.media, {}) ELSE Refused

\* Templates only: the body is not among the variables, and a header is an image.
BrazeWhatsApp(r) ==
  IF ~r.configured THEN Refused
  ELSE Content(IF r.params THEN "params" ELSE "none",
               IF r.media # <<>> /\ Head(r.media) = "image" THEN <<Head(r.media)>> ELSE <<>>, {})
BrazePush(r) == Content("body", IF r.media = <<>> THEN <<>> ELSE <<Head(r.media)>>, {})

BrazePayload(r) ==
  CASE r.channel = "email" -> BrazeEmail(r)
    [] r.channel = "sms" -> BrazeSms(r)
    [] r.channel = "whatsapp" -> BrazeWhatsApp(r)
    [] r.channel = "push" -> BrazePush(r)

\* What cannot be downloaded or is too large is left out of a mail.
Attachments(media) == Picked(media, {i \in DOMAIN media : media[i] # "broken"})

\* The headers of a mail; Mailgun takes variables.
SesRaw(r) == Content(MailText(r), Attachments(r.media), r.ids)

\* Without attachments the headers become tags of the event, which are not read back.
SesSimple(r) == Content(MailText(r), <<>>, {})
SesApi(r) == IF Attachments(r.media) = <<>> THEN SesSimple(r) ELSE SesRaw(r)

Mailgun(r) == Content(MailText(r), Attachments(r.media), r.ids)

\* The mail adapters take nothing but mails.
Mail(r) ==
  CASE r.service = "ses-api" -> SesApi(r)
    [] r.service = "ses-smtp" -> SesRaw(r)
    [] OTHER -> Mailgun(r)

Build(r) ==
  CASE r.service = "braze" -> BrazePayload(r)
    [] r.service = "whatsapp" -> IF r.channel = "whatsapp" THEN WhatsApp(r) ELSE Refused
    [] OTHER -> IF r.channel = "email" THEN Mail(r) ELSE Refused

AskMessage ==
  /\ request = Nothing
  /\ \E r \in SendRequest :
       /\ r.service # "braze" => r.configured
       /\ r.channel # "email" => ~r.html
       /\ request' = r /\ message' = Build(r)
  /\ UNCHANGED event

-----------------------------------------------------------------------------
\* Events about messages.

Report == {"delivered", "permanent", "temporary", "complaint", "other"}

\* An SES bounce says whether it is permanent; an unknown type is passed on as it came.
SesType(report) ==
  CASE report = "delivered" -> "DELIVERED"
    [] report = "permanent" -> "BOUNCED"
    [] report = "temporary" -> "TEMP_FAIL"
    [] report = "complaint" -> "COMPLAINED"
    [] OTHER -> "raw"

\* Mailgun's failures that are not permanent are FAILED.
MailgunType(report) == IF report = "temporary" THEN "FAILED" ELSE SesType(report)

\* Braze tells soft bounces of mails only, and skips types it does not know.
BrazeType(channel, report) ==
  CASE report = "delivered" /\ channel # "push" -> {"DELIVERED"}
    [] report = "permanent" /\ channel \in {"email", "sms"} -> {"BOUNCED"}
    [] report = "permanent" /\ channel = "whatsapp" -> {"FAILED"}
    [] report = "temporary" /\ channel = "email" -> {"TEMP_FAIL"}
    [] report = "complaint" /\ channel = "email" -> {"SPAM_COMPLAINT"}
    [] OTHER -> {}

EventTypes(r, report) ==
  IF r.service = "braze" THEN BrazeType(r.channel, report)
  ELSE {IF r.service = "mailgun" THEN MailgunType(report) ELSE SesType(report)}

\* The whatsapp adapter takes no events. The ids are those the provider hands back.
Normalize ==
  /\ message.kind = "message" /\ event = Nothing /\ request.service # "whatsapp"
  /\ \E report \in Report : \E type \in EventTypes(request, report) :
       event' = [kind |-> "event", report |-> report, type |-> type, ids |-> message.ids]
  /\ UNCHANGED <<request, message>>

NextRequest == request # Nothing /\ request' = Nothing /\ message' = Nothing /\ event' = Nothing

MessagesNext == AskMessage \/ Normalize \/ NextRequest

MessagesSpec == MessagesInit /\ [][MessagesNext]_messageVars

-----------------------------------------------------------------------------

\* A message accepted for sending says what the request says, but for Braze's WhatsApp messages,
\* which have nothing but a template, and templates that have parameters of their own.
TextIsSent ==
  message.kind = "message" /\ request.body # "empty" =>
    \/ message.text \in {"body", "html"}
    \/ request.channel = "whatsapp" /\ (request.service = "braze" \/ message.text = "params")

\* A mail has every attachment that can be read, wherever it stands in the list.
MailsKeepMedia ==
  message.kind = "message" /\ request.channel = "email" =>
    \A m \in Media \ {"broken"} :
      Cardinality({i \in DOMAIN message.media : message.media[i] = m})
        = Cardinality({i \in DOMAIN request.media : request.media[i] = m})

\* An event that names no notification is one of Braze's other channels, or of a mail that SES
\* took without attachments.
NamelessIsKnown ==
  event.kind = "event" /\ "notification" \notin event.ids =>
    \/ request.service = "braze" /\ request.channel # "email"
    \/ request.service = "ses-api" /\ Attachments(request.media) = <<>>

\* Only what can never arrive is told as bounced.
BouncedIsPermanent == event.kind = "event" /\ event.type = "BOUNCED" => event.report = "permanent"

-----------------------------------------------------------------------------
\* Webhook events posted back by the providers: verified, normalized and published one by one to
\* the status exchange, fire and forget. A post that is not answered 200 is posted again.

CONSTANTS
  WebhookPost,         \* posts of the providers
  EventKind,           \* kinds of events: known, unknown, malformed
  BatchLength,         \* bound: events in one post
  MaxPosts             \* bound: times a provider repeats a post

ASSUME WebhooksAssumption == BatchLength \in Nat /\ MaxPosts \in Nat \ {0}

VARIABLES post, out

webhookVars == <<post, out>>

WebhooksTypeOK ==
  /\ \A p \in WebhookPost :
       /\ post[p].answer \in {"unsent", "open", "ok", "refused"}
       /\ post[p].done \in 0..Len(post[p].events) /\ post[p].times \in 0..MaxPosts
  /\ \A k \in DOMAIN out : out[k].post \in WebhookPost

\* Braze posts Currents batches, Mailgun and SNS one event at a time.
BatchesOf(provider) == IF provider = "braze" THEN BoundedSeq(EventKind, BatchLength) ELSE [1..1 -> EventKind]

WebhooksInit ==
  /\ post = [p \in WebhookPost |-> [provider |-> "none", events |-> <<>>, answer |-> "unsent", times |-> 0,
                             done |-> 0, failed |-> 0, dropped |-> FALSE]]
  /\ out = <<>>

\* Braze is answered 200 even when the shared secret does not match; the others are refused.
Verified(p, provider, events) ==
  LET asked == [post[p] EXCEPT !.provider = provider, !.events = events, !.times = @ + 1] IN
    \/ post' = [post EXCEPT ![p] = [asked EXCEPT !.answer = "open", !.done = 0]]
    \/ provider = "braze" /\ post' = [post EXCEPT ![p] = [asked EXCEPT !.answer = "ok", !.dropped = TRUE]]
    \/ provider # "braze" /\ post' = [post EXCEPT ![p] = [asked EXCEPT !.answer = "refused"]]

ReceivePost(p) ==
  /\ post[p].answer = "unsent"
  /\ \E provider \in {"braze", "mailgun", "ses"} : \E events \in BatchesOf(provider) : Verified(p, provider, events)
  /\ UNCHANGED out

RepeatPost(p) ==
  /\ post[p].answer = "refused" /\ post[p].times < MaxPosts
  /\ Verified(p, post[p].provider, post[p].events)
  /\ UNCHANGED out

\* Braze skips a type it does not know, the mail adapters pass it on as it came.
Normalized(provider, e) == IF provider = "braze" /\ e = "unknown" THEN {} ELSE {e}

\* A failing publish is logged.
PublishEvent(p, i) ==
  \/ out' = Append(out, [post |-> p, event |-> i]) /\ post' = [post EXCEPT ![p].done = i]
  \/ UNCHANGED out /\ post' = [post EXCEPT ![p].done = i, ![p].failed = @ + 1]

\* Mutant: an unknown type ends the batch.
ProcessEvent_Stops(p) ==
  /\ post[p].answer = "open" /\ post[p].done < Len(post[p].events)
  /\ LET i == post[p].done + 1 IN
       /\ post[p].events[i] # "malformed"
       /\ IF Normalized(post[p].provider, post[p].events[i]) = {}
          THEN UNCHANGED out /\ post' = [post EXCEPT ![p].done = Len(post[p].events)]
          ELSE PublishEvent(p, i)

ProcessEvent(p) ==
  /\ post[p].answer = "open" /\ post[p].done < Len(post[p].events)
  /\ LET i == post[p].done + 1 IN
       /\ post[p].events[i] # "malformed"
       /\ IF Normalized(post[p].provider, post[p].events[i]) = {}
          THEN UNCHANGED out /\ post' = [post EXCEPT ![p].done = i]
          ELSE PublishEvent(p, i)

\* The post ends with its batch, or with the exception an event without a proper timestamp or
\* message throws: 200 in either case, so that it is never posted again.
AnswerPost(p) ==
  /\ post[p].answer = "open"
  /\ \/ post[p].done = Len(post[p].events)
     \/ post[p].done < Len(post[p].events) /\ post[p].events[post[p].done + 1] = "malformed"
  /\ post' = [post EXCEPT ![p].answer = "ok"]
  /\ UNCHANGED out

WebhooksNext == \E p \in WebhookPost : ReceivePost(p) \/ RepeatPost(p) \/ ProcessEvent(p) \/ AnswerPost(p)

WebhooksSpec == WebhooksInit /\ [][WebhooksNext]_webhookVars

-----------------------------------------------------------------------------

\* No event is published twice: a post of which a part went out is never asked for again.
EventsOnce == IsInjective(out)

\* The events of one post keep their order.
InOrder == \A j, k \in DOMAIN out : j < k /\ out[j].post = out[k].post => out[j].event < out[k].event

\* A post answered 200 lost no event it knows, but to a failing publish, an unverified Braze
\* post, or a malformed event before it.
AnsweredMeansPublished ==
  \A p \in WebhookPost : post[p].answer = "ok" /\ ~post[p].dropped /\ "malformed" \notin Range(post[p].events) =>
    post[p].failed + Cardinality({k \in DOMAIN out : out[k].post = p})
      = Cardinality({i \in DOMAIN post[p].events : Normalized(post[p].provider, post[p].events[i]) # {}})
=============================================================================
