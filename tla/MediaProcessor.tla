--------------------------- MODULE MediaProcessor ---------------------------
\* Channel-router-service: what becomes of the media of a dispatch, per channel.
EXTENDS ProviderMessages

CONSTANTS Size, maxPerFile, maxTotal, MaxEntries

ASSUME MediaAssumption == Size \subseteq Nat \ {0} /\ {maxPerFile, maxTotal, MaxEntries} \subseteq Nat

Context == {"inline", "attachment"}
\* An entry, and how its server answers: the size, or 0 when the download fails or the HEAD
\* tells no size.
Fails == 0
SizeAnswer == Size \cup {Fails}
MediaEntry == [context : Context, image : BOOLEAN, https : BOOLEAN, answer : SizeAnswer]

VARIABLES mediaChannel, entries, entriesLeft, results, totalSize
mediaVars == <<mediaChannel, entries, entriesLeft, results, totalSize>>

MediaInit == mediaChannel = "none" /\ entries = <<>> /\ entriesLeft = <<>> /\ results = <<>> /\ totalSize = 0

DispatchMedia(ch, given) ==
  /\ mediaChannel = "none" /\ mediaChannel' = ch /\ entries' = given /\ entriesLeft' = given
  /\ UNCHANGED <<results, totalSize>>

EntryResult(entry, error) == [entry |-> entry, error |-> error]
AddResult(entry, error) == results' = Append(results, EntryResult(entry, error))

TooLarge(size) == size > maxPerFile

OverTotal(size) == totalSize + size > maxTotal

\* Email: inline images are skipped, attachments are downloaded one after the other.
ProcessEmail ==
  /\ mediaChannel = "email" /\ entriesLeft # <<>> /\ entriesLeft' = Tail(entriesLeft)
  /\ LET m == Head(entriesLeft) IN
       IF m.context = "inline" THEN UNCHANGED <<results, totalSize>>
       ELSE IF ~m.https THEN AddResult(m, "url") /\ UNCHANGED totalSize
       ELSE IF m.answer = Fails THEN AddResult(m, "download") /\ UNCHANGED totalSize
       ELSE IF TooLarge(m.answer) THEN AddResult(m, "size") /\ UNCHANGED totalSize
       ELSE IF OverTotal(m.answer) THEN AddResult(m, "total") /\ UNCHANGED totalSize
       ELSE AddResult(m, "none") /\ totalSize' = totalSize + m.answer
  /\ UNCHANGED <<mediaChannel, entries>>

\* WhatsApp: urls pass through unless known to be too large; the total is summed and never
\* compared.
ProcessWhatsApp ==
  /\ mediaChannel = "whatsapp" /\ entriesLeft # <<>> /\ entriesLeft' = Tail(entriesLeft)
  /\ LET m == Head(entriesLeft) IN
       IF ~m.https THEN AddResult(m, "url") /\ UNCHANGED totalSize
       ELSE IF m.answer = Fails THEN AddResult(m, "none") /\ UNCHANGED totalSize
       ELSE IF TooLarge(m.answer) THEN AddResult(m, "size") /\ UNCHANGED totalSize
       ELSE AddResult(m, "none") /\ totalSize' = totalSize + m.answer
  /\ UNCHANGED <<mediaChannel, entries>>

\* Push: the first inline image only.
ProcessPush ==
  /\ mediaChannel = "push" /\ entriesLeft # <<>> /\ entriesLeft' = <<>>
  /\ LET images == Picked(entriesLeft, {i \in DOMAIN entriesLeft : entriesLeft[i].context = "inline" /\ entriesLeft[i].image}) IN
       IF images = <<>> THEN UNCHANGED results
       ELSE LET m == Head(images) IN
            AddResult(m, IF ~m.https THEN "url" ELSE IF m.answer # Fails /\ TooLarge(m.answer) THEN "size" ELSE "none")
  /\ UNCHANGED <<mediaChannel, entries, totalSize>>

MediaNext ==
  \/ \E ch \in {"email", "whatsapp", "push"}, n \in 1 .. MaxEntries : \E given \in [1 .. n -> MediaEntry] : DispatchMedia(ch, given)
  \/ ProcessEmail \/ ProcessWhatsApp \/ ProcessPush

MediaSpec == MediaInit /\ [][MediaNext]_mediaVars

-----------------------------------------------------------------------------
\* The results without an error, and the bytes of the first n results together.
Carried == {i \in DOMAIN results : results[i].error = "none"}
Bytes[n \in 0 .. Len(results)] == IF n = 0 THEN 0 ELSE Bytes[n - 1] + (IF n \in Carried THEN results[n].entry.answer ELSE 0)

\* The attachments an e-mail carries fit the limits together, whatever was left out before
\* them; one left out makes room for a smaller one after it.
EmailWithinLimits ==
  mediaChannel = "email" => Bytes[Len(results)] <= maxTotal /\ \A i \in Carried : results[i].entry.answer <= maxPerFile

\* One bad entry costs only itself: every entry the channel takes has a result, in order.
EveryEntryAnswered ==
  entriesLeft = <<>> =>
    LET taken == CASE mediaChannel = "email" -> Picked(entries, {i \in DOMAIN entries : entries[i].context = "attachment"})
                   [] mediaChannel = "whatsapp" -> entries
                   [] OTHER -> <<>>
    IN mediaChannel = "push" \/ [i \in DOMAIN results |-> results[i].entry] = taken

\* A request's text, attachments and ids reach the recipient's message up to what the provider's interface
\* leaves out; attachments keep within the limits and every entry is answered though others fail; and the
\* events of a webhook post are published once, in order, and none it knows is lost after a 200 but to a
\* failing publish, an unverified Braze post or a malformed event.
AdaptersFaithful ==
  /\ TextIsSent /\ MailsKeepMedia /\ NamelessIsKnown /\ BouncedIsPermanent
  /\ EmailWithinLimits /\ EveryEntryAnswered
  /\ WebhooksTypeOK /\ EventsOnce /\ InOrder /\ AnsweredMeansPublished
=============================================================================
