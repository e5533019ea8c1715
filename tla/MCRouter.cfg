SPECIFICATION PartsSpec
CONSTANTS
  sms = sms
  email = email
  push = push
  Notification = {n1}
  Channel <- ThreeChannels
  Home <- OnSms
  Blank = {}
  Slot = {s1, s2}
  MaxAttempts <- Attempts
  Fallback <- Cycle
  NoChannel = none
  AttemptBound = 3
  MaxFaults = 1
  d1 = d1
  Provider = {"p1", "p2"}
  ChannelOf <- ByEmail
  Channels <- EmailOnly
  Weight = 1
  Admin = {a1}
  Background = {b1}
  routingMode = "weighted"
  MaxWrites = 2
  Delivery = {d1}
  Address = {"a"}
  AddressOf <- OneAddress
  Adapter = {"braze", "whatsapp", "ses", "mailgun"}
  MaxTries = 2
  ttl = 1
  MaxClock = 2
  Caller = {c1, c2}
  Unit = 2
  RefillRate = 1
  Capacity = 1
  TimeoutTicks = 2
  Limit = 2
  Window = 2
  MaxTime = 6
  MaxGrants = 4
  Media = {"image", "file", "broken"}
  MaxMedia = 2
  Service = {"braze", "whatsapp", "ses-api", "ses-smtp", "mailgun"}
  WebhookPost = {h1, h2}
  EventKind = {"known", "unknown", "malformed"}
  BatchLength = 2
  MaxPosts = 2
  Size = {1, 2, 3}
  maxPerFile = 2
  maxTotal = 3
  MaxEntries = 2
SYMMETRY Interchangeable
INVARIANTS NoSilentLoss OneOutcome WithinPolicy   AdaptersFaithful
PROPERTIES RoutedAsConfigured
CHECK_DEADLOCK FALSE
