SPECIFICATION LibrarySpec
CONSTANTS
  AlertPlain <- Identifiers
  AlertListed <- Statuses
  InfoPlain <- Events
  InfoListed <- Severities
  Documents <- ForeignDocuments
  Payloads <- AllPayloads
  NoPayload = NoPayload
  NoDocument = NoDocument

  MaxAreas = 4
  NoHeader = NoHeader
  Raised = Raised

  MaxLat = 4
  MaxLon = 4
  Texts <- PolygonTexts
  Garbled = Garbled
  Recipients <- Near
  EdgeSlack = 1
  RoundedWest <- RunsEast
  NoText = NoText
  Invalid = Invalid

  DeliveryIds = {d1, d2}
  Workers = {w1, w2}
  MaxRetries = 3
  MaxSubmissions = 2

  LoggedAlerts = {a1, a2}
  LifecycleEvents = {e1, e2}
  Stamps = {1, 2}
  MaxEntries = 2
  MaxLogged = 4
  Unfiltered = Unfiltered

  Rates = {60, 80, 100}
  Window = 6
  Recent = 5
  Least = 3
  Threshold = 80
  MeanSlack = 0
  RoundedBelow <- RisesOverall
  MaxReports = 7

  Operators = {o1, o2}
  Schema <- ThreeTables
  Unknown = "audit"
  MaxRows = 1
  Requests <- SomeRequests
INVARIANTS
  PartsTypeOK AcceptedReadsAllowed ComposedReadsBack
  HeadersReadBackOrRefused
  CrossingTestIsSound RecipientsAreFound
  TotalsAreHonest
  OneCorrelationPerAlert QueryFindsNewest
  DecisionFollowsReports
PROPERTIES KeepsDeliveryContract ResetIsAllOrNothing
CHECK_DEADLOCK FALSE
