\* Two handlers at work; the server refuses the report of the second order for ever.
SPECIFICATION FairOutboxSpec
CONSTANTS
  e1 = e1
  p1 = p1
  o1 = o1
  o2 = o2
  h1 = h1
  h2 = h2
  Events <- OneEvent
  Persons <- OnePerson
  Orders <- TwoOrders
  Handlers <- TwoHandlers
  EventOf <- OrderEvents
  SubjectOf <- OrderSubjects
  MemberOf <- Members
  CopiedOut <- OneCopied
  Refused <- SecondRefused
  MaxFaults = 2
  WholeEvent = WholeEvent
  NoOrder = NoOrder
  NoEvent = NoEvent
  NoReport = NoReport
  NoRow = NoRow
INVARIANTS
  OutboxTypeOK
  SentIsDelivered
  ReportedIsErased
  SubjectCopiesConfirmed
PROPERTY
  ReportIsStable
  ReportsArrive
