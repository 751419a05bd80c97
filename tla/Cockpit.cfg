SPECIFICATION MCSpec
CONSTANTS
  Call = {1, 2}
  NoCall = 0
  Payload <- Payloads
  NoPayload = no_payload
  Session = {s, t}
  NoSession = no_session
  Pipe = 1
  MaxId = 3
INVARIANTS
  ReplyIsItsOwn
  SendsOnOpen
  FlagsAreTrue
  FailedWasNotDelivered
PROPERTIES
  RemovesOnlyConfirmed
  PanesRecover
CHECK_DEADLOCK FALSE
