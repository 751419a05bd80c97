SPECIFICATION LedgerSpec
CONSTANTS
  Task = {t1, t2}
  NoRecord = NoRecord
  Unreadable = Unreadable
  MaxLines = 4
INVARIANTS
  FailClosed
PROPERTIES
  TableSpec
CHECK_DEADLOCK FALSE
