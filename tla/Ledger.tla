-------------------------------- MODULE Ledger --------------------------------
(***************************************************************************)
(* internal/ledger: an append-only file of JSON lines shared by every      *)
(* estate process.  Append is one O_APPEND write of a record and its       *)
(* newline, then a sync; Current reads the whole file, keeps the last      *)
(* record of each task and errors on the first line it cannot parse.       *)
(*                                                                         *)
(* A write can be cut short (disk full, power loss), leaving a last line   *)
(* with no newline onto which the next record is glued.                    *)
(***************************************************************************)
EXTENDS Integers, Sequences, TaskState

CONSTANTS
  Task,        \* dispatch ids
  NoRecord,    \* "this task has no record"
  Unreadable,  \* a line Current cannot parse: torn, glued, or over 4 MiB
  MaxLines     \* bound on the length of the file

Record == [task : Task, state : State]

ASSUME NoRecordAssumption == NoRecord \notin State
ASSUME UnreadableAssumption == Unreadable \notin Record
ASSUME MaxLinesAssumption == MaxLines \in Nat

VARIABLES
  log,           \* the lines of the file
  unterminated,  \* the last line has no newline
  told           \* history: the states a reader may report for each task, the
                 \* last acknowledged one and those written since without an
                 \* acknowledgement

ledgerVars == <<log, unterminated, told>>

LedgerTypeOK ==
  /\ log \in Seq(Record \cup {Unreadable})
  /\ unterminated \in BOOLEAN
  /\ told \in [Task -> SUBSET (State \cup {NoRecord})]

-------------------------------------------------------------------------------
(* Reading. *)

\* Mutant: malformed lines are skipped.
ReadableSkippingDamage == TRUE

\* One malformed line fails the whole read.
Readable == \A i \in DOMAIN log : log[i] # Unreadable

LinesOf(t) == {i \in DOMAIN log : log[i] # Unreadable /\ log[i].task = t}

LastLine(t) == CHOOSE i \in LinesOf(t) : \A j \in LinesOf(t) : j <= i

Current ==
  [t \in Task |-> IF LinesOf(t) = {} THEN NoRecord ELSE log[LastLine(t)].state]

InFlight == {t \in Task : Current[t] # NoRecord /\ ~Terminal(Current[t])}

-------------------------------------------------------------------------------
(* Writing. *)

\* Mutant: the file is opened with O_TRUNC.
WrittenTruncating(line) == <<line>>

\* O_APPEND puts the bytes at the end of the file: on a line of their own, or
\* on the end of a line that never got its newline.
Written(line) ==
  IF unterminated THEN [log EXCEPT ![Len(log)] = Unreadable]
                  ELSE Append(log, line)

Line(t, s) == [task |-> t, state |-> s]

Room == Len(log) < MaxLines

LedgerInit ==
  /\ log = <<>>
  /\ unterminated = FALSE
  /\ told = [t \in Task |-> {NoRecord}]

\* The record and its newline are written and synced.
AppendRecord(t, s) ==
  /\ Room
  /\ log' = Written(Line(t, s))
  /\ unterminated' = FALSE
  /\ told' = [told EXCEPT ![t] = {s}]

\* As above, but Sync fails, or the caller dies before it hears.
AppendUnacknowledged(t, s) ==
  /\ Room
  /\ log' = Written(Line(t, s))
  /\ unterminated' = FALSE
  /\ told' = [told EXCEPT ![t] = @ \cup {s}]

\* Every byte but the newline reaches the disk: the line still parses.
AppendNoNewline(t, s) ==
  /\ Room
  /\ log' = Written(Line(t, s))
  /\ unterminated' = TRUE
  /\ told' = [told EXCEPT ![t] = @ \cup {s}]

\* A proper prefix of the record reaches the disk.
AppendShort ==
  /\ Room
  /\ log' = Written(Unreadable)
  /\ unterminated' = TRUE
  /\ UNCHANGED told

\* A record longer than the scanner's buffer is written and acknowledged, and
\* no reader can get past it.
AppendTooLong(t, s) ==
  /\ Room
  /\ log' = Written(Unreadable)
  /\ unterminated' = FALSE
  /\ told' = [told EXCEPT ![t] = {s}]

LedgerNext ==
  \/ AppendShort
  \/ \E t \in Task, s \in State :
       \/ AppendRecord(t, s)
       \/ AppendUnacknowledged(t, s)
       \/ AppendNoNewline(t, s)
       \/ AppendTooLong(t, s)

LedgerSpec == LedgerInit /\ [][LedgerNext]_ledgerVars

-------------------------------------------------------------------------------
(* Properties. *)

\* A read that succeeds tells the truth: for every task it reports the last
\* state a writer was told is durable, or one written since -- a damaged file
\* fails closed and never reads as a shorter history (ledger.go, Current).
FailClosed == Readable => \A t \in Task : Current[t] \in told[t]

\* A successful read never leaves out of the in-flight count a task whose
\* recorded turn may still be running (ledger.go, InFlight and Terminal).
InFlightNotUndercounted ==
  Readable =>
    \A t \in Task :
      told[t] \subseteq {"dispatched", "unknown"} => t \in InFlight

\* Through every torn, glued, oversized or unacknowledged write the file is
\* the task table everyone reads, until it is unreadable for ever after.
Table == INSTANCE TaskTable WITH
           table <- IF Readable THEN Current ELSE [t \in Task |-> NoRecord],
           up <- Readable

TableSpec == Table!Spec
===============================================================================
