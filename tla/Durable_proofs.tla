---------------------------- MODULE Durable_proofs ----------------------------
(* What outlives every process, and dispatches rest on.  The ledger never tells *)
(* a reader less than was written, and implements the task table, for any tasks  *)
(* and any length of the file.  Teardown destroys no files that exist nowhere    *)
(* else, nor commits if the turn leaves HEAD where its unsaved ones are          *)
(* (~Strays), for any number of removers and of commits.                         *)
EXTENDS Ledger, Worktree, TLAPS

-------------------------------------------------------------------------------
(* The ledger.                                                                   *)


\* A file whose last line lacks its newline has a last line.
LastLineExists == unterminated => log # <<>>

\* The lines of a task have a greatest one, in a file that can be read.
LastLineIsLast ==
  Readable =>
    \A t \in Task : LinesOf(t) # {} =>
      \E i \in LinesOf(t) : \A j \in LinesOf(t) : j <= i

\* What is inductive: FailClosed needs the line Current reports to exist, and
\* a glued write to destroy a line that is there.
LedgerInv == LedgerTypeOK /\ LastLineExists /\ LastLineIsLast /\ FailClosed

\* A readable file after a write was readable before it, and has exactly that
\* line more.
LEMMA ReadableAfterWrite ==
  ASSUME LedgerInv, NEW line \in Record \cup {Unreadable},
         log' = Written(line), Readable'
  PROVE  /\ Readable /\ ~unterminated /\ line \in Record
         /\ log' = Append(log, line)
         /\ DOMAIN log' = 1..(Len(log) + 1)
         /\ \A i \in 1..Len(log) : log'[i] = log[i]
         /\ log'[Len(log) + 1] = line
<1>0. log \in Seq(Record \cup {Unreadable})  BY DEF LedgerInv, LedgerTypeOK
<1>1. ~unterminated
  <2>1. SUFFICES ASSUME unterminated PROVE FALSE  OBVIOUS
  <2>2. Len(log) \in DOMAIN log  BY <1>0, <2>1 DEF LedgerInv, LastLineExists
  <2>3. log' = [log EXCEPT ![Len(log)] = Unreadable]  BY <2>1 DEF Written
  <2>4. Len(log) \in DOMAIN log' /\ log'[Len(log)] = Unreadable  BY <1>0, <2>2, <2>3
  <2> QED  BY <2>4 DEF Readable
<1>2. log' = Append(log, line)  BY <1>1 DEF Written
<1>3. /\ DOMAIN log' = 1..(Len(log) + 1)
      /\ \A i \in 1..Len(log) : log'[i] = log[i]
      /\ log'[Len(log) + 1] = line
  BY <1>0, <1>2
<1>4. line # Unreadable  BY <1>0, <1>3 DEF Readable
<1>5. Readable
  <2>1. ASSUME NEW i \in DOMAIN log PROVE log[i] # Unreadable
    <3>1. i \in 1..Len(log) /\ i \in DOMAIN log'  BY <1>0, <1>3
    <3> QED  BY <3>1, <1>3 DEF Readable
  <2> QED  BY <2>1 DEF Readable
<1> QED  BY <1>1, <1>2, <1>3, <1>4, <1>5

\* The write of a record makes it the current one of its task and changes the
\* current record of no other.
LEMMA CurrentAfterWrite ==
  ASSUME LedgerInv, NEW t \in Task, NEW s \in State,
         log' = Written(Line(t, s)), Readable'
  PROVE  /\ Readable
         /\ Current' = [Current EXCEPT ![t] = s]
         /\ LastLineIsLast'
<1> DEFINE line == Line(t, s)
           n == Len(log) + 1
<1>0. log \in Seq(Record \cup {Unreadable}) /\ n \in Nat /\ n \notin 1..Len(log)
  BY DEF LedgerInv, LedgerTypeOK
<1>1. line \in Record /\ line.task = t /\ line.state = s  BY DEF Line, Record
<1>2. /\ Readable /\ ~unterminated
      /\ DOMAIN log' = 1..n
      /\ \A i \in 1..Len(log) : log'[i] = log[i]
      /\ log'[n] = line
  BY <1>1, ReadableAfterWrite
<1>3. line # Unreadable  BY <1>1, UnreadableAssumption
<1>4. LinesOf(t)' = LinesOf(t) \cup {n}
  BY <1>0, <1>1, <1>2, <1>3 DEF LinesOf
<1>5. \A u \in Task \ {t} : LinesOf(u)' = LinesOf(u)
  BY <1>0, <1>1, <1>2, <1>3 DEF LinesOf
<1>6. \A u \in Task : LinesOf(u) \subseteq 1..Len(log)  BY <1>0 DEF LinesOf
<1>7. LastLine(t)' = n
  <2>1. n \in LinesOf(t)' /\ \A j \in LinesOf(t)' : j <= n  BY <1>0, <1>4, <1>6
  <2>2. \A i \in LinesOf(t)' : (\A j \in LinesOf(t)' : j <= i) => i = n
    BY <1>0, <1>4, <1>6, <2>1
  <2> QED  BY <2>1, <2>2 DEF LastLine
<1>8. Current'[t] = s  BY <1>1, <1>2, <1>4, <1>7 DEF Current
<1>9. ASSUME NEW u \in Task \ {t} PROVE Current'[u] = Current[u]
  <2>1. CASE LinesOf(u) = {}  BY <2>1, <1>5 DEF Current
  <2>2. CASE LinesOf(u) # {}
    <3>1. LastLine(u)' = LastLine(u)  BY <1>5 DEF LastLine
    <3>2. \E i \in LinesOf(u) : \A j \in LinesOf(u) : j <= i
      BY <2>2, <1>2 DEF LedgerInv, LastLineIsLast
    <3>3. LastLine(u) \in LinesOf(u)  BY <3>2 DEF LastLine
    <3>4. log'[LastLine(u)] = log[LastLine(u)]  BY <3>3, <1>2, <1>6
    <3> QED  BY <2>2, <1>5, <3>1, <3>4 DEF Current
  <2> QED  BY <2>1, <2>2
<1>10. Current' = [Current EXCEPT ![t] = s]
  <2>1. DOMAIN Current = Task /\ DOMAIN Current' = Task  BY DEF Current
  <2>2. Current' = [u \in Task |-> Current'[u]]  BY DEF Current
  <2>3. \A u \in Task : Current'[u] = IF u = t THEN s ELSE Current[u]  BY <1>8, <1>9
  <2>4. Current = [u \in Task |-> Current[u]]  BY DEF Current
  <2> QED  BY <2>1, <2>2, <2>3, <2>4
<1>11. LastLineIsLast'
  <2>1. SUFFICES ASSUME NEW u \in Task, LinesOf(u)' # {}
                 PROVE  \E i \in LinesOf(u)' : \A j \in LinesOf(u)' : j <= i
    BY DEF LastLineIsLast
  <2>2. CASE u = t
    <3>1. n \in LinesOf(u)' /\ \A j \in LinesOf(u)' : j <= n  BY <2>2, <1>0, <1>4, <1>6
    <3> QED  BY <3>1
  <2>3. CASE u # t
    <3>1. LinesOf(u)' = LinesOf(u)  BY <2>3, <1>5
    <3>2. \E i \in LinesOf(u) : \A j \in LinesOf(u) : j <= i
      BY <2>1, <3>1, <1>2 DEF LedgerInv, LastLineIsLast
    <3> QED  BY <3>1, <3>2
  <2> QED  BY <2>2, <2>3
<1> QED  BY <1>2, <1>10, <1>11

\* A line that cannot be parsed makes the file unreadable.
LEMMA UnreadableAfterWrite ==
  ASSUME LedgerInv, log' = Written(Unreadable)
  PROVE  ~Readable'
<1>1. SUFFICES ASSUME Readable' PROVE FALSE  OBVIOUS
<1>2. Unreadable \in Record  BY <1>1, ReadableAfterWrite
<1> QED  BY <1>2, UnreadableAssumption

\* Whatever is written, the file stays a sequence of lines.
LEMMA WrittenType ==
  ASSUME LedgerInv, NEW line \in Record \cup {Unreadable}
  PROVE  Written(line) \in Seq(Record \cup {Unreadable}) /\ Written(line) # <<>>
<1>0. log \in Seq(Record \cup {Unreadable})  BY DEF LedgerInv, LedgerTypeOK
<1>1. CASE ~unterminated  BY <1>0, <1>1 DEF Written
<1>2. CASE unterminated
  <2>1. Len(log) \in Nat /\ Len(log) # 0 /\ Len(log) \in 1..Len(log)
    BY <1>0, <1>2 DEF LedgerInv, LastLineExists
  <2>2. /\ [log EXCEPT ![Len(log)] = Unreadable] \in Seq(Record \cup {Unreadable})
        /\ Len([log EXCEPT ![Len(log)] = Unreadable]) = Len(log)
    BY <1>0, <2>1
  <2> QED  BY <1>2, <2>1, <2>2 DEF Written
<1> QED  BY <1>1, <1>2

-------------------------------------------------------------------------------
\* What a write of any kind leaves: the file is a sequence of lines still.
LEMMA WriteKeepsShape ==
  ASSUME LedgerInv, NEW line \in Record \cup {Unreadable},
         log' = Written(line), unterminated' \in BOOLEAN,
         told' \in [Task -> SUBSET (State \cup {NoRecord})]
  PROVE  LedgerTypeOK' /\ LastLineExists'
BY WrittenType DEF LedgerTypeOK, LastLineExists

\* A write whose line is a record, after which a reader may be told its state
\* and no more is withdrawn than the earlier states of the same task.
LEMMA RecordKeepsIInv ==
  ASSUME LedgerInv, NEW t \in Task, NEW s \in State,
         log' = Written(Line(t, s)), unterminated' \in BOOLEAN,
         NEW S \in SUBSET (State \cup {NoRecord}), s \in S,
         told' = [told EXCEPT ![t] = S]
  PROVE  LedgerInv'
<1>1. Line(t, s) \in Record  BY DEF Line, Record
<1>2. LedgerTypeOK' /\ LastLineExists'
  <2>1. told' \in [Task -> SUBSET (State \cup {NoRecord})]  BY DEF LedgerInv, LedgerTypeOK
  <2> QED  BY <1>1, <2>1, WriteKeepsShape
<1>3. CASE ~Readable'
  BY <1>2, <1>3 DEF LedgerInv, LastLineIsLast, FailClosed
<1>4. CASE Readable'
  <2>1. Readable /\ Current' = [Current EXCEPT ![t] = s] /\ LastLineIsLast'
    BY <1>4, CurrentAfterWrite
  <2>2. \A u \in Task : Current'[u] \in told'[u]
    <3>1. SUFFICES ASSUME NEW u \in Task PROVE Current'[u] \in told'[u]  OBVIOUS
    <3>2. DOMAIN Current = Task /\ DOMAIN told = Task  BY DEF Current, LedgerInv, LedgerTypeOK
    <3>3. CASE u = t  BY <2>1, <3>2, <3>3
    <3>4. CASE u # t
      <4>1. Current[u] \in told[u]  BY <2>1 DEF LedgerInv, FailClosed
      <4>2. Current'[u] = Current[u] /\ told'[u] = told[u]  BY <2>1, <3>2, <3>4
      <4> QED  BY <4>1, <4>2
    <3> QED  BY <3>3, <3>4
  <2> QED  BY <1>2, <2>1, <2>2 DEF LedgerInv, FailClosed
<1> QED  BY <1>3, <1>4

\* A write that damages the file: nothing is reported of it from then on.
LEMMA DamageKeepsIInv ==
  ASSUME LedgerInv, log' = Written(Unreadable), unterminated' \in BOOLEAN,
         told' \in [Task -> SUBSET (State \cup {NoRecord})]
  PROVE  LedgerInv'
<1>1. LedgerTypeOK' /\ LastLineExists'  BY WriteKeepsShape
<1>2. ~Readable'  BY UnreadableAfterWrite
<1> QED  BY <1>1, <1>2 DEF LedgerInv, LastLineIsLast, FailClosed

LEMMA InitLedgerInv == LedgerInit => LedgerInv
<1> SUFFICES ASSUME LedgerInit PROVE LedgerInv  OBVIOUS
<1>1. LedgerTypeOK /\ LastLineExists
  <2>1. log \in Seq(Record \cup {Unreadable})  BY DEF LedgerInit
  <2>2. told \in [Task -> SUBSET (State \cup {NoRecord})]  BY DEF LedgerInit
  <2> QED  BY <2>1, <2>2 DEF LedgerInit, LedgerTypeOK, LastLineExists
<1>2. \A t \in Task : LinesOf(t) = {}  BY DEF LedgerInit, LinesOf
<1>3. LastLineIsLast  BY <1>2 DEF LastLineIsLast
<1>4. FailClosed  BY <1>2 DEF FailClosed, Current, LedgerInit
<1> QED  BY <1>1, <1>3, <1>4 DEF LedgerInv

LEMMA NextLedgerInv == LedgerInv /\ [LedgerNext]_ledgerVars => LedgerInv'
<1> SUFFICES ASSUME LedgerInv, [LedgerNext]_ledgerVars PROVE LedgerInv'  OBVIOUS
<1>0. told \in [Task -> SUBSET (State \cup {NoRecord})]  BY DEF LedgerInv, LedgerTypeOK
<1>1. CASE AppendShort
  BY <1>0, <1>1, DamageKeepsIInv DEF AppendShort
<1>2. ASSUME NEW t \in Task, NEW s \in State, AppendRecord(t, s) PROVE LedgerInv'
  BY <1>2, RecordKeepsIInv DEF AppendRecord
<1>3. ASSUME NEW t \in Task, NEW s \in State, AppendUnacknowledged(t, s) PROVE LedgerInv'
  <2> DEFINE S == told[t] \cup {s}
  <2>1. S \in SUBSET (State \cup {NoRecord}) /\ s \in S  BY <1>0
  <2>2. /\ log' = Written(Line(t, s)) /\ unterminated' \in BOOLEAN
        /\ told' = [told EXCEPT ![t] = S]
    BY <1>3 DEF AppendUnacknowledged
  <2> HIDE DEF S
  <2> QED  BY <2>1, <2>2, RecordKeepsIInv
<1>4. ASSUME NEW t \in Task, NEW s \in State, AppendNoNewline(t, s) PROVE LedgerInv'
  <2> DEFINE S == told[t] \cup {s}
  <2>1. S \in SUBSET (State \cup {NoRecord}) /\ s \in S  BY <1>0
  <2>2. /\ log' = Written(Line(t, s)) /\ unterminated' \in BOOLEAN
        /\ told' = [told EXCEPT ![t] = S]
    BY <1>4 DEF AppendNoNewline
  <2> HIDE DEF S
  <2> QED  BY <2>1, <2>2, RecordKeepsIInv
<1>5. ASSUME NEW t \in Task, NEW s \in State, AppendTooLong(t, s) PROVE LedgerInv'
  <2>1. told' \in [Task -> SUBSET (State \cup {NoRecord})]  BY <1>0, <1>5 DEF AppendTooLong
  <2> QED  BY <1>5, <2>1, DamageKeepsIInv DEF AppendTooLong
<1>6. CASE UNCHANGED ledgerVars
  <2>1. Readable' = Readable /\ \A t \in Task : LinesOf(t)' = LinesOf(t)
    BY <1>6 DEF ledgerVars, Readable, LinesOf
  <2>2. Current' = Current  BY <1>6 DEF ledgerVars, Current, LastLine, LinesOf
  <2> QED
    BY <1>6, <2>1, <2>2 DEF ledgerVars, LedgerInv, LedgerTypeOK, LastLineExists, LastLineIsLast, FailClosed
<1> QED  BY <1>1, <1>2, <1>3, <1>4, <1>5, <1>6 DEF LedgerNext

\* Every reachable file is a sequence of records and damaged lines.
THEOREM LedgerTypeCorrect == LedgerSpec => []LedgerTypeOK
<1>1. LedgerInv => LedgerTypeOK  BY DEF LedgerInv
<1> QED  BY <1>1, InitLedgerInv, NextLedgerInv, PTL DEF LedgerSpec

\* A read that succeeds reports, of every task, the state a writer was last
\* told is durable or one written since (ledger.go, Current).
THEOREM ReadsFailClosed == LedgerSpec => []FailClosed
<1>1. LedgerInv => FailClosed  BY DEF LedgerInv
<1> QED  BY <1>1, InitLedgerInv, NextLedgerInv, PTL DEF LedgerSpec

\* A successful read counts every turn that may still be running against the
\* in-flight cap (ledger.go, InFlight).
THEOREM InFlightCountsRunning == LedgerSpec => []InFlightNotUndercounted
<1>1. FailClosed => InFlightNotUndercounted
  BY NoRecordAssumption
  DEF FailClosed, InFlightNotUndercounted, InFlight, Terminal, State
<1>2. LedgerInv => InFlightNotUndercounted  BY <1>1 DEF LedgerInv
<1> QED  BY <1>2, InitLedgerInv, NextLedgerInv, PTL DEF LedgerSpec

-------------------------------------------------------------------------------
(* The file implements the table.                                            *)

LEMMA InitRefines == LedgerInit => Table!Init
<1> SUFFICES ASSUME LedgerInit PROVE Table!Init  OBVIOUS
<1>1. Readable /\ \A t \in Task : LinesOf(t) = {}  BY DEF LedgerInit, Readable, LinesOf
<1>2. Current = [t \in Task |-> NoRecord]  BY <1>1 DEF Current
<1> QED  BY <1>1, <1>2 DEF Table!Init, Table!Blank

\* A record written to the file is put in the table, or breaks it, or finds it
\* broken.
LEMMA RecordRefines ==
  ASSUME LedgerInv, NEW t \in Task, NEW s \in State, log' = Written(Line(t, s))
  PROVE  Table!Next
<1>1. CASE Readable'
  <2>1. Readable /\ Current' = [Current EXCEPT ![t] = s]  BY <1>1, CurrentAfterWrite
  <2>2. Table!Put(t, s)  BY <1>1, <2>1 DEF Table!Put
  <2> QED  BY <2>2 DEF Table!Next
<1>2. CASE ~Readable'
  <2>1. Table!Break  BY <1>2 DEF Table!Break, Table!Blank
  <2> QED  BY <2>1 DEF Table!Next
<1> QED  BY <1>1, <1>2

LEMMA DamageRefines ==
  ASSUME LedgerInv, log' = Written(Unreadable)
  PROVE  Table!Next
<1>1. ~Readable'  BY UnreadableAfterWrite
<1>2. Table!Break  BY <1>1 DEF Table!Break, Table!Blank
<1> QED  BY <1>2 DEF Table!Next

LEMMA NextRefines == LedgerInv /\ [LedgerNext]_ledgerVars => [Table!Next]_(Table!tableVars)
<1> SUFFICES ASSUME LedgerInv, [LedgerNext]_ledgerVars PROVE [Table!Next]_(Table!tableVars)  OBVIOUS
<1>1. CASE AppendShort  BY <1>1, DamageRefines DEF AppendShort
<1>2. ASSUME NEW t \in Task, NEW s \in State,
             \/ AppendRecord(t, s) \/ AppendUnacknowledged(t, s) \/ AppendNoNewline(t, s)
      PROVE  Table!Next
  BY <1>2, RecordRefines DEF AppendRecord, AppendUnacknowledged, AppendNoNewline
<1>3. ASSUME NEW t \in Task, NEW s \in State, AppendTooLong(t, s) PROVE Table!Next
  BY <1>3, DamageRefines DEF AppendTooLong
<1>4. CASE UNCHANGED ledgerVars
  <2>1. Readable' = Readable  BY <1>4 DEF ledgerVars, Readable
  <2>2. Current' = Current  BY <1>4 DEF ledgerVars, Current, LastLine, LinesOf
  <2> QED  BY <2>1, <2>2 DEF Table!tableVars
<1> QED  BY <1>1, <1>2, <1>3, <1>4 DEF LedgerNext

\* Whatever writes are cut short, glued, oversized or never acknowledged, the
\* file is the task table, until it reads as an error for ever after.
THEOREM ImplementsTable == LedgerSpec => TableSpec
<1> QED  BY InitLedgerInv, NextLedgerInv, InitRefines, NextRefines, PTL DEF LedgerSpec, TableSpec, Table!Spec

-------------------------------------------------------------------------------
(* The worktree.                                                                 *)


\* Losing the worktree and the branch would lose nothing, of a turn that does not stray.
Safe == Strays \/ tip = 0 \/ Saved(tip)

\* While the directory is whole, commits that could be lost are on its HEAD, and
\* the repository knows the worktree.
HeadHolds == dir = "whole" => entry /\ (Safe \/ head = tip)

\* A remover that passed CheckRemovable goes on with nothing to lose, unless the turn
\* overtook it.
Approved ==
  \A r \in Remover :
    /\ pc[r] \in {"removing", "unbranching"} => Safe \/ overtaken[r]
    /\ pc[r] = "removing" /\ forced[r] => dirt # "unique" \/ overtaken[r]

\* One that found the directory hollow finds it so, or gone, unless it was refilled.
Hollowed ==
  \A r \in Remover : pc[r] = "emptying" => dir \in {"hollow", "gone"} \/ overtaken[r]

IInv == TypeOK /\ HeadHolds /\ Approved /\ Hollowed

\* What may be lost without harm stays so while the turn makes no commit.
LEMMA SafeStaysSafe ==
  ASSUME TypeOK, Safe, UNCHANGED tip,
         \/ UNCHANGED forgeVars
         \/ TurnPushes
         \/ \E delete \in BOOLEAN : Merge(delete)
  PROVE  Safe'
<1>1. CASE UNCHANGED forgeVars  BY <1>1 DEF Safe, Saved, forgeVars
<1>2. CASE TurnPushes
  BY <1>2 DEF TypeOK, Safe, Saved, TurnPushes, Commit, NoBranch, Main
<1>3. ASSUME NEW delete \in BOOLEAN, Merge(delete) PROVE Safe'
  BY <1>3 DEF TypeOK, Safe, Saved, Merge, Commit, NoBranch
<1> QED  BY <1>1, <1>2, <1>3

\* A commit that CheckRemovable finds on origin or in a merged pull request
\* vouches for the turn's last, when HEAD is there.
LEMMA RemovableIsSafe ==
  ASSUME TypeOK, HeadHolds, dir = "whole", Removable
  PROVE  Safe
BY MaxCommitsAssumption
DEF TypeOK, HeadHolds, Removable, Committed, RemoteHasCommit, Landed, Safe, Saved,
    Commit, Main, NoBranch

LEMMA InitIInv == Init => IInv
BY MaxCommitsAssumption
DEF Init, IInv, TypeOK, HeadHolds, Approved, Hollowed, Safe, Commit, NoBranch

\* A step of a remover that writes nothing and looks at nothing new.
LEMMA RemoverSteps ==
  ASSUME IInv, NEW r \in Remover, UNCHANGED <<tip, forgeVars, dirt, live, head, attached>>,
         entry' \in BOOLEAN, branch' \in BOOLEAN,
         dir' \in {dir, "gone"}, dir' = "whole" => entry' = entry,
         detached' \in [Remover -> BOOLEAN], forced' = forced,
         NEW stage \in {"idle", "checking", "hollow", "unbranching"},
         pc' = [pc EXCEPT ![r] = stage],
         \/ overtaken' = overtaken
         \/ overtaken' = [overtaken EXCEPT ![r] = FALSE] /\ stage # "unbranching",
         stage = "unbranching" => pc[r] = "removing"
  PROVE  IInv'
<1>1. TypeOK'  BY DEF IInv, TypeOK, forgeVars
<1>2. Safe' <=> Safe  BY DEF Safe, Saved, forgeVars
<1>3. HeadHolds'  BY <1>2 DEF IInv, HeadHolds
<1>4. \A q \in Remover \ {r} : pc'[q] = pc[q] /\ overtaken'[q] = overtaken[q]
  BY DEF IInv, TypeOK
<1>5. pc'[r] = stage  BY DEF IInv, TypeOK
<1>6. stage = "unbranching" => Safe \/ overtaken'[r]
  BY DEF IInv, Approved
<1>7. Approved'  BY <1>2, <1>4, <1>5, <1>6 DEF IInv, Approved
<1>8. Hollowed'  BY <1>4, <1>5 DEF IInv, Hollowed
<1> QED  BY <1>1, <1>3, <1>7, <1>8 DEF IInv

LEMMA NextIInv == IInv /\ [Next]_vars => IInv'
<1> SUFFICES ASSUME IInv, [Next]_vars PROVE IInv'  OBVIOUS
<1> USE DEF IInv
<1>1. CASE TurnCommits
  <2>1. TypeOK'
    BY <1>1, MaxCommitsAssumption
    DEF TypeOK, TurnCommits, Commit, Overtake, forgeVars, removerVars
  <2>2. HeadHolds'
    BY <1>1 DEF HeadHolds, TurnCommits, Working
  <2>3. Approved'
    BY <1>1 DEF TypeOK, Approved, TurnCommits, Overtake, removerVars
  <2>4. Hollowed'
    BY <1>1 DEF TypeOK, Hollowed, TurnCommits, Overtake, removerVars
  <2> QED  BY <2>1, <2>2, <2>3, <2>4
<1>2. ASSUME NEW d \in {"clean", "superseded", "unique"}, TurnEdits(d) PROVE IInv'
  <2>1. TypeOK'  BY <1>2 DEF TypeOK, TurnEdits, Overtake, forgeVars, removerVars
  <2>2. Safe' <=> Safe  BY <1>2 DEF TurnEdits, Safe, Saved, forgeVars
  <2>3. HeadHolds'  BY <1>2, <2>2 DEF TurnEdits, HeadHolds
  <2>4. /\ dirt' = d /\ UNCHANGED <<pc, forced, dir>>
        /\ \A r \in Remover :
             /\ overtaken[r] => overtaken'[r]
             /\ d = "unique" /\ pc[r] = "removing" => overtaken'[r]
    BY <1>2 DEF TypeOK, TurnEdits, Overtake, removerVars
  <2>5. Approved'  BY <2>2, <2>4 DEF Approved
  <2>6. Hollowed'  BY <2>4 DEF Hollowed
  <2> QED  BY <2>1, <2>3, <2>5, <2>6
<1>3. CASE TurnPushes
  <2>1. head > remote => head \in Commit
    BY DEF TypeOK, Commit, Main, NoBranch
  <2>2. TypeOK'  BY <1>3, <2>1 DEF TypeOK, TurnPushes, treeVars, removerVars
  <2>3. Safe => Safe'  BY <1>3, SafeStaysSafe DEF TurnPushes
  <2> QED
    BY <1>3, <2>2, <2>3 DEF TurnPushes, HeadHolds, Approved, Hollowed, treeVars,
       removerVars
<1>4. ASSUME NEW c \in {0, Main}, TurnSwitches(c) PROVE IInv'
  <2>1. Safe  BY <1>4 DEF TurnSwitches, Safe
  <2>2. Safe'  BY <1>4, <2>1 DEF TurnSwitches, Safe, Saved, forgeVars
  <2>3. TypeOK'
    <3>1. c \in Commit \cup {Main}  BY MaxCommitsAssumption DEF Commit
    <3>2. head' = c /\ attached' = FALSE  BY <1>4 DEF TurnSwitches
    <3> QED  BY <1>4, <3>1, <3>2 DEF TypeOK, TurnSwitches, forgeVars, removerVars
  <2>4. Approved' /\ Hollowed'
    BY <1>4, <2>2 DEF TurnSwitches, Working, Approved, Hollowed, removerVars
  <2>5. HeadHolds'
    BY <1>4, <2>2 DEF TurnSwitches, HeadHolds
  <2> QED  BY <2>2, <2>3, <2>4, <2>5
<1>5. CASE TurnEnds
  BY <1>5 DEF TypeOK, TurnEnds, HeadHolds, Approved, Hollowed, Safe, Saved, treeVars,
     forgeVars, removerVars
<1>6. ASSUME NEW delete \in BOOLEAN, Merge(delete) PROVE IInv'
  <2>1. TypeOK'  BY <1>6 DEF TypeOK, Merge, Commit, NoBranch, treeVars, removerVars
  <2>2. Safe => Safe'  BY <1>6, SafeStaysSafe DEF Merge
  <2> QED
    BY <1>6, <2>1, <2>2 DEF Merge, HeadHolds, Approved, Hollowed, treeVars, removerVars
<1>7. ASSUME NEW d \in {"broken", "hollow"}, Reap(d) PROVE IInv'
  <2>1. Safe' <=> Safe  BY <1>7 DEF Reap, Safe, Saved, forgeVars
  <2> QED
    BY <1>7, <2>1 DEF TypeOK, Reap, HeadHolds, Approved, Hollowed, forgeVars, removerVars
<1>8. CASE Refill
  <2>1. TypeOK'  BY <1>8 DEF TypeOK, Refill, Overtake, forgeVars, removerVars
  <2>2. Safe' <=> Safe  BY <1>8 DEF Refill, Safe, Saved, forgeVars
  <2>3. /\ UNCHANGED <<pc, forced, dirt>> /\ dir' = "broken"
        /\ \A r \in Remover :
             /\ overtaken[r] => overtaken'[r]
             /\ pc[r] = "emptying" => overtaken'[r]
    BY <1>8 DEF TypeOK, Refill, Overtake, removerVars
  <2> QED  BY <2>1, <2>2, <2>3 DEF HeadHolds, Approved, Hollowed
<1>9. ASSUME NEW r \in Remover, Reattach(r) PROVE IInv'
  <2>1. PICK stage \in {"checking", "hollow"} : pc' = [pc EXCEPT ![r] = stage]
    BY <1>9 DEF Reattach
  <2>2. detached' \in [Remover -> BOOLEAN]  BY <1>9 DEF TypeOK, Reattach
  <2>3. /\ UNCHANGED <<tip, forgeVars, dirt, live, head, attached, entry, branch, dir>>
        /\ overtaken' = overtaken /\ forced' = forced
    BY <1>9 DEF Reattach, treeVars
  <2> QED  BY <2>1, <2>2, <2>3, RemoverSteps DEF TypeOK
<1>10. ASSUME NEW r \in Remover, Reconfirm(r) PROVE IInv'
  <2>1. Safe' <=> Safe  BY <1>10 DEF Reconfirm, Safe, Saved, forgeVars
  <2>2. TypeOK' /\ HeadHolds' /\ Approved'
    BY <1>10, <2>1 DEF TypeOK, Reconfirm, Advance, HeadHolds, Approved, treeVars, forgeVars
  <2>3. Hollowed'
    BY <1>10 DEF TypeOK, Reconfirm, Advance, Hollowed, treeVars
  <2> QED  BY <2>2, <2>3
<1>11. ASSUME NEW r \in Remover, Approve(r) PROVE IInv'
  <2>1. Safe  BY <1>11, RemovableIsSafe DEF Approve
  <2>2. TypeOK' /\ Safe'
    BY <1>11, <2>1 DEF TypeOK, Approve, Advance, Safe, Saved, treeVars, forgeVars
  <2>3. Approved'
    BY <1>11, <2>2 DEF TypeOK, Approve, Advance, Removable, Approved, treeVars
  <2>4. HeadHolds' /\ Hollowed'
    BY <1>11, <2>2 DEF TypeOK, Approve, Advance, HeadHolds, Hollowed, treeVars
  <2> QED  BY <2>2, <2>3, <2>4
<1>12. ASSUME NEW r \in Remover,
              Refuse(r) \/ RemoveTreeFails(r) \/ Crash(r) \/ DeleteBranch(r) \/ RemoveShell(r)
       PROVE  IInv'
  <2>1. /\ pc' = [pc EXCEPT ![r] = "idle"]
        /\ overtaken' = [overtaken EXCEPT ![r] = FALSE]
    BY <1>12 DEF Refuse, RemoveTreeFails, Crash, DeleteBranch, RemoveShell, Stop, Advance
  <2>2. /\ UNCHANGED <<tip, forgeVars, dirt, live, head, attached, entry, detached, forced>>
        /\ branch' \in BOOLEAN /\ dir' \in {dir, "gone"}
    BY <1>12 DEF TypeOK, Refuse, RemoveTreeFails, Crash, DeleteBranch, RemoveShell, treeVars
  <2>3. detached' \in [Remover -> BOOLEAN] /\ entry' \in BOOLEAN
    BY <2>2 DEF TypeOK
  <2>4. "idle" \in {"idle", "checking", "hollow", "unbranching"}  OBVIOUS
  <2> QED  BY <2>1, <2>2, <2>3, <2>4, RemoverSteps
<1>13. ASSUME NEW r \in Remover, RemoveTree(r) PROVE IInv'
  <2> DEFINE stage == IF detached[r] THEN "idle" ELSE "unbranching"
  <2>1. /\ pc' = [pc EXCEPT ![r] = stage]
        /\ \/ overtaken' = overtaken
           \/ overtaken' = [overtaken EXCEPT ![r] = FALSE] /\ stage # "unbranching"
    BY <1>13 DEF RemoveTree, Stop, Advance
  <2>2. /\ UNCHANGED <<tip, forgeVars, dirt, live, head, attached, branch, detached, forced>>
        /\ entry' = FALSE /\ dir' = "gone" /\ pc[r] = "removing"
    BY <1>13 DEF RemoveTree
  <2>3. detached' \in [Remover -> BOOLEAN] /\ entry' \in BOOLEAN /\ branch' \in BOOLEAN
    BY <2>2 DEF TypeOK
  <2>4. stage \in {"idle", "checking", "hollow", "unbranching"}  OBVIOUS
  <2> HIDE DEF stage
  <2> QED  BY <2>1, <2>2, <2>3, <2>4, RemoverSteps
<1>15. CASE UNCHANGED vars
  BY <1>15 DEF vars, TypeOK, HeadHolds, Approved, Hollowed, Safe, Saved
<1> QED
  BY <1>1, <1>2, <1>3, <1>4, <1>5, <1>6, <1>7, <1>8, <1>9, <1>10, <1>11, <1>12,
     <1>13, <1>15 DEF Next

LEMMA Invariant == Spec => []IInv
BY InitIInv, NextIInv, PTL DEF Spec

-------------------------------------------------------------------------------
\* Every reachable state has the type the model declares.
THEOREM TypeCorrect == Spec => []TypeOK
<1>1. IInv => TypeOK  BY DEF IInv
<1> QED  BY <1>1, Invariant, PTL

\* No teardown, in any interleaving with other removers, merges, reaps and kills,
\* and with the turn itself under a sweep that takes it for dead, loses a commit origin
\* does not have, unless it was made between a remover's look and its removal
\* (isolate.go, CheckRemovable and Remove).
THEOREM NoCommitLost == ASSUME ~Strays PROVE Spec => CommitsKept
<1> DEFINE Keeps == Held /\ ~Held' =>
                      Saved(tip) \/ tip = 0 \/ \E r \in Remover : overtaken[r]
<1>1. IInv /\ [Next]_vars => [Keeps]_vars
  <2> SUFFICES ASSUME IInv, Next, Held, ~Held'
               PROVE  Safe \/ \E r \in Remover : overtaken[r]
    BY DEF Safe
  <2>1. CASE TurnCommits
    BY <2>1 DEF TurnCommits, Working, Held, IInv, HeadHolds
  <2>2. ASSUME NEW c \in {0, Main}, TurnSwitches(c) PROVE Safe
    BY <2>2 DEF TurnSwitches, Safe
  <2>3. ASSUME NEW r \in Remover, RemoveTree(r) PROVE Safe \/ overtaken[r]
    BY <2>3 DEF RemoveTree, IInv, Approved
  <2>4. ASSUME NEW r \in Remover, DeleteBranch(r) PROVE Safe \/ overtaken[r]
    BY <2>4 DEF DeleteBranch, IInv, Approved
  <2> QED
    BY <2>1, <2>2, <2>3, <2>4
    DEF Next, Held, TurnPushes, TurnEnds, Refill, TurnEdits, Merge, Reap, Reattach,
        Reconfirm, RemoveShell, Approve, Refuse, RemoveTreeFails, Crash, treeVars
<1> QED  BY <1>1, Invariant, PTL DEF Spec, CommitsKept

\* No teardown deletes a directory whose uncommitted content is only there, unless
\* the content came after the last look of a removal that nothing guards
\* (isolate.go, DirtyStatus, Remove and ReconcileHollowCorpse).
THEOREM NoContentLost == Spec => ContentKept
<1> DEFINE Late(r) == overtaken[r] /\ (pc[r] = "emptying" \/ (pc[r] = "removing" /\ forced[r]))
           Kept == \/ dir = "hollow"
                   \/ dir = "whole" /\ dirt # "unique"
                   \/ \E r \in Remover : Late(r)
           Keeps == dir # "gone" /\ dir' = "gone" => Kept
<1>1. IInv /\ [Next]_vars => [Keeps]_vars
  <2> SUFFICES ASSUME IInv, Next, dir # "gone", dir' = "gone" PROVE Kept
    OBVIOUS
  <2>1. PICK r \in Remover : RemoveShell(r) \/ RemoveTree(r)
    BY DEF Next, TurnCommits, TurnPushes, TurnEnds, Refill, TurnEdits, TurnSwitches,
       Merge, Reap, Reattach, Reconfirm, Approve, Refuse, RemoveTreeFails, DeleteBranch,
       Crash, treeVars
  <2>2. CASE RemoveShell(r)  BY <2>2 DEF RemoveShell, IInv, Hollowed
  <2>3. CASE RemoveTree(r)  BY <2>3 DEF RemoveTree, IInv, Approved
  <2> QED  BY <2>1, <2>2, <2>3
<1> QED  BY <1>1, Invariant, PTL DEF Spec, ContentKept

-------------------------------------------------------------------------------
(* What a dispatch expects of it.                                                *)

\* Where nothing but a remover deletes files, the directory is whole or gone.
SiteInv ==
  /\ dir \in {"whole", "gone"}
  /\ \A r \in Remover : pc[r] \notin {"hollow", "emptying"}

LEMMA InitSiteInv == Init => SiteInv
BY DEF Init, SiteInv

\* A merge saves nothing that was not on origin, and loses nothing that was.
LEMMA MergeChangesNothing ==
  ASSUME TypeOK, NEW delete \in BOOLEAN, Merge(delete)
  PROVE  UNCHANGED OnlyHere
<1>1. Saved(tip)' <=> Saved(tip)
  BY DEF TypeOK, Merge, Saved, Commit, NoBranch
<1> QED  BY <1>1 DEF OnlyHere, Merge, treeVars

\* Steps the worksite sees nothing of.
LEMMA OnlyHereUnseen ==
  ASSUME UNCHANGED <<tip, dirt, forgeVars>> PROVE UNCHANGED OnlyHere
BY DEF OnlyHere, Saved, forgeVars

Removing == \E r \in Remover : pc[r] = "removing"

LEMMA NextSite ==
  ASSUME ~Strays, ~Reaps, IInv, SiteInv, [Next]_vars
  PROVE  SiteInv' /\ [Site!Next]_(Site!siteVars)
<1> DEFINE Goal == SiteInv' /\ [Site!Next]_(Site!siteVars)
<1>0. /\ OnlyHere \in BOOLEAN /\ OnlyHere' \in BOOLEAN
      /\ Removing \in BOOLEAN /\ Removing' \in BOOLEAN
  BY DEF OnlyHere, Removing
<1>a. ASSUME Working, UNCHANGED <<dir, pc>> PROVE Goal
  <2>1. dir = "whole" /\ dir' = "whole"  BY <1>a DEF Working
  <2>2. UNCHANGED Removing  BY <1>a DEF Removing
  <2>3. Site!Work
    BY <1>0, <2>1, <2>2 DEF Site!Work, Removing
  <2> QED  BY <1>a, <2>1, <2>3 DEF SiteInv, Site!Next
<1>b. ASSUME UNCHANGED <<dir, OnlyHere, pc>> PROVE Goal
  <2>1. UNCHANGED Removing  BY <1>b DEF Removing
  <2>2. UNCHANGED (dir # "gone")  BY <1>b
  <2>3. UNCHANGED Site!siteVars  BY <1>b, <2>1, <2>2, Zenon DEF Site!siteVars, Removing
  <2> QED  BY <1>b, <2>3 DEF SiteInv
<1>c. ASSUME UNCHANGED <<dir, OnlyHere>>, NEW r \in Remover,
             NEW stage \in {"idle", "checking", "unbranching"}, pc' = [pc EXCEPT ![r] = stage]
      PROVE  Goal
  <2>1. SiteInv'  BY <1>c DEF SiteInv, IInv, TypeOK
  <2>2. UNCHANGED (dir # "gone")  BY <1>c
  <2>3. CASE ~Removing'
    <3>1. Site!GiveUp  BY <1>c, <2>2, <2>3, Zenon DEF Site!GiveUp, Removing
    <3> QED  BY <2>1, <3>1 DEF Site!Next
  <2>4. CASE Removing'
    <3>1. Removing  BY <1>c, <2>4 DEF Removing, IInv, TypeOK
    <3>2. UNCHANGED Removing  BY <1>0, <2>4, <3>1
    <3>3. UNCHANGED Site!siteVars  BY <1>c, <2>2, <3>2, Zenon DEF Site!siteVars, Removing
    <3> QED  BY <2>1, <3>3
  <2> QED  BY <2>3, <2>4
<1>3. ASSUME TurnCommits \/ TurnPushes PROVE Goal
  <2>1. Working /\ UNCHANGED <<dir, pc>>
    BY <1>3 DEF TurnCommits, TurnPushes, Working, treeVars, removerVars
  <2> QED  BY <1>a, <2>1
<1>4. ASSUME NEW d \in {"clean", "superseded", "unique"}, TurnEdits(d) PROVE Goal
  BY <1>a, <1>4 DEF TurnEdits, removerVars
<1>5. ASSUME NEW c \in {0, Main}, TurnSwitches(c) PROVE Goal
  BY <1>a, <1>5 DEF TurnSwitches, removerVars
<1>6. ASSUME TurnEnds PROVE Goal
  <2>1. UNCHANGED OnlyHere  BY <1>6, OnlyHereUnseen DEF TurnEnds, treeVars
  <2> QED  BY <1>b, <1>6, <2>1 DEF TurnEnds, treeVars, removerVars
<1>7. ASSUME Refill \/ \E d \in {"broken", "hollow"} : Reap(d) PROVE Goal
  BY <1>7 DEF Refill, Reap
<1>8. ASSUME NEW delete \in BOOLEAN, Merge(delete) PROVE Goal
  <2>1. UNCHANGED OnlyHere  BY <1>8, MergeChangesNothing DEF IInv
  <2> QED  BY <1>b, <1>8, <2>1 DEF Merge, treeVars, removerVars
<1>9. ASSUME NEW r \in Remover, RemoveTree(r) PROVE Goal
  <2>1. dir = "whole" /\ dir' = "gone" /\ Removing  BY <1>9 DEF RemoveTree, Removing
  <2>2. UNCHANGED OnlyHere  BY <1>9, OnlyHereUnseen DEF RemoveTree
  <2>3. Site!Remove
    BY <1>0, <2>1, <2>2 DEF Site!Remove, Removing
  <2>4. SiteInv'
    BY <1>9, <2>1 DEF SiteInv, IInv, TypeOK, RemoveTree, Stop, Advance
  <2> QED  BY <2>3, <2>4 DEF Site!Next
<1>10. ASSUME NEW r \in Remover, Approve(r) PROVE Goal
  <2>1. Safe  BY <1>10, RemovableIsSafe DEF Approve, IInv
  <2>2. ~OnlyHere  BY <1>10, <2>1 DEF Approve, Removable, OnlyHere, Safe
  <2>3. UNCHANGED OnlyHere  BY <1>10, OnlyHereUnseen DEF Approve, treeVars
  <2>4. dir = "whole" /\ dir' = dir /\ pc' = [pc EXCEPT ![r] = "removing"]
    BY <1>10 DEF Approve, Advance, treeVars
  <2>5. Removing' /\ SiteInv'  BY <2>4 DEF Removing, SiteInv, IInv, TypeOK
  <2>6. Site!Approve
    BY <1>0, <2>2, <2>3, <2>4, <2>5 DEF Site!Approve, Removing
  <2> QED  BY <2>5, <2>6 DEF Site!Next
<1>11. ASSUME NEW r \in Remover,
              \/ Reattach(r) \/ Refuse(r) \/ RemoveTreeFails(r) \/ DeleteBranch(r) \/ Crash(r)
       PROVE  Goal
  <2>1. UNCHANGED <<dir, tip, dirt, forgeVars>>
    BY <1>11 DEF Reattach, Refuse, RemoveTreeFails, DeleteBranch, Crash, treeVars
  <2>2. UNCHANGED OnlyHere  BY <2>1, OnlyHereUnseen
  <2>3. PICK stage \in {"idle", "checking"} : pc' = [pc EXCEPT ![r] = stage]
    BY <1>11 DEF SiteInv, Reattach, Refuse, RemoveTreeFails, DeleteBranch, Crash, Stop, Advance
  <2> QED  BY <1>c, <2>1, <2>2, <2>3
<1>12. ASSUME NEW r \in Remover, Reconfirm(r) \/ RemoveShell(r) PROVE Goal
  BY <1>12 DEF SiteInv, Reconfirm, RemoveShell
<1>13. ASSUME UNCHANGED vars PROVE Goal
  <2>1. UNCHANGED OnlyHere  BY <1>13, OnlyHereUnseen DEF vars, forgeVars
  <2> QED  BY <1>b, <1>13, <2>1 DEF vars
<1> QED
  BY <1>3, <1>4, <1>5, <1>6, <1>7, <1>8, <1>9, <1>10, <1>11, <1>12, <1>13 DEF Next

\* A worktree, however many removers interleave on it and though the turn may still be
\* at work in it, is to a dispatch the one thing Dispatch takes it for: a directory
\* nobody removes who has not looked and found nothing that is only there
\* (isolate.go, CheckRemovable and Remove).
THEOREM ImplementsSite == ASSUME ~Strays, ~Reaps PROVE Spec => Site!Spec
<1>1. Init => Site!Init
  BY DEF Init, Site!Init, OnlyHere
<1>2. IInv /\ SiteInv /\ [Next]_vars => SiteInv' /\ [Site!Next]_(Site!siteVars)
  BY NextSite
<1> QED  BY <1>1, <1>2, InitSiteInv, Invariant, PTL DEF Spec, Site!Spec
===============================================================================
