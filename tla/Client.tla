-------------------------------- MODULE Client --------------------------------
(***************************************************************************)
(* tui/internal/mcp: the one client through which every pane of the        *)
(* terminal talks to the supervisor's server, a child process that answers *)
(* one request at a time over a pair of pipes.  Calls come from goroutines *)
(* of their own; a reader goroutine hands each reply to the call that is   *)
(* registered under its id.  Every wait has a deadline but one: the write  *)
(* into the child's stdin, which nothing can interrupt.                    *)
(***************************************************************************)
EXTENDS Integers, Sequences, FiniteSets

CONSTANTS
  Call,      \* goroutines that call, one call at a time each
  NoCall,    \* nobody
  Payload,   \* what a request asks and a reply answers
  NoPayload,
  Pipe,      \* how many requests or replies a pipe holds
  MaxId      \* the last id (a bound for TLC)

ASSUME ClientAssumption ==
  NoCall \notin Call /\ NoPayload \notin Payload /\ Pipe \in Nat \ {0} /\ MaxId \in Nat

Id == 1 .. MaxId

VARIABLES
  pc,         \* where each call is
  outcome,    \* how the last one of each ended
  got,        \* the reply it ended with
  id,         \* the id each call was given
  chan,       \* the channel it waits on
  nextID,     \* the last id given
  sem,        \* callSem: the call under way
  writer,     \* writeMu: the call that writes
  pend,       \* the registered ids
  reader,     \* readLoop: reading, or gone
  delivering, \* the reply it is about to send on a channel
  child,      \* the server: up or dead; it may stop answering at any time
  inbox,      \* requests in its stdin
  serving,    \* the request it works on
  wire        \* replies in its stdout

callVars   == <<pc, outcome, got, id, nextID, sem, writer>>
readerVars == <<reader, delivering>>
serverVars == <<child, inbox, serving, wire>>
clientVars == <<callVars, chan, pend, readerVars, serverVars>>

Message   == [id : Id, body : Payload]
NoMessage == [id |-> 0, body |-> NoPayload]
Open      == [state |-> "open", reply |-> NoMessage]
NoChan    == [state |-> "none", reply |-> NoMessage]

ClientTypeOK ==
  /\ pc \in [Call -> {"idle", "queued", "registered", "writing", "waiting", "returned"}]
  /\ outcome \in [Call -> {"none", "replied", "failed", "timeout"}]
  /\ got \in [Call -> Message \cup {NoMessage}]
  /\ id \in [Call -> Id \cup {0}]
  /\ chan \in [Call -> [state : {"none", "open", "replied", "closed"},
                       reply : Message \cup {NoMessage}]]
  /\ nextID \in Id \cup {0}
  /\ sem \in Call \cup {NoCall} /\ writer \in Call \cup {NoCall}
  /\ pend \in SUBSET Id
  /\ reader \in {"reading", "gone"} /\ delivering \in Message \cup {NoMessage}
  /\ child \in {"up", "dead"}
  /\ inbox \in Seq(Message) /\ wire \in Seq(Message)
  /\ serving \in Message \cup {NoMessage}

ClientInit ==
  /\ pc = [c \in Call |-> "idle"] /\ outcome = [c \in Call |-> "none"]
  /\ got = [c \in Call |-> NoMessage]
  /\ id = [c \in Call |-> 0] /\ chan = [c \in Call |-> NoChan] /\ nextID = 0
  /\ sem = NoCall /\ writer = NoCall
  /\ pend = {}
  /\ reader = "reading" /\ delivering = NoMessage
  /\ child = "up" /\ inbox = <<>> /\ serving = NoMessage /\ wire = <<>>

-----------------------------------------------------------------------------
(* callTimeout.  The deadline counts from the beginning of the call and may   *)
(* have passed at any wait; a select with both arms ready takes either.       *)

At(c, stage)   == pc[c] = stage
Goto(c, stage) == pc' = [pc EXCEPT ![c] = stage]

\* The callers: some goroutines have handed over their outcome, and others begin.
Callers(done, new) ==
  /\ \A c \in done : At(c, "returned")
  /\ \A c \in new \ done : At(c, "idle")
  /\ pc' = [c \in Call |-> IF c \in new THEN "queued" ELSE IF c \in done THEN "idle" ELSE pc[c]]
  /\ id' = [c \in Call |-> IF c \in done THEN 0 ELSE id[c]]
  /\ outcome' = [c \in Call |-> IF c \in done THEN "none" ELSE outcome[c]]
  /\ got' = [c \in Call |-> IF c \in done THEN NoMessage ELSE got[c]]
  /\ UNCHANGED <<nextID, sem, writer, chan, pend, readerVars, serverVars>>

\* Every return: the call is no longer registered, the slot it held is free, and nobody
\* reads its channel any more.
Return(c, how, reply, registered) ==
  /\ Goto(c, "returned")
  /\ outcome' = [outcome EXCEPT ![c] = how]
  /\ got' = [got EXCEPT ![c] = reply]
  /\ sem' = IF sem = c THEN NoCall ELSE sem
  /\ pend' = pend \ registered
  /\ chan' = [chan EXCEPT ![c] = NoChan]
  /\ UNCHANGED <<id, nextID, readerVars, serverVars>>

QueueTimesOut(c) ==
  /\ At(c, "queued")
  /\ Return(c, "timeout", NoMessage, {}) /\ UNCHANGED writer

\* callSem is taken, and the call registered under a fresh id.
Register(c) ==
  /\ At(c, "queued") /\ sem = NoCall /\ nextID < MaxId
  /\ Goto(c, "registered")
  /\ sem' = c
  /\ nextID' = nextID + 1
  /\ id' = [id EXCEPT ![c] = nextID']
  /\ pend' = pend \cup {nextID'}
  /\ chan' = [chan EXCEPT ![c] = Open]
  /\ UNCHANGED <<outcome, got, writer, readerVars, serverVars>>

WriteTimesOut(c) ==
  /\ At(c, "registered")
  /\ Return(c, "timeout", NoMessage, {id[c]}) /\ UNCHANGED writer

WriteBegins(c) ==
  /\ At(c, "registered") /\ writer = NoCall
  /\ Goto(c, "writing") /\ writer' = c
  /\ UNCHANGED <<outcome, got, id, nextID, sem, chan, pend, readerVars, serverVars>>

\* The pipe takes a request when it has room, the child alive or hung.
WriteEnds(c, request) ==
  /\ At(c, "writing") /\ child # "dead" /\ Len(inbox) < Pipe
  /\ Goto(c, "waiting") /\ writer' = NoCall
  /\ inbox' = Append(inbox, [id |-> id[c], body |-> request])
  /\ UNCHANGED <<outcome, got, id, nextID, sem, chan, pend, readerVars, child, serving, wire>>

WriteFails(c) ==
  /\ At(c, "writing") /\ child = "dead"
  /\ Return(c, "failed", NoMessage, {id[c]}) /\ writer' = NoCall

TakeReply(c) ==
  /\ At(c, "waiting") /\ chan[c].state = "replied"
  /\ Return(c, "replied", chan[c].reply, {}) /\ UNCHANGED writer

FindClosed(c) ==
  /\ At(c, "waiting") /\ chan[c].state = "closed"
  /\ Return(c, "failed", NoMessage, {}) /\ UNCHANGED writer

\* Mutant: the deadline is not watched here.
ReplyTimesOutNever(c) ==
  /\ At(c, "waiting") /\ sem # c
  /\ Return(c, "timeout", NoMessage, {id[c]}) /\ UNCHANGED writer

ReplyTimesOut(c) ==
  /\ At(c, "waiting")
  /\ Return(c, "timeout", NoMessage, {id[c]}) /\ UNCHANGED writer

-----------------------------------------------------------------------------
(* readLoop.                                                                 *)

\* Mutant: a reply does not take its id off the table.
ReadReplyTwice ==
  /\ reader = "reading" /\ delivering = NoMessage /\ wire # <<>>
  /\ wire' = Tail(wire)
  /\ delivering' = IF Head(wire).id \in pend THEN Head(wire) ELSE NoMessage
  /\ UNCHANGED <<callVars, chan, pend, reader, child, inbox, serving>>

\* A reply nobody is registered for any more is dropped.
ReadReply ==
  /\ reader = "reading" /\ delivering = NoMessage /\ wire # <<>>
  /\ wire' = Tail(wire)
  /\ delivering' = IF Head(wire).id \in pend THEN Head(wire) ELSE NoMessage
  /\ pend' = pend \ {Head(wire).id}
  /\ UNCHANGED <<callVars, chan, reader, child, inbox, serving>>

\* Mutant: there is one call at a time, so a reply is for the one that waits.
AddresseeWaiting(m) == {c \in Call : pc[c] = "waiting"}

\* The call whose channel the reader found under a reply's id: it may have returned
\* since, and nobody will read what is sent.
Addressee(m) == {c \in Call : id[c] = m.id /\ pc[c] # "returned"}

Deliver ==
  /\ delivering # NoMessage
  /\ chan' = [c \in Call |-> IF c \in Addressee(delivering)
                             THEN [state |-> "replied", reply |-> delivering] ELSE chan[c]]
  /\ delivering' = NoMessage
  /\ UNCHANGED <<callVars, pend, reader, serverVars>>

ReadEOF ==
  /\ reader = "reading" /\ delivering = NoMessage /\ wire = <<>> /\ child = "dead"
  /\ reader' = "gone"
  /\ chan' = [c \in Call |-> IF id[c] \in pend THEN [chan[c] EXCEPT !.state = "closed"] ELSE chan[c]]
  /\ pend' = {}
  /\ UNCHANGED <<callVars, delivering, serverVars>>

-----------------------------------------------------------------------------
(* The server.                                                               *)

Serve ==
  /\ child = "up" /\ serving = NoMessage /\ inbox # <<>>
  /\ serving' = Head(inbox) /\ inbox' = Tail(inbox)
  /\ UNCHANGED <<callVars, chan, pend, readerVars, child, wire>>

Answer(reply) ==
  /\ child = "up" /\ serving # NoMessage /\ Len(wire) < Pipe
  /\ wire' = Append(wire, [id |-> serving.id, body |-> reply]) /\ serving' = NoMessage
  /\ UNCHANGED <<callVars, chan, pend, readerVars, child, inbox>>

\* It crashes, or Close kills it: what it had not read is lost, what it had
\* written is still read.
Die ==
  /\ child # "dead" /\ child' = "dead"
  /\ inbox' = <<>> /\ serving' = NoMessage
  /\ UNCHANGED <<callVars, chan, pend, readerVars, wire>>

-----------------------------------------------------------------------------
CallStep(c, request) ==
  \/ QueueTimesOut(c) \/ Register(c) \/ WriteTimesOut(c) \/ WriteBegins(c)
  \/ WriteEnds(c, request) \/ WriteFails(c) \/ TakeReply(c) \/ FindClosed(c) \/ ReplyTimesOut(c)
ReaderStep == ReadReply \/ Deliver \/ ReadEOF
ServerStep == Serve \/ Die \/ \E reply \in Payload : Answer(reply)

ClientNext ==
  \/ \E done, new \in SUBSET Call : Callers(done, new)
  \/ \E c \in Call, request \in Payload : CallStep(c, request)
  \/ ReaderStep
  \/ ServerStep

ClientSpec == ClientInit /\ [][ClientNext]_clientVars

-----------------------------------------------------------------------------
(* Properties.                                                               *)

\* The server never has two requests of calls that still wait for an answer: one
\* call is registered at a time, from whatever pane (callSem).
OneRegistered == Cardinality(pend) <= 1

\* A call that returns a reply returns the reply to its own request, though the
\* replies to calls that gave up arrive later (ids, pend, readLoop).
ReplyIsItsOwn == \A c \in Call : outcome[c] = "replied" => got[c].id = id[c]

\* Who returned left nothing behind: no id registered, no slot held, no write
\* begun (the deletions and the deferred release on each path of callTimeout).
NothingLeftBehind ==
  \A c \in Call : pc[c] \in {"idle", "queued", "returned"} =>
    /\ sem # c /\ writer # c
    /\ id[c] \notin pend

\* A reply the reader took from the table is sent once, on the open channel of a call
\* that has not returned or of nobody, and whoever is registered waits on an open
\* channel, so that the end of the stream closes each once.
SendsOnOpen ==
  /\ delivering # NoMessage =>
       /\ delivering.id \notin pend
       /\ \A c \in Addressee(delivering) : chan[c].state = "open"
  /\ \A i \in pend : \E c \in Call : id[c] = i /\ chan[c].state = "open"

\* The one wait without a deadline: a write into the child's full stdin.
Stuck == \E c \in Call : At(c, "writing") /\ child # "dead" /\ Len(inbox) = Pipe
===============================================================================
