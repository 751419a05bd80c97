------------------------------- MODULE Cockpit --------------------------------
(***************************************************************************)
(* The panes of the terminal that talk to the supervisor: the rail's       *)
(* fetches and its add and remove dialog (tui/internal/rail), the chat's   *)
(* participants and composer (tui/internal/chat), all through one Client.  *)
(* An Update handles one message and returns commands; a command is a      *)
(* goroutine that calls the server and comes back as a message, in any     *)
(* order and after any delay.                                              *)
(***************************************************************************)
EXTENDS Client, Functions

CONSTANTS Session, NoSession

Fetch == {"sessions", "lanes", "people"}
Op    == {"add", "check", "remove"}
Request == [what : Op, session : Session] \cup [what : Fetch \cup {"send"}, session : {NoSession}]
Nothing == [what |-> "nothing", session |-> NoSession]
Ask(what, s) == [what |-> what, session |-> s]

\* What the server answers names the session it was asked about.  A garbled reply
\* does not decode, or has no content.
Reply == [how : {"ok", "error", "unknown", "garbled"}, session : Session \cup {NoSession},
          safe : BOOLEAN, sessions : SUBSET Session]

ASSUME CockpitAssumption == /\ NoSession \notin Session
                            /\ Request \subseteq Payload /\ Reply \subseteq Payload

VARIABLES
  want,       \* what each goroutine calls for
  exist,      \* the sessions there are
  delivered,  \* the sends that reached their session
  garbled,    \* history: those of them the reply to which was garbled
  confirmed,  \* sessions whose removal the operator confirmed and that are not made anew since
  inflight,   \* the panes that have marked a fetch as under way
  failed,     \* sessionsErr: the last sessions fetch failed
  shown,      \* the sessions of the last one that did not
  mode,       \* opsMode
  opsTarget, opsCheck,
  composing,  \* the composer is open
  send,       \* sendOutcome
  sent        \* the id of the send it shows as failed

remoteVars  == <<exist, delivered, garbled>>
railVars    == <<inflight, failed, shown, mode, opsTarget, opsCheck>>
chatVars    == <<composing, send, sent>>
cockpitVars == <<want, remoteVars, confirmed, railVars, chatVars>>
vars        == <<clientVars, cockpitVars>>

TypeOK ==
  /\ ClientTypeOK
  /\ want \in [Call -> Request \cup {Nothing}]
  /\ exist \in SUBSET Session /\ delivered \in SUBSET Id /\ garbled \in SUBSET Id
  /\ confirmed \in SUBSET (Session \cup {NoSession})
  /\ inflight \in SUBSET Fetch /\ failed \in BOOLEAN /\ shown \in SUBSET Session
  /\ mode \in {"idle", "adding", "busy", "confirm"}
  /\ opsTarget \in Session \cup {NoSession}
  /\ opsCheck \in [session : Session \cup {NoSession}, safe : BOOLEAN]
  /\ composing \in BOOLEAN /\ send \in {"idle", "inflight", "failed", "unknown"}
  /\ sent \in Id \cup {0}

-----------------------------------------------------------------------------
(* Commands and their results.                                               *)

Outstanding(whats) == {c \in Call : want[c].what \in whats}

\* One turn of Update: the result of the calls in done is consumed, and one goroutine
\* starts for each of the commands.  Call bounds how many are out at once.
Run(done, commands) ==
  \E f \in Injection(commands, {c \in Call : want[c] = Nothing} \cup done) :
    LET new == Range(f) IN
    /\ Callers(done, new)
    /\ want' = [c \in Call |-> IF c \in new THEN CHOOSE r \in commands : f[r] = c
                               ELSE IF c \in done THEN Nothing ELSE want[c]]

Back(c, what) == At(c, "returned") /\ want[c].what = what

\* A reply's error, one that cannot be read and a call's error are one error to the
\* panes.
Result(c) == IF outcome[c] = "timeout" THEN "timeout"
             ELSE IF outcome[c] = "replied" /\ got[c].body.how # "garbled" THEN got[c].body.how
             ELSE "error"

-----------------------------------------------------------------------------
(* The rail's fetches and the participants.                                  *)

\* doFetchAll: only what is not already under way.
DoFetchAll == {"sessions"} \cup (IF failed THEN {"lanes"} ELSE {})
Due(panes) == panes \ inflight
Commands(panes) == {Ask(p, NoSession) : p \in panes}

\* The panes are made with their first fetch marked as under way and start it before
\* anything else: the first Refresh and the first ParticipantsTick.
InitShowing(list) ==
  /\ ClientInit
  /\ want = [c \in Call |-> Nothing]
  /\ exist = Session /\ delivered = {} /\ garbled = {} /\ confirmed = {}
  /\ inflight = {} /\ failed = FALSE /\ shown = list
  /\ mode = "idle" /\ opsTarget = NoSession
  /\ opsCheck = [session |-> NoSession, safe |-> FALSE]
  /\ composing = FALSE /\ send = "idle" /\ sent = 0

Init == InitShowing({})

\* The ticker or "r".
Refresh ==
  /\ Due(DoFetchAll) # {}
  /\ Run({}, Commands(Due(DoFetchAll)))
  /\ inflight' = inflight \cup DoFetchAll
  /\ UNCHANGED <<remoteVars, confirmed, failed, shown, mode, opsTarget, opsCheck, chatVars>>

ParticipantsTick ==
  /\ "people" \notin inflight
  /\ Run({}, Commands({"people"}))
  /\ inflight' = inflight \cup {"people"}
  /\ UNCHANGED <<remoteVars, confirmed, failed, shown, mode, opsTarget, opsCheck, chatVars>>

SessionsArrive(c) ==
  /\ Back(c, "sessions") /\ Result(c) = "ok"
  /\ Run({c}, {})
  /\ inflight' = inflight \ {"sessions"}
  /\ failed' = FALSE /\ shown' = got[c].body.sessions
  /\ UNCHANGED <<remoteVars, confirmed, mode, opsTarget, opsCheck, chatVars>>

\* Mutant: the fallback fetches whether or not one is under way.
SessionsFailAlways(c) ==
  /\ Back(c, "sessions") /\ Result(c) # "ok"
  /\ Run({c}, Commands({"lanes"}))
  /\ inflight' = (inflight \ {"sessions"}) \cup {"lanes"}
  /\ failed' = TRUE
  /\ UNCHANGED <<remoteVars, confirmed, shown, mode, opsTarget, opsCheck, chatVars>>

\* The fallback: one session's lanes, unless they are being fetched already.
SessionsFail(c) ==
  /\ Back(c, "sessions") /\ Result(c) # "ok"
  /\ Run({c}, Commands({"lanes"} \ inflight))
  /\ inflight' = (inflight \ {"sessions"}) \cup {"lanes"}
  /\ failed' = TRUE
  /\ UNCHANGED <<remoteVars, confirmed, shown, mode, opsTarget, opsCheck, chatVars>>

LanesArrive(c) ==
  /\ Back(c, "lanes") /\ Run({c}, {}) /\ inflight' = inflight \ {"lanes"}
  /\ UNCHANGED <<remoteVars, confirmed, failed, shown, mode, opsTarget, opsCheck, chatVars>>

PeopleArrive(c) ==
  /\ Back(c, "people") /\ Run({c}, {}) /\ inflight' = inflight \ {"people"}
  /\ UNCHANGED <<remoteVars, confirmed, failed, shown, mode, opsTarget, opsCheck, chatVars>>

-----------------------------------------------------------------------------
(* The rail's dialog.                                                        *)

PressNew ==
  /\ mode = "idle" /\ mode' = "adding"
  /\ UNCHANGED <<clientVars, want, remoteVars, confirmed, inflight, failed, shown, opsTarget, opsCheck, chatVars>>

EnterName(s) ==
  /\ mode = "adding" /\ mode' = "busy" /\ opsTarget' = s
  /\ Run({}, {Ask("add", s)})
  /\ UNCHANGED <<remoteVars, confirmed, inflight, failed, shown, opsCheck, chatVars>>

\* A session of the last list that arrived: the one under the cursor.
PressRemove(s) ==
  /\ mode = "idle" /\ s \in shown
  /\ mode' = "busy" /\ opsTarget' = s
  /\ Run({}, {Ask("check", s)})
  /\ UNCHANGED <<remoteVars, confirmed, inflight, failed, shown, opsCheck, chatVars>>

\* Mutant: "y" removes the session under the cursor.
PressYesAtCursor ==
  /\ mode = "confirm" /\ opsCheck.safe
  /\ mode' = "busy"
  /\ \E s \in shown : Run({}, {Ask("remove", s)})
  /\ confirmed' = confirmed \cup {opsCheck.session}
  /\ UNCHANGED <<remoteVars, inflight, failed, shown, opsTarget, opsCheck, chatVars>>

\* confirmed takes the session the dialog names.
PressYes ==
  /\ mode = "confirm" /\ opsCheck.safe
  /\ mode' = "busy"
  /\ Run({}, {Ask("remove", opsTarget)})
  /\ confirmed' = confirmed \cup {opsCheck.session}
  /\ UNCHANGED <<remoteVars, inflight, failed, shown, opsTarget, opsCheck, chatVars>>

\* Esc while adding, any other key in the confirmation.
Cancel ==
  /\ mode \in {"adding", "confirm"} /\ mode' = "idle"
  /\ UNCHANGED <<clientVars, want, remoteVars, confirmed, inflight, failed, shown, opsTarget, opsCheck, chatVars>>

\* Of an add and of a remove.
OpDone(c) ==
  /\ Back(c, "add") \/ Back(c, "remove")
  /\ mode' = "idle"
  /\ IF Result(c) = "ok"
     THEN Run({c}, Commands(Due(DoFetchAll))) /\ inflight' = inflight \cup DoFetchAll
     ELSE Run({c}, {}) /\ UNCHANGED inflight
  /\ UNCHANGED <<remoteVars, confirmed, failed, shown, opsTarget, opsCheck, chatVars>>

CheckFails(c) ==
  /\ Back(c, "check") /\ Result(c) # "ok"
  /\ Run({c}, {}) /\ mode' = "idle"
  /\ UNCHANGED <<remoteVars, confirmed, inflight, failed, shown, opsTarget, opsCheck, chatVars>>

CheckArrives(c) ==
  /\ Back(c, "check") /\ Result(c) = "ok"
  /\ Run({c}, {})
  /\ mode' = "confirm"
  /\ opsCheck' = [session |-> got[c].body.session, safe |-> got[c].body.safe]
  /\ opsTarget' = want[c].session
  /\ UNCHANGED <<remoteVars, confirmed, inflight, failed, shown, chatVars>>

-----------------------------------------------------------------------------
(* The chat's composer.                                                      *)

StartComposing ==
  /\ ~composing /\ composing' = TRUE /\ send' = "idle" /\ sent' = 0
  /\ UNCHANGED <<clientVars, want, remoteVars, confirmed, railVars>>

\* Whatever is under way stays under way.
Esc ==
  /\ composing /\ composing' = FALSE /\ send' = "idle" /\ sent' = 0
  /\ UNCHANGED <<clientVars, want, remoteVars, confirmed, railVars>>

TrySend ==
  /\ composing /\ send # "inflight"
  /\ send' = "inflight" /\ sent' = 0
  /\ Run({}, {Ask("send", NoSession)})
  /\ UNCHANGED <<remoteVars, confirmed, railVars, composing>>

\* A mention of somebody unknown: refused before anything is sent.
MentionRefused ==
  /\ composing /\ send # "inflight"
  /\ send' = "failed" /\ sent' = 0
  /\ UNCHANGED <<clientVars, want, remoteVars, confirmed, railVars, composing>>

\* Mutant: a send that timed out is a failed one.
SendReturnsFailed(c) ==
  /\ Back(c, "send") /\ Run({c}, {})
  /\ send' = IF Result(c) = "ok" THEN "idle" ELSE IF Result(c) = "unknown" THEN "unknown" ELSE "failed"
  /\ composing' = (composing /\ Result(c) # "ok")
  /\ sent' = IF send' = "failed" THEN id[c] ELSE 0
  /\ UNCHANGED <<remoteVars, confirmed, railVars>>

\* Of whichever send it is: what a timeout and the server's own "outcome UNKNOWN"
\* leave open is shown as unknown.
SendReturns(c) ==
  /\ Back(c, "send") /\ Run({c}, {})
  /\ send' = IF Result(c) = "ok" THEN "idle"
             ELSE IF Result(c) \in {"timeout", "unknown"} THEN "unknown" ELSE "failed"
  /\ composing' = (composing /\ Result(c) # "ok")
  /\ sent' = IF send' = "failed" THEN id[c] ELSE 0
  /\ UNCHANGED <<remoteVars, confirmed, railVars>>

-----------------------------------------------------------------------------
(* The goroutines, the reader and the server beneath.                        *)

Calls(c) == CallStep(c, want[c]) /\ UNCHANGED cockpitVars

Reads         == ReaderStep /\ UNCHANGED cockpitVars
ServerMoves   == (Serve \/ Die) /\ UNCHANGED cockpitVars

\* The request the server works on, and its answers.
Asked(whats) == serving # NoMessage /\ serving.body.what \in whats
Answers(how, safe, sessions) ==
  /\ Answer([how |-> how, session |-> serving.body.session, safe |-> safe, sessions |-> sessions])
  /\ UNCHANGED <<want, railVars, chatVars>>

ServerLists ==
  /\ Asked({"sessions"}) /\ Answers("ok", FALSE, exist)
  /\ UNCHANGED <<remoteVars, confirmed>>

ServerReads ==
  /\ Asked({"lanes", "people"}) /\ Answers("ok", FALSE, {})
  /\ UNCHANGED <<remoteVars, confirmed>>

ServerChecks(safe) ==
  /\ Asked({"check"}) /\ Answers("ok", safe, {})
  /\ UNCHANGED <<remoteVars, confirmed>>

\* What is done may be answered by a reply that is garbled.
ServerAdds(how) ==
  /\ Asked({"add"}) /\ Answers(how, FALSE, {})
  /\ exist' = exist \cup {serving.body.session}
  /\ confirmed' = confirmed \ (exist' \ exist)
  /\ UNCHANGED <<delivered, garbled>>

ServerRemoves(how) ==
  /\ Asked({"remove"}) /\ serving.body.session \in exist
  /\ Answers(how, FALSE, {})
  /\ exist' = exist \ {serving.body.session}
  /\ UNCHANGED <<delivered, garbled, confirmed>>

\* The message reaches its session; the server may not know that it did, and what
\* it knows may not be readable.
ServerDelivers(how) ==
  /\ Asked({"send"}) /\ Answers(how, FALSE, {})
  /\ delivered' = delivered \cup {serving.id}
  /\ garbled' = IF how = "garbled" THEN garbled \cup {serving.id} ELSE garbled
  /\ UNCHANGED <<exist, confirmed>>

\* Refused, failed without effect, or answered by a reply to a question that is
\* garbled: an error all the same.
ServerRefuses ==
  /\ serving # NoMessage /\ Answers("error", FALSE, {})
  /\ UNCHANGED <<remoteVars, confirmed>>

-----------------------------------------------------------------------------
Keys ==
  \/ PressNew \/ PressYes \/ Cancel
  \/ \E s \in Session : EnterName(s) \/ PressRemove(s)
  \/ StartComposing \/ Esc \/ TrySend \/ MentionRefused
Tickers == Refresh \/ ParticipantsTick
Arrives(c) ==
  \/ SessionsArrive(c) \/ SessionsFail(c) \/ LanesArrive(c) \/ PeopleArrive(c)
  \/ OpDone(c) \/ CheckFails(c) \/ CheckArrives(c) \/ SendReturns(c)
Server ==
  \/ ServerMoves \/ ServerLists \/ ServerReads \/ ServerRefuses
  \/ \E safe \in BOOLEAN : ServerChecks(safe)
  \/ \E how \in {"ok", "garbled"} : ServerAdds(how) \/ ServerRemoves(how)
  \/ \E how \in {"ok", "unknown", "garbled"} : ServerDelivers(how)

Next ==
  \/ Keys \/ Tickers \/ Reads \/ Server
  \/ \E c \in Call : Arrives(c) \/ Calls(c)

\* A goroutine goes on, by its deadline if by nothing else, and its message reaches
\* Update.  Nothing is assumed of the server, the reader, the keys or the tickers.
Fairness == \A c \in Call : WF_vars(Calls(c) \/ Arrives(c))

Spec == Init /\ [][Next]_vars
FairSpec == Spec /\ Fairness

-----------------------------------------------------------------------------
(* Properties.                                                               *)

\* What the panes believe is under way is what is under way: one fetch for each
\* marked pane and none for the others, one call while the dialog is busy and none
\* otherwise, a send while the composer says so (doFetchAll's guards, the fallback's
\* own, opsMode, sendOutcome), through timeouts, lost replies and the death of the
\* server.
FlagsAreTrue ==
  /\ \A p \in Fetch : Cardinality(Outstanding({p})) = IF p \in inflight THEN 1 ELSE 0
  /\ Cardinality(Outstanding(Op)) = IF mode = "busy" THEN 1 ELSE 0
  /\ send = "inflight" => Outstanding({"send"}) # {}

\* The server removes only what the operator confirmed under the name the dialog
\* showed, whatever replies to earlier checks came late, and never a
\* session made anew after the confirmation: a removal that was given up on may
\* still be served.
RemovesOnlyConfirmed == [][exist \ exist' \subseteq confirmed]_vars

\* A send shown as failed, which invites the operator to send it again, did not reach
\* its session, unless the server died under it or its reply could not be read (see
\* the README): every other doubt shows as unknown (Send, ErrUnknown).
FailedWasNotDelivered ==
  send = "failed" /\ child # "dead" => sent \notin delivered \ garbled

\* Every command comes back, whatever the server does, unless its stdin stays full: no
\* pane stays marked and no dialog busy for ever (with FlagsAreTrue).
PanesRecover ==
  []<>~Stuck => \A c \in Call : want[c] # Nothing ~> want[c] = Nothing
===============================================================================
