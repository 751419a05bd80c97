# A verification development of agent-estate

`agent-estate` runs coding agents ("turns") in git worktrees and decides which of
their pull requests may be merged.  Its program is the Go command `estate`
(`src/src/estate`): short-lived processes — dispatches, sweeps, reclaims, merges, ticks —
that share no memory and mostly take no lock.  They meet in append-only logs, in a
directory of worktrees, in a git repository with its origin, and on GitHub.  Beside it
stands a terminal (`src/src/tui`), one long-lived program whose panes talk through one
client to a supervisor's server.  What is hard about both is the order of steps of
*different* processes or goroutines, each of which acts on what it read some time ago and
may be killed, time out or be answered late; that is what the modules here describe.

Paths below are relative to `src/src/estate`, those that begin with `tui/` to `src/src`.

## 1. Inventory

### The parts that decide

| part | state | operations |
|---|---|---|
| **ledger** `internal/ledger` | a JSONL file, one record per event | `Append` (one `O_APPEND` write, then sync), `Current` (last record of each task, an error at the first bad line), `InFlight` |
| **isolate** `internal/isolate` | a worktree: directory, repository entry, branch, HEAD, dirt | `Create`, `CreateOnBranch`, `Head`, `CheckRemovable`, `Remove`, `ReattachAt`, `ReconcileHollowCorpse` |
| **dispatch** `main.go`, `case "dispatch"` | the stage of one invocation | sweep, pressure gate, worktree, launch, record, wait, observe HEAD, tear down, record the outcome |
| **reclaim** `internal/reclaim` | none (a reading of the ledger) | `Assess` a recorded pid, `Report`, `Apply`: append `failed` for the dead |
| **sweep** `internal/sweep` | none (a reading of the ledger, a count) | `judge` each record, `Run`: offer corpses to `Remove`, at most `maxSweepPerRun` |
| **pressure** `internal/pressure` | none | `Check`: in-flight cap, worktree ceiling, host readings, quota |
| **gate** `internal/gate` | none (reads the ledger, GitHub) | `Evaluate`: pull request, author chain, verdicts, checks, main's status |
| **mirror** `internal/mirror` | transcripts on disk, tmux windows that follow them | `Open` (reap, transcript, window, prune), `Close` |
| **tick** `internal/tick`, **spend** `internal/spend` | two JSONL logs: ticks (with the turns observed since the last), escalations | `tick record`, `tick check`, `tick escalate`; `WindowedByObservation` |
| **client** `tui/internal/mcp` | the calls registered by id, one slot, one writer; a child process and its pipes | `callTimeout`, `readLoop`, `Close` |
| **rail** `tui/internal/rail`, **chat** `tui/internal/chat`, **ops** `tui/internal/session` | which fetches are under way, the dialog that adds and removes sessions, the composer | `Update` for each key, tick and result |
| **merge gate** `tui/internal/mergepr`, `cigate`, `prverdict` | none (reads GitHub) | `Merge`: head, check runs, statuses, conversation, `gh pr merge` |
| **candidates** `internal/candidates` | a vault of notes, drafts and an index; a review per candidate in the corpus | `Propose`, `StageMemory`, `Publish` (accept, reject) through `writeSet`, `MarkSourceDrift` |
| **catalogue** `internal/catalogue`, `cmd/sourcecatalogue` | `register.json`, its one temporary file, a view per entry | `register`, `refresh`, `refresh -ack`: load, change, save, write views |
| **harness** `internal/harness` | none | how to start a claude or a codex turn, and how to read its result |

What makes each correct:

* *ledger* — a damaged file fails closed; what a reader reports was written, and
  nothing acknowledged is forgotten; unknown turns count as in flight.
* *isolate* — teardown never destroys a commit origin lacks, nor a file that exists
  nowhere else, that was there when it last looked; what has been collected can always be
  torn down.
* *dispatch, reclaim, sweep, pressure together* — a running turn keeps its slot and
  its worktree unless a probe misreads it; nobody's unsaved work disappears; dead turns give
  back their slots, finished worktrees go away, every dispatch comes to an end.
* *gate* — every commit that is merged is accounted for by a recorded turn and had been
  pushed when a review that approves it ended; what meets the conditions does get merged.
* *mirror* — a running turn keeps its transcript and its window, unless its output quotes
  the footer; the dead never fill the bound for good.
* *tick and spend* — each finished turn is in the window of exactly one tick; a commit is
  evidence once; "moving" is earned by something real and recent, "escalated" by somebody
  told after the stall began.
* *client* — a reply reaches the call that asked, whoever gave up left nothing behind, the
  reader never sends on a channel nobody may read.
* *rail and chat* — what a pane believes is under way is; only what the operator confirmed
  is removed; a send shown as failed was not delivered, unless its reply came garbled or the
  server died; no pane waits for ever.
* *merge gate* — what is merged was green and approved by name at the head it was merged
  at; what stays green and approved is merged.
* *candidates* — what the vault shows as current is what the reviews say was accepted;
  readers never see a fact and the one that replaces it both current; what was withdrawn
  stays withdrawn; whatever was cut short is repaired by doing it again.
* *catalogue* — a drift that was seen is not forgotten before somebody answers for it; a
  killed command leaves a register the next can load; drift reaches the notes that cite it.

### How they interact

    dispatch --Append--> LEDGER <--Current-- pressure, sweep, reclaim, gate
    dispatch --Create/Remove--> WORKTREE <--ReattachAt/Remove-- sweep
    dispatch --exec--> TURN <--ps-- reclaim.Assess <-- sweep.judge
    TURN --git push, gh pr--> GITHUB <--gh-- gate, isolate.Landed
    reclaim --Append(failed)--> LEDGER
    tick record --window of--> LEDGER,  --Append--> TICKS <--last Window-- tick check
    tick escalate --Append--> ESCALATIONS <-- tick check
    rail, chat --callTimeout--> CLIENT --stdin--> SERVER --stdout--> readLoop --> CLIENT
    tui merge --gh--> GITHUB
    candidates accept, reject --writeSet--> VAULT,  --saveMemory--> CORPUS
    sourcecatalogue --load, save--> REGISTER,  --views--> STAGING,  --MarkSourceDrift--> VAULT

A dispatch's sweep runs *before* its pressure check (main.go:3636-3656), so the
housekeeping of one dispatch races the turns of all others.

### The parts that do not decide

`verifybranch` (a temporary worktree), `quota`, `hookstatus`,
`livepath`, `toolusage`, `rollout`, `features`, `dispatchid`, the retrieval and corpus
packages (`knowledge`, `corpus`, `embedding`, `distill`, `provenance`, `vaultview`,
`notemeta`), the terminal's other panes, `notify`,
`issuemine`, `progress`, and the retired supervisor under `src/reference`.  PROJECT.json
lists each with the reason it is not modelled; section 7 what is planned, section 8 what is left out for good.

### What is hard

PROJECT.json's `hazards` lists it line by line.  In short: readings of the ledger that
are stale when used (sweep, reclaim); pids that are reused across reboots; a probe that
knows one process name, and that takes its own failure for a process that is gone; a look
and the removal it allows, with a turn that works on between them; a 45-minute bound that kills a turn which may be done; a
dispatcher killed under a turn that runs on; several removers of one worktree; branches
deleted by name on the evidence of HEAD; torn writes in a file nobody rewrites; fix
passes that continue from one commit; heads that move between reading, approving,
checking and merging; windows counted, killed and opened without a lock by dispatches that
die without a footer; logs that keep whole seconds beside a ledger that keeps nanoseconds;
answers that come after their call gave up; results of commands that arrive in any order; a
removal that is served after it was given up on; a publication of several files cut short
between any two, or undone by a rollback that fails, and then repeated, revised or withdrawn; a register that commands without
a lock load and save whole through one temporary file.

## 2. Modules

| module | models | is checked as | is proved in |
|---|---|---|---|
| `TaskState` | `ledger.State`, `Terminal` | (used by all) | |
| `TaskTable` | what the ledger promises its readers | refined by `Ledger` | |
| `Worksite` | what a dispatch expects of its worktree | implemented by `Worktree` and `Dispatch` | |
| `Ledger` | `internal/ledger` | `MCLedger` | `Durable_proofs` |
| `Worktree` | `internal/isolate` | `MCWorktree` | `Durable_proofs` |
| `Reclaim` | `reclaim.Assess`, `PSProbe` (operators) | through `Dispatch` | through `Dispatch_proofs` |
| `Dispatch` | dispatch, sweep, reclaim, pressure, composed | `MCDispatch` | `Dispatch_proofs` |
| `Mirror` | `internal/mirror` | `MCMirror` | `Mirror_proofs` |
| `Gate` | `internal/gate` and the lanes it reads about | `MCGate` | `Gate_proofs` |
| `Tick` | `internal/tick`, `internal/spend`'s windows | `MCTick` | `Tick_proofs` |
| `Client` | `tui/internal/mcp` | through `Cockpit` | `Cockpit_proofs` |
| `Cockpit` | `tui/internal/rail`, `chat`, the session operations, over `Client` | `MCCockpit` | `Cockpit_proofs` |
| `MergePR` | `tui/internal/mergepr`, `cigate`, `prverdict` | `MCMergePR` | `MergePR_proofs` |
| `Publication` | `internal/candidates`: the reviews and the INMAPS writer | `MCPublication` | `Knowledge_proofs` |
| `Catalogue` | `internal/catalogue`'s register, `cmd/sourcecatalogue` | `MCCatalogue` | `Knowledge_proofs` |

Two proof modules are each about two modules, whose names for their initial states, steps
and types therefore differ (`LedgerNext` and `Next`, `CatalogueNext` and `Next`).

The composition is by abstraction.  `Dispatch` uses the ledger as the table of
`TaskTable`: `Ledger` implements that table, so a step of `Dispatch` that reads or puts
a record stands for `Current` or `Append` on the file (once the file is unreadable every
command here stops with the error).  `Dispatch` also takes from `Worktree` only that
`Remove` refuses unsaved work (`Removable`).  `Worksite` says so abstractly, and both implement
it: `Worktree`, where removers interleave step by step with each other, merges and kills
(`ImplementsSite`), and in `Dispatch` every task's worktree (`ImplementsSites`).  The two meet
where turns do not stray and only removers delete files (`~Strays`, `~Reaps`): `Dispatch` has
neither; what teardown keeps where the temporary directory is cleaned, `Worktree` alone says
(`CommitsKept`, `ContentKept`).  `Reclaim`'s operators are used by
both of `Assess`'s callers, the sweep and the reclaim.

### Ledger

`log` is the file; a line is a record, or `Unreadable`, which is all that matters of a
torn line, two glued ones, or one over the scanner's 4 MiB.  `unterminated` says the last
line has no newline, so that the next `O_APPEND` write continues it.  A record is reduced
to task and state, the only fields `Current`'s callers branch on in this module.  The five
appends are the ways `Append` (ledger.go:220-240) can end: written and synced; written but
the caller never hears so; all but the newline; a proper prefix; too long to be read back.
`told` is a history variable: for each task the states a reader may honestly report.

### Worktree

One worktree from its creation to its removal.  The turn's commits are `1..tip`, a line
from the commit it was created at; `head`, `attached` and `branch` are the git state;
`remote` and `merged` are the forge's.  `dirt` is what `DirtyStatus` tells apart: clean,
content already on origin's main ("superseded", for which `--force` is passed), and
unique.  `dir` separates a whole directory from one the operating system's
temporary-file cleaner emptied ("hollow") or half-emptied ("broken"); the directory lives
under the temporary directory, and isolate.go's comments describe the case.  Each remover runs
`Reattach` — and where that finds a hollow shell, `Reconfirm` (the second look) and
`RemoveShell` (`os.RemoveAll`) — then `Approve` or `Refuse` (`CheckRemovable`), `RemoveTree`,
`DeleteBranch` as separate steps, since each is a separate git process or call, and may be
killed between any two.  The dispatcher (`Owner`) skips `ReattachAt`: it kept the `Worktree`
value it created.  A sweep may come while the turn still runs, for its probe may have misread
it.

What a look found may no longer hold when the next step acts on it: a turn that runs commits
or edits after `CheckRemovable`, something fills the shell after the second look.  The history
variable `overtaken` marks the removers to whom that has happened (`Overtake`); `CommitsKept`
and `ContentKept` say of every step what it may not destroy, and except exactly those.

`Strays` lets a turn leave its HEAD elsewhere while commits are on its branch alone
(`git checkout --detach` as its last act).  It is FALSE in the run; with TRUE, `CommitsKept`
fails: see the finding at isolate.go:842.

### Dispatch and Reclaim

Each element of `Task` is one invocation of `estate dispatch`: its dispatcher (`pc`), the
turn it starts (`turn`, `pipe`), its worktree (`tree`, `work`) and its records.  The
stages follow main.go:3636-3998 in order.  `out` is the outcome record in the
dispatcher's memory between `Wait` and the append; `sweep[p]` the sweep in progress in a
process, with the ledger reading it judges by, which goes stale; `reclaim` the reclaim in
progress, with the records it has read and those it will append as failed.  Consoles run
`sweep-worktrees --apply`.  A record keeps its state, whether it has a pid, a worktree and
an observed HEAD, and the boot epoch it was written in (`Assess` compares its timestamp
with the boot time).

`Observation` is what a look at a pid may show; any may come back of any process.  Of a turn
that is over, because pids are reused; of one that runs, because `PSProbe` reads a ps that
failed or was killed as "no such process", because a codex turn's command is not claude, and
because the clock may have been set between the start and the record (`Misleads`).
`misjudged` is history: the turns that were so found dead while they ran.  The boot time may
be unreadable (epoch 0).  A sweep that has condemned a record looks at its worktree and then
removes it, in two steps (`SweepApproves`, `SweepRemoves`): a misjudged turn works on between
them.  `MaxSweep` counts removals, not attempts, as in the code.

A dispatch passes the pressure check and takes its slot only steps later (`OnItsWay`);
`beside` is history: who was recorded in between.

Every reading other than the two counts (load, memory, paging, quota) is a refusal that
may happen at any time (`Refuse`).  `Crash` is a SIGKILL of a dispatcher; the turn goes
on.  `Reboot` ends all processes and advances `boot`.

### Mirror

The stages of `Open` (mirror.go:305-365) in order — `reap` counts the windows, judges them,
kills as many as are in the way one by one; the transcript is created and headed; the
window opens; `prune` picks and removes transcripts — then the turn and `Close`.  Every
dispatch goes through them beside the others, without a lock, and may be killed anywhere;
`list` is what it has picked and acts on later.  A transcript is one without an owner line,
one with (`headed`), or with a footer's marker in it (`footed`): `Close` writes one, and so does a
turn whose own output contains it (`Quotes`), for the search looks anywhere in the file and the
file repeats what the turn prints.  `EndedOf` is `ended` over a set of turns: an
unreadable, closed or old transcript tells for certain, the owner's pid may (it may also be
somebody else's by now).  `mute` are the dispatches whose transcript refused a write:
`sink.Write` reports nothing and never writes again.  `flaky` says once and for all whether
tmux commands may fail.  `InFlight` bounds the dispatches at a time; in the code the
pressure gate does, with the same number as `Max` (main.go:3747).  `Dispatch` does not use
this module: whatever a mirror does, the turn runs on.

### Gate

One pull request.  Commits are numbered in the order they are made; `parent` gives the
ancestry.  The root dispatch opens the pull request; fix passes check its head out,
commit, push; an outsider may push too.  A push may be forced, and may take the head back to
any commit it was at: each commit has its own checks, and keeps them when the head leaves it
and returns.  `heads` is history: every commit that has been the head.  A completed author
turn leaves its record — `base` and the observed `head` — in ledger order.  Reviewers start and
complete; a comment names its lane in a trailer that anyone with the shared login can write,
so that `Comments` belongs to nobody and happens whenever there is a pull request.  A
completed review is `fresh` for every commit whose checks had started by then, and
`closedAt` is history: what had been the head by then.  `Allow` is `evaluate`: open;
checks green; a completed review by another lane with a result; the last comment and the
result both approve; a `Reviewed-SHA` trailer, if any, names the head; the root's record
has a head; the chain of fix passes from it reaches the pull request's head; the
`Author-Lane` trailer, if any, names a lane of the chain; the review completed no earlier
than the checks at the head started.  `MainPermits` is mainstatus.go: a main whose last
run is red, unfinished or missing refuses unless overridden, an unreadable status does not.

`Walk` is authorRecordForFixPassChain step by step (`Follow` one turn of its loop),
including that it follows the first usable record at each commit and never tries another.

Simplifications, all of data: verdict texts are `approved` or `rejected` (whatever does
not classify as an approval does not approve); trailers are the commit, too short, or
absent; a reviewer is never an author lane of the same pull request (ids are distinct per
dispatch, and a dispatch has one role).  Checks always carry a start time, as GitHub
Actions' do, and the estate's clock agrees with GitHub's: freshness compares the two.

### Tick

The clock counts half seconds, since the logs keep whole seconds (RFC 3339) and the ledger,
the file system and the running program keep more.  A recorder goes through `tick record`
one reading at a time — the last tick, the ledger's finished turns since, the last tick
again to judge the artifact by, the append — while others do the same, turns finish
(`StampOutcome` before `AppendOutcome`: the record's time is taken before it is written) and
reclaims append old records.  A check reads the log, asks after each artifact of the last
`Window` ticks (`Resolutions`: a link may be real, fabricated or unreachable; a commit or
file was judged when it was recorded), and reads the escalations and the last tick once
more.  `until`, `seen`, `alone` and `made` are history: what the writer of a line knew and
the file does not keep.

### Client and Cockpit

`Client` is `callTimeout` and `readLoop`: the slot (`sem`), the fresh id and its entry in
the table (`pend`) and channel, the write under `writeMu`, the wait, and every return with
what it releases.  Each wait but the write has the deadline, which may have passed at any
of them.  The server works on one request at a time and may hang (take no step) or die.

`Cockpit` composes it with the panes that use it.  An action is one turn of `Update`: it
consumes a result and starts a goroutine for each command it returns (`Run`).  `inflight`,
`mode` and `send` are the panes' own beliefs about what is under way.  `exist` and
`delivered` are the server's side; a reply may be garbled — it does not decode, or has no
content — which shows as an error whatever was done (`garbled` is history); `confirmed` records
what the operator said yes to.
`Cockpit` implements `Client`: its steps are client steps or leave the client alone, and
`Cockpit_proofs` shows so.

### MergePR

The tui's own merge of a pull request.  `Merge` reads the head, the check runs of that
commit, its statuses, and then head, body and comments in one answer, and ends in
`gh pr merge`, which does not name a commit.  `Newest` is `latestPerName`: of several runs
of one name the one with the greatest completion — or, if unfinished, start — time,
whichever comes first if two are equal; `Judged` therefore is nondeterministic.  `Approved`
is `Resolve`: the last comment with a Verdict line alone decides.

### Publication

A candidate's fact is proposed, staged as a draft and accepted or rejected.  `review` is the
row the corpus keeps of it, `vault` the notes, drafts and index.  A note is what the writer's
own checks compare: whose it is, which revision, its status, what superseded it, and whether
its source was marked as changed; a digest of a note stands for that note.  `AcceptBegins`
and `RejectBegins` are `publishINMAPS` up to its plan: the note to be replaced (the one last
published, or one adopted by its digest), the check that nobody edited it, the name of the
new note (the second it is made in, walking forward when taken) and its reservation in the
review, which is saved before any file.  `WriteNext`, `WriteFails`, `UndoNext` and `UndoFails`
are `writeSet`: the files in the order their names sort, and the rollback in the same order,
of which any file may stay as it was, for its errors are ignored.  `Finishes` saves the
review.  `Interrupted` is a kill, or a corpus that cannot be written to, anywhere between.
`job` holds both locks, so that publications and marks exclude one another and only readers
see the states between.  A marking (`MarkSourceDrift`, `MarkingEnds`) is such a set of files
too, its log among them, with the same rollback; it holds the vault's lock alone, and a
proposal may come between.

`evidence` is what a candidate's row cites: a conversation's row may be rewritten; a row of
the catalogue never is, and its drift is said by `MarkSourceDrift` instead.  `torn` and
`astray` are history: the last publication of a candidate that was cut short, and the
candidates one of whose notes the review has let go of (the finding at memory.go:192) or that
another candidate adopted a note from (`TakenFrom`; the finding at inmaps.go:329).

### Catalogue

`files` is `register.json` and the temporary file beside it.  A command loads the register (`Loads`),
observes or acknowledges the sources it was asked about (`RegisterOne`, `RefreshOne`,
`AckOne`, with `driftStatus`), and saves: it opens and truncates the temporary file, writes,
renames.  The temporary file has one name and no command takes a lock, so a handle keeps
pointing at whatever the file has become (`fd`, `Renamed`), a rename takes the name away from
under another command, and a text written over another may leave the other's end (`Over`).
Views are written one by one after that.  `content` is what a source holds, or that it cannot
be read; `current` are the sources some stable and unmarked note cites, which a refresh that was
given the vault shrinks as `MarkSourceDrift` does (`RefreshOne`; one without it leaves the notes
alone) and `NotePublished` enlarges at any time.  `reviewed` and `last` are history: the contents somebody answered for, and whether commands have overlapped.

## 3. Runs

Passing runs, with what they show:

| run | states | question |
|---|---|---|
| `ledger` | 890 thousand | Does a successful read ever report something never written or forget what was acknowledged — through short, glued, oversized, unacknowledged writes?  Is the file the table its readers take it for (`TableSpec`, a refinement)? |
| `worktree` | 40 thousand | Can a dispatcher and a sweep that race, interleaved with merges, branch deletions, the temporary-file cleaner and kills, destroy commits or content, also under a turn that was taken for dead or in a shell that is filled again?  Is collected work always torn down? |
| `dispatch` | 3.2 million | Two dispatches with their sweeps and a reclaim, timeouts, lingering children, kills, a reboot: does a running turn keep slot and worktree unless a probe misread it, is unsaved work ever lost, and is the cap passed only by dispatches that overlap? |
| `dispatch_progress` | 67 thousand | Does every dispatch resolve, every dead turn free its slot, every finished worktree get swept — from the beginning, and from every way two dispatches can have ended with their worktrees left on disk (`InitOver`), with one removal allowed per sweep though other worktrees refuse removal every time? |
| `mirror` | 640 thousand | Dispatches open, reap and prune side by side, transcripts break, dispatchers are killed, tmux may fail: is the window or transcript of a running turn that did not quote the footer ever taken, by how much can the bound be exceeded, and do dead windows ever hold it for good? |
| `gate` | 1.5 million | Over pushes forward and back, pulls, fix passes, checks, reviews and comments by anyone: is what is permitted accounted for and had it been pushed when its review ended, and is what meets the conditions permitted? |
| `tick` | 1.7 million | Two recorders, a turn, artifacts, two places and a check, half second by half second: is a turn dropped between two windows or counted twice, a commit used as evidence twice, a loop called moving or told for no good reason? |
| `cockpit` | 344 thousand | Two goroutines over one client, keys, late and garbled replies, a server that refuses, hangs or dies: do replies find their calls and flags their fetches, is only what was confirmed removed, does every command come back? |
| `merge` | 462 thousand | Pushes back and forth, re-runs, statuses and verdicts between the questions of a merge: was what is merged ready, and is what stays ready merged? |
| `publication` | 776 thousand | A fact is proposed, revised, accepted and rejected beside another, or takes that one's note over, each publication or marking killed, or rolled back as far as that goes, at any file: does the vault say what the reviews say, do readers ever find two versions current, does what was withdrawn come back, does accepting again repair? |
| `catalogue` | 948 thousand | Commands, with the vault or without, load, change and save one register side by side while its source changes and cannot be read for a time: is a drift forgotten, does a kill leave what the next command cannot use, do the notes get marked? |

Every property of these runs is paired in PROJECT.json with a *mutant*: an operator in the
same module (commented "Mutant:") that changes one definition as a plausible bug in that
code would, under which TLC finds the property violated.

One run ends in a violation, a disagreement between the code and what its own
documents say (`findings`):

| run | what happens |
|---|---|
| `dispatch_authorship` | A reclaim reads the ledger; the turn completes and its outcome, with the observed HEAD, is recorded; the reclaim appends the old record as failed over it. |

Further findings have no run of their own; PROJECT.json quotes the lines.  Most show as
exceptions that a property has to make:

* *isolate.go:842* — a turn commits on its branch and leaves HEAD detached at its base.
  `CheckRemovable` asks about HEAD alone, finds nothing committed, and `Remove` deletes the
  branch: the commits are unreferenced (`CommitsKept` with `Strays = TRUE`).
* *reclaim.go:120* — a codex turn is running; the probe sees a process that is not claude,
  and a sweep removes its (clean) worktree under it (`LiveTurnKeepsTree` excepts the turns
  so misjudged).
* *process.go:20* — a ps that fails or is killed is read as "no such process", and any running
  turn may be taken for dead (`LiveTurnHoldsSlot` and `LiveTurnKeepsTree` make the same
  exception).
* *isolate.go:1100* — a hollow shell is looked at once more and then removed with all it has
  come to hold meanwhile (`ContentKept` excepts a remover that was `overtaken`).
* *mirror.go:778* — the footer is looked for anywhere in a transcript that repeats the turn's
  own output: a running turn that prints the marker is taken for ended (`RunningWindowKept`
  and `TranscriptKept` except it).
* *gate.go:363* — two fix passes continue from one head; the chain follows the one recorded
  first and misses the unbroken chain through the other.
* *gate.go:693* — a branch forced back to a commit whose checks ran before: an unsigned review
  that ended while another commit was the head counts for it (`ReviewedOncePushed` is what
  holds: the commit had been pushed by then).
* *gate.go:684* — a reviewer that read an older head, signs no commit and completes after
  the new head's checks started is reported as having approved at the current head.
* *reclaim.go:166* — a reclaimed turn's record keeps the time it was dispatched at, so that
  it lies outside every later window of spend (`NoTurnDropped` speaks of outcomes, not of
  reclaims, for that reason).
* *tick.go:163* — a turn's record and a tick within one second can put the turn in two
  windows (`TwiceOnlyWithinSecond` says when exactly).
* *session/ops.go:288* — a send whose connection closed, or whose reply could not be
  decoded, is shown as failed though it may have been delivered (`FailedWasNotDelivered`
  excepts a server that died and a reply that was garbled).
* *chat/model.go:505* — Esc resets the outcome of a send that is still under way, and a
  second can start beside it.
* *cigate.go:241* — which of two runs of one name is the newest is decided by times of whole
  seconds, a completion compared with a start (`Apart` excludes it).
* *mergepr.go:93* — the head may move between the last reading and `gh pr merge`, which
  merges whatever it is by then (`moved` excludes it).
* *inmaps.go:351* — a reject of a published fact that is killed half-way cannot be retried:
  the exception for a note this publication has already rewritten is made for accept alone
  (`RetryRepairs` speaks of accept).
* *inmaps.go:351*, once more — an accept that adopted a note the workflow had written, for
  another candidate, and was killed after deprecating it, is refused for ever: the exception
  compares that note's revision with this review's (`Disturbed`).
* *inmaps.go:211* — what a rollback cannot put back stays as it is and nobody is told
  (`NeverBoth` excepts what a rollback left).
* *memory.go:192* — revising, or rejecting, after an accept that was killed once its note was
  written lets go of that note: it stays stable and nothing names it (`astray`).
* *inmaps.go:329* — adoption compares a digest and not whose the note is, so another
  candidate's published fact can be adopted and deprecated (that candidate is `astray`, which
  `ReviewIsTrue` and `NeverBoth` except).
* *memory.go:230* — the row a catalogue candidate cites never changes, so that what was
  proposed before its source changed is accepted after (`evidence`, `InCatalogue`).
* *register.go:504* — an entry that waits for review and cannot be read at one refresh is
  active at the next (`Unasked`; `ActiveWasReviewed` excepts it).
* *register.go:343* — one command truncates the temporary file another is about to rename;
  killed then, it leaves a register no command can load (`SafeAlone` speaks of commands
  that do not overlap).

### Bounds, and why they are enough

* `ledger`: two tasks, four lines.  Two lines suffice for a torn line and a record glued to
  it; the third and fourth let a task be rewritten after that and a second task interleave.
* `worktree`: the owner and one sweep, two commits: one pushed or merged and one not, so
  that "part of the work is saved" occurs.
* `dispatch`: two tasks suffice for one's sweep and reclaim to act on the other, and for
  the second to be refused at `MaxInFlight = 1`; `MaxWorktrees = 2` counts the main
  checkout, so one worktree can fill it.  Two boots give one reboot: reuse of pids across it,
  and a record from before it.  There is no console sweep: a dispatch's own sweep is the same code, and
  `dispatch_progress` has one.
* `dispatch_progress`: two tasks, one console that sweeps for ever, one reboot, and
  `MaxSweep = 1`, so that the bound bites and one refusal can come before one removal.  It
  starts at the beginning with one of the two dispatches, and where every dispatch is over,
  in any of the states the two can have left: recorded complete, failed or unknown, or
  still dispatched by a dispatcher that was killed, with work saved or not.  The ways of
  two dispatches to these states are what `dispatch` explores.
* `mirror`: three dispatches, two at a time, one window, one ended transcript kept: the
  third's window or transcript is judged while the other two open theirs.  Each element of
  `Turn` is used again once no trace of the last dispatch is left.  When all three places
  are taken the model stops, which `NeverPoisoned` allows for: it promises windows as long
  as dispatches ask for them.
* `gate`: a root, one fix pass, one reviewer, an outsider, three commits after main's:
  enough for root, outsider and fix pass to make one each, in any order.  Two fix passes
  are needed only for the first gate finding above.  States that `NotClosed`, `CommentLast`,
  `NotFailed`, `NotRejected`, `NotFailedTurn` or `Signed` rules out are checked and not explored: a pull
  request that was closed is refused and never reopened, a comment or a rejection enables
  nothing, failed checks or turns lead where passed checks and running turns do too, and the
  root's lane, the only one the body may name here, is in every chain.
  `OnePull` is a bound: worktrees take over one commit.  `ChecksNext` and `ReviewEndsNext` take
  one of the orders that lead to the same states: checks run as soon as a commit is pushed
  (they may run again at any time), and a review is short.
* `tick`: two recorders overlap, three ticks make one that falls out of the window of two,
  three half seconds hold two seconds of which one is split.  One turn: windows are sets,
  and no turn's membership depends on another's.  `OneQuestion` keeps a behaviour to the
  windows of turns, the artifacts, or the escalations: the three share only the log's times,
  and what is said of the last two assumes that ticks do not overlap.  Two places tell a tick
  that acknowledges a stall from one elsewhere; where a behaviour is about windows or
  artifacts there is one.  Recorders are symmetric, and so are places.
* `cockpit`: two goroutines make one wait for the other's slot and find its late reply;
  three ids give a first call, a second and one after a removal was given up on; pipes that
  hold one message are full and empty.  `OneQuestion` keeps rail and chat apart, which
  share the client alone, and two calls of any kind exercise that; `FirstFree`,
  `FirstSession`, `Waits`, `LastId` and `AddAgain` choose among steps that differ by a name
  or lead nowhere new.
* `merge`: two commits, so that a head is left and returned to; two runs of one name; two
  comments; two seconds, so that times order runs and fail to.  Only the first head's status
  changes, and the model stops at the merge.
* `publication`: `MCInit` starts where both candidates are proposed, the first over nothing
  or over a note that was there before.  The first is revised, accepted, marked, rejected and
  interrupted twice, by kills, writes that fail or files a rollback cannot put back — once in
  an attempt and once in its retry or rollback; the second is there to take a name and a line
  of the index, or to lose its note to the first, and is only accepted, undisturbed (`Second`).
  Four seconds name four notes: the one that was there, two revisions and the second
  candidate's.  `NextSecond` leaves out what differs by a name only, and `OwnNote`
  a second proposal that names another note than the one its candidate has.
* `catalogue`: one source, for entries do not affect each other except by being saved
  together, which the second command shows by saving an old one.  Two contents and
  unreadable are a drift, a return and a gap.  Two commands at a time, of which the second
  acknowledges (`Beside`): it is the one that turns an entry active.  One kill, where no other
  command runs (`KilledAlone`): beside another the register may be lost, as the finding says.

`MaxLines`, `MaxCommits`, `MaxBoots`, `MaxTime`, `MaxTicks`, `MaxId`, `MaxRuns`,
`MaxComments`, `MaxRevision`, `MaxInterrupts`, `MaxContent` and `MaxKills` bound counters for
TLC alone; the proofs hold for all their values.  `CHECK_DEADLOCK FALSE` is said in each cfg since every one of these
systems may rightly stop: a full `log`, all dispatches over, a closed pull request.

### Fairness

Safety runs assume none.  The runs with liveness use `FairSpec` (`CatalogueFairSpec`), or
another beginning with the same fairness (`EitherSpec`, `MCSpec`):

* *A dispatcher takes its next step* (weak fairness of `DispatcherStep`): it is a
  sequential program that blocks only in `cmd.Wait`.  `Crash` may still intervene.
* *exec kills at the bound* (`Timeout`): `exec.CommandContext` with a 45-minute context.
  `DispatchResolves` is checked with `Lingers = FALSE`: no `WaitDelay` is set, so a
  descendant that keeps the turn's output open holds `Wait` as long as it likes, and the
  code promises nothing then.  With `Lingers = TRUE` the property fails, as it should.
* *Sweeps and reclaims recur*: every dispatch sweeps, and the operator is told to reclaim
  when the cap is reached.  A console sweep keeps starting and stepping (weak fairness),
  and one that can remove a worktree does not meet a refusing origin, or fail, every time
  (strong fairness of `SweepApproves` and `SweepRemoves`); a reclaim does not see a reused pid,
  an unreadable boot time or its own death each time (strong fairness of `ReclaimDooms`, `ReclaimApplies`).
* `Mirror`: a dispatch takes its next step and its turn ends (weak fairness of
  `DispatchStep`; turns have a 45-minute bound), transcripts nobody writes to grow old
  (`Ages`: time passes), creating one succeeds now and then (strong fairness), and SIGKILLs
  cease at some point: a host that kills every dispatch before its window opens shows none.
* `Cockpit`: a goroutine takes its next step, by its deadline if by nothing else, and its
  message reaches `Update` (weak fairness of `Calls(c) \/ Arrives(c)`): goroutines are
  scheduled, timers fire and Bubble Tea drains its channel.  Nothing is assumed of the
  server, the reader, the keys or the tickers.  `PanesRecover` still needs that the child's
  stdin is not full for ever, since a write into it is the one wait without a deadline.
* `MergePR`: whoever wants the merge runs the command again (weak fairness of `ReadsHead`);
  GitHub does not leave the same question unanswered every time (strong fairness of each
  reading and of `Merges`).
* `Publication`: a publication goes on unless it is interrupted (weak fairness of
  `Publishing`: it is one process that waits for nothing), and whoever was interrupted accepts
  again (weak fairness of `AcceptBegins`); interruptions are bounded.
* `Catalogue`: a command runs on (weak fairness of `Goes`), and somebody refreshes the whole
  register, with the vault, now and then, also where others are often in the way (strong
  fairness of `RefreshBegins(p, "refresh -vault", ...)` by a `Keeper`).
* `Worktree`: a sweep reattaches (weak), and its questions to git, origin and the forge
  are not unanswered for ever (strong fairness of `Approve`, `RemoveTree`).  Nothing is
  assumed of the owner, which may die at once.

## 4. Proofs

Checked by `tlapm`, for every value of the constants.  Each proof states an inductive
invariant (`IInv`, or the name given below), proves that the initial states have it and
that every step keeps it, with one step per action, and derives the theorems.  Each
invariant was checked by TLC on the run's instance before it was proved.

* **`Durable_proofs`**, of the ledger — `LedgerTypeCorrect`, `ReadsFailClosed`,
  `InFlightCountsRunning`, `ImplementsTable`.  `FailClosed` is not inductive alone: that a
  glued write makes the file unreadable needs a last line to exist (`LastLineExists`), and
  that an append changes only its own task's current state needs the greatest line of a task
  to exist (`LastLineIsLast`).  `ReadableAfterWrite` and `CurrentAfterWrite` say what a write
  does to a file that can still be read; the refinement follows from them, mapping each
  append to `Put` or `Break`.
* **`Durable_proofs`**, of the worktree — `TypeCorrect`, `NoCommitLost`, `NoContentLost`,
  `ImplementsSite`, for any number of removers and commits, the second assuming `~Strays`.
  While the directory is whole, what is not safe is on the HEAD of a known worktree
  (`HeadHolds`).  What a remover approved is a fact that only the turn itself can undo, and
  then the remover is overtaken (`Approved`, with `SafeStaysSafe`: origin and merges only ever
  gain the turn's commits); likewise a shell it found hollow (`Hollowed`).  So nothing is lost
  but what was written after the remover's last look.
  Without `~Strays` `NoCommitLost` is false: see the finding at isolate.go:842.
  The refinement maps every step of the turn and the forge to `Work` or a stutter, `RemoveTree`
  to `Remove`, approvals to `Approve` and all else to a stutter; `SiteInv` adds that what is gone
  held nothing.
* **`Dispatch_proofs`** — `TypeCorrect`, `SlotHeld`, `TreeKept`, `WorkKept`,
  `ImplementsSites`, for any number of tasks of any harness, consoles, reboots and any limits;
  `CapPassedByOverlap` for a finite set of tasks.  A turn is `Alive` here while it runs and
  nobody has misjudged it.  The heart is `Snapshots`: every reading of the ledger in anybody's
  hands, however old, is `Sound` — a turn that is alive *now* is listed there as dispatched in
  *this* boot, or not listed at all.  From it, whatever a sweep or a reclaim condemns is no
  longer alive (`Condemned`; `LivingNotDead` says that only a look that misleads condemns a
  turn that runs), and what is not alive never is again.  What a sweep has approved held
  nothing unsaved, and holds nothing now but what a misjudged turn has written since
  (`Approved`).  For the cap, `OInv` adds that whoever was recorded beside a dispatch is past
  its own record (`Behind`), so that it is counted once; most steps admit and record nobody
  and are dealt with together (`QuietSteps`).
* **`Gate_proofs`** — `TypeCorrect`, `ReviewNeverStale`, `CommitsAccounted`,
  `ConditionsSuffice`, for any lanes, reviewers and commits.  Only what was pushed is ever
  checked (`PushedIsChecked`), and a review is made fresh, when it ends, for commits whose
  checks have started, so only for what had been pushed by then (`FreshIsPushed`); however the
  head moves after that, the start of new checks can only take freshness away.  The
  other two are about the chain of records.  `HInv` says that a record is true of the history
  (`RecordTrue`): between its base and its head every commit is its turn's or was pulled, and
  stays so however the history grows (`Grows`).  With it each step of `Walk` keeps what is
  behind it accounted for (`WalkStaysAccounted`); where no two passes continue from one commit
  it never turns back (`NotLost`), sees a new commit each time (`WalkStaysOpen`) and so ends
  (`WalkEnds`).  `Line` and `Walk` are recursive functions; that each has the values its
  definition says (`LineIs`, `WalkIs`) is shown by taking the least number for which it has
  not, so that no induction theorem is needed.
* **`Mirror_proofs`** — `TypeCorrect`, `BoundKept`, `WindowsKept`, `TranscriptsKept`, for any
  number of dispatches and any bounds.  What a dispatch has picked is lost from then on —
  its dispatcher gone, its transcript broken or marked as ended — and stays so until it is taken (`Picked`),
  which is why acting late does no harm.  The bound rests on `Room`: of any dispatches that
  have counted the windows and not yet opened theirs, the one that counted last leaves room
  for all of them; so the bound is exceeded by at most the dispatches beside it.
* **`Tick_proofs`** — `TypeCorrect`, `NothingDropped`, `TwiceWithinSecond`,
  `CommitsCountOnce`, `StallAcknowledged`, `MovingEarned`, for any recorders, turns, artifacts and lengths of
  the log.  The invariant says what each recorder holds in hand (`Hand`): every turn that was
  over by its own time is in its window or before its bound, and its bound is a time the log
  has.  As long as ticks do not overlap, the last tick it read is still the last (`Alone`).
  `MovingEarned` rests on `EarnedInv`: what a tick shows was made after the tick before it
  (`Shown`), also while its recorder still holds it (`HeldNew`), and a check told "moving" had
  begun in a silence that some earlier gap excuses (`Begun`); the
  largest gap that sets the threshold is the gap of some tick (`LargestIs`).  It assumes
  `Window > 1` (in the code it is 3, tick.go:244): the first tick has no gap to judge a silence
  by, so that a window of one tick would not do.
* **`Cockpit_proofs`** — of the client alone, for any number of callers and whatever the
  server does: `ClientTypeCorrect`, `RepliesAreOwn`, `ReturnsClean` (a call that returned
  left no entry, slot or lock behind), `ReaderSafe`, `OneAtATime`.  Then of the terminal:
  `Implements` (`Spec => ClientSpec`), so that all this holds of it, `TypeCorrect`,
  `PanesTellTruth`, `PanesGetTheirOwn`, `ResendIsSafe` and `RemovalWasConfirmed`.  The invariant ties slot, table, channels and the
  reply the reader holds to the one call under way; the one of the panes counts the
  goroutines that run for each belief, of which there is at most one.  The last two theorems
  are about calls that were given up on while their requests were not, and rest on
  `QueueInv`: requests are answered in the order of their ids, each once, and none after an answer to a later one (`FirstComeFirstServed`), and an error answers what was not done or
  comes garbled; so an answered call has nothing left on its
  way, an add is never pending behind which a removal is asked for, and every removal on its
  way is of a session confirmed since (`RemovalsConfirmed`).
* **`MergePR_proofs`** — `TypeCorrect`, `MergesWhatWasReady`, for any heads, runs, comments
  and times.  What a merger has read is true of the runs up to the point it read (`GreenRead`),
  by `NewestIsLast`: where the runs of a name do not overlap, the newest by its key is the
  one that began last.

* **`Knowledge_proofs`**, of publication — `PublicationTypeCorrect`, `CorpusAndVaultAgree`,
  `ReadersFindOne`, `WithdrawnStaysSo`, for any candidates, revisions, times and
  interruptions.  `PublicationInv` says of a vault at rest how it agrees with the reviews
  (`Rests`, of every candidate that is not astray): which notes a review knows, that the second a
  name stands for has passed or is taken, so that a note that replaces another sorts after it
  (`Named`).  Of a publication under way it says that the vault it began from was at rest
  (`Rests(job.backup)`), what it makes of it (`Plans`, and of a candidate that is not astray
  `Planned`) or what a marking does (`Marking`), and how far it got (`Between`): the files
  before the one to be written are new, the others old; one that a rollback could not put back
  is new and is remembered.  A kill or such a rollback leaves a mixture, which is at rest again
  except for what `torn` and `astray` remember; the order of the files is what keeps two
  versions from being current in it.
* **`Knowledge_proofs`**, of the catalogue — `CatalogueTypeCorrect`, `NothingForgotten`,
  `AloneIsSafe`, for any commands, sources, contents and kills.  `CatalogueInv` says that
  every register, in a file or in a command's hands, is sound (`RegistersSound`), so that
  whoever renames what, no drift is lost by it; and that, as long as commands have not
  overlapped, the one that runs is in step with the files and the views (`Alone`, `InStep`).

Only model-checked is liveness (`CollectedTreeRemoved`, `DispatchResolves`,
`DeadTurnFreesSlot`, `CorpseSwept`, `NeverPoisoned`, `PanesRecover`, `ReadyMerges`,
`RetryRepairs`, `DriftReachesNotes`), which is out of the prover's reach.  Every other
property of a passing run is stated by a theorem.  The other way round, most type invariants,
`InFlightNotUndercounted` and `NothingLeftBehind` are proved and no run repeats them; added to
the cfg, they hold on the run's instance.

Where a theorem has a hypothesis beyond the constants' own assumptions it says so in an
`ASSUME`: `~Strays` for the worktree's commits, and `~Reaps` too for its refinement;
a finite `Task` for the dispatches' cap; `Window > 1` for
the ticks.

The constants' assumptions are named (`NoRecordAssumption`, `LaneAssumption`, ...) and say
that markers such as `NoRecord` are not records, that bounds are numbers, that the
dispatcher is one of the removers, that lanes have one role, that a register is not its own
torn state (`TornAssumption`), and that there is a second to name a note by (`MaxTime >= 1`).

## 5. What the models leave out, and why it matters little — or does

* *Time.*  Timestamps are boot epochs (`Dispatch`) or an order of events (`Gate`).  A host
  clock set back, or one that disagrees with GitHub's, is not modelled.
* *Ledger size and speed.*  `Current` is one step in `Dispatch`; a record appended while it
  scans is read or not, which is the same as an earlier or later reading.
* *Ids.*  `dispatchid` composes nanoseconds and a pid; ids are distinct by construction.
* *A turn in another's worktree.*  Turns are agents with a shell: one that deletes files
  outside its worktree is outside these models.
* *The cap under concurrency.*  Admission and recording are separate steps in the code, so
  several dispatches can pass the check on one count.  `OvershootIsOverlap` says by how many:
  a dispatch on its way finds fewer turns running than the cap, but for those recorded while it
  was on its way.  Turns that a probe misjudged hold no slot and are not counted.
* *Worktrees no record names* (killed before recording, failed to start) are not swept by
  the code; `CorpseSwept` speaks of those a terminal record names.
* *The mirror's bound.*  mirror.go:139 says `Max` bounds the windows that exist at once.  It
  bounds what each dispatch sees when it counts; `OvershootBounded` says what remains true.
* *Prune under a failing tmux.*  When the windows cannot be listed `prune` takes none to be
  open (mirror.go:889), and may remove an ended transcript a window follows, against its
  comment; `TranscriptKept` makes that exception.
* *The logs' damage.*  Torn or unreadable lines of the tick and escalation logs, and a log
  cut or lost (`CheckAgainstCommitted`), are left out; so are `tick`'s phase vocabulary and
  audit window, which are data.
* *The rest of the terminal.*  Task, ledger and cost fetches go through the client like the
  modelled ones; quitting, drafts, scrolling and layout change none of the state here.
  Several programs served over SSH share one
  client; `Cockpit` has one program.
* *Publication.*  A proposal that repeats word for word an earlier one, the validation of
  proposals and tags, `log.md`, the size limit of the index, editors beside the workflow
  other than through the checks above, and the writer of older vaults are left out.
  A name that was reserved and then taken by
  another candidate in the same second (`Disturbed`) needs a new proposal.
* *Catalogue.*  How a source is hashed and extracted, the ids and backups of views, the hub
  note and the report are data.  A register that is empty or damaged is `Torn`: no command
  loads it.  A command that reads the file while another writes it sees one of the texts.
* *Verdict texts.*  `MergePR`'s comments are approved, rejected or unclear.  A comment with
  one Verdict line that is recognised and one that is not counts by the recognised one.
  Edits of the body or of comments, more than one page of check runs, and queued runs
  without a start time are left out.
* *`pulled`.*  gate.go:77-80 reasons that every commit of the chain was produced in a
  worktree the chain controlled.  A turn that pulls takes over whatever was pushed by
  others; the gate cannot tell.  `EveryCommitAccounted` says "made by a recorded turn or
  taken over by one" for that reason.

## 6. Running

In this directory, `tlc -workers 2 -config Gate.cfg MCGate` (and likewise; the pairs are
PROJECT.json's `runs`) and `tlapm Dispatch_proofs.tla`.  The largest runs take three to four
minutes, the largest proof (`Knowledge_proofs`) five.

## 7. Plan

Modelled, in this order, the most important first: the ledger and what its readers assume;
the worktree; dispatch with sweep, reclaim and pressure; the gate; the mirror; tick and
spend; the terminal's client and the panes over it; the terminal's merge; publication; the
catalogue.

Next, in this order:

1. The steps of `Mirror`'s and `MergePR`'s liveness that are safety: what each step towards
   the goal keeps, so that TLC is left with fairness alone.
2. `VerifyBranch`: a verification killed midway leaves its temporary worktree and branch.
3. The rest of `Cockpit`: the shell's panes, several programs over one client.

## 8. Not modelled

Left out for good: packages that read and report (`hookstatus`, `toolusage`, `livepath`,
`rollout`, `quota`, `features`), text and ranking (`knowledge`, `corpus`, `embedding`,
`distill`, `provenance`, `vaultview`, `notemeta`), the drawing of the terminal, the small
reporters and the retired supervisor under `src/reference`: their correctness is that of
functions over text, or of layout, and no step of theirs meets another's.  PROJECT.json's
`components` has the reason for each.
