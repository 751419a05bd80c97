------------------------------ MODULE Publication ------------------------------
(***************************************************************************)
(* internal/candidates, the INMAPS writer: a candidate fact is proposed,   *)
(* staged as a draft, and then accepted into the vault or rejected.  A     *)
(* publication rewrites several files one after the other and only then    *)
(* its review in the corpus; nothing makes the two one transaction.  It is *)
(* retried after a kill and rolled back, as far as that goes, after a      *)
(* write that failed.  The notes it published may be marked, because their *)
(* source has changed, by a set of writes of the same kind.                *)
(*                                                                         *)
(* A note's name is the second it was made in.  A digest stands for what   *)
(* it is the digest of.                                                    *)
(***************************************************************************)
EXTENDS Integers, FiniteSets, FiniteSetsExt

CONSTANTS
  Candidate,     \* facts under review
  Nobody,        \* the candidate of a note the workflow has not written
  Foreign,       \* the notes there are to begin with
  MaxTime,       \* the last second (a bound for TLC)
  MaxRevision,   \* proposals per candidate (a bound for TLC)
  MaxInterrupts  \* kills and failed writes (a bound for TLC)

Path     == 1 .. MaxTime
Revision == 1 .. MaxRevision

ASSUME PublicationAssumption ==
  /\ Nobody \notin Candidate /\ Foreign \subseteq Path
  /\ {MaxTime, MaxRevision, MaxInterrupts} \subseteq Nat /\ MaxTime >= 1

VARIABLES
  now,        \* the clock: the second the last note was named in
  vault,      \* the notes, the drafts and the index
  evidence,   \* the version of what each candidate's row cites (InCatalogue: see below)
  review,     \* the corpus's row of each candidate
  job,        \* the publication under way, which holds the corpus's lock and the vault's, or
              \* the marking, which holds the vault's
  interrupts, \* how many have been interrupted
  torn,       \* what each candidate's last publication was to make it, if it was cut short,
              \* and whether one was cut short rolling back
  astray      \* candidates that a note has been let go of, or taken from

vars == <<now, vault, evidence, review, job, interrupts, torn, astray>>

NoPath == 0

\* A candidate from the catalogue is cited by a row that is written once and never again;
\* that its source has changed is said by marking its notes.  A conversation's candidate is
\* cited by the row of the conversation.
InCatalogue == 0

Note   == [of : Candidate \cup {Nobody}, revision : 0 .. MaxRevision,
           status : {"stable", "deprecated", "absent"}, by : 0 .. MaxTime, marked : BOOLEAN]
NoNote == [of |-> Nobody, revision |-> 0, status |-> "absent", by |-> NoPath, marked |-> FALSE]
Fact(c, r) == [of |-> c, revision |-> r, status |-> "stable", by |-> NoPath, marked |-> FALSE]

NoReview == [state |-> "none", revision |-> 0, published |-> 0, path |-> NoPath,
             pending |-> NoPath, hash |-> NoNote, basis |-> NoNote, cited |-> 0]

\* The files of a publication, in the order their names sort: the draft in 00 - Inbox,
\* the notes in 01 - Notes, and index.md.
Draft == 0
Index == MaxTime + 1
File  == 0 .. MaxTime + 1

Vault == [note : [Path -> Note], index : SUBSET Path,
          draft : [Candidate -> [Revision -> {"none", "draft", "deprecated"}]]]

NoVault == [note |-> [p \in Path |-> NoNote], index |-> {},
            draft |-> [c \in Candidate |-> [r \in Revision |-> "none"]]]
Whole == [to |-> "none", undone |-> FALSE]
NoJob == [pc |-> "idle", of |-> Nobody, state |-> "none", old |-> NoPath, next |-> NoPath,
          files |-> {}, todo |-> {}, new |-> NoVault, backup |-> NoVault]

TypeOK ==
  /\ now \in Path /\ vault \in Vault
  /\ evidence \in [Candidate -> 0 .. 2]
  /\ review \in [Candidate -> [state : {"none", "proposed", "promoted", "rejected"},
                  revision : 0 .. MaxRevision, published : 0 .. MaxRevision,
                  path : 0 .. MaxTime, pending : 0 .. MaxTime,
                  hash : Note, basis : Note, cited : 0 .. 2]]
  /\ job \in [pc : {"idle", "writing", "undoing"}, of : Candidate \cup {Nobody},
              state : {"none", "promoted", "rejected", "marked"}, old : 0 .. MaxTime,
              next : 0 .. MaxTime, files : SUBSET File, todo : SUBSET File,
              new : Vault, backup : Vault]
  /\ interrupts \in 0 .. MaxInterrupts
  /\ torn \in [Candidate -> [to : {"none", "promoted", "rejected"}, undone : BOOLEAN]]
  /\ astray \subseteq Candidate

Init ==
  /\ now = 1
  /\ vault = [NoVault EXCEPT !.note = [p \in Path |-> IF p \in Foreign THEN Fact(Nobody, 0) ELSE NoNote],
                             !.index = Foreign]
  /\ evidence \in [Candidate -> {InCatalogue, 1}]
  /\ review = [c \in Candidate |-> NoReview]
  /\ job = NoJob
  /\ interrupts = 0 /\ torn = [c \in Candidate |-> Whole] /\ astray = {}

-----------------------------------------------------------------------------
(* The source.                                                               *)

\* The conversation was read anew, or is gone.
SourceChanges(c) ==
  /\ evidence[c] = 1 /\ evidence' = [evidence EXCEPT ![c] = 2]
  /\ UNCHANGED <<now, vault, review, job, interrupts, torn, astray>>

\* A set of files to write, one after the other.
Starts(c, state, old, next, files, new) ==
  job' = [pc |-> "writing", of |-> c, state |-> state, old |-> old, next |-> next,
          files |-> files, todo |-> files, new |-> new, backup |-> vault]

Live(p) == vault.note[p].status = "stable" /\ ~vault.note[p].marked

\* The marking is a set of writes like any other, of the notes and then of the log, of
\* which nothing is kept here.
MarkSourceDrift(c) ==
  LET live == {p \in Path : vault.note[p].of = c /\ Live(p)} IN
  /\ job = NoJob /\ evidence[c] = InCatalogue /\ live # {}
  /\ Starts(c, "marked", NoPath, NoPath, live,
            [vault EXCEPT !.note = [p \in Path |-> IF p \in live THEN [@[p] EXCEPT !.marked = TRUE]
                                                   ELSE @[p]]])
  /\ UNCHANGED <<now, vault, evidence, review, interrupts, torn, astray>>

-----------------------------------------------------------------------------
(* Propose and StageMemory.                                                  *)

\* The review lets go of a note that was written under its reservation.
LetsGo(c) == review[c].pending # NoPath /\ vault.note[review[c].pending].of = c

\* What the reviewer may name as inspected: nothing, or any note there is.
Inspected == {NoNote} \cup {vault.note[p] : p \in Path}

\* A revision is a number here; a proposal never says again, word for word, what an
\* earlier one but the last did.  It takes the corpus's lock only.
Propose(c, basis) ==
  /\ job.state \in {"none", "marked"}
  /\ review[c].revision < MaxRevision
  /\ review' = [review EXCEPT ![c].state = "proposed", ![c].revision = @ + 1,
                              ![c].pending = NoPath, ![c].basis = basis, ![c].cited = evidence[c]]
  /\ astray' = IF LetsGo(c) THEN astray \cup {c} ELSE astray
  /\ UNCHANGED <<now, vault, evidence, job, interrupts, torn>>

StageMemory(c) ==
  /\ job = NoJob /\ review[c].revision > 0
  /\ vault.draft[c][review[c].revision] = "none"
  /\ vault' = [vault EXCEPT !.draft[c][review[c].revision] = "draft"]
  /\ UNCHANGED <<now, evidence, review, job, interrupts, torn, astray>>

-----------------------------------------------------------------------------
(* Publish: what accept and reject check, and what they plan.                *)

\* The note the candidate is published as, or the one note whose content was inspected,
\* whosever it is.
Olds(r) ==
  IF r.path # NoPath \/ r.basis = NoNote THEN {r.path}
  ELSE {p \in Path : \A q \in Path : vault.note[q] = r.basis <=> q = p}

\* Mutant: no exception for a note that the interrupted publication has deprecated.
UneditedStrict(r, old) == old # NoPath => vault.note[old] \in {r.hash, r.basis}

\* It is what was last written or inspected, or was deprecated by this very
\* publication before it was interrupted.
Unedited(r, old) ==
  old # NoPath =>
    \/ vault.note[old] \in {r.hash, r.basis}
    \/ /\ r.pending # NoPath
       /\ vault.note[old].by = r.pending /\ vault.note[old].revision = r.published

\* The name a note gets at time t: a taken second walks forward.
Free(t) == {p \in t .. MaxTime : vault.note[p] = NoNote}

\* Mutant: the bytes a killed attempt has written are written anew.
PublishedAnew(c, r, next) == Fact(c, r.revision)

\* A note that is there already is left as it is.
Published(c, r, next) == IF vault.note[next] = NoNote THEN Fact(c, r.revision) ELSE vault.note[next]

Deprecated(note, by) == [note EXCEPT !.status = "deprecated", !.by = by]

\* The candidate the old note is another's of.
TakenFrom(c, old) == IF old = NoPath THEN {} ELSE {vault.note[old].of} \ {c, Nobody}

Begins(c, state, old, next, notes, index) ==
  /\ Starts(c, state, old, next, {Draft, Index} \cup ({old, next} \ {NoPath}),
            [vault EXCEPT !.note = notes, !.index = index,
                          !.draft[c][review[c].revision] = "deprecated"])
  /\ astray' = astray \cup TakenFrom(c, old)

\* Mutant: the reservation is made in memory only.
ReservesNothing(c, old, next) == UNCHANGED review

\* The new note's name is saved in the review before any file, and so is an adoption.
Reserves(c, old, next) ==
  IF review[c].pending # NoPath THEN UNCHANGED review
  ELSE review' = [review EXCEPT ![c].path = old, ![c].pending = next,
                                ![c].hash = IF old # NoPath THEN vault.note[old] ELSE @]

AcceptBegins(c) ==
  LET r == review[c] IN
  /\ job = NoJob
  /\ r.state = "proposed" /\ r.cited = evidence[c] /\ vault.draft[c][r.revision] # "none"
  /\ IF r.pending # NoPath THEN now' = now ELSE now' \in now .. MaxTime /\ Free(now') # {}
  /\ \E old \in Olds(r) :
       LET next == IF r.pending # NoPath THEN r.pending ELSE Min(Free(now')) IN
       /\ Unedited(r, old)
       /\ vault.note[next] # NoNote => vault.note[next].of = c /\ vault.note[next].revision = r.revision
       /\ Reserves(c, old, next)
       /\ Begins(c, "promoted", old, next,
                 [p \in Path |-> IF p = next THEN Published(c, r, next)
                                 ELSE IF p = old THEN Deprecated(vault.note[old], next)
                                 ELSE vault.note[p]],
                 (vault.index \ {old}) \cup {next})
  /\ UNCHANGED <<vault, evidence, interrupts, torn>>

\* Also of a fact that is published: its note is deprecated and stays where it is.
RejectBegins(c) ==
  LET r == review[c] IN
  /\ job = NoJob
  /\ r.state \in {"proposed", "promoted"} /\ vault.draft[c][r.revision] # "none"
  /\ \E old \in Olds(r) :
       /\ Unedited(r, old)
       /\ Begins(c, "rejected", old, NoPath,
                 [p \in Path |-> IF p = old THEN Deprecated(vault.note[old], vault.note[old].by)
                                 ELSE vault.note[p]],
                 vault.index \ {old})
  /\ UNCHANGED <<now, vault, evidence, review, interrupts, torn>>

-----------------------------------------------------------------------------
(* writeSet, and the end of Publish.                                         *)

\* The file f as it is in v.
Put(f, v) ==
  vault' = IF f = Draft THEN [vault EXCEPT !.draft = v.draft]
           ELSE IF f = Index THEN [vault EXCEPT !.index = v.index]
           ELSE [vault EXCEPT !.note[f] = v.note[f]]

\* Mutant: the files are written in no particular order.
WriteAny ==
  /\ job.pc = "writing" /\ job.todo # {}
  /\ \E f \in job.todo : Put(f, job.new) /\ job' = [job EXCEPT !.todo = @ \ {f}]
  /\ UNCHANGED <<now, evidence, review, interrupts, torn, astray>>

WriteNext ==
  /\ job.pc = "writing" /\ job.todo # {}
  /\ Put(Min(job.todo), job.new)
  /\ job' = [job EXCEPT !.todo = @ \ {Min(job.todo)}]
  /\ UNCHANGED <<now, evidence, review, interrupts, torn, astray>>

\* A write fails, the log's for one: every file of the set is put back, in the same order.
WriteFails ==
  /\ job.pc = "writing" /\ (job.todo # {} \/ job.state = "marked") /\ interrupts < MaxInterrupts
  /\ job' = [job EXCEPT !.pc = "undoing", !.todo = job.files]
  /\ interrupts' = interrupts + 1
  /\ UNCHANGED <<now, vault, evidence, review, torn, astray>>

UndoNext ==
  /\ job.pc = "undoing"
  /\ IF job.todo = {} THEN job' = NoJob /\ UNCHANGED vault
     ELSE /\ Put(Min(job.todo), job.backup)
          /\ job' = [job EXCEPT !.todo = @ \ {Min(job.todo)}]
  /\ UNCHANGED <<now, evidence, review, interrupts, torn, astray>>

\* A publication is cut short; a marking leaves no trace in the corpus.
CutShort(undone) ==
  torn' = IF job.state = "marked" THEN torn
          ELSE [torn EXCEPT ![job.of] = [to |-> job.state, undone |-> @.undone \/ undone]]

\* A file cannot be put back, and the rest is: nobody is told.
UndoFails ==
  /\ job.pc = "undoing" /\ job.todo # {} /\ interrupts < MaxInterrupts
  /\ job' = [job EXCEPT !.todo = @ \ {Min(job.todo)}]
  /\ CutShort(TRUE)
  /\ interrupts' = interrupts + 1
  /\ UNCHANGED <<now, vault, evidence, review, astray>>

\* saveMemory, once every file is written.
Finishes ==
  /\ job.pc = "writing" /\ job.todo = {} /\ job.state # "marked"
  /\ LET c == job.of
         path == IF job.state = "promoted" THEN job.next ELSE job.old
     IN  /\ review' = [review EXCEPT ![c].state = job.state, ![c].path = path, ![c].pending = NoPath,
                         ![c].published = IF job.state = "promoted" THEN review[c].revision ELSE @,
                         ![c].hash = IF path # NoPath THEN job.new.note[path] ELSE @]
         /\ torn' = [torn EXCEPT ![c] = Whole]
         /\ astray' = IF job.state = "rejected" /\ LetsGo(c) THEN astray \cup {c} ELSE astray
  /\ job' = NoJob
  /\ UNCHANGED <<now, vault, evidence, interrupts>>

\* And the log of a marking.
MarkingEnds ==
  /\ job.pc = "writing" /\ job.todo = {} /\ job.state = "marked"
  /\ job' = NoJob
  /\ UNCHANGED <<now, vault, evidence, review, interrupts, torn, astray>>

\* A kill, the power, or a corpus that cannot be written to: the system releases the
\* locks, and the files stay as they are.
Interrupted ==
  /\ job # NoJob /\ interrupts < MaxInterrupts
  /\ CutShort(job.pc = "undoing")
  /\ job' = NoJob
  /\ interrupts' = interrupts + 1
  /\ UNCHANGED <<now, vault, evidence, review, astray>>

-----------------------------------------------------------------------------
Publishing == WriteNext \/ UndoNext \/ Finishes \/ MarkingEnds

Next ==
  \/ \E c \in Candidate :
       \/ SourceChanges(c) \/ MarkSourceDrift(c) \/ StageMemory(c)
       \/ \E basis \in Inspected : Propose(c, basis)
       \/ AcceptBegins(c) \/ RejectBegins(c)
  \/ Publishing \/ WriteFails \/ UndoFails \/ Interrupted

Spec == Init /\ [][Next]_vars

\* A publication that is not interrupted goes on; who was interrupted accepts again.
Fairness == /\ WF_vars(Publishing)
            /\ \A c \in Candidate : WF_vars(AcceptBegins(c))
FairSpec == Spec /\ Fairness

-----------------------------------------------------------------------------
(* Properties.                                                               *)

NotesOf(c) == {p \in Path : vault.note[p].of = c}
Stable(c)  == {p \in NotesOf(c) : vault.note[p].status = "stable"}

\* Between publications, what is in the vault is what the reviews say.  Of a candidate
\* whose last publication ended, and none of whose notes was let go of or taken for
\* another's: the note the review names is the one that is listed, and stable, if it was promoted, and the
\* others are neither; of a rejected one all are.  Even half-way through an interrupted
\* publication a candidate has no stable note but those its review knows.
ReviewIsTrue ==
  job = NoJob => \A c \in Candidate \ astray :
    LET r == review[c] IN
    /\ Stable(c) \subseteq {r.path, r.pending}
    /\ torn[c] = Whole =>
         CASE r.state = "promoted" -> /\ Stable(c) = {r.path} /\ vault.index \cap NotesOf(c) = {r.path}
                                      /\ vault.note[r.path].revision = r.revision
           [] r.state = "rejected" -> Stable(c) = {} /\ vault.index \cap NotesOf(c) = {}
           [] OTHER -> TRUE

\* Who reads the vault, without a lock, at any moment of a publication or after any
\* kill, never finds a candidate's superseded note still current beside the one that
\* supersedes it: the old one is written first (writeSet's sorted order, and names that
\* grow with time).  Only a rollback, which follows the same order, shows both.
NeverBoth ==
  \A c \in Candidate \ astray :
    Cardinality(Stable(c)) <= 1 \/ job.pc = "undoing" \/ torn[c].undone

\* What was withdrawn -- superseded, rejected, or marked because its source changed --
\* never comes back as current, through kills, rollbacks and retries: a note becomes
\* live when it is first written, or when the very publication or marking that took it
\* out is rolled back.
NeverResurfaces ==
  [][\A p \in Path : ~Live(p) /\ Live(p)' =>
       \/ vault.note[p] = NoNote
       \/ job.pc = "undoing" /\ job.backup.note[p] = vault'.note[p]]_vars

\* What no retry can help: the note it would replace was marked, was withdrawn by another
\* publication, or is one the workflow wrote and this candidate did not publish, deprecated
\* already; the evidence is another; somebody else's note has the reserved name.
Disturbed(c) ==
  LET r == review[c] IN
  \/ r.cited # evidence[c]
  \/ r.path # NoPath /\ LET old == vault.note[r.path] IN
       \/ old.marked
       \/ old.status = "deprecated" /\ <<old.by, old.revision>> # <<r.pending, r.published>>
  \/ r.pending # NoPath /\ vault.note[r.pending].of \notin {c, Nobody}

\* "Retry the same action to repair it": an accept that was interrupted anywhere is
\* completed by accepting again, unless it is revised, rejected or disturbed first.
RetryRepairs ==
  \A c \in Candidate : review[c].pending # NoPath ~>
    review[c].pending = NoPath \/ torn[c].to = "rejected" \/ Disturbed(c)
===============================================================================
