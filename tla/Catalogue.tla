------------------------------- MODULE Catalogue -------------------------------
(***************************************************************************)
(* internal/catalogue and cmd/sourcecatalogue: the private register of the *)
(* sources that notes cite.  A command loads the register, observes or     *)
(* acknowledges sources, saves it through a temporary file of one fixed    *)
(* name, and writes a view of every entry.  Commands take no lock.  A      *)
(* refresh that is given the vault also marks the notes that cite a source *)
(* which has drifted.                                                      *)
(***************************************************************************)
EXTENDS Integers

CONSTANTS
  Source,
  Process,    \* invocations of sourcecatalogue at a time
  Keeper,     \* those through which somebody refreshes everything, vault given, now and then
  Torn,       \* a file that is empty, or holds the end of one text behind another
  MaxContent, \* the contents a source can have (a bound for TLC)
  MaxKills    \* how many commands are killed or fail (a bound for TLC)

ASSUME CatalogueAssumption ==
  Keeper \subseteq Process /\ MaxContent \in Nat /\ MaxKills \in Nat

VARIABLES
  content,  \* what each source's locator holds, or Unreadable
  files,    \* what register.json holds, and register.json.tmp
  view,     \* the state each source's view shows
  current,  \* the sources that a stable note cites which is not marked
  command,  \* what each process is doing
  kills,
  reviewed, \* the contents of each source that somebody has answered for
  last      \* how the last command ended, until two have overlapped

catalogueVars == <<content, files, view, current, command, kills, reviewed, last>>

Unreadable == 0
Content == Unreadable .. MaxContent
Entry   == [status : {"none", "active", "needs_review"}, revision : Content]
NoEntry == [status |-> "none", revision |-> Unreadable]
Register == [Source -> Entry]

Saved == files.register
Readable == Saved # Torn
NoFile == [s \in Source |-> [status |-> "no file", revision |-> Unreadable]]

ASSUME TornAssumption == Torn \notin Register \cup {NoFile}

\* A process that has opened the temporary file holds the file, under whatever name it
\* has by now: its own, register.json once somebody has renamed it, or no name at all.
Handle == {"none", "tmp", "register", "gone"}

\* With -vault and without.
Refresh == {"refresh", "refresh -vault"}

Idle == [pc |-> "idle", does |-> "nothing", todo |-> {},
         reg |-> [s \in Source |-> NoEntry], fd |-> "none"]

Command == [pc : {"idle", "loaded", "opened", "written", "viewing"},
            does : {"nothing", "register", "ack"} \cup Refresh,
            todo : SUBSET Source, reg : Register, fd : Handle]

CatalogueTypeOK ==
  /\ content \in [Source -> Content]
  /\ files \in [register : Register \cup {Torn}, tmp : Register \cup {Torn, NoFile}]
  /\ view \in [Source -> {"none", "active", "needs_review"}]
  /\ current \subseteq Source
  /\ command \in [Process -> Command]
  /\ kills \in 0 .. MaxKills
  /\ reviewed \in [Source -> SUBSET (1 .. MaxContent)]
  /\ last \in {"nothing", "views", "overlapped"}

CatalogueInit ==
  /\ content \in [Source -> 1 .. MaxContent]
  /\ files = [register |-> [s \in Source |-> NoEntry], tmp |-> NoFile]
  /\ view = [s \in Source |-> "none"]
  /\ current = {}
  /\ command = [p \in Process |-> Idle]
  /\ kills = 0 /\ reviewed = [s \in Source |-> {}]
  /\ last = "nothing"

-----------------------------------------------------------------------------
(* The world.                                                                *)

\* A source changes, goes away or comes back.
Changes(s) ==
  /\ \E c \in Content \ {content[s]} : content' = [content EXCEPT ![s] = c]
  /\ UNCHANGED <<files, view, current, command, kills, reviewed, last>>

\* A fact that cites the source is accepted, whatever has become of the source since it
\* was proposed: the row it is cited from never changes.
NotePublished(s) ==
  /\ Readable /\ Saved[s] # NoEntry /\ s \notin current
  /\ current' = current \cup {s}
  /\ UNCHANGED <<content, files, view, command, kills, reviewed, last>>

-----------------------------------------------------------------------------
(* Loading, observing, acknowledging.                                        *)

\* LoadRegister; a register that does not parse ends the command.
Loads(p, does, todo) ==
  /\ command[p] = Idle /\ Readable
  /\ command' = [command EXCEPT ![p] = [Idle EXCEPT !.pc = "loaded", !.does = does,
                                                    !.todo = todo, !.reg = Saved]]
  /\ last' = IF \E q \in Process \ {p} : command[q] # Idle THEN "overlapped" ELSE last
  /\ UNCHANGED <<content, files, view, current, kills, reviewed>>

RegisterBegins(p, s) == Loads(p, "register", {s})
RefreshBegins(p, does, todo) ==
  Readable /\ (\A s \in todo : Saved[s] # NoEntry) /\ todo # {} /\ Loads(p, does, todo)
AckBegins(p, s) == Readable /\ Saved[s] # NoEntry /\ Loads(p, "ack", {s})

driftStatus(status, previous, next) ==
  CASE previous = Unreadable -> "active"
    [] previous # Unreadable /\ previous # next -> "needs_review"
    [] OTHER -> status

\* Mutant: the new revision is stored first and compared with itself.
ObservedItself(e, c) == [status |-> driftStatus(e.status, c, c), revision |-> c]

\* An entry after its source has been observed.
Observed(e, c) == [status |-> driftStatus(e.status, e.revision, c), revision |-> c]

\* What becomes of it in the command's register.
Becomes(p, s, e) ==
  command' = [command EXCEPT ![p].reg[s] = e, ![p].todo = @ \ {s}]

\* What nobody else has answered for, the code takes as it is: the first content that is
\* registered, and the first that is read where there was none.
Unasked(s, e, c) == IF e.revision = Unreadable THEN {c} \ {Unreadable} ELSE {}

RegisterOne(p, s) ==
  LET e == command[p].reg[s] IN
  /\ command[p].pc = "loaded" /\ command[p].does = "register" /\ s \in command[p].todo
  /\ Becomes(p, s, IF e = NoEntry THEN [status |-> "active", revision |-> content[s]]
                   ELSE Observed(e, content[s]))
  /\ reviewed' = [reviewed EXCEPT ![s] = @ \cup Unasked(s, e, content[s])]
  /\ UNCHANGED <<content, files, view, current, kills, last>>

\* Mutant: notes are marked when the entry flips, not whenever it waits for review.
MarksFlipped(before, after) == before.status = "active" /\ after.status = "needs_review"

\* MarkSourceDrift is called.
Marks(before, after) == after.status = "needs_review"

RefreshOne(p, s) ==
  LET e     == command[p].reg[s]
      after == Observed(e, content[s])
  IN
  /\ command[p].pc = "loaded" /\ command[p].does \in Refresh /\ s \in command[p].todo
  /\ Becomes(p, s, after)
  /\ current' = IF command[p].does = "refresh -vault" /\ Marks(e, after) THEN current \ {s}
                ELSE current
  /\ reviewed' = [reviewed EXCEPT ![s] = @ \cup Unasked(s, e, content[s])]
  /\ UNCHANGED <<content, files, view, kills, last>>

\* Acknowledge: whatever revision is on record has been reviewed.
AckOne(p, s) ==
  LET e == command[p].reg[s] IN
  /\ command[p].pc = "loaded" /\ command[p].does = "ack" /\ s \in command[p].todo
  /\ Becomes(p, s, [e EXCEPT !.status = "active"])
  /\ reviewed' = [reviewed EXCEPT ![s] = @ \cup ({e.revision} \ {Unreadable})]
  /\ UNCHANGED <<content, files, view, current, kills, last>>

-----------------------------------------------------------------------------
(* SaveRegister.                                                             *)

\* Mutant: register.json is opened and written where it stands.
OpensRegister(p) ==
  /\ command[p].pc = "loaded" /\ command[p].todo = {}
  /\ files' = [register |-> Torn, tmp |-> command[p].reg]
  /\ command' = [command EXCEPT ![p].pc = "opened", ![p].fd = "register"]
  /\ UNCHANGED <<content, view, current, kills, reviewed, last>>

\* os.WriteFile opens the temporary file, and truncates it if it is there.
Opens(p) ==
  /\ command[p].pc = "loaded" /\ command[p].todo = {}
  /\ files' = [files EXCEPT !.tmp = Torn]
  /\ command' = [command EXCEPT ![p].pc = "opened", ![p].fd = "tmp"]
  /\ UNCHANGED <<content, view, current, kills, reviewed, last>>

\* Over what another has written into the file meanwhile, a shorter text leaves the end
\* of the longer one.
Over(text, reg) == {reg} \cup (IF text = Torn THEN {} ELSE {Torn})

Writes(p) ==
  LET c == command[p] IN
  /\ c.pc = "opened"
  /\ IF c.fd = "gone" THEN UNCHANGED files
     ELSE \E text \in Over(files[c.fd], c.reg) : files' = [files EXCEPT ![c.fd] = text]
  /\ command' = [command EXCEPT ![p].pc = "written"]
  /\ UNCHANGED <<content, view, current, kills, reviewed, last>>

Registered(reg) == {s \in Source : reg[s] # NoEntry}

\* The handles on the two files once the one has taken the other's name.
Renamed(c) == [c EXCEPT !.fd = CASE @ = "tmp" -> "register" [] @ = "register" -> "gone" [] OTHER -> @]

\* A rename fails where another's has taken the temporary file away.  Views are written if
\* a place for them is named, and never by an acknowledgement.
Renames(p, views) ==
  LET c    == command[p]
      next == IF views THEN [c EXCEPT !.pc = "viewing", !.fd = "none", !.todo = Registered(c.reg)]
              ELSE Idle
  IN
  /\ c.pc = "written"
  /\ views => c.does # "ack" /\ files.tmp # NoFile
  /\ files' = IF files.tmp = NoFile THEN files ELSE [register |-> files.tmp, tmp |-> NoFile]
  /\ command' = [q \in Process |-> IF q = p THEN next
                                   ELSE IF files.tmp = NoFile THEN command[q] ELSE Renamed(command[q])]
  /\ last' = IF next = Idle /\ last # "overlapped" THEN "nothing" ELSE last
  /\ UNCHANGED <<content, view, current, kills, reviewed>>

-----------------------------------------------------------------------------
(* WriteViewsStaging, and the end.                                           *)

\* One view after the other, each by a rename, in the order of their ids.
WritesView(p, s) ==
  /\ command[p].pc = "viewing" /\ s \in command[p].todo
  /\ view' = [view EXCEPT ![s] = command[p].reg[s].status]
  /\ command' = [command EXCEPT ![p].todo = @ \ {s}]
  /\ UNCHANGED <<content, files, current, kills, reviewed, last>>

Ends(p) ==
  /\ command[p].pc = "viewing" /\ command[p].todo = {}
  /\ command' = [command EXCEPT ![p] = Idle]
  /\ last' = IF last = "overlapped" THEN last ELSE "views"
  /\ UNCHANGED <<content, files, view, current, kills, reviewed>>

\* Killed, or one of its steps fails: it exits where it is.
Killed(p) ==
  /\ command[p] # Idle /\ kills < MaxKills
  /\ command' = [command EXCEPT ![p] = Idle]
  /\ kills' = kills + 1
  /\ last' = IF last = "overlapped" THEN last ELSE "nothing"
  /\ UNCHANGED <<content, files, view, current, reviewed>>

-----------------------------------------------------------------------------
Goes(p) ==
  \/ \E s \in Source : RegisterOne(p, s) \/ RefreshOne(p, s) \/ AckOne(p, s) \/ WritesView(p, s)
  \/ Opens(p) \/ Writes(p) \/ (\E views \in BOOLEAN : Renames(p, views)) \/ Ends(p)

CatalogueNext ==
  \/ \E s \in Source : Changes(s) \/ NotePublished(s)
  \/ \E p \in Process :
       \/ \E s \in Source : RegisterBegins(p, s) \/ AckBegins(p, s)
       \/ \E todo \in SUBSET Source, does \in Refresh : RefreshBegins(p, does, todo)
       \/ Goes(p) \/ Killed(p)

CatalogueSpec == CatalogueInit /\ [][CatalogueNext]_catalogueVars

\* A command runs on; and everything is refreshed with the vault now and then.
CatalogueFairness ==
  /\ \A p \in Process : WF_catalogueVars(Goes(p))
  /\ \A p \in Keeper : SF_catalogueVars(Readable /\ RefreshBegins(p, "refresh -vault", Registered(Saved)))
CatalogueFairSpec == CatalogueSpec /\ CatalogueFairness

-----------------------------------------------------------------------------
(* Properties.                                                               *)

\* A content that the register calls active is one somebody answered for: the first that
\* was registered, one that was acknowledged, or the first that could be read after one
\* that could not (driftStatus does not ask then).  However commands overlap, lose each
\* other's updates or die, a drift that was seen is not forgotten unasked.
ActiveWasReviewed ==
  Readable => \A s \in Source : Saved[s].status = "active" => Saved[s].revision \in reviewed[s] \cup {Unreadable}

\* Commands that do not overlap may be killed anywhere: the register can be read, and
\* when a command that writes views has ended, whatever was cut short before, every view
\* shows its entry's state.
SafeAlone ==
  last # "overlapped" =>
    /\ Readable
    /\ last = "views" /\ (\A p \in Process : command[p] = Idle) =>
         \A s \in Source : view[s] = Saved[s].status

\* A note that cites a drifted source is marked in the end, in whatever way the drift got
\* into the register -- registered again, or refreshed without a vault -- unless the drift
\* is acknowledged first.
DriftReachesNotes ==
  \A s \in Source :
    (Readable /\ Saved[s].status = "needs_review" /\ s \in current)
      ~> (~Readable \/ Saved[s].status # "needs_review" \/ s \notin current)
===============================================================================
