--------------------------- MODULE Knowledge_proofs ---------------------------
(* What is published of candidates, and what the catalogue says of the sources  *)
(* they cite.  Through kills, failed writes, rollbacks and retries the vault and *)
(* the reviews agree, and nothing withdrawn comes back, for any candidates, any  *)
(* notes there are to begin with and any number of interruptions.  Nothing that  *)
(* was asked of a source is forgotten, and commands that do not overlap leave    *)
(* the views true, for any processes and any sources.                            *)
EXTENDS Publication, Catalogue, FiniteSetTheorems, WellFoundedInduction, TLAPS

-------------------------------------------------------------------------------
(***************************************************************************)
(* internal/candidates.  While a publication writes, the vault lies        *)
(* between the one it began from, job.backup, and the one it makes,        *)
(* job.new; what the reviews say is said of job.backup, and of the vault   *)
(* itself between publications.                                            *)
(***************************************************************************)

\* The note a review names is there; no second from the clock to that of its own note or of
\* the name it has reserved is free, and the second comes after the first.  A candidate
\* that no review names a note of has none but under the name it has reserved.
Named(c, v) ==
  LET r == review[c] IN
  /\ r.path = NoPath =>
       /\ r.basis.of # c /\ (r.pending # NoPath => r.basis = NoNote)
       /\ \A p \in Path : v.note[p].of = c => p = r.pending
  /\ r.path # NoPath =>
       /\ v.note[r.path] # NoNote
       /\ v.note[r.path].of = c =>
            /\ \A q \in Path : now <= q /\ q <= r.path => v.note[q] # NoNote
            /\ r.pending # NoPath => r.path < r.pending
  /\ r.pending # NoPath =>
       /\ r.pending # r.path
       /\ \A q \in Path : now <= q /\ q < r.pending => v.note[q] # NoNote
       /\ v.note[r.pending].of = c => v.note[r.pending].status = "stable"

\* No note of the candidate is stable or listed but those its review knows.
Known(c, v) ==
  \A p \in Path : v.note[p].of = c /\ (v.note[p].status = "stable" \/ p \in v.index) =>
    p \in {review[c].path, review[c].pending}

\* They are not both stable, but for a kill during a rollback.
Single(c, v) ==
  ~torn[c].undone =>
    \A p, q \in Path : v.note[p].of = c /\ v.note[p].status = "stable"
                       /\ v.note[q].of = c /\ v.note[q].status = "stable" => p = q

\* What the review says, after a publication that ended.
Says(c, v) ==
  LET r == review[c] IN
  torn[c] = Whole =>
    /\ r.state = "promoted" =>
         /\ r.path # NoPath /\ v.note[r.path].of = c /\ v.note[r.path].status = "stable"
         /\ v.note[r.path].revision = r.revision /\ r.path \in v.index
         /\ \A p \in Path : v.note[p].of = c /\ (v.note[p].status = "stable" \/ p \in v.index) =>
              p = r.path
    /\ r.state = "rejected" =>
         \A p \in Path : v.note[p].of = c => v.note[p].status # "stable" /\ p \notin v.index

Rests(v) ==
  \A c \in Candidate \ astray : Named(c, v) /\ Known(c, v) /\ Single(c, v) /\ Says(c, v)

\* What the publication under way makes of the vault it began from: the notes it touches
\* are its candidate's, nobody's, or of a candidate they are taken from, and become
\* deprecated unless they are new.
Plans ==
  LET b == job.backup.note
      n == job.new.note
  IN
  /\ job.of \in Candidate /\ job.state \in {"promoted", "rejected"}
  /\ job.files = {Draft, Index} \cup ({job.old, job.next} \ {NoPath})
  /\ \A p \in Path \cap {job.old, job.next} :
       /\ {b[p].of, n[p].of} \subseteq {job.of, Nobody} \cup astray
       /\ n[p] # NoNote /\ (n[p].status = "deprecated" \/ b[p] \in {NoNote, n[p]})
  /\ \A p \in Path \ {job.old, job.next} : n[p] = b[p]
  /\ job.new.index = (job.backup.index \ {job.old}) \cup ({job.next} \ {NoPath})

\* And of a candidate that is not astray: its review's note is the one replaced.
Planned ==
  LET b == job.backup.note
      n == job.new.note
  IN
  /\ job.old = NoPath => review[job.of].path = NoPath
  /\ job.old # NoPath =>
       /\ b[job.old] # NoNote
       /\ b[job.old].of = job.of => job.old = review[job.of].path
       /\ review[job.of].path # NoPath => job.old = review[job.of].path
       /\ job.old # job.next
       /\ n[job.old].of = b[job.old].of /\ n[job.old].status = "deprecated"
  /\ job.state = "promoted" =>
       /\ job.next = review[job.of].pending /\ job.next # NoPath
       /\ job.old = review[job.of].path
       /\ review[job.of].state = "proposed"
       /\ n[job.next].of = job.of /\ n[job.next].status = "stable"
       /\ n[job.next].revision = review[job.of].revision
       /\ b[job.next] \in {NoNote, n[job.next]}
  /\ job.state = "rejected" => job.next = NoPath

\* A note and the same note marked.
Alike(n, b) ==
  /\ n.of = b.of /\ n.status = b.status /\ n.revision = b.revision
  /\ n = NoNote <=> b = NoNote
  /\ n.marked \/ n = b

\* What a marking makes of the vault.
Marking ==
  /\ job.of \in Candidate /\ job.files \subseteq Path
  /\ \A p \in Path : Alike(job.new.note[p], job.backup.note[p])
  /\ job.new.index = job.backup.index

\* How far it got.  The files are written, and put back, in the order of their names; one
\* that cannot be put back stays as it is.
Between ==
  LET Is(f, v) == IF f = Index THEN vault.index = v.index
                  ELSE f # Draft => vault.note[f] = v.note[f]
  IN
  /\ job.todo \subseteq job.files
  /\ \A f \in File \ job.files : Is(f, job.backup)
  /\ job.pc = "writing" =>
       /\ \A f \in job.files : IF f \in job.todo THEN Is(f, job.backup) ELSE Is(f, job.new)
       /\ \A f \in job.files \ job.todo, g \in job.todo : f < g
  /\ job.pc = "undoing" =>
       \A f \in job.files :
         \/ Is(f, job.backup)
         \/ (f \in job.todo \/ torn[job.of].undone \/ job.state = "marked") /\ Is(f, job.new)

PublicationInv ==
  /\ TypeOK
  /\ job # NoJob => job.pc # "idle" /\ job.state # "none" /\ Between
  /\ job.state \in {"none", "marked"} => Rests(vault)
  /\ job.state = "marked" => Marking
  /\ job.state \in {"promoted", "rejected"} =>
       /\ Rests(job.backup) /\ Plans
       /\ job.of \notin astray => Planned

-----------------------------------------------------------------------------

LEMMA Orders == IsWellFoundedOn({ss \in Nat \X Nat : ss[1] < ss[2]}, Nat)
BY NatLessThanWellFounded DEF OpToRel

\* Min of a set of numbers that is not empty is its least element.
LEMMA MinIs ==
  ASSUME NEW S, S \subseteq Nat, S # {}
  PROVE  Min(S) \in S /\ \A k \in S : Min(S) <= k
<1> DEFINE R == {ss \in Nat \X Nat : ss[1] < ss[2]}
<1>1. IsWellFoundedOn(R, Nat)  BY Orders
<1>2. PICK x \in S : \A y \in S : ~ (<<y, x>> \in R)
  <2> HIDE DEF R
  <2> QED  BY <1>1, WFMin
<1>3. \A k \in S : ~ (k < x)
  <2> SUFFICES ASSUME NEW k \in S, k < x PROVE FALSE  OBVIOUS
  <2>1. <<k, x>> \in Nat \X Nat  OBVIOUS
  <2>2. <<k, x>> \in R  BY <2>1
  <2> QED  BY <1>2, <2>2
<1>4. \A k \in S : x <= k
  <2> SUFFICES ASSUME NEW k \in S PROVE x <= k  OBVIOUS
  <2>1. k \in Nat /\ x \in Nat /\ ~ (k < x)  BY <1>3
  <2> QED  BY <2>1
<1> QED  BY <1>4 DEF Min

\* The clock, the files and the numbers of a review.
LEMMA Numbers ==
  /\ Path \subseteq Nat /\ Revision \subseteq Nat /\ File \subseteq Nat
  /\ Path = 1 .. MaxTime /\ 1 \in Path /\ NoPath = 0 /\ NoPath \notin Path
  /\ Path \subseteq File /\ Draft \in File /\ Index \in File
  /\ Draft \notin Path /\ Index \notin Path /\ Draft # Index
  /\ \A f \in File : f = Draft \/ f = Index \/ f \in Path
  /\ 0 .. MaxTime = {NoPath} \cup Path
  /\ \A p \in Path : Draft < p /\ p < Index
BY PublicationAssumption DEF Path, Revision, File, Draft, Index, NoPath

LEMMA NotePieces ==
  /\ NoNote \in Note
  /\ \A c \in Candidate, r \in 0 .. MaxRevision : Fact(c, r) \in Note
  /\ Fact(Nobody, 0) \in Note
  /\ \A note \in Note, by \in 0 .. MaxTime : Deprecated(note, by) \in Note
  /\ \A note \in Note : [note EXCEPT !.marked = TRUE] \in Note
<1>1. 0 \in 0 .. MaxTime /\ 0 \in 0 .. MaxRevision  BY PublicationAssumption
<1> QED  BY <1>1 DEF Note, NoNote, Fact, Deprecated, NoPath

\* What the types give of a state.
LEMMA Shapes ==
  ASSUME TypeOK
  PROVE  /\ vault.note \in [Path -> Note] /\ vault.index \subseteq Path
         /\ job.new.note \in [Path -> Note] /\ job.new.index \subseteq Path
         /\ job.backup.note \in [Path -> Note] /\ job.backup.index \subseteq Path
         /\ vault \in Vault /\ job.new \in Vault /\ job.backup \in Vault
         /\ job.files \subseteq File /\ job.todo \subseteq File
         /\ job.old \in {NoPath} \cup Path /\ job.next \in {NoPath} \cup Path
         /\ \A c \in Candidate : /\ review[c].path \in {NoPath} \cup Path
                                 /\ review[c].pending \in {NoPath} \cup Path
                                 /\ review[c].revision \in 0 .. MaxRevision
         /\ now \in Path
BY Numbers DEF TypeOK, Vault

LEMMA NoVaultTyped == NoVault \in Vault
BY NotePieces DEF NoVault, Vault

LEMMA NoJobTyped ==
  /\ NoJob \in [pc : {"idle", "writing", "undoing"}, of : Candidate \cup {Nobody},
             state : {"none", "promoted", "rejected", "marked"}, old : 0 .. MaxTime,
             next : 0 .. MaxTime, files : SUBSET File, todo : SUBSET File,
             new : Vault, backup : Vault]
  /\ NoJob.state = "none"
BY NoVaultTyped, PublicationAssumption DEF NoJob, NoPath

\* A publication's state, told from none.
LEMMA Idles == NoJob.pc = "idle"
BY DEF NoJob

\* A set of files that is being written, from the vault as it is.
LEMMA StartsTyped ==
  ASSUME TypeOK, NEW c \in Candidate, NEW state \in {"promoted", "rejected", "marked"},
         NEW old \in {NoPath} \cup Path, NEW next \in {NoPath} \cup Path,
         NEW all \in SUBSET File, NEW new \in Vault, Starts(c, state, old, next, all, new)
  PROVE  /\ job'.pc = "writing" /\ job'.of = c /\ job'.state = state /\ job'.old = old
         /\ job'.next = next /\ job'.todo = all /\ job'.files = all /\ job'.backup = vault
         /\ job'.new = new /\ job' # NoJob
         /\ job' \in [pc : {"idle", "writing", "undoing"}, of : Candidate \cup {Nobody},
              state : {"none", "promoted", "rejected", "marked"}, old : 0 .. MaxTime,
              next : 0 .. MaxTime, files : SUBSET File, todo : SUBSET File,
              new : Vault, backup : Vault]
<1>1. vault \in Vault  BY Shapes
<1>2. old \in 0 .. MaxTime /\ next \in 0 .. MaxTime  BY Numbers
<1>3. job' = [pc |-> "writing", of |-> c, state |-> state, old |-> old, next |-> next,
              files |-> all, todo |-> all, new |-> new, backup |-> vault]
  BY DEF Starts
<1>4. /\ job'.pc = "writing" /\ job'.of = c /\ job'.state = state /\ job'.old = old
      /\ job'.next = next /\ job'.todo = all /\ job'.files = all
      /\ job'.backup = vault /\ job'.new = new
  BY <1>3
<1>5. job' # NoJob  BY <1>4, Idles
<1>6. job' \in [pc : {"idle", "writing", "undoing"}, of : Candidate \cup {Nobody},
              state : {"none", "promoted", "rejected", "marked"}, old : 0 .. MaxTime,
              next : 0 .. MaxTime, files : SUBSET File, todo : SUBSET File,
              new : Vault, backup : Vault]
  BY <1>1, <1>2, <1>3
<1> QED  BY <1>4, <1>5, <1>6

-----------------------------------------------------------------------------
(* Types.                                                                    *)

LEMMA JobTyped ==
  ASSUME TypeOK, NEW c \in Candidate, NEW state \in {"promoted", "rejected"},
         NEW old \in {NoPath} \cup Path, NEW next \in {NoPath} \cup Path,
         NEW notes \in [Path -> Note], NEW index \in SUBSET Path,
         Begins(c, state, old, next, notes, index)
  PROVE  /\ job'.pc = "writing" /\ job'.of = c /\ job'.state = state /\ job'.old = old
         /\ job'.next = next /\ job'.todo = job'.files /\ job'.backup = vault
         /\ job'.files = {Draft, Index} \cup ({old, next} \ {NoPath})
         /\ job'.new.note = notes /\ job'.new.index = index /\ job' # NoJob
         /\ job' \in [pc : {"idle", "writing", "undoing"}, of : Candidate \cup {Nobody},
              state : {"none", "promoted", "rejected", "marked"}, old : 0 .. MaxTime,
              next : 0 .. MaxTime, files : SUBSET File, todo : SUBSET File,
              new : Vault, backup : Vault]
         /\ astray' = astray \cup TakenFrom(c, old)
<1> DEFINE new == [vault EXCEPT !.note = notes, !.index = index,
                                !.draft[c][review[c].revision] = "deprecated"]
           all == {Draft, Index} \cup ({old, next} \ {NoPath})
<1>1. vault \in Vault  BY Shapes
<1>2. new \in Vault /\ new.note = notes /\ new.index = index
  BY <1>1 DEF Vault
<1>3. all \in SUBSET File  BY Numbers
<1>4. Starts(c, state, old, next, all, new) /\ astray' = astray \cup TakenFrom(c, old)
  BY DEF Begins
<1> HIDE DEF new, all
<1>5. state \in {"promoted", "rejected", "marked"}  OBVIOUS
<1>6. /\ job'.pc = "writing" /\ job'.of = c /\ job'.state = state /\ job'.old = old
      /\ job'.next = next /\ job'.todo = all /\ job'.files = all
      /\ job'.backup = vault /\ job'.new = new /\ job' # NoJob
      /\ job' \in [pc : {"idle", "writing", "undoing"}, of : Candidate \cup {Nobody},
              state : {"none", "promoted", "rejected", "marked"}, old : 0 .. MaxTime,
              next : 0 .. MaxTime, files : SUBSET File, todo : SUBSET File,
              new : Vault, backup : Vault]
  BY <1>2, <1>3, <1>4, <1>5, StartsTyped
<1> QED  BY <1>2, <1>4, <1>6 DEF all

LEMMA PutTyped ==
  ASSUME TypeOK, NEW f \in File, NEW v \in Vault, Put(f, v)
  PROVE  /\ vault' \in Vault
         /\ f = Index => vault'.index = v.index /\ vault'.note = vault.note
         /\ f # Index => vault'.index = vault.index
         /\ f \in Path => vault'.note[f] = v.note[f]
         /\ \A p \in Path \ {f} : vault'.note[p] = vault.note[p]
<1>1. vault \in Vault  BY Shapes
<1>2. CASE f = Draft
  <2>1. vault' = [vault EXCEPT !.draft = v.draft]  BY <1>2 DEF Put
  <2> QED  BY <1>1, <1>2, <2>1, Numbers DEF Vault
<1>3. CASE f = Index
  <2>1. vault' = [vault EXCEPT !.index = v.index]  BY <1>3, Numbers DEF Put
  <2> QED  BY <1>1, <1>3, <2>1, Numbers DEF Vault
<1>4. CASE f \in Path
  <2>1. vault' = [vault EXCEPT !.note[f] = v.note[f]]  BY <1>4, Numbers DEF Put
  <2>2. v.note[f] \in Note  BY <1>4 DEF Vault
  <2> QED  BY <1>1, <1>4, <2>1, <2>2, Numbers DEF Vault
<1> QED  BY <1>2, <1>3, <1>4, Numbers

LEMMA FreeName ==
  ASSUME TypeOK, NEW t \in Path, Free(t) # {}
  PROVE  /\ Min(Free(t)) \in Path /\ t <= Min(Free(t)) /\ vault.note[Min(Free(t))] = NoNote
         /\ \A q \in Path : t <= q /\ q < Min(Free(t)) => vault.note[q] # NoNote
<1>1. Free(t) \subseteq Nat  BY Numbers, PublicationAssumption DEF Free
<1>2. Min(Free(t)) \in Free(t) /\ \A k \in Free(t) : Min(Free(t)) <= k
  BY <1>1, MinIs
<1>3. \A p \in Free(t) : p \in Path /\ t <= p /\ vault.note[p] = NoNote
  BY Numbers, PublicationAssumption DEF Free
<1>4. ASSUME NEW q \in Path, t <= q, q < Min(Free(t)) PROVE vault.note[q] # NoNote
  <2> SUFFICES ASSUME vault.note[q] = NoNote PROVE FALSE  OBVIOUS
  <2>1. q \in Free(t)  BY <1>4, Numbers, PublicationAssumption DEF Free
  <2> QED  BY <1>1, <1>2, <1>4, <2>1
<1> QED  BY <1>2, <1>3, <1>4

LEMMA OldTyped ==
  ASSUME TypeOK, NEW c \in Candidate, NEW old \in Olds(review[c])
  PROVE  old \in {NoPath} \cup Path
<1>1. review[c].path \in {NoPath} \cup Path  BY Shapes
<1> QED  BY <1>1 DEF Olds

\* The note a publication would replace is there, and the candidate's own only if its
\* review names it.
LEMMA OldIs ==
  ASSUME TypeOK, NEW c \in Candidate, Named(c, vault), NEW old \in Olds(review[c])
  PROVE  /\ review[c].path # NoPath \/ review[c].pending # NoPath => old = review[c].path
         /\ old = NoPath => review[c].path = NoPath /\ review[c].basis = NoNote
         /\ old # NoPath => vault.note[old] # NoNote
         /\ old # NoPath /\ vault.note[old].of = c => old = review[c].path
<1>1. review[c].path \in {NoPath} \cup Path  BY Shapes
<1>2. CASE review[c].path # NoPath
  <2>1. old = review[c].path  BY <1>2 DEF Olds
  <2> QED  BY <1>1, <1>2, <2>1 DEF Named
<1>3. CASE review[c].path = NoPath /\ review[c].basis = NoNote
  <2>1. old = NoPath  BY <1>3 DEF Olds
  <2> QED  BY <1>3, <2>1
<1>4. CASE review[c].path = NoPath /\ review[c].basis # NoNote
  <2>1. old \in Path /\ vault.note[old] = review[c].basis
    BY <1>4 DEF Olds
  <2>2. review[c].pending = NoPath /\ review[c].basis.of # c  BY <1>4 DEF Named
  <2> QED  BY <1>4, <2>1, <2>2, Numbers
<1> QED  BY <1>2, <1>3, <1>4

\* What accept makes of the vault's notes and of the index.
AcceptedNotes(c, old, next) ==
  [p \in Path |-> IF p = next THEN Published(c, review[c], next)
                  ELSE IF p = old THEN Deprecated(vault.note[old], next)
                  ELSE vault.note[p]]
RejectedNotes(old) ==
  [p \in Path |-> IF p = old THEN Deprecated(vault.note[old], vault.note[old].by) ELSE vault.note[p]]

LEMMA AcceptTakes ==
  ASSUME TypeOK, NEW c \in Candidate, AcceptBegins(c)
  PROVE  \E old \in {NoPath} \cup Path, next \in Path :
           /\ old \in Olds(review[c]) /\ Reserves(c, old, next)
           /\ Begins(c, "promoted", old, next, AcceptedNotes(c, old, next),
                     (vault.index \ {old}) \cup {next})
           /\ AcceptedNotes(c, old, next) \in [Path -> Note]
           /\ (vault.index \ {old}) \cup {next} \in SUBSET Path
           /\ vault.note[next] # NoNote =>
                vault.note[next].of = c /\ vault.note[next].revision = review[c].revision
           /\ review[c].pending # NoPath => next = review[c].pending
           /\ review[c].pending = NoPath =>
                /\ vault.note[next] = NoNote /\ now' <= next
                /\ \A q \in Path : now' <= q /\ q < next => vault.note[q] # NoNote
           /\ now' \in Path /\ now <= now' /\ job = NoJob /\ review[c].state = "proposed"
           /\ UNCHANGED <<vault, evidence, interrupts, torn>>
<1> DEFINE next == IF review[c].pending # NoPath THEN review[c].pending ELSE Min(Free(now'))
<1>1. /\ job = NoJob /\ review[c].state = "proposed"
      /\ IF review[c].pending # NoPath THEN now' = now ELSE now' \in now .. MaxTime /\ Free(now') # {}
      /\ UNCHANGED <<vault, evidence, interrupts, torn>>
  BY DEF AcceptBegins
<1>2. PICK old \in Olds(review[c]) :
        /\ vault.note[next] # NoNote =>
             vault.note[next].of = c /\ vault.note[next].revision = review[c].revision
        /\ Reserves(c, old, next)
        /\ Begins(c, "promoted", old, next, AcceptedNotes(c, old, next),
                  (vault.index \ {old}) \cup {next})
  BY DEF AcceptBegins, AcceptedNotes
<1>3. now' \in Path /\ now <= now'
  <2>1. now \in Path  BY Shapes
  <2> QED  BY <1>1, <2>1, Numbers, PublicationAssumption
<1>4. /\ next \in Path
      /\ review[c].pending # NoPath => next = review[c].pending
      /\ review[c].pending = NoPath =>
           /\ vault.note[next] = NoNote /\ now' <= next
           /\ \A q \in Path : now' <= q /\ q < next => vault.note[q] # NoNote
  <2>1. CASE review[c].pending # NoPath
    <3>1. review[c].pending \in Path  BY <2>1, Shapes
    <3> QED  BY <2>1, <3>1
  <2>2. CASE review[c].pending = NoPath
    <3>1. next = Min(Free(now')) /\ Free(now') # {}  BY <2>2, <1>1
    <3>2. /\ Min(Free(now')) \in Path /\ now' <= Min(Free(now'))
          /\ vault.note[Min(Free(now'))] = NoNote
          /\ \A q \in Path : now' <= q /\ q < Min(Free(now')) => vault.note[q] # NoNote
      <4>1. \A t \in Path : Free(t) # {} =>
              /\ Min(Free(t)) \in Path /\ t <= Min(Free(t)) /\ vault.note[Min(Free(t))] = NoNote
              /\ \A q \in Path : t <= q /\ q < Min(Free(t)) => vault.note[q] # NoNote
        BY FreeName
      <4> QED  BY <1>3, <3>1, <4>1
    <3> QED  BY <2>2, <3>1, <3>2
  <2> QED  BY <2>1, <2>2
<1> HIDE DEF next
<1>5. old \in {NoPath} \cup Path  BY OldTyped
<1>6. AcceptedNotes(c, old, next) \in [Path -> Note]
  <2>1. vault.note \in [Path -> Note] /\ review[c].revision \in 0 .. MaxRevision  BY Shapes
  <2>2. Published(c, review[c], next) \in Note  BY <1>4, <2>1, NotePieces DEF Published
  <2>3. old \in Path => Deprecated(vault.note[old], next) \in Note
    BY <1>4, <2>1, NotePieces, Numbers
  <2> QED  BY <2>1, <2>2, <2>3 DEF AcceptedNotes
<1>7. (vault.index \ {old}) \cup {next} \in SUBSET Path  BY <1>4, Shapes
<1> QED  BY <1>1, <1>2, <1>3, <1>4, <1>5, <1>6, <1>7

LEMMA RejectTakes ==
  ASSUME TypeOK, NEW c \in Candidate, RejectBegins(c)
  PROVE  \E old \in {NoPath} \cup Path :
           /\ old \in Olds(review[c])
           /\ Begins(c, "rejected", old, NoPath, RejectedNotes(old), vault.index \ {old})
           /\ RejectedNotes(old) \in [Path -> Note] /\ vault.index \ {old} \in SUBSET Path
           /\ job = NoJob
           /\ UNCHANGED <<now, vault, evidence, review, interrupts, torn>>
<1>1. PICK old \in Olds(review[c]) :
        Begins(c, "rejected", old, NoPath, RejectedNotes(old), vault.index \ {old})
  BY DEF RejectBegins, RejectedNotes
<1>2. old \in {NoPath} \cup Path  BY OldTyped
<1>3. RejectedNotes(old) \in [Path -> Note]
  <2>1. vault.note \in [Path -> Note]  BY Shapes
  <2>2. \A note \in Note : note.by \in 0 .. MaxTime  BY DEF Note
  <2>3. old \in Path => Deprecated(vault.note[old], vault.note[old].by) \in Note
    BY <2>1, <2>2, NotePieces
  <2> QED  BY <2>1, <2>3 DEF RejectedNotes
<1>4. vault.index \ {old} \in SUBSET Path  BY Shapes
<1>5. job = NoJob /\ UNCHANGED <<now, vault, evidence, review, interrupts, torn>>
  BY DEF RejectBegins
<1> QED  BY <1>1, <1>2, <1>3, <1>4, <1>5

Reviews == [state : {"none", "proposed", "promoted", "rejected"},
            revision : 0 .. MaxRevision, published : 0 .. MaxRevision,
            path : 0 .. MaxTime, pending : 0 .. MaxTime,
            hash : Note, basis : Note, cited : 0 .. 2]

LEMMA InitTypeOK == Init => TypeOK
<1> SUFFICES ASSUME Init PROVE TypeOK  OBVIOUS
<1>1. now \in Path  BY Numbers DEF Init
<1>2. vault \in Vault
  <2> DEFINE notes == [p \in Path |-> IF p \in Foreign THEN Fact(Nobody, 0) ELSE NoNote]
  <2>1. notes \in [Path -> Note]  BY NotePieces
  <2>2. vault = [NoVault EXCEPT !.note = notes, !.index = Foreign]  BY DEF Init
  <2> HIDE DEF notes
  <2> QED  BY <2>1, <2>2, NoVaultTyped, PublicationAssumption DEF Vault
<1>3. evidence \in [Candidate -> 0 .. 2]  BY DEF Init, InCatalogue
<1>4. review \in [Candidate -> Reviews]
  BY NotePieces, PublicationAssumption DEF Init, Reviews, NoReview, NoPath
<1>5. torn \in [Candidate -> [to : {"none", "promoted", "rejected"}, undone : BOOLEAN]]
  BY DEF Init, Whole
<1> QED
  BY <1>1, <1>2, <1>3, <1>4, <1>5, NoJobTyped, PublicationAssumption DEF Init, TypeOK, Reviews

LEMMA ProposeTyped ==
  ASSUME TypeOK, NEW c \in Candidate, NEW basis \in Inspected, Propose(c, basis)
  PROVE  review' \in [Candidate -> Reviews]
<1>1. basis \in Note  BY NotePieces, Shapes DEF Inspected
<1>2. review[c].revision + 1 \in 0 .. MaxRevision
  BY Shapes, PublicationAssumption DEF Propose
<1>3. 0 \in 0 .. MaxTime  BY PublicationAssumption
<1> QED  BY <1>1, <1>2, <1>3 DEF Propose, TypeOK, Reviews, NoPath

LEMMA ReservesTyped ==
  ASSUME TypeOK, NEW c \in Candidate, NEW old \in {NoPath} \cup Path, NEW next \in Path,
         Reserves(c, old, next)
  PROVE  /\ review' \in [Candidate -> Reviews]
         /\ \A d \in Candidate \ {c} : review'[d] = review[d]
         /\ review'[c].state = review[c].state /\ review'[c].revision = review[c].revision
         /\ review'[c].basis = review[c].basis
         /\ review[c].pending # NoPath => review'[c] = review[c]
         /\ review[c].pending = NoPath => review'[c].path = old /\ review'[c].pending = next
<1>1. review \in [Candidate -> Reviews]  BY DEF TypeOK, Reviews
<1>2. CASE review[c].pending # NoPath  BY <1>1, <1>2 DEF Reserves
<1>3. CASE review[c].pending = NoPath
  <2> DEFINE hash == IF old # NoPath THEN vault.note[old] ELSE review[c].hash
  <2>1. hash \in Note /\ old \in 0 .. MaxTime /\ next \in 0 .. MaxTime
    BY <1>1, Shapes, Numbers DEF Reviews
  <2>2. review' = [review EXCEPT ![c].path = old, ![c].pending = next, ![c].hash = hash]
    BY <1>3 DEF Reserves
  <2> HIDE DEF hash
  <2> QED  BY <1>1, <1>3, <2>1, <2>2 DEF Reviews
<1> QED  BY <1>2, <1>3

\* The end of a publication, as its review then stands.
LEMMA FinishesTakes ==
  ASSUME TypeOK, job.of \in Candidate, job.state \in {"promoted", "rejected"}, Finishes
  PROVE  LET c == job.of
             path == IF job.state = "promoted" THEN job.next ELSE job.old
         IN /\ review' \in [Candidate -> Reviews]
            /\ \A d \in Candidate \ {c} : review'[d] = review[d] /\ torn'[d] = torn[d]
            /\ review'[c].state = job.state /\ review'[c].path = path
            /\ review'[c].pending = NoPath /\ review'[c].revision = review[c].revision
            /\ review'[c].basis = review[c].basis
            /\ torn'[c] = Whole
            /\ torn' \in [Candidate -> [to : {"none", "promoted", "rejected"}, undone : BOOLEAN]]
            /\ astray' = IF job.state = "rejected" /\ LetsGo(c) THEN astray \cup {c} ELSE astray
            /\ job.pc = "writing" /\ job.todo = {} /\ job' = NoJob
            /\ UNCHANGED <<now, vault, evidence, interrupts>>
<1> DEFINE c == job.of
           path == IF job.state = "promoted" THEN job.next ELSE job.old
           hash == IF path # NoPath THEN job.new.note[path] ELSE review[c].hash
           published == IF job.state = "promoted" THEN review[c].revision ELSE review[c].published
<1>1. review \in [Candidate -> Reviews] /\ c \in Candidate  BY DEF TypeOK, Reviews
<1>2. /\ hash \in Note /\ path \in 0 .. MaxTime /\ published \in 0 .. MaxRevision
      /\ NoPath \in 0 .. MaxTime
  BY <1>1, Shapes, Numbers DEF Reviews
<1>3. review' = [review EXCEPT ![c].state = job.state, ![c].path = path, ![c].pending = NoPath,
                               ![c].published = published, ![c].hash = hash]
  BY DEF Finishes
<1>4. /\ torn' = [torn EXCEPT ![c] = Whole]
      /\ astray' = IF job.state = "rejected" /\ LetsGo(c) THEN astray \cup {c} ELSE astray
      /\ job.pc = "writing" /\ job.todo = {} /\ job' = NoJob
      /\ UNCHANGED <<now, vault, evidence, interrupts>>
  BY DEF Finishes
<1>5. torn \in [Candidate -> [to : {"none", "promoted", "rejected"}, undone : BOOLEAN]]
  BY DEF TypeOK
<1> HIDE DEF c, path, hash, published
<1>6. /\ review' \in [Candidate -> Reviews]
      /\ \A d \in Candidate \ {c} : review'[d] = review[d]
      /\ review'[c].state = job.state /\ review'[c].path = path
      /\ review'[c].pending = NoPath /\ review'[c].revision = review[c].revision
      /\ review'[c].basis = review[c].basis
  <2> DEFINE r == [review[c] EXCEPT !.state = job.state, !.path = path, !.pending = NoPath,
                                    !.published = published, !.hash = hash]
  <2>1. review' = [review EXCEPT ![c] = r]  BY <1>1, <1>3
  <2>2. review[c] \in Reviews  BY <1>1
  <2>3. r \in Reviews  BY <1>2, <2>2 DEF Reviews
  <2>4. /\ r.state = job.state /\ r.path = path /\ r.pending = NoPath
        /\ r.revision = review[c].revision /\ r.basis = review[c].basis
    BY <2>2 DEF Reviews
  <2> HIDE DEF r
  <2> QED  BY <1>1, <2>1, <2>3, <2>4
<1>7. /\ \A d \in Candidate \ {c} : torn'[d] = torn[d]
      /\ torn'[c] = Whole
      /\ torn' \in [Candidate -> [to : {"none", "promoted", "rejected"}, undone : BOOLEAN]]
  BY <1>1, <1>4, <1>5 DEF Whole
<1> QED  BY <1>4, <1>6, <1>7 DEF c, path

-----------------------------------------------------------------------------
(* Between publications.                                                     *)

\* A change of the vault the reviews do not notice.
LEMMA Unnoticed ==
  ASSUME TypeOK, Rests(vault), UNCHANGED <<now, review, torn, astray>>,
         vault'.index = vault.index,
         \A p \in Path : /\ vault'.note[p].of = vault.note[p].of
                         /\ vault'.note[p].status = vault.note[p].status
                         /\ vault'.note[p].revision = vault.note[p].revision
                         /\ vault'.note[p] = NoNote <=> vault.note[p] = NoNote
  PROVE  Rests(vault)'
<1> SUFFICES ASSUME NEW c \in Candidate \ astray
             PROVE  Named(c, vault)' /\ Known(c, vault)' /\ Single(c, vault)' /\ Says(c, vault)'
  BY DEF Rests
<1>1. review[c].path \in {NoPath} \cup Path /\ review[c].pending \in {NoPath} \cup Path
  BY Shapes
<1>2. Named(c, vault) /\ Known(c, vault) /\ Single(c, vault) /\ Says(c, vault)
  BY DEF Rests
<1>3. Named(c, vault)'  BY <1>1, <1>2 DEF Named
<1>4. Known(c, vault)'  BY <1>2 DEF Known
<1>5. Single(c, vault)'  BY <1>2 DEF Single
<1>6. Says(c, vault)'  BY <1>1, <1>2 DEF Says
<1> QED  BY <1>3, <1>4, <1>5, <1>6

\* A publication under way begins from a vault that stays what it was; one whose rollback
\* failed has less to keep.
LEMMA BackupStays ==
  ASSUME Rests(job.backup), UNCHANGED <<now, review, astray>>, job'.backup = job.backup,
         \A d \in Candidate : torn'[d] = torn[d] \/ (torn'[d].undone /\ torn'[d] # Whole)
  PROVE  Rests(job.backup)'
<1> SUFFICES ASSUME NEW c \in Candidate \ astray
             PROVE  /\ Named(c, job.backup)' /\ Known(c, job.backup)'
                    /\ Single(c, job.backup)' /\ Says(c, job.backup)'
  BY DEF Rests
<1>1. /\ Named(c, job.backup) /\ Known(c, job.backup)
      /\ Single(c, job.backup) /\ Says(c, job.backup)
      /\ torn'[c] = torn[c] \/ (torn'[c].undone /\ torn'[c] # Whole)
  BY DEF Rests
<1>2. Named(c, job.backup)'  BY <1>1 DEF Named
<1>3. Known(c, job.backup)'  BY <1>1 DEF Known
<1>4. Single(c, job.backup)'  BY <1>1 DEF Single
<1>5. Says(c, job.backup)'  BY <1>1 DEF Says
<1> QED  BY <1>2, <1>3, <1>4, <1>5

\* Nothing is written yet: the vault is the one it begins from.
LEMMA NothingWritten ==
  ASSUME job'.todo = job'.files, job'.files \subseteq File, job'.backup = vault,
         job'.pc = "writing", UNCHANGED vault
  PROVE  Between'
BY DEF Between

LEMMA SourceChangesKeeps ==
  ASSUME PublicationInv, NEW c \in Candidate, SourceChanges(c)
  PROVE  PublicationInv'
<1>1. TypeOK /\ TypeOK'  BY DEF PublicationInv, SourceChanges, TypeOK
<1>2. UNCHANGED <<now, vault, review, job, interrupts, torn, astray>>  BY DEF SourceChanges
<1>3. job.state \in {"none", "marked"} => Rests(vault)'
  BY <1>1, <1>2, Unnoticed DEF PublicationInv
<1>4. job.state \in {"promoted", "rejected"} => Rests(job.backup)'
  BY <1>2, BackupStays DEF PublicationInv
<1>5. /\ job # NoJob => Between'
      /\ job.state = "marked" => Marking'
      /\ job.state \in {"promoted", "rejected"} =>
           Plans' /\ (job.of \notin astray => Planned')
  BY <1>2 DEF PublicationInv, Between, Marking, Alike, Plans, Planned
<1> QED  BY <1>1, <1>2, <1>3, <1>4, <1>5 DEF PublicationInv

LEMMA MarkSourceDriftKeeps ==
  ASSUME PublicationInv, NEW c \in Candidate, MarkSourceDrift(c)
  PROVE  PublicationInv'
<1> DEFINE live == {p \in Path : vault.note[p].of = c /\ Live(p)}
           notes == [p \in Path |-> IF p \in live THEN [vault.note[p] EXCEPT !.marked = TRUE]
                                    ELSE vault.note[p]]
           new == [vault EXCEPT !.note = notes]
<1>1. /\ TypeOK /\ job = NoJob /\ Starts(c, "marked", NoPath, NoPath, live, new)
      /\ UNCHANGED <<now, vault, evidence, review, interrupts, torn, astray>>
  BY DEF PublicationInv, MarkSourceDrift
<1>2. Rests(vault) /\ vault \in Vault /\ vault.note \in [Path -> Note]
  BY <1>1, Shapes, NoJobTyped DEF PublicationInv
<1>3. notes \in [Path -> Note]  BY <1>2, NotePieces
<1>4. \A p \in Path : Alike(notes[p], vault.note[p])
  <2> TAKE p \in Path
  <2>1. CASE p \notin live  BY <2>1 DEF Alike
  <2>2. CASE p \in live
    <3>1. notes[p] = [vault.note[p] EXCEPT !.marked = TRUE] /\ vault.note[p] \in Note
      BY <1>2, <2>2
    <3>2. vault.note[p].status = "stable"  BY <2>2 DEF Live
    <3>3. /\ notes[p].status = "stable" /\ notes[p].of = vault.note[p].of
          /\ notes[p].revision = vault.note[p].revision /\ notes[p].marked = TRUE
      BY <3>1, <3>2 DEF Note
    <3>4. NoNote.status = "absent"  BY DEF NoNote
    <3>5. notes[p] # NoNote /\ vault.note[p] # NoNote  BY <3>2, <3>3, <3>4
    <3> QED  BY <3>2, <3>3, <3>5 DEF Alike
  <2> QED  BY <2>1, <2>2
<1>5. live \subseteq Path /\ live \in SUBSET File  BY Numbers
<1> HIDE DEF notes, live
<1>6. new \in Vault /\ new.note = notes /\ new.index = vault.index
  BY <1>2, <1>3 DEF Vault
<1> HIDE DEF new
<1>7. /\ job'.pc = "writing" /\ job'.of = c /\ job'.state = "marked"
      /\ job'.todo = live /\ job'.files = live /\ job'.backup = vault
      /\ job'.new = new /\ job' # NoJob
      /\ job' \in [pc : {"idle", "writing", "undoing"}, of : Candidate \cup {Nobody},
              state : {"none", "promoted", "rejected", "marked"}, old : 0 .. MaxTime,
              next : 0 .. MaxTime, files : SUBSET File, todo : SUBSET File,
              new : Vault, backup : Vault]
  <2>1. NoPath \in {NoPath} \cup Path /\ "marked" \in {"promoted", "rejected", "marked"}  OBVIOUS
  <2> QED  BY <1>1, <1>5, <1>6, <2>1, StartsTyped
<1>8. Rests(vault)'  BY <1>1, <1>2, Unnoticed
<1>9. TypeOK'  BY <1>1, <1>7 DEF TypeOK
<1>10. Marking'  BY <1>4, <1>5, <1>6, <1>7 DEF Marking, Alike
<1>11. Between'  BY <1>1, <1>5, <1>7, NothingWritten
<1> QED  BY <1>7, <1>8, <1>9, <1>10, <1>11 DEF PublicationInv

LEMMA StageMemoryKeeps ==
  ASSUME PublicationInv, NEW c \in Candidate, StageMemory(c)
  PROVE  PublicationInv'
<1>1. /\ TypeOK /\ job = NoJob /\ vault \in Vault
      /\ UNCHANGED <<now, evidence, review, job, interrupts, torn, astray>>
  BY Shapes DEF PublicationInv, StageMemory
<1>2. vault' \in Vault /\ vault'.note = vault.note /\ vault'.index = vault.index
  <2>1. vault' = [vault EXCEPT !.draft[c][review[c].revision] = "draft"]  BY DEF StageMemory
  <2> QED  BY <1>1, <2>1 DEF Vault
<1>3. Rests(vault)  BY <1>1, NoJobTyped DEF PublicationInv
<1>4. Rests(vault)'  BY <1>1, <1>2, <1>3, Unnoticed
<1>5. TypeOK'  BY <1>1, <1>2 DEF TypeOK
<1> QED  BY <1>1, <1>4, <1>5, NoJobTyped DEF PublicationInv

LEMMA ProposeKeeps ==
  ASSUME PublicationInv, NEW c \in Candidate, NEW basis \in Inspected, Propose(c, basis)
  PROVE  PublicationInv'
<1>1. /\ TypeOK /\ job.state \in {"none", "marked"} /\ Rests(vault)
      /\ UNCHANGED <<now, vault, evidence, job, interrupts, torn>>
      /\ astray' = IF LetsGo(c) THEN astray \cup {c} ELSE astray
  BY DEF PublicationInv, Propose
<1>2. review' \in [Candidate -> Reviews]  BY <1>1, ProposeTyped
<1>3. TypeOK'  BY <1>1, <1>2 DEF TypeOK, Reviews
<1>4. /\ \A d \in Candidate \ {c} : review'[d] = review[d]
      /\ review'[c].state = "proposed" /\ review'[c].path = review[c].path
      /\ review'[c].pending = NoPath /\ review'[c].basis = basis
  BY <1>1 DEF Propose, TypeOK
<1>5. ASSUME NEW d \in Candidate \ astray'
      PROVE  Named(d, vault)' /\ Known(d, vault)' /\ Single(d, vault)' /\ Says(d, vault)'
  <2>1. d \notin astray /\ Named(d, vault) /\ Known(d, vault) /\ Single(d, vault) /\ Says(d, vault)
    BY <1>1 DEF Rests
  <2>2. CASE d # c
    <3>1. Named(d, vault)'  BY <1>1, <1>4, <2>1, <2>2 DEF Named
    <3>2. Known(d, vault)'  BY <1>1, <1>4, <2>1, <2>2 DEF Known
    <3>3. Single(d, vault)'  BY <1>1, <1>4, <2>1, <2>2 DEF Single
    <3>4. Says(d, vault)'  BY <1>1, <1>4, <2>1, <2>2 DEF Says
    <3> QED  BY <3>1, <3>2, <3>3, <3>4
  <2>3. CASE d = c
    <3>1. ~LetsGo(c)  BY <1>1, <2>3
    <3>2. \A p \in Path : vault.note[p].of = c => p # review[c].pending
      BY <3>1, Numbers DEF LetsGo
    <3>3. Named(c, vault)'
      <4>1. review[c].path = NoPath => \A p \in Path : vault.note[p].of # c
        BY <2>1, <2>3, <3>2 DEF Named
      <4>2. review[c].path = NoPath => basis.of # c
        BY <4>1, PublicationAssumption DEF Inspected, NoNote
      <4> QED  BY <1>1, <1>4, <2>1, <2>3, <4>1, <4>2 DEF Named
    <3>4. Known(c, vault)'  BY <1>1, <1>4, <2>1, <2>3, <3>2 DEF Known
    <3>5. Single(c, vault)'  BY <1>1, <2>1, <2>3 DEF Single
    <3>6. Says(c, vault)'  BY <1>4 DEF Says
    <3> QED  BY <2>3, <3>3, <3>4, <3>5, <3>6
  <2> QED  BY <2>2, <2>3
<1>6. Rests(vault)'  BY <1>5 DEF Rests
<1>7. job # NoJob => Between'  BY <1>1 DEF PublicationInv, Between
<1>8. job.state = "marked" => Marking'  BY <1>1 DEF PublicationInv, Marking, Alike
<1> QED  BY <1>1, <1>3, <1>6, <1>7, <1>8 DEF PublicationInv

-----------------------------------------------------------------------------
(* A publication begins.                                                     *)

LEMMA AcceptBeginsKeeps ==
  ASSUME PublicationInv, NEW c \in Candidate, AcceptBegins(c)
  PROVE  PublicationInv'
<1>1. TypeOK /\ job = NoJob /\ Rests(vault)
  BY NoJobTyped DEF PublicationInv, AcceptBegins
<1>2. PICK old \in {NoPath} \cup Path, next \in Path :
           /\ old \in Olds(review[c]) /\ Reserves(c, old, next)
           /\ Begins(c, "promoted", old, next, AcceptedNotes(c, old, next),
                     (vault.index \ {old}) \cup {next})
           /\ AcceptedNotes(c, old, next) \in [Path -> Note]
           /\ (vault.index \ {old}) \cup {next} \in SUBSET Path
           /\ vault.note[next] # NoNote =>
                vault.note[next].of = c /\ vault.note[next].revision = review[c].revision
           /\ review[c].pending # NoPath => next = review[c].pending
           /\ review[c].pending = NoPath =>
                /\ vault.note[next] = NoNote /\ now' <= next
                /\ \A q \in Path : now' <= q /\ q < next => vault.note[q] # NoNote
           /\ now' \in Path /\ now <= now' /\ job = NoJob /\ review[c].state = "proposed"
           /\ UNCHANGED <<vault, evidence, interrupts, torn>>
  BY <1>1, AcceptTakes
<1> DEFINE notes == AcceptedNotes(c, old, next)
           index == (vault.index \ {old}) \cup {next}
<1>3. /\ job'.pc = "writing" /\ job'.of = c /\ job'.state = "promoted" /\ job'.old = old
      /\ job'.next = next /\ job'.todo = job'.files /\ job'.backup = vault
      /\ job'.files = {Draft, Index} \cup ({old, next} \ {NoPath})
      /\ job'.new.note = notes /\ job'.new.index = index /\ job' # NoJob
      /\ job' \in [pc : {"idle", "writing", "undoing"}, of : Candidate \cup {Nobody},
              state : {"none", "promoted", "rejected", "marked"}, old : 0 .. MaxTime,
              next : 0 .. MaxTime, files : SUBSET File, todo : SUBSET File,
              new : Vault, backup : Vault]
      /\ astray' = astray \cup TakenFrom(c, old)
  BY <1>1, <1>2, JobTyped
<1>4. /\ review' \in [Candidate -> Reviews]
      /\ \A d \in Candidate \ {c} : review'[d] = review[d]
      /\ review'[c].state = "proposed" /\ review'[c].revision = review[c].revision
      /\ review'[c].basis = review[c].basis
      /\ review[c].pending # NoPath => review'[c] = review[c]
      /\ review[c].pending = NoPath => review'[c].path = old /\ review'[c].pending = next
  BY <1>1, <1>2, ReservesTyped
<1>5. next # NoPath /\ next \in Path  BY <1>2, Numbers
<1>6. astray' \subseteq Candidate
      /\ (old # NoPath => vault.note[old].of \in {c, Nobody} \cup astray')
  <2>1. old # NoPath => vault.note[old] \in Note  BY <1>1, <1>2, Shapes
  <2>2. old # NoPath => vault.note[old].of \in Candidate \cup {Nobody}  BY <2>1 DEF Note
  <2> QED  BY <1>1, <1>3, <2>2 DEF TakenFrom, TypeOK
<1>7. TypeOK'  BY <1>1, <1>2, <1>3, <1>4, <1>6, Shapes DEF TypeOK, Reviews
<1>8. /\ notes[next].of = c /\ notes[next] # NoNote
      /\ vault.note[next] \in {NoNote, notes[next]}
      /\ notes[next].revision = review[c].revision
      /\ vault.note[next] = NoNote => notes[next].status = "stable"
  <2>1. notes[next] = Published(c, review[c], next)  BY <1>2 DEF AcceptedNotes
  <2>2. CASE vault.note[next] = NoNote  BY <2>1, <2>2 DEF Published, Fact, NoNote
  <2>3. CASE vault.note[next] # NoNote  BY <1>2, <2>1, <2>3 DEF Published
  <2> QED  BY <2>2, <2>3
<1>9. old # NoPath /\ old # next =>
        /\ notes[old].of = vault.note[old].of /\ notes[old].status = "deprecated"
        /\ notes[old] # NoNote
  <2> SUFFICES ASSUME old # NoPath, old # next
               PROVE  /\ notes[old].of = vault.note[old].of /\ notes[old].status = "deprecated"
                      /\ notes[old] # NoNote
    OBVIOUS
  <2>1. old \in Path /\ vault.note[old] \in Note  BY <1>1, <1>2, Shapes
  <2>2. notes[old] = Deprecated(vault.note[old], next)  BY <2>1 DEF AcceptedNotes
  <2>3. notes[old].of = vault.note[old].of /\ notes[old].status = "deprecated"
    BY <2>1, <2>2 DEF Deprecated, Note
  <2> QED  BY <2>3 DEF NoNote
<1>10. \A p \in Path \ {old, next} : notes[p] = vault.note[p]  BY DEF AcceptedNotes
<1>11. index = (vault.index \ {old}) \cup ({next} \ {NoPath})  BY <1>5
<1>12. job'.files \subseteq File  BY <1>2, <1>3, Numbers
<1>13. Between'  BY <1>2, <1>3, <1>12, NothingWritten
<1>14. NoNote.of = Nobody  BY DEF NoNote
<1>15. ASSUME c \notin astray'
       PROVE  /\ Named(c, job.backup)' /\ Known(c, job.backup)' /\ Single(c, job.backup)'
              /\ Says(c, job.backup)' /\ Planned'
  <2>1. Named(c, vault) /\ Known(c, vault) /\ Single(c, vault)  BY <1>1, <1>3, <1>15 DEF Rests
  <2>2. /\ review[c].path # NoPath \/ review[c].pending # NoPath => old = review[c].path
        /\ old = NoPath => review[c].path = NoPath /\ review[c].basis = NoNote
        /\ old # NoPath => vault.note[old] # NoNote
        /\ old # NoPath /\ vault.note[old].of = c => old = review[c].path
    BY <1>1, <1>2, <2>1, OldIs
  <2>3. review'[c].path = old /\ review'[c].pending = next  BY <1>2, <1>4, <2>2
  <2>4. /\ next # old
        /\ old # NoPath /\ vault.note[old].of = c => old < next
    <3>1. CASE review[c].pending # NoPath
      BY <1>2, <2>1, <2>2, <3>1, Numbers DEF Named
    <3>2. CASE review[c].pending = NoPath
      <4>1. vault.note[next] = NoNote /\ now' <= next /\ now <= next
        BY <1>1, <1>2, <3>2, Shapes, Numbers
      <4>2. ASSUME old # NoPath, vault.note[old].of = c PROVE old < next
        <5>1. \A q \in Path : now <= q /\ q <= old => vault.note[q] # NoNote
          BY <2>1, <2>2, <4>2 DEF Named
        <5> QED  BY <1>2, <4>1, <4>2, <5>1, Numbers
      <4> QED  BY <1>2, <2>2, <4>1, <4>2, Numbers
    <3> QED  BY <3>1, <3>2
  <2>5. vault.note[next].of = c => vault.note[next].status = "stable"
    <3>1. CASE review[c].pending # NoPath  BY <1>2, <2>1, <3>1 DEF Named
    <3>2. CASE review[c].pending = NoPath
      BY <1>2, <1>14, <3>2, PublicationAssumption
    <3> QED  BY <3>1, <3>2
  <2>6. Named(c, job.backup)'
    <3>1. \A q \in Path : now' <= q /\ q < next => vault.note[q] # NoNote
      BY <1>1, <1>2, <2>1, Shapes, Numbers DEF Named
    <3>2. \A q \in Path : old # NoPath /\ vault.note[old].of = c /\ now' <= q /\ q <= old =>
            vault.note[q] # NoNote
      BY <1>1, <1>2, <2>1, <2>2, Shapes, Numbers DEF Named
    <3>3. old = NoPath => review[c].basis.of # c /\ review[c].basis = NoNote
      BY <1>14, <2>2, PublicationAssumption
    <3>4. old = NoPath => \A p \in Path : vault.note[p].of = c => p = next
      <4> SUFFICES ASSUME old = NoPath, NEW p \in Path, vault.note[p].of = c PROVE p = next
        OBVIOUS
      <4>1. p = review[c].pending  BY <2>1, <2>2 DEF Named
      <4> QED  BY <1>2, <4>1, Numbers
    <3> QED  BY <1>3, <1>4, <1>5, <2>2, <2>3, <2>4, <2>5, <3>1, <3>2, <3>3, <3>4 DEF Named
  <2>7. review[c].pending = NoPath \/ review[c].pending = next  BY <1>2
  <2>8. review[c].path = NoPath \/ review[c].path = old  BY <2>2
  <2>9. Known(c, job.backup)'  BY <1>3, <2>1, <2>3, <2>7, <2>8, Numbers DEF Known
  <2>10. Single(c, job.backup)'  BY <1>2, <1>3, <2>1 DEF Single
  <2>11. Says(c, job.backup)'  BY <1>4 DEF Says
  <2>12. notes[next].status = "stable"
    BY <1>8, <2>5
  <2> HIDE DEF notes, index
  <2>13. Planned'
    BY <1>3, <1>4, <1>5, <1>8, <1>9, <2>2, <2>3, <2>4, <2>12 DEF Planned
  <2> QED  BY <2>6, <2>9, <2>10, <2>11, <2>13
<1>16. ASSUME NEW d \in Candidate \ astray', d # c
       PROVE  /\ Named(d, job.backup)' /\ Known(d, job.backup)' /\ Single(d, job.backup)'
              /\ Says(d, job.backup)'
  <2>1. /\ Named(d, vault) /\ Known(d, vault) /\ Single(d, vault) /\ Says(d, vault)
        /\ review'[d] = review[d]
    BY <1>1, <1>3, <1>4, <1>16 DEF Rests
  <2>2. Named(d, job.backup)'
    BY <1>1, <1>2, <1>3, <2>1, Shapes, Numbers DEF Named
  <2>3. Known(d, job.backup)'  BY <1>3, <2>1 DEF Known
  <2>4. Single(d, job.backup)'  BY <1>2, <1>3, <2>1 DEF Single
  <2>5. Says(d, job.backup)'  BY <1>2, <1>3, <2>1 DEF Says
  <2> QED  BY <2>2, <2>3, <2>4, <2>5
<1>17. Rests(job.backup)'  BY <1>15, <1>16 DEF Rests
<1> HIDE DEF notes, index
<1>18. Plans'
  <2>1. ASSUME NEW p \in Path \cap {old, next}
        PROVE  /\ {vault.note[p].of, notes[p].of} \subseteq {c, Nobody} \cup astray'
               /\ notes[p] # NoNote
               /\ notes[p].status = "deprecated" \/ vault.note[p] \in {NoNote, notes[p]}
    <3>1. CASE p = next  BY <1>8, <1>14, <3>1
    <3>2. CASE p # next /\ p = old  BY <1>6, <1>9, <3>2, Numbers
    <3> QED  BY <3>1, <3>2
  <2> QED  BY <1>3, <1>10, <1>11, <2>1 DEF Plans
<1> QED  BY <1>3, <1>7, <1>13, <1>15, <1>17, <1>18 DEF PublicationInv

LEMMA RejectBeginsKeeps ==
  ASSUME PublicationInv, NEW c \in Candidate, RejectBegins(c)
  PROVE  PublicationInv'
<1>1. TypeOK /\ job = NoJob /\ Rests(vault)
  BY NoJobTyped DEF PublicationInv, RejectBegins
<1>2. PICK old \in {NoPath} \cup Path :
           /\ old \in Olds(review[c])
           /\ Begins(c, "rejected", old, NoPath, RejectedNotes(old), vault.index \ {old})
           /\ RejectedNotes(old) \in [Path -> Note] /\ vault.index \ {old} \in SUBSET Path
           /\ job = NoJob
           /\ UNCHANGED <<now, vault, evidence, review, interrupts, torn>>
  BY <1>1, RejectTakes
<1> DEFINE notes == RejectedNotes(old)
           index == vault.index \ {old}
<1>3. /\ job'.pc = "writing" /\ job'.of = c /\ job'.state = "rejected" /\ job'.old = old
      /\ job'.next = NoPath /\ job'.todo = job'.files /\ job'.backup = vault
      /\ job'.files = {Draft, Index} \cup ({old, NoPath} \ {NoPath})
      /\ job'.new.note = notes /\ job'.new.index = index /\ job' # NoJob
      /\ job' \in [pc : {"idle", "writing", "undoing"}, of : Candidate \cup {Nobody},
              state : {"none", "promoted", "rejected", "marked"}, old : 0 .. MaxTime,
              next : 0 .. MaxTime, files : SUBSET File, todo : SUBSET File,
              new : Vault, backup : Vault]
      /\ astray' = astray \cup TakenFrom(c, old)
  BY <1>1, <1>2, JobTyped
<1>4. astray' \subseteq Candidate
      /\ (old # NoPath => vault.note[old].of \in {c, Nobody} \cup astray')
  <2>1. old # NoPath => vault.note[old] \in Note  BY <1>1, <1>2, Shapes
  <2>2. old # NoPath => vault.note[old].of \in Candidate \cup {Nobody}  BY <2>1 DEF Note
  <2> QED  BY <1>1, <1>3, <2>2 DEF TakenFrom, TypeOK
<1>5. TypeOK'  BY <1>1, <1>2, <1>3, <1>4 DEF TypeOK
<1>6. Rests(job.backup)'
  <2> SUFFICES ASSUME NEW d \in Candidate \ astray'
               PROVE  /\ Named(d, job.backup)' /\ Known(d, job.backup)' /\ Single(d, job.backup)'
                      /\ Says(d, job.backup)'
    BY DEF Rests
  <2>1. Named(d, vault) /\ Known(d, vault) /\ Single(d, vault) /\ Says(d, vault)
    BY <1>1, <1>3 DEF Rests
  <2>2. Named(d, job.backup)'  BY <1>2, <1>3, <2>1 DEF Named
  <2>3. Known(d, job.backup)'  BY <1>2, <1>3, <2>1 DEF Known
  <2>4. Single(d, job.backup)'  BY <1>2, <1>3, <2>1 DEF Single
  <2>5. Says(d, job.backup)'  BY <1>2, <1>3, <2>1 DEF Says
  <2> QED  BY <2>2, <2>3, <2>4, <2>5
<1>7. old # NoPath =>
        /\ notes[old].of = vault.note[old].of /\ notes[old].status = "deprecated"
        /\ notes[old] # NoNote
  <2> SUFFICES ASSUME old # NoPath
               PROVE  /\ notes[old].of = vault.note[old].of /\ notes[old].status = "deprecated"
                      /\ notes[old] # NoNote
    OBVIOUS
  <2>1. old \in Path /\ vault.note[old] \in Note  BY <1>1, <1>2, Shapes
  <2>2. notes[old] = Deprecated(vault.note[old], vault.note[old].by)  BY <2>1 DEF RejectedNotes
  <2>3. notes[old].of = vault.note[old].of /\ notes[old].status = "deprecated"
    BY <2>1, <2>2 DEF Deprecated, Note
  <2> QED  BY <2>3 DEF NoNote
<1>8. \A p \in Path \ {old, NoPath} : notes[p] = vault.note[p]  BY DEF RejectedNotes
<1>9. index = (vault.index \ {old}) \cup ({NoPath} \ {NoPath})  OBVIOUS
<1> HIDE DEF notes, index
<1>10. Plans'
  <2>1. ASSUME NEW p \in Path \cap {old, NoPath}
        PROVE  /\ {vault.note[p].of, notes[p].of} \subseteq {c, Nobody} \cup astray'
               /\ notes[p] # NoNote /\ notes[p].status = "deprecated"
    BY <1>4, <1>7, <2>1, Numbers
  <2> QED  BY <1>3, <1>8, <1>9, <2>1 DEF Plans
<1>11. ASSUME c \notin astray' PROVE Planned'
  <2>1. Named(c, vault)  BY <1>1, <1>3, <1>11 DEF Rests
  <2>2. /\ review[c].path # NoPath => old = review[c].path
        /\ old = NoPath => review[c].path = NoPath
        /\ old # NoPath => vault.note[old] # NoNote
        /\ old # NoPath /\ vault.note[old].of = c => old = review[c].path
    BY <1>1, <1>2, <2>1, OldIs
  <2> QED  BY <1>2, <1>3, <1>7, <2>2 DEF Planned
<1>12. job'.files \subseteq File  BY <1>2, <1>3, Numbers
<1>13. Between'  BY <1>2, <1>3, <1>12, NothingWritten
<1> QED  BY <1>3, <1>5, <1>6, <1>10, <1>11, <1>13 DEF PublicationInv

-----------------------------------------------------------------------------
(* A publication goes on.                                                    *)

\* Another step of the same publication, or of the same marking.
LEMMA GoesOn ==
  ASSUME PublicationInv, job # NoJob, UNCHANGED <<now, evidence, review, astray>>,
         torn' \in [Candidate -> [to : {"none", "promoted", "rejected"}, undone : BOOLEAN]],
         \A d \in Candidate : torn'[d] = torn[d] \/ (torn'[d].undone /\ torn'[d] # Whole),
         job.state = "marked" => UNCHANGED torn,
         interrupts' \in 0 .. MaxInterrupts, vault' \in Vault,
         NEW pc \in {"writing", "undoing"}, NEW todo \in SUBSET job.files,
         job' = [job EXCEPT !.pc = pc, !.todo = todo],
         Between'
  PROVE  PublicationInv'
<1>1. TypeOK /\ job.pc \in {"writing", "undoing"} /\ job.state # "none" /\ Between
  BY DEF PublicationInv, TypeOK
<1>2. job.files \subseteq File  BY <1>1, Shapes
<1>3. /\ job'.pc = pc /\ job'.of = job.of /\ job'.state = job.state /\ job'.old = job.old
      /\ job'.next = job.next /\ job'.files = job.files /\ job'.new = job.new
      /\ job'.backup = job.backup
  BY <1>1 DEF TypeOK
<1>4. TypeOK'  BY <1>1, <1>2 DEF TypeOK
<1>5. ASSUME job.state \in {"promoted", "rejected"}
      PROVE  Rests(job.backup)' /\ Plans' /\ (job.of \notin astray => Planned')
  <2>1. Rests(job.backup)'  BY <1>3, <1>5, BackupStays DEF PublicationInv
  <2>2. Plans'  BY <1>3, <1>5 DEF PublicationInv, Plans
  <2>3. job.of \notin astray => Planned'  BY <1>3, <1>5 DEF PublicationInv, Planned
  <2> QED  BY <2>1, <2>2, <2>3
<1>6. ASSUME job.state = "marked"
      PROVE  Rests(vault)' /\ Marking'
  <2>1. Rests(vault) /\ Marking  BY <1>6 DEF PublicationInv
  <2>2. Marking'  BY <1>3, <2>1 DEF Marking, Alike
  <2>3. \A p \in Path : vault.note[p] \in {job.backup.note[p], job.new.note[p]}
    BY <1>1, Numbers DEF Between
  <2>4. \A p \in Path : vault'.note[p] \in {job.backup.note[p], job.new.note[p]}
    BY <1>3, Numbers DEF Between
  <2>5. vault.index = job.backup.index
    BY <1>1, <2>1, Numbers DEF Between, Marking
  <2>6. vault'.index = job.backup.index
    BY <1>3, <2>1, Numbers DEF Between, Marking
  <2>7. \A p \in Path : /\ vault'.note[p].of = vault.note[p].of
                        /\ vault'.note[p].status = vault.note[p].status
                        /\ vault'.note[p].revision = vault.note[p].revision
                        /\ vault'.note[p] = NoNote <=> vault.note[p] = NoNote
    <3> TAKE p \in Path
    <3>1. Alike(job.new.note[p], job.backup.note[p])  BY <2>1 DEF Marking
    <3>2. /\ vault.note[p] \in {job.backup.note[p], job.new.note[p]}
          /\ vault'.note[p] \in {job.backup.note[p], job.new.note[p]}
      BY <2>3, <2>4
    <3> QED  BY <3>1, <3>2 DEF Alike
  <2>8. UNCHANGED <<now, review, torn, astray>>  BY <1>6
  <2>9. Rests(vault)'  BY <1>1, <2>1, <2>5, <2>6, <2>7, <2>8, Unnoticed
  <2> QED  BY <2>2, <2>9
<1>7. job' # NoJob  BY <1>3, Idles
<1>8. job.state \in {"promoted", "rejected", "marked"}  BY <1>1 DEF TypeOK
<1>9. job'.pc # "idle" /\ job'.state # "none" /\ Between'  BY <1>3, <1>8
<1>10. job'.state = "marked" => Rests(vault)' /\ Marking'  BY <1>3, <1>6
<1>11. job'.state \in {"promoted", "rejected"} =>
         Rests(job.backup)' /\ Plans' /\ (job.of \notin astray => Planned)'
  BY <1>3, <1>5
<1> QED  BY <1>3, <1>4, <1>8, <1>9, <1>10, <1>11 DEF PublicationInv

LEMMA Running ==
  ASSUME PublicationInv, job.pc # "idle"
  PROVE  /\ job # NoJob /\ TypeOK /\ Between
         /\ job.pc \in {"writing", "undoing"}
         /\ job.state \in {"promoted", "rejected", "marked"}
         /\ job.state # "marked" =>
              Rests(job.backup) /\ Plans /\ (job.of \notin astray => Planned)
         /\ job.state = "marked" => Marking /\ Rests(vault)
         /\ job.of \in Candidate
<1>1. job # NoJob /\ TypeOK /\ Between /\ job.state # "none"  BY Idles DEF PublicationInv
<1>2. job.pc \in {"writing", "undoing"} /\ job.state \in {"promoted", "rejected", "marked"}
  BY <1>1 DEF TypeOK
<1>3. /\ job.state # "marked" =>
           Rests(job.backup) /\ Plans /\ (job.of \notin astray => Planned)
      /\ job.state = "marked" => Marking /\ Rests(vault)
  BY <1>2 DEF PublicationInv
<1>4. job.of \in Candidate  BY <1>2, <1>3 DEF Plans, Marking
<1> QED  BY <1>1, <1>2, <1>3, <1>4

\* What a step that cuts a publication short says of it.
LEMMA CutShortIs ==
  ASSUME PublicationInv, job.pc # "idle", NEW undone \in BOOLEAN, CutShort(undone)
  PROVE  /\ torn' \in [Candidate -> [to : {"none", "promoted", "rejected"}, undone : BOOLEAN]]
         /\ job.state = "marked" => torn' = torn
         /\ \A d \in Candidate \ {job.of} : torn'[d] = torn[d]
         /\ job.state # "marked" =>
              /\ torn'[job.of] # Whole
              /\ undone => torn'[job.of].undone
              /\ ~torn'[job.of].undone => ~torn[job.of].undone /\ ~undone
<1>1. /\ job.of \in Candidate /\ job.state \in {"promoted", "rejected", "marked"}
      /\ torn \in [Candidate -> [to : {"none", "promoted", "rejected"}, undone : BOOLEAN]]
  BY Running DEF TypeOK
<1>2. CASE job.state = "marked"
  <2>1. torn' = torn  BY <1>2 DEF CutShort
  <2> QED  BY <1>1, <1>2, <2>1
<1>3. CASE job.state # "marked"
  <2> DEFINE all == torn[job.of].undone \/ undone
  <2>1. all \in BOOLEAN /\ (undone => all) /\ (~all => ~torn[job.of].undone /\ ~undone)
    BY <1>1
  <2>2. torn' = [torn EXCEPT ![job.of] = [to |-> job.state, undone |-> all]]
    BY <1>3 DEF CutShort
  <2> HIDE DEF all
  <2>3. torn'[job.of] = [to |-> job.state, undone |-> all]  BY <1>1, <2>2
  <2>4. torn'[job.of].to = job.state /\ torn'[job.of].undone = all  BY <2>3
  <2>5. Whole.to = "none"  BY DEF Whole
  <2>6. torn'[job.of] # Whole  BY <1>1, <2>4, <2>5
  <2>7. \A d \in Candidate \ {job.of} : torn'[d] = torn[d]  BY <1>1, <2>2
  <2>8. torn' \in [Candidate -> [to : {"none", "promoted", "rejected"}, undone : BOOLEAN]]
    BY <1>1, <1>3, <2>1, <2>2
  <2> QED  BY <1>3, <2>1, <2>4, <2>6, <2>7, <2>8
<1> QED  BY <1>2, <1>3

LEMMA WriteNextKeeps ==
  ASSUME PublicationInv, WriteNext
  PROVE  PublicationInv'
<1> DEFINE f == Min(job.todo)
           todo == job.todo \ {f}
<1>1. /\ job.pc = "writing" /\ job.todo # {} /\ Put(f, job.new)
      /\ job' = [job EXCEPT !.todo = todo]
      /\ UNCHANGED <<now, evidence, review, interrupts, torn, astray>>
  BY DEF WriteNext
<1>2. job # NoJob /\ TypeOK /\ Between  BY <1>1, Running
<1>3. job.todo \subseteq job.files /\ job.files \subseteq File  BY <1>2, Shapes DEF Between
<1>4. f \in job.todo /\ \A g \in job.todo : f <= g
  <2>1. job.todo \subseteq Nat  BY <1>3, Numbers
  <2> QED  BY <1>1, <2>1, MinIs
<1> HIDE DEF f
<1>5. /\ vault' \in Vault
      /\ f = Index => vault'.index = job.new.index /\ vault'.note = vault.note
      /\ f # Index => vault'.index = vault.index
      /\ f \in Path => vault'.note[f] = job.new.note[f]
      /\ \A p \in Path \ {f} : vault'.note[p] = vault.note[p]
  BY <1>1, <1>2, <1>3, <1>4, Shapes, PutTyped
<1>6. /\ job'.pc = "writing" /\ job'.files = job.files /\ job'.todo = todo
      /\ job'.new = job.new /\ job'.backup = job.backup
      /\ job' = [job EXCEPT !.pc = "writing", !.todo = todo]
  BY <1>1, <1>2 DEF TypeOK
<1>7. \A g \in File : g # f /\ g # Index /\ g # Draft => g \in Path /\ vault'.note[g] = vault.note[g]
  BY <1>5, Numbers
<1>8. \A g \in File : g # f => (g = Index => vault'.index = vault.index)  BY <1>5
<1>9. f = Index => vault'.index = job.new.index  BY <1>5
<1>10. f # Index /\ f # Draft => vault'.note[f] = job.new.note[f]
  BY <1>3, <1>4, <1>5, Numbers
<1>11. Between'
  <2>1. todo \subseteq job.files  BY <1>3
  <2>2. \A g \in File \ job.files : IF g = Index THEN vault'.index = job.backup.index
                                    ELSE g # Draft => vault'.note[g] = job.backup.note[g]
    BY <1>2, <1>3, <1>4, <1>7, <1>8 DEF Between
  <2>3. \A g \in job.files : g \in todo =>
          IF g = Index THEN vault'.index = job.backup.index
          ELSE g # Draft => vault'.note[g] = job.backup.note[g]
    BY <1>1, <1>2, <1>3, <1>7, <1>8 DEF Between
  <2>4. \A g \in job.files : g \notin todo =>
          IF g = Index THEN vault'.index = job.new.index
          ELSE g # Draft => vault'.note[g] = job.new.note[g]
    BY <1>1, <1>2, <1>3, <1>4, <1>7, <1>8, <1>9, <1>10 DEF Between
  <2>5. \A g \in job.files \ todo, h \in todo : g < h
    <3> SUFFICES ASSUME NEW g \in job.files \ todo, NEW h \in todo PROVE g < h  OBVIOUS
    <3>1. g \in Nat /\ h \in Nat  BY <1>3, Numbers
    <3>2. CASE g = f  BY <1>4, <3>1, <3>2
    <3>3. CASE g # f  BY <1>1, <1>2, <3>3 DEF Between
    <3> QED  BY <3>2, <3>3
  <2> QED  BY <1>6, <2>1, <2>2, <2>3, <2>4, <2>5 DEF Between
<1>12. todo \in SUBSET job.files /\ interrupts' \in 0 .. MaxInterrupts
  BY <1>1, <1>2, <1>3 DEF TypeOK
<1>13. /\ torn' \in [Candidate -> [to : {"none", "promoted", "rejected"}, undone : BOOLEAN]]
       /\ UNCHANGED torn
  BY <1>1, <1>2 DEF TypeOK
<1> HIDE DEF todo
<1> QED  BY <1>1, <1>2, <1>5, <1>6, <1>11, <1>12, <1>13, GoesOn

LEMMA WriteFailsKeeps ==
  ASSUME PublicationInv, WriteFails
  PROVE  PublicationInv'
<1>1. /\ job.pc = "writing" /\ job' = [job EXCEPT !.pc = "undoing", !.todo = job.files]
      /\ interrupts < MaxInterrupts /\ interrupts' = interrupts + 1
      /\ UNCHANGED <<now, vault, evidence, review, torn, astray>>
  BY DEF WriteFails
<1>2. job # NoJob /\ TypeOK /\ Between  BY <1>1, Running
<1>3. /\ job'.pc = "undoing" /\ job'.files = job.files /\ job'.todo = job.files
      /\ job'.new = job.new /\ job'.backup = job.backup
  BY <1>1, <1>2 DEF TypeOK
<1>4. Between'  BY <1>1, <1>2, <1>3 DEF Between
<1>5. interrupts' \in 0 .. MaxInterrupts  BY <1>1, <1>2, PublicationAssumption DEF TypeOK
<1>6. vault' \in Vault  BY <1>1, <1>2, Shapes
<1>7. /\ torn' \in [Candidate -> [to : {"none", "promoted", "rejected"}, undone : BOOLEAN]]
      /\ UNCHANGED torn
  BY <1>1, <1>2 DEF TypeOK
<1> QED  BY <1>1, <1>2, <1>4, <1>5, <1>6, <1>7, GoesOn

LEMMA UndoStepKeeps ==
  ASSUME PublicationInv, UndoNext, job.todo # {}
  PROVE  PublicationInv'
<1> DEFINE f == Min(job.todo)
           todo == job.todo \ {f}
<1>1. /\ job.pc = "undoing" /\ Put(f, job.backup)
      /\ job' = [job EXCEPT !.todo = todo]
      /\ UNCHANGED <<now, evidence, review, interrupts, torn, astray>>
  BY DEF UndoNext
<1>2. job # NoJob /\ TypeOK /\ Between  BY <1>1, Running
<1>3. job.todo \subseteq job.files /\ job.files \subseteq File  BY <1>2, Shapes DEF Between
<1>4. f \in job.todo
  <2>1. job.todo \subseteq Nat  BY <1>3, Numbers
  <2> QED  BY <2>1, MinIs
<1> HIDE DEF f
<1>5. /\ vault' \in Vault
      /\ f = Index => vault'.index = job.backup.index /\ vault'.note = vault.note
      /\ f # Index => vault'.index = vault.index
      /\ f \in Path => vault'.note[f] = job.backup.note[f]
      /\ \A p \in Path \ {f} : vault'.note[p] = vault.note[p]
  BY <1>1, <1>2, <1>3, <1>4, Shapes, PutTyped
<1>6. /\ job'.pc = "undoing" /\ job'.files = job.files /\ job'.todo = todo
      /\ job'.new = job.new /\ job'.backup = job.backup
      /\ job'.of = job.of /\ job'.state = job.state
      /\ job' = [job EXCEPT !.pc = "undoing", !.todo = todo]
  BY <1>1, <1>2 DEF TypeOK
<1>7. \A g \in File : g # f /\ g # Index /\ g # Draft => vault'.note[g] = vault.note[g]
  BY <1>5, Numbers
<1>8. f # Index /\ f # Draft => vault'.note[f] = job.backup.note[f]
  BY <1>3, <1>4, <1>5, Numbers
<1>9. Between'
  <2>1. todo \subseteq job.files  BY <1>3
  <2>2. \A g \in File \ job.files : IF g = Index THEN vault'.index = job.backup.index
                                    ELSE g # Draft => vault'.note[g] = job.backup.note[g]
    BY <1>2, <1>3, <1>4, <1>5, <1>7 DEF Between
  <2>3. \A g \in job.files :
          \/ IF g = Index THEN vault'.index = job.backup.index
             ELSE g # Draft => vault'.note[g] = job.backup.note[g]
          \/ /\ g \in todo \/ torn[job.of].undone \/ job.state = "marked"
             /\ IF g = Index THEN vault'.index = job.new.index
                ELSE g # Draft => vault'.note[g] = job.new.note[g]
    <3> TAKE g \in job.files
    <3>1. CASE g = f  BY <1>5, <1>8, <3>1
    <3>2. CASE g # f  BY <1>1, <1>2, <1>3, <1>5, <1>7, <3>2 DEF Between
    <3> QED  BY <3>1, <3>2
  <2> QED  BY <1>1, <1>6, <2>1, <2>2, <2>3 DEF Between
<1>10. todo \in SUBSET job.files /\ interrupts' \in 0 .. MaxInterrupts
  BY <1>1, <1>2, <1>3 DEF TypeOK
<1>11. /\ torn' \in [Candidate -> [to : {"none", "promoted", "rejected"}, undone : BOOLEAN]]
       /\ UNCHANGED torn
  BY <1>1, <1>2 DEF TypeOK
<1> HIDE DEF todo
<1> QED  BY <1>1, <1>2, <1>5, <1>6, <1>9, <1>10, <1>11, GoesOn

\* A file that is not put back.
LEMMA UndoFailsKeeps ==
  ASSUME PublicationInv, UndoFails
  PROVE  PublicationInv'
<1> DEFINE f == Min(job.todo)
           todo == job.todo \ {f}
<1>1. /\ job.pc = "undoing" /\ job' = [job EXCEPT !.todo = todo] /\ CutShort(TRUE)
      /\ interrupts < MaxInterrupts /\ interrupts' = interrupts + 1
      /\ UNCHANGED <<now, vault, evidence, review, astray>>
  BY DEF UndoFails
<1>2. job # NoJob /\ TypeOK /\ Between /\ job.of \in Candidate  BY <1>1, Running
<1>3. /\ torn' \in [Candidate -> [to : {"none", "promoted", "rejected"}, undone : BOOLEAN]]
      /\ job.state = "marked" => torn' = torn
      /\ \A d \in Candidate \ {job.of} : torn'[d] = torn[d]
      /\ job.state # "marked" => torn'[job.of] # Whole /\ torn'[job.of].undone
  BY <1>1, CutShortIs
<1>4. /\ job'.pc = "undoing" /\ job'.files = job.files /\ job'.todo = todo
      /\ job'.new = job.new /\ job'.backup = job.backup
      /\ job'.of = job.of /\ job'.state = job.state
      /\ job' = [job EXCEPT !.pc = "undoing", !.todo = todo]
  BY <1>1, <1>2 DEF TypeOK
<1>5. job.todo \subseteq job.files /\ todo \in SUBSET job.files  BY <1>2 DEF Between
<1> HIDE DEF f, todo
<1>6. torn'[job.of].undone \/ job.state = "marked"  BY <1>3
<1>7. Between'  BY <1>1, <1>2, <1>4, <1>5, <1>6 DEF Between
<1>8. interrupts' \in 0 .. MaxInterrupts  BY <1>1, <1>2, PublicationAssumption DEF TypeOK
<1>9. vault' \in Vault  BY <1>1, <1>2, Shapes
<1>10. \A d \in Candidate : torn'[d] = torn[d] \/ (torn'[d].undone /\ torn'[d] # Whole)
  BY <1>2, <1>3
<1> QED  BY <1>1, <1>2, <1>3, <1>4, <1>5, <1>7, <1>8, <1>9, <1>10, GoesOn

-----------------------------------------------------------------------------
(* Half-way.                                                                 *)

\* At any moment of a publication every note and the index are old or new, and those of
\* the other candidates are what they were, unless they are taken from them.
LEMMA Amid ==
  ASSUME PublicationInv, job # NoJob, job.state # "marked"
  PROVE  /\ \A p \in Path : \/ vault.note[p] = job.backup.note[p]
                            \/ p \in {job.old, job.next} /\ vault.note[p] = job.new.note[p]
         /\ vault.index \in {job.backup.index, job.new.index}
         /\ \A p \in Path : job.backup.note[p] # NoNote => vault.note[p] # NoNote
         /\ \A d \in Candidate \ astray, p \in Path :
              d # job.of /\ (vault.note[p].of = d \/ job.backup.note[p].of = d) =>
                /\ vault.note[p] = job.backup.note[p]
                /\ p \in vault.index <=> p \in job.backup.index
<1>1. job.pc # "idle" /\ TypeOK /\ Plans /\ Between /\ job.pc \in {"writing", "undoing"}
  BY Running DEF PublicationInv
<1>2. ASSUME NEW p \in Path
      PROVE  \/ vault.note[p] = job.backup.note[p]
             \/ p \in {job.old, job.next} /\ vault.note[p] = job.new.note[p]
  <2>1. p \in File /\ p # Index /\ p # Draft  BY Numbers
  <2>2. \/ vault.note[p] = job.backup.note[p]
        \/ vault.note[p] = job.new.note[p] /\ p \in job.files
    BY <1>1, <2>1 DEF Between
  <2> QED  BY <1>1, <2>1, <2>2 DEF Plans
<1>3. vault.index \in {job.backup.index, job.new.index}
  BY <1>1, Numbers DEF Between, Plans
<1>4. ASSUME NEW p \in Path, job.backup.note[p] # NoNote PROVE vault.note[p] # NoNote
  <2>1. p \in {job.old, job.next} => job.new.note[p] # NoNote  BY <1>1 DEF Plans
  <2> QED  BY <1>2, <1>4, <2>1
<1>5. ASSUME NEW d \in Candidate \ astray, NEW p \in Path, d # job.of,
             vault.note[p].of = d \/ job.backup.note[p].of = d
      PROVE  /\ vault.note[p] = job.backup.note[p]
             /\ p \in vault.index <=> p \in job.backup.index
  <2>1. d # Nobody  BY PublicationAssumption
  <2>2. p \notin {job.old, job.next}
    <3> SUFFICES ASSUME p \in {job.old, job.next} PROVE FALSE  OBVIOUS
    <3>1. {job.backup.note[p].of, job.new.note[p].of} \subseteq {job.of, Nobody} \cup astray
      BY <1>1 DEF Plans
    <3> QED  BY <1>2, <1>5, <2>1, <3>1
  <2>3. p \in job.new.index <=> p \in job.backup.index  BY <1>1, <2>2 DEF Plans
  <2> QED  BY <1>2, <1>3, <2>2, <2>3
<1> QED  BY <1>2, <1>3, <1>4, <1>5

\* Of any candidate but that of the publication, all is as before; of that one, the notes
\* are still those its review knows, and not two at once while it writes.
LEMMA HalfWay ==
  ASSUME PublicationInv, job # NoJob, job.state # "marked", NEW d \in Candidate \ astray
  PROVE  /\ Named(d, vault) /\ Known(d, vault)
         /\ job.pc = "writing" => Single(d, vault)
         /\ d # job.of => Single(d, vault) /\ Says(d, vault)
<1>1. /\ job.pc # "idle" /\ TypeOK /\ Plans /\ Between /\ job.pc \in {"writing", "undoing"}
      /\ Rests(job.backup) /\ (job.of \notin astray => Planned)
  BY Running DEF PublicationInv
<1>2. /\ Named(d, job.backup) /\ Known(d, job.backup)
      /\ Single(d, job.backup) /\ Says(d, job.backup)
  BY <1>1 DEF Rests
<1>3. review[d].path \in {NoPath} \cup Path /\ review[d].pending \in {NoPath} \cup Path
  BY <1>1, Shapes
<1>4. CASE d # job.of
  <2>1. \A p \in Path :
          vault.note[p].of = d \/ job.backup.note[p].of = d =>
            /\ vault.note[p] = job.backup.note[p]
            /\ p \in vault.index <=> p \in job.backup.index
    BY <1>4, Amid
  <2>2. \A p \in Path : job.backup.note[p] # NoNote => vault.note[p] # NoNote  BY Amid
  <2>3. Named(d, vault)  BY <1>2, <1>3, <2>1, <2>2 DEF Named
  <2>4. Known(d, vault)  BY <1>2, <2>1 DEF Known
  <2>5. Single(d, vault)  BY <1>2, <2>1 DEF Single
  <2>6. Says(d, vault)  BY <1>2, <1>3, <2>1 DEF Says
  <2> QED  BY <2>3, <2>4, <2>5, <2>6
<1>5. CASE d = job.of
  <2> DEFINE old == job.old
             next == job.next
  <2>1. /\ old # NoPath => /\ old \in Path
                           /\ job.new.note[old].status = "deprecated"
                           /\ job.new.note[old].of = job.backup.note[old].of
                           /\ job.backup.note[old].of = d => old = review[d].path
                           /\ old # next
                           /\ review[d].path # NoPath => old = review[d].path
        /\ next # NoPath => /\ next \in Path /\ next = review[d].pending
                            /\ old = review[d].path
                            /\ job.new.note[next].of = d
                            /\ job.new.note[next].status = "stable"
                            /\ job.backup.note[next] \in {NoNote, job.new.note[next]}
        /\ job.new.index = (job.backup.index \ {old}) \cup ({next} \ {NoPath})
        /\ d # Nobody
    <3>1. old \in {NoPath} \cup Path /\ next \in {NoPath} \cup Path  BY <1>1, Shapes
    <3>2. Planned /\ job.state \in {"promoted", "rejected"}  BY <1>1, <1>5 DEF Plans
    <3> QED  BY <1>1, <1>5, <3>1, <3>2, PublicationAssumption DEF Plans, Planned
  <2> HIDE DEF old, next
  <2>2. \A p \in Path : \/ vault.note[p] = job.backup.note[p]
                        \/ p \in {old, next} /\ vault.note[p] = job.new.note[p]
    BY Amid DEF old, next
  <2>3. vault.index \subseteq job.backup.index \cup ({next} \ {NoPath})  BY <2>1, Amid
  <2>4. \A p \in Path : vault.note[p].of = d /\ p # next => job.backup.note[p].of = d
    BY <2>1, <2>2, Numbers
  <2>5. \A p \in Path : vault.note[p].status = "stable" /\ p # next =>
          job.backup.note[p].status = "stable"
    BY <2>1, <2>2, Numbers
  <2>6. Named(d, vault)
    <3>1. \A p \in Path : job.backup.note[p] # NoNote => vault.note[p] # NoNote  BY Amid
    <3>2. review[d].path # NoPath /\ vault.note[review[d].path].of = d =>
            job.backup.note[review[d].path].of = d
      BY <1>2, <1>3, <2>1, <2>4, Numbers DEF Named
    <3>3. review[d].path = NoPath =>
            \A p \in Path : vault.note[p].of = d => p = review[d].pending
      BY <1>2, <2>1, <2>4, Numbers DEF Named
    <3>4. review[d].pending # NoPath /\ vault.note[review[d].pending].of = d =>
            vault.note[review[d].pending].status = "stable"
      <4> SUFFICES ASSUME review[d].pending # NoPath, vault.note[review[d].pending].of = d
                   PROVE  vault.note[review[d].pending].status = "stable"
        OBVIOUS
      <4> DEFINE p == review[d].pending
      <4>1. p \in Path /\ p # review[d].path  BY <1>2, <1>3 DEF Named
      <4>2. CASE vault.note[p] = job.backup.note[p]  BY <1>2, <4>2 DEF Named
      <4>3. CASE vault.note[p] = job.new.note[p] /\ p = next  BY <2>1, <4>1, <4>3, Numbers
      <4>4. CASE vault.note[p] = job.new.note[p] /\ p = old  BY <2>1, <4>1, <4>4, Numbers
      <4> QED  BY <2>2, <4>1, <4>2, <4>3, <4>4
    <3> QED  BY <1>2, <1>3, <3>1, <3>2, <3>3, <3>4 DEF Named
  <2>7. Known(d, vault)
    <3> SUFFICES ASSUME NEW p \in Path, vault.note[p].of = d,
                        vault.note[p].status = "stable" \/ p \in vault.index
                 PROVE  p \in {review[d].path, review[d].pending}
      BY DEF Known
    <3>1. CASE p = next  BY <2>1, <3>1, Numbers
    <3>2. CASE p # next
      <4>1. /\ job.backup.note[p].of = d
            /\ job.backup.note[p].status = "stable" \/ p \in job.backup.index
        BY <2>3, <2>4, <2>5, <3>2
      <4> QED  BY <1>2, <4>1 DEF Known
    <3> QED  BY <3>1, <3>2
  <2>8. job.pc = "writing" => Single(d, vault)
    <3> SUFFICES ASSUME job.pc = "writing", ~torn[d].undone,
                        NEW p \in Path, NEW q \in Path, p # q,
                        vault.note[p].of = d, vault.note[p].status = "stable",
                        vault.note[q].of = d, vault.note[q].status = "stable"
                 PROVE  FALSE
      BY DEF Single
    <3>1. CASE p # next /\ q # next
      BY <1>2, <2>4, <2>5, <3>1 DEF Single
    <3>2. ASSUME NEW a \in Path, NEW b \in Path, a # b, b = next,
                 vault.note[a].of = d, vault.note[a].status = "stable",
                 vault.note[b].of = d, vault.note[b].status = "stable"
          PROVE  FALSE
      <4>1. a # next /\ next # NoPath  BY <3>2, Numbers
      <4>2. job.backup.note[a].of = d /\ job.backup.note[a].status = "stable"
        BY <2>4, <2>5, <3>2, <4>1
      <4>3. a = review[d].path /\ b = review[d].pending /\ a = old
        BY <1>2, <2>1, <3>2, <4>1, <4>2 DEF Known
      <4>4. a < b  BY <1>2, <3>2, <4>2, <4>3, Numbers DEF Named
      <4>5. a \in job.files /\ b \in job.files /\ a # Index /\ a # Draft /\ b # Index /\ b # Draft
        BY <1>1, <3>2, <4>3, Numbers DEF Plans, old, next
      <4>6. a \in job.todo
        <5> SUFFICES ASSUME a \notin job.todo PROVE FALSE  OBVIOUS
        <5>1. vault.note[a] = job.new.note[a]  BY <1>1, <4>5 DEF Between
        <5> QED  BY <2>1, <3>2, <4>3, <5>1, Numbers
      <4>7. b \in job.todo
        <5> SUFFICES ASSUME b \notin job.todo PROVE FALSE  OBVIOUS
        <5>1. b < a  BY <1>1, <4>5, <4>6 DEF Between
        <5> QED  BY <4>4, <5>1, Numbers
      <4>8. vault.note[b] = job.backup.note[b]  BY <1>1, <4>5, <4>7 DEF Between
      <4> QED  BY <1>2, <3>2, <4>2, <4>8 DEF Single
    <3> QED  BY <3>1, <3>2
  <2> QED  BY <1>5, <2>6, <2>7, <2>8
<1> QED  BY <1>4, <1>5

\* The vault is put back: it is what the publication began from, unless a file was not.
LEMMA UndoneKeeps ==
  ASSUME PublicationInv, UndoNext, job.todo = {}
  PROVE  PublicationInv'
<1>1. /\ job.pc = "undoing" /\ job' = NoJob
      /\ UNCHANGED <<now, vault, evidence, review, interrupts, torn, astray>>
  BY DEF UndoNext
<1>2. job # NoJob /\ TypeOK /\ Between  BY <1>1, Running
<1>3. TypeOK'  BY <1>1, <1>2, NoJobTyped DEF TypeOK
<1>4. CASE job.state = "marked"
  <2>1. Rests(vault)'
    <3>1. Rests(vault)  BY <1>4 DEF PublicationInv
    <3> QED  BY <1>1, <1>2, <3>1, Unnoticed
  <2> QED  BY <1>1, <1>3, <2>1, NoJobTyped DEF PublicationInv
<1>5. CASE job.state # "marked"
  <2>1. Rests(job.backup)  BY <1>1, <1>5, Running
  <2>2. ~torn[job.of].undone =>
          vault.index = job.backup.index /\ \A p \in Path : vault.note[p] = job.backup.note[p]
    BY <1>1, <1>2, <1>5, Numbers DEF Between
  <2>3. ASSUME NEW d \in Candidate \ astray
        PROVE  Named(d, vault)' /\ Known(d, vault)' /\ Single(d, vault)' /\ Says(d, vault)'
    <3>1. review[d].path \in {NoPath} \cup Path /\ review[d].pending \in {NoPath} \cup Path
      BY <1>2, Shapes
    <3>2. /\ Named(d, vault) /\ Known(d, vault)
          /\ d # job.of => Single(d, vault) /\ Says(d, vault)
      BY <1>2, <1>5, HalfWay
    <3>3. Single(d, job.backup) /\ Says(d, job.backup)  BY <2>1 DEF Rests
    <3>4. Single(d, vault)
      <4>1. CASE d = job.of /\ ~torn[d].undone  BY <2>2, <3>3, <4>1 DEF Single
      <4>2. CASE d = job.of /\ torn[d].undone  BY <4>2 DEF Single
      <4> QED  BY <3>2, <4>1, <4>2
    <3>5. Says(d, vault)
      <4>1. CASE d = job.of /\ ~torn[d].undone  BY <2>2, <3>1, <3>3, <4>1 DEF Says
      <4>2. CASE d = job.of /\ torn[d].undone
        <5>1. Whole.undone = FALSE  BY DEF Whole
        <5>2. torn[d] # Whole  BY <4>2, <5>1
        <5> QED  BY <5>2 DEF Says
      <4> QED  BY <3>2, <4>1, <4>2
    <3>6. Named(d, vault)'  BY <1>1, <3>2 DEF Named
    <3>7. Known(d, vault)'  BY <1>1, <3>2 DEF Known
    <3>8. Single(d, vault)'  BY <1>1, <3>4 DEF Single
    <3>9. Says(d, vault)'  BY <1>1, <3>5 DEF Says
    <3> QED  BY <3>6, <3>7, <3>8, <3>9
  <2>4. Rests(vault)'  BY <1>1, <2>3 DEF Rests
  <2> QED  BY <1>1, <1>3, <2>4, NoJobTyped DEF PublicationInv
<1> QED  BY <1>4, <1>5

LEMMA MarkingEndsKeeps ==
  ASSUME PublicationInv, MarkingEnds
  PROVE  PublicationInv'
<1>1. /\ job.state = "marked" /\ job' = NoJob
      /\ UNCHANGED <<now, vault, evidence, review, interrupts, torn, astray>>
  BY DEF MarkingEnds
<1>2. TypeOK /\ Rests(vault)  BY <1>1 DEF PublicationInv
<1>3. TypeOK'  BY <1>1, <1>2, NoJobTyped DEF TypeOK
<1>4. Rests(vault)'  BY <1>1, <1>2, Unnoticed
<1> QED  BY <1>1, <1>3, <1>4, NoJobTyped DEF PublicationInv

LEMMA InterruptedKeeps ==
  ASSUME PublicationInv, Interrupted
  PROVE  PublicationInv'
<1>1. /\ job # NoJob /\ job' = NoJob /\ interrupts < MaxInterrupts /\ interrupts' = interrupts + 1
      /\ CutShort(job.pc = "undoing")
      /\ UNCHANGED <<now, vault, evidence, review, astray>>
  BY DEF Interrupted
<1>2. TypeOK /\ job.pc \in {"writing", "undoing"} /\ job.pc # "idle"
  BY <1>1, Running DEF PublicationInv
<1>3. /\ torn' \in [Candidate -> [to : {"none", "promoted", "rejected"}, undone : BOOLEAN]]
      /\ job.state = "marked" => torn' = torn
      /\ \A d \in Candidate \ {job.of} : torn'[d] = torn[d]
      /\ job.state # "marked" =>
           /\ torn'[job.of] # Whole
           /\ ~torn'[job.of].undone => ~torn[job.of].undone /\ job.pc = "writing"
  <2>1. (job.pc = "undoing") \in BOOLEAN  OBVIOUS
  <2> QED  BY <1>1, <1>2, <2>1, CutShortIs
<1>4. TypeOK'
  <2>1. interrupts' \in 0 .. MaxInterrupts  BY <1>1, <1>2, PublicationAssumption DEF TypeOK
  <2> QED  BY <1>1, <1>2, <1>3, <2>1, NoJobTyped DEF TypeOK
<1>5. Rests(vault)'
  <2>1. CASE job.state = "marked"
    <3>1. Rests(vault)  BY <2>1 DEF PublicationInv
    <3> QED  BY <1>1, <1>2, <1>3, <2>1, <3>1, Unnoticed
  <2>2. CASE job.state # "marked"
    <3>1. ASSUME NEW d \in Candidate \ astray
          PROVE  Named(d, vault)' /\ Known(d, vault)' /\ Single(d, vault)' /\ Says(d, vault)'
      <4>1. /\ Named(d, vault) /\ Known(d, vault)
            /\ job.pc = "writing" => Single(d, vault)
            /\ d # job.of => Single(d, vault) /\ Says(d, vault)
        BY <1>1, <2>2, HalfWay
      <4>2. Named(d, vault)'  BY <1>1, <4>1 DEF Named
      <4>3. Known(d, vault)'  BY <1>1, <4>1 DEF Known
      <4>4. Single(d, vault)'  BY <1>1, <1>3, <2>2, <4>1 DEF Single
      <4>5. Says(d, vault)'  BY <1>1, <1>3, <2>2, <4>1 DEF Says
      <4> QED  BY <4>2, <4>3, <4>4, <4>5
    <3> QED  BY <1>1, <3>1 DEF Rests
  <2> QED  BY <2>1, <2>2
<1> QED  BY <1>1, <1>4, <1>5, NoJobTyped DEF PublicationInv

\* The review and the vault, once every file is written, of the candidate itself.
LEMMA Promoted ==
  ASSUME PublicationInv, Finishes, job.state = "promoted", NEW c \in Candidate \ astray', c = job.of
  PROVE  Named(c, vault)' /\ Known(c, vault)' /\ Single(c, vault)' /\ Says(c, vault)'
<1>1. job.pc = "writing" /\ job.todo = {}  BY DEF Finishes
<1>2. job # NoJob /\ TypeOK /\ Rests(job.backup) /\ Plans /\ Between  BY <1>1, Running
<1>3. /\ review'[c].state = "promoted" /\ review'[c].path = job.next
      /\ review'[c].pending = NoPath /\ review'[c].revision = review[c].revision
      /\ astray' = astray /\ UNCHANGED <<now, vault>>
  BY <1>2, FinishesTakes
<1>4. Planned  BY <1>1, <1>3, Running
<1>5. /\ job.next = review[c].pending /\ job.next # NoPath /\ job.old = review[c].path
      /\ job.new.note[job.next].of = c /\ job.new.note[job.next].status = "stable"
      /\ job.new.note[job.next].revision = review[c].revision
      /\ job.old # NoPath => job.new.note[job.old].status = "deprecated" /\ job.old # job.next
      /\ job.new.index = (job.backup.index \ {job.old}) \cup {job.next}
      /\ job.files = {Draft, Index} \cup ({job.old, job.next} \ {NoPath})
  BY <1>2, <1>4 DEF Plans, Planned
<1>6. job.next \in Path /\ job.old \in {NoPath} \cup Path  BY <1>2, <1>5, Shapes
<1>7. /\ vault.note[job.next] = job.new.note[job.next] /\ vault.index = job.new.index
      /\ job.old # NoPath => vault.note[job.old] = job.new.note[job.old]
  BY <1>1, <1>2, <1>5, <1>6, Numbers DEF Between
<1>8. Named(c, vault) /\ Known(c, vault)  BY <1>2, <1>3, HalfWay
<1>9. Named(c, vault)'
  <2>1. vault.note[job.next] # NoNote
    BY <1>5, <1>7, PublicationAssumption DEF NoNote
  <2>2. \A q \in Path : now <= q /\ q <= job.next => vault.note[q] # NoNote
    BY <1>5, <1>6, <1>8, <2>1, <1>2, Shapes, Numbers DEF Named
  <2> QED  BY <1>3, <1>5, <1>7, <2>1, <2>2 DEF Named
<1>10. \A p \in Path : vault.note[p].of = c /\ (vault.note[p].status = "stable" \/ p \in vault.index)
          => p = job.next
  BY <1>5, <1>7, <1>8, Numbers DEF Known
<1>11. Known(c, vault)'  BY <1>3, <1>10 DEF Known
<1>12. Single(c, vault)'  BY <1>3, <1>10 DEF Single
<1>13. Says(c, vault)'  BY <1>3, <1>5, <1>7, <1>10 DEF Says
<1> QED  BY <1>9, <1>11, <1>12, <1>13

LEMMA Rejected ==
  ASSUME PublicationInv, Finishes, job.state = "rejected", NEW c \in Candidate \ astray', c = job.of
  PROVE  Named(c, vault)' /\ Known(c, vault)' /\ Single(c, vault)' /\ Says(c, vault)'
<1>1. job.pc = "writing" /\ job.todo = {}  BY DEF Finishes
<1>2. job # NoJob /\ TypeOK /\ Rests(job.backup) /\ Plans /\ Between  BY <1>1, Running
<1>3. /\ review'[c].state = "rejected" /\ review'[c].path = job.old
      /\ review'[c].pending = NoPath /\ review'[c].basis = review[c].basis
      /\ astray' = IF LetsGo(c) THEN astray \cup {c} ELSE astray
      /\ UNCHANGED <<now, vault>>
  BY <1>2, FinishesTakes
<1>4. c \notin astray /\ ~LetsGo(c)  BY <1>3
<1>5. Planned  BY <1>1, <1>4, Running
<1>6. /\ job.next = NoPath
      /\ job.old = NoPath => review[c].path = NoPath
      /\ review[c].path # NoPath => job.old = review[c].path
      /\ job.old # NoPath => /\ job.new.note[job.old].status = "deprecated"
                             /\ job.new.note[job.old].of = job.backup.note[job.old].of
                             /\ job.backup.note[job.old].of = c => job.old = review[c].path
                             /\ job.backup.note[job.old] # NoNote
      /\ job.new.index = job.backup.index \ {job.old}
      /\ job.files = {Draft, Index} \cup ({job.old, NoPath} \ {NoPath})
  BY <1>2, <1>5 DEF Plans, Planned
<1>7. job.old \in {NoPath} \cup Path  BY <1>2, Shapes
<1>8. /\ vault.index = job.new.index
      /\ job.old # NoPath => /\ vault.note[job.old] = job.new.note[job.old]
                             /\ vault.note[job.old] # NoNote
  BY <1>1, <1>2, <1>6, <1>7, Amid, Numbers DEF Between
<1>9. Named(c, vault) /\ Known(c, vault)  BY <1>2, <1>4, HalfWay
<1>10. \A p \in Path : vault.note[p].of = c => p # review[c].pending
  BY <1>4, Numbers DEF LetsGo
<1>11. Named(c, vault)'
  <2>1. job.old = NoPath => \A p \in Path : vault.note[p].of # c
    BY <1>6, <1>9, <1>10 DEF Named
  <2> QED  BY <1>3, <1>6, <1>8, <1>9, <2>1 DEF Named
<1>12. \A p \in Path : vault.note[p].of = c => vault.note[p].status # "stable" /\ p \notin vault.index
  <2> SUFFICES ASSUME NEW p \in Path, vault.note[p].of = c,
                      vault.note[p].status = "stable" \/ p \in vault.index
               PROVE  FALSE
    OBVIOUS
  <2>1. p \in {review[c].path, review[c].pending}  BY <1>9 DEF Known
  <2>2. p # review[c].pending  BY <1>10
  <2>3. p = job.old /\ p # NoPath  BY <1>6, <2>1, <2>2, Numbers
  <2> QED  BY <1>6, <1>8, <2>3
<1>13. Known(c, vault)'  BY <1>3, <1>12 DEF Known
<1>14. Single(c, vault)'  BY <1>3, <1>12 DEF Single
<1>15. Says(c, vault)'  BY <1>3, <1>12 DEF Says
<1> QED  BY <1>11, <1>13, <1>14, <1>15

LEMMA FinishesKeeps ==
  ASSUME PublicationInv, Finishes
  PROVE  PublicationInv'
<1>1. job.pc = "writing" /\ job.state # "marked"  BY DEF Finishes
<1>2. job # NoJob /\ TypeOK /\ job.of \in Candidate /\ job.state \in {"promoted", "rejected"}
  BY <1>1, Running
<1>3. /\ review' \in [Candidate -> Reviews]
      /\ \A d \in Candidate \ {job.of} : review'[d] = review[d] /\ torn'[d] = torn[d]
      /\ torn' \in [Candidate -> [to : {"none", "promoted", "rejected"}, undone : BOOLEAN]]
      /\ astray' = IF job.state = "rejected" /\ LetsGo(job.of) THEN astray \cup {job.of} ELSE astray
      /\ job' = NoJob
      /\ UNCHANGED <<now, vault, evidence, interrupts>>
  BY <1>2, FinishesTakes
<1>4. TypeOK'  BY <1>2, <1>3, NoJobTyped DEF TypeOK, Reviews
<1>5. ASSUME NEW d \in Candidate \ astray'
      PROVE  Named(d, vault)' /\ Known(d, vault)' /\ Single(d, vault)' /\ Says(d, vault)'
  <2>1. CASE d = job.of  BY <1>2, <2>1, Promoted, Rejected
  <2>2. CASE d # job.of
    <3>1. /\ Named(d, vault) /\ Known(d, vault) /\ Single(d, vault) /\ Says(d, vault)
          /\ review'[d] = review[d] /\ torn'[d] = torn[d] /\ UNCHANGED <<now, vault>>
      BY <1>1, <1>2, <1>3, <2>2, HalfWay
    <3>2. Named(d, vault)'  BY <3>1 DEF Named
    <3>3. Known(d, vault)'  BY <3>1 DEF Known
    <3>4. Single(d, vault)'  BY <3>1 DEF Single
    <3>5. Says(d, vault)'  BY <3>1 DEF Says
    <3> QED  BY <3>2, <3>3, <3>4, <3>5
  <2> QED  BY <2>1, <2>2
<1>6. Rests(vault)'  BY <1>5 DEF Rests
<1> QED  BY <1>3, <1>4, <1>6, NoJobTyped DEF PublicationInv

-----------------------------------------------------------------------------
(* The invariant, and what follows from it.                                  *)

LEMMA InitPublicationInv == Init => PublicationInv
<1> SUFFICES ASSUME Init PROVE PublicationInv  OBVIOUS
<1>1. TypeOK  BY InitTypeOK
<1>2. /\ job = NoJob /\ review = [c \in Candidate |-> NoReview] /\ vault.note \in [Path -> Note]
      /\ \A p \in Path : vault.note[p].of = Nobody
  <2> DEFINE notes == [p \in Path |-> IF p \in Foreign THEN Fact(Nobody, 0) ELSE NoNote]
  <2>1. vault = [NoVault EXCEPT !.note = notes, !.index = Foreign]  BY DEF Init
  <2>2. \A p \in Path : notes[p].of = Nobody  BY DEF Fact, NoNote
  <2> HIDE DEF notes
  <2>3. vault.note = notes  BY <2>1 DEF NoVault
  <2>4. vault.note \in [Path -> Note]  BY <1>1, Shapes
  <2> QED  BY <2>2, <2>3, <2>4 DEF Init
<1>3. ASSUME NEW c \in Candidate
      PROVE  Named(c, vault) /\ Known(c, vault) /\ Single(c, vault) /\ Says(c, vault)
  <2>1. review[c] = NoReview /\ c # Nobody  BY <1>2, PublicationAssumption
  <2>2. review[c].path = NoPath /\ review[c].pending = NoPath /\ review[c].state = "none"
        /\ review[c].basis = NoNote
    BY <2>1 DEF NoReview
  <2>3. Named(c, vault)  BY <1>2, <2>1, <2>2 DEF Named, NoNote
  <2>4. Known(c, vault)  BY <1>2, <2>1 DEF Known
  <2>5. Single(c, vault)  BY <1>2, <2>1 DEF Single
  <2>6. Says(c, vault)  BY <2>2 DEF Says
  <2> QED  BY <2>3, <2>4, <2>5, <2>6
<1> QED  BY <1>1, <1>2, <1>3, NoJobTyped DEF PublicationInv, Rests

LEMMA NextPublicationInv == PublicationInv /\ [Next]_vars => PublicationInv'
<1> SUFFICES ASSUME PublicationInv, [Next]_vars PROVE PublicationInv'  OBVIOUS
<1>1. ASSUME NEW c \in Candidate, SourceChanges(c) PROVE PublicationInv'
  BY <1>1, SourceChangesKeeps
<1>2. ASSUME NEW c \in Candidate, MarkSourceDrift(c) PROVE PublicationInv'
  BY <1>2, MarkSourceDriftKeeps
<1>3. ASSUME NEW c \in Candidate, StageMemory(c) PROVE PublicationInv'
  BY <1>3, StageMemoryKeeps
<1>4. ASSUME NEW c \in Candidate, NEW basis \in Inspected, Propose(c, basis) PROVE PublicationInv'
  BY <1>4, ProposeKeeps
<1>5. ASSUME NEW c \in Candidate, AcceptBegins(c) PROVE PublicationInv'
  BY <1>5, AcceptBeginsKeeps
<1>6. ASSUME NEW c \in Candidate, RejectBegins(c) PROVE PublicationInv'
  BY <1>6, RejectBeginsKeeps
<1>7. CASE WriteNext  BY <1>7, WriteNextKeeps
<1>8. CASE UndoNext  BY <1>8, UndoStepKeeps, UndoneKeeps
<1>9. CASE Finishes  BY <1>9, FinishesKeeps
<1>10. CASE WriteFails  BY <1>10, WriteFailsKeeps
<1>11. CASE Interrupted  BY <1>11, InterruptedKeeps
<1>12. CASE UndoFails  BY <1>12, UndoFailsKeeps
<1>13. CASE MarkingEnds  BY <1>13, MarkingEndsKeeps
<1>14. CASE UNCHANGED vars
  <2>1. TypeOK /\ TypeOK' /\ UNCHANGED <<now, vault, evidence, review, job, interrupts, torn, astray>>
    BY <1>14 DEF PublicationInv, TypeOK, vars
  <2>2. job.state \in {"none", "marked"} => Rests(vault)'
    BY <2>1, Unnoticed DEF PublicationInv
  <2>3. job.state \in {"promoted", "rejected"} => Rests(job.backup)'
    BY <2>1, BackupStays DEF PublicationInv
  <2>4. /\ job # NoJob => Between'
        /\ job.state = "marked" => Marking'
        /\ job.state \in {"promoted", "rejected"} =>
             Plans' /\ (job.of \notin astray => Planned')
    BY <2>1 DEF PublicationInv, Between, Marking, Alike, Plans, Planned
  <2> QED  BY <2>1, <2>2, <2>3, <2>4 DEF PublicationInv
<1> QED
  BY <1>1, <1>2, <1>3, <1>4, <1>5, <1>6, <1>7, <1>8, <1>9, <1>10, <1>11, <1>12, <1>13, <1>14
     DEF Next, Publishing

LEMMA PublicationInvariant == Spec => []PublicationInv
BY InitPublicationInv, NextPublicationInv, PTL DEF Spec

\* The vault, the reviews and the publication under way keep their types.
THEOREM PublicationTypeCorrect == Spec => []TypeOK
<1>1. PublicationInv => TypeOK  BY DEF PublicationInv
<1> QED  BY <1>1, PublicationInvariant, PTL

\* Between publications, and after any number of kills, failed writes and rollbacks, the
\* vault holds of each candidate what its review in the corpus says, and no current note
\* the review does not know.
THEOREM CorpusAndVaultAgree == Spec => []ReviewIsTrue
<1>1. PublicationInv => ReviewIsTrue
  <2> SUFFICES ASSUME PublicationInv, job = NoJob, NEW c \in Candidate \ astray
               PROVE  LET r == review[c] IN
                      /\ Stable(c) \subseteq {r.path, r.pending}
                      /\ torn[c] = Whole =>
                           /\ r.state = "promoted" =>
                                /\ Stable(c) = {r.path} /\ vault.index \cap NotesOf(c) = {r.path}
                                /\ vault.note[r.path].revision = r.revision
                           /\ r.state = "rejected" => Stable(c) = {} /\ vault.index \cap NotesOf(c) = {}
    BY DEF ReviewIsTrue
  <2>1. TypeOK /\ Known(c, vault) /\ Says(c, vault)  BY NoJobTyped DEF PublicationInv, Rests
  <2>2. vault.index \subseteq Path /\ review[c].path \in {NoPath} \cup Path  BY <2>1, Shapes
  <2>3. Stable(c) \subseteq {review[c].path, review[c].pending}
    BY <2>1 DEF Known, Stable, NotesOf
  <2>4. ASSUME torn[c] = Whole, review[c].state = "promoted"
        PROVE  /\ Stable(c) = {review[c].path} /\ vault.index \cap NotesOf(c) = {review[c].path}
               /\ vault.note[review[c].path].revision = review[c].revision
    BY <2>1, <2>2, <2>4 DEF Says, Stable, NotesOf
  <2>5. ASSUME torn[c] = Whole, review[c].state = "rejected"
        PROVE  Stable(c) = {} /\ vault.index \cap NotesOf(c) = {}
    BY <2>1, <2>5 DEF Says, Stable, NotesOf
  <2> QED  BY <2>3, <2>4, <2>5
<1> QED  BY <1>1, PublicationInvariant, PTL

\* Whoever reads the vault at any moment of a publication, or after any kill, never finds
\* a superseded note still current beside the one that supersedes it, but for a rollback.
THEOREM ReadersFindOne == Spec => []NeverBoth
<1>1. PublicationInv => NeverBoth
  <2> SUFFICES ASSUME PublicationInv, NEW c \in Candidate \ astray,
                      job.pc # "undoing", ~torn[c].undone
               PROVE  Cardinality(Stable(c)) <= 1
    BY DEF NeverBoth
  <2>1. Single(c, vault)
    <3>1. CASE job.state \in {"none", "marked"}  BY <3>1 DEF PublicationInv, Rests
    <3>2. CASE job.state \notin {"none", "marked"}
      <4>1. job # NoJob  BY <3>2, NoJobTyped
      <4>2. job.pc = "writing"  BY <4>1, Running DEF PublicationInv
      <4> QED  BY <3>2, <4>1, <4>2, HalfWay
    <3> QED  BY <3>1, <3>2
  <2>2. \A p, q \in Stable(c) : p = q  BY <2>1 DEF Single, Stable, NotesOf
  <2>3. CASE Stable(c) = {}  BY <2>3, FS_EmptySet
  <2>4. CASE Stable(c) # {}
    <3>1. PICK p \in Stable(c) : TRUE  BY <2>4
    <3>2. Stable(c) = {p}  BY <2>2, <3>1
    <3> QED  BY <3>2, FS_Singleton
  <2> QED  BY <2>3, <2>4
<1> QED  BY <1>1, PublicationInvariant, PTL

\* What was withdrawn never comes back as current, through kills, rollbacks and retries,
\* unless the very publication or marking that took it out is rolled back.
THEOREM WithdrawnStaysSo == Spec => NeverResurfaces
<1> DEFINE Withdrawn(p) == ~Live(p) /\ Live(p)' =>
             \/ vault.note[p] = NoNote
             \/ job.pc = "undoing" /\ job.backup.note[p] = vault'.note[p]
<1>1. PublicationInv /\ [Next]_vars => \A p \in Path : Withdrawn(p)
  <2> SUFFICES ASSUME PublicationInv, [Next]_vars, NEW p \in Path, ~Live(p), Live(p)'
               PROVE  \/ vault.note[p] = NoNote
                      \/ job.pc = "undoing" /\ job.backup.note[p] = vault'.note[p]
    OBVIOUS
  <2>1. vault'.note # vault.note /\ vault' # vault  BY DEF Live
  <2>2. TypeOK /\ vault \in Vault  BY Shapes DEF PublicationInv
  <2>3. ASSUME NEW c \in Candidate, StageMemory(c) PROVE FALSE
    <3>1. vault' = [vault EXCEPT !.draft[c][review[c].revision] = "draft"]
      BY <2>3 DEF StageMemory
    <3> QED  BY <2>1, <2>2, <3>1 DEF Vault
  <2>4. CASE WriteNext
    <3> DEFINE f == Min(job.todo)
    <3>1. job.pc = "writing" /\ job.todo # {} /\ Put(f, job.new)  BY <2>4 DEF WriteNext
    <3>2. Between /\ job.state \in {"promoted", "rejected", "marked"}
          /\ (job.state # "marked" => Plans) /\ (job.state = "marked" => Marking)
      BY <3>1, Running
    <3>3. job.todo \subseteq job.files /\ job.todo \subseteq File /\ job.new \in Vault
      BY <2>2, <3>2, Shapes DEF Between
    <3>4. f \in job.todo
      <4>1. job.todo \subseteq Nat  BY <3>3, Numbers
      <4> QED  BY <3>1, <4>1, MinIs
    <3> HIDE DEF f
    <3>5. p = f /\ vault'.note[p] = job.new.note[p]
      <4>1. /\ f = Index => vault'.note = vault.note
            /\ f \in Path => vault'.note[f] = job.new.note[f]
            /\ \A q \in Path \ {f} : vault'.note[q] = vault.note[q]
        BY <2>2, <3>1, <3>3, <3>4, PutTyped
      <4> QED  BY <4>1 DEF Live
    <3>6. p \in job.todo /\ p \in job.files /\ p # Index /\ p # Draft
      BY <3>3, <3>4, <3>5, Numbers
    <3>7. vault.note[p] = job.backup.note[p]  BY <3>1, <3>2, <3>6 DEF Between
    <3>8. CASE job.state = "marked"
      <4>1. Alike(job.new.note[p], job.backup.note[p])  BY <3>2, <3>8 DEF Marking
      <4> QED  BY <3>5, <3>7, <4>1 DEF Alike, Live
    <3>9. CASE job.state # "marked"
      <4>1. p \in Path \cap {job.old, job.next}  BY <3>2, <3>6, <3>9, Numbers DEF Plans
      <4>2. job.new.note[p].status = "deprecated" \/ job.backup.note[p] \in {NoNote, job.new.note[p]}
        BY <3>2, <3>9, <4>1 DEF Plans
      <4> QED  BY <3>5, <3>7, <4>2 DEF Live
    <3> QED  BY <3>8, <3>9
  <2>5. CASE UndoNext
    <3> DEFINE f == Min(job.todo)
    <3>1. job.pc = "undoing" /\ job.todo # {} /\ Put(f, job.backup)  BY <2>1, <2>5 DEF UndoNext
    <3>2. job.todo \subseteq File /\ job.backup \in Vault  BY <2>2, Shapes
    <3>3. f \in job.todo
      <4>1. job.todo \subseteq Nat  BY <3>2, Numbers
      <4> QED  BY <3>1, <4>1, MinIs
    <3> HIDE DEF f
    <3>4. /\ f \in Path => vault'.note[f] = job.backup.note[f]
          /\ \A q \in Path \ {f} : vault'.note[q] = vault.note[q]
      BY <2>2, <3>1, <3>2, <3>3, PutTyped
    <3> QED  BY <3>1, <3>4 DEF Live
  <2>6. ASSUME UNCHANGED vault PROVE FALSE  BY <2>1, <2>6
  <2>7. ASSUME NEW c \in Candidate,
               \/ SourceChanges(c) \/ MarkSourceDrift(c)
               \/ (\E basis \in Inspected : Propose(c, basis))
               \/ AcceptBegins(c) \/ RejectBegins(c)
        PROVE  UNCHANGED vault
    BY <2>7 DEF SourceChanges, MarkSourceDrift, Propose, AcceptBegins, RejectBegins
  <2>8. Finishes \/ MarkingEnds \/ WriteFails \/ UndoFails \/ Interrupted => UNCHANGED vault
    BY DEF Finishes, MarkingEnds, WriteFails, UndoFails, Interrupted
  <2>9. UNCHANGED vars => UNCHANGED vault  BY DEF vars
  <2> QED  BY <2>3, <2>4, <2>5, <2>6, <2>7, <2>8, <2>9 DEF Next, Publishing
<1>2. (\A p \in Path : Withdrawn(p)) => [\A p \in Path : ~Live(p) /\ Live(p)' =>
             \/ vault.note[p] = NoNote
             \/ job.pc = "undoing" /\ job.backup.note[p] = vault'.note[p]]_vars
  OBVIOUS
<1> HIDE DEF Withdrawn
<1> QED  BY <1>1, <1>2, PublicationInvariant, PTL DEF Spec, NeverResurfaces

-------------------------------------------------------------------------------
(* internal/catalogue.                                                       *)

\* An entry that is not "none" has been registered, and one that is active has a
\* revision somebody answered for.
Sound(reg, answered) ==
  \A s \in Source :
    /\ reg[s].status = "none" => reg[s] = NoEntry
    /\ reg[s].status = "active" => reg[s].revision \in answered[s] \cup {Unreadable}

\* So it is in every file and in every command's hands.
RegistersSound ==
  /\ files.register # Torn => Sound(files.register, reviewed)
  /\ files.tmp \notin {Torn, NoFile} => Sound(files.tmp, reviewed)
  /\ \A p \in Process : Sound(command[p].reg, reviewed)

\* Who has opened a file has a handle on one, by whatever name.
OpenedHas == \A p \in Process : command[p].pc = "opened" => command[p].fd # "none"

\* How far a command that runs alone has got, with the files f and the views v.
InStep(c, f, v) ==
  /\ c.pc \in {"loaded", "opened", "written"} =>
       \A s \in Source : c.reg[s] = NoEntry => f.register[s] = NoEntry
  /\ c.pc = "opened" => c.fd = "tmp" /\ f.tmp = Torn
  /\ c.pc = "written" => f.tmp = c.reg
  /\ c.pc = "viewing" => /\ f.register = c.reg /\ c.todo \subseteq Registered(c.reg)
                         /\ \A s \in Source \ c.todo : v[s] = c.reg[s].status

\* Of commands that do not overlap there is one at a time, in step with the files.
Unviewed == \A s \in Source : files.register[s] = NoEntry => view[s] = "none"
ViewsTrue == \A s \in Source : view[s] = files.register[s].status
Alone ==
  last # "overlapped" =>
    /\ files.register # Torn /\ Unviewed
    /\ \A p, q \in Process : command[p] # Idle /\ command[q] # Idle => p = q
    /\ \A p \in Process : InStep(command[p], files, view)
    /\ last = "views" /\ (\A p \in Process : command[p] = Idle) => ViewsTrue

CatalogueInv == CatalogueTypeOK /\ RegistersSound /\ OpenedHas /\ Alone

\* What is not registered is an entry, and an idle command one.
LEMMA Blanks ==
  /\ NoEntry \in Entry /\ NoEntry.status = "none" /\ NoEntry.revision = Unreadable
  /\ [s \in Source |-> NoEntry] \in Register
  /\ Idle \in Command /\ Idle.pc = "idle" /\ Idle.fd = "none"
  /\ Idle.reg = [s \in Source |-> NoEntry]
<1>1. Unreadable \in Content  BY CatalogueAssumption DEF Content, Unreadable
<1>2. NoEntry \in Entry /\ NoEntry.status = "none" /\ NoEntry.revision = Unreadable
  BY <1>1 DEF NoEntry, Entry
<1>3. [s \in Source |-> NoEntry] \in Register  BY <1>2 DEF Register
<1>4. Idle \in Command  BY <1>3 DEF Idle, Command, Handle
<1> QED  BY <1>2, <1>3, <1>4 DEF Idle

LEMMA InitCatalogueInv == CatalogueInit => CatalogueInv
<1> SUFFICES ASSUME CatalogueInit PROVE CatalogueInv  OBVIOUS
<1> USE Blanks
<1> DEFINE none == [s \in Source |-> NoEntry]
<1>1. files.register = none /\ files.tmp = NoFile /\ \A p \in Process : command[p] = Idle
  BY DEF CatalogueInit
<1>2. content \in [Source -> Content]
  <2>1. 1 .. MaxContent \subseteq Content  BY CatalogueAssumption DEF Content, Unreadable
  <2> QED  BY <2>1 DEF CatalogueInit
<1>3. files \in [register : Register \cup {Torn}, tmp : Register \cup {Torn, NoFile}]
  BY DEF CatalogueInit
<1>4. /\ view \in [Source -> {"none", "active", "needs_review"}] /\ current \subseteq Source
      /\ command \in [Process -> Command] /\ kills \in 0 .. MaxKills
      /\ reviewed \in [Source -> SUBSET (1 .. MaxContent)]
      /\ last \in {"nothing", "views", "overlapped"}
  BY CatalogueAssumption DEF CatalogueInit
<1>5. CatalogueTypeOK  BY <1>2, <1>3, <1>4 DEF CatalogueTypeOK
<1>6. RegistersSound  BY <1>1 DEF RegistersSound, Sound
<1>7. OpenedHas  BY <1>1 DEF OpenedHas
<1>8. Alone
  <2>1. files.register # Torn  BY <1>1, TornAssumption
  <2>2. Unviewed  BY DEF CatalogueInit, Unviewed
  <2>3. \A p \in Process : InStep(command[p], files, view)  BY <1>1 DEF InStep
  <2>4. last = "nothing"  BY DEF CatalogueInit
  <2> QED  BY <1>1, <2>1, <2>2, <2>3, <2>4 DEF Alone
<1> QED  BY <1>5, <1>6, <1>7, <1>8 DEF CatalogueInv

\* What an observation makes of a sound entry.
LEMMA ObservedSound ==
  ASSUME NEW s \in Source, NEW e \in Entry, NEW c \in Content, NEW R,
         e.status = "none" => e = NoEntry,
         e.status = "active" => e.revision \in R \cup {Unreadable}
  PROVE  /\ Observed(e, c) \in Entry /\ Observed(e, c).status # "none"
         /\ Observed(e, c).status = "active" =>
              Observed(e, c).revision \in R \cup Unasked(s, e, c) \cup {Unreadable}
<1> USE Blanks
<1> DEFINE st == driftStatus(e.status, e.revision, c)
<1>1. Observed(e, c).status = st /\ Observed(e, c).revision = c  BY DEF Observed
<1>2. CASE e.revision = Unreadable
  <2>1. st = "active"  BY <1>2 DEF driftStatus
  <2>2. c \in Unasked(s, e, c) \cup {Unreadable}  BY <1>2 DEF Unasked
  <2> HIDE DEF st
  <2> QED  BY <1>1, <2>1, <2>2 DEF Observed, Entry, st
<1>3. CASE e.revision # Unreadable /\ e.revision # c
  <2>1. st = "needs_review"  BY <1>3 DEF driftStatus
  <2> HIDE DEF st
  <2> QED  BY <1>1, <2>1 DEF Observed, Entry, st
<1>4. CASE e.revision # Unreadable /\ e.revision = c
  <2>1. st = e.status  BY <1>4 DEF driftStatus
  <2>2. e.status # "none"  BY <1>4
  <2>3. e.status \in {"none", "active", "needs_review"}  BY DEF Entry
  <2> HIDE DEF st
  <2> QED  BY <1>1, <1>4, <2>1, <2>2, <2>3 DEF Observed, Entry, st
<1> QED  BY <1>2, <1>3, <1>4

\* What was answered for stays answered for.
LEMMA SoundGrows ==
  ASSUME NEW reg, NEW old, NEW new, Sound(reg, old), \A s \in Source : old[s] \subseteq new[s]
  PROVE  Sound(reg, new)
BY DEF Sound

\* A step that neither changes a file nor a command, and takes back no answer.
LEMMA FilesStay ==
  ASSUME CatalogueInv, UNCHANGED <<files, view, command, reviewed, last>>
  PROVE  RegistersSound' /\ OpenedHas' /\ Alone'
BY DEF CatalogueInv, RegistersSound, OpenedHas, Alone, Unviewed, ViewsTrue

\* Beside a command that runs alone the others are idle.
LEMMA OthersIdle ==
  ASSUME CatalogueInv, NEW p \in Process, command[p].pc # "idle", last # "overlapped"
  PROVE  /\ \A q \in Process \ {p} : command[q] = Idle
         /\ InStep(command[p], files, view) /\ files.register # Torn /\ Unviewed
<1>1. command[p] # Idle  BY Blanks
<1> QED  BY <1>1 DEF CatalogueInv, Alone

\* One command's step, when the others are idle and stay so.
LEMMA AloneKept ==
  ASSUME CatalogueInv, NEW p \in Process,
         last' # "overlapped" =>
           /\ \A q \in Process \ {p} : command'[q] = Idle
           /\ files'.register # Torn /\ Unviewed' /\ InStep(command'[p], files', view')
           /\ last' = "views" /\ command'[p] = Idle => ViewsTrue'
  PROVE  Alone'
<1> SUFFICES ASSUME last' # "overlapped"
             PROVE  /\ files'.register # Torn /\ Unviewed'
                    /\ \A q, r \in Process : command'[q] # Idle /\ command'[r] # Idle => q = r
                    /\ \A q \in Process : InStep(command'[q], files', view')
                    /\ last' = "views" /\ (\A q \in Process : command'[q] = Idle) => ViewsTrue'
  BY DEF Alone
<1>1. \A q \in Process : InStep(command'[q], files', view')
  <2>1. InStep(Idle, files', view')  BY Blanks DEF InStep
  <2> QED  BY <2>1
<1> QED  BY <1>1

\* A command that has loaded the register changes an entry in its hands.
LEMMA EntryChanged ==
  ASSUME CatalogueInv, NEW p \in Process, NEW s \in Source, NEW e \in Entry,
         command[p].pc = "loaded", Becomes(p, s, e), e.status # "none",
         e.status = "active" => e.revision \in reviewed'[s] \cup {Unreadable},
         reviewed' \in [Source -> SUBSET (1 .. MaxContent)],
         \A r \in Source : reviewed[r] \subseteq reviewed'[r],
         UNCHANGED <<content, files, view, kills, last>>, current' \subseteq Source
  PROVE  CatalogueInv'
<1> DEFINE c == command[p]
           new == [c EXCEPT !.reg[s] = e, !.todo = @ \ {s}]
<1>1. c \in Command /\ c.reg \in Register  BY DEF CatalogueInv, CatalogueTypeOK, Command
<1>2. command' = [command EXCEPT ![p] = new]  BY DEF Becomes
<1>3. /\ new.pc = "loaded" /\ new.fd = c.fd /\ new.reg = [c.reg EXCEPT ![s] = e]
      /\ new \in Command
  BY <1>1 DEF Command, Register
<1> HIDE DEF new
<1>4. /\ command' \in [Process -> Command] /\ command'[p] = new
      /\ \A q \in Process \ {p} : command'[q] = command[q]
  BY <1>2, <1>3 DEF CatalogueInv, CatalogueTypeOK
<1>5. CatalogueTypeOK'  BY <1>4 DEF CatalogueInv, CatalogueTypeOK
<1>6. RegistersSound'
  <2>1. \A q \in Process : Sound(command[q].reg, reviewed')
    BY SoundGrows DEF CatalogueInv, RegistersSound
  <2>2. Sound(new.reg, reviewed')
    <3>1. Sound(c.reg, reviewed')  BY <2>1
    <3>2. new.reg[s] = e /\ \A r \in Source \ {s} : new.reg[r] = c.reg[r]
      BY <1>1, <1>3 DEF Register
    <3> HIDE DEF c
    <3> QED  BY <3>1, <3>2 DEF Sound
  <2>3. \A q \in Process : Sound(command'[q].reg, reviewed')  BY <1>4, <2>1, <2>2
  <2>4. /\ files.register # Torn => Sound(files.register, reviewed')
        /\ files.tmp \notin {Torn, NoFile} => Sound(files.tmp, reviewed')
    BY SoundGrows DEF CatalogueInv, RegistersSound
  <2> QED  BY <2>3, <2>4 DEF RegistersSound
<1>7. OpenedHas'  BY <1>3, <1>4 DEF CatalogueInv, OpenedHas
<1>8. Alone'
  <2>1. ASSUME last # "overlapped"
        PROVE  /\ \A q \in Process \ {p} : command'[q] = Idle
               /\ files.register # Torn /\ Unviewed /\ InStep(command'[p], files, view)
    <3>1. /\ \A q \in Process \ {p} : command[q] = Idle
          /\ InStep(command[p], files, view) /\ files.register # Torn /\ Unviewed
      BY <2>1, OthersIdle
    <3>2. \A r \in Source : new.reg[r] = NoEntry => c.reg[r] = NoEntry
      BY <1>1, <1>3, Blanks DEF Register
    <3>3. InStep(new, files, view)  BY <1>3, <3>1, <3>2 DEF InStep
    <3> QED  BY <1>4, <3>1, <3>3
  <2>2. command'[p] # Idle  BY <1>3, <1>4, Blanks
  <2> QED  BY <2>1, <2>2, AloneKept DEF Unviewed
<1> QED  BY <1>5, <1>6, <1>7, <1>8 DEF CatalogueInv

\* A command changes its own state and no file.
LEMMA CommandTyped ==
  ASSUME CatalogueInv, NEW p \in Process, NEW new \in Command,
         command' = [command EXCEPT ![p] = new]
  PROVE  /\ command' \in [Process -> Command] /\ command'[p] = new
         /\ \A q \in Process \ {p} : command'[q] = command[q]
BY DEF CatalogueInv, CatalogueTypeOK

LEMMA HandsSound ==
  ASSUME CatalogueInv, NEW p \in Process, NEW new \in Command,
         command' = [command EXCEPT ![p] = new], UNCHANGED <<files, reviewed>>,
         Sound(new.reg, reviewed), new.pc = "opened" => new.fd # "none"
  PROVE  RegistersSound' /\ OpenedHas'
<1>1. /\ command'[p] = new /\ \A q \in Process \ {p} : command'[q] = command[q]
  BY CommandTyped
<1> QED  BY <1>1 DEF CatalogueInv, RegistersSound, OpenedHas

LEMMA LoadsKeeps ==
  ASSUME CatalogueInv, NEW p \in Process, NEW does \in {"register", "ack"} \cup Refresh,
         NEW todo \in SUBSET Source, Loads(p, does, todo)
  PROVE  CatalogueInv'
<1> DEFINE new == [Idle EXCEPT !.pc = "loaded", !.does = does, !.todo = todo, !.reg = Saved]
<1>1. files.register \in Register /\ files.register # Torn /\ Saved = files.register
  BY DEF Loads, Readable, Saved, CatalogueInv, CatalogueTypeOK
<1>2. new \in Command /\ new.pc = "loaded" /\ new.reg = files.register
  BY <1>1, Blanks DEF Command, Idle
<1>3. /\ command' = [command EXCEPT ![p] = new]
      /\ UNCHANGED <<content, files, view, current, kills, reviewed>>
  BY DEF Loads
<1> HIDE DEF new
<1>4. /\ command' \in [Process -> Command] /\ command'[p] = new
      /\ \A q \in Process \ {p} : command'[q] = command[q]
  BY <1>2, <1>3, CommandTyped
<1>5. last' \in {last, "overlapped"}  BY DEF Loads
<1>6. CatalogueTypeOK'  BY <1>3, <1>4, <1>5 DEF CatalogueInv, CatalogueTypeOK
<1>7. RegistersSound' /\ OpenedHas'
  <2>1. Sound(new.reg, reviewed)  BY <1>1, <1>2 DEF CatalogueInv, RegistersSound
  <2> QED  BY <1>2, <1>3, <2>1, HandsSound
<1>8. Alone'
  <2>1. ASSUME last' # "overlapped"
        PROVE  /\ \A q \in Process \ {p} : command'[q] = Idle
               /\ files'.register # Torn /\ Unviewed' /\ InStep(command'[p], files', view')
    <3>1. last # "overlapped" /\ \A q \in Process \ {p} : command[q] = Idle
      BY <2>1 DEF Loads
    <3>2. Unviewed  BY <3>1 DEF CatalogueInv, Alone
    <3>3. InStep(new, files, view)  BY <1>2 DEF InStep
    <3> QED  BY <1>1, <1>3, <1>4, <3>1, <3>2, <3>3 DEF Unviewed
  <2>2. command'[p] # Idle  BY <1>2, <1>4, Blanks
  <2> QED  BY <2>1, <2>2, AloneKept
<1> QED  BY <1>6, <1>7, <1>8 DEF CatalogueInv

LEMMA OpensKeeps ==
  ASSUME CatalogueInv, NEW p \in Process, Opens(p)
  PROVE  CatalogueInv'
<1> DEFINE c == command[p]
           new == [c EXCEPT !.pc = "opened", !.fd = "tmp"]
<1>1. c \in Command  BY DEF CatalogueInv, CatalogueTypeOK
<1>2. /\ new \in Command /\ new.pc = "opened" /\ new.fd = "tmp" /\ new.reg = c.reg
  BY <1>1 DEF Command, Handle
<1>3. /\ command' = [command EXCEPT ![p] = new] /\ files' = [files EXCEPT !.tmp = Torn]
      /\ c.pc = "loaded" /\ UNCHANGED <<content, view, current, kills, reviewed, last>>
  BY DEF Opens
<1>4. /\ files'.register = files.register /\ files'.tmp = Torn
      /\ files' \in [register : Register \cup {Torn}, tmp : Register \cup {Torn, NoFile}]
  BY <1>3 DEF CatalogueInv, CatalogueTypeOK
<1> HIDE DEF new
<1>5. /\ command' \in [Process -> Command] /\ command'[p] = new
      /\ \A q \in Process \ {p} : command'[q] = command[q]
  BY <1>2, <1>3, CommandTyped
<1>6. CatalogueTypeOK'  BY <1>3, <1>4, <1>5 DEF CatalogueInv, CatalogueTypeOK
<1>7. RegistersSound'
  BY <1>2, <1>3, <1>4, <1>5 DEF CatalogueInv, RegistersSound
<1>8. OpenedHas'  BY <1>2, <1>5 DEF CatalogueInv, OpenedHas
<1>9. Alone'
  <2>1. ASSUME last # "overlapped"
        PROVE  /\ \A q \in Process \ {p} : command'[q] = Idle
               /\ files'.register # Torn /\ Unviewed' /\ InStep(command'[p], files', view')
    <3>1. /\ \A q \in Process \ {p} : command[q] = Idle
          /\ InStep(c, files, view) /\ files.register # Torn /\ Unviewed
      BY <1>3, <2>1, OthersIdle
    <3>2. InStep(new, files', view)  BY <1>2, <1>3, <1>4, <3>1 DEF InStep
    <3> QED  BY <1>3, <1>4, <1>5, <3>1, <3>2 DEF Unviewed
  <2>2. command'[p] # Idle  BY <1>2, <1>5, Blanks
  <2> QED  BY <1>3, <2>1, <2>2, AloneKept
<1> QED  BY <1>6, <1>7, <1>8, <1>9 DEF CatalogueInv

\* What is written into the file behind a handle.
LEMMA WritesKeeps ==
  ASSUME CatalogueInv, NEW p \in Process, Writes(p)
  PROVE  CatalogueInv'
<1> DEFINE c == command[p]
           new == [c EXCEPT !.pc = "written"]
<1>1. c \in Command /\ c.pc = "opened" /\ c.fd \in {"tmp", "register", "gone"}
  BY DEF Writes, CatalogueInv, CatalogueTypeOK, OpenedHas, Command, Handle
<1>2. new \in Command /\ new.pc = "written" /\ new.reg = c.reg
  BY <1>1 DEF Command
<1>3. /\ command' = [command EXCEPT ![p] = new]
      /\ UNCHANGED <<content, view, current, kills, reviewed, last>>
  BY DEF Writes
<1> HIDE DEF new
<1>4. /\ command' \in [Process -> Command] /\ command'[p] = new
      /\ \A q \in Process \ {p} : command'[q] = command[q]
  BY <1>2, <1>3, CommandTyped
<1>5. /\ files' \in [register : Register \cup {Torn}, tmp : Register \cup {Torn, NoFile}]
      /\ files'.register \in {files.register, c.reg, Torn}
      /\ files'.tmp \in {files.tmp, c.reg, Torn}
      /\ c.fd = "tmp" => /\ files'.register = files.register
                         /\ files.tmp = Torn => files'.tmp = c.reg
  <2>1. files \in [register : Register \cup {Torn}, tmp : Register \cup {Torn, NoFile}]
    BY DEF CatalogueInv, CatalogueTypeOK
  <2>2. c.reg \in Register  BY <1>1 DEF Command
  <2>3. CASE c.fd = "gone"  BY <2>1, <2>3 DEF Writes
  <2>4. CASE c.fd = "tmp"
    <3>1. PICK text \in Over(files.tmp, c.reg) : files' = [files EXCEPT !.tmp = text]
      BY <2>4 DEF Writes
    <3>2. text \in {c.reg, Torn} /\ (files.tmp = Torn => text = c.reg)  BY <3>1 DEF Over
    <3> QED  BY <2>1, <2>2, <2>4, <3>1, <3>2
  <2>5. CASE c.fd = "register"
    <3>1. PICK text \in Over(files.register, c.reg) : files' = [files EXCEPT !.register = text]
      BY <2>5 DEF Writes
    <3>2. text \in {c.reg, Torn}  BY <3>1 DEF Over
    <3> QED  BY <2>1, <2>2, <2>5, <3>1, <3>2
  <2> QED  BY <1>1, <2>3, <2>4, <2>5
<1>6. CatalogueTypeOK'  BY <1>3, <1>4, <1>5 DEF CatalogueInv, CatalogueTypeOK
<1>7. RegistersSound'
  <2>1. Sound(c.reg, reviewed)  BY DEF CatalogueInv, RegistersSound
  <2>2. files'.register # Torn => Sound(files'.register, reviewed)
    BY <1>5, <2>1 DEF CatalogueInv, RegistersSound
  <2>3. files'.tmp \notin {Torn, NoFile} => Sound(files'.tmp, reviewed)
    BY <1>5, <2>1 DEF CatalogueInv, RegistersSound
  <2>4. \A q \in Process : Sound(command'[q].reg, reviewed)
    BY <1>2, <1>4 DEF CatalogueInv, RegistersSound
  <2> QED  BY <1>3, <2>2, <2>3, <2>4 DEF RegistersSound
<1>8. OpenedHas'  BY <1>2, <1>4 DEF CatalogueInv, OpenedHas
<1>9. Alone'
  <2>1. ASSUME last # "overlapped"
        PROVE  /\ \A q \in Process \ {p} : command'[q] = Idle
               /\ files'.register # Torn /\ Unviewed' /\ InStep(command'[p], files', view')
    <3>1. /\ \A q \in Process \ {p} : command[q] = Idle
          /\ InStep(c, files, view) /\ files.register # Torn /\ Unviewed
      BY <1>1, <2>1, OthersIdle
    <3>2. c.fd = "tmp" /\ files'.register = files.register /\ files'.tmp = c.reg
      BY <1>1, <1>5, <3>1 DEF InStep
    <3>3. InStep(new, files', view)  BY <1>1, <1>2, <3>1, <3>2 DEF InStep
    <3> QED  BY <1>3, <1>4, <3>1, <3>2, <3>3 DEF Unviewed
  <2>2. command'[p] # Idle  BY <1>2, <1>4, Blanks
  <2> QED  BY <1>3, <2>1, <2>2, AloneKept
<1> QED  BY <1>6, <1>7, <1>8, <1>9 DEF CatalogueInv

\* Who has a file open still has it when another is given its name.
LEMMA RenamedIs ==
  ASSUME NEW c \in Command
  PROVE  /\ Renamed(c) \in Command /\ Renamed(c).reg = c.reg /\ Renamed(c).pc = c.pc
         /\ c.fd # "none" => Renamed(c).fd # "none"
         /\ Renamed(Idle) = Idle
<1> DEFINE fd == CASE c.fd = "tmp" -> "register" [] c.fd = "register" -> "gone" [] OTHER -> c.fd
<1>1. c.fd \in {"none", "tmp", "register", "gone"}  BY DEF Command, Handle
<1>2. fd \in Handle /\ (c.fd # "none" => fd # "none")  BY <1>1 DEF Handle
<1>3. Renamed(c) = [c EXCEPT !.fd = fd]  BY DEF Renamed
<1> HIDE DEF fd
<1>4. /\ Renamed(c) \in Command /\ Renamed(c).reg = c.reg /\ Renamed(c).pc = c.pc
      /\ Renamed(c).fd = fd
  BY <1>2, <1>3 DEF Command
<1>5. Renamed(Idle) = Idle
  <2>1. Renamed(Idle) = [Idle EXCEPT !.fd = "none"]  BY Blanks DEF Renamed
  <2> QED  BY <2>1, Blanks DEF Idle
<1> QED  BY <1>2, <1>4, <1>5

LEMMA RenamesKeeps ==
  ASSUME CatalogueInv, NEW p \in Process, NEW views \in BOOLEAN, Renames(p, views)
  PROVE  CatalogueInv'
<1> DEFINE c == command[p]
           new == IF views THEN [c EXCEPT !.pc = "viewing", !.fd = "none",
                                          !.todo = Registered(c.reg)]
                  ELSE Idle
<1>1. c \in Command /\ c.pc = "written"
  BY DEF Renames, CatalogueInv, CatalogueTypeOK
<1>2. /\ new \in Command /\ new.pc = (IF views THEN "viewing" ELSE "idle")
      /\ views => new.reg = c.reg /\ new.todo = Registered(c.reg)
      /\ ~views => new = Idle
  <2>1. Registered(c.reg) \in SUBSET Source  BY DEF Registered
  <2>2. CASE views  BY <1>1, <2>1, <2>2 DEF Command, Handle
  <2>3. CASE ~views  BY <2>3, Blanks
  <2> QED  BY <2>2, <2>3
<1>3. /\ views => files.tmp # NoFile
      /\ files' = IF files.tmp = NoFile THEN files ELSE [register |-> files.tmp, tmp |-> NoFile]
      /\ command' = [q \in Process |-> IF q = p THEN new
                       ELSE IF files.tmp = NoFile THEN command[q] ELSE Renamed(command[q])]
      /\ last' = IF new = Idle /\ last # "overlapped" THEN "nothing" ELSE last
      /\ UNCHANGED <<content, view, current, kills, reviewed>>
  BY DEF Renames
<1> HIDE DEF new
<1>4. /\ command' \in [Process -> Command] /\ command'[p] = new
      /\ \A q \in Process \ {p} : command'[q] \in {command[q], Renamed(command[q])}
  BY <1>2, <1>3, RenamedIs DEF CatalogueInv, CatalogueTypeOK
<1>5. \A q \in Process : command[q] \in Command  BY DEF CatalogueInv, CatalogueTypeOK
<1>6. /\ files' \in [register : Register \cup {Torn}, tmp : Register \cup {Torn, NoFile}]
      /\ files'.register \in {files.register, files.tmp} /\ files'.tmp \in {files.tmp, NoFile}
      /\ files'.register # files.register => files'.register # NoFile
  BY <1>3 DEF CatalogueInv, CatalogueTypeOK
<1>7. CatalogueTypeOK'
  <2>1. last' \in {"nothing", "views", "overlapped"}
    BY <1>3 DEF CatalogueInv, CatalogueTypeOK
  <2> QED  BY <1>3, <1>4, <1>6, <2>1 DEF CatalogueInv, CatalogueTypeOK
<1>8. RegistersSound'
  <2>1. files'.register # Torn => Sound(files'.register, reviewed)
    BY <1>6 DEF CatalogueInv, RegistersSound
  <2>2. files'.tmp \notin {Torn, NoFile} => Sound(files'.tmp, reviewed)
    BY <1>6 DEF CatalogueInv, RegistersSound
  <2>3. ASSUME NEW q \in Process PROVE Sound(command'[q].reg, reviewed)
    <3>1. CASE q = p
      <4>1. Sound(c.reg, reviewed)  BY DEF CatalogueInv, RegistersSound
      <4>2. Sound(Idle.reg, reviewed)  BY Blanks DEF Sound
      <4> QED  BY <1>2, <1>4, <3>1, <4>1, <4>2
    <3>2. CASE q # p
      <4>1. command'[q].reg = command[q].reg  BY <1>4, <1>5, <3>2, RenamedIs
      <4> QED  BY <4>1 DEF CatalogueInv, RegistersSound
    <3> QED  BY <3>1, <3>2
  <2> QED  BY <1>3, <2>1, <2>2, <2>3 DEF RegistersSound
<1>9. OpenedHas'
  <2> SUFFICES ASSUME NEW q \in Process, command'[q].pc = "opened"
               PROVE  command'[q].fd # "none"
    BY DEF OpenedHas
  <2>1. q # p  BY <1>2, <1>4
  <2>2. command[q].pc = "opened" /\ command[q].fd # "none"
    BY <1>4, <1>5, <2>1, RenamedIs DEF CatalogueInv, OpenedHas
  <2> QED  BY <1>4, <1>5, <2>1, <2>2, RenamedIs
<1>10. Alone'
  <2> SUFFICES ASSUME last # "overlapped"
               PROVE  /\ \A q \in Process \ {p} : command'[q] = Idle
                      /\ files'.register # Torn /\ Unviewed' /\ InStep(command'[p], files', view')
                      /\ last' = "views" => command'[p] # Idle
    <3>1. last = "overlapped" => last' = "overlapped"  BY <1>3
    <3> QED  BY <3>1, AloneKept
  <2>1. /\ \A q \in Process \ {p} : command[q] = Idle
        /\ InStep(c, files, view) /\ files.register # Torn /\ Unviewed
    BY <1>1, OthersIdle
  <2>2. \A q \in Process \ {p} : command'[q] = Idle
    BY <1>1, <1>4, <2>1, RenamedIs
  <2>3. /\ files.tmp = c.reg /\ c.reg \in Register /\ c.reg # Torn
        /\ \A s \in Source : c.reg[s] = NoEntry => files.register[s] = NoEntry
    BY <1>1, <2>1, TornAssumption DEF InStep, Command
  <2>4. files'.register \in {files.register, c.reg} /\ (views => files'.register = c.reg)
    BY <1>3, <2>3
  <2>5. Unviewed'  BY <1>3, <2>1, <2>3, <2>4 DEF Unviewed
  <2>6. InStep(new, files', view')
    <3>1. CASE views
      <4>1. \A s \in Source \ Registered(c.reg) : view[s] = c.reg[s].status
        BY <2>1, <2>3, Blanks DEF Registered, Unviewed
      <4> QED  BY <1>2, <1>3, <2>4, <3>1, <4>1 DEF InStep
    <3>2. CASE ~views  BY <1>2, <3>2 DEF InStep
    <3> QED  BY <3>1, <3>2
  <2>7. last' = "views" => new # Idle  BY <1>3
  <2> QED  BY <1>4, <2>1, <2>2, <2>3, <2>4, <2>5, <2>6, <2>7
<1> QED  BY <1>7, <1>8, <1>9, <1>10 DEF CatalogueInv

LEMMA WritesViewKeeps ==
  ASSUME CatalogueInv, NEW p \in Process, NEW s \in Source, WritesView(p, s)
  PROVE  CatalogueInv'
<1> DEFINE c == command[p]
           new == [c EXCEPT !.todo = @ \ {s}]
<1>1. c \in Command /\ c.pc = "viewing" /\ s \in c.todo
  BY DEF WritesView, CatalogueInv, CatalogueTypeOK
<1>2. /\ new \in Command /\ new.pc = "viewing" /\ new.reg = c.reg /\ new.todo = c.todo \ {s}
  BY <1>1 DEF Command
<1>3. /\ command' = [command EXCEPT ![p] = new]
      /\ view' = [view EXCEPT ![s] = c.reg[s].status]
      /\ UNCHANGED <<content, files, current, kills, reviewed, last>>
  BY DEF WritesView
<1> HIDE DEF new
<1>4. /\ command' \in [Process -> Command] /\ command'[p] = new
      /\ \A q \in Process \ {p} : command'[q] = command[q]
  BY <1>2, <1>3, CommandTyped
<1>5. /\ view' \in [Source -> {"none", "active", "needs_review"}]
      /\ view'[s] = c.reg[s].status /\ \A r \in Source \ {s} : view'[r] = view[r]
  <2>1. c.reg[s].status \in {"none", "active", "needs_review"}
    BY <1>1 DEF Command, Register, Entry
  <2> QED  BY <1>3, <2>1 DEF CatalogueInv, CatalogueTypeOK
<1>6. CatalogueTypeOK'  BY <1>3, <1>4, <1>5 DEF CatalogueInv, CatalogueTypeOK
<1>7. RegistersSound' /\ OpenedHas'
  <2>1. Sound(new.reg, reviewed)  BY <1>2 DEF CatalogueInv, RegistersSound
  <2> QED  BY <1>2, <1>3, <2>1, HandsSound
<1>8. Alone'
  <2>1. ASSUME last # "overlapped"
        PROVE  /\ \A q \in Process \ {p} : command'[q] = Idle
               /\ files'.register # Torn /\ Unviewed' /\ InStep(command'[p], files', view')
    <3>1. /\ \A q \in Process \ {p} : command[q] = Idle
          /\ InStep(c, files, view) /\ files.register # Torn /\ Unviewed
      BY <1>1, <2>1, OthersIdle
    <3>2. /\ files.register = c.reg /\ c.reg[s] # NoEntry /\ c.todo \subseteq Registered(c.reg)
          /\ \A r \in Source \ c.todo : view[r] = c.reg[r].status
      BY <1>1, <3>1 DEF InStep, Registered
    <3>3. InStep(new, files', view')
      BY <1>2, <1>3, <1>5, <3>2 DEF InStep
    <3>4. Unviewed'  BY <1>3, <1>5, <3>1, <3>2 DEF Unviewed
    <3> QED  BY <1>3, <1>4, <3>1, <3>3, <3>4
  <2>2. command'[p] # Idle  BY <1>2, <1>4, Blanks
  <2> QED  BY <1>3, <2>1, <2>2, AloneKept
<1> QED  BY <1>6, <1>7, <1>8 DEF CatalogueInv

\* A command that is over, at its end or before.
LEMMA Stops ==
  ASSUME CatalogueInv, NEW p \in Process, command[p] # Idle,
         command' = [command EXCEPT ![p] = Idle],
         UNCHANGED <<content, files, view, current, reviewed>>,
         kills' \in 0 .. MaxKills,
         \/ last' = "overlapped"
         \/ last' = "nothing" /\ last # "overlapped"
         \/ last' = "views" /\ last # "overlapped" /\ ViewsTrue
  PROVE  CatalogueInv'
<1>1. /\ command' \in [Process -> Command] /\ command'[p] = Idle
      /\ \A q \in Process \ {p} : command'[q] = command[q]
  BY Blanks, CommandTyped
<1>2. CatalogueTypeOK'  BY <1>1 DEF CatalogueInv, CatalogueTypeOK
<1>3. RegistersSound' /\ OpenedHas'
  <2>1. Sound(Idle.reg, reviewed)  BY Blanks DEF Sound
  <2> QED  BY <2>1, Blanks, HandsSound
<1>4. Alone'
  <2>1. ASSUME last # "overlapped"
        PROVE  /\ \A q \in Process \ {p} : command'[q] = Idle
               /\ files'.register # Torn /\ Unviewed' /\ InStep(command'[p], files', view')
    <3>1. /\ \A q \in Process \ {p} : command[q] = Idle
          /\ files.register # Torn /\ Unviewed
      BY <2>1 DEF CatalogueInv, Alone
    <3>2. InStep(Idle, files, view)  BY Blanks DEF InStep
    <3> QED  BY <1>1, <3>1, <3>2 DEF Unviewed
  <2>2. last' = "views" => ViewsTrue'  BY DEF ViewsTrue
  <2> QED  BY <2>1, <2>2, AloneKept
<1> QED  BY <1>2, <1>3, <1>4 DEF CatalogueInv

LEMMA NextCatalogueInv == CatalogueInv /\ [CatalogueNext]_catalogueVars => CatalogueInv'
<1> SUFFICES ASSUME CatalogueInv, [CatalogueNext]_catalogueVars PROVE CatalogueInv'  OBVIOUS
<1>1. ASSUME NEW s \in Source, Changes(s) PROVE CatalogueInv'
  <2>1. CatalogueTypeOK'  BY <1>1 DEF CatalogueInv, CatalogueTypeOK, Changes
  <2> QED  BY <1>1, <2>1, FilesStay DEF CatalogueInv, Changes
<1>2. ASSUME NEW s \in Source, NotePublished(s) PROVE CatalogueInv'
  <2>1. CatalogueTypeOK'  BY <1>2 DEF CatalogueInv, CatalogueTypeOK, NotePublished
  <2> QED  BY <1>2, <2>1, FilesStay DEF CatalogueInv, NotePublished
<1>3. ASSUME NEW p \in Process, NEW s \in Source, RegisterBegins(p, s) PROVE CatalogueInv'
  BY <1>3, LoadsKeeps DEF RegisterBegins
<1>4. ASSUME NEW p \in Process, NEW s \in Source, AckBegins(p, s) PROVE CatalogueInv'
  BY <1>4, LoadsKeeps DEF AckBegins
<1>5. ASSUME NEW p \in Process, NEW todo \in SUBSET Source, NEW does \in Refresh,
             RefreshBegins(p, does, todo)
      PROVE  CatalogueInv'
  BY <1>5, LoadsKeeps DEF RefreshBegins
<1>6. ASSUME NEW p \in Process, NEW s \in Source
      PROVE  LET e == command[p].reg[s] IN
             /\ e \in Entry /\ content[s] \in Content /\ Unasked(s, e, content[s]) \subseteq 1 .. MaxContent
             /\ e.status = "none" => e = NoEntry
             /\ e.status = "active" => e.revision \in reviewed[s] \cup {Unreadable}
             /\ \A r \in Source : reviewed[r] \subseteq 1 .. MaxContent
             /\ reviewed \in [Source -> SUBSET (1 .. MaxContent)]
  <2> DEFINE e == command[p].reg[s]
  <2>1. e \in Entry  BY DEF CatalogueInv, CatalogueTypeOK, Command, Register
  <2>2. content[s] \in Content /\ reviewed \in [Source -> SUBSET (1 .. MaxContent)]
    BY DEF CatalogueInv, CatalogueTypeOK
  <2>3. Unasked(s, e, content[s]) \subseteq 1 .. MaxContent
    BY <2>2, CatalogueAssumption DEF Unasked, Content, Unreadable
  <2>4. Sound(command[p].reg, reviewed)  BY DEF CatalogueInv, RegistersSound
  <2> QED  BY <2>1, <2>2, <2>3, <2>4 DEF Sound
<1>7. ASSUME NEW p \in Process, NEW s \in Source, RegisterOne(p, s) PROVE CatalogueInv'
  <2> DEFINE e == command[p].reg[s]
             new == IF e = NoEntry THEN [status |-> "active", revision |-> content[s]]
                    ELSE Observed(e, content[s])
  <2>1. /\ command[p].pc = "loaded" /\ Becomes(p, s, new)
        /\ reviewed' = [reviewed EXCEPT ![s] = @ \cup Unasked(s, e, content[s])]
        /\ UNCHANGED <<content, files, view, current, kills, last>>
    BY <1>7 DEF RegisterOne
  <2>2. /\ new \in Entry /\ new.status # "none"
        /\ new.status = "active" =>
             new.revision \in reviewed[s] \cup Unasked(s, e, content[s]) \cup {Unreadable}
    <3>1. CASE e = NoEntry  BY <1>6, <3>1, Blanks DEF Entry, Unasked
    <3>2. CASE e # NoEntry  BY <1>6, <3>2, ObservedSound
    <3> QED  BY <3>1, <3>2
  <2> HIDE DEF new
  <2>3. /\ reviewed' \in [Source -> SUBSET (1 .. MaxContent)]
        /\ reviewed'[s] = reviewed[s] \cup Unasked(s, e, content[s])
        /\ \A r \in Source : reviewed[r] \subseteq reviewed'[r]
    BY <1>6, <2>1
  <2>4. current' \subseteq Source  BY <2>1 DEF CatalogueInv, CatalogueTypeOK
  <2> QED  BY <2>1, <2>2, <2>3, <2>4, EntryChanged
<1>8. ASSUME NEW p \in Process, NEW s \in Source, RefreshOne(p, s) PROVE CatalogueInv'
  <2> DEFINE e == command[p].reg[s]
             new == Observed(e, content[s])
  <2>1. /\ command[p].pc = "loaded" /\ Becomes(p, s, new)
        /\ reviewed' = [reviewed EXCEPT ![s] = @ \cup Unasked(s, e, content[s])]
        /\ current' \subseteq current
        /\ UNCHANGED <<content, files, view, kills, last>>
    BY <1>8 DEF RefreshOne
  <2>2. /\ new \in Entry /\ new.status # "none"
        /\ new.status = "active" =>
             new.revision \in reviewed[s] \cup Unasked(s, e, content[s]) \cup {Unreadable}
    BY <1>6, ObservedSound
  <2> HIDE DEF new
  <2>3. /\ reviewed' \in [Source -> SUBSET (1 .. MaxContent)]
        /\ reviewed'[s] = reviewed[s] \cup Unasked(s, e, content[s])
        /\ \A r \in Source : reviewed[r] \subseteq reviewed'[r]
    BY <1>6, <2>1
  <2>4. current' \subseteq Source  BY <2>1 DEF CatalogueInv, CatalogueTypeOK
  <2> QED  BY <2>1, <2>2, <2>3, <2>4, EntryChanged
<1>9. ASSUME NEW p \in Process, NEW s \in Source, AckOne(p, s) PROVE CatalogueInv'
  <2> DEFINE e == command[p].reg[s]
             new == [e EXCEPT !.status = "active"]
  <2>1. /\ command[p].pc = "loaded" /\ Becomes(p, s, new)
        /\ reviewed' = [reviewed EXCEPT ![s] = @ \cup ({e.revision} \ {Unreadable})]
        /\ UNCHANGED <<content, files, view, current, kills, last>>
    BY <1>9 DEF AckOne
  <2>2. /\ new \in Entry /\ new.status = "active" /\ new.revision = e.revision
        /\ {e.revision} \ {Unreadable} \subseteq 1 .. MaxContent
    <3>1. e \in Entry  BY <1>6
    <3>2. {e.revision} \ {Unreadable} \subseteq 1 .. MaxContent
      BY <3>1, CatalogueAssumption DEF Entry, Content, Unreadable
    <3> QED  BY <3>1, <3>2 DEF Entry
  <2> HIDE DEF new
  <2>3. /\ reviewed' \in [Source -> SUBSET (1 .. MaxContent)]
        /\ reviewed'[s] = reviewed[s] \cup ({e.revision} \ {Unreadable})
        /\ \A r \in Source : reviewed[r] \subseteq reviewed'[r]
    BY <1>6, <2>1, <2>2
  <2>4. current' \subseteq Source  BY <2>1 DEF CatalogueInv, CatalogueTypeOK
  <2> QED  BY <2>1, <2>2, <2>3, <2>4, EntryChanged
<1>10. ASSUME NEW p \in Process, Opens(p) PROVE CatalogueInv'  BY <1>10, OpensKeeps
<1>11. ASSUME NEW p \in Process, Writes(p) PROVE CatalogueInv'  BY <1>11, WritesKeeps
<1>12. ASSUME NEW p \in Process, NEW views \in BOOLEAN, Renames(p, views) PROVE CatalogueInv'
  BY <1>12, RenamesKeeps
<1>13. ASSUME NEW p \in Process, NEW s \in Source, WritesView(p, s) PROVE CatalogueInv'
  BY <1>13, WritesViewKeeps
<1>14. ASSUME NEW p \in Process, Ends(p) PROVE CatalogueInv'
  <2>1. /\ command[p].pc = "viewing" /\ command[p].todo = {} /\ command[p] # Idle
        /\ command' = [command EXCEPT ![p] = Idle]
        /\ last' = IF last = "overlapped" THEN last ELSE "views"
        /\ UNCHANGED <<content, files, view, current, kills, reviewed>>
    BY <1>14, Blanks DEF Ends
  <2>2. last # "overlapped" => ViewsTrue
    <3> SUFFICES ASSUME last # "overlapped" PROVE ViewsTrue  OBVIOUS
    <3>1. InStep(command[p], files, view)  BY <2>1, OthersIdle
    <3> QED  BY <2>1, <3>1 DEF InStep, ViewsTrue
  <2>3. kills' \in 0 .. MaxKills  BY <2>1 DEF CatalogueInv, CatalogueTypeOK
  <2>4. \/ last' = "overlapped"
        \/ last' = "nothing" /\ last # "overlapped"
        \/ last' = "views" /\ last # "overlapped" /\ ViewsTrue
    BY <2>1, <2>2
  <2>5. command[p] # Idle /\ command' = [command EXCEPT ![p] = Idle]  BY <2>1
  <2>6. UNCHANGED <<content, files, view, current, reviewed>>  BY <2>1
  <2> QED  BY <2>3, <2>4, <2>5, <2>6, Stops
<1>15. ASSUME NEW p \in Process, Killed(p) PROVE CatalogueInv'
  <2>1. kills' \in 0 .. MaxKills
    BY <1>15, CatalogueAssumption DEF Killed, CatalogueInv, CatalogueTypeOK
  <2>2. \/ last' = "overlapped"
        \/ last' = "nothing" /\ last # "overlapped"
        \/ last' = "views" /\ last # "overlapped" /\ ViewsTrue
    BY <1>15 DEF Killed
  <2>3. command[p] # Idle /\ command' = [command EXCEPT ![p] = Idle]  BY <1>15 DEF Killed
  <2>4. UNCHANGED <<content, files, view, current, reviewed>>  BY <1>15 DEF Killed
  <2> QED  BY <2>1, <2>2, <2>3, <2>4, Stops
<1>16. CASE UNCHANGED catalogueVars
  <2>1. CatalogueTypeOK'  BY <1>16 DEF CatalogueInv, CatalogueTypeOK, catalogueVars
  <2> QED  BY <1>16, <2>1, FilesStay DEF CatalogueInv, catalogueVars
<1> QED
  BY <1>1, <1>2, <1>3, <1>4, <1>5, <1>7, <1>8, <1>9, <1>10, <1>11, <1>12, <1>13, <1>14,
     <1>15, <1>16 DEF CatalogueNext, Goes

LEMMA CatalogueInvariant == CatalogueSpec => []CatalogueInv
BY InitCatalogueInv, NextCatalogueInv, PTL DEF CatalogueSpec

\* The register, the views and the commands keep their types.
THEOREM CatalogueTypeCorrect == CatalogueSpec => []CatalogueTypeOK
<1>1. CatalogueInv => CatalogueTypeOK  BY DEF CatalogueInv
<1> QED  BY <1>1, CatalogueInvariant, PTL

\* Whatever commands overlap, lose each other's updates or die half-way, what the
\* register calls active somebody has answered for (registry.go, driftStatus and
\* Acknowledge).
THEOREM NothingForgotten == CatalogueSpec => []ActiveWasReviewed
<1>1. CatalogueInv => ActiveWasReviewed
  BY DEF CatalogueInv, RegistersSound, Sound, ActiveWasReviewed, Readable, Saved
<1> QED  BY <1>1, CatalogueInvariant, PTL

\* A command that runs alone, killed wherever it is, leaves a register that can be
\* loaded, and views that agree with it when it has written them (registry.go,
\* SaveRegister; views.go, WriteViewsStaging).
THEOREM AloneIsSafe == CatalogueSpec => []SafeAlone
<1>1. CatalogueInv => SafeAlone
  BY DEF CatalogueInv, Alone, ViewsTrue, SafeAlone, Readable, Saved
<1> QED  BY <1>1, CatalogueInvariant, PTL
===============================================================================
