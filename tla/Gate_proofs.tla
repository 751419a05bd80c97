----------------------------- MODULE Gate_proofs -----------------------------
(* What the gate permits was pushed when its review ended and is accounted for *)
(* commit by commit, and what meets its conditions it permits, for any lanes   *)
(* and any number of commits.                                                  *)
EXTENDS Gate, FiniteSetTheorems, WellFoundedInduction, TLAPS

\* Every commit a variable names has been made.
CommitsMade ==
  /\ head # None => head <= Len(by)
  /\ \A a \in Author : mine[a] # None => mine[a] <= Len(by)
  /\ \A c \in heads : c <= Len(by)

\* A running turn has a worktree, and an open pull request a head.
Started ==
  /\ \A a \in Author : stage[a] = "running" => base[a] # None /\ mine[a] # None
  /\ open => head # None

\* Only what was pushed is checked.
PushedIsChecked == \A c \in Commit : checks[c] # "none" => c \in heads

\* A review is fresh only for what was pushed when it ended.
FreshIsPushed == \A r \in Reviewer : fresh[r] \subseteq closedAt[r]

\* What is inductive: a review is made fresh only for commits already checked,
\* and those were pushed before.
IInv == TypeOK /\ CommitsMade /\ Started /\ PushedIsChecked /\ FreshIsPushed

LEMMA InitIInv == Init => IInv
<1> SUFFICES ASSUME Init PROVE IInv  OBVIOUS
<1>1. TypeOK
  <2>1. /\ by \in Seq(Author \cup {Outsider}) /\ Len(by) <= MaxCommits
        /\ parent \in Seq(Commit) /\ Len(parent) = Len(by)
        /\ records \in Seq(ChainRecord)
    BY MaxCommitsAssumption DEF Init
  <2>2. /\ stage \in [Author \cup Reviewer -> {"idle", "running", "over"}]
        /\ comment \in [Reviewer -> Comment \cup {None}]
        /\ result \in [Reviewer -> Verdict \cup {None}]
        /\ checks \in [Commit -> {"none", "running", "green", "red"}]
    BY DEF Init
  <2>3. /\ head \in MaybeCommit
        /\ base \in [Author -> MaybeCommit] /\ mine \in [Author -> MaybeCommit]
        /\ fresh \in [Reviewer -> SUBSET Commit] /\ closedAt \in [Reviewer -> SUBSET Commit]
    BY DEF Init, MaybeCommit
  <2>4. /\ claimed \in {None, Root} /\ open \in BOOLEAN /\ pulled \subseteq Commit
        /\ heads \subseteq Commit
    BY DEF Init
  <2> QED  BY <2>1, <2>2, <2>3, <2>4 DEF TypeOK
<1>2. CommitsMade /\ Started  BY DEF Init, CommitsMade, Started
<1>3. PushedIsChecked /\ FreshIsPushed  BY DEF Init, PushedIsChecked, FreshIsPushed
<1> QED  BY <1>1, <1>2, <1>3 DEF IInv

\* None is not a commit, so a commit or None that is not None is a number.
LEMMA CommitIsNumber ==
  /\ Commit \subseteq Nat /\ None \notin Commit /\ Short \notin Commit
  /\ \A c \in MaybeCommit : c # None => c \in Commit
BY MaxCommitsAssumption, NoneAssumption DEF Commit, MaybeCommit

\* A new commit is numbered next, and is made on a commit.
LEMMA CommitIsNext ==
  ASSUME IInv, NEW who \in Author \cup {Outsider}, NEW on \in Commit, NewCommit(who, on)
  PROVE  /\ by' \in Seq(Author \cup {Outsider}) /\ Len(by') = Len(by) + 1
         /\ Len(by') <= MaxCommits /\ Len(by') \in Commit /\ Len(by) \in Nat
         /\ parent' \in Seq(Commit) /\ Len(parent') = Len(by')
BY MaxCommitsAssumption DEF IInv, TypeOK, NewCommit, Commit

\* What was made before a commit is made after it.
LEMMA StillMade ==
  ASSUME IInv, Len(by) \in Nat, Len(by') = Len(by) + 1
  PROVE  /\ head # None => head <= Len(by')
         /\ \A a \in Author : mine[a] # None => mine[a] <= Len(by')
         /\ \A c \in heads : c <= Len(by')
<1>1. ASSUME head # None PROVE head <= Len(by')
  <2>1. head \in Nat /\ head <= Len(by)
    BY <1>1, CommitIsNumber DEF IInv, TypeOK, CommitsMade
  <2> QED  BY <2>1
<1>2. ASSUME NEW a \in Author, mine[a] # None PROVE mine[a] <= Len(by')
  <2>1. mine[a] \in Nat /\ mine[a] <= Len(by)
    BY <1>2, CommitIsNumber DEF IInv, TypeOK, CommitsMade
  <2> QED  BY <2>1
<1>3. ASSUME NEW c \in heads PROVE c <= Len(by')
  <2>1. c \in Nat /\ c <= Len(by)
    BY <1>3, CommitIsNumber DEF IInv, TypeOK, CommitsMade
  <2> QED  BY <2>1
<1> QED  BY <1>1, <1>2, <1>3

LEMMA NextIInv == IInv /\ [Next]_vars => IInv'
<1> SUFFICES ASSUME IInv, [Next]_vars PROVE IInv'  OBVIOUS
<1> USE CommitIsNumber DEF IInv
<1>0. ASSUME UNCHANGED <<checks, fresh, closedAt>>, heads \subseteq heads'
      PROVE  PushedIsChecked' /\ FreshIsPushed'
  BY <1>0 DEF PushedIsChecked, FreshIsPushed
<1>1. ASSUME NEW a \in Author, AuthorStarts(a) PROVE IInv'
  <2> DEFINE start == IF a = Root THEN 0 ELSE head
  <2>1. start \in Commit /\ start <= Len(by)
    BY <1>1, MaxCommitsAssumption
    DEF TypeOK, CommitsMade, AuthorStarts, StartsAt, Author, Commit
  <2> HIDE DEF start
  <2>2. StartsAt(a, start)  BY <1>1 DEF AuthorStarts, start
  <2>3. TypeOK'
    BY <2>1, <2>2 DEF TypeOK, StartsAt, commitVars, prVars, reviewVars, MaybeCommit
  <2>4. CommitsMade' /\ Started'
    BY <2>1, <2>2, LaneAssumption
    DEF TypeOK, CommitsMade, Started, StartsAt, commitVars, prVars, reviewVars
  <2>5. PushedIsChecked' /\ FreshIsPushed'
    BY <1>0, <2>2 DEF StartsAt, prVars, reviewVars
  <2> QED  BY <2>3, <2>4, <2>5
<1>2. ASSUME NEW a \in Author, AuthorCommits(a) PROVE IInv'
  <2>1. mine[a] \in Commit /\ NewCommit(a, mine[a])
    BY <1>2 DEF TypeOK, Started, AuthorCommits
  <2>2. /\ by' \in Seq(Author \cup {Outsider}) /\ Len(by') = Len(by) + 1
        /\ Len(by') <= MaxCommits /\ Len(by') \in Commit /\ Len(by) \in Nat
        /\ parent' \in Seq(Commit) /\ Len(parent') = Len(by')
    BY <2>1, CommitIsNext
  <2>3. TypeOK'
    BY <1>2, <2>2 DEF TypeOK, AuthorCommits, prVars, reviewVars, MaybeCommit
  <2>4. CommitsMade'
    <3>1. UNCHANGED <<head, heads>> /\ mine' = [mine EXCEPT ![a] = Len(by')]
      BY <1>2 DEF AuthorCommits, prVars
    <3>2. mine'[a] = Len(by') /\ \A b \in Author \ {a} : mine'[b] = mine[b]
      BY <3>1 DEF TypeOK
    <3> QED  BY <2>2, <3>1, <3>2, StillMade DEF CommitsMade
  <2>5. Started'
    BY <1>2, <2>2 DEF TypeOK, Started, AuthorCommits, prVars, reviewVars
  <2>6. PushedIsChecked' /\ FreshIsPushed'
    BY <1>0, <1>2 DEF AuthorCommits, prVars, reviewVars
  <2> QED  BY <2>3, <2>4, <2>5, <2>6
<1>3. ASSUME NEW a \in Author, AuthorPulls(a) PROVE IInv'
  <2>1. TypeOK'
    BY <1>3 DEF TypeOK, AuthorPulls, commitVars, prVars, reviewVars, MaybeCommit
  <2>2. CommitsMade' /\ Started'
    BY <1>3 DEF TypeOK, CommitsMade, Started, AuthorPulls, commitVars, prVars, reviewVars
  <2>3. PushedIsChecked' /\ FreshIsPushed'
    BY <1>0, <1>3 DEF AuthorPulls, prVars, reviewVars
  <2> QED  BY <2>1, <2>2, <2>3
<1>4. ASSUME NEW a \in Author, AuthorPushes(a) PROVE IInv'
  <2>1. mine[a] \in Commit /\ mine[a] <= Len(by)
    BY <1>4 DEF TypeOK, CommitsMade, Started, AuthorPushes
  <2>2. TypeOK'
    BY <1>4, <2>1
    DEF TypeOK, AuthorPushes, Pushed, commitVars, authorVars, reviewVars, MaybeCommit
  <2>3. CommitsMade' /\ Started'
    BY <1>4, <2>1
    DEF TypeOK, CommitsMade, Started, AuthorPushes, Pushed, commitVars, authorVars, reviewVars
  <2>4. PushedIsChecked' /\ FreshIsPushed'
    BY <1>0, <1>4 DEF AuthorPushes, Pushed, reviewVars
  <2> QED  BY <2>2, <2>3, <2>4
<1>5. ASSUME NEW a \in Author, AuthorCompletes(a) PROVE IInv'
  <2>1. PICK observed \in {mine[a], None} :
          records' = Append(records, [id |-> a, base |-> base[a], head |-> observed])
    BY <1>5 DEF AuthorCompletes
  <2>2. [id |-> a, base |-> base[a], head |-> observed] \in ChainRecord
    BY <1>5, <2>1 DEF TypeOK, Started, AuthorCompletes, ChainRecord, MaybeCommit
  <2>3. TypeOK'
    BY <1>5, <2>1, <2>2 DEF TypeOK, AuthorCompletes, commitVars, prVars, reviewVars
  <2>4. CommitsMade' /\ Started'
    BY <1>5 DEF TypeOK, CommitsMade, Started, AuthorCompletes, commitVars, prVars, reviewVars
  <2>5. PushedIsChecked' /\ FreshIsPushed'
    BY <1>0, <1>5 DEF AuthorCompletes, prVars, reviewVars
  <2> QED  BY <2>3, <2>4, <2>5
<1>6. ASSUME NEW a \in Author, AuthorFails(a) PROVE IInv'
  <2>1. TypeOK'
    BY <1>6 DEF TypeOK, AuthorFails, commitVars, prVars, authorVars, reviewVars
  <2>2. CommitsMade' /\ Started'
    BY <1>6
    DEF TypeOK, CommitsMade, Started, AuthorFails, commitVars, prVars, authorVars, reviewVars
  <2>3. PushedIsChecked' /\ FreshIsPushed'
    BY <1>0, <1>6 DEF AuthorFails, prVars, reviewVars
  <2> QED  BY <2>1, <2>2, <2>3
<1>7. CASE OutsiderPushes
  <2>0. head \in Commit  BY <1>7 DEF TypeOK, Started, OutsiderPushes
  <2>1. PushedIsChecked' /\ FreshIsPushed'
    BY <1>0, <1>7 DEF OutsiderPushes, Pushed, reviewVars
  <2>2. ASSUME NewCommit(Outsider, head), Pushed(Len(by')) PROVE IInv'
    <3>1. /\ by' \in Seq(Author \cup {Outsider}) /\ Len(by') = Len(by) + 1
          /\ Len(by') <= MaxCommits /\ Len(by') \in Commit /\ Len(by) \in Nat
          /\ parent' \in Seq(Commit) /\ Len(parent') = Len(by')
      BY <2>0, <2>2, CommitIsNext
    <3>2. TypeOK'
      BY <1>7, <2>2, <3>1
      DEF TypeOK, OutsiderPushes, Pushed, authorVars, reviewVars, MaybeCommit
    <3>3. head' = Len(by') /\ heads' = heads \cup {Len(by')} /\ UNCHANGED mine
      BY <1>7, <2>2 DEF OutsiderPushes, Pushed, authorVars
    <3>4. CommitsMade'  BY <3>1, <3>3, StillMade DEF CommitsMade
    <3>5. Started'  BY <1>7, <3>1, <3>3 DEF Started, OutsiderPushes, authorVars
    <3> QED  BY <2>1, <3>2, <3>4, <3>5
  <2>3. ASSUME NEW c \in heads \ {head}, Pushed(c), UNCHANGED commitVars PROVE IInv'
    <3>1. c \in Commit /\ c <= Len(by)  BY DEF TypeOK, CommitsMade
    <3>2. TypeOK'
      BY <1>7, <2>3, <3>1
      DEF TypeOK, OutsiderPushes, Pushed, commitVars, authorVars, reviewVars, MaybeCommit
    <3>3. CommitsMade' /\ Started'
      BY <1>7, <2>3, <3>1
      DEF CommitsMade, Started, OutsiderPushes, Pushed, commitVars, authorVars
    <3> QED  BY <2>1, <3>2, <3>3
  <2> QED  BY <1>7, <2>2, <2>3 DEF OutsiderPushes
<1>8. ASSUME NEW c \in Commit, ChecksStart(c) PROVE IInv'
  <2>1. TypeOK' /\ CommitsMade' /\ Started'
    BY <1>8
    DEF TypeOK, CommitsMade, Started, ChecksStart, commitVars, prVars, authorVars, reviewVars
  <2>2. PushedIsChecked'
    BY <1>8 DEF TypeOK, PushedIsChecked, ChecksStart, prVars
  <2>3. FreshIsPushed'  BY <1>8 DEF FreshIsPushed, ChecksStart, reviewVars
  <2> QED  BY <2>1, <2>2, <2>3
<1>9. ASSUME NEW c \in Commit, NEW conclusion \in {"green", "red"}, ChecksEnd(c, conclusion)
      PROVE  IInv'
  <2>1. TypeOK' /\ CommitsMade' /\ Started'
    BY <1>9
    DEF TypeOK, CommitsMade, Started, ChecksEnd, commitVars, prVars, authorVars, reviewVars
  <2>2. PushedIsChecked'
    BY <1>9 DEF TypeOK, PushedIsChecked, ChecksEnd, prVars
  <2>3. FreshIsPushed'  BY <1>9 DEF FreshIsPushed, ChecksEnd, reviewVars
  <2> QED  BY <2>1, <2>2, <2>3
<1>10. CASE Close
  <2>1. TypeOK' /\ CommitsMade' /\ Started'
    BY <1>10 DEF TypeOK, CommitsMade, Started, Close, commitVars, authorVars, reviewVars
  <2> QED  BY <1>0, <1>10, <2>1 DEF Close, reviewVars
<1>11. ASSUME NEW r \in Reviewer, ReviewerStarts(r) PROVE IInv'
  <2>1. TypeOK' /\ CommitsMade' /\ Started'
    BY <1>11, LaneAssumption
    DEF TypeOK, CommitsMade, Started, ReviewerStarts, commitVars, prVars, authorVars,
        reviewVars
  <2> QED  BY <1>0, <1>11, <2>1 DEF ReviewerStarts, prVars, reviewVars
<1>12. ASSUME NEW r \in Reviewer, Comments(r) PROVE IInv'
  <2>1. PICK c \in [verdict : {"approved"}, sha : 0..Len(by) \cup {Short, None}]
                 \cup [verdict : {"rejected"}, sha : {None}] :
          comment' = [comment EXCEPT ![r] = c]
    BY <1>12 DEF Comments
  <2>2. 0..Len(by) \subseteq Commit
    BY MaxCommitsAssumption DEF TypeOK, Commit
  <2>3. c \in Comment
    BY <2>1, <2>2 DEF Comment, Verdict, MaybeCommit
  <2>4. TypeOK' /\ CommitsMade' /\ Started'
    BY <1>12, <2>1, <2>3
    DEF TypeOK, CommitsMade, Started, Comments, commitVars, prVars, authorVars
  <2> QED  BY <1>0, <1>12, <2>4 DEF Comments, prVars
<1>13. ASSUME NEW r \in Reviewer, ReviewerCompletes(r) PROVE IInv'
  <2>1. TypeOK'
    BY <1>13 DEF TypeOK, ReviewerCompletes, commitVars, prVars, authorVars
  <2>2. CommitsMade' /\ Started'
    BY <1>13, LaneAssumption
    DEF TypeOK, CommitsMade, Started, ReviewerCompletes, commitVars, prVars, authorVars
  <2>3. PushedIsChecked'  BY <1>13 DEF PushedIsChecked, ReviewerCompletes, prVars
  <2>4. FreshIsPushed'
    <3>1. {c \in Commit : checks[c] # "none"} \subseteq heads  BY DEF PushedIsChecked
    <3> QED  BY <1>13, <3>1 DEF TypeOK, FreshIsPushed, ReviewerCompletes
  <2> QED  BY <2>1, <2>2, <2>3, <2>4
<1>14. CASE UNCHANGED vars
  <2>1. TypeOK' /\ CommitsMade' /\ Started'
    BY <1>14 DEF TypeOK, CommitsMade, Started, vars
  <2> QED  BY <1>0, <1>14, <2>1 DEF vars
<1> QED
  BY <1>1, <1>2, <1>3, <1>4, <1>5, <1>6, <1>7, <1>8, <1>9, <1>10, <1>11, <1>12, <1>13,
     <1>14 DEF Next

LEMMA Invariant == Spec => []IInv
BY InitIInv, NextIInv, PTL DEF Spec

-------------------------------------------------------------------------------
\* Every reachable state has the type the model declares.
THEOREM TypeCorrect == Spec => []TypeOK
<1>1. IInv => TypeOK  BY DEF IInv
<1> QED  BY <1>1, Invariant, PTL

\* Whatever was pushed, forced back, checked and reviewed in whatever order, and
\* whoever commented, no review that was over before the head was first pushed
\* lets it be merged (gate.go, evaluate's comparison with earliestCheckStart).
THEOREM ReviewNeverStale == Spec => []ReviewedOncePushed
<1>1. IInv => ReviewedOncePushed
  BY DEF IInv, FreshIsPushed, ReviewedOncePushed, Permitted, MayMerge, Allow
<1> QED  BY <1>1, Invariant, PTL

-------------------------------------------------------------------------------
(* Numbers, and the lines of work.                                           *)

LEMMA NatOrder == IsWellFoundedOn({ss \in Nat \X Nat : ss[1] < ss[2]}, Nat)
BY NatLessThanWellFounded DEF OpToRel

\* A set of numbers that is not empty has a least one.
LEMMA Least ==
  ASSUME NEW S, S \subseteq Nat, S # {}
  PROVE  \E m \in S : \A k \in S : m <= k
<1> DEFINE R == {ss \in Nat \X Nat : ss[1] < ss[2]}
<1>1. IsWellFoundedOn(R, Nat)  BY NatOrder
<1>2. PICK x \in S : \A y \in S : ~ (<<y, x>> \in R)
  <2> HIDE DEF R
  <2> QED  BY <1>1, WFMin
<1>3. \A k \in S : ~ (k < x)
  <2> SUFFICES ASSUME NEW k \in S, k < x PROVE FALSE  OBVIOUS
  <2>1. <<k, x>> \in Nat \X Nat  OBVIOUS
  <2>2. <<k, x>> \in R  BY <2>1
  <2> QED  BY <1>2, <2>2
<1>4. x \in Nat /\ \A k \in S : k \in Nat  OBVIOUS
<1>5. \A k \in S : x <= k
  <2> SUFFICES ASSUME NEW k \in S PROVE x <= k  OBVIOUS
  <2>1. k \in Nat /\ x \in Nat /\ ~ (k < x)  BY <1>3, <1>4
  <2> QED  BY <2>1
<1> QED  BY <1>5

LEMMA MinIs ==
  ASSUME NEW S, S \subseteq Nat, S # {}
  PROVE  Min(S) \in S
<1>1. \E i \in S : \A j \in S : i <= j  BY Least
<1> QED  BY <1>1 DEF Min

\* The commits that every set closed under parents and holding c holds.
Behind(c) ==
  {d \in DOMAIN parent :
     \A S \in SUBSET Commit :
       c \in S /\ (\A e \in S \cap DOMAIN parent : parent[e] \in S) => d \in S}

LEMMA LineIs ==
  parent \in Seq(Commit) =>
    \A c \in Commit : Line[c] = IF c \notin DOMAIN parent THEN {} ELSE {c} \cup Line[parent[c]]
<1> SUFFICES ASSUME parent \in Seq(Commit)
             PROVE  \A c \in Commit :
               Line[c] = IF c \notin DOMAIN parent THEN {} ELSE {c} \cup Line[parent[c]]
  OBVIOUS
<1> DEFINE g == [c \in Commit |-> Behind(c)]
<1>0. \A c \in DOMAIN parent : parent[c] \in Commit  OBVIOUS
<1>1. ASSUME NEW c \in Commit, c \notin DOMAIN parent PROVE Behind(c) = {}
  <2>1. {c} \in SUBSET Commit /\ \A e \in {c} \cap DOMAIN parent : parent[e] \in {c}
    BY <1>1
  <2> QED  BY <1>1, <2>1 DEF Behind
<1>2. ASSUME NEW c \in Commit, c \in DOMAIN parent PROVE Behind(c) = {c} \cup Behind(parent[c])
  <2>1. ASSUME NEW d \in Behind(c), d # c PROVE d \in Behind(parent[c])
    <3> SUFFICES ASSUME NEW S \in SUBSET Commit, parent[c] \in S,
                        \A e \in S \cap DOMAIN parent : parent[e] \in S
                 PROVE  d \in S
      BY <2>1 DEF Behind
    <3>1. /\ S \cup {c} \in SUBSET Commit
          /\ \A e \in (S \cup {c}) \cap DOMAIN parent : parent[e] \in S \cup {c}
      OBVIOUS
    <3>2. d \in S \cup {c}  BY <3>1, <2>1 DEF Behind
    <3> QED  BY <2>1, <3>2
  <2>2. c \in Behind(c)  BY <1>2 DEF Behind
  <2>3. Behind(parent[c]) \subseteq Behind(c)  BY <1>2 DEF Behind
  <2> QED  BY <2>1, <2>2, <2>3
<1>3. g = [c \in Commit |-> IF c \notin DOMAIN parent THEN {} ELSE {c} \cup g[parent[c]]]
  BY <1>0, <1>1, <1>2
<1> HIDE DEF g
<1>4. Line = [c \in Commit |-> IF c \notin DOMAIN parent THEN {} ELSE {c} \cup Line[parent[c]]]
  BY <1>3 DEF Line
<1> QED  BY <1>4

LEMMA LineIsNext ==
  (parent \in Seq(Commit) =>
    \A c \in Commit : Line[c] = IF c \notin DOMAIN parent THEN {} ELSE {c} \cup Line[parent[c]])'
BY LineIs, PTL

\* Every commit is made on an earlier one.
CommitsDescend == \A c \in DOMAIN parent : parent[c] < c

\* Of the commits that lead from one to another, each is by a, or was taken over.
Accounts(a, from, to) == \A c \in Line[to] \ Line[from] : by[c] = a \/ c \in pulled

\* What a worktree holds beyond what it started from is its turn's own work, and
\* the root's started from main.
OwnWork ==
  /\ base[Root] \in {None, 0}
  /\ \A a \in Author : mine[a] # None =>
       base[a] # None /\ base[a] <= Len(by) /\ Accounts(a, base[a], mine[a])

\* So is what a record says a turn has made of what it started from.
RecordTrue(q) ==
  /\ q.id = Root => q.base = 0
  /\ q.base <= Len(by)
  /\ q.head # None => q.head <= Len(by) /\ Accounts(q.id, q.base, q.head)
RecordsTrue == \A i \in DOMAIN records : RecordTrue(records[i])

\* What is inductive about the commits.
HInv == IInv /\ CommitsDescend /\ OwnWork /\ RecordsTrue

\* A line of work has commits that were made, and no other.
LEMMA LineMade ==
  ASSUME parent \in Seq(Commit), CommitsDescend, NEW c \in Commit
  PROVE  Line[c] \subseteq DOMAIN parent
<1> DEFINE Bad == {d \in Commit : ~ (Line[d] \subseteq DOMAIN parent)}
<1> SUFFICES ASSUME Bad # {} PROVE FALSE  OBVIOUS
<1>1. PICK d \in Bad : \A e \in Bad : d <= e
  <2>1. Bad \subseteq Nat  BY CommitIsNumber
  <2> HIDE DEF Bad
  <2> QED  BY <2>1, Least
<1>2. d \in DOMAIN parent  BY LineIs
<1>3. parent[d] \in Commit /\ parent[d] < d /\ parent[d] \in Nat /\ d \in Nat
  <2> HIDE DEF Bad
  <2>1. parent[d] \in Commit  BY <1>2
  <2>2. parent[d] < d  BY <1>2 DEF CommitsDescend
  <2>3. d \in Nat  BY <1>2
  <2> QED  BY <2>1, <2>2, <2>3, CommitIsNumber
<1>4. parent[d] \notin Bad  BY <1>1, <1>3
<1>5. Line[d] = {d} \cup Line[parent[d]]  BY <1>2, LineIs
<1> QED  BY <1>2, <1>3, <1>4, <1>5

\* Commits are never unmade or remade, nor is it forgotten which were taken over.
Grows ==
  /\ parent' \in Seq(Commit) /\ by' \in Seq(Author \cup {Outsider})
  /\ Len(parent') = Len(by') /\ Len(by) <= Len(by')
  /\ \A c \in DOMAIN parent : parent'[c] = parent[c] /\ by'[c] = by[c]
  /\ pulled \subseteq pulled'

\* A line of work is what it was when further commits are made.
LEMMA LineKept ==
  ASSUME HInv, Grows, NEW c \in 0 .. Len(by)
  PROVE  Line'[c] = Line[c]
<1> USE CommitIsNumber
<1>1. /\ parent \in Seq(Commit) /\ parent' \in Seq(Commit)
      /\ Len(by) \in Nat /\ Len(by') \in Nat /\ Len(by) <= Len(by')
      /\ DOMAIN parent = 1 .. Len(by) /\ DOMAIN parent' = 1 .. Len(by')
      /\ 0 .. Len(by) \subseteq Commit
  BY MaxCommitsAssumption DEF HInv, IInv, TypeOK, Grows, Commit
<1>2. \A d \in Commit :
        Line'[d] = IF d \notin DOMAIN parent' THEN {} ELSE {d} \cup Line'[parent'[d]]
  BY <1>1, LineIsNext DEF Commit
<1> DEFINE Bad == {d \in 0 .. Len(by) : Line'[d] # Line[d]}
<1> SUFFICES ASSUME Bad # {} PROVE FALSE  OBVIOUS
<1>3. PICK d \in Bad : \A e \in Bad : d <= e
  <2>1. Bad \subseteq Nat  BY <1>1
  <2> HIDE DEF Bad
  <2> QED  BY <2>1, Least
<1>4. d \in DOMAIN parent /\ d \in DOMAIN parent' /\ d \in Commit
  <2>1. ASSUME d = 0 PROVE FALSE
    <3>1. d \in Commit /\ d \notin DOMAIN parent /\ d \notin DOMAIN parent'  BY <1>1, <2>1
    <3>2. Line[d] = {} /\ Line'[d] = {}  BY <1>1, <1>2, <3>1, LineIs
    <3> QED  BY <3>2
  <2>2. d \in 1 .. Len(by)  BY <1>1, <2>1
  <2> QED  BY <1>1, <2>2
<1>5. /\ parent[d] \in 0 .. Len(by) /\ parent[d] \in Commit /\ parent[d] < d
      /\ parent'[d] = parent[d]
  <2> HIDE DEF Bad
  <2>0. \A e \in DOMAIN parent : parent[e] \in Commit
    <3>1. parent \in Seq(Commit)  BY <1>1
    <3> QED  BY <3>1
  <2>1. parent[d] \in Commit /\ parent[d] \in Nat  BY <1>4, <2>0
  <2>2. parent[d] < d  BY <1>4 DEF HInv, CommitsDescend
  <2>3. parent'[d] = parent[d]  BY <1>4 DEF Grows
  <2>4. d \in 1 .. Len(by)  BY <1>1, <1>4
  <2> QED  BY <1>1, <2>1, <2>2, <2>3, <2>4
<1>6. Line'[parent[d]] = Line[parent[d]]
  <2>1. parent[d] \notin Bad
    <3>1. parent[d] \in Nat /\ d \in Nat  BY <1>1, <1>5
    <3> QED  BY <1>3, <1>5, <3>1
  <2> QED  BY <1>5, <2>1
<1>7. Line[d] = {d} \cup Line[parent[d]]  BY <1>1, <1>4, LineIs
<1>8. Line'[d] = {d} \cup Line'[parent[d]]  BY <1>2, <1>4, <1>5
<1> QED  BY <1>6, <1>7, <1>8

\* How long the history is, and where a worktree may be in it.
LEMMA Lengths ==
  ASSUME HInv, Grows
  PROVE  /\ Len(by) \in Nat /\ Len(by') \in Nat /\ Len(by) <= Len(by')
         /\ \A a \in Author : mine[a] # None => mine[a] \in 0 .. Len(by)
         /\ \A a \in Author : base[a] # None => base[a] \in Nat
<1>1. Len(by) \in Nat /\ Len(by') \in Nat /\ Len(by) <= Len(by')
  BY DEF HInv, IInv, TypeOK, Grows
<1>2. ASSUME NEW a \in Author, mine[a] # None PROVE mine[a] \in 0 .. Len(by)
  <2>1. mine[a] \in Nat  BY <1>2, CommitIsNumber DEF HInv, IInv, TypeOK
  <2>2. mine[a] <= Len(by)  BY <1>2 DEF HInv, IInv, CommitsMade
  <2> QED  BY <1>1, <2>1, <2>2
<1>3. ASSUME NEW a \in Author, base[a] # None PROVE base[a] \in Nat
  BY <1>3, CommitIsNumber DEF HInv, IInv, TypeOK
<1> QED  BY <1>1, <1>2, <1>3

\* What was accounted for stays so.
LEMMA AccountsKept ==
  ASSUME HInv, Grows, NEW a, NEW from \in 0 .. Len(by), NEW to \in 0 .. Len(by),
         Accounts(a, from, to)
  PROVE  \A c \in Line'[to] \ Line'[from] : by'[c] = a \/ c \in pulled'
<1>1. Line'[to] = Line[to] /\ Line'[from] = Line[from]  BY LineKept
<1>2. to \in Commit /\ parent \in Seq(Commit) /\ CommitsDescend
  BY MaxCommitsAssumption DEF HInv, IInv, TypeOK, Commit
<1>3. Line[to] \subseteq DOMAIN parent  BY <1>2, LineMade
<1> QED  BY <1>1, <1>3 DEF Accounts, Grows

\* A record that is true stays true.
LEMMA RecordKept ==
  ASSUME HInv, Grows, NEW q \in ChainRecord, RecordTrue(q)
  PROVE  RecordTrue(q)'
<1>1. /\ q.base \in Nat /\ q.base <= Len(by)
      /\ q.head # None => q.head \in Nat /\ q.head <= Len(by) /\ Accounts(q.id, q.base, q.head)
  BY CommitIsNumber DEF ChainRecord, RecordTrue
<1>2. q.base <= Len(by')  BY <1>1, Lengths
<1>3. ASSUME q.head # None
      PROVE  /\ q.head <= Len(by')
             /\ \A c \in Line'[q.head] \ Line'[q.base] : by'[c] = q.id \/ c \in pulled'
  <2>1. q.head \in 0 .. Len(by) /\ q.base \in 0 .. Len(by)  BY <1>1, <1>3, Lengths
  <2>2. q.head <= Len(by')  BY <1>1, <1>3, Lengths
  <2>3. Accounts(q.id, q.base, q.head)  BY <1>1, <1>3
  <2>4. \A c \in Line'[q.head] \ Line'[q.base] : by'[c] = q.id \/ c \in pulled'
    BY <2>1, <2>3, AccountsKept
  <2> QED  BY <2>2, <2>4
<1>4. q.head # None => Accounts(q.id, q.base, q.head)'  BY <1>3 DEF Accounts
<1>5. q.id = Root => q.base = 0  BY DEF RecordTrue
<1> QED  BY <1>2, <1>3, <1>4, <1>5 DEF RecordTrue

\* So does what a worktree holds.
OwnWorkOf(a) ==
  mine[a] # None => base[a] # None /\ base[a] <= Len(by) /\ Accounts(a, base[a], mine[a])

LEMMA OwnWorkKept ==
  ASSUME HInv, Grows, NEW a \in Author, base'[a] = base[a], mine'[a] = mine[a]
  PROVE  OwnWorkOf(a)'
<1> SUFFICES ASSUME mine[a] # None
             PROVE  /\ base[a] # None /\ base[a] <= Len(by')
                    /\ \A c \in Line'[mine[a]] \ Line'[base[a]] : by'[c] = a \/ c \in pulled'
  BY DEF OwnWorkOf, Accounts
<1>1. base[a] # None /\ base[a] <= Len(by) /\ Accounts(a, base[a], mine[a])
  BY DEF HInv, OwnWork
<1>2. base[a] \in 0 .. Len(by) /\ mine[a] \in 0 .. Len(by)  BY <1>1, Lengths
<1>3. base[a] <= Len(by')  BY <1>2, Lengths
<1>4. \A c \in Line'[mine[a]] \ Line'[base[a]] : by'[c] = a \/ c \in pulled'
  BY <1>1, <1>2, AccountsKept
<1> QED  BY <1>1, <1>3, <1>4

\* A step that makes no commit, and one that makes one.
LEMMA GrowsNot ==
  ASSUME HInv, UNCHANGED commitVars, pulled \subseteq pulled'
  PROVE  Grows /\ CommitsDescend'
BY DEF HInv, IInv, TypeOK, commitVars, Grows, CommitsDescend

LEMMA GrowsByOne ==
  ASSUME HInv, NEW who \in Author \cup {Outsider}, NEW on \in Commit, on <= Len(by),
         NewCommit(who, on), pulled' = pulled
  PROVE  /\ Grows /\ CommitsDescend'
         /\ by'[Len(by')] = who /\ Line'[Len(by')] = {Len(by')} \cup Line[on]
<1>1. /\ by' \in Seq(Author \cup {Outsider}) /\ Len(by') = Len(by) + 1
      /\ Len(by') \in Commit /\ Len(by) \in Nat /\ on \in 0 .. Len(by)
      /\ parent' \in Seq(Commit) /\ Len(parent') = Len(by')
  BY CommitIsNext, CommitIsNumber DEF HInv
<1>2. by' = Append(by, who) /\ parent' = Append(parent, on)  BY DEF NewCommit
<1>3. /\ by \in Seq(Author \cup {Outsider}) /\ parent \in Seq(Commit) /\ Len(parent) = Len(by)
  BY DEF HInv, IInv, TypeOK
<1>4. \A c \in DOMAIN parent : parent'[c] = parent[c] /\ by'[c] = by[c]
  BY <1>2, <1>3
<1>5. Grows  BY <1>1, <1>4 DEF Grows
<1>6. by'[Len(by')] = who /\ parent'[Len(by')] = on  BY <1>1, <1>2, <1>3
<1>7. CommitsDescend'
  <2> SUFFICES ASSUME NEW c \in DOMAIN parent' PROVE parent'[c] < c  BY DEF CommitsDescend
  <2>1. CASE c = Len(by')  BY <1>1, <1>6, <2>1
  <2>2. CASE c # Len(by')
    <3>1. c \in DOMAIN parent  BY <1>1, <1>3, <2>2
    <3> QED  BY <1>4, <3>1 DEF HInv, CommitsDescend
  <2> QED  BY <2>1, <2>2
<1>8. Line'[Len(by')] = {Len(by')} \cup Line'[on]
  <2>1. \A c \in Commit :
          Line'[c] = IF c \notin DOMAIN parent' THEN {} ELSE {c} \cup Line'[parent'[c]]
    BY <1>1, LineIsNext DEF Commit
  <2>2. Len(by') \in DOMAIN parent'  BY <1>1
  <2> QED  BY <1>1, <1>6, <2>1, <2>2
<1>9. Line'[on] = Line[on]  BY <1>1, <1>5, LineKept
<1> QED  BY <1>5, <1>6, <1>7, <1>8, <1>9

LEMMA InitHInv == Init => HInv
BY InitIInv DEF Init, HInv, CommitsDescend, OwnWork, RecordsTrue, Author

\* What the other steps leave alone.
LEMMA WorkLeftAlone ==
  ASSUME HInv, UNCHANGED <<base, mine, records>>, Grows
  PROVE  OwnWork' /\ RecordsTrue'
<1>1. ASSUME NEW a \in Author PROVE OwnWorkOf(a)'  BY OwnWorkKept
<1>2. ASSUME NEW i \in DOMAIN records PROVE RecordTrue(records[i])'
  <2>1. records[i] \in ChainRecord /\ RecordTrue(records[i]) /\ records'[i] = records[i]
    BY DEF HInv, IInv, TypeOK, RecordsTrue
  <2> DEFINE q == records[i]
  <2> QED  BY <2>1, RecordKept
<1> QED  BY <1>1, <1>2 DEF HInv, OwnWork, OwnWorkOf, RecordsTrue

LEMMA NextHInv == HInv /\ [Next]_vars => HInv'
<1> SUFFICES ASSUME HInv, [Next]_vars PROVE HInv'  OBVIOUS
<1>0. IInv /\ IInv' /\ CommitsDescend  BY NextIInv DEF HInv
<1>1. ASSUME UNCHANGED <<commitVars, base, mine, records, pulled>> PROVE HInv'
  <2>1. Grows /\ CommitsDescend'  BY <1>1, GrowsNot
  <2>2. OwnWork' /\ RecordsTrue'  BY <1>1, <2>1, WorkLeftAlone
  <2> QED  BY <1>0, <2>1, <2>2 DEF HInv
<1>2. ASSUME UNCHANGED records, Grows, CommitsDescend', base'[Root] \in {None, 0},
             NEW a \in Author, OwnWorkOf(a)',
             \A b \in Author \ {a} : base'[b] = base[b] /\ mine'[b] = mine[b]
      PROVE  HInv'
  <2>1. ASSUME NEW b \in Author PROVE OwnWorkOf(b)'
    <3>1. CASE b = a  BY <1>2, <3>1
    <3>2. CASE b # a  BY <1>2, <3>2, OwnWorkKept
    <3> QED  BY <3>1, <3>2
  <2>2. OwnWork'  BY <1>2, <2>1 DEF OwnWork, OwnWorkOf
  <2>3. ASSUME NEW i \in DOMAIN records PROVE RecordTrue(records[i])'
    <3>1. records[i] \in ChainRecord /\ RecordTrue(records[i]) /\ records'[i] = records[i]
      BY <1>2 DEF HInv, IInv, TypeOK, RecordsTrue
    <3> DEFINE q == records[i]
    <3> QED  BY <1>2, <3>1, RecordKept
  <2>4. RecordsTrue'  BY <1>2, <2>3 DEF RecordsTrue
  <2> QED  BY <1>0, <1>2, <2>2, <2>4 DEF HInv
<1>3. ASSUME NEW a \in Author, AuthorStarts(a) PROVE HInv'
  <2> DEFINE start == IF a = Root THEN 0 ELSE head
  <2>1. /\ base' = [base EXCEPT ![a] = start] /\ mine' = [mine EXCEPT ![a] = start]
        /\ UNCHANGED <<commitVars, records, pulled>>
    BY <1>3 DEF AuthorStarts, StartsAt, authorVars
  <2>2. Grows /\ CommitsDescend'  BY <2>1, GrowsNot
  <2>3. start \in Commit /\ start <= Len(by)
    BY <1>3, <1>0, MaxCommitsAssumption
    DEF IInv, TypeOK, CommitsMade, AuthorStarts, StartsAt, Author, Commit, MaybeCommit
  <2>4. /\ base'[a] = start /\ mine'[a] = start
        /\ \A b \in Author \ {a} : base'[b] = base[b] /\ mine'[b] = mine[b]
    BY <1>0, <2>1 DEF IInv, TypeOK
  <2>5. OwnWorkOf(a)'
    <3>1. start # None  BY <2>3, CommitIsNumber
    <3>2. start <= Len(by')  BY <2>1, <2>3 DEF commitVars
    <3> HIDE DEF start
    <3> QED  BY <2>4, <3>1, <3>2 DEF OwnWorkOf, Accounts
  <2>6. base'[Root] \in {None, 0}
    BY <1>3, <2>4 DEF HInv, OwnWork, Author
  <2> HIDE DEF start
  <2> QED  BY <1>2, <1>3, <2>1, <2>2, <2>4, <2>5, <2>6
<1>4. ASSUME NEW a \in Author, AuthorCommits(a) PROVE HInv'
  <2>1. /\ NewCommit(a, mine[a]) /\ mine' = [mine EXCEPT ![a] = Len(by')]
        /\ UNCHANGED <<base, records, pulled>>
    BY <1>4 DEF AuthorCommits
  <2>2. /\ mine[a] \in Commit /\ mine[a] <= Len(by) /\ mine[a] # None
    BY <1>0, <1>4, CommitIsNumber DEF IInv, TypeOK, Started, CommitsMade, AuthorCommits
  <2>3. /\ Grows /\ CommitsDescend'
        /\ by'[Len(by')] = a /\ Line'[Len(by')] = {Len(by')} \cup Line[mine[a]]
    BY <2>1, <2>2, GrowsByOne
  <2>4. /\ mine'[a] = Len(by')
        /\ \A b \in Author \ {a} : base'[b] = base[b] /\ mine'[b] = mine[b]
    BY <1>0, <2>1 DEF IInv, TypeOK
  <2>5. OwnWorkOf(a)'
    <3>1. base[a] # None /\ base[a] <= Len(by) /\ Accounts(a, base[a], mine[a])
      BY <2>2 DEF HInv, OwnWork
    <3>2. base[a] \in 0 .. Len(by) /\ mine[a] \in 0 .. Len(by) /\ base[a] <= Len(by')
      BY <2>2, <2>3, <3>1, Lengths
    <3>3. \A c \in Line'[mine[a]] \ Line'[base[a]] : by'[c] = a \/ c \in pulled'
      BY <2>3, <3>1, <3>2, AccountsKept
    <3>4. Line'[mine[a]] = Line[mine[a]]  BY <2>3, <3>2, LineKept
    <3>5. \A c \in Line'[mine'[a]] \ Line'[base[a]] : by'[c] = a \/ c \in pulled'
      BY <2>3, <2>4, <3>3, <3>4
    <3> QED  BY <2>1, <3>1, <3>2, <3>5 DEF OwnWorkOf, Accounts
  <2>6. base'[Root] \in {None, 0}  BY <2>1 DEF HInv, OwnWork
  <2> QED  BY <1>2, <2>1, <2>3, <2>4, <2>5, <2>6
<1>5. ASSUME NEW a \in Author, AuthorPulls(a) PROVE HInv'
  <2>1. /\ mine' = [mine EXCEPT ![a] = head]
        /\ pulled' = pulled \cup {c \in Commit : c \in Line[head] \ Line[mine[a]]}
        /\ UNCHANGED <<commitVars, base, records>>
    BY <1>5 DEF AuthorPulls
  <2>2. Grows /\ CommitsDescend'  BY <2>1, GrowsNot
  <2>3. /\ mine'[a] = head
        /\ \A b \in Author \ {a} : base'[b] = base[b] /\ mine'[b] = mine[b]
    BY <1>0, <2>1 DEF IInv, TypeOK
  <2>4. OwnWorkOf(a)'
    <3>1. /\ head # None /\ mine[a] # None /\ head \in Commit /\ mine[a] \in Commit
          /\ head <= Len(by) /\ parent \in Seq(Commit)
      BY <1>0, <1>5, CommitIsNumber DEF IInv, TypeOK, Started, CommitsMade, AuthorPulls
    <3>2. base[a] # None /\ base[a] <= Len(by) /\ Accounts(a, base[a], mine[a])
      BY <3>1 DEF HInv, OwnWork
    <3>3. /\ base[a] \in 0 .. Len(by) /\ mine[a] \in 0 .. Len(by) /\ head \in 0 .. Len(by)
      BY <2>2, <3>1, <3>2, Lengths, CommitIsNumber
    <3>4. Line'[base[a]] = Line[base[a]] /\ Line'[head] = Line[head]
      BY <2>2, <3>3, LineKept
    <3>5. by' = by  BY <2>1 DEF commitVars
    <3>6. Line[head] \subseteq Commit
      <4>1. Line[head] \subseteq DOMAIN parent  BY <1>0, <3>1, LineMade
      <4>2. DOMAIN parent \subseteq Commit
        BY <1>0, MaxCommitsAssumption DEF IInv, TypeOK, Commit
      <4> QED  BY <4>1, <4>2
    <3>7. ASSUME NEW c \in Line[head] \ Line[base[a]] PROVE by[c] = a \/ c \in pulled'
      <4>1. CASE c \in Line[mine[a]]  BY <2>1, <3>2, <3>7, <4>1 DEF Accounts
      <4>2. CASE c \notin Line[mine[a]]  BY <2>1, <3>6, <3>7, <4>2
      <4> QED  BY <4>1, <4>2
    <3> QED  BY <2>1, <2>3, <3>2, <3>4, <3>5, <3>7 DEF OwnWorkOf, Accounts
  <2>5. base'[Root] \in {None, 0}  BY <2>1 DEF HInv, OwnWork
  <2> QED  BY <1>2, <2>1, <2>2, <2>3, <2>4, <2>5
<1>6. ASSUME NEW a \in Author, AuthorPushes(a) PROVE HInv'
  BY <1>1, <1>6 DEF AuthorPushes, authorVars
<1>7. ASSUME NEW a \in Author, AuthorCompletes(a) PROVE HInv'
  <2>1. PICK observed \in {mine[a], None} :
          records' = Append(records, [id |-> a, base |-> base[a], head |-> observed])
    BY <1>7 DEF AuthorCompletes
  <2> DEFINE q == [id |-> a, base |-> base[a], head |-> observed]
  <2>2. UNCHANGED <<commitVars, base, mine, pulled>>  BY <1>7 DEF AuthorCompletes
  <2>3. Grows /\ CommitsDescend'  BY <2>2, GrowsNot
  <2>4. ASSUME NEW b \in Author PROVE OwnWorkOf(b)'  BY <2>2, <2>3, OwnWorkKept
  <2>5. OwnWork'  BY <2>2, <2>4 DEF HInv, OwnWork, OwnWorkOf
  <2>6. /\ base[a] # None /\ mine[a] # None /\ base[a] <= Len(by)
        /\ Accounts(a, base[a], mine[a]) /\ mine[a] <= Len(by)
    BY <1>7 DEF HInv, IInv, Started, CommitsMade, OwnWork, AuthorCompletes
  <2>7. q \in ChainRecord /\ RecordTrue(q)
    <3>1. base[a] \in Commit /\ mine[a] \in Commit
      BY <1>0, <2>6, CommitIsNumber DEF IInv, TypeOK
    <3>2. a = Root => base[a] = 0  BY <2>6 DEF HInv, OwnWork
    <3>3. q.id = a /\ q.base = base[a] /\ q.head = observed /\ observed \in {mine[a], None}
      OBVIOUS
    <3>4. q \in ChainRecord  BY <3>1, <3>3 DEF ChainRecord, MaybeCommit
    <3>5. RecordTrue(q)
      <4> HIDE DEF q
      <4> QED  BY <2>6, <3>2, <3>3 DEF RecordTrue
    <3> QED  BY <3>4, <3>5
  <2>8. PICK p \in ChainRecord : RecordTrue(p) /\ records' = Append(records, p)
    BY <2>1, <2>7
  <2>9. ASSUME NEW i \in DOMAIN records' PROVE RecordTrue(records[i])'
    <3>1. records \in Seq(ChainRecord)  BY <1>0 DEF IInv, TypeOK
    <3>2. CASE i \in DOMAIN records
      <4>1. records[i] \in ChainRecord /\ RecordTrue(records[i]) /\ records'[i] = records[i]
        BY <2>8, <3>1, <3>2 DEF HInv, RecordsTrue
      <4> DEFINE r == records[i]
      <4> QED  BY <2>3, <4>1, RecordKept
    <3>3. CASE i \notin DOMAIN records
      <4>1. records'[i] = p  BY <2>8, <3>1, <3>3
      <4>2. RecordTrue(p)'  BY <2>3, <2>8, RecordKept
      <4> QED  BY <4>1, <4>2
    <3> QED  BY <3>2, <3>3
  <2>10. RecordsTrue'  BY <2>9 DEF RecordsTrue
  <2> QED  BY <1>0, <2>3, <2>5, <2>10 DEF HInv
<1>8. ASSUME NEW a \in Author, AuthorFails(a) PROVE HInv'
  BY <1>1, <1>8 DEF AuthorFails, authorVars
<1>9. CASE OutsiderPushes
  <2>1. UNCHANGED <<base, mine, records, pulled>>  BY <1>9 DEF OutsiderPushes, authorVars
  <2>2. CASE NewCommit(Outsider, head)
    <3>1. head \in Commit /\ head <= Len(by)
      BY <1>0, <1>9, CommitIsNumber DEF IInv, TypeOK, Started, CommitsMade, OutsiderPushes
    <3>2. Grows /\ CommitsDescend'  BY <2>1, <2>2, <3>1, GrowsByOne
    <3>3. OwnWork' /\ RecordsTrue'  BY <2>1, <3>2, WorkLeftAlone
    <3> QED  BY <1>0, <3>2, <3>3 DEF HInv
  <2> QED  BY <1>1, <1>9, <2>1, <2>2 DEF OutsiderPushes
<1>10. ASSUME NEW c \in Commit, ChecksStart(c) PROVE HInv'
  BY <1>1, <1>10 DEF ChecksStart, authorVars
<1>11. ASSUME NEW c \in Commit, NEW conclusion \in {"green", "red"}, ChecksEnd(c, conclusion)
       PROVE  HInv'
  BY <1>1, <1>11 DEF ChecksEnd, authorVars
<1>12. CASE Close  BY <1>1, <1>12 DEF Close, authorVars
<1>13. ASSUME NEW r \in Reviewer, ReviewerStarts(r) PROVE HInv'
  BY <1>1, <1>13 DEF ReviewerStarts, authorVars
<1>14. ASSUME NEW r \in Reviewer, Comments(r) PROVE HInv'
  BY <1>1, <1>14 DEF Comments, authorVars
<1>15. ASSUME NEW r \in Reviewer, ReviewerCompletes(r) PROVE HInv'
  BY <1>1, <1>15 DEF ReviewerCompletes, authorVars
<1>16. CASE UNCHANGED vars  BY <1>1, <1>16 DEF vars, commitVars
<1> QED
  BY <1>3, <1>4, <1>5, <1>6, <1>7, <1>8, <1>9, <1>10, <1>11, <1>12, <1>13, <1>14, <1>15,
     <1>16 DEF Next

LEMMA HistoryInvariant == Spec => []HInv
BY InitHInv, NextHInv, PTL DEF Spec

-------------------------------------------------------------------------------
(* The walk along the fix passes' records.                                   *)

\* A walk of any length there is: as long as a shorter one, and a step.
LEMMA WalkIs ==
  \A k \in 0 .. MaxCommits + 1 :
    Walk[k] = IF k = 0 THEN WalkBegins ELSE Follow(Walk[k - 1])
<1> DEFINE Goes(f, k) == f = [j \in 0 .. k |-> IF j = 0 THEN WalkBegins ELSE Follow(f[j - 1])]
           Bad == {k \in 0 .. MaxCommits + 1 : ~ \E f : Goes(f, k)}
<1>1. Bad = {}
  <2> SUFFICES ASSUME Bad # {} PROVE FALSE  OBVIOUS
  <2>1. PICK k \in Bad : \A j \in Bad : k <= j
    <3>1. Bad \subseteq Nat  BY MaxCommitsAssumption
    <3> HIDE DEF Bad
    <3> QED  BY <3>1, Least
  <2>2. k \in Nat /\ k <= MaxCommits + 1 /\ ~ \E f : Goes(f, k)
    BY <2>1, MaxCommitsAssumption
  <2>3. k # 0
    <3> SUFFICES ASSUME k = 0 PROVE FALSE  OBVIOUS
    <3> DEFINE f == [j \in 0 .. 0 |-> WalkBegins]
    <3>1. f = [j \in 0 .. 0 |-> IF j = 0 THEN WalkBegins ELSE Follow(f[j - 1])]
      OBVIOUS
    <3>2. Goes(f, 0)  BY <3>1
    <3> QED  BY <2>2, <3>2
  <2>4. k - 1 \in 0 .. MaxCommits + 1 /\ k - 1 \notin Bad
    <3>1. k - 1 \in Nat /\ k - 1 <= MaxCommits + 1 /\ ~ (k <= k - 1)
      BY <2>2, <2>3, MaxCommitsAssumption
    <3> HIDE DEF Bad
    <3> QED  BY <2>1, <3>1, MaxCommitsAssumption
  <2>5. PICK f : Goes(f, k - 1)  BY <2>4
  <2> DEFINE g == [j \in 0 .. k |-> IF j = k THEN Follow(f[k - 1]) ELSE f[j]]
  <2>6. g = [j \in 0 .. k |-> IF j = 0 THEN WalkBegins ELSE Follow(g[j - 1])]
    <3>1. ASSUME NEW j \in 0 .. k
          PROVE  g[j] = IF j = 0 THEN WalkBegins ELSE Follow(g[j - 1])
      <4>1. CASE j = k
        <5>1. g[k] = Follow(f[k - 1]) /\ g[k - 1] = f[k - 1]  BY <2>2, <2>3
        <5> QED  BY <2>3, <4>1, <5>1
      <4>2. CASE j # k
        <5>1. j \in 0 .. k - 1 /\ g[j] = f[j]  BY <2>2, <4>2
        <5>2. f[j] = IF j = 0 THEN WalkBegins ELSE Follow(f[j - 1])  BY <2>5, <5>1
        <5>3. j # 0 => g[j - 1] = f[j - 1]  BY <2>2, <4>2
        <5> QED  BY <5>1, <5>2, <5>3
      <4> QED  BY <4>1, <4>2
    <3> HIDE DEF Bad, Goes
    <3> QED  BY <3>1
  <2>7. Goes(g, k)  BY <2>6
  <2> HIDE DEF Goes, g
  <2> QED  BY <2>2, <2>7
<1>2. MaxCommits + 1 \notin Bad  BY <1>1
<1>3. PICK f : Goes(f, MaxCommits + 1)  BY <1>2, MaxCommitsAssumption
<1>4. Walk = [j \in 0 .. MaxCommits + 1 |-> IF j = 0 THEN WalkBegins ELSE Follow(Walk[j - 1])]
  BY <1>3 DEF Walk
<1> QED  BY <1>4

WalkState == [at : Commit, seen : SUBSET Commit, lanes : SUBSET Author,
              end : {"on", "lost", "found"}]

\* The first record of a set of them is one of them.
LEMMA FirstHop ==
  ASSUME IInv, NEW c, Hops(c) # {}
  PROVE  /\ Min(Hops(c)) \in Hops(c)
         /\ records[Min(Hops(c))] \in ChainRecord
         /\ records[Min(Hops(c))].id \in Fix
         /\ records[Min(Hops(c))].base = c
         /\ records[Min(Hops(c))].head \in Commit
<1>1. records \in Seq(ChainRecord)  BY DEF IInv, TypeOK
<1>2. Hops(c) \subseteq Nat  BY <1>1 DEF Hops
<1>3. Min(Hops(c)) \in Hops(c)  BY <1>2, MinIs
<1>4. records[Min(Hops(c))] \in ChainRecord  BY <1>1, <1>3 DEF Hops
<1> QED  BY <1>3, <1>4, CommitIsNumber DEF Hops, ChainRecord

LEMMA FirstRoot ==
  ASSUME IInv, RootHead # None
  PROVE  \E i \in RootRecords :
           RootHead = records[i].head /\ records[i] \in ChainRecord /\ RootHead \in Commit
<1>1. records \in Seq(ChainRecord)  BY DEF IInv, TypeOK
<1>2. RootRecords # {} /\ RootRecords \subseteq Nat  BY <1>1 DEF RootRecords, RootHead
<1>3. Min(RootRecords) \in RootRecords  BY <1>2, MinIs
<1>4. RootHead = records[Min(RootRecords)].head  BY <1>2 DEF RootHead
<1>5. records[Min(RootRecords)] \in ChainRecord  BY <1>1, <1>3 DEF RootRecords
<1> QED  BY <1>3, <1>4, <1>5, CommitIsNumber DEF ChainRecord

\* Where a step leads, if the walk goes on.
LEMMA FollowIs ==
  ASSUME IInv, NEW w \in WalkState
  PROVE  /\ Follow(w) \in WalkState
         /\ w.end # "on" => Follow(w) = w
         /\ w.end = "on" /\ Hops(w.at) = {} => Follow(w) = [w EXCEPT !.end = "lost"]
         /\ w.end = "on" /\ Hops(w.at) # {} =>
              LET hop == records[Min(Hops(w.at))] IN
              /\ Follow(w).at = hop.head /\ Follow(w).seen = w.seen \cup {hop.head}
              /\ Follow(w).lanes = w.lanes \cup {hop.id}
              /\ Follow(w).end = IF hop.head = head THEN "found"
                                 ELSE IF hop.head \in w.seen THEN "lost" ELSE "on"
<1>1. CASE w.end # "on"  BY <1>1 DEF Follow
<1>2. CASE w.end = "on" /\ Hops(w.at) = {}  BY <1>2 DEF Follow, WalkState
<1>3. CASE w.end = "on" /\ Hops(w.at) # {}
  <2> DEFINE hop == records[Min(Hops(w.at))]
  <2>1. hop.id \in Author /\ hop.head \in Commit  BY <1>3, FirstHop DEF Author
  <2> HIDE DEF hop
  <2>2. Follow(w) = [at    |-> hop.head,
                     seen  |-> w.seen \cup {hop.head},
                     lanes |-> w.lanes \cup {hop.id},
                     end   |-> IF hop.head = head THEN "found"
                               ELSE IF hop.head \in w.seen THEN "lost" ELSE "on"]
    BY <1>3 DEF Follow, hop
  <2>3. Follow(w) \in WalkState  BY <2>1, <2>2 DEF WalkState
  <2> QED  BY <1>3, <2>2, <2>3 DEF hop
<1> QED  BY <1>1, <1>2, <1>3

\* The commits of a line of work are all accounted for.
AllAccounted(c) ==
  \A d \in Line[c] : by[d] \in {records[i].id : i \in DOMAIN records} \/ d \in pulled

\* What the records account for as far as the walk has come.
WalkAccounted(w) ==
  w \in WalkState /\ AllAccounted(w.at) /\ (w.end = "found" => w.at = head)

LEMMA WalkStaysAccounted ==
  ASSUME HInv, RootHead # None
  PROVE  \A k \in 0 .. MaxCommits + 1 : WalkAccounted(Walk[k])
<1> DEFINE Bad == {k \in 0 .. MaxCommits + 1 : ~ WalkAccounted(Walk[k])}
<1> SUFFICES ASSUME Bad # {} PROVE FALSE  OBVIOUS
<1>1. PICK k \in Bad : \A j \in Bad : k <= j
  <2>1. Bad \subseteq Nat  BY MaxCommitsAssumption
  <2> HIDE DEF Bad
  <2> QED  BY <2>1, Least
<1>2. k \in Nat /\ k \in 0 .. MaxCommits + 1 /\ ~ WalkAccounted(Walk[k])
  BY MaxCommitsAssumption
<1>3. k # 0
  <2>1. PICK i \in RootRecords :
          RootHead = records[i].head /\ records[i] \in ChainRecord /\ RootHead \in Commit
    BY FirstRoot DEF HInv
  <2>2. records[i].id = Root /\ i \in DOMAIN records  BY DEF RootRecords
  <2>3. records[i].base = 0 /\ Accounts(Root, 0, RootHead)
    BY <2>1, <2>2 DEF HInv, RecordsTrue, RecordTrue
  <2>4. Line[0] = {}
    <3>1. 0 \in Commit /\ parent \in Seq(Commit) /\ 0 \notin DOMAIN parent
      BY MaxCommitsAssumption DEF HInv, IInv, TypeOK, Commit
    <3> QED  BY <3>1, LineIs
  <2>5. AllAccounted(RootHead)  BY <2>2, <2>3, <2>4 DEF Accounts, AllAccounted
  <2>6. WalkBegins \in WalkState  BY <2>1 DEF WalkBegins, WalkState, Author
  <2>7. WalkAccounted(WalkBegins)  BY <2>5, <2>6 DEF WalkBegins, WalkAccounted
  <2>8. Walk[0] = WalkBegins  BY WalkIs, MaxCommitsAssumption
  <2> QED  BY <1>2, <2>7, <2>8
<1> DEFINE w == Walk[k - 1]
<1>4. WalkAccounted(w) /\ Walk[k] = Follow(w)
  <2>1. k - 1 \in 0 .. MaxCommits + 1 /\ ~ (k <= k - 1)
    BY <1>2, <1>3, MaxCommitsAssumption
  <2>2. k - 1 \notin Bad
    <3> HIDE DEF Bad
    <3> QED  BY <1>1, <2>1
  <2>3. Walk[k] = Follow(Walk[k - 1])  BY <1>2, <1>3, WalkIs
  <2> QED  BY <2>1, <2>2, <2>3
<1> HIDE DEF w
<1>5. w \in WalkState /\ IInv  BY <1>4 DEF WalkAccounted, HInv
<1>6. CASE w.end # "on"  BY <1>2, <1>4, <1>5, <1>6, FollowIs
<1>7. CASE w.end = "on" /\ Hops(w.at) = {}
  <2>1. Follow(w) \in WalkState /\ Follow(w).at = w.at /\ Follow(w).end = "lost"
    BY <1>5, <1>7, FollowIs DEF WalkState
  <2> QED  BY <1>2, <1>4, <2>1 DEF WalkAccounted
<1>8. CASE w.end = "on" /\ Hops(w.at) # {}
  <2> DEFINE i == Min(Hops(w.at))
             hop == records[i]
  <2>1. i \in DOMAIN records /\ hop.base = w.at /\ hop.head \in Commit
    BY <1>5, <1>8, FirstHop DEF Hops
  <2>2. /\ Follow(w) \in WalkState /\ Follow(w).at = hop.head
        /\ Follow(w).end = "found" => hop.head = head
    BY <1>5, <1>8, FollowIs
  <2> HIDE DEF i
  <2>3. Accounts(hop.id, hop.base, hop.head)
    <3>1. RecordTrue(records[i])  BY <2>1 DEF HInv, RecordsTrue
    <3>2. hop.head # None  BY <2>1, CommitIsNumber
    <3> QED  BY <3>1, <3>2 DEF RecordTrue
  <2>4. AllAccounted(hop.head)
    BY <1>4, <2>1, <2>3 DEF Accounts, AllAccounted, WalkAccounted
  <2> QED  BY <1>2, <1>4, <2>2, <2>4 DEF WalkAccounted
<1> QED  BY <1>6, <1>7, <1>8

\* gate.go's condition 2c, for any number of passes, pushes and pulls: whatever
\* the gate permits holds no commit that no record and no pull accounts for.
THEOREM CommitsAccounted == Spec => []EveryCommitAccounted
<1>1. HInv => EveryCommitAccounted
  <2> SUFFICES ASSUME HInv, NEW r \in Reviewer, Permitted(r) PROVE AllAccounted(head)
    BY DEF EveryCommitAccounted, AllAccounted
  <2>1. RootHead # None /\ Walk[MaxCommits + 1].end = "found"
    BY DEF Permitted, MayMerge, Allow, Chain
  <2>2. WalkAccounted(Walk[MaxCommits + 1])
    BY <2>1, WalkStaysAccounted, MaxCommitsAssumption
  <2> QED  BY <2>1, <2>2 DEF WalkAccounted
<1> QED  BY <1>1, HistoryInvariant, PTL

\* No two fix passes continue from one commit.
NoFork == \A c \in Commit : Cardinality(Hops(c)) <= 1

LEMMA OnlyHop ==
  ASSUME IInv, NoFork, NEW c \in Commit, NEW i \in Hops(c)
  PROVE  i = Min(Hops(c))
<1>1. records \in Seq(ChainRecord)  BY DEF IInv, TypeOK
<1>2. IsFiniteSet(Hops(c))
  <2>1. Hops(c) \in SUBSET (1 .. Len(records)) /\ Len(records) \in Int  BY <1>1 DEF Hops
  <2>2. IsFiniteSet(1 .. Len(records))  BY <2>1, FS_Interval
  <2> QED  BY <2>1, <2>2, FS_Subset
<1> DEFINE m == Min(Hops(c))
<1>3. m \in Hops(c)  BY FirstHop
<1> HIDE DEF m
<1> SUFFICES ASSUME i # m PROVE FALSE  BY DEF m
<1>4. IsFiniteSet({i}) /\ Cardinality({i}) = 1  BY FS_Singleton
<1>5. Cardinality({i} \cup {m}) = 2  BY <1>4, FS_AddElement
<1>6. {i} \cup {m} \in SUBSET Hops(c)  BY <1>3
<1>7. Cardinality({i} \cup {m}) <= Cardinality(Hops(c))  BY <1>2, <1>6, FS_Subset
<1>8. Cardinality(Hops(c)) <= 1  BY DEF NoFork
<1>9. Cardinality(Hops(c)) \in Nat  BY <1>2, FS_CardinalityType
<1> QED  BY <1>5, <1>7, <1>8, <1>9

\* Where no two passes continue from one commit, a walk that goes on has seen one
\* commit a step, never the head, and has left none but the last behind open.
WalkOpen(k, w) ==
  /\ w.at \in w.seen /\ RootHead \in w.seen /\ head \notin w.seen
  /\ IsFiniteSet(w.seen) /\ Cardinality(w.seen) = k + 1
  /\ \A c \in w.seen \ {w.at} : \A i \in Hops(c) : records[i].head \in w.seen

WalkFinds(k, w) ==
  /\ w \in WalkState /\ Root \in w.lanes /\ w.end # "lost"
  /\ w.end = "on" => WalkOpen(k, w)

\* Such a walk never turns back on what it has seen, nor comes to an end.
LEMMA NotLost ==
  ASSUME IInv, NoFork, Unbroken, NEW k \in Nat, NEW w, WalkFinds(k, w), w.end = "on"
  PROVE  /\ Hops(w.at) # {}
         /\ LET hop == records[Min(Hops(w.at))] IN
            hop.head # head => hop.head \notin w.seen
<1>1. /\ w \in WalkState /\ w.seen \in SUBSET Commit /\ w.at \in w.seen /\ RootHead \in w.seen
      /\ head \notin w.seen
      /\ \A c \in w.seen \ {w.at} : \A i \in Hops(c) : records[i].head \in w.seen
  BY DEF WalkFinds, WalkOpen, WalkState
<1>2. ~ \A i \in Hops(w.at) : records[i].head \in w.seen
  <2> SUFFICES ASSUME \A i \in Hops(w.at) : records[i].head \in w.seen PROVE FALSE
    OBVIOUS
  <2>1. \A c \in w.seen : \A i \in Hops(c) : records[i].head \in w.seen  BY <1>1
  <2> QED  BY <1>1, <2>1 DEF Unbroken
<1>3. PICK i \in Hops(w.at) : records[i].head \notin w.seen  BY <1>2
<1>4. i = Min(Hops(w.at))  BY <1>1, OnlyHop
<1> QED  BY <1>3, <1>4

LEMMA WalkStaysOpen ==
  ASSUME IInv, NoFork, Unbroken
  PROVE  \A k \in 0 .. MaxCommits + 1 : WalkFinds(k, Walk[k])
<1> DEFINE Bad == {k \in 0 .. MaxCommits + 1 : ~ WalkFinds(k, Walk[k])}
<1> SUFFICES ASSUME Bad # {} PROVE FALSE  OBVIOUS
<1>1. PICK k \in Bad : \A j \in Bad : k <= j
  <2>1. Bad \subseteq Nat  BY MaxCommitsAssumption
  <2> HIDE DEF Bad
  <2> QED  BY <2>1, Least
<1>2. k \in Nat /\ k \in 0 .. MaxCommits + 1 /\ ~ WalkFinds(k, Walk[k])
  BY MaxCommitsAssumption
<1>3. k # 0
  <2>1. RootHead \in Commit  BY FirstRoot DEF Unbroken
  <2>2. WalkBegins \in WalkState  BY <2>1 DEF WalkBegins, WalkState, Author
  <2>3. IsFiniteSet({RootHead}) /\ Cardinality({RootHead}) = 1  BY FS_Singleton
  <2>4. WalkFinds(0, WalkBegins)  BY <2>2, <2>3 DEF WalkBegins, WalkFinds, WalkOpen
  <2>5. Walk[0] = WalkBegins  BY WalkIs, MaxCommitsAssumption
  <2> QED  BY <1>2, <2>4, <2>5
<1> DEFINE w == Walk[k - 1]
<1>4. WalkFinds(k - 1, w) /\ Walk[k] = Follow(w) /\ k - 1 \in Nat
  <2>1. k - 1 \in 0 .. MaxCommits + 1 /\ ~ (k <= k - 1)
    BY <1>2, <1>3, MaxCommitsAssumption
  <2>2. k - 1 \notin Bad
    <3> HIDE DEF Bad
    <3> QED  BY <1>1, <2>1
  <2>3. Walk[k] = Follow(Walk[k - 1])  BY <1>2, <1>3, WalkIs
  <2> QED  BY <2>1, <2>2, <2>3
<1> HIDE DEF w, Bad
<1>5. w \in WalkState  BY <1>4 DEF WalkFinds
<1>6. CASE w.end # "on"
  <2>1. Follow(w) = w  BY <1>5, <1>6, FollowIs
  <2> QED  BY <1>2, <1>4, <1>6, <2>1 DEF WalkFinds
<1>7. CASE w.end = "on"
  <2> DEFINE i == Min(Hops(w.at))
             hop == records[i]
             next == Follow(w)
  <2>1. Hops(w.at) # {} /\ (hop.head # head => hop.head \notin w.seen)
    BY <1>4, <1>7, NotLost
  <2>2. /\ next \in WalkState /\ next.at = hop.head /\ next.seen = w.seen \cup {hop.head}
        /\ next.lanes = w.lanes \cup {hop.id}
        /\ next.end = IF hop.head = head THEN "found"
                      ELSE IF hop.head \in w.seen THEN "lost" ELSE "on"
    BY <1>5, <1>7, <2>1, FollowIs
  <2>3. w.at \in Commit /\ \A j \in Hops(w.at) : j = i
    BY <1>5, OnlyHop DEF WalkState
  <2>4. WalkOpen(k - 1, w)  BY <1>4, <1>7 DEF WalkFinds
  <2> HIDE DEF i, next
  <2>5. ASSUME hop.head # head PROVE WalkOpen(k, next)
    <3>1. hop.head \notin w.seen  BY <2>1, <2>5
    <3>2. IsFiniteSet(next.seen) /\ Cardinality(next.seen) = k + 1
      <4>1. IsFiniteSet(w.seen) /\ Cardinality(w.seen) = k  BY <1>2, <2>4 DEF WalkOpen
      <4>2. /\ IsFiniteSet(w.seen \cup {hop.head})
            /\ Cardinality(w.seen \cup {hop.head}) = Cardinality(w.seen) + 1
        BY <3>1, <4>1, FS_AddElement
      <4> QED  BY <2>2, <4>1, <4>2
    <3>3. ASSUME NEW c \in next.seen \ {next.at}, NEW j \in Hops(c)
          PROVE  records[j].head \in next.seen
      <4>1. c \in w.seen  BY <2>2, <3>3
      <4>2. CASE c = w.at  BY <2>2, <2>3, <3>3, <4>2
      <4>3. CASE c # w.at  BY <2>2, <2>4, <3>3, <4>1, <4>3 DEF WalkOpen
      <4> QED  BY <4>2, <4>3
    <3>4. next.at \in next.seen /\ RootHead \in next.seen /\ head \notin next.seen
      BY <2>2, <2>4, <2>5 DEF WalkOpen
    <3> QED  BY <3>2, <3>3, <3>4 DEF WalkOpen
  <2>6. WalkFinds(k, next)
    <3>1. Root \in next.lanes  BY <1>4, <2>2 DEF WalkFinds
    <3>2. next.end # "lost"  BY <2>1, <2>2
    <3>3. next.end = "on" => hop.head # head  BY <2>2
    <3> QED  BY <2>2, <2>5, <3>1, <3>2, <3>3 DEF WalkFinds
  <2> QED  BY <1>2, <1>4, <2>6 DEF next
<1> QED  BY <1>6, <1>7

\* There are not as many commits as a walk that never ends would see.
LEMMA WalkEnds ==
  ASSUME IInv, NoFork, Unbroken
  PROVE  Chain.end = "found" /\ Root \in Chain.lanes
<1>1. WalkFinds(MaxCommits + 1, Chain)
  <2>1. MaxCommits + 1 \in 0 .. MaxCommits + 1  BY MaxCommitsAssumption
  <2> QED  BY <2>1, WalkStaysOpen DEF Chain
<1>2. ASSUME Chain.end = "on" PROVE FALSE
  <2>1. /\ Chain.seen \in SUBSET Commit
        /\ Cardinality(Chain.seen) = MaxCommits + 1 + 1
    BY <1>1, <1>2 DEF WalkFinds, WalkOpen, WalkState
  <2>2. IsFiniteSet(Commit) /\ Cardinality(Commit) = MaxCommits + 1
    BY MaxCommitsAssumption, FS_Interval DEF Commit
  <2>3. Cardinality(Chain.seen) <= Cardinality(Commit)  BY <2>1, <2>2, FS_Subset
  <2> QED  BY <2>1, <2>2, <2>3, MaxCommitsAssumption
<1>3. Chain.end \in {"on", "lost", "found"}  BY <1>1 DEF WalkFinds, WalkState
<1> QED  BY <1>1, <1>2, <1>3 DEF WalkFinds

\* The gate's conditions are enough, however many fix passes there were: an
\* unbroken chain without a fork is walked to its end (gate.go, evaluate and
\* authorRecordForFixPassChain).
THEOREM ConditionsSuffice == Spec => []LegitimateAllowed
<1>1. IInv => LegitimateAllowed
  <2> SUFFICES ASSUME IInv, NEW r \in Reviewer, Legitimate(r), NoFork
               PROVE  MayMerge(r, "unreadable", FALSE)
    BY DEF LegitimateAllowed, NoFork
  <2>1. Unbroken /\ RootHead # None  BY DEF Legitimate, Unbroken
  <2>2. Chain.end = "found" /\ Root \in Chain.lanes  BY <2>1, WalkEnds
  <2>3. TrailerAgrees  BY <2>2 DEF IInv, TypeOK, TrailerAgrees
  <2>4. result[r] # None
    BY NoneAssumption DEF Legitimate, Verdict
  <2>5. VerdictApproves(r)  BY DEF Legitimate, VerdictApproves, ShaMatches
  <2> QED  BY <2>1, <2>2, <2>3, <2>4, <2>5 DEF Legitimate, Allow, MayMerge, MainPermits
<1> QED  BY <1>1, Invariant, PTL
===============================================================================
