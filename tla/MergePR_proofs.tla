---------------------------- MODULE MergePR_proofs ----------------------------
(***************************************************************************)
(* A merge of a head that stays merges a commit that was green and         *)
(* approved, for any number of check runs, comments and heads.             *)
(***************************************************************************)
EXTENDS MergePR, TLAPS

\* Times tell the order of what they stamp.
Clock == \A i \in DOMAIN checks :
  /\ checks[i].began <= now
  /\ checks[i].ended # Running => checks[i].began <= checks[i].ended /\ checks[i].ended <= now

\* What the merger has read is so from then on, of the commit it read about.
GreenRead == merger.pc \in {"checks", "green", "allowed", "merged"} /\ merger.green =>
  \A name \in Name : Apart(merger.sha, name, merger.runs) => LastIsGreen(merger.sha, name, merger.runs)

SomeRead == merger.pc # "idle" /\ merger.some => Reported(merger.sha) # {}

Passed == merger.pc \in {"green", "allowed", "merged"} =>
  merger.green /\ (Reported(merger.sha) # {} \/ status[merger.sha] # "none")

Allowed == merger.pc \in {"allowed", "merged"} =>
  merger.comments > 0 /\ Approves(comments[merger.comments], merger.sha)

\* The head is still the one that was judged, or it moved since.
Still == /\ At("allowed") /\ ~moved => head = merger.sha
         /\ At("merged") => merged # None
         /\ At("merged") /\ ~moved => merged = merger.sha

Judgement == GreenRead /\ SomeRead /\ Passed /\ Allowed
IInv == TypeOK /\ Clock /\ Judgement /\ Still

-----------------------------------------------------------------------------
\* The newest by its key is the one that began last, where the times tell.
LEMMA NewestIsLast ==
  ASSUME TypeOK, Clock, NEW c \in Commit, NEW name \in Name, Judged(c, TRUE),
         Apart(c, name, Len(checks))
  PROVE  LastIsGreen(c, name, Len(checks))
<1> DEFINE n == Len(checks)
<1> SUFFICES ASSUME NEW i \in RunsAmong(c, name, n), \A j \in RunsAmong(c, name, n) : j <= i
             PROVE  Passes(checks[i])
  BY DEF LastIsGreen
<1>1. n \in Nat /\ DOMAIN checks = 1 .. n /\ \A k \in 1 .. n : checks[k] \in Run
  BY DEF TypeOK, ForgeTypeOK, MergerTypeOK
<1>2. i \in 1 .. n /\ checks[i].head = c /\ checks[i].name = name
  BY DEF RunsAmong
<1>3. checks[i] \in RunsOf(c, name)
  BY <1>1, <1>2 DEF RunsOf
<1>4. name \in Reported(c)
  BY <1>3 DEF Reported
<1>5. PICK r \in Newest(c, name) : Passes(r)
  BY <1>4 DEF Judged
<1>6. r \in RunsOf(c, name) /\ Key(checks[i]) <= Key(r)
  BY <1>3 DEF Newest
<1>7. PICK k \in 1 .. n : r = checks[k] /\ checks[k].head = c /\ checks[k].name = name
  BY <1>1, <1>6 DEF RunsOf
<1>8. k \in RunsAmong(c, name, n) /\ k <= i
  BY <1>7 DEF RunsAmong
<1>9. CASE k < i
  <2>1. checks[k].ended # Running /\ checks[k].ended < checks[i].began
    BY <1>8, <1>9 DEF Apart
  <2>2. checks[i].began \in Nat /\ checks[i].ended \in Nat /\ checks[k].ended \in Nat
    BY <1>1, <1>2, <1>7 DEF Run
  <2>3. checks[i].ended # Running => checks[i].began <= checks[i].ended
    BY <1>1, <1>2 DEF Clock
  <2>4. checks[i].began <= Key(checks[i])
    BY <2>2, <2>3 DEF Key
  <2>5. Key(checks[k]) = checks[k].ended /\ Key(checks[i]) \in Nat
    BY <2>1, <2>2 DEF Key
  <2> QED  BY <2>1, <2>2, <2>4, <2>5, <1>6, <1>7
<1>10. CASE k = i
  BY <1>5, <1>7, <1>10
<1> QED  BY <1>2, <1>7, <1>8, <1>9, <1>10

\* Runs that are read can still end, but not so that their order or what passed changes.
LEMMA EndsKeep ==
  ASSUME TypeOK, Clock, NEW i \in DOMAIN checks, NEW green \in BOOLEAN, CheckEnds(i, green),
         NEW c \in Commit, NEW name \in Name, NEW n \in 0 .. Len(checks),
         Apart(c, name, n) => LastIsGreen(c, name, n)
  PROVE  Apart(c, name, n)' => LastIsGreen(c, name, n)'
<1>1. /\ Len(checks) \in Nat /\ DOMAIN checks = 1 .. Len(checks) /\ n \in Nat
      /\ \A k \in 1 .. Len(checks) : checks[k] \in Run
  BY DEF TypeOK, ForgeTypeOK, MergerTypeOK
<1>2. /\ checks[i].ended = Running /\ now \in Nat
      /\ checks' = [checks EXCEPT ![i] = [@ EXCEPT !.ended = now, !.green = green]]
  BY DEF CheckEnds, TypeOK, ForgeTypeOK, MergerTypeOK
<1>3. \A k \in 1 .. Len(checks) :
        /\ checks'[k].head = checks[k].head /\ checks'[k].name = checks[k].name
        /\ checks'[k].began = checks[k].began
        /\ k # i => checks'[k] = checks[k]
  BY <1>1, <1>2 DEF Run
<1>4. checks'[i].ended = now
  BY <1>1, <1>2 DEF Run
<1>5. RunsAmong(c, name, n)' = RunsAmong(c, name, n) /\ RunsAmong(c, name, n) \subseteq 1 .. Len(checks)
  BY <1>1, <1>3 DEF RunsAmong
<1> SUFFICES ASSUME Apart(c, name, n)' PROVE LastIsGreen(c, name, n)'
  OBVIOUS
<1>6. Apart(c, name, n)
  <2> SUFFICES ASSUME NEW j \in RunsAmong(c, name, n), NEW k \in RunsAmong(c, name, n), j < k
               PROVE  checks[j].ended # Running /\ checks[j].ended < checks[k].began
    BY DEF Apart
  <2>1. checks'[j].ended # Running /\ checks'[j].ended < checks'[k].began
    BY <1>5 DEF Apart
  <2>2. CASE j # i
    BY <2>1, <2>2, <1>3, <1>5
  <2>3. CASE j = i
    <3>1. now < checks[k].began
      BY <2>1, <2>3, <1>3, <1>4, <1>5
    <3>2. checks[k].began <= now /\ checks[k].began \in Nat
      BY <1>1, <1>5 DEF Clock, Run
    <3> QED  BY <3>1, <3>2, <1>2
  <2> QED  BY <2>2, <2>3
<1> SUFFICES ASSUME NEW k \in RunsAmong(c, name, n), \A j \in RunsAmong(c, name, n) : j <= k
             PROVE  Passes(checks'[k])
  BY <1>5 DEF LastIsGreen, Passes
<1>7. Passes(checks[k])
  BY <1>6 DEF LastIsGreen
<1>8. k # i
  BY <1>7, <1>2 DEF Passes
<1> QED  BY <1>3, <1>5, <1>7, <1>8

\* Another run leaves what was read of the first n alone.
LEMMA BeginsKeep ==
  ASSUME TypeOK, NEW d \in Commit, NEW m \in Name, CheckBegins(d, m),
         NEW c \in Commit, NEW name \in Name, NEW n \in 0 .. Len(checks)
  PROVE  /\ Apart(c, name, n)' <=> Apart(c, name, n)
         /\ LastIsGreen(c, name, n)' <=> LastIsGreen(c, name, n)
<1>1. \A k \in 1 .. n : checks'[k] = checks[k]
  BY DEF TypeOK, ForgeTypeOK, MergerTypeOK, CheckBegins
<1>2. RunsAmong(c, name, n)' = RunsAmong(c, name, n) /\ RunsAmong(c, name, n) \subseteq 1 .. n
  BY <1>1 DEF RunsAmong
<1> QED  BY <1>1, <1>2 DEF Apart, LastIsGreen, Passes

\* Runs are not taken back.
LEMMA ReportedStays ==
  ASSUME TypeOK, NEW c \in Commit,
         \/ \E d \in Commit, m \in Name : CheckBegins(d, m)
         \/ \E i \in DOMAIN checks, green \in BOOLEAN : CheckEnds(i, green)
         \/ checks' = checks
  PROVE  Reported(c) # {} => (Reported(c) # {})'
<1> SUFFICES ASSUME NEW name \in Name, NEW k \in DOMAIN checks,
                    checks[k].head = c, checks[k].name = name
             PROVE  (Reported(c) # {})'
  BY DEF Reported, RunsOf
<1>1. k \in DOMAIN checks' /\ checks'[k].head = c /\ checks'[k].name = name
  <2>1. CASE \E d \in Commit, m \in Name : CheckBegins(d, m)
    BY <2>1 DEF CheckBegins, TypeOK, ForgeTypeOK, MergerTypeOK
  <2>2. CASE \E i \in DOMAIN checks, green \in BOOLEAN : CheckEnds(i, green)
    <3>1. PICK i \in DOMAIN checks, green \in BOOLEAN : CheckEnds(i, green)
      BY <2>2
    <3>2. checks[i] \in Run /\ DOMAIN checks' = DOMAIN checks
      <4>1. checks \in Seq(Run)
        BY DEF TypeOK, ForgeTypeOK
      <4>2. checks[i] \in Run
        BY <4>1
      <4>3. DOMAIN checks' = DOMAIN checks
        BY <3>1, <4>1 DEF CheckEnds
      <4> QED  BY <4>2, <4>3
    <3>3. checks'[i].head = checks[i].head /\ checks'[i].name = checks[i].name
      BY <3>1, <3>2 DEF CheckEnds, Run
    <3>4. k # i => checks'[k] = checks[k]
      BY <3>1 DEF CheckEnds
    <3> QED  BY <3>2, <3>3, <3>4
  <2>3. CASE checks' = checks
    BY <2>3
  <2> QED  BY <2>1, <2>2, <2>3
<1>2. checks'[k] \in RunsOf(c, name)'
  BY <1>1 DEF RunsOf
<1> QED  BY <1>2 DEF Reported

-----------------------------------------------------------------------------
LEMMA IdleFacts ==
  Idle \in Merger /\ Idle.pc = "idle" /\ Idle.runs = 0 /\ Idle.comments = 0
BY DEF Idle, Merger

LEMMA InitInv == Init => IInv
<1> SUFFICES ASSUME Init PROVE IInv
  OBVIOUS
<1>1. TypeOK
  <2>1. checks \in Seq(Run) /\ Len(checks) = 0 /\ comments \in Seq(Comment) /\ Len(comments) = 0
    BY DEF Init
  <2>2. now \in 1 .. MaxTime
    BY MergeAssumption DEF Init
  <2>4. ForgeTypeOK
    BY <2>1, <2>2 DEF Init, ForgeTypeOK
  <2>5. MergerTypeOK
    BY <2>1, IdleFacts DEF Init, MergerTypeOK
  <2>6. moved \in BOOLEAN
    BY DEF Init
  <2> QED  BY <2>4, <2>5, <2>6 DEF TypeOK
<1>2. Clock /\ Judgement /\ Still
  BY DEF Init, Clock, Judgement, GreenRead, SomeRead, Passed, Allowed, Still, At, Idle
<1> QED  BY <1>1, <1>2 DEF IInv

LEMMA NextTypes == IInv /\ [Next]_vars => TypeOK'
<1> SUFFICES ASSUME TypeOK, [Next]_vars PROVE TypeOK'
  BY DEF IInv
<1> USE DEF ForgeTypeOK, MergerTypeOK
<1>1. CASE Tock
  BY <1>1, MergeAssumption DEF TypeOK, Tock
<1>2. CASE \E c \in Commit : Push(c)
  BY <1>2 DEF TypeOK, Push, At
<1>3. CASE \E c \in Commit, n \in Name : CheckBegins(c, n)
  <2>1. PICK c \in Commit, n \in Name : CheckBegins(c, n)
    BY <1>3
  <2>2. [head |-> c, name |-> n, began |-> now, ended |-> Running, green |-> FALSE] \in Run
    BY DEF Run, Running, TypeOK
  <2>3. checks' \in Seq(Run) /\ Len(checks') = Len(checks) + 1 /\ Len(checks) \in Nat
    BY <2>1, <2>2 DEF CheckBegins, TypeOK
  <2>4. ForgeTypeOK'
    BY <2>1, <2>3 DEF TypeOK, CheckBegins
  <2>5. merger.runs \in Nat /\ merger' = merger /\ comments' = comments
    BY <2>1 DEF TypeOK, CheckBegins, Merger
  <2>6. MergerTypeOK'
    BY <2>3, <2>5 DEF TypeOK
  <2>7. moved' \in BOOLEAN
    BY <2>1 DEF TypeOK, CheckBegins
  <2> QED  BY <2>4, <2>6, <2>7 DEF TypeOK
<1>4. CASE \E i \in DOMAIN checks, green \in BOOLEAN : CheckEnds(i, green)
  <2>1. PICK i \in DOMAIN checks, green \in BOOLEAN : CheckEnds(i, green)
    BY <1>4
  <2>2. checks[i] \in Run /\ now \in Nat
    BY DEF TypeOK
  <2>3. [checks[i] EXCEPT !.ended = now, !.green = green] \in Run
    BY <2>2 DEF Run
  <2>4. checks' \in Seq(Run) /\ Len(checks') = Len(checks)
    BY <2>1, <2>3 DEF CheckEnds, TypeOK
  <2> QED  BY <2>1, <2>4 DEF TypeOK, CheckEnds
<1>5. CASE \E c \in Commit, state \in {"pending", "success", "failure"} : StatusChanges(c, state)
  BY <1>5 DEF TypeOK, StatusChanges
<1>6. CASE \E comment \in Comment : Speaks(comment)
  <2>1. PICK comment \in Comment : Speaks(comment)
    BY <1>6
  <2>2. comments' \in Seq(Comment) /\ Len(comments') = Len(comments) + 1 /\ Len(comments) \in Nat
    BY <2>1 DEF Speaks, TypeOK
  <2>3. ForgeTypeOK'
    BY <2>1, <2>2 DEF TypeOK, Speaks
  <2>4. merger.comments \in Nat /\ merger' = merger /\ checks' = checks
    BY <2>1 DEF TypeOK, Speaks, Merger
  <2>5. MergerTypeOK'
    BY <2>2, <2>4 DEF TypeOK
  <2>6. moved' \in BOOLEAN
    BY <2>1 DEF TypeOK, Speaks
  <2> QED  BY <2>3, <2>5, <2>6 DEF TypeOK
<1>7. CASE MergerStep
  <2>0. Len(checks) \in Nat /\ Len(comments) \in Nat /\ MergerTypeOK /\ head \in Commit
    BY DEF TypeOK
  <2>1. checks' = checks /\ comments' = comments
    BY <1>7 DEF MergerStep, ReadsHead, ReadsChecks, ReadsStatuses, ReadsVerdict, Merges,
                Fails, Learns, forge
  <2>2. ForgeTypeOK'
    BY <1>7 DEF TypeOK, MergerStep, ReadsHead, ReadsChecks, ReadsStatuses, ReadsVerdict, Merges,
                Fails, Learns, forge
  <2>3. MergerTypeOK'
    <3>0. CASE merger' = Idle
      BY <2>0, <2>1, <3>0, IdleFacts
    <3>1. CASE ReadsHead
      <4>1. merger' = [Idle EXCEPT !.pc = "head", !.sha = head]
        BY <3>1 DEF ReadsHead, Learns
      <4>2. merger' \in Merger /\ merger'.sha = head /\ merger'.runs = 0 /\ merger'.comments = 0
        BY <2>0, <4>1, IdleFacts DEF Merger
      <4> QED  BY <2>0, <2>1, <4>2
    <3>2. CASE ReadsChecks
      <4> DEFINE some == Reported(merger.sha) # {}
      <4>1. PICK green \in BOOLEAN :
              merger' = [merger EXCEPT !.pc = "checks", !.green = green, !.some = some, !.runs = Len(checks)]
        BY <3>2 DEF ReadsChecks, Learns
      <4>2. some \in BOOLEAN
        OBVIOUS
      <4> HIDE DEF some
      <4>3. /\ merger' \in Merger /\ merger'.sha = merger.sha
            /\ merger'.runs = Len(checks) /\ merger'.comments = merger.comments
        BY <2>0, <4>1, <4>2 DEF Merger
      <4>4. merger.sha \in Commit
        BY <2>0, <3>2 DEF ReadsChecks, At
      <4> QED  BY <2>0, <2>1, <4>3, <4>4
    <3>3. CASE ReadsStatuses
      <4>1. CASE merger' = [merger EXCEPT !.pc = "green"]
        BY <2>0, <2>1, <3>3, <4>1 DEF ReadsStatuses, Learns, At, Merger
      <4> QED  BY <3>0, <3>3, <4>1 DEF ReadsStatuses, Learns
    <3>4. CASE ReadsVerdict
      <4>1. CASE merger' = [merger EXCEPT !.pc = "allowed", !.comments = Len(comments)]
        <5>1. /\ merger' \in Merger /\ merger'.sha = merger.sha
              /\ merger'.runs = merger.runs /\ merger'.comments = Len(comments)
          BY <2>0, <4>1 DEF Merger
        <5>2. merger.sha \in Commit
          BY <2>0, <3>4 DEF ReadsVerdict, At
        <5> QED  BY <2>0, <2>1, <5>1, <5>2
      <4> QED  BY <3>0, <3>4, <4>1 DEF ReadsVerdict
    <3>5. CASE Merges
      BY <2>0, <2>1, <3>5 DEF Merges, At, Merger
    <3>6. CASE Fails
      BY <3>0, <3>6 DEF Fails
    <3> QED  BY <1>7, <3>1, <3>2, <3>3, <3>4, <3>5, <3>6 DEF MergerStep
  <2>4. moved' \in BOOLEAN
    BY <1>7 DEF TypeOK, MergerStep, ReadsHead, ReadsChecks, ReadsStatuses, ReadsVerdict, Merges,
                Fails, Learns
  <2> QED  BY <2>2, <2>3, <2>4 DEF TypeOK
<1>8. CASE UNCHANGED vars
  BY <1>8 DEF vars, forge, TypeOK
<1> QED  BY <1>1, <1>2, <1>3, <1>4, <1>5, <1>6, <1>7, <1>8 DEF Next

LEMMA NextClock == IInv /\ [Next]_vars => Clock'
<1> SUFFICES ASSUME IInv, [Next]_vars PROVE Clock'
  OBVIOUS
<1>0. /\ now \in Nat /\ Len(checks) \in Nat /\ DOMAIN checks = 1 .. Len(checks)
      /\ \A k \in 1 .. Len(checks) : /\ checks[k] \in Run
                                     /\ checks[k].began \in Nat /\ checks[k].ended \in Nat
  <2>1. now \in Nat /\ checks \in Seq(Run)
    BY DEF IInv, TypeOK, ForgeTypeOK
  <2>2. \A r \in Run : r.began \in Nat /\ r.ended \in Nat
    BY DEF Run
  <2> QED  BY <2>1, <2>2
<1>1. CASE Tock
  BY <1>0, <1>1 DEF IInv, Clock, Tock
<1>2. CASE \E c \in Commit, n \in Name : CheckBegins(c, n)
  <2>1. PICK c \in Commit, n \in Name : CheckBegins(c, n)
    BY <1>2
  <2> DEFINE run == [head |-> c, name |-> n, began |-> now, ended |-> Running, green |-> FALSE]
  <2>2. /\ now' = now /\ DOMAIN checks' = 1 .. Len(checks) + 1
        /\ checks'[Len(checks) + 1] = run
        /\ \A k \in 1 .. Len(checks) : checks'[k] = checks[k]
    BY <1>0, <2>1 DEF CheckBegins, IInv, TypeOK
  <2>3. run.began = now /\ run.ended = Running
    OBVIOUS
  <2> HIDE DEF run
  <2>4. \A k \in DOMAIN checks' : k \in 1 .. Len(checks) \/ k = Len(checks) + 1
    BY <1>0, <2>2
  <2>5. \A k \in 1 .. Len(checks) : /\ checks[k].began <= now
                                    /\ checks[k].ended # Running => checks[k].began <= checks[k].ended /\ checks[k].ended <= now
    BY <1>0 DEF IInv, Clock
  <2> QED  BY <1>0, <2>2, <2>3, <2>4, <2>5 DEF Clock
<1>3. CASE \E i \in DOMAIN checks, green \in BOOLEAN : CheckEnds(i, green)
  <2>1. PICK i \in DOMAIN checks, green \in BOOLEAN : CheckEnds(i, green)
    BY <1>3
  <2>2. /\ now' = now /\ DOMAIN checks' = DOMAIN checks
        /\ checks'[i].began = checks[i].began /\ checks'[i].ended = now
        /\ \A k \in DOMAIN checks : k # i => checks'[k] = checks[k]
    BY <1>0, <2>1 DEF CheckEnds, Run
  <2> QED  BY <1>0, <2>2 DEF IInv, Clock
<1>4. CASE UNCHANGED <<now, checks>>
  BY <1>4 DEF IInv, Clock
<1> QED  BY <1>1, <1>2, <1>3, <1>4
     DEF Next, vars, forge, Push, StatusChanges, Speaks, MergerStep, ReadsHead, ReadsChecks,
         ReadsStatuses, ReadsVerdict, Merges, Fails, Learns

-----------------------------------------------------------------------------
\* The forge goes on, and what the merger has read stays so.
LEMMA ForgeKeepsJudgement ==
  ASSUME IInv, Next, merger' = merger
  PROVE  Judgement'
<1>0. /\ TypeOK /\ Clock /\ Judgement
      /\ merger.pc # "idle" => merger.sha \in Commit
      /\ merger.runs \in 0 .. Len(checks) /\ merger.comments \in 0 .. Len(comments)
  <2>1. merger.runs \in Nat /\ merger.comments \in Nat /\ Len(checks) \in Nat /\ Len(comments) \in Nat
    BY DEF IInv, TypeOK, ForgeTypeOK, MergerTypeOK, Merger
  <2> QED  BY <2>1 DEF IInv, TypeOK, MergerTypeOK
<1>1. \/ \E d \in Commit, m \in Name : CheckBegins(d, m)
      \/ \E i \in DOMAIN checks, green \in BOOLEAN : CheckEnds(i, green)
      \/ checks' = checks
  BY DEF Next, Tock, Push, StatusChanges, Speaks, MergerStep, ReadsHead, ReadsChecks,
         ReadsStatuses, ReadsVerdict, Merges, Fails, Learns, forge
<1>2. GreenRead'
  <2> SUFFICES ASSUME merger.pc \in {"checks", "green", "allowed", "merged"}, merger.green,
                      NEW name \in Name
               PROVE  Apart(merger.sha, name, merger.runs)' => LastIsGreen(merger.sha, name, merger.runs)'
    BY DEF GreenRead
  <2>1. merger.sha \in Commit /\ (Apart(merger.sha, name, merger.runs) => LastIsGreen(merger.sha, name, merger.runs))
    BY <1>0 DEF Judgement, GreenRead
  <2>2. PICK c \in Commit, n \in 0 .. Len(checks) : c = merger.sha /\ n = merger.runs
    BY <1>0, <2>1
  <2>3. Apart(c, name, n) => LastIsGreen(c, name, n)
    BY <2>1, <2>2
  <2>4. Apart(c, name, n)' => LastIsGreen(c, name, n)'
    <3>1. CASE \E d \in Commit, m \in Name : CheckBegins(d, m)
      BY <1>0, <2>3, <3>1, BeginsKeep
    <3>2. CASE \E i \in DOMAIN checks, green \in BOOLEAN : CheckEnds(i, green)
      BY <1>0, <2>3, <3>2, EndsKeep
    <3>3. CASE checks' = checks
      BY <2>3, <3>3 DEF Apart, LastIsGreen, RunsAmong
    <3> QED  BY <1>1, <3>1, <3>2, <3>3
  <2>5. merger'.sha = c /\ merger'.runs = n
    BY <2>2
  <2> QED  BY <2>4, <2>5
<1>3. merger.pc # "idle" /\ Reported(merger.sha) # {} => Reported(merger.sha)' # {}
  <2> SUFFICES ASSUME merger.pc # "idle", Reported(merger.sha) # {} PROVE Reported(merger.sha)' # {}
    OBVIOUS
  <2>1. PICK c \in Commit : c = merger.sha
    BY <1>0
  <2>2. (Reported(c) # {})'
    BY <1>0, <1>1, <2>1, ReportedStays
  <2> QED  BY <2>1, <2>2
<1>4. SomeRead'
  BY <1>0, <1>3 DEF Judgement, SomeRead
<1>5. merger.pc # "idle" /\ status[merger.sha] # "none" => status'[merger.sha] # "none"
  BY <1>0 DEF Next, Tock, Push, CheckBegins, CheckEnds, StatusChanges, Speaks, MergerStep, ReadsHead,
              ReadsChecks, ReadsStatuses, ReadsVerdict, Merges, Fails, Learns, forge,
              TypeOK, ForgeTypeOK
<1>6. Passed'
  BY <1>0, <1>3, <1>5 DEF Judgement, Passed
<1>7. \A k \in 1 .. Len(comments) : comments'[k] = comments[k]
  <2>1. CASE \E comment \in Comment : Speaks(comment)
    BY <1>0, <2>1 DEF Speaks, TypeOK, ForgeTypeOK
  <2>2. CASE comments' = comments
    BY <2>2
  <2> QED  BY <2>1, <2>2 DEF Next, Tock, Push, CheckBegins, CheckEnds, StatusChanges, Speaks, MergerStep, ReadsHead,
              ReadsChecks, ReadsStatuses, ReadsVerdict, Merges, Fails, Learns, forge
<1>8. Allowed'
  BY <1>0, <1>7 DEF Judgement, Allowed, Approves
<1> QED  BY <1>2, <1>4, <1>6, <1>8 DEF Judgement

LEMMA NextJudgement == IInv /\ [Next]_vars => Judgement'
<1> SUFFICES ASSUME IInv, [Next]_vars PROVE Judgement'
  OBVIOUS
<1>0. /\ TypeOK /\ Clock /\ Judgement /\ merger \in Merger
      /\ Len(checks) \in Nat /\ Len(comments) \in Nat
      /\ merger.pc # "idle" => merger.sha \in Commit
  BY DEF IInv, TypeOK, ForgeTypeOK, MergerTypeOK
<1>1. CASE Next /\ merger' = merger
  BY <1>1, ForgeKeepsJudgement
<1>2. CASE UNCHANGED vars
  BY <1>0, <1>2, SMTT(30) DEF vars, forge, Judgement, GreenRead, SomeRead, Passed, Allowed, Apart, LastIsGreen,
                    RunsAmong, Approves, Reported, RunsOf
<1>3. CASE merger'.pc = "idle"
  BY <1>3 DEF Judgement, GreenRead, SomeRead, Passed, Allowed
<1>4. CASE ReadsHead
  <2>1. merger'.pc = "head" /\ merger'.some = FALSE
    BY <1>4 DEF ReadsHead, Learns, Idle
  <2> QED  BY <2>1 DEF Judgement, GreenRead, SomeRead, Passed, Allowed
<1>5. CASE ReadsChecks
  <2>1. checks' = checks
    BY <1>5 DEF ReadsChecks, Learns, forge
  <2>2. PICK green \in BOOLEAN :
          /\ Judged(merger.sha, green)
          /\ merger' = [merger EXCEPT !.pc = "checks", !.green = green,
                                      !.some = Reported(merger.sha) # {}, !.runs = Len(checks)]
    BY <1>5 DEF ReadsChecks, Learns
  <2>3. /\ merger'.pc = "checks" /\ merger'.green = green /\ merger'.sha = merger.sha
        /\ merger'.runs = Len(checks) /\ (merger'.some <=> Reported(merger.sha) # {})
    BY <1>0, <2>2 DEF Merger
  <2>4. PICK c \in Commit : c = merger.sha
    BY <1>0, <1>5 DEF ReadsChecks, At
  <2>5. PICK n \in Nat : n = Len(checks)
    BY <1>0
  <2>6. merger'.sha = c /\ merger'.runs = n /\ Len(checks') = n
    BY <2>1, <2>3, <2>4, <2>5
  <2>7. GreenRead'
    <3>1. CASE ~green
      <4>1. ~merger'.green
        BY <2>3, <3>1
      <4> QED  BY <4>1 DEF GreenRead
    <3>2. CASE green
      <4>1. Judged(c, TRUE)
        BY <2>2, <2>4, <3>2
      <4>2. \A name \in Name : Apart(c, name, n) => LastIsGreen(c, name, n)
        BY <1>0, <2>5, <4>1, NewestIsLast
      <4>3. \A name \in Name : Apart(c, name, n)' => LastIsGreen(c, name, n)'
        BY <2>1, <4>2 DEF Apart, LastIsGreen, RunsAmong
      <4> QED  BY <2>6, <4>3 DEF GreenRead
    <3> QED  BY <3>1, <3>2
  <2>8. SomeRead'
    <3>1. Reported(c)' = Reported(c)
      BY <2>1 DEF Reported, RunsOf
    <3>2. merger'.some => Reported(c) # {}
      BY <2>3, <2>4
    <3> QED  BY <2>6, <3>1, <3>2 DEF SomeRead
  <2> QED  BY <2>3, <2>7, <2>8 DEF Judgement, Passed, Allowed
<1>6. CASE ReadsStatuses /\ merger'.pc # "idle"
  <2>1. checks' = checks /\ status' = status
    BY <1>6 DEF ReadsStatuses, Learns, forge
  <2>2. /\ merger.pc = "checks" /\ merger.green /\ StatusPasses(merger.sha)
        /\ merger' = [merger EXCEPT !.pc = "green"]
    BY <1>6, IdleFacts DEF ReadsStatuses, Learns, At
  <2>3. /\ merger'.pc = "green" /\ merger'.green = merger.green /\ merger'.sha = merger.sha
        /\ merger'.runs = merger.runs /\ merger'.some = merger.some
    BY <1>0, <2>2 DEF Merger
  <2>4. GreenRead' /\ SomeRead'
    BY <1>0, <2>1, <2>2, <2>3 DEF Judgement, GreenRead, SomeRead, Apart, LastIsGreen, RunsAmong, Reported, RunsOf
  <2>5. Passed'
    BY <1>0, <2>1, <2>2, <2>3, <2>4 DEF Passed, StatusPasses, SomeRead
  <2> QED  BY <2>3, <2>4, <2>5 DEF Judgement, Allowed
<1>7. CASE ReadsVerdict /\ merger'.pc # "idle"
  <2>1. checks' = checks /\ status' = status /\ comments' = comments
    BY <1>7 DEF ReadsVerdict, forge
  <2>2. /\ merger.pc = "green" /\ head = merger.sha /\ Approved(head)
        /\ merger' = [merger EXCEPT !.pc = "allowed", !.comments = Len(comments)]
    BY <1>7, IdleFacts DEF ReadsVerdict, At
  <2>3. /\ merger'.pc = "allowed" /\ merger'.green = merger.green /\ merger'.sha = merger.sha
        /\ merger'.runs = merger.runs /\ merger'.some = merger.some /\ merger'.comments = Len(comments)
    BY <1>0, <2>2 DEF Merger
  <2>4. GreenRead' /\ SomeRead' /\ Passed'
    BY <1>0, <2>1, <2>2, <2>3 DEF Judgement, GreenRead, SomeRead, Passed, Apart, LastIsGreen, RunsAmong, Reported, RunsOf
  <2>5. Len(comments) > 0
    BY <1>0, <2>2 DEF Approved, TypeOK, ForgeTypeOK
  <2>6. Allowed'
    BY <2>1, <2>2, <2>3, <2>5 DEF Allowed, Approved, Approves
  <2> QED  BY <2>4, <2>6 DEF Judgement
<1>8. CASE Merges
  <2>1. /\ checks' = checks /\ status' = status /\ comments' = comments
        /\ merger.pc = "allowed" /\ merger' = [merger EXCEPT !.pc = "merged"]
    BY <1>8 DEF Merges, At
  <2>2. /\ merger'.pc = "merged" /\ merger'.green = merger.green /\ merger'.sha = merger.sha
        /\ merger'.runs = merger.runs /\ merger'.some = merger.some /\ merger'.comments = merger.comments
    BY <1>0, <2>1 DEF Merger
  <2> QED  BY <1>0, <2>1, <2>2 DEF Judgement, GreenRead, SomeRead, Passed, Allowed, Apart,
              LastIsGreen, RunsAmong, Reported, RunsOf, Approves
<1> QED  BY <1>1, <1>2, <1>3, <1>4, <1>5, <1>6, <1>7, <1>8, IdleFacts
     DEF Next, MergerStep, Fails, Tock, Push, CheckBegins, CheckEnds, StatusChanges, Speaks

LEMMA NextStill == IInv /\ [Next]_vars => Still'
<1> SUFFICES ASSUME IInv, [Next]_vars PROVE Still'
  OBVIOUS
<1> USE DEF Still, At
<1>0. Still /\ merger \in Merger /\ head \in Commit
  BY DEF IInv, TypeOK, ForgeTypeOK, MergerTypeOK
<1>1. CASE \E c \in Commit : Push(c)
  BY <1>0, <1>1 DEF Push
<1>2. CASE UNCHANGED <<head, merged, merger, moved>>
  BY <1>0, <1>2
<1>3. CASE merger'.pc \in {"idle", "head", "checks", "green"}
  BY <1>3
<1>4. CASE ReadsVerdict /\ merger'.pc # "idle"
  <2>1. head = merger.sha /\ merger' = [merger EXCEPT !.pc = "allowed", !.comments = Len(comments)]
    BY <1>4, IdleFacts DEF ReadsVerdict
  <2>2. merger'.pc = "allowed" /\ merger'.sha = merger.sha /\ head' = head
    BY <1>0, <1>4, <2>1 DEF Merger, ReadsVerdict, forge
  <2> QED  BY <2>1, <2>2
<1>5. CASE Merges
  <2>1. merger'.pc = "merged" /\ merger'.sha = merger.sha
    BY <1>0, <1>5 DEF Merger, Merges
  <2>2. merged' = head /\ moved' = moved /\ merger.pc = "allowed"
    BY <1>5 DEF Merges
  <2>3. merged' # None
    BY <1>0, <2>2, MergeAssumption
  <2> QED  BY <1>0, <2>1, <2>2, <2>3
<1>6. ASSUME MergerStep PROVE Still'
  <2>1. CASE ReadsHead
    BY <1>3, <2>1 DEF ReadsHead, Learns, Idle
  <2>2. CASE ReadsChecks
    BY <1>0, <1>3, <2>2 DEF ReadsChecks, Learns, Merger
  <2>3. CASE ReadsStatuses
    BY <1>0, <1>3, <2>3, IdleFacts DEF ReadsStatuses, Learns, Merger
  <2>4. CASE Fails
    BY <1>3, <2>4, IdleFacts DEF Fails
  <2>5. CASE ReadsVerdict
    BY <1>3, <1>4, <2>5
  <2> QED  BY <1>5, <1>6, <2>1, <2>2, <2>3, <2>4, <2>5 DEF MergerStep
<1> QED  BY <1>1, <1>2, <1>6
     DEF Next, vars, forge, Tock, CheckBegins, CheckEnds, StatusChanges, Speaks

-----------------------------------------------------------------------------
LEMMA InvHolds == Spec => []IInv
<1>1. IInv /\ [Next]_vars => IInv'
  BY NextTypes, NextClock, NextJudgement, NextStill DEF IInv
<1> QED  BY InitInv, <1>1, PTL DEF Spec

\* What a merge reads and remembers is of its kind (Evaluate's locals, GitHub's answers).
THEOREM TypeCorrect == Spec => []TypeOK
<1>1. IInv => TypeOK  BY DEF IInv
<1> QED  BY <1>1, InvHolds, PTL

\* A merge whose head stays is of a commit that was green and approved, however checks,
\* reviews and pushes interleave with the questions it asks (Evaluate).
THEOREM MergesWhatWasReady == Spec => []MergedWasReady
<1>1. IInv => MergedWasReady
  <2> SUFFICES ASSUME IInv, At("merged"), ~moved
               PROVE  /\ \A name \in Name : Apart(merged, name, merger.runs) => LastIsGreen(merged, name, merger.runs)
                      /\ Reported(merged) # {} \/ status[merged] # "none"
                      /\ merger.comments > 0 /\ Approves(comments[merger.comments], merged)
    BY DEF MergedWasReady
  <2>1. merged = merger.sha
    BY DEF IInv, Still
  <2>2. merger.pc = "merged" /\ merger.green
    BY DEF IInv, Judgement, Passed, At
  <2> QED  BY <2>1, <2>2 DEF IInv, Judgement, GreenRead, Passed, Allowed
<1> QED  BY <1>1, InvHolds, PTL
===============================================================================
