---------------------------- MODULE Mirror_proofs -----------------------------
(***************************************************************************)
(* What housekeeping without a lock may and may not do, for any number of  *)
(* dispatches and any bounds: it never takes the window or the transcript  *)
(* of a turn that writes and does not quote the marker of a footer, and    *)
(* exceeds the bound on windows by no more than the dispatches beside the  *)
(* one that opens.                                                         *)
(***************************************************************************)
EXTENDS Mirror, FiniteSetTheorems, TLAPS

\* A turn that may be taken for over: its dispatcher is gone, or it runs and its
\* transcript broke, or quotes the marker, or was removed because it did.
Lost(t) == Gone(t) \/ (pc[t] = "mirrored" /\ (t \in mute \/ ~Unmarked(t)))

\* A place that is free has left nothing.
Traceless == \A t \in Turn : pc[t] = "idle" =>
  file[t] = "none" /\ t \notin win /\ t \notin mute /\ \A u \in Turn : t \notin list[u]

\* Between the creation of a transcript and its last prune it is there, unless it is lost.
Kept == \A t \in Turn :
  /\ pc[t] \in {"heading", "opening", "pruning", "removing"} => file[t] \in {"bare", "headed"}
  /\ file[t] = "footed" => Gone(t) \/ pc[t] = "mirrored"
  /\ t \in old => file[t] # "none" /\ Lost(t)

\* Only a dispatch that has opened one has a window.
Opened == \A t \in win : pc[t] \in {"pruning", "removing", "mirrored", "over", "gone"}

\* What was picked stays lost until it is taken, and is no window's, if it is a transcript.
Picked == \A t, u \in Turn : u \in list[t] =>
  /\ Lost(u)
  /\ pc[t] = "removing" /\ ~flaky => u \notin win

Inv == TypeOK /\ Traceless /\ Kept /\ Opened /\ Picked

-----------------------------------------------------------------------------
\* What ended finds over is lost, of the windows and of the transcripts there are.
LEMMA EndedIsLost ==
  ASSUME Inv, NEW S, NEW D \in EndedOf(S), NEW u \in D, u \in Turn,
         u \in win \/ file[u] # "none"
  PROVE  Lost(u)
<1>1. u \in S /\ (Told(u) \/ ProbedDead(u))
  BY DEF EndedOf
<1>2. pc[u] \in Stage
  BY DEF Inv, TypeOK
<1> QED
  BY <1>1, <1>2 DEF Inv, Told, ProbedDead, Kept, Opened, Lost, Gone, Stage, Unmarked

LEMMA InitInv == Init => Inv
  BY DEF Init, Inv, TypeOK, Stage, Traceless, Kept, Opened, Picked, Gone

LEMMA SurroundingsInv == ASSUME Inv, NEW t \in Turn, Surroundings(t) PROVE Inv'
<1> USE DEF Inv, Surroundings, Goto, Gone, Lost, Unmarked
<1>0. CASE Quotes(t)
  BY <1>0 DEF Quotes, TypeOK, Stage, Traceless, Kept, Opened, Picked
<1>1. CASE Breaks(t)
  BY <1>1 DEF Breaks, TypeOK, Stage, Traceless, Kept, Opened, Picked
<1>2. CASE Crash(t)
  BY <1>2 DEF Crash, TypeOK, Stage, Traceless, Kept, Opened, Picked
<1>3. CASE Ages(t)
  BY <1>3 DEF Ages, TypeOK, Stage, Traceless, Kept, Opened, Picked
<1>4. CASE WindowCloses(t)
  BY <1>4 DEF WindowCloses, TypeOK, Stage, Traceless, Kept, Opened, Picked
<1> QED
  BY <1>0, <1>1, <1>2, <1>3, <1>4

LEMMA StepInv == ASSUME Inv, NEW t \in Turn, DispatchStep(t) PROVE Inv'
<1> USE DEF Inv, Goto, Gone, Lost, Unmarked, TypeOK, Stage
<1>0. UNCHANGED flaky
  BY DEF DispatchStep
<1>1. CASE Begin(t)
  BY <1>0, <1>1 DEF Begin, Traceless, Kept, Opened, Picked
<1>2. CASE ReapSkips(t)
  BY <1>0, <1>2 DEF ReapSkips, Traceless, Kept, Opened, Picked
<1>3. CASE ReapPicks(t)
  <2>1. PICK D, L :
          /\ D \in EndedOf(win) /\ L \in SUBSET D
          /\ list' = [list EXCEPT ![t] = L] /\ pc[t] = "counting"
          /\ Goto(t, "refusing") \/ Goto(t, "killing")
          /\ UNCHANGED <<file, mute, old, win>>
    BY <1>3 DEF ReapPicks, EndedOf
  <2>2. D \subseteq win
    BY <2>1 DEF EndedOf
  <2>3. \A u \in L : u \in Turn /\ Lost(u) /\ pc[u] # "idle"
    BY <2>1, <2>2, EndedIsLost DEF Traceless
  <2> QED
    BY <1>0, <2>1, <2>3 DEF Traceless, Kept, Opened, Picked
<1>4. CASE ReapEnds(t)
  BY <1>0, <1>4 DEF ReapEnds, Traceless, Kept, Opened, Picked
<1>5. CASE CreateTranscript(t)
  BY <1>0, <1>5 DEF CreateTranscript, Traceless, Kept, Opened, Picked
<1>6. CASE WriteHeader(t)
  BY <1>0, <1>6 DEF WriteHeader, Traceless, Kept, Opened, Picked
<1>7. CASE OpenWindow(t)
  BY <1>0, <1>7 DEF OpenWindow, Traceless, Kept, Opened, Picked
<1>8. CASE OpenWindowFails(t)
  BY <1>0, <1>8 DEF OpenWindowFails, Traceless, Kept, Opened, Picked
<1>9. CASE PrunePicks(t)
  <2>1. PICK live, D, L :
          /\ live \in {Followed} \cup (IF flaky THEN {{}} ELSE {})
          /\ D \in EndedOf({u \in Turn : file[u] # "none"} \ live) /\ L \in SUBSET D
          /\ list' = [list EXCEPT ![t] = L] /\ pc[t] = "pruning" /\ Goto(t, "removing")
          /\ UNCHANGED <<file, mute, old, win>>
    BY <1>9 DEF PrunePicks
  <2>2. D \subseteq {u \in Turn : file[u] # "none"} \ live
    BY <2>1 DEF EndedOf
  <2>3. \A u \in L : /\ u \in Turn /\ Lost(u) /\ pc[u] # "idle"
                     /\ ~flaky => u \notin win
    BY <2>1, <2>2, EndedIsLost DEF Traceless, Followed
  <2> QED
    BY <1>0, <2>1, <2>3 DEF Traceless, Kept, Opened, Picked
<1>10. CASE OpenEnds(t)
  BY <1>0, <1>10 DEF OpenEnds, Traceless, Kept, Opened, Picked
<1>11. CASE Close(t)
  BY <1>0, <1>11 DEF Close, Traceless, Kept, Opened, Picked
<1>12. CASE Recycle(t)
  BY <1>0, <1>12 DEF Recycle, Traceless, Kept, Opened, Picked
<1>13. ASSUME NEW u \in Turn, ReapKills(t, u) PROVE Inv'
  BY <1>0, <1>13 DEF ReapKills, Traceless, Kept, Opened, Picked
<1>14. ASSUME NEW u \in Turn, PruneRemoves(t, u) PROVE Inv'
  BY <1>0, <1>14 DEF PruneRemoves, Traceless, Kept, Opened, Picked
<1> QED
  BY <1>1, <1>2, <1>3, <1>4, <1>5, <1>6, <1>7, <1>8, <1>9, <1>10, <1>11, <1>12, <1>13, <1>14
  DEF DispatchStep

LEMMA NextInv == Inv /\ [Next]_vars => Inv'
<1> SUFFICES ASSUME Inv, [Next]_vars PROVE Inv'  OBVIOUS
<1>1. CASE UNCHANGED vars
  BY <1>1 DEF vars, Inv, TypeOK, Traceless, Kept, Opened, Picked, Gone, Lost, Unmarked
<1> QED
  BY <1>1, StepInv, SurroundingsInv DEF Next

LEMMA InvHolds == Spec => []Inv
  BY InitInv, NextInv, PTL DEF Spec

-----------------------------------------------------------------------------
(* The bound on windows.                                                     *)

Running == {t \in Turn : ~Gone(t)}

\* They have counted the windows, and open one when what they picked is gone.
Counted == {t \in Turn : pc[t] \in {"killing", "creating", "heading", "opening"}}

Limit == Max + InFlight - 1

\* Of any dispatches that have counted, one -- the last of them that did -- leaves room
\* for all of them.
Room ==
  /\ IsFiniteSet(win)
  /\ IsFiniteSet(Running) /\ Cardinality(Running) <= InFlight
  /\ ~flaky => /\ Cardinality(win) <= Limit
               /\ \A S \in SUBSET Counted : S # {} =>
                    \E t \in S : Cardinality(win \ list[t]) + Cardinality(S) <= Limit

LEMMA Bounds == Max \in Nat /\ InFlight \in Nat /\ Max >= 1 /\ InFlight >= 1 /\ Limit \in Nat /\ Limit = Max + InFlight - 1
  BY BoundsAssumption, SMT DEF Limit

LEMMA LessRoom ==
  ASSUME NEW a \in Nat, NEW b \in Nat, NEW c \in Nat, NEW d \in Nat, a <= b, b + c <= d
  PROVE  a + c <= d
  BY SMT

\* Any dispatches that have counted run.
LEMMA FewCounted ==
  ASSUME Room, NEW S \in SUBSET Counted
  PROVE  IsFiniteSet(S) /\ Cardinality(S) \in Nat /\ Cardinality(S) <= InFlight
<1>1. S \subseteq Running
  BY DEF Counted, Running, Gone
<1>2. IsFiniteSet(S) /\ Cardinality(S) <= Cardinality(Running)
  BY <1>1, FS_Subset DEF Room
<1>3. Cardinality(S) \in Nat /\ Cardinality(Running) \in Nat
  BY <1>2, FS_CardinalityType DEF Room
<1> QED
  BY <1>2, <1>3, Bounds, SMT DEF Room

\* Fewer windows, longer lists, fewer dispatches: there is no less room.
LEMMA RoomStays ==
  ASSUME Room, UNCHANGED flaky, win' \subseteq win, Running' \subseteq Running, Counted' \subseteq Counted,
         ~flaky => \A t \in Counted' : win' \ list'[t] \subseteq win \ list[t]
  PROVE  Room'
<1>1. /\ IsFiniteSet(win') /\ Cardinality(win') <= Cardinality(win)
      /\ IsFiniteSet(Running') /\ Cardinality(Running') <= Cardinality(Running)
  BY FS_Subset DEF Room
<1>2. /\ Cardinality(win') \in Nat /\ Cardinality(win) \in Nat
      /\ Cardinality(Running') \in Nat /\ Cardinality(Running) \in Nat
  BY <1>1, FS_CardinalityType DEF Room
<1>3. Cardinality(Running') <= InFlight /\ (~flaky => Cardinality(win') <= Limit)
  BY <1>1, <1>2, Bounds, SMT DEF Room
<1>4. ASSUME ~flaky, NEW S \in SUBSET Counted', S # {}
      PROVE  \E t \in S : Cardinality(win' \ list'[t]) + Cardinality(S) <= Limit
  <2>1. PICK t \in S : Cardinality(win \ list[t]) + Cardinality(S) <= Limit
    BY <1>4 DEF Room
  <2>2. IsFiniteSet(win \ list[t]) /\ IsFiniteSet(win' \ list'[t])
    BY <1>1, FS_Subset DEF Room
  <2>3. Cardinality(win' \ list'[t]) <= Cardinality(win \ list[t])
    BY <1>4, <2>2, FS_Subset
  <2>4. Cardinality(win' \ list'[t]) \in Nat /\ Cardinality(win \ list[t]) \in Nat /\ Cardinality(S) \in Nat
    BY <2>2, FewCounted, FS_CardinalityType
  <2>5. Cardinality(win' \ list'[t]) + Cardinality(S) <= Limit
    BY <2>1, <2>3, <2>4, Bounds, LessRoom
  <2> QED  BY <2>5
<1> QED
  BY <1>1, <1>3, <1>4 DEF Room, Limit

\* A dispatch counts: it is the last of any that it is among.
LEMMA CountsRoom ==
  ASSUME Room, UNCHANGED <<flaky, win>>, NEW t \in Turn, Running' = Running,
         Counted' \subseteq Counted \cup {t}, t \in Running,
         \A u \in Counted' : u # t => list'[u] = list[u],
         ~flaky => Cardinality(win \ list'[t]) \in Nat /\ Cardinality(win \ list'[t]) <= Max - 1
  PROVE  Room'
<1>1. ASSUME ~flaky, NEW S \in SUBSET Counted', S # {}
      PROVE  \E u \in S : Cardinality(win \ list'[u]) + Cardinality(S) <= Limit
  <2>1. CASE t \in S
    <3>1. S \subseteq Running
      BY DEF Counted, Running, Gone
    <3>2. IsFiniteSet(S) /\ Cardinality(S) <= Cardinality(Running)
      BY <3>1, FS_Subset DEF Room
    <3>3. Cardinality(S) \in Nat /\ Cardinality(Running) \in Nat /\ Cardinality(Running) <= InFlight
      BY <3>2, FS_CardinalityType DEF Room
    <3>4. Cardinality(win \ list'[t]) + Cardinality(S) <= Limit
      BY <1>1, <3>2, <3>3, Bounds, SMT
    <3> QED  BY <2>1, <3>4
  <2>2. CASE t \notin S
    <3>1. PICK u \in S : Cardinality(win \ list[u]) + Cardinality(S) <= Limit
      BY <1>1, <2>2 DEF Room
    <3> QED  BY <2>2, <3>1
  <2> QED  BY <2>1, <2>2
<1> QED
  BY <1>1 DEF Room, Limit

\* A dispatch opens its window, and takes a place that was left for it.
LEMMA OpensRoom ==
  ASSUME Room, UNCHANGED <<flaky, list>>, NEW t \in Counted, list[t] = {}, win' = win \cup {t},
         Running' = Running, Counted' = Counted \ {t}
  PROVE  Room'
<1>1. /\ IsFiniteSet(win') /\ Cardinality(win) \in Nat /\ Cardinality(win') \in Nat
      /\ Cardinality(win') <= Cardinality(win) + 1
  <2>1. IsFiniteSet(win') /\ Cardinality(win') \in {Cardinality(win), Cardinality(win) + 1}
    BY FS_AddElement DEF Room
  <2> QED  BY <2>1, FS_CardinalityType, SMT DEF Room
<1>2. ASSUME ~flaky, NEW S \in SUBSET (Counted \ {t})
      PROVE  \/ Cardinality(win') + Cardinality(S) <= Limit
             \/ \E u \in S : Cardinality(win' \ list[u]) + Cardinality(S) <= Limit
  <2>1. /\ IsFiniteSet(S) /\ Cardinality(S) \in Nat /\ Cardinality(S \cup {t}) = Cardinality(S) + 1
        /\ S \cup {t} \in SUBSET Counted /\ S \cup {t} # {}
    BY FewCounted, FS_AddElement
  <2>2. PICK u \in S \cup {t} : Cardinality(win \ list[u]) + Cardinality(S \cup {t}) <= Limit
    BY <1>2, <2>1 DEF Room
  <2>3. CASE u = t
    <3>1. win \ list[u] = win
      BY <2>3
    <3>2. Cardinality(win) + (Cardinality(S) + 1) <= Limit
      BY <2>1, <2>2, <3>1
    <3>3. Cardinality(win') + Cardinality(S) <= Limit
      <4> HIDE DEF Limit
      <4> QED  BY <1>1, <2>1, <3>2, Bounds, SMT
    <3> QED  BY <3>3
  <2>4. CASE u # t
    <3>1. win' \ list[u] \subseteq (win \ list[u]) \cup {t} /\ IsFiniteSet(win \ list[u])
      BY FS_Subset DEF Room
    <3>2. /\ IsFiniteSet((win \ list[u]) \cup {t})
          /\ Cardinality((win \ list[u]) \cup {t}) \in {Cardinality(win \ list[u]), Cardinality(win \ list[u]) + 1}
      BY <3>1, FS_AddElement
    <3>3. Cardinality(win' \ list[u]) <= Cardinality((win \ list[u]) \cup {t})
      BY <3>1, <3>2, FS_Subset
    <3>4. Cardinality(win' \ list[u]) \in Nat /\ Cardinality(win \ list[u]) \in Nat
      BY <1>1, <3>1, FS_Subset, FS_CardinalityType
    <3>5. Cardinality(win' \ list[u]) + Cardinality(S) <= Limit
      BY <2>1, <2>2, <3>2, <3>3, <3>4, Bounds, SMT
    <3> QED  BY <2>4, <3>5
  <2> QED  BY <2>3, <2>4
<1>3. ASSUME ~flaky, NEW S \in SUBSET (Counted \ {t}), S # {}
      PROVE  \E u \in S : Cardinality(win' \ list[u]) + Cardinality(S) <= Limit
  <2>1. CASE Cardinality(win') + Cardinality(S) <= Limit
    <3>1. PICK u \in S : TRUE
      BY <1>3
    <3>2. IsFiniteSet(win' \ list[u]) /\ Cardinality(win' \ list[u]) <= Cardinality(win')
      BY <1>1, FS_Subset
    <3>3. Cardinality(win' \ list[u]) \in Nat /\ Cardinality(S) \in Nat
      BY <3>2, FewCounted, FS_CardinalityType
    <3>4. Cardinality(win' \ list[u]) + Cardinality(S) <= Limit
      BY <1>1, <2>1, <3>2, <3>3, Bounds, LessRoom
    <3> QED  BY <3>4
  <2> QED  BY <1>2, <1>3, <2>1
<1>4. ~flaky => Cardinality(win') <= Limit
  <2> SUFFICES ASSUME ~flaky PROVE Cardinality(win') <= Limit  OBVIOUS
  <2>1. PICK u \in {t} : Cardinality(win \ list[u]) + Cardinality({t}) <= Limit
    BY DEF Room
  <2>2. win \ list[u] = win /\ Cardinality({t}) = 1
    BY FS_Singleton
  <2>3. Cardinality(win) + 1 <= Limit
    BY <2>1, <2>2
  <2> QED  BY <1>1, <2>3, Bounds, SMT
<1> QED
  BY <1>1, <1>3, <1>4 DEF Room, Limit

LEMMA InitRoom == Init => Room
<1> SUFFICES ASSUME Init PROVE Room  OBVIOUS
<1>1. win = {} /\ Running = {} /\ Counted = {}
  BY DEF Init, Running, Counted, Gone
<1>2. IsFiniteSet({}) /\ Cardinality({}) = 0
  BY FS_EmptySet
<1>3. 0 <= InFlight /\ 0 <= Limit
  BY Bounds, SMT
<1> QED
  BY <1>1, <1>2, <1>3 DEF Room

LEMMA StepRoom == ASSUME Inv, Room, NEW t \in Turn, DispatchStep(t) PROVE Room'
<1> USE DEF Goto
<1>0. /\ UNCHANGED flaky
      /\ DOMAIN pc = Turn /\ DOMAIN list = Turn
      /\ pc[t] \notin {"killing", "refusing", "removing"} => list[t] = {}
  BY DEF DispatchStep, Inv, TypeOK
<1>1. CASE Begin(t)
  <2>1. Running' = Running \cup {t} /\ Counted' = Counted /\ UNCHANGED <<win, list>>
    BY <1>0, <1>1 DEF Begin, Running, Counted, Gone
  <2>2. Cardinality(Running) < InFlight
    BY <1>1 DEF Begin, Running
  <2>3. IsFiniteSet(Running') /\ Cardinality(Running') \in {Cardinality(Running), Cardinality(Running) + 1}
    BY <2>1, FS_AddElement DEF Room
  <2>4. Cardinality(Running') <= InFlight
    BY <2>2, <2>3, Bounds, FS_CardinalityType, SMT DEF Room
  <2> QED  BY <1>0, <2>1, <2>3, <2>4 DEF Room, Limit
<1>2. CASE ReapSkips(t)
  <2>1. /\ Running' = Running /\ t \in Running /\ Counted' = Counted \cup {t}
        /\ UNCHANGED <<win, list>> /\ win \ list'[t] = win
    BY <1>0, <1>2 DEF ReapSkips, Running, Counted, Gone
  <2>2. ~flaky => Cardinality(win) \in Nat /\ Cardinality(win) <= Max - 1
    BY <1>2, Bounds, FS_CardinalityType, SMT DEF ReapSkips, Room
  <2> QED  BY <1>0, <2>1, <2>2, CountsRoom
<1>3. CASE ReapPicks(t)
  <2>1. /\ Running' = Running /\ t \in Running /\ Counted' \subseteq Counted \cup {t}
        /\ UNCHANGED win /\ t \notin Counted /\ \A u \in Turn : u # t => list'[u] = list[u]
    BY <1>0, <1>3 DEF ReapPicks, Running, Counted, Gone
  <2>2. CASE pc'[t] = "refusing"
    <3>1. Counted' = Counted
      BY <1>0, <1>3, <2>2 DEF ReapPicks, Counted
    <3>2. \A u \in Counted' : win' \ list'[u] \subseteq win \ list[u]
      BY <2>1, <3>1 DEF Counted
    <3> QED  BY <1>0, <2>1, <3>1, <3>2, RoomStays
  <2>3. CASE pc'[t] # "refusing"
    <3>1. list'[t] \subseteq win /\ Cardinality(list'[t]) = Cardinality(win) - Max + 1
      BY <1>0, <1>3, <2>3 DEF ReapPicks, EndedOf, Excess
    <3>2. /\ IsFiniteSet(win \ list'[t])
          /\ Cardinality(win \ list'[t]) = Cardinality(win) - Cardinality(win \cap list'[t])
      BY FS_Difference DEF Room
    <3>3. win \cap list'[t] = list'[t]
      BY <3>1
    <3>4. Cardinality(win) \in Nat /\ Cardinality(win \ list'[t]) \in Nat
      BY <3>2, FS_CardinalityType DEF Room
    <3>5. Cardinality(win \ list'[t]) = Cardinality(win) - (Cardinality(win) - Max + 1)
      BY <3>1, <3>2, <3>3, Zenon
    <3>6. \A n \in Nat : n - (n - Max + 1) <= Max - 1
      BY Bounds, SMT
    <3>7. Cardinality(win \ list'[t]) <= Max - 1
      BY <3>4, <3>5, <3>6
    <3> QED  BY <1>0, <2>1, <3>4, <3>7, CountsRoom DEF Counted
  <2> QED  BY <2>2, <2>3
<1>4. ASSUME NEW u \in Turn, ReapKills(t, u) PROVE Room'
  <2>1. Running' = Running /\ Counted' = Counted /\ win' \subseteq win
    BY <1>4 DEF ReapKills, Running, Counted, Gone
  <2>2. ~flaky => \A v \in Counted' : win' \ list'[v] \subseteq win \ list[v]
    BY <1>0, <1>4 DEF ReapKills, Counted
  <2> QED  BY <1>0, <2>1, <2>2, RoomStays
<1>5. CASE OpenWindow(t)
  <2>1. /\ Running' = Running /\ Counted' = Counted \ {t} /\ t \in Counted
        /\ UNCHANGED list /\ list[t] = {} /\ win' = win \cup {t}
    BY <1>0, <1>5 DEF OpenWindow, Running, Counted, Gone
  <2> QED  BY <1>0, <2>1, OpensRoom
<1>6. CASE \/ ReapEnds(t) \/ CreateTranscript(t) \/ WriteHeader(t) \/ OpenWindowFails(t)
           \/ OpenEnds(t) \/ Close(t) \/ Recycle(t)
  <2>1. /\ Running' \subseteq Running /\ Counted' \subseteq Counted /\ UNCHANGED <<win, list>>
    BY <1>0, <1>6 DEF ReapEnds, CreateTranscript, WriteHeader, OpenWindowFails, OpenEnds, Close, Recycle,
       Running, Counted, Gone
  <2> QED  BY <1>0, <2>1, RoomStays
<1>7. CASE PrunePicks(t) \/ \E u \in Turn : PruneRemoves(t, u)
  <2>1. /\ Running' = Running /\ Counted' = Counted /\ UNCHANGED win
        /\ t \notin Counted /\ \A v \in Turn : v # t => list'[v] = list[v]
    BY <1>0, <1>7 DEF PrunePicks, PruneRemoves, Running, Counted, Gone
  <2>2. \A v \in Counted' : win' \ list'[v] \subseteq win \ list[v]
    BY <2>1 DEF Counted
  <2> QED  BY <1>0, <2>1, <2>2, RoomStays
<1> QED
  BY <1>1, <1>2, <1>3, <1>4, <1>5, <1>6, <1>7 DEF DispatchStep

LEMMA NextRoom == Inv /\ Room /\ [Next]_vars => Room'
<1> SUFFICES ASSUME Inv, Room, [Next]_vars PROVE Room'  OBVIOUS
<1>1. ASSUME NEW t \in Turn, Surroundings(t) PROVE Room'
  <2>1. UNCHANGED flaky /\ Running' \subseteq Running /\ Counted' \subseteq Counted /\ win' \subseteq win
    BY <1>1 DEF Surroundings, Quotes, Breaks, Crash, Ages, WindowCloses, Goto, Running, Counted, Gone, Inv, TypeOK
  <2>2. \A u \in Counted' : win' \ list'[u] \subseteq win \ list[u]
    BY <1>1 DEF Surroundings, Quotes, Breaks, Crash, Ages, WindowCloses, Goto, Counted, Gone, Inv, TypeOK
  <2> QED  BY <2>1, <2>2, RoomStays
<1>2. CASE UNCHANGED vars
  <2>1. UNCHANGED <<flaky, win, list>> /\ Running' = Running /\ Counted' = Counted
    BY <1>2 DEF vars, Running, Counted, Gone
  <2> QED  BY <2>1, RoomStays
<1> QED
  BY <1>1, <1>2, StepRoom DEF Next

-----------------------------------------------------------------------------
\* The mirrors' state stays well formed, and a dispatch has windows or transcripts
\* picked out only while it takes them away (mirror.go).
THEOREM TypeCorrect == Spec => []TypeOK
  BY InvHolds, PTL DEF Inv

\* While tmux answers, no more than Max windows and one for each dispatch beside the
\* one that opens are ever open, for any bounds and any number of dispatches, though
\* none takes a lock (reap, openWindow).
THEOREM BoundKept == Spec => []OvershootBounded
<1>1. Room => OvershootBounded
  BY DEF Room, OvershootBounded, Limit
<1>2. Spec => []Room
  BY InvHolds, InitRoom, NextRoom, PTL DEF Spec
<1> QED  BY <1>1, <1>2, PTL

\* However long after the judgement the window is closed, its turn does not write, or
\* has quoted the marker (reap).
THEOREM WindowsKept == Spec => RunningWindowKept
<1>1. ASSUME Inv, [Next]_vars, NEW t \in Turn, t \in win \ win', Writing(t), Unmarked(t)
      PROVE  WindowCloses(t)
  <2>1. \A u \in Turn : t \notin list[u]
    BY <1>1 DEF Inv, Picked, Writing, Lost, Gone, Unmarked
  <2>2. PICK u \in Turn : DispatchStep(u) \/ Surroundings(u)
    BY <1>1 DEF Next, vars
  <2>3. CASE DispatchStep(u)
    BY <1>1, <2>1, <2>3 DEF DispatchStep, Begin, ReapSkips, ReapPicks, ReapKills, ReapEnds, CreateTranscript,
       WriteHeader, OpenWindow, OpenWindowFails, PrunePicks, PruneRemoves, OpenEnds, Close, Recycle
  <2>4. CASE Surroundings(u)
    BY <1>1, <2>4 DEF Surroundings, Quotes, Breaks, Crash, Ages, WindowCloses
  <2> QED  BY <2>2, <2>3, <2>4
<1>2. Inv /\ [Next]_vars => [\A t \in Turn : t \in win \ win' /\ Writing(t) /\ Unmarked(t) => WindowCloses(t)]_vars
  BY <1>1
<1> QED
  BY <1>2, InvHolds, PTL DEF Spec, RunningWindowKept

\* The transcript of a turn that writes, and has not quoted the marker, stays, and,
\* while tmux answers, that of any whose window is open (prune).
THEOREM TranscriptsKept == Spec => TranscriptKept
<1>1. ASSUME Inv, [Next]_vars, NEW t \in Turn, file[t] # "none", file'[t] = "none"
      PROVE  ~(Writing(t) /\ Unmarked(t)) /\ (t \in win => flaky)
  <2>1. PICK u \in Turn : DispatchStep(u) \/ Surroundings(u)
    BY <1>1 DEF Next, vars
  <2>2. \E v \in Turn : PruneRemoves(u, v)
    BY <1>1, <2>1 DEF Inv, TypeOK, DispatchStep, Begin, ReapSkips, ReapPicks, ReapKills, ReapEnds, CreateTranscript,
       WriteHeader, OpenWindow, OpenWindowFails, PrunePicks, OpenEnds, Close, Recycle,
       Surroundings, Quotes, Breaks, Crash, Ages, WindowCloses
  <2>3. t \in list[u] /\ pc[u] = "removing"
    BY <1>1, <2>2 DEF PruneRemoves, Inv, TypeOK
  <2> QED  BY <1>1, <2>3 DEF Inv, Picked, Lost, Writing, Gone, Unmarked
<1>2. Inv /\ [Next]_vars =>
        [\A t \in Turn :
           file[t] # "none" /\ file'[t] = "none" =>
             ~(Writing(t) /\ Unmarked(t)) /\ (t \in win => flaky)]_vars
  BY <1>1
<1> QED
  BY <1>2, InvHolds, PTL DEF Spec, TranscriptKept
===============================================================================
