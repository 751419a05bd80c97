---------------------------- MODULE Cockpit_proofs ----------------------------
(***************************************************************************)
(* First the client alone: what it promises to any number of callers,      *)
(* whatever the server does.  The inductive invariant ties the slot, the   *)
(* table, the channels and the reply the reader holds to the one call that *)
(* is under way.  Then the terminal: it implements the client's            *)
(* specification, so what the client promises holds of it; and what its    *)
(* panes believe to be under way is under way, for any number of           *)
(* goroutines and of sessions.  Last, what passes through the pipes: the   *)
(* requests are answered in the order they were asked, so no answer is     *)
(* behind one that was asked for later; that makes a failed send one that  *)
(* was not delivered, and a removal one that was confirmed.                *)
(***************************************************************************)
EXTENDS Cockpit, FiniteSetTheorems, TLAPS

Active(c) == pc[c] \in {"registered", "writing", "waiting"}

\* The slot and the write are the call's that is at that stage.
SlotHeld == \A c \in Call : /\ Active(c) <=> sem = c
                            /\ pc[c] = "writing" <=> writer = c

\* Ids are handed out once.
IdsFresh == /\ \A c \in Call : /\ id[c] <= nextID
                               /\ pc[c] \in {"idle", "queued"} => id[c] = 0
                               /\ Active(c) => id[c] # 0
            /\ \A c, d \in Call : id[c] = id[d] /\ id[c] # 0 => c = d
            /\ delivering.id <= nextID

\* Who is registered is under way and waits on an open channel.
RegisteredWaits == \A i \in pend : \E c \in Call : Active(c) /\ id[c] = i /\ chan[c].state = "open"

\* The reader has taken the call it delivers to off the table, and sent it nothing yet.
DeliveredOnce == delivering # NoMessage =>
  /\ delivering.id \notin pend
  /\ \A c \in Call : Active(c) /\ id[c] = delivering.id => chan[c].state = "open"

\* What is in a call's channel, or was taken out of it, answers its own request.
ChannelsOwn == \A c \in Call :
  /\ ~Active(c) => chan[c] = NoChan
  /\ chan[c].state = "replied" => chan[c].reply.id = id[c]
  /\ outcome[c] = "replied" => pc[c] = "returned" /\ got[c].id = id[c]

IInv == ClientTypeOK /\ SlotHeld /\ IdsFresh /\ RegisteredWaits /\ DeliveredOnce /\ ChannelsOwn

-----------------------------------------------------------------------------
\* The client's state is well formed: every channel, pipe and table entry holds what
\* the code can put there (Client's fields).
LEMMA InitInv == ClientInit => IInv
  BY ClientAssumption, SMT DEF ClientInit, IInv, ClientTypeOK, SlotHeld, IdsFresh, RegisteredWaits,
     DeliveredOnce, ChannelsOwn, Active, NoChan, NoMessage, Id

\* A turn of the callers touches nobody who is under way.
LEMMA CallersInv ==
  ASSUME NEW done \in SUBSET Call, NEW new \in SUBSET Call, IInv, Callers(done, new)
  PROVE  IInv'
<1> USE DEF At, Active
<1>1. ClientTypeOK'
  BY SMT DEF IInv, ClientTypeOK, Callers, readerVars, serverVars
<1>2. \A c \in Call : /\ Active(c)' <=> Active(c)
                      /\ Active(c) => id'[c] = id[c] /\ outcome'[c] = outcome[c] /\ got'[c] = got[c]
                      /\ pc'[c] = "writing" <=> pc[c] = "writing"
                      /\ id'[c] = id[c] \/ id'[c] = 0
  BY SMT DEF IInv, ClientTypeOK, Callers
<1>3. UNCHANGED <<nextID, sem, writer, chan, pend, delivering>>
  BY DEF Callers, readerVars
<1>4. SlotHeld'
  BY <1>2, <1>3 DEF IInv, SlotHeld
<1>5. IdsFresh'
  <2>1. \A c \in Call : pc'[c] \in {"idle", "queued"} => id'[c] = 0
    BY SMT DEF IInv, IdsFresh, ClientTypeOK, Callers
  <2>2. nextID \in Nat /\ \A c \in Call : id[c] <= nextID /\ id'[c] <= nextID
    BY <1>2, ClientAssumption, SMT DEF IInv, IdsFresh, ClientTypeOK, Id
  <2> QED
    BY <1>2, <1>3, <2>1, <2>2, SMT DEF IInv, IdsFresh
<1>6. RegisteredWaits'
  BY <1>2, <1>3 DEF IInv, RegisteredWaits
<1>7. DeliveredOnce'
  BY <1>2, <1>3 DEF IInv, DeliveredOnce
<1>8. ChannelsOwn'
  BY <1>2, <1>3, SMT DEF IInv, ClientTypeOK, ChannelsOwn, Callers, NoChan
<1> QED
  BY <1>1, <1>4, <1>5, <1>6, <1>7, <1>8 DEF IInv

\* A call that returns leaves the slot, the table and its channel.
LEMMA ReturnInv ==
  ASSUME IInv, NEW c \in Call, NEW how \in {"replied", "failed", "timeout"},
         NEW reply \in Message \cup {NoMessage}, NEW registered \in SUBSET Id,
         pc[c] \notin {"idle", "returned"}, Return(c, how, reply, registered),
         writer' = IF writer = c THEN NoCall ELSE writer,
         id[c] \notin pend \ registered,
         how = "replied" => reply.id = id[c]
  PROVE  IInv'
<1> USE DEF Goto, Active
<1>1. ClientTypeOK'
  BY SMT DEF IInv, ClientTypeOK, Return, readerVars, serverVars, NoChan
<1>2. /\ pc' = [pc EXCEPT ![c] = "returned"] /\ outcome' = [outcome EXCEPT ![c] = how]
      /\ got' = [got EXCEPT ![c] = reply] /\ chan' = [chan EXCEPT ![c] = NoChan]
      /\ sem' = IF sem = c THEN NoCall ELSE sem
      /\ pend' = pend \ registered
      /\ UNCHANGED <<id, nextID, delivering>>
  BY DEF Return, readerVars
<1>3. /\ DOMAIN pc = Call /\ DOMAIN outcome = Call /\ DOMAIN got = Call /\ DOMAIN chan = Call
  BY SMT DEF IInv, ClientTypeOK
<1>4. \A d \in Call : d # c => pc'[d] = pc[d] /\ chan'[d] = chan[d]
                              /\ outcome'[d] = outcome[d] /\ got'[d] = got[d]
  BY <1>2, <1>3
<1>5. pc'[c] = "returned" /\ chan'[c] = NoChan /\ outcome'[c] = how /\ got'[c] = reply
  BY <1>2, <1>3
<1>6. SlotHeld'
  BY <1>2, <1>4, <1>5, ClientAssumption, SMT DEF IInv, SlotHeld
<1>7. IdsFresh'
  BY <1>2, <1>4, <1>5 DEF IInv, IdsFresh
<1>8. RegisteredWaits'
  BY <1>2, <1>4 DEF IInv, RegisteredWaits
<1>9. DeliveredOnce'
  BY <1>2, <1>4, <1>5 DEF IInv, DeliveredOnce
<1>10. ChannelsOwn'
  BY <1>2, <1>4, <1>5 DEF IInv, ChannelsOwn, NoChan
<1> QED
  BY <1>1, <1>6, <1>7, <1>8, <1>9, <1>10 DEF IInv

\* A fresh id is nobody's.
LEMMA RegisterInv == ASSUME IInv, NEW c \in Call, Register(c) PROVE IInv'
<1> USE DEF Goto, Active, At
<1>1. nextID \in Nat /\ nextID' = nextID + 1 /\ nextID' \in Id
      /\ \A d \in Call : id[d] \in Nat /\ id[d] <= nextID
      /\ delivering.id \in Nat /\ delivering.id <= nextID
  BY ClientAssumption, SMT DEF IInv, ClientTypeOK, IdsFresh, Register, Id, Message, NoMessage
<1>2. ClientTypeOK'
  BY <1>1, SMT DEF IInv, ClientTypeOK, Register, Open, readerVars, serverVars
<1>3. /\ pc' = [pc EXCEPT ![c] = "registered"] /\ id' = [id EXCEPT ![c] = nextID']
      /\ chan' = [chan EXCEPT ![c] = Open]
      /\ sem = NoCall /\ sem' = c
      /\ pend' = pend \cup {nextID'} /\ pc[c] = "queued"
      /\ UNCHANGED <<outcome, got, writer, delivering>>
  BY DEF Register, readerVars
<1>4. DOMAIN pc = Call /\ DOMAIN id = Call /\ DOMAIN chan = Call
  BY SMT DEF IInv, ClientTypeOK
<1>5. /\ \A d \in Call : d # c => pc'[d] = pc[d] /\ id'[d] = id[d] /\ chan'[d] = chan[d]
      /\ pc'[c] = "registered" /\ id'[c] = nextID' /\ chan'[c] = Open
  BY <1>3, <1>4
<1>6. SlotHeld'
  BY <1>3, <1>5, ClientAssumption, SMT DEF IInv, SlotHeld
<1>7. IdsFresh'
  BY <1>1, <1>3, <1>5, SMT DEF IInv, IdsFresh
<1>8. RegisteredWaits'
  BY <1>3, <1>5 DEF IInv, RegisteredWaits, Open
<1>9. DeliveredOnce'
  BY <1>1, <1>3, <1>5, SMT DEF IInv, DeliveredOnce
<1>10. ChannelsOwn'
  BY <1>3, <1>5, SMT DEF IInv, ChannelsOwn, Open
<1> QED
  BY <1>2, <1>6, <1>7, <1>8, <1>9, <1>10 DEF IInv

\* The write, as it goes well.
LEMMA WriteInv ==
  ASSUME IInv, NEW c \in Call, NEW request \in Payload,
         WriteBegins(c) \/ WriteEnds(c, request)
  PROVE  IInv'
<1> USE DEF Goto, Active, At
<1>1. ClientTypeOK'
  <2>1. CASE WriteBegins(c)
    BY <2>1, SMT DEF IInv, ClientTypeOK, WriteBegins, readerVars, serverVars
  <2>2. CASE WriteEnds(c, request)
    <3>1. id[c] \in Id
      BY <2>2, SMT DEF IInv, ClientTypeOK, IdsFresh, WriteEnds
    <3>2. inbox' \in Seq(Message)
      BY <2>2, <3>1, SMT DEF IInv, ClientTypeOK, WriteEnds, Message
    <3> QED
      BY <2>2, <3>2, SMT DEF IInv, ClientTypeOK, WriteEnds, readerVars
  <2> QED  BY <2>1, <2>2
<1>2. /\ \A d \in Call : Active(d)' <=> Active(d)
      /\ \A d \in Call : d # c => pc'[d] = pc[d]
      /\ \/ pc[c] = "registered" /\ pc'[c] = "writing" /\ writer = NoCall /\ writer' = c
         \/ pc[c] = "writing" /\ pc'[c] = "waiting" /\ writer' = NoCall
      /\ UNCHANGED <<outcome, got, id, nextID, sem, chan, pend, delivering>>
  <2>1. DOMAIN pc = Call
    BY DEF IInv, ClientTypeOK
  <2> QED
    BY <2>1 DEF WriteBegins, WriteEnds, readerVars
<1>3. SlotHeld'
  BY <1>2, ClientAssumption, SMT DEF IInv, SlotHeld
<1>4. IdsFresh' /\ RegisteredWaits' /\ DeliveredOnce' /\ ChannelsOwn'
  BY <1>2 DEF IInv, IdsFresh, RegisteredWaits, DeliveredOnce, ChannelsOwn
<1> QED
  BY <1>1, <1>3, <1>4 DEF IInv

LEMMA CallStepInv ==
  ASSUME IInv, NEW c \in Call, NEW request \in Payload, CallStep(c, request)
  PROVE  IInv'
<1> USE DEF At
<1>1. id[c] \in Id \cup {0} /\ 0 \notin pend /\ pend \in SUBSET Id
  BY SMT DEF IInv, ClientTypeOK, Id
<1>2. pc[c] # "writing" => writer # c
  BY DEF IInv, SlotHeld
<1>3. Active(c) => id[c] \in Id
  BY <1>1 DEF IInv, IdsFresh
<1>4. Active(c) /\ chan[c].state # "open" => id[c] \notin pend
  BY <1>3, <1>1 DEF IInv, RegisteredWaits, IdsFresh, Id
<1>5. CASE QueueTimesOut(c)
  <2>1. id[c] = 0
    BY <1>5 DEF QueueTimesOut, IInv, IdsFresh
  <2> QED
    BY <1>5, <1>1, <1>2, <2>1, ReturnInv DEF QueueTimesOut
<1>6. CASE WriteTimesOut(c)
  BY <1>6, <1>2, <1>3, ReturnInv DEF WriteTimesOut, Active
<1>7. CASE WriteFails(c)
  <2>1. writer = c
    BY <1>7 DEF WriteFails, IInv, SlotHeld
  <2> QED
    BY <1>7, <1>3, <2>1, ReturnInv DEF WriteFails, Active
<1>8. CASE TakeReply(c)
  <2>1. chan[c].reply.id = id[c] /\ chan[c].reply \in Message \cup {NoMessage}
    BY <1>8 DEF TakeReply, IInv, ChannelsOwn, ClientTypeOK
  <2> QED
    BY <1>8, <1>2, <1>4, <2>1, ReturnInv DEF TakeReply, Active
<1>9. CASE FindClosed(c)
  BY <1>9, <1>2, <1>4, ReturnInv DEF FindClosed, Active
<1>10. CASE ReplyTimesOut(c)
  BY <1>10, <1>2, <1>3, ReturnInv DEF ReplyTimesOut, Active
<1> QED
  BY <1>5, <1>6, <1>7, <1>8, <1>9, <1>10, RegisterInv, WriteInv DEF CallStep

\* The reader takes a reply off the wire and sends it where it belongs, once.
LEMMA ReaderInv == ASSUME IInv, ReaderStep PROVE IInv'
<1> USE DEF Active
<1>1. CASE ReadReply
  <2>1. Head(wire) \in Message /\ wire' \in Seq(Message) /\ delivering' \in Message \cup {NoMessage}
    BY <1>1, SMT DEF ReadReply, IInv, ClientTypeOK
  <2>2. ClientTypeOK'
    BY <1>1, <2>1, SMT DEF ReadReply, IInv, ClientTypeOK, callVars
  <2>3. /\ pend' = pend \ {Head(wire).id}
        /\ delivering' = IF Head(wire).id \in pend THEN Head(wire) ELSE NoMessage
        /\ UNCHANGED <<callVars, chan>>
    BY <1>1 DEF ReadReply
  <2>4. DeliveredOnce'
    <3>1. ASSUME NEW d \in Call, Active(d), Head(wire).id \in pend, id[d] = Head(wire).id
          PROVE  chan[d].state = "open"
      <4>1. PICK e \in Call : Active(e) /\ id[e] = Head(wire).id /\ chan[e].state = "open"
        BY <3>1 DEF IInv, RegisteredWaits
      <4>2. id[d] # 0 /\ d = e
        BY <3>1, <4>1 DEF IInv, IdsFresh
      <4> QED  BY <4>1, <4>2
    <3> QED
      BY <2>3, <3>1 DEF DeliveredOnce, callVars
  <2>5. IdsFresh'
    <3>1. \A i \in pend : i <= nextID
      BY DEF IInv, IdsFresh, RegisteredWaits
    <3>2. 0 <= nextID
      BY ClientAssumption, SMT DEF IInv, ClientTypeOK, Id
    <3> QED
      BY <2>3, <3>1, <3>2 DEF IInv, IdsFresh, callVars, NoMessage
  <2>6. SlotHeld' /\ RegisteredWaits' /\ ChannelsOwn'
    BY <2>3 DEF IInv, SlotHeld, RegisteredWaits, ChannelsOwn, callVars
  <2> QED  BY <2>2, <2>4, <2>5, <2>6 DEF IInv
<1>2. CASE Deliver
  <2>1. /\ delivering \in Message /\ delivering.id \in Id /\ delivering' = NoMessage
        /\ UNCHANGED <<callVars, pend>>
        /\ chan' = [c \in Call |-> IF c \in Addressee(delivering)
                             THEN [state |-> "replied", reply |-> delivering] ELSE chan[c]]
    BY <1>2, SMT DEF Deliver, IInv, ClientTypeOK, Message
  <2>2. \A c \in Addressee(delivering) : c \in Call /\ Active(c) /\ id[c] = delivering.id
    <3>1. 0 \notin Id  BY SMT DEF Id
    <3> QED
      BY <2>1, <3>1 DEF IInv, Addressee, IdsFresh, ClientTypeOK
  <2>3. ClientTypeOK'
    <3> DEFINE Chan == [state : {"none", "open", "replied", "closed"}, reply : Message \cup {NoMessage}]
    <3>1. chan \in [Call -> Chan] /\ [state |-> "replied", reply |-> delivering] \in Chan
      BY <2>1 DEF IInv, ClientTypeOK
    <3>2. chan' \in [Call -> Chan]
      <4> HIDE DEF Chan
      <4> QED  BY <2>1, <3>1
    <3> QED
      BY <1>2, <2>1, <3>2, SMT DEF IInv, ClientTypeOK, Deliver, callVars, serverVars
  <2>4. RegisteredWaits'
    <3>1. delivering.id \notin pend
      BY <1>2 DEF Deliver, IInv, DeliveredOnce
    <3>2. ASSUME NEW c \in Call, id[c] \in pend PROVE chan'[c] = chan[c]
      BY <2>1, <2>2, <3>1, <3>2
    <3> QED
      BY <2>1, <3>2 DEF IInv, RegisteredWaits, callVars
  <2>5. ChannelsOwn'
    BY <2>1, <2>2 DEF IInv, ChannelsOwn, callVars
  <2>6. IdsFresh'
    <3>1. 0 <= nextID
      BY ClientAssumption, SMT DEF IInv, ClientTypeOK, Id
    <3> QED
      BY <2>1, <3>1 DEF IInv, IdsFresh, callVars, NoMessage
  <2>7. SlotHeld' /\ DeliveredOnce'
    BY <2>1 DEF IInv, SlotHeld, DeliveredOnce, callVars
  <2> QED  BY <2>3, <2>4, <2>5, <2>6, <2>7 DEF IInv
<1>3. CASE ReadEOF
  <2>1. /\ pend' = {} /\ UNCHANGED <<callVars, delivering>> /\ delivering = NoMessage
        /\ chan' = [c \in Call |-> IF id[c] \in pend THEN [chan[c] EXCEPT !.state = "closed"] ELSE chan[c]]
    BY <1>3 DEF ReadEOF
  <2>2. ClientTypeOK'
    <3>1. chan' \in [Call -> [state : {"none", "open", "replied", "closed"},
                               reply : Message \cup {NoMessage}]]
      <4> DEFINE Chan == [state : {"none", "open", "replied", "closed"}, reply : Message \cup {NoMessage}]
      <4>1. chan \in [Call -> Chan]
        BY DEF IInv, ClientTypeOK
      <4>2. \A x \in Chan : [x EXCEPT !.state = "closed"] \in Chan
        OBVIOUS
      <4> HIDE DEF Chan
      <4>3. chan' \in [Call -> Chan]
        BY <2>1, <4>1, <4>2
      <4> QED  BY <4>3 DEF Chan
    <3> QED
      BY <1>3, <2>1, <3>1, SMT DEF IInv, ClientTypeOK, ReadEOF, callVars, serverVars
  <2>3. \A c \in Call : id[c] \in pend => Active(c)
    BY SMT DEF IInv, RegisteredWaits, IdsFresh, ClientTypeOK, Id
  <2>4. ChannelsOwn'
    <3>1. ASSUME NEW c \in Call
          PROVE  /\ id[c] \notin pend => chan'[c] = chan[c]
                 /\ id[c] \in pend => chan'[c].state = "closed"
      BY <2>1, SMT DEF IInv, ClientTypeOK
    <3> QED
      BY <2>1, <2>3, <3>1 DEF IInv, ChannelsOwn, callVars
  <2>5. SlotHeld' /\ IdsFresh' /\ RegisteredWaits' /\ DeliveredOnce'
    BY <2>1 DEF IInv, SlotHeld, IdsFresh, RegisteredWaits, DeliveredOnce, callVars
  <2> QED  BY <2>2, <2>4, <2>5 DEF IInv
<1> QED
  BY <1>1, <1>2, <1>3 DEF ReaderStep

\* The server touches the pipes only.
LEMMA ServerInv == ASSUME IInv, ServerStep PROVE IInv'
<1>1. UNCHANGED <<callVars, chan, pend, readerVars>>
  BY DEF ServerStep, Serve, Die, Answer
<1>2. ClientTypeOK'
  <2>1. CASE Serve
    BY <2>1, SMT DEF Serve, IInv, ClientTypeOK, callVars, readerVars
  <2>2. ASSUME NEW reply \in Payload, Answer(reply) PROVE ClientTypeOK'
    <3>1. serving.id \in Id
      BY <2>2, SMT DEF Answer, IInv, ClientTypeOK, Message
    <3>2. wire' \in Seq(Message)
      BY <2>2, <3>1, SMT DEF Answer, IInv, ClientTypeOK, Message
    <3> QED
      BY <2>2, <3>2, SMT DEF Answer, IInv, ClientTypeOK, callVars, readerVars
  <2>3. CASE Die
    BY <2>3, SMT DEF Die, IInv, ClientTypeOK, callVars, readerVars
  <2> QED  BY <2>1, <2>2, <2>3 DEF ServerStep
<1> QED
  BY <1>1, <1>2 DEF IInv, SlotHeld, IdsFresh, RegisteredWaits, DeliveredOnce, ChannelsOwn,
     Active, callVars, readerVars

LEMMA NextInv == IInv /\ [ClientNext]_clientVars => IInv'
<1> SUFFICES ASSUME IInv, [ClientNext]_clientVars PROVE IInv'  OBVIOUS
<1>1. CASE UNCHANGED clientVars
  BY <1>1 DEF IInv, ClientTypeOK, SlotHeld, IdsFresh, RegisteredWaits, DeliveredOnce, ChannelsOwn,
     Active, clientVars, callVars, readerVars, serverVars
<1> QED
  BY <1>1, CallersInv, CallStepInv, ReaderInv, ServerInv DEF ClientNext

LEMMA InvHolds == ClientSpec => []IInv
  BY InitInv, NextInv, PTL DEF ClientSpec

-----------------------------------------------------------------------------
\* The client's state stays well formed: pipes hold messages, ids come from the
\* counter, a channel holds a reply (Client, tui/internal/mcp/client.go).
THEOREM ClientTypeCorrect == ClientSpec => []ClientTypeOK
  BY InvHolds, PTL DEF IInv

\* Whatever the server answers and when, a call that returns a reply returns the one to
\* its own request (readLoop's table and the channel of each call).
THEOREM RepliesAreOwn == ClientSpec => []ReplyIsItsOwn
<1>1. IInv => ReplyIsItsOwn  BY DEF IInv, ChannelsOwn, ReplyIsItsOwn
<1> QED  BY <1>1, InvHolds, PTL

\* A call that returned, by whichever path, holds neither the slot nor the write and is
\* registered no more (callTimeout's deletions and deferred release).
THEOREM ReturnsClean == ClientSpec => []NothingLeftBehind
<1>1. IInv => NothingLeftBehind
  <2> SUFFICES ASSUME IInv, NEW c \in Call, pc[c] \in {"idle", "queued", "returned"}
      PROVE  sem # c /\ writer # c /\ id[c] \notin pend
    BY DEF NothingLeftBehind
  <2>1. sem # c /\ writer # c  BY DEF IInv, SlotHeld, Active
  <2>2. id[c] \notin pend
    <3>1. SUFFICES ASSUME id[c] \in pend PROVE FALSE  OBVIOUS
    <3>2. PICK d \in Call : Active(d) /\ id[d] = id[c]
      BY <3>1 DEF IInv, RegisteredWaits
    <3>3. id[c] # 0 /\ d = c
      BY <3>2 DEF IInv, IdsFresh
    <3> QED  BY <3>2, <3>3 DEF Active
  <2> QED  BY <2>1, <2>2
<1> QED  BY <1>1, InvHolds, PTL

\* The reader never sends on a channel that was closed or sent on, and at the end of the
\* stream closes each open channel once: it cannot panic (readLoop).
THEOREM ReaderSafe == ClientSpec => []SendsOnOpen
<1>1. IInv => SendsOnOpen
  <2> SUFFICES ASSUME IInv PROVE SendsOnOpen  OBVIOUS
  <2>1. ASSUME delivering # NoMessage, NEW c \in Addressee(delivering)
        PROVE  chan[c].state = "open"
    <3>1. delivering.id \in Id /\ 0 \notin Id
      BY <2>1, SMT DEF IInv, ClientTypeOK, Message, Id
    <3>2. c \in Call /\ Active(c) /\ id[c] = delivering.id
      BY <3>1 DEF IInv, IdsFresh, ClientTypeOK, Addressee, Active
    <3> QED  BY <2>1, <3>2 DEF IInv, DeliveredOnce
  <2> QED
    BY <2>1 DEF SendsOnOpen, IInv, DeliveredOnce, RegisteredWaits
<1> QED  BY <1>1, InvHolds, PTL

\* One call of all the panes is registered at a time, and it is the holder of the slot
\* (callSem): two replies cannot be waited for together.
THEOREM OneAtATime == ClientSpec => []OneRegistered
<1>1. IInv => OneRegistered
  <2> SUFFICES ASSUME IInv PROVE OneRegistered  OBVIOUS
  <2>1. \A i, j \in pend : i = j
    BY DEF IInv, RegisteredWaits, SlotHeld
  <2>2. pend = {} \/ \E i \in pend : pend = {i}
    BY <2>1
  <2> QED
    BY <2>2, FS_EmptySet, FS_Singleton DEF OneRegistered
<1> QED  BY <1>1, InvHolds, PTL

-----------------------------------------------------------------------------
(* The terminal.                                                             *)

Asks    == [id : Id, body : Request]
Replies == [id : Id, body : Reply]

PaneTypes ==
  /\ want \in [Call -> Request \cup {Nothing}]
  /\ exist \in SUBSET Session /\ delivered \in SUBSET Id /\ garbled \in SUBSET Id
  /\ confirmed \in SUBSET (Session \cup {NoSession})
  /\ inflight \in SUBSET Fetch /\ failed \in BOOLEAN /\ shown \in SUBSET Session
  /\ mode \in {"idle", "adding", "busy", "confirm"}
  /\ opsTarget \in Session \cup {NoSession} /\ (mode = "confirm" => opsTarget \in Session)
  /\ opsCheck \in [session : Session \cup {NoSession}, safe : BOOLEAN]
  /\ composing \in BOOLEAN /\ send \in {"idle", "inflight", "failed", "unknown"}
  /\ sent \in Id \cup {0}

\* Requests go one way and replies the other.
Bodies ==
  /\ inbox \in Seq(Asks) /\ serving \in Asks \cup {NoMessage}
  /\ wire \in Seq(Replies) /\ delivering \in Replies \cup {NoMessage}
  /\ \A c \in Call : /\ chan[c].state = "replied" => chan[c].reply \in Replies
                     /\ outcome[c] = "replied" => got[c] \in Replies

\* A goroutine that calls was started for something.
Wanted == \A c \in Call : pc[c] # "idle" => want[c] \in Request

None(whats) == Outstanding(whats) = {}
One(whats)  == \E c \in Call : Outstanding(whats) = {c}

FetchFlags == \A p \in Fetch : /\ p \in inflight => One({p})
                               /\ p \notin inflight => None({p})
DialogFlag == (mode = "busy" => One(Op)) /\ (mode # "busy" => None(Op))
SendFlag   == send = "inflight" => ~None({"send"})
Flags      == FetchFlags /\ DialogFlag /\ SendFlag

CInv == IInv /\ PaneTypes /\ Bodies /\ Wanted /\ Flags

-----------------------------------------------------------------------------
(* A turn of Update.                                                         *)

LEMMA RequestFacts ==
  /\ Nothing \notin Request
  /\ \A r \in Request : r.what # "nothing"
  /\ \A p \in Fetch : Ask(p, NoSession) \in Request
  /\ \A w \in Op, s \in Session : Ask(w, s) \in Request
  /\ Ask("send", NoSession) \in Request
  /\ \A w, s : Ask(w, s).what = w
  BY DEF Nothing, Request, Ask, Fetch, Op

\* The goroutines that start are free ones, each for a command of its own.
LEMMA RunSpawns ==
  ASSUME NEW done \in SUBSET Call, NEW commands \in SUBSET Request, Run(done, commands), PaneTypes
  PROVE  \E f \in [commands -> Call] :
           /\ \A r, q \in commands : f[r] = f[q] => r = q
           /\ \A r \in commands : want'[f[r]] = r /\ (want[f[r]] = Nothing \/ f[r] \in done)
           /\ \A c \in Call : (\A r \in commands : f[r] # c) =>
                                want'[c] = IF c \in done THEN Nothing ELSE want[c]
           /\ Callers(done, {f[r] : r \in commands})
           /\ want' \in [Call -> Request \cup {Nothing}]
<1>1. PICK f \in Injection(commands, {c \in Call : want[c] = Nothing} \cup done) :
        /\ Callers(done, Range(f))
        /\ want' = [c \in Call |-> IF c \in Range(f) THEN CHOOSE r \in commands : f[r] = c
                                   ELSE IF c \in done THEN Nothing ELSE want[c]]
  BY DEF Run
<1>2. /\ f \in [commands -> Call] /\ \A r, q \in commands : f[r] = f[q] => r = q
      /\ \A r \in commands : want[f[r]] = Nothing \/ f[r] \in done
  BY <1>1 DEF Injection, IsInjective
<1>3. Range(f) = {f[r] : r \in commands}
  BY <1>2 DEF Range
<1>4. ASSUME NEW r \in commands PROVE want'[f[r]] = r
  <2>1. f[r] \in Range(f) /\ f[r] \in Call
    BY <1>2, <1>3
  <2>2. want'[f[r]] = CHOOSE q \in commands : f[q] = f[r]
    BY <1>1, <2>1
  <2> QED
    BY <2>2, <1>2
<1>5. ASSUME NEW c \in Call, \A r \in commands : f[r] # c
      PROVE  want'[c] = IF c \in done THEN Nothing ELSE want[c]
  BY <1>1, <1>3, <1>5
<1>6. want' \in [Call -> Request \cup {Nothing}]
  <2>1. \A c \in Call : want'[c] \in Request \cup {Nothing}
    <3> SUFFICES ASSUME NEW c \in Call PROVE want'[c] \in Request \cup {Nothing}  OBVIOUS
    <3>1. CASE \E r \in commands : f[r] = c
      BY <3>1, <1>4
    <3>2. CASE \A r \in commands : f[r] # c
      BY <3>2, <1>5 DEF PaneTypes
    <3> QED  BY <3>1, <3>2
  <2> QED  BY <1>1, <2>1
<1>7. Callers(done, {f[r] : r \in commands})
  BY <1>1, <1>3, Zenon
<1>8. f \in [commands -> Call]
  BY <1>2
<1> WITNESS f \in [commands -> Call]
<1>9. \A r \in commands : want'[f[r]] = r /\ (want[f[r]] = Nothing \/ f[r] \in done)
  BY <1>2, <1>4
<1>10. \A c \in Call : (\A r \in commands : f[r] # c) =>
                                want'[c] = IF c \in done THEN Nothing ELSE want[c]
  BY <1>5
<1> QED
  BY <1>2, <1>6, <1>7, <1>9, <1>10

\* What a turn does to the calls that are out for the purposes in whats: it leaves
\* them, takes one of them back, or starts one.
Starting(commands, whats) == {r \in commands : r.what \in whats}
Keeps(done, commands, whats) == Starting(commands, whats) = {} /\ \A c \in done : want[c].what \notin whats
Ends(done, commands, whats)  == Starting(commands, whats) = {} /\ \E c \in done : want[c].what \in whats
Starts(commands, whats)      == \E r : Starting(commands, whats) = {r}

LEMMA RunCounts ==
  ASSUME NEW done \in SUBSET Call, NEW commands \in SUBSET Request, Run(done, commands), PaneTypes,
         NEW whats, "nothing" \notin whats
  PROVE  /\ Keeps(done, commands, whats) => Outstanding(whats)' = Outstanding(whats)
         /\ Ends(done, commands, whats) /\ One(whats) => None(whats)'
         /\ Starts(commands, whats) => ~None(whats)'
         /\ Starts(commands, whats) /\ None(whats) => One(whats)'
<1> DEFINE here == Starting(commands, whats)
<1>1. PICK f \in [commands -> Call] :
        /\ \A r, q \in commands : f[r] = f[q] => r = q
        /\ \A r \in commands : want'[f[r]] = r /\ (want[f[r]] = Nothing \/ f[r] \in done)
        /\ \A c \in Call : (\A r \in commands : f[r] # c) =>
                             want'[c] = IF c \in done THEN Nothing ELSE want[c]
        /\ Callers(done, {f[r] : r \in commands})
        /\ want' \in [Call -> Request \cup {Nothing}]
  BY RunSpawns, Zenon
<1>2. Nothing.what = "nothing"  BY DEF Nothing
<1>3. ASSUME NEW c \in Call, c \in Outstanding(whats)'
      PROVE  (c \in Outstanding(whats) /\ c \notin done) \/ \E r \in here : f[r] = c
  <2>1. CASE \E r \in commands : f[r] = c
    BY <2>1, <1>1, <1>3 DEF Outstanding, Starting
  <2>2. CASE \A r \in commands : f[r] # c
    BY <2>2, <1>1, <1>2, <1>3 DEF Outstanding
  <2> QED  BY <2>1, <2>2
<1>4. ASSUME NEW c \in Outstanding(whats), c \notin done PROVE c \in Outstanding(whats)'
  <2>1. c \in Call /\ want[c] # Nothing
    BY <1>2 DEF Outstanding
  <2>2. \A r \in commands : f[r] # c
    BY <1>1, <1>4, <2>1
  <2> QED  BY <1>1, <1>4, <2>1, <2>2 DEF Outstanding
<1>5. ASSUME NEW r \in here PROVE f[r] \in Outstanding(whats)'
  BY <1>1 DEF Outstanding, Starting
<1>6. Outstanding(whats) \subseteq Call /\ Outstanding(whats)' \subseteq Call
  BY DEF Outstanding
<1>7. ASSUME Keeps(done, commands, whats) PROVE Outstanding(whats)' = Outstanding(whats)
  BY <1>3, <1>4, <1>6, <1>7 DEF Outstanding, Keeps
<1>8. ASSUME Ends(done, commands, whats), One(whats) PROVE None(whats)'
  BY <1>3, <1>6, <1>8 DEF One, None, Outstanding, Ends
<1>9. ASSUME NEW r, here = {r} PROVE ~None(whats)'
  BY <1>5, <1>9 DEF None
<1>10. ASSUME NEW r, here = {r}, None(whats) PROVE One(whats)'
  <2>1. r \in commands /\ f[r] \in Call
    BY <1>10, <1>1 DEF Starting
  <2> QED  BY <1>3, <1>5, <1>6, <1>10, <2>1 DEF One, None
<1> QED
  BY <1>7, <1>8, <1>9, <1>10 DEF Starts

LEMMA RunFlags ==
  ASSUME NEW done \in SUBSET Call, NEW commands \in SUBSET Request, Run(done, commands), PaneTypes, Flags,
         \A p \in Fetch : \/ Keeps(done, commands, {p}) /\ (p \in inflight' <=> p \in inflight)
                          \/ Ends(done, commands, {p}) /\ p \notin inflight'
                          \/ Starts(commands, {p}) /\ p \notin inflight /\ p \in inflight',
         \/ Keeps(done, commands, Op) /\ (mode' = "busy" <=> mode = "busy")
         \/ Ends(done, commands, Op) /\ mode' # "busy"
         \/ Starts(commands, Op) /\ mode # "busy" /\ mode' = "busy",
         \/ Keeps(done, commands, {"send"}) /\ (send' = "inflight" => send = "inflight")
         \/ Ends(done, commands, {"send"}) /\ send' # "inflight"
         \/ Starts(commands, {"send"})
  PROVE  Flags'
<1>1. ASSUME NEW whats, Ends(done, commands, whats) PROVE ~None(whats)
  BY <1>1 DEF Ends, None, Outstanding
<1>2. FetchFlags'
  <2> SUFFICES ASSUME NEW p \in Fetch
               PROVE  (p \in inflight' => One({p})') /\ (p \notin inflight' => None({p})')
    BY DEF FetchFlags, One, None, Outstanding
  <2>1. "nothing" \notin {p}
    BY DEF Fetch
  <2>2. /\ Keeps(done, commands, {p}) => Outstanding({p})' = Outstanding({p})
        /\ Ends(done, commands, {p}) /\ One({p}) => None({p})'
        /\ Starts(commands, {p}) /\ None({p}) => One({p})'
    BY <2>1, RunCounts
  <2> QED
    BY <1>1, <2>2 DEF Flags, FetchFlags, One, None
<1>3. DialogFlag'
  <2>1. "nothing" \notin Op
    BY DEF Op
  <2>2. /\ Keeps(done, commands, Op) => Outstanding(Op)' = Outstanding(Op)
        /\ Ends(done, commands, Op) /\ One(Op) => None(Op)'
        /\ Starts(commands, Op) /\ None(Op) => One(Op)'
    BY <2>1, RunCounts
  <2> QED
    BY <1>1, <2>2 DEF Flags, DialogFlag, One, None
<1>4. SendFlag'
  <2>1. /\ Keeps(done, commands, {"send"}) => Outstanding({"send"})' = Outstanding({"send"})
        /\ Starts(commands, {"send"}) => ~None({"send"})'
    BY RunCounts
  <2> QED
    BY <2>1 DEF Flags, SendFlag, None
<1> QED
  BY <1>2, <1>3, <1>4 DEF Flags

\* To the client a turn is a turn of its callers.
LEMMA RunCallers ==
  ASSUME NEW done \in SUBSET Call, NEW commands \in SUBSET Request, Run(done, commands),
         PaneTypes, Bodies, Wanted
  PROVE  /\ \E new \in SUBSET Call : Callers(done, new)
         /\ want' \in [Call -> Request \cup {Nothing}]
         /\ Bodies' /\ Wanted'
<1>1. PICK f \in [commands -> Call] :
        /\ \A r, q \in commands : f[r] = f[q] => r = q
        /\ \A r \in commands : want'[f[r]] = r /\ (want[f[r]] = Nothing \/ f[r] \in done)
        /\ \A c \in Call : (\A r \in commands : f[r] # c) =>
                             want'[c] = IF c \in done THEN Nothing ELSE want[c]
        /\ Callers(done, {f[r] : r \in commands})
        /\ want' \in [Call -> Request \cup {Nothing}]
  BY RunSpawns, Zenon
<1> DEFINE new == {f[r] : r \in commands}
<1>2. new \in SUBSET Call /\ Callers(done, new)
  BY <1>1
<1>3. Bodies'
  <2>1. UNCHANGED <<inbox, serving, wire, delivering, chan>>
    BY <1>2 DEF Callers, readerVars, serverVars
  <2>2. \A c \in Call : outcome'[c] = "replied" => outcome[c] = "replied" /\ got'[c] = got[c]
    BY <1>2 DEF Callers
  <2> QED  BY <2>1, <2>2 DEF Bodies
<1>4. Wanted'
  <2> SUFFICES ASSUME NEW c \in Call, pc'[c] # "idle" PROVE want'[c] \in Request
    BY DEF Wanted
  <2>1. CASE c \in new
    BY <2>1, <1>1
  <2>2. CASE c \notin new
    <3>1. c \notin done /\ pc'[c] = pc[c]
      BY <2>2, <1>2 DEF Callers
    <3>2. want'[c] = want[c]
      BY <2>2, <3>1, <1>1
    <3> QED  BY <3>1, <3>2 DEF Wanted
  <2> QED  BY <2>1, <2>2
<1> QED
  BY <1>1, <1>2, <1>3, <1>4

-----------------------------------------------------------------------------
(* What the goroutines, the reader and the server do beneath.                *)

LEMMA CallsBodies ==
  ASSUME IInv, PaneTypes, Bodies, Wanted, NEW c \in Call, Calls(c)
  PROVE  /\ CallStep(c, want[c]) /\ want[c] \in Payload
         /\ Bodies' /\ Wanted'
<1>1. CallStep(c, want[c]) /\ UNCHANGED want /\ pc[c] # "idle"
  BY DEF Calls, cockpitVars, CallStep, At, QueueTimesOut, Register, WriteTimesOut, WriteBegins,
     WriteEnds, WriteFails, TakeReply, FindClosed, ReplyTimesOut
<1>2. want[c] \in Request
  BY <1>1 DEF Wanted
<1>3. DOMAIN pc = Call /\ DOMAIN chan = Call /\ DOMAIN outcome = Call /\ DOMAIN got = Call /\ id[c] \in Id \cup {0}
  BY DEF IInv, ClientTypeOK
<1>4. Wanted'
  <2>1. \A d \in Call : d # c => pc'[d] = pc[d]
    BY <1>1, <1>3 DEF CallStep, Return, Goto, QueueTimesOut, Register, WriteTimesOut, WriteBegins,
       WriteEnds, WriteFails, TakeReply, FindClosed, ReplyTimesOut
  <2> QED  BY <1>1, <1>2, <2>1 DEF Wanted
<1>5. ASSUME NEW how, NEW reply, NEW registered, Return(c, how, reply, registered),
             how = "replied" => reply \in Replies
      PROVE  Bodies'
  BY <1>3, <1>5 DEF Return, Bodies, readerVars, serverVars, NoChan
<1>6. Bodies'
  <2>1. CASE QueueTimesOut(c) \/ WriteTimesOut(c) \/ WriteFails(c) \/ FindClosed(c) \/ ReplyTimesOut(c)
    BY <2>1, <1>5 DEF QueueTimesOut, WriteTimesOut, WriteFails, FindClosed, ReplyTimesOut
  <2>2. CASE TakeReply(c)
    BY <2>2, <1>5 DEF TakeReply, Bodies
  <2>3. CASE Register(c)
    BY <2>3, <1>3 DEF Register, Bodies, readerVars, serverVars, Open
  <2>4. CASE WriteBegins(c)
    BY <2>4 DEF WriteBegins, Bodies, readerVars, serverVars
  <2>5. CASE WriteEnds(c, want[c])
    <3>1. id[c] \in Id
      BY <2>5, <1>3 DEF WriteEnds, At, IInv, IdsFresh, Active
    <3>2. [id |-> id[c], body |-> want[c]] \in Asks
      BY <3>1, <1>2 DEF Asks
    <3>3. inbox' \in Seq(Asks)
      BY <2>5, <3>2 DEF WriteEnds, Bodies
    <3> QED  BY <2>5, <3>3 DEF WriteEnds, Bodies, readerVars
  <2> QED  BY <1>1, <2>1, <2>2, <2>3, <2>4, <2>5 DEF CallStep
<1> QED
  BY <1>1, <1>2, <1>4, <1>6, CockpitAssumption

LEMMA ReadsBodies ==
  ASSUME IInv, Bodies, Wanted, ReaderStep, UNCHANGED want PROVE Bodies' /\ Wanted'
<1>1. CASE ReadReply
  <2>1. Head(wire) \in Replies /\ Tail(wire) \in Seq(Replies)
    BY <1>1 DEF ReadReply, Bodies
  <2> QED  BY <1>1, <2>1 DEF ReadReply, Bodies, Wanted, callVars
<1>2. CASE Deliver
  <2>1. delivering \in Replies /\ UNCHANGED <<callVars, serverVars>> /\ delivering' = NoMessage
    BY <1>2 DEF Deliver, Bodies
  <2>2. \A c \in Call : chan'[c] = chan[c] \/ chan'[c].reply = delivering
    BY <1>2 DEF Deliver
  <2> QED  BY <2>1, <2>2 DEF Bodies, Wanted, callVars, serverVars
<1>3. CASE ReadEOF
  <2>1. UNCHANGED <<callVars, serverVars, delivering>>
    BY <1>3 DEF ReadEOF
  <2>2. \A c \in Call : chan'[c] = chan[c] \/ chan'[c].state = "closed"
    BY <1>3 DEF ReadEOF, IInv, ClientTypeOK
  <2> QED  BY <2>1, <2>2 DEF Bodies, Wanted, callVars, serverVars
<1> QED  BY <1>1, <1>2, <1>3 DEF ReaderStep

LEMMA ServerBodies ==
  ASSUME PaneTypes, Bodies, Wanted, Server
  PROVE  /\ ServerStep /\ UNCHANGED <<want, railVars, chatVars>>
         /\ Bodies' /\ Wanted'
<1>1. CASE ServerMoves
  <2>1. inbox # <<>> => Head(inbox) \in Asks /\ Tail(inbox) \in Seq(Asks)
    BY DEF Bodies
  <2>2. <<>> \in Seq(Asks)
    OBVIOUS
  <2>3. /\ ServerStep /\ UNCHANGED <<want, railVars, chatVars>>
        /\ UNCHANGED <<callVars, chan, readerVars, wire>>
    BY <1>1 DEF ServerMoves, ServerStep, Serve, Die, cockpitVars
  <2>4. inbox' \in Seq(Asks) /\ serving' \in Asks \cup {NoMessage}
    BY <1>1, <2>1, <2>2 DEF ServerMoves, Serve, Die
  <2> QED
    BY <2>3, <2>4 DEF Bodies, Wanted, callVars, readerVars
<1>2. ASSUME NEW how \in {"ok", "error", "unknown", "garbled"}, NEW safe \in BOOLEAN, NEW sessions \in SUBSET Session,
             Answers(how, safe, sessions)
      PROVE  /\ ServerStep /\ UNCHANGED <<want, railVars, chatVars>>
             /\ Bodies' /\ Wanted'
  <2> DEFINE reply == [how |-> how, session |-> serving.body.session, safe |-> safe, sessions |-> sessions]
  <2>1. serving \in Asks
    BY <1>2 DEF Answers, Answer, Bodies
  <2>2. reply \in Reply /\ [id |-> serving.id, body |-> reply] \in Replies
    BY <2>1 DEF Asks, Request, Reply, Replies
  <2>3. Answer(reply) /\ reply \in Payload
    BY <1>2, <2>2, CockpitAssumption DEF Answers
  <2>4. wire' \in Seq(Replies)
    BY <2>2, <2>3 DEF Answer, Bodies
  <2> QED
    BY <1>2, <2>3, <2>4 DEF Answers, Answer, ServerStep, Bodies, Wanted, callVars, readerVars
<1>3. exist \in SUBSET Session /\ {} \in SUBSET Session /\ FALSE \in BOOLEAN
  BY DEF PaneTypes
<1>4. CASE ServerLists
  BY <1>2, <1>3, <1>4 DEF ServerLists
<1>5. ASSUME NEW how \in {"ok", "error", "unknown", "garbled"}, Answers(how, FALSE, {})
      PROVE  /\ ServerStep /\ UNCHANGED <<want, railVars, chatVars>>
             /\ Bodies' /\ Wanted'
  BY <1>2, <1>3, <1>5, Zenon
<1>6. CASE \/ ServerReads \/ ServerRefuses
           \/ \E how \in {"ok", "garbled"} : ServerAdds(how) \/ ServerRemoves(how)
           \/ \E how \in {"ok", "unknown", "garbled"} : ServerDelivers(how)
  <2>1. \E how \in {"ok", "error", "unknown", "garbled"} : Answers(how, FALSE, {})
    BY <1>6, Zenon DEF ServerReads, ServerAdds, ServerRemoves, ServerRefuses, ServerDelivers
  <2> QED  BY <1>5, <2>1, Zenon
<1>7. CASE \E safe \in BOOLEAN : ServerChecks(safe)
  BY <1>2, <1>3, <1>7, Zenon DEF ServerChecks
<1> QED
  BY <1>1, <1>4, <1>6, <1>7 DEF Server

-----------------------------------------------------------------------------
(* What each turn does to the panes.                                         *)

LEMMA FetchCommands ==
  ASSUME NEW panes \in SUBSET Fetch
  PROVE  /\ Commands(panes) \in SUBSET Request
         /\ \A p \in Fetch : Starting(Commands(panes), {p}) = IF p \in panes THEN {Ask(p, NoSession)} ELSE {}
         /\ Starting(Commands(panes), Op) = {} /\ Starting(Commands(panes), {"send"}) = {}
  BY RequestFacts DEF Commands, Starting, Fetch, Op

LEMMA OneCommand ==
  ASSUME NEW r, NEW whats
  PROVE  /\ Starting({r}, whats) = IF r.what \in whats THEN {r} ELSE {}
         /\ Starting({}, whats) = {}
  BY DEF Starting

\* A turn that fetches what is due, whatever it takes back.
LEMMA FetchTurn ==
  ASSUME PaneTypes, Flags, NEW done \in SUBSET Call, NEW panes \in SUBSET Fetch,
         Run(done, Commands(panes \ inflight)),
         NEW back, \A c \in done : want[c].what = back,
         back \in Op \cup {"send"} => inflight' = inflight \cup panes,
         back \in Fetch => back \notin panes /\ inflight' = (inflight \ {back}) \cup panes,
         \/ done = {} /\ UNCHANGED <<mode, send>> /\ back \in Op
         \/ done # {} /\ back \in Op /\ mode' # "busy" /\ UNCHANGED send
         \/ done # {} /\ back \in Fetch /\ UNCHANGED <<mode, send>>
         \/ done # {} /\ back = "send" /\ send' # "inflight" /\ UNCHANGED mode
  PROVE  Flags'
<1> DEFINE commands == Commands(panes \ inflight)
<1>1. /\ commands \in SUBSET Request
      /\ \A p \in Fetch : Starting(commands, {p}) = IF p \in panes \ inflight THEN {Ask(p, NoSession)} ELSE {}
      /\ Starting(commands, Op) = {} /\ Starting(commands, {"send"}) = {}
  BY FetchCommands
<1> HIDE DEF commands
<1>2. Run(done, commands)
  BY DEF commands
<1>3. ASSUME NEW p \in Fetch
      PROVE  \/ Keeps(done, commands, {p}) /\ (p \in inflight' <=> p \in inflight)
             \/ Ends(done, commands, {p}) /\ p \notin inflight'
             \/ Starts(commands, {p}) /\ p \notin inflight /\ p \in inflight'
  <2>1. CASE p \in panes \ inflight
    BY <2>1, <1>1 DEF Starts, Op, Fetch
  <2>2. CASE p \notin panes \ inflight /\ p = back /\ done # {}
    BY <2>2, <1>1 DEF Ends, Op, Fetch
  <2>3. CASE p \notin panes \ inflight /\ (p # back \/ done = {})
    BY <2>3, <1>1 DEF Keeps, Op, Fetch
  <2> QED  BY <2>1, <2>2, <2>3
<1>4. \/ Keeps(done, commands, Op) /\ (mode' = "busy" <=> mode = "busy")
      \/ Ends(done, commands, Op) /\ mode' # "busy"
  BY <1>1 DEF Keeps, Ends, Op, Fetch
<1>5. \/ Keeps(done, commands, {"send"}) /\ (send' = "inflight" => send = "inflight")
      \/ Ends(done, commands, {"send"}) /\ send' # "inflight"
  BY <1>1 DEF Keeps, Ends, Op, Fetch
<1> QED
  BY <1>1, <1>2, <1>3, <1>4, <1>5, RunFlags

\* A turn of the keys that starts one call.
LEMMA AskTurn ==
  ASSUME PaneTypes, Flags, NEW what, NEW s, Run({}, {Ask(what, s)}), UNCHANGED inflight,
         \/ what \in Op /\ s \in Session /\ mode # "busy" /\ mode' = "busy" /\ UNCHANGED send
         \/ what = "send" /\ s = NoSession /\ UNCHANGED mode
  PROVE  Ask(what, s) \in Request /\ Flags'
<1>1. Ask(what, s) \in Request /\ Ask(what, s).what = what
  BY DEF Ask, Request
<1>2. \A p \in Fetch : Keeps({}, {Ask(what, s)}, {p})
  BY <1>1, OneCommand DEF Keeps, Fetch, Op
<1>3. what \in Op => Starts({Ask(what, s)}, Op) /\ Keeps({}, {Ask(what, s)}, {"send"})
  <2>1. what \in Op => Starting({Ask(what, s)}, Op) = {Ask(what, s)}
    BY <1>1, OneCommand
  <2>2. what \in Op => Starting({Ask(what, s)}, {"send"}) = {}
    BY <1>1, OneCommand DEF Op
  <2> QED  BY <2>1, <2>2 DEF Starts, Keeps
<1>4. what = "send" => Keeps({}, {Ask(what, s)}, Op) /\ Starts({Ask(what, s)}, {"send"})
  BY <1>1, OneCommand DEF Starts, Keeps, Op
<1> QED
  BY <1>1, <1>2, <1>3, <1>4, RunFlags

\* A turn: the callers move, the client and the server do not.
Turn == /\ \E done, new \in SUBSET Call : Callers(done, new)
        /\ PaneTypes' /\ Bodies' /\ Wanted' /\ Flags'

LEMMA TickersTurn == ASSUME CInv, Tickers PROVE Turn
<1> USE DEF CInv
<1>1. CASE Refresh
  <2>1. DoFetchAll \in SUBSET Fetch /\ Run({}, Commands(DoFetchAll \ inflight))
    BY <1>1 DEF Refresh, DoFetchAll, Due, Fetch
  <2>2. Flags'
    BY <1>1, <2>1, FetchTurn DEF Refresh, chatVars, Op, Fetch
  <2>3. Commands(DoFetchAll \ inflight) \in SUBSET Request
    BY <2>1, FetchCommands
  <2>4. PaneTypes'
    BY <1>1, <2>1, <2>3, RunCallers DEF Refresh, PaneTypes, remoteVars, chatVars
  <2> QED  BY <2>1, <2>2, <2>3, <2>4, RunCallers, SMTT(30) DEF Turn
<1>2. CASE ParticipantsTick
  <2>1. {"people"} \ inflight = {"people"} /\ {"people"} \in SUBSET Fetch
    BY <1>2 DEF ParticipantsTick, Fetch
  <2> Run({}, Commands({"people"} \ inflight)) /\ inflight' = inflight \cup {"people"}
    BY <1>2, <2>1 DEF ParticipantsTick
  <2> /\ UNCHANGED <<mode, send>> /\ "add" \in Op /\ "add" \notin Fetch
      /\ {} \in SUBSET Call /\ \A c \in {} : want[c].what = "add"
    BY <1>2 DEF ParticipantsTick, chatVars, Op, Fetch
  <2>2. Flags'
    BY <2>1, FetchTurn
  <2>3. Commands({"people"}) \in SUBSET Request
    BY <2>1, FetchCommands
  <2>4. PaneTypes'
    BY <1>2, <2>1, <2>3, RunCallers DEF ParticipantsTick, PaneTypes, remoteVars, chatVars
  <2> QED  BY <1>2, <2>2, <2>3, <2>4, RunCallers DEF Turn, ParticipantsTick
<1> QED  BY <1>1, <1>2 DEF Tickers

LEMMA NoCommands == Commands({}) = {}
  BY DEF Commands

LEMMA FetchesTurn ==
  ASSUME CInv, NEW c \in Call, SessionsArrive(c) \/ SessionsFail(c) \/ LanesArrive(c) \/ PeopleArrive(c)
  PROVE  Turn
<1> USE DEF CInv
<1>1. {c} \in SUBSET Call /\ {} \ inflight = {} /\ {} \in SUBSET Request
  OBVIOUS
<1>2. CASE SessionsArrive(c)
  <2>1. Run({c}, Commands({} \ inflight)) /\ Run({c}, {})
    BY <1>1, <1>2, NoCommands DEF SessionsArrive
  <2> /\ inflight' = (inflight \ {"sessions"}) \cup {} /\ UNCHANGED <<mode, send>>
      /\ want[c].what = "sessions" /\ "sessions" \in Fetch /\ "sessions" \notin Op \cup {"send"}
    BY <1>2 DEF SessionsArrive, Back, chatVars, Op, Fetch
  <2>2. Flags'
    BY <1>1, <2>1, FetchTurn
  <2>3. got[c].body.sessions \in SUBSET Session
    BY <1>2 DEF SessionsArrive, Result, Bodies, Replies, Reply
  <2>4. PaneTypes'
    BY <1>1, <1>2, <2>1, <2>3, RunCallers DEF SessionsArrive, PaneTypes, remoteVars, chatVars
  <2> QED  BY <1>1, <2>1, <2>2, <2>4, RunCallers DEF Turn
<1>3. CASE SessionsFail(c)
  <2>1. Run({c}, Commands({"lanes"} \ inflight)) /\ {"lanes"} \in SUBSET Fetch
    BY <1>3 DEF SessionsFail, Fetch
  <2>2. Flags'
    BY <1>1, <1>3, <2>1, FetchTurn DEF SessionsFail, Back, chatVars, Op, Fetch
  <2>3. Commands({"lanes"} \ inflight) \in SUBSET Request
    BY <2>1, FetchCommands
  <2>4. PaneTypes'
    BY <1>1, <1>3, <2>1, <2>3, RunCallers DEF SessionsFail, PaneTypes, remoteVars, chatVars, Fetch
  <2> QED  BY <1>1, <2>1, <2>2, <2>3, <2>4, RunCallers DEF Turn
<1>4. CASE LanesArrive(c) \/ PeopleArrive(c)
  <2>1. Run({c}, Commands({} \ inflight)) /\ Run({c}, {})
    BY <1>1, <1>4, NoCommands DEF LanesArrive, PeopleArrive
  <2>2. PICK p \in {"lanes", "people"} : want[c].what = p /\ inflight' = inflight \ {p}
    BY <1>4 DEF LanesArrive, PeopleArrive, Back
  <2>3. UNCHANGED <<remoteVars, confirmed, failed, shown, mode, opsTarget, opsCheck, chatVars>>
    BY <1>4 DEF LanesArrive, PeopleArrive
  <2> /\ inflight' = (inflight \ {p}) \cup {} /\ UNCHANGED <<mode, send>>
      /\ p \in Fetch /\ p \notin Op \cup {"send"}
    BY <2>2, <2>3 DEF chatVars, Op, Fetch
  <2>4. Flags'
    BY <1>1, <2>1, <2>2, FetchTurn
  <2>5. PaneTypes'
    BY <1>1, <2>1, <2>2, <2>3, RunCallers DEF PaneTypes, remoteVars, chatVars
  <2> QED  BY <1>1, <2>1, <2>4, <2>5, RunCallers DEF Turn
<1> QED  BY <1>2, <1>3, <1>4

LEMMA AsksTurn ==
  ASSUME CInv, (\E s \in Session : EnterName(s) \/ PressRemove(s)) \/ PressYes \/ TrySend
  PROVE  Turn
<1> USE DEF CInv
<1>1. ASSUME NEW what, NEW s, Run({}, {Ask(what, s)}), UNCHANGED inflight,
             \/ what \in Op /\ s \in Session /\ mode # "busy" /\ mode' = "busy" /\ UNCHANGED send
             \/ what = "send" /\ s = NoSession /\ UNCHANGED mode
      PROVE  /\ \E new \in SUBSET Call : Callers({}, new)
             /\ want' \in [Call -> Request \cup {Nothing}]
             /\ Flags' /\ Bodies' /\ Wanted'
  <2>1. Ask(what, s) \in Request /\ Flags'
    BY <1>1, AskTurn
  <2>2. {Ask(what, s)} \in SUBSET Request /\ {} \in SUBSET Call
    BY <2>1
  <2> QED  BY <1>1, <2>1, <2>2, RunCallers
<1>2. CASE \E s \in Session : EnterName(s) \/ PressRemove(s)
  <2>1. PICK s \in Session, what \in {"add", "check"} :
          /\ Run({}, {Ask(what, s)}) /\ mode # "busy" /\ mode' = "busy" /\ opsTarget' = s
          /\ UNCHANGED <<remoteVars, confirmed, inflight, failed, shown, opsCheck, chatVars>>
    BY <1>2 DEF EnterName, PressRemove
  <2>2. /\ \E new \in SUBSET Call : Callers({}, new)
        /\ want' \in [Call -> Request \cup {Nothing}]
        /\ Flags' /\ Bodies' /\ Wanted'
    BY <1>1, <2>1 DEF Op, chatVars
  <2>3. PaneTypes'
    BY <2>1, <2>2 DEF PaneTypes, remoteVars, chatVars
  <2> QED  BY <2>2, <2>3 DEF Turn
<1>3. CASE PressYes
  <2>1. opsTarget \in Session /\ opsCheck.session \in Session \cup {NoSession}
    BY <1>3 DEF PressYes, PaneTypes
  <2>2. /\ \E new \in SUBSET Call : Callers({}, new)
        /\ want' \in [Call -> Request \cup {Nothing}]
        /\ Flags' /\ Bodies' /\ Wanted'
    BY <1>1, <1>3, <2>1 DEF PressYes, Op, chatVars
  <2>3. PaneTypes'
    BY <1>3, <2>1, <2>2 DEF PressYes, PaneTypes, remoteVars, chatVars
  <2> QED  BY <2>2, <2>3 DEF Turn
<1>4. CASE TrySend
  <2>1. /\ \E new \in SUBSET Call : Callers({}, new)
        /\ want' \in [Call -> Request \cup {Nothing}]
        /\ Flags' /\ Bodies' /\ Wanted'
    BY <1>1, <1>4 DEF TrySend, railVars
  <2>2. PaneTypes'
    BY <1>4, <2>1 DEF TrySend, PaneTypes, remoteVars, railVars
  <2> QED  BY <2>1, <2>2 DEF Turn
<1> QED  BY <1>2, <1>3, <1>4

LEMMA ResultsTurn ==
  ASSUME CInv, NEW c \in Call, OpDone(c) \/ CheckFails(c) \/ CheckArrives(c) \/ SendReturns(c)
  PROVE  Turn
<1> USE DEF CInv
<1>1. /\ {c} \in SUBSET Call /\ {c} # {} /\ {} \in SUBSET Request /\ {} \in SUBSET Fetch
      /\ {} = Commands({} \ inflight)
  BY NoCommands
<1>2. want[c].session \in Session \cup {NoSession}
  BY DEF PaneTypes, Request, Nothing
<1>3. ASSUME NEW back \in Op \cup {"send"}, want[c].what = back, Run({c}, {}), UNCHANGED inflight,
             \/ back \in Op /\ mode' # "busy" /\ UNCHANGED send
             \/ back = "send" /\ send' # "inflight" /\ UNCHANGED mode
      PROVE  /\ \E new \in SUBSET Call : Callers({c}, new)
             /\ want' \in [Call -> Request \cup {Nothing}]
             /\ Flags' /\ Bodies' /\ Wanted'
  <2> /\ Run({c}, Commands({} \ inflight)) /\ inflight' = inflight \cup {} /\ back \notin Fetch
      /\ \A d \in {c} : want[d].what = back
    BY <1>1, <1>3 DEF Op, Fetch
  <2>1. Flags'
    BY <1>1, <1>3, FetchTurn
  <2> QED  BY <1>1, <1>3, <2>1, RunCallers
<1>4. CASE OpDone(c) /\ Result(c) = "ok"
  <2>1. /\ DoFetchAll \in SUBSET Fetch /\ Run({c}, Commands(DoFetchAll \ inflight))
        /\ inflight' = inflight \cup DoFetchAll /\ mode' = "idle"
        /\ UNCHANGED <<remoteVars, confirmed, failed, shown, opsTarget, opsCheck, chatVars>>
    BY <1>4 DEF OpDone, DoFetchAll, Due, Fetch
  <2>2. PICK back \in {"add", "remove"} : want[c].what = back
    BY <1>4 DEF OpDone, Back
  <2> \A d \in {c} : want[d].what = back
    BY <2>2
  <2> back \in Op /\ back \notin Fetch /\ mode' # "busy" /\ UNCHANGED send
    BY <2>1 DEF Op, Fetch, chatVars
  <2>3. Flags'
    BY <1>1, <2>1, FetchTurn
  <2>4. Commands(DoFetchAll \ inflight) \in SUBSET Request
    BY <2>1, FetchCommands
  <2>5. PaneTypes'
    BY <1>1, <2>1, <2>4, RunCallers DEF PaneTypes, remoteVars, chatVars
  <2> QED  BY <1>1, <2>1, <2>3, <2>4, <2>5, RunCallers DEF Turn
<1>5. CASE (OpDone(c) /\ Result(c) # "ok") \/ CheckFails(c) \/ CheckArrives(c)
  <2>1. PICK back \in Op :
          /\ want[c].what = back /\ Run({c}, {}) /\ mode' \in {"idle", "confirm"}
          /\ UNCHANGED <<remoteVars, confirmed, inflight, failed, shown, chatVars>>
    BY <1>5 DEF OpDone, CheckFails, CheckArrives, Back, Op
  <2>2. /\ \E new \in SUBSET Call : Callers({c}, new)
        /\ want' \in [Call -> Request \cup {Nothing}]
        /\ Flags' /\ Bodies' /\ Wanted'
    BY <1>3, <2>1 DEF chatVars
  <2>3. CheckArrives(c) => got[c].body \in Reply
    BY DEF CheckArrives, Result, Bodies, Replies
  <2>4. /\ opsTarget' \in Session \cup {NoSession} /\ (mode' = "confirm" => opsTarget' \in Session)
        /\ opsCheck' \in [session : Session \cup {NoSession}, safe : BOOLEAN]
    <3>1. CheckArrives(c) => want[c].session \in Session
      BY DEF CheckArrives, Back, PaneTypes, Request, Nothing, Fetch
    <3> QED
      BY <1>2, <1>5, <2>3, <3>1 DEF OpDone, CheckFails, CheckArrives, PaneTypes, Reply
  <2>5. PaneTypes'
    BY <2>1, <2>2, <2>4 DEF PaneTypes, remoteVars, chatVars
  <2> QED  BY <2>2, <2>5 DEF Turn
<1>6. CASE SendReturns(c)
  <2>1. send' \in {"idle", "failed", "unknown"} /\ composing' \in BOOLEAN /\ sent' \in {0, id[c]}
    BY <1>6 DEF SendReturns
  <2>2. /\ \E new \in SUBSET Call : Callers({c}, new)
        /\ want' \in [Call -> Request \cup {Nothing}]
        /\ Flags' /\ Bodies' /\ Wanted'
    BY <1>3, <1>6, <2>1 DEF SendReturns, Back, railVars
  <2>3. PaneTypes'
    BY <1>6, <2>1, <2>2 DEF SendReturns, PaneTypes, remoteVars, railVars, IInv, ClientTypeOK
  <2> QED  BY <2>2, <2>3 DEF Turn
<1> QED  BY <1>4, <1>5, <1>6

-----------------------------------------------------------------------------
(* Every step.                                                               *)

\* What moves no goroutine to another purpose leaves what is under way as it is.
LEMMA FlagsStay ==
  ASSUME Flags, UNCHANGED <<want, inflight>>, mode' = "busy" <=> mode = "busy",
         send' = "inflight" => send = "inflight"
  PROVE  Flags'
  BY DEF Flags, FetchFlags, DialogFlag, SendFlag, One, None, Outstanding

LEMMA InitCInv == Init => CInv /\ ClientInit
<1> SUFFICES ASSUME Init PROVE CInv /\ ClientInit  OBVIOUS
<1>1. ClientInit /\ IInv
  BY InitInv DEF Init, InitShowing
<1>2. PaneTypes
  BY DEF Init, InitShowing, PaneTypes
<1>3. Bodies
  BY DEF Init, InitShowing, ClientInit, Bodies, NoChan
<1>4. Wanted
  BY DEF Init, InitShowing, ClientInit, Wanted
<1>5. Flags
  BY DEF Init, InitShowing, Flags, FetchFlags, DialogFlag, SendFlag, None, Outstanding, Nothing, Fetch, Op
<1> QED
  BY <1>1, <1>2, <1>3, <1>4, <1>5 DEF CInv

\* A step of the terminal is a step of its client, and keeps the invariant.
LEMMA NextCInv == CInv /\ [Next]_vars => CInv' /\ [ClientNext]_clientVars
<1> SUFFICES ASSUME CInv, [Next]_vars
    PROVE  PaneTypes' /\ Bodies' /\ Wanted' /\ Flags' /\ [ClientNext]_clientVars
  BY NextInv DEF CInv
<1> USE DEF CInv
<1>1. ASSUME Turn PROVE PaneTypes' /\ Bodies' /\ Wanted' /\ Flags' /\ [ClientNext]_clientVars
  BY <1>1 DEF Turn, ClientNext
<1>2. ASSUME UNCHANGED <<clientVars, want, remoteVars, confirmed, inflight, failed, shown, opsTarget, opsCheck>>,
             mode' = mode \/ (mode' \in {"idle", "adding"} /\ mode # "busy"),
             composing' \in BOOLEAN, sent' \in {0, sent},
             send' = send \/ send' \in {"idle", "failed"}
      PROVE  PaneTypes' /\ Bodies' /\ Wanted' /\ Flags' /\ [ClientNext]_clientVars
  <2>1. UNCHANGED <<callVars, chan, readerVars, serverVars>>
    BY <1>2 DEF clientVars
  <2>2. Bodies' /\ Wanted'
    BY <1>2, <2>1 DEF Bodies, Wanted, callVars, readerVars, serverVars
  <2>3. PaneTypes'
    BY <1>2 DEF PaneTypes, remoteVars
  <2> QED  BY <1>2, <2>2, <2>3, FlagsStay
<1>3. CASE Keys
  <2>1. CASE PressNew \/ Cancel \/ StartComposing \/ Esc \/ MentionRefused
    BY <1>2, <2>1 DEF PressNew, Cancel, StartComposing, Esc, MentionRefused, chatVars, railVars, PaneTypes
  <2> QED  BY <1>1, <1>3, <2>1, AsksTurn DEF Keys
<1>4. ASSUME NEW c \in Call, Calls(c)
      PROVE  PaneTypes' /\ Bodies' /\ Wanted' /\ Flags' /\ [ClientNext]_clientVars
  <2>1. CallStep(c, want[c]) /\ want[c] \in Payload /\ Bodies' /\ Wanted' /\ UNCHANGED cockpitVars
    BY <1>4, CallsBodies DEF Calls
  <2>2. PaneTypes'
    BY <2>1 DEF PaneTypes, cockpitVars, remoteVars, railVars, chatVars
  <2> QED  BY <2>1, <2>2, FlagsStay DEF ClientNext, cockpitVars, railVars, chatVars
<1>5. CASE Reads
  <2>1. Bodies' /\ Wanted'
    BY <1>5, ReadsBodies DEF Reads, cockpitVars
  <2>2. PaneTypes'
    BY <1>5 DEF Reads, PaneTypes, cockpitVars, remoteVars, railVars, chatVars
  <2> QED  BY <1>5, <2>1, <2>2, FlagsStay DEF Reads, ClientNext, cockpitVars, railVars, chatVars
<1>6. CASE Server
  <2>1. ServerStep /\ UNCHANGED <<want, railVars, chatVars>> /\ Bodies' /\ Wanted'
    BY <1>6, ServerBodies
  <2>2. /\ exist' \in SUBSET Session /\ delivered' \in SUBSET Id /\ garbled' \in SUBSET Id
        /\ confirmed' \in SUBSET (Session \cup {NoSession})
    <3>1. /\ exist \in SUBSET Session /\ delivered \in SUBSET Id /\ garbled \in SUBSET Id
          /\ confirmed \in SUBSET (Session \cup {NoSession})
          /\ serving # NoMessage => serving.id \in Id /\ serving.body \in Request
      BY DEF PaneTypes, Bodies, Asks
    <3>2. CASE \E how \in {"ok", "garbled"} : ServerAdds(how)
      <4>1. serving.body.session \in Session
        BY <3>1, <3>2 DEF ServerAdds, Asked, Request, Fetch
      <4> QED  BY <3>1, <3>2, <4>1 DEF ServerAdds
    <3>3. CASE \E how \in {"ok", "unknown", "garbled"} : ServerDelivers(how)
      BY <3>1, <3>3 DEF ServerDelivers, Asked
    <3> QED
      BY <1>6, <3>1, <3>2, <3>3 DEF Server, ServerMoves, ServerLists, ServerReads, ServerChecks,
         ServerRemoves, ServerRefuses, cockpitVars, remoteVars
  <2>3. PaneTypes'
    BY <2>1, <2>2 DEF PaneTypes, railVars, chatVars
  <2> QED  BY <2>1, <2>3, FlagsStay DEF ClientNext, railVars, chatVars
<1>7. CASE UNCHANGED vars
  BY <1>2, <1>7 DEF vars, cockpitVars, railVars, chatVars, PaneTypes
<1> QED
  BY <1>1, <1>3, <1>4, <1>5, <1>6, <1>7, TickersTurn, FetchesTurn, ResultsTurn DEF Next, Arrives

LEMMA CInvHolds == Spec => []CInv /\ ClientSpec
  BY InitCInv, NextCInv, PTL DEF Spec, ClientSpec

-----------------------------------------------------------------------------
\* The terminal, its dialogs, tickers and server together, does nothing to the client
\* that the client's own specification does not allow.
THEOREM Implements == Spec => ClientSpec
  BY CInvHolds, PTL

\* The state of the panes and of the client stays well formed.
THEOREM TypeCorrect == Spec => []TypeOK
<1>1. CInv => TypeOK
  BY DEF CInv, IInv, PaneTypes, TypeOK
<1> QED  BY <1>1, CInvHolds, PTL

\* For any number of goroutines and sessions, through timeouts, lost replies and the
\* death of the server: a pane marks a fetch as under way, the dialog shows an operation
\* as under way, exactly when one is, and never two (doFetchAll, opsMode, sendOutcome).
THEOREM PanesTellTruth == Spec => []FlagsAreTrue
<1>1. CInv => FlagsAreTrue
  <2> SUFFICES ASSUME CInv PROVE FlagsAreTrue  OBVIOUS
  <2>1. \A whats : One(whats) => Cardinality(Outstanding(whats)) = 1
    BY FS_Singleton DEF One
  <2>2. \A whats : None(whats) => Cardinality(Outstanding(whats)) = 0
    BY FS_EmptySet DEF None
  <2>3. \A p \in Fetch : Cardinality(Outstanding({p})) = IF p \in inflight THEN 1 ELSE 0
    BY <2>1, <2>2 DEF CInv, Flags, FetchFlags
  <2>4. Cardinality(Outstanding(Op)) = IF mode = "busy" THEN 1 ELSE 0
    BY <2>1, <2>2 DEF CInv, Flags, DialogFlag
  <2>5. send = "inflight" => Outstanding({"send"}) # {}
    BY DEF CInv, Flags, SendFlag, None
  <2> QED  BY <2>3, <2>4, <2>5 DEF FlagsAreTrue
<1> QED  BY <1>1, CInvHolds, PTL

\* What the client promises holds of it in the terminal: no pane is given the reply to
\* another's request.
THEOREM PanesGetTheirOwn == Spec => []ReplyIsItsOwn
  BY Implements, RepliesAreOwn, PTL

-----------------------------------------------------------------------------
(* What is asked and what is answered, in which order.                       *)

\* The requests the server has yet to answer, and the replies nobody has consumed.
Pending == Range(inbox) \cup ({serving} \ {NoMessage})
Replied == Range(wire) \cup ({delivering} \ {NoMessage})
              \cup {chan[c].reply : c \in {d \in Call : chan[d].state = "replied"}}
              \cup {got[c] : c \in {d \in Call : outcome[d] = "replied"}}

\* What was answered: a reply names it, its message was delivered, or it is shown as failed.
Answered == {m.id : m \in Replied} \cup delivered \cup ({sent} \ {0})

\* Requests are answered in the order of their ids, which is that of the calls, and a
\* call that has not written yet has the last one.
FirstComeFirstServed ==
  /\ child = "dead" => Pending = {}
  /\ \A i, j \in 1 .. Len(inbox) : i < j => inbox[i].id < inbox[j].id
  /\ serving # NoMessage => \A m \in Range(inbox) : serving.id < m.id
  /\ \A m \in Pending : m.id <= nextID /\ \A i \in Answered : i < m.id
  /\ \A i \in Answered : i <= nextID
  /\ \A c \in Call : pc[c] \in {"registered", "writing"} =>
       id[c] = nextID /\ nextID \notin Answered /\ \A m \in Pending : m.id # nextID

\* A call's request asks what it is for, and the reply names the session it asked about.
EchoesItsOwn ==
  \A c \in Call : id[c] # 0 =>
    /\ \A m \in Pending : m.id = id[c] => m.body = want[c]
    /\ \A m \in Replied : m.id = id[c] => m.body.session = want[c].session

\* Only the server's death ends a call without a reply or a timeout.
FailsDead ==
  \A c \in Call : chan[c].state = "closed" \/ (pc[c] = "returned" /\ outcome[c] \notin {"replied", "timeout"})
                    => child = "dead"

\* An error is the answer to what was not delivered, or to what was and is garbled.
Legible == delivered \ garbled

ErrorsUndelivered ==
  /\ \A m \in Replied : m.body.how \in {"error", "garbled"} => m.id \notin Legible
  /\ send = "failed" /\ child # "dead" => sent \notin Legible

\* The removals asked for.  None is asked for while an add is pending, nor written behind
\* one: the check before it was answered after.
Removing == Outstanding({"remove"}) # {}
Adds     == {m \in Pending : m.body.what = "add"}
Removals == {m \in Pending : m.body.what = "remove"}

RemovalsConfirmed ==
  /\ \A c \in Call : want[c].what \in Op /\ id[c] # 0 =>
       \A m \in Pending : m.body.what \in Op => m.id <= id[c]
  /\ mode = "confirm" \/ Removing => Adds = {}
  /\ \A m \in Adds, n \in Removals : n.id < m.id
  /\ \A m \in Removals : m.body.session \in confirmed
  /\ \A c \in Outstanding({"remove"}) : want[c].session \in confirmed
  /\ mode = "confirm" => opsCheck.session = opsTarget

QueueInv == FirstComeFirstServed /\ EchoesItsOwn /\ FailsDead /\ ErrorsUndelivered /\ RemovalsConfirmed

LEMMA Ranges ==
  ASSUME NEW S, NEW s \in Seq(S)
  PROVE  /\ Range(s) \subseteq S /\ Range(<<>>) = {}
         /\ \A e \in S : Range(Append(s, e)) = Range(s) \cup {e}
         /\ s # <<>> => Head(s) \in Range(s) /\ Range(Tail(s)) \subseteq Range(s)
         /\ s # <<>> => Range(s) = {Head(s)} \cup Range(Tail(s))
<1>1. Range(s) \subseteq S /\ Range(<<>>) = {}  BY DEF Range
<1>2. ASSUME NEW e \in S PROVE Range(Append(s, e)) = Range(s) \cup {e}
  <2>1. DOMAIN Append(s, e) = 1 .. Len(s) + 1 /\ DOMAIN s = 1 .. Len(s) /\ Len(s) \in Nat
    OBVIOUS
  <2>2. Append(s, e)[Len(s) + 1] = e /\ \A i \in 1 .. Len(s) : Append(s, e)[i] = s[i]
    OBVIOUS
  <2> QED  BY <2>1, <2>2 DEF Range
<1>3. ASSUME s # <<>> PROVE Range(s) = {Head(s)} \cup Range(Tail(s))
  <2>1. /\ DOMAIN s = 1 .. Len(s) /\ Len(s) \in Nat /\ Len(s) >= 1
        /\ DOMAIN Tail(s) = 1 .. Len(s) - 1
    BY <1>3
  <2>2. Head(s) = s[1] /\ \A i \in 1 .. Len(s) - 1 : Tail(s)[i] = s[i + 1]
    BY <1>3
  <2>3. ASSUME NEW x \in Range(s) PROVE x \in {Head(s)} \cup Range(Tail(s))
    <3>1. PICK i \in 1 .. Len(s) : x = s[i]
      BY <2>1, <2>3 DEF Range
    <3>2. CASE i = 1
      BY <2>2, <3>1, <3>2
    <3>3. CASE i # 1
      <4>1. i - 1 \in 1 .. Len(s) - 1 /\ (i - 1) + 1 = i
        BY <2>1, <3>1, <3>3
      <4>2. Tail(s)[i - 1] = x
        BY <2>2, <3>1, <4>1
      <4> QED  BY <2>1, <4>1, <4>2 DEF Range
    <3> QED  BY <3>2, <3>3
  <2>4. ASSUME NEW x \in Range(Tail(s)) PROVE x \in Range(s)
    <3>1. PICK i \in 1 .. Len(s) - 1 : x = Tail(s)[i]
      BY <2>1, <2>4 DEF Range
    <3>2. x = s[i + 1] /\ i + 1 \in 1 .. Len(s)
      BY <2>1, <2>2, <3>1
    <3> QED  BY <2>1, <3>2 DEF Range
  <2>5. Head(s) \in Range(s)
    BY <2>1, <2>2 DEF Range
  <2> QED  BY <2>3, <2>4, <2>5
<1> QED  BY <1>1, <1>2, <1>3

\* The requests and the replies are of their types.
LEMMA QueueTypes ==
  ASSUME CInv
  PROVE  /\ inbox \in Seq(Asks) /\ wire \in Seq(Replies)
         /\ Pending \subseteq Asks /\ Replied \subseteq Replies
         /\ \A m \in Pending \cup Replied : m.id \in Id /\ m.id \in Nat /\ m.id # 0
         /\ NoMessage \notin Asks /\ NoMessage \notin Replies
         /\ delivered \subseteq Id /\ sent \in Id \cup {0} /\ nextID \in Nat
         /\ Answered \subseteq Nat /\ 0 \notin Answered /\ 0 \notin Id /\ Id \subseteq Nat
         /\ \A c \in Call : id[c] \in Nat
<1>1. inbox \in Seq(Asks) /\ wire \in Seq(Replies)  BY DEF CInv, Bodies
<1>2. Range(inbox) \subseteq Asks /\ Range(wire) \subseteq Replies  BY <1>1, Ranges
<1>3. Pending \subseteq Asks  BY <1>2 DEF Pending, CInv, Bodies
<1>4. Replied \subseteq Replies  BY <1>2 DEF Replied, CInv, Bodies
<1>5. Id \subseteq Nat /\ 0 \notin Id  BY ClientAssumption DEF Id
<1>6. \A m \in Pending \cup Replied : m.id \in Id  BY <1>3, <1>4 DEF Asks, Replies
<1>7. delivered \subseteq Id /\ sent \in Id \cup {0}  BY DEF CInv, PaneTypes
<1>8. nextID \in Nat /\ \A c \in Call : id[c] \in Nat
  <2>1. nextID \in Id \cup {0} /\ id \in [Call -> Id \cup {0}]  BY DEF CInv, IInv, ClientTypeOK
  <2>2. Id \cup {0} \subseteq Nat  BY <1>5
  <2> HIDE DEF Id
  <2> QED  BY <2>1, <2>2
<1>9. NoMessage \notin Asks /\ NoMessage \notin Replies
  BY <1>5 DEF NoMessage, Asks, Replies
<1>10. Answered \subseteq Id  BY <1>6, <1>7 DEF Answered
<1> QED  BY <1>1, <1>3, <1>4, <1>5, <1>6, <1>7, <1>8, <1>9, <1>10

\* What does not change the order: a step after which no more is pending or answered.
Ordered ==
  /\ \A i, j \in 1 .. Len(inbox) : i < j => inbox[i].id < inbox[j].id
  /\ serving # NoMessage => \A m \in Range(inbox) : serving.id < m.id

LEMMA NoMoreKeeps ==
  ASSUME QueueInv, Pending' \subseteq Pending, Replied' \subseteq Replied, Ordered',
         UNCHANGED <<want, id, nextID, delivered, garbled, confirmed>>,
         child' = child \/ child' = "dead", child' = "dead" => child = "dead" \/ Pending' = {},
         \A c \in Call : pc'[c] \in {"registered", "writing"} => pc[c] \in {"registered", "writing"},
         sent' \in {0, sent}, send' = "failed" => sent' = 0 \/ (send = "failed" /\ sent' = sent),
         0 \notin delivered,
         mode' = "confirm" => mode = "confirm" /\ UNCHANGED <<opsCheck, opsTarget>>,
         FailsDead'
  PROVE  QueueInv'
<1>1. Answered' \subseteq Answered  BY DEF Answered
<1>2. FirstComeFirstServed'
  BY <1>1 DEF QueueInv, FirstComeFirstServed, Ordered
<1>3. EchoesItsOwn'  BY DEF QueueInv, EchoesItsOwn
<1>4. ErrorsUndelivered'  BY DEF QueueInv, ErrorsUndelivered, Legible
<1>5. Adds' \subseteq Adds /\ Removals' \subseteq Removals /\ (Removing' <=> Removing)
      /\ Outstanding({"remove"})' = Outstanding({"remove"})
  BY DEF Adds, Removals, Removing, Outstanding
<1>6. RemovalsConfirmed'  BY <1>5 DEF QueueInv, RemovalsConfirmed
<1> QED  BY <1>2, <1>3, <1>4, <1>6 DEF QueueInv

\* A call that returns has its reply from its channel, if from anywhere.
LEMMA ReturnKeeps ==
  ASSUME CInv, QueueInv, NEW c \in Call, NEW how, NEW reply, NEW registered,
         Return(c, how, reply, registered), UNCHANGED cockpitVars,
         how = "replied" => reply \in Replied,
         how \notin {"replied", "timeout"} => child = "dead"
  PROVE  QueueInv'
<1>1. /\ DOMAIN pc = Call /\ DOMAIN outcome = Call /\ DOMAIN got = Call /\ DOMAIN chan = Call
  BY DEF CInv, IInv, ClientTypeOK
<1>2. /\ \A d \in Call : d # c => pc'[d] = pc[d] /\ chan'[d] = chan[d]
                              /\ outcome'[d] = outcome[d] /\ got'[d] = got[d]
      /\ pc'[c] = "returned" /\ chan'[c] = NoChan /\ outcome'[c] = how /\ got'[c] = reply
      /\ UNCHANGED <<id, nextID, reader, delivering, child, inbox, serving, wire>>
  BY <1>1 DEF Return, Goto, readerVars, serverVars
<1>3. Pending' = Pending  BY <1>2 DEF Pending
<1>4. Replied' \subseteq Replied
  <2> SUFFICES ASSUME NEW m \in Replied' PROVE m \in Replied  OBVIOUS
  <2>1. CASE m \in Range(wire)' \cup ({delivering} \ {NoMessage})'
    BY <1>2, <2>1 DEF Replied
  <2>2. CASE \E d \in Call : chan'[d].state = "replied" /\ m = chan'[d].reply
    BY <1>2, <2>2 DEF Replied, NoChan
  <2>3. CASE \E d \in Call : outcome'[d] = "replied" /\ m = got'[d]
    BY <1>2, <2>3 DEF Replied
  <2> QED  BY <2>1, <2>2, <2>3 DEF Replied
<1>5. FailsDead'
  BY <1>2 DEF QueueInv, FailsDead, NoChan
<1>6. Ordered'
  BY <1>2 DEF Ordered, QueueInv, FirstComeFirstServed
<1>7. 0 \notin delivered  BY QueueTypes
<1> QED
  BY <1>2, <1>3, <1>4, <1>5, <1>6, <1>7, NoMoreKeeps
     DEF cockpitVars, remoteVars, railVars, chatVars, QueueInv, FirstComeFirstServed

\* Every step of a call but the two that ask something.
LEMMA CallKeeps ==
  ASSUME CInv, QueueInv, NEW c \in Call, UNCHANGED cockpitVars,
         \/ QueueTimesOut(c) \/ WriteTimesOut(c) \/ WriteBegins(c) \/ WriteFails(c)
         \/ TakeReply(c) \/ FindClosed(c) \/ ReplyTimesOut(c)
  PROVE  QueueInv'
<1>1. CASE QueueTimesOut(c) \/ WriteTimesOut(c) \/ ReplyTimesOut(c)
  BY <1>1, ReturnKeeps DEF QueueTimesOut, WriteTimesOut, ReplyTimesOut
<1>2. CASE WriteFails(c)
  BY <1>2, ReturnKeeps DEF WriteFails
<1>3. CASE TakeReply(c)
  <2>1. chan[c].reply \in Replied
    BY <1>3 DEF TakeReply, Replied
  <2> QED  BY <1>3, <2>1, ReturnKeeps DEF TakeReply
<1>4. CASE FindClosed(c)
  BY <1>4, ReturnKeeps DEF FindClosed, QueueInv, FailsDead
<1>5. CASE WriteBegins(c)
  <2>1. /\ pc[c] = "registered" /\ pc' = [pc EXCEPT ![c] = "writing"]
        /\ UNCHANGED <<outcome, got, id, nextID, chan, delivering, child, inbox, serving, wire>>
    BY <1>5 DEF WriteBegins, At, Goto, readerVars, serverVars
  <2>2. \A d \in Call : d # c => pc'[d] = pc[d]
    BY <2>1 DEF CInv, IInv, ClientTypeOK
  <2>3. pc'[c] = "writing"
    BY <2>1 DEF CInv, IInv, ClientTypeOK
  <2>4. Pending' = Pending /\ Replied' = Replied /\ FailsDead' /\ Ordered'
    BY <2>1, <2>2, <2>3 DEF Pending, Replied, FailsDead, Ordered, QueueInv, FirstComeFirstServed
  <2>5. 0 \notin delivered  BY QueueTypes
  <2> QED
    BY <2>1, <2>2, <2>3, <2>4, <2>5, NoMoreKeeps
       DEF cockpitVars, remoteVars, railVars, chatVars, QueueInv, FirstComeFirstServed
<1> QED  BY <1>1, <1>2, <1>3, <1>4, <1>5

\* The reader passes replies on, and closes channels at the end of the stream.
LEMMA ReadsKeep ==
  ASSUME CInv, QueueInv, ReaderStep, UNCHANGED cockpitVars
  PROVE  QueueInv'
<1>1. UNCHANGED <<callVars, serverVars>> \/ ReadReply
  BY DEF ReaderStep, Deliver, ReadEOF
<1>2. UNCHANGED <<callVars, child, inbox, serving>>
  BY <1>1 DEF ReadReply, serverVars
<1>3. Pending' = Pending /\ Ordered'
  BY <1>2 DEF Pending, Ordered, QueueInv, FirstComeFirstServed
<1>4. Replied' \subseteq Replied /\ FailsDead'
  <2>1. CASE ReadReply
    <3>1. Head(wire) \in Range(wire) /\ Range(Tail(wire)) \subseteq Range(wire)
      BY <2>1, Ranges, QueueTypes DEF ReadReply
    <3>2. /\ wire' = Tail(wire) /\ delivering' \in {Head(wire), NoMessage}
          /\ UNCHANGED <<chan, got, outcome, pc, child>>
      BY <2>1 DEF ReadReply, callVars
    <3>3. FailsDead'  BY <3>2 DEF QueueInv, FailsDead
    <3> QED  BY <3>1, <3>2, <3>3 DEF Replied
  <2>2. CASE Deliver
    <3>1. /\ delivering # NoMessage /\ delivering' = NoMessage
          /\ UNCHANGED <<wire, got, outcome, pc, child>>
          /\ \A c \in Call : chan'[c] = chan[c] \/ chan'[c] = [state |-> "replied", reply |-> delivering]
      BY <2>2 DEF Deliver, callVars, serverVars
    <3>2. FailsDead'
      BY <3>1 DEF QueueInv, FailsDead
    <3>3. ASSUME NEW c \in Call, chan'[c].state = "replied" PROVE chan'[c].reply \in Replied
      BY <3>1, <3>3 DEF Replied
    <3>4. Replied' \subseteq Replied
      BY <3>1, <3>3 DEF Replied
    <3> QED  BY <3>2, <3>4
  <2>3. CASE ReadEOF
    <3>1. /\ child = "dead" /\ UNCHANGED <<wire, got, outcome, pc, child, delivering>>
          /\ chan' = [c \in Call |-> IF id[c] \in pend THEN [chan[c] EXCEPT !.state = "closed"] ELSE chan[c]]
      BY <2>3 DEF ReadEOF, callVars, serverVars
    <3>2. \A c \in Call : chan'[c] = chan[c] \/ chan'[c].state = "closed"
      BY <3>1 DEF CInv, IInv, ClientTypeOK
    <3>3. Replied' \subseteq Replied
      BY <3>1, <3>2 DEF Replied
    <3> QED  BY <3>1, <3>3 DEF FailsDead
  <2> QED  BY <2>1, <2>2, <2>3 DEF ReaderStep
<1>5. 0 \notin delivered  BY QueueTypes
<1> QED
  BY <1>2, <1>3, <1>4, <1>5, NoMoreKeeps
     DEF cockpitVars, remoteVars, railVars, chatVars, callVars, QueueInv, FirstComeFirstServed

\* The server takes the first request, or dies with all of them.
LEMMA MovesKeep ==
  ASSUME CInv, QueueInv, ServerMoves
  PROVE  QueueInv'
<1>1. UNCHANGED <<callVars, chan, delivering, wire, cockpitVars>>
  BY DEF ServerMoves, Serve, Die, readerVars
<1>2. Replied' = Replied  BY <1>1 DEF Replied, callVars
<1>3. 0 \notin delivered  BY QueueTypes
<1>4. CASE Serve
  <2>1. /\ serving = NoMessage /\ inbox # <<>> /\ serving' = Head(inbox) /\ inbox' = Tail(inbox)
        /\ child' = child
    BY <1>4 DEF Serve
  <2>2. Pending' \subseteq Pending
    BY <2>1, Ranges, QueueTypes DEF Pending
  <2>3. /\ Len(inbox) \in Nat /\ Len(inbox) >= 1 /\ Len(inbox') = Len(inbox) - 1
        /\ serving' = inbox[1] /\ \A i \in 1 .. Len(inbox') : inbox'[i] = inbox[i + 1]
    BY <2>1, QueueTypes
  <2>4. \A i, j \in 1 .. Len(inbox) : i < j => inbox[i].id < inbox[j].id
    BY DEF QueueInv, FirstComeFirstServed
  <2>5. \A i, j \in 1 .. Len(inbox') : i < j => inbox'[i].id < inbox'[j].id
    BY <2>3, <2>4
  <2>6. ASSUME NEW m \in Range(inbox') PROVE serving'.id < m.id
    <3>1. PICK i \in 1 .. Len(inbox') : m = inbox'[i]
      BY <2>1, <2>6, QueueTypes DEF Range
    <3>2. m = inbox[i + 1] /\ 1 \in 1 .. Len(inbox) /\ i + 1 \in 1 .. Len(inbox) /\ 1 < i + 1
      BY <2>3, <3>1
    <3> QED  BY <2>3, <2>4, <3>2
  <2>7. Ordered'  BY <2>5, <2>6 DEF Ordered
  <2>8. FailsDead'  BY <1>1, <2>1 DEF QueueInv, FailsDead, callVars
  <2> QED
    BY <1>1, <1>2, <1>3, <2>1, <2>2, <2>7, <2>8, NoMoreKeeps
       DEF cockpitVars, remoteVars, railVars, chatVars, callVars, QueueInv, FirstComeFirstServed
<1>5. CASE Die
  <2>1. inbox' = <<>> /\ serving' = NoMessage /\ child' = "dead"
    BY <1>5 DEF Die
  <2>2. Pending' = {} /\ Ordered'
    BY <2>1, Ranges DEF Pending, Ordered, Range
  <2>3. FailsDead'  BY <2>1 DEF FailsDead
  <2> QED
    BY <1>1, <1>2, <1>3, <2>1, <2>2, <2>3, NoMoreKeeps
       DEF cockpitVars, remoteVars, railVars, chatVars, callVars
<1> QED  BY <1>4, <1>5 DEF ServerMoves

\* A key that starts nothing.
LEMMA KeysKeep ==
  ASSUME CInv, QueueInv, PressNew \/ Cancel \/ StartComposing \/ Esc \/ MentionRefused
  PROVE  QueueInv'
<1>1. UNCHANGED <<clientVars, want, delivered, garbled, confirmed, opsTarget, opsCheck>>
      /\ mode' \in {mode, "adding", "idle"} /\ sent' \in {0, sent}
      /\ (send' = "failed" => sent' = 0 \/ (send' = send /\ sent' = sent))
  BY DEF PressNew, Cancel, StartComposing, Esc, MentionRefused, remoteVars, railVars, chatVars
<1>2. Pending' = Pending /\ Replied' = Replied /\ Ordered' /\ FailsDead'
  BY <1>1 DEF Pending, Replied, Ordered, FailsDead, QueueInv, FirstComeFirstServed, clientVars, callVars,
     readerVars, serverVars
<1>3. 0 \notin delivered  BY QueueTypes
<1> QED
  BY <1>1, <1>2, <1>3, NoMoreKeeps DEF QueueInv, FirstComeFirstServed, clientVars, callVars, serverVars

\* A turn moves callers that are not under way, and who has an id keeps its purpose.
LEMMA TurnCallers ==
  ASSUME CInv, NEW done \in SUBSET Call, NEW commands \in SUBSET Request, Run(done, commands)
  PROVE  /\ UNCHANGED <<nextID, chan, delivering, child, inbox, serving, wire>>
         /\ \A c \in done : pc[c] = "returned"
         /\ \A c \in Call :
              /\ pc'[c] \in {"registered", "writing", "returned"} =>
                   pc'[c] = pc[c] /\ id'[c] = id[c] /\ outcome'[c] = outcome[c]
              /\ outcome'[c] = "replied" => outcome[c] = "replied" /\ got'[c] = got[c]
              /\ id'[c] # 0 => id'[c] = id[c] /\ want'[c] = want[c]
              /\ want'[c].what = "remove" => want'[c] = want[c] \/ want'[c] \in commands
<1>1. PICK f \in [commands -> Call] :
        /\ \A r, q \in commands : f[r] = f[q] => r = q
        /\ \A r \in commands : want'[f[r]] = r /\ (want[f[r]] = Nothing \/ f[r] \in done)
        /\ \A c \in Call : (\A r \in commands : f[r] # c) =>
                             want'[c] = IF c \in done THEN Nothing ELSE want[c]
        /\ Callers(done, {f[r] : r \in commands})
        /\ want' \in [Call -> Request \cup {Nothing}]
  BY RunSpawns, Zenon DEF CInv
<1> DEFINE new == {f[r] : r \in commands}
<1>2. /\ UNCHANGED <<nextID, chan, delivering, child, inbox, serving, wire>>
      /\ \A c \in done : pc[c] = "returned"
      /\ \A c \in new \ done : pc[c] = "idle"
      /\ \A c \in Call :
           /\ pc'[c] = IF c \in new THEN "queued" ELSE IF c \in done THEN "idle" ELSE pc[c]
           /\ id'[c] = IF c \in done THEN 0 ELSE id[c]
           /\ outcome'[c] = IF c \in done THEN "none" ELSE outcome[c]
           /\ got'[c] = IF c \in done THEN NoMessage ELSE got[c]
  BY <1>1 DEF Callers, At, readerVars, serverVars
<1>3. ASSUME NEW c \in Call, id'[c] # 0 PROVE id'[c] = id[c] /\ want'[c] = want[c]
  <2>1. c \notin done /\ id'[c] = id[c]
    BY <1>2, <1>3
  <2>2. c \notin new
    BY <1>2, <1>3, <2>1 DEF CInv, IInv, IdsFresh
  <2> QED  BY <1>1, <2>1, <2>2
<1>4. ASSUME NEW c \in Call, want'[c].what = "remove" PROVE want'[c] = want[c] \/ want'[c] \in commands
  <2>1. CASE c \in new
    BY <1>1, <2>1
  <2>2. CASE c \notin new
    BY <1>1, <1>4, <2>2 DEF Nothing
  <2> QED  BY <2>1, <2>2
<1>5. ASSUME NEW c \in Call
      PROVE  /\ pc'[c] \in {"registered", "writing", "returned"} =>
                   pc'[c] = pc[c] /\ id'[c] = id[c] /\ outcome'[c] = outcome[c]
             /\ outcome'[c] = "replied" => outcome[c] = "replied" /\ got'[c] = got[c]
  BY <1>2
<1> QED  BY <1>2, <1>3, <1>4, <1>5

\* An error that a call returned is that of a message never delivered or legibly answered, or the
\* server died.
LEMMA ErrorsAre ==
  ASSUME CInv, QueueInv, NEW c \in Call, pc[c] = "returned", Result(c) = "error"
  PROVE  \/ child = "dead"
         \/ id[c] # 0 /\ id[c] \in Answered /\ id[c] \notin Legible
<1>1. CASE outcome[c] = "replied"
  <2>1. got[c] \in Replied /\ got[c].id = id[c] /\ got[c].body.how \in {"error", "garbled"}
    BY <1>1 DEF Replied, Result, CInv, IInv, ChannelsOwn
  <2>2. got[c].id # 0
    BY <2>1, QueueTypes
  <2> QED  BY <2>1, <2>2 DEF Answered, QueueInv, ErrorsUndelivered
<1>2. CASE outcome[c] # "replied"
  BY <1>2 DEF Result, QueueInv, FailsDead
<1> QED  BY <1>1, <1>2

LEMMA TurnKeeps ==
  ASSUME CInv, QueueInv, NEW done \in SUBSET Call, NEW commands \in SUBSET Request, Run(done, commands),
         UNCHANGED <<delivered, garbled>>, confirmed \subseteq confirmed',
         \A r \in commands : r.what = "remove" => mode = "confirm" /\ r.session \in confirmed',
         \/ mode' # "confirm"
         \/ mode = "confirm" /\ UNCHANGED <<opsCheck, opsTarget>>
         \/ Adds = {} /\ opsCheck'.session = opsTarget',
         \/ sent' = 0
         \/ sent' = sent /\ send' = send
         \/ \E c \in done : sent' = id[c] /\ Result(c) = "error"
  PROVE  QueueInv'
<1>1. /\ UNCHANGED <<nextID, chan, delivering, child, inbox, serving, wire>>
      /\ \A c \in done : pc[c] = "returned"
      /\ \A c \in Call :
           /\ pc'[c] \in {"registered", "writing", "returned"} =>
                pc'[c] = pc[c] /\ id'[c] = id[c] /\ outcome'[c] = outcome[c]
           /\ outcome'[c] = "replied" => outcome[c] = "replied" /\ got'[c] = got[c]
           /\ id'[c] # 0 => id'[c] = id[c] /\ want'[c] = want[c]
           /\ want'[c].what = "remove" => want'[c] = want[c] \/ want'[c] \in commands
  BY TurnCallers
<1>2. Pending' = Pending  BY <1>1 DEF Pending
<1>3. Replied' \subseteq Replied
  BY <1>1 DEF Replied
<1>4. /\ \/ sent' \in Answered \cup {0}
         \/ child = "dead" /\ \E c \in Call : sent' = id[c] /\ pc[c] = "returned"
      /\ send' = "failed" => \/ child = "dead" \/ sent' = 0 \/ sent' \notin Legible
  <2>1. CASE sent' = 0  BY <2>1
  <2>2. CASE sent' = sent /\ send' = send
    BY <2>2 DEF Answered, QueueInv, ErrorsUndelivered, Legible
  <2>3. ASSUME NEW c \in done, sent' = id[c], Result(c) = "error"
        PROVE  \/ child = "dead" /\ pc[c] = "returned"
               \/ sent' \in Answered /\ sent' \notin Legible
    BY <1>1, <2>3, ErrorsAre
  <2> QED  BY <2>1, <2>2, <2>3
<1>5. ASSUME NEW i \in Answered' PROVE i \in Answered \/ (i = sent' /\ i # 0)
  BY <1>3, <1>5 DEF Answered
<1>6. FirstComeFirstServed'
  <2>1. child' = "dead" => Pending' = {}
    BY <1>1, <1>2 DEF QueueInv, FirstComeFirstServed
  <2>2. Ordered'
    BY <1>1 DEF Ordered, QueueInv, FirstComeFirstServed
  <2>3. \A m \in Pending' : m.id <= nextID' /\ \A i \in Answered' : i < m.id
    BY <1>1, <1>2, <1>4, <1>5 DEF QueueInv, FirstComeFirstServed
  <2>4. \A i \in Answered' : i <= nextID'
    BY <1>1, <1>4, <1>5 DEF QueueInv, FirstComeFirstServed, CInv, IInv, IdsFresh
  <2>5. ASSUME NEW c \in Call, pc'[c] \in {"registered", "writing"}
        PROVE  id'[c] = nextID' /\ nextID' \notin Answered' /\ \A m \in Pending' : m.id # nextID'
    <3>1. pc[c] \in {"registered", "writing"} /\ id'[c] = id[c]
      BY <1>1, <2>5
    <3>2. id[c] = nextID /\ nextID \notin Answered /\ \A m \in Pending : m.id # nextID
      BY <3>1 DEF QueueInv, FirstComeFirstServed
    <3>3. ASSUME NEW d \in Call, id[d] = nextID PROVE pc[d] # "returned"
      BY <3>1, <3>2, <3>3 DEF CInv, IInv, IdsFresh, Active
    <3>4. nextID # 0
      BY <3>1, <3>2 DEF CInv, IInv, IdsFresh, Active
    <3> QED  BY <1>1, <1>2, <1>4, <1>5, <3>1, <3>2, <3>3, <3>4
  <2> QED  BY <2>1, <2>2, <2>3, <2>4, <2>5 DEF FirstComeFirstServed, Ordered
<1>7. EchoesItsOwn'
  BY <1>1, <1>2, <1>3 DEF QueueInv, EchoesItsOwn
<1>8. FailsDead'
  BY <1>1 DEF QueueInv, FailsDead
<1>9. ErrorsUndelivered'
  <2>1. 0 \notin delivered  BY QueueTypes
  <2> QED  BY <1>1, <1>3, <1>4, <2>1 DEF QueueInv, ErrorsUndelivered, Legible
<1>10. RemovalsConfirmed'
  <2>1. Adds' = Adds /\ Removals' = Removals
    BY <1>2 DEF Adds, Removals
  <2>2. ASSUME NEW c \in Outstanding({"remove"})'
        PROVE  \/ c \in Outstanding({"remove"}) /\ want'[c] = want[c]
               \/ mode = "confirm" /\ want'[c].session \in confirmed'
    BY <1>1, <2>2 DEF Outstanding
  <2>3. mode' = "confirm" \/ Removing' => Adds' = {}
    BY <2>1, <2>2 DEF QueueInv, RemovalsConfirmed, Removing
  <2>4. \A c \in Outstanding({"remove"})' : want'[c].session \in confirmed'
    BY <2>2 DEF QueueInv, RemovalsConfirmed
  <2>5. mode' = "confirm" => opsCheck'.session = opsTarget'
    BY DEF QueueInv, RemovalsConfirmed
  <2>6. \A m \in Removals' : m.body.session \in confirmed'
    BY <2>1 DEF QueueInv, RemovalsConfirmed
  <2>7. \A c \in Call : want'[c].what \in Op /\ id'[c] # 0 =>
          \A m \in Pending' : m.body.what \in Op => m.id <= id'[c]
    BY <1>1, <1>2 DEF QueueInv, RemovalsConfirmed
  <2>8. \A m \in Adds', n \in Removals' : n.id < m.id
    BY <2>1 DEF QueueInv, RemovalsConfirmed
  <2> QED  BY <2>3, <2>4, <2>5, <2>6, <2>7, <2>8 DEF RemovalsConfirmed
<1> QED  BY <1>6, <1>7, <1>8, <1>9, <1>10 DEF QueueInv

\* A call that registers has an id nobody has seen.
LEMMA RegisterKeeps ==
  ASSUME CInv, QueueInv, NEW c \in Call, Register(c), UNCHANGED cockpitVars
  PROVE  QueueInv'
<1>1. /\ pc[c] = "queued" /\ sem = NoCall /\ nextID' = nextID + 1
      /\ pc' = [pc EXCEPT ![c] = "registered"] /\ id' = [id EXCEPT ![c] = nextID']
      /\ chan' = [chan EXCEPT ![c] = Open]
      /\ UNCHANGED <<outcome, got, delivering, child, inbox, serving, wire>>
  BY DEF Register, At, Goto, readerVars, serverVars
<1>2. DOMAIN pc = Call /\ DOMAIN id = Call /\ DOMAIN chan = Call
  BY DEF CInv, IInv, ClientTypeOK
<1>3. /\ \A d \in Call : d # c => pc'[d] = pc[d] /\ id'[d] = id[d] /\ chan'[d] = chan[d]
      /\ pc'[c] = "registered" /\ id'[c] = nextID' /\ chan'[c] = Open
  BY <1>1, <1>2
<1>4. UNCHANGED <<want, delivered, garbled, confirmed, mode, opsTarget, opsCheck, send, sent>>
  BY DEF cockpitVars, remoteVars, railVars, chatVars
<1>5. Pending' = Pending  BY <1>1 DEF Pending
<1>6. Replied' \subseteq Replied
  BY <1>1, <1>3 DEF Replied, Open
<1>7. Answered' \subseteq Answered  BY <1>4, <1>6 DEF Answered
<1>8. \A d \in Call : pc[d] \notin {"registered", "writing"}
  BY <1>1, ClientAssumption DEF CInv, IInv, SlotHeld, Active
<1>9. /\ nextID \in Nat /\ \A m \in Pending : m.id \in Nat /\ m.id <= nextID
      /\ \A i \in Answered : i \in Nat /\ i <= nextID
  BY QueueTypes DEF QueueInv, FirstComeFirstServed
<1>10. FirstComeFirstServed'
  <2>1. \A m \in Pending' : m.id <= nextID' /\ m.id # nextID'
    BY <1>1, <1>5, <1>9
  <2>2. \A i \in Answered' : i <= nextID' /\ i # nextID'
    BY <1>1, <1>7, <1>9
  <2>3. \A d \in Call : pc'[d] \in {"registered", "writing"} => d = c
    BY <1>3, <1>8
  <2> QED
    BY <1>1, <1>3, <1>5, <1>7, <2>1, <2>2, <2>3 DEF QueueInv, FirstComeFirstServed
<1>11. EchoesItsOwn'
  <2>1. \A m \in Pending : m.id # nextID'
    BY <1>1, <1>9
  <2>2. \A m \in Replied' : m.id # nextID'
    BY <1>1, <1>6, <1>9 DEF Answered
  <2> QED  BY <1>3, <1>4, <1>5, <1>6, <2>1, <2>2 DEF QueueInv, EchoesItsOwn
<1>12. FailsDead'
  BY <1>1, <1>3 DEF QueueInv, FailsDead, Open
<1>13. ErrorsUndelivered'
  BY <1>1, <1>4, <1>6 DEF QueueInv, ErrorsUndelivered, Legible
<1>14. RemovalsConfirmed'
  <2>1. Adds' = Adds /\ Removals' = Removals /\ Outstanding({"remove"})' = Outstanding({"remove"})
    BY <1>4, <1>5 DEF Adds, Removals, Outstanding
  <2>2. \A d \in Call : want'[d].what \in Op /\ id'[d] # 0 =>
          \A m \in Pending' : m.body.what \in Op => m.id <= id'[d]
    <3>1. \A m \in Pending : m.id <= nextID'
      BY <1>1, <1>9
    <3> QED  BY <1>3, <1>4, <1>5, <3>1 DEF QueueInv, RemovalsConfirmed
  <2> QED  BY <1>4, <2>1, <2>2 DEF QueueInv, RemovalsConfirmed, Removing
<1> QED  BY <1>10, <1>11, <1>12, <1>13, <1>14 DEF QueueInv

\* A request goes behind all the others, and asks what its call was started for.
LEMMA WriteKeeps ==
  ASSUME CInv, QueueInv, NEW c \in Call, WriteEnds(c, want[c]), UNCHANGED cockpitVars
  PROVE  QueueInv'
<1> DEFINE new == [id |-> id[c], body |-> want[c]]
<1>1. /\ pc[c] = "writing" /\ pc' = [pc EXCEPT ![c] = "waiting"] /\ child # "dead"
      /\ inbox' = Append(inbox, new)
      /\ UNCHANGED <<outcome, got, id, nextID, chan, delivering, child, serving, wire>>
  BY DEF WriteEnds, At, Goto, readerVars
<1>2. \A d \in Call : d # c => pc'[d] = pc[d]
  BY <1>1 DEF CInv, IInv, ClientTypeOK
<1>3. pc'[c] = "waiting"
  BY <1>1 DEF CInv, IInv, ClientTypeOK
<1>4. UNCHANGED <<want, delivered, garbled, confirmed, mode, opsTarget, opsCheck, send, sent>>
  BY DEF cockpitVars, remoteVars, railVars, chatVars
<1>5. new \in Asks
  <2>1. id[c] \in Id
    BY <1>1 DEF CInv, IInv, ClientTypeOK, IdsFresh, Active
  <2>2. want[c] \in Request
    BY <1>1 DEF CInv, Wanted
  <2> QED  BY <2>1, <2>2 DEF Asks
<1>6. Range(inbox') = Range(inbox) \cup {new} /\ Pending' = Pending \cup {new}
  <2>1. Range(inbox') = Range(inbox) \cup {new}
    BY <1>1, <1>5, Ranges, QueueTypes
  <2> QED  BY <1>1, <2>1 DEF Pending
<1>7. Replied' = Replied /\ Answered' = Answered
  <2>1. Replied' = Replied  BY <1>1 DEF Replied
  <2> QED  BY <1>4, <2>1 DEF Answered
<1>8. new.id = id[c] /\ new.body = want[c] /\ id[c] = nextID /\ nextID # 0
  BY <1>1 DEF QueueInv, FirstComeFirstServed, CInv, IInv, IdsFresh, Active
<1>9. /\ \A m \in Pending : m.id < nextID
      /\ \A i \in Answered : i < nextID
  <2>1. /\ \A m \in Pending : m.id <= nextID /\ m.id # nextID
        /\ \A i \in Answered : i <= nextID /\ i # nextID
    BY <1>1 DEF QueueInv, FirstComeFirstServed
  <2>2. /\ \A m \in Pending : m.id \in Nat
        /\ nextID \in Nat /\ Answered \subseteq Nat
    BY QueueTypes
  <2> QED  BY <2>1, <2>2
<1>10. \A d \in Call : d # c => pc[d] \notin {"registered", "writing"}
  BY <1>1 DEF CInv, IInv, SlotHeld, Active
<1>11. FirstComeFirstServed'
  <2>1. \A i, j \in 1 .. Len(inbox') : i < j => inbox'[i].id < inbox'[j].id
    <3>1. /\ Len(inbox) \in Nat /\ Len(inbox') = Len(inbox) + 1
          /\ inbox'[Len(inbox) + 1] = new /\ \A i \in 1 .. Len(inbox) : inbox'[i] = inbox[i]
      BY <1>1, <1>5, QueueTypes
    <3>2. \A i \in 1 .. Len(inbox) : inbox[i].id < nextID
      <4>1. \A i \in 1 .. Len(inbox) : inbox[i] \in Pending
        BY QueueTypes DEF Pending, Range
      <4> QED  BY <1>9, <4>1
    <3>3. \A i, j \in 1 .. Len(inbox) : i < j => inbox[i].id < inbox[j].id
      BY DEF QueueInv, FirstComeFirstServed
    <3> SUFFICES ASSUME NEW i \in 1 .. Len(inbox'), NEW j \in 1 .. Len(inbox'), i < j
                 PROVE  inbox'[i].id < inbox'[j].id
      OBVIOUS
    <3>4. i \in 1 .. Len(inbox)
      BY <3>1
    <3>5. CASE j = Len(inbox) + 1
      BY <1>8, <3>1, <3>2, <3>4, <3>5
    <3>6. CASE j # Len(inbox) + 1
      <4>1. j \in 1 .. Len(inbox)
        BY <3>1, <3>6
      <4> QED  BY <3>1, <3>3, <3>4, <4>1
    <3> QED  BY <3>5, <3>6
  <2>2. serving' # NoMessage => \A m \in Range(inbox') : serving'.id < m.id
    <3>1. serving # NoMessage => serving.id < nextID
      BY <1>9 DEF Pending
    <3> QED  BY <1>1, <1>6, <1>8, <3>1 DEF QueueInv, FirstComeFirstServed
  <2>3. \A m \in Pending' : m.id <= nextID' /\ \A i \in Answered' : i < m.id
    <3>1. new.id <= nextID
      BY <1>8, QueueTypes
    <3> QED  BY <1>1, <1>6, <1>7, <1>8, <1>9, <3>1 DEF QueueInv, FirstComeFirstServed
  <2>4. \A d \in Call : pc'[d] \notin {"registered", "writing"}
    BY <1>2, <1>3, <1>10
  <2>5. \A i \in Answered' : i <= nextID'
    BY <1>1, <1>7 DEF QueueInv, FirstComeFirstServed
  <2> QED  BY <1>1, <2>1, <2>2, <2>3, <2>4, <2>5 DEF FirstComeFirstServed
<1>12. EchoesItsOwn'
  <2>1. \A d \in Call : id[d] = new.id => d = c
    BY <1>8 DEF CInv, IInv, IdsFresh
  <2> QED  BY <1>1, <1>4, <1>6, <1>7, <1>8, <2>1 DEF QueueInv, EchoesItsOwn
<1>13. FailsDead'
  BY <1>1, <1>2, <1>3 DEF QueueInv, FailsDead
<1>14. ErrorsUndelivered'
  BY <1>1, <1>4, <1>7 DEF QueueInv, ErrorsUndelivered, Legible
<1>15. RemovalsConfirmed'
  <2>1. \A d \in Call : want[c].what \in Op /\ want[d].what \in Op => d = c
    BY DEF CInv, Flags, DialogFlag, One, None, Outstanding
  <2>2. mode = "confirm" => want[c].what \notin Op
    BY DEF CInv, Flags, DialogFlag, None, Outstanding
  <2>3. Outstanding({"remove"})' = Outstanding({"remove"})
    BY <1>4 DEF Outstanding
  <2>4. \A d \in Call : want'[d].what \in Op /\ id'[d] # 0 =>
          \A m \in Pending' : m.body.what \in Op => m.id <= id'[d]
    <3>1. id[c] <= id[c]
      BY QueueTypes
    <3> QED  BY <1>1, <1>4, <1>6, <1>8, <2>1, <3>1 DEF QueueInv, RemovalsConfirmed
  <2>5. mode' = "confirm" \/ Removing' => Adds' = {} /\ Adds = {}
    <3>1. mode = "confirm" \/ Removing => want[c].what # "add"
      BY <2>1, <2>2 DEF Removing, Outstanding, Op
    <3> QED  BY <1>4, <1>6, <1>8, <2>3, <3>1 DEF Adds, Removing, QueueInv, RemovalsConfirmed
  <2>6. want[c].what = "remove" => Removing /\ want[c].session \in confirmed
    BY DEF Removing, Outstanding, QueueInv, RemovalsConfirmed
  <2>7. \A m \in Adds', n \in Removals' : n.id < m.id
    <3> SUFFICES ASSUME NEW m \in Adds', NEW n \in Removals' PROVE n.id < m.id
      OBVIOUS
    <3>1. want[c].what # "remove"
      BY <1>4, <2>3, <2>5, <2>6 DEF Removing
    <3>2. n \in Removals
      BY <1>6, <1>8, <3>1 DEF Removals
    <3>3. CASE m = new
      BY <1>8, <1>9, <3>2, <3>3 DEF Removals
    <3>4. CASE m # new
      BY <1>6, <3>2, <3>4 DEF Adds, QueueInv, RemovalsConfirmed
    <3> QED  BY <3>3, <3>4
  <2>8. \A m \in Removals' : m.body.session \in confirmed'
    BY <1>4, <1>6, <1>8, <2>6 DEF Removals, QueueInv, RemovalsConfirmed
  <2>9. (\A d \in Outstanding({"remove"})' : want'[d].session \in confirmed')
        /\ (mode' = "confirm" => opsCheck'.session = opsTarget')
    BY <1>4, <2>3 DEF QueueInv, RemovalsConfirmed
  <2> QED  BY <2>4, <2>5, <2>7, <2>8, <2>9 DEF RemovalsConfirmed
<1> QED  BY <1>11, <1>12, <1>13, <1>14, <1>15 DEF QueueInv

\* The server answers the oldest request, and only an add takes a confirmation back.
LEMMA AnswerKeeps ==
  ASSUME CInv, QueueInv, NEW how \in {"ok", "error", "unknown", "garbled"}, NEW safe, NEW sessions,
         Answers(how, safe, sessions),
         delivered' \in {delivered, delivered \cup {serving.id}}, garbled \subseteq garbled',
         how \in {"error", "garbled"} => Legible' \subseteq Legible,
         UNCHANGED confirmed \/ serving.body.what = "add"
  PROVE  QueueInv'
<1> DEFINE body == [how |-> how, session |-> serving.body.session, safe |-> safe, sessions |-> sessions]
           new  == [id |-> serving.id, body |-> body]
<1>1. /\ serving # NoMessage /\ serving' = NoMessage /\ wire' = Append(wire, new)
      /\ UNCHANGED <<callVars, chan, delivering, child, inbox>>
  BY DEF Answers, Answer, readerVars
<1>2. UNCHANGED <<want, mode, opsTarget, opsCheck, send, sent>>
  BY DEF Answers, railVars, chatVars
<1>3. serving \in Pending /\ serving.id \in Nat /\ serving.id # 0
  <2>1. serving \in Pending  BY <1>1 DEF Pending
  <2> QED  BY <2>1, QueueTypes
<1>4. Pending' \subseteq Pending /\ \A m \in Pending' : serving.id < m.id
  BY <1>1 DEF Pending, QueueInv, FirstComeFirstServed
<1>5. Replied' = Replied \cup {new}
  <2>1. Range(wire') = Range(wire) \cup {new}
    <3> DEFINE Any == Range(wire) \cup {new}
    <3>1. wire \in Seq(Any)
      BY QueueTypes DEF Range
    <3> QED  BY <1>1, <3>1, Ranges
  <2> QED  BY <1>1, <2>1 DEF Replied, callVars
<1>6. Answered' \subseteq Answered \cup {serving.id}
  BY <1>2, <1>5 DEF Answered
<1>7. \A i \in Answered : i < serving.id
  BY <1>3 DEF QueueInv, FirstComeFirstServed
<1>8. serving.id \notin delivered /\ serving.id # sent /\ \A m \in Replied : m.id # serving.id
  <2>1. serving.id \notin Answered
    BY <1>3, <1>7
  <2> QED  BY <1>3, <2>1 DEF Answered
<1>9. FirstComeFirstServed'
  <2>1. \A m \in Pending' : m.id <= nextID' /\ \A i \in Answered' : i < m.id
    BY <1>1, <1>4, <1>6 DEF QueueInv, FirstComeFirstServed, callVars
  <2>2. \A i \in Answered' : i <= nextID'
    BY <1>1, <1>3, <1>6 DEF QueueInv, FirstComeFirstServed, callVars
  <2>3. \A c \in Call : pc'[c] \in {"registered", "writing"} =>
          id'[c] = nextID' /\ nextID' \notin Answered' /\ \A m \in Pending' : m.id # nextID'
    BY <1>1, <1>3, <1>4, <1>6 DEF QueueInv, FirstComeFirstServed, callVars
  <2>4. child' = "dead" => Pending' = {}
    BY <1>1, <1>4 DEF QueueInv, FirstComeFirstServed
  <2> QED
    BY <1>1, <2>1, <2>2, <2>3, <2>4 DEF QueueInv, FirstComeFirstServed
<1>10. EchoesItsOwn'
  BY <1>1, <1>2, <1>3, <1>4, <1>5 DEF QueueInv, EchoesItsOwn, callVars
<1>11. FailsDead'
  BY <1>1 DEF QueueInv, FailsDead, callVars
<1>12. ErrorsUndelivered'
  BY <1>1, <1>2, <1>5, <1>8 DEF QueueInv, ErrorsUndelivered, Legible
<1>13. RemovalsConfirmed'
  <2>1. Adds' \subseteq Adds /\ Removals' \subseteq Removals /\ Outstanding({"remove"})' = Outstanding({"remove"})
    BY <1>2, <1>4 DEF Adds, Removals, Outstanding
  <2>2. serving.body.what = "add" => Removals' = {} /\ ~Removing
    <3>1. ASSUME serving.body.what = "add", NEW n \in Removals' PROVE FALSE
      <4>1. n.id < serving.id /\ serving.id < n.id
        BY <1>3, <1>4, <2>1, <3>1 DEF Adds, Removals, QueueInv, RemovalsConfirmed
      <4>2. n.id \in Nat
        BY <2>1, QueueTypes DEF Removals
      <4> QED  BY <1>3, <4>1, <4>2
    <3>2. serving.body.what = "add" => ~Removing
      BY <1>3 DEF Adds, QueueInv, RemovalsConfirmed
    <3> QED  BY <3>1, <3>2
  <2>3. \A m \in Removals' : m.body.session \in confirmed'
    BY <2>1, <2>2 DEF QueueInv, RemovalsConfirmed
  <2>4. \A c \in Outstanding({"remove"})' : want'[c].session \in confirmed'
    BY <1>2, <2>1, <2>2 DEF Removing, QueueInv, RemovalsConfirmed
  <2>5. \A c \in Call : want'[c].what \in Op /\ id'[c] # 0 =>
          \A m \in Pending' : m.body.what \in Op => m.id <= id'[c]
    BY <1>1, <1>2, <1>4 DEF QueueInv, RemovalsConfirmed, callVars
  <2> QED
    BY <1>2, <2>1, <2>3, <2>4, <2>5 DEF Removing, QueueInv, RemovalsConfirmed
<1> QED  BY <1>9, <1>10, <1>11, <1>12, <1>13 DEF QueueInv

\* A check that arrives names the session it was asked about, and no add is pending: one
\* would have been asked for before it.
LEMMA CheckedAfterAdds ==
  ASSUME CInv, QueueInv, NEW c \in Call, Back(c, "check"), Result(c) = "ok"
  PROVE  Adds = {} /\ got[c].body.session = want[c].session
<1>1. got[c] \in Replied /\ got[c].id = id[c]
  BY DEF Result, Replied, CInv, IInv, ChannelsOwn
<1>2. id[c] # 0 /\ id[c] \in Answered /\ id[c] \in Nat
  <2>1. got[c].id # 0 /\ got[c].id \in Nat
    BY <1>1, QueueTypes
  <2> QED  BY <1>1, <2>1 DEF Answered
<1>3. ASSUME NEW m \in Adds PROVE FALSE
  <2>1. m \in Pending /\ m.body.what \in Op /\ want[c].what \in Op
    BY <1>3 DEF Adds, Op, Back
  <2>2. m.id <= id[c] /\ id[c] < m.id
    BY <1>2, <2>1 DEF QueueInv, RemovalsConfirmed, FirstComeFirstServed
  <2>3. m.id \in Nat
    BY <2>1, QueueTypes
  <2> QED  BY <1>2, <2>2, <2>3
<1>4. got[c].body.session = want[c].session
  BY <1>1, <1>2 DEF QueueInv, EchoesItsOwn
<1> QED  BY <1>3, <1>4

\* A turn that starts fetches only.
LEMMA FetchesKeep ==
  ASSUME CInv, QueueInv, NEW done \in SUBSET Call, NEW panes \in SUBSET Fetch, Run(done, Commands(panes)),
         UNCHANGED <<delivered, garbled, confirmed, opsCheck, opsTarget, send, sent>>,
         mode' = mode \/ mode' = "idle"
  PROVE  QueueInv'
<1>1. Commands(panes) \in SUBSET Request
  BY FetchCommands
<1>2. \A r \in Commands(panes) : r.what # "remove"
  BY DEF Commands, Ask, Fetch
<1> QED  BY <1>1, <1>2, TurnKeeps

LEMMA TurnsKeep ==
  ASSUME CInv, QueueInv,
         \/ Tickers \/ PressYes \/ TrySend
         \/ \E s \in Session : EnterName(s) \/ PressRemove(s)
         \/ \E c \in Call : Arrives(c)
  PROVE  QueueInv'
<1>1. /\ {} \in SUBSET Call /\ {} \in SUBSET Request /\ \A c \in Call : {c} \in SUBSET Call
      /\ DoFetchAll \in SUBSET Fetch /\ \A panes : Due(panes) = panes \ inflight
  BY DEF DoFetchAll, Due, Fetch
<1>2. CASE Tickers
  <2>1. \E panes \in SUBSET Fetch : Run({}, Commands(panes))
    <3>1. {"people"} \in SUBSET Fetch /\ Due(DoFetchAll) \in SUBSET Fetch
      BY <1>1 DEF Fetch
    <3> QED  BY <1>2, <3>1 DEF Tickers, Refresh, ParticipantsTick
  <2>2. UNCHANGED <<delivered, garbled, confirmed, mode, opsCheck, opsTarget, send, sent>>
    BY <1>2 DEF Tickers, Refresh, ParticipantsTick, remoteVars, chatVars
  <2> QED  BY <1>1, <2>1, <2>2, FetchesKeep
<1>3. ASSUME NEW s \in Session, EnterName(s) \/ PressRemove(s) PROVE QueueInv'
  <2>1. PICK what \in {"add", "check"} :
          /\ Run({}, {Ask(what, s)}) /\ mode' = "busy"
          /\ UNCHANGED <<remoteVars, confirmed, chatVars>>
    BY <1>3 DEF EnterName, PressRemove
  <2>2. {Ask(what, s)} \in SUBSET Request /\ \A r \in {Ask(what, s)} : r.what # "remove"
    BY <2>1 DEF Ask, Request, Op
  <2> QED  BY <1>1, <2>1, <2>2, TurnKeeps DEF remoteVars, chatVars
<1>4. CASE PressYes
  <2>1. /\ mode = "confirm" /\ mode' = "busy" /\ Run({}, {Ask("remove", opsTarget)})
        /\ confirmed' = confirmed \cup {opsCheck.session}
        /\ UNCHANGED <<delivered, garbled, send, sent>>
    BY <1>4 DEF PressYes, remoteVars, chatVars
  <2>2. opsTarget \in Session /\ opsCheck.session = opsTarget
    BY <2>1 DEF CInv, PaneTypes, QueueInv, RemovalsConfirmed
  <2>3. /\ {Ask("remove", opsTarget)} \in SUBSET Request
        /\ \A r \in {Ask("remove", opsTarget)} : r.session \in confirmed'
    BY <2>1, <2>2 DEF Ask, Request, Op
  <2> QED  BY <1>1, <2>1, <2>3, TurnKeeps
<1>5. CASE TrySend
  <2>1. /\ Run({}, {Ask("send", NoSession)}) /\ sent' = 0
        /\ UNCHANGED <<delivered, garbled, confirmed, mode, opsCheck, opsTarget>>
    BY <1>5 DEF TrySend, remoteVars, railVars
  <2>2. {Ask("send", NoSession)} \in SUBSET Request /\ \A r \in {Ask("send", NoSession)} : r.what # "remove"
    BY RequestFacts
  <2> QED  BY <1>1, <2>1, <2>2, TurnKeeps
<1>6. ASSUME NEW c \in Call, Arrives(c) PROVE QueueInv'
  <2>1. CASE SessionsArrive(c) \/ SessionsFail(c) \/ LanesArrive(c) \/ PeopleArrive(c)
             \/ OpDone(c) \/ CheckFails(c)
    <3>1. \E panes \in SUBSET Fetch : Run({c}, Commands(panes))
      <4>1. {} \in SUBSET Fetch /\ Due(DoFetchAll) \in SUBSET Fetch /\ {"lanes"} \ inflight \in SUBSET Fetch
        BY <1>1 DEF Fetch
      <4> QED
        BY <2>1, <4>1, NoCommands DEF SessionsArrive, SessionsFail, LanesArrive, PeopleArrive, OpDone, CheckFails
    <3>2. /\ UNCHANGED <<delivered, garbled, confirmed, opsCheck, opsTarget, send, sent>>
          /\ mode' = mode \/ mode' = "idle"
      BY <2>1 DEF SessionsArrive, SessionsFail, LanesArrive, PeopleArrive, OpDone, CheckFails,
         remoteVars, chatVars
    <3> QED  BY <1>1, <3>1, <3>2, FetchesKeep
  <2>2. CASE CheckArrives(c)
    <3>1. /\ Back(c, "check") /\ Result(c) = "ok" /\ Run({c}, {})
          /\ opsCheck'.session = got[c].body.session /\ opsTarget' = want[c].session
          /\ UNCHANGED <<delivered, garbled, confirmed, send, sent>>
      BY <2>2 DEF CheckArrives, remoteVars, chatVars
    <3>2. Adds = {} /\ opsCheck'.session = opsTarget'
      BY <3>1, CheckedAfterAdds
    <3> QED  BY <1>1, <3>1, <3>2, TurnKeeps
  <2>3. CASE SendReturns(c)
    <3>1. /\ Run({c}, {}) /\ UNCHANGED <<delivered, garbled, confirmed, mode, opsCheck, opsTarget>>
          /\ sent' = 0 \/ (sent' = id[c] /\ send' = "failed")
      BY <2>3 DEF SendReturns, remoteVars, railVars
    <3>2. send' = "failed" => Result(c) = "error"
      BY <2>3 DEF SendReturns, Result, CInv, Bodies, Replies, Reply
    <3> QED  BY <1>1, <3>1, <3>2, TurnKeeps
  <2> QED  BY <1>6, <2>1, <2>2, <2>3 DEF Arrives
<1> QED  BY <1>2, <1>3, <1>4, <1>5, <1>6

LEMMA AnswersKeep ==
  ASSUME CInv, QueueInv, Server
  PROVE  QueueInv'
<1> DEFINE SomeAnswer ==
       \E how \in {"ok", "error", "unknown", "garbled"} : \E safe, sessions :
         /\ Answers(how, safe, sessions)
         /\ delivered' \in {delivered, delivered \cup {serving.id}}
         /\ garbled \subseteq garbled'
         /\ how \in {"error", "garbled"} => Legible' \subseteq Legible
         /\ UNCHANGED confirmed \/ serving.body.what = "add"
<1>1. ServerMoves \/ SomeAnswer
  <2>1. CASE ServerLists
    BY <2>1 DEF ServerLists, remoteVars, Legible
  <2>2. CASE ServerReads
    BY <2>2 DEF ServerReads, remoteVars, Legible
  <2>3. ASSUME NEW safe, ServerChecks(safe) PROVE SomeAnswer
    BY <2>3 DEF ServerChecks, remoteVars, Legible
  <2>4. ASSUME NEW how \in {"ok", "garbled"}, ServerAdds(how) PROVE SomeAnswer
    BY <2>4 DEF ServerAdds, Asked, Legible
  <2>5. ASSUME NEW how \in {"ok", "garbled"}, ServerRemoves(how) PROVE SomeAnswer
    BY <2>5 DEF ServerRemoves, Legible
  <2>6. ASSUME NEW how \in {"ok", "unknown", "garbled"}, ServerDelivers(how) PROVE SomeAnswer
    <3>1. Answers(how, FALSE, {})
      BY <2>6 DEF ServerDelivers
    <3>2. /\ delivered' = delivered \cup {serving.id} /\ UNCHANGED confirmed
          /\ garbled' = IF how = "garbled" THEN garbled \cup {serving.id} ELSE garbled
      BY <2>6 DEF ServerDelivers
    <3>3. garbled \subseteq garbled' /\ (how \in {"error", "garbled"} => Legible' \subseteq Legible)
      BY <3>2 DEF Legible
    <3> QED  BY <3>1, <3>2, <3>3
  <2>7. CASE ServerRefuses
    BY <2>7 DEF ServerRefuses, remoteVars, Legible
  <2> QED  BY <2>1, <2>2, <2>3, <2>4, <2>5, <2>6, <2>7 DEF Server
<1>2. ASSUME NEW how \in {"ok", "error", "unknown", "garbled"}, NEW safe, NEW sessions,
             Answers(how, safe, sessions),
             delivered' \in {delivered, delivered \cup {serving.id}}, garbled \subseteq garbled',
             how \in {"error", "garbled"} => Legible' \subseteq Legible,
             UNCHANGED confirmed \/ serving.body.what = "add"
      PROVE  QueueInv'
  BY <1>2, AnswerKeeps
<1> QED  BY <1>1, <1>2, MovesKeep

LEMMA InitQueueInv == Init => QueueInv
<1> SUFFICES ASSUME Init PROVE QueueInv  OBVIOUS
<1>1. /\ inbox = <<>> /\ serving = NoMessage /\ wire = <<>> /\ delivering = NoMessage /\ child = "up"
      /\ nextID = 0 /\ sent = 0 /\ send = "idle" /\ delivered = {} /\ garbled = {} /\ mode = "idle"
      /\ \A c \in Call : /\ pc[c] = "idle" /\ outcome[c] = "none" /\ id[c] = 0 /\ want[c] = Nothing
                         /\ chan[c].state = "none"
  BY DEF Init, InitShowing, ClientInit, NoChan
<1>2. Pending = {} /\ Replied = {} /\ Answered = {}
  <2>1. Pending = {} /\ Replied = {}
    BY <1>1, Ranges DEF Pending, Replied, Range
  <2> QED  BY <1>1, <2>1 DEF Answered
<1>3. FirstComeFirstServed
  BY <1>1, <1>2 DEF FirstComeFirstServed, Range
<1>4. EchoesItsOwn /\ FailsDead /\ ErrorsUndelivered
  BY <1>1, <1>2 DEF EchoesItsOwn, FailsDead, ErrorsUndelivered, Legible
<1>5. RemovalsConfirmed
  BY <1>1, <1>2 DEF RemovalsConfirmed, Adds, Removals, Removing, Outstanding, Nothing
<1> QED  BY <1>3, <1>4, <1>5 DEF QueueInv

LEMMA NextQueueInv == CInv /\ QueueInv /\ [Next]_vars => QueueInv'
<1> SUFFICES ASSUME CInv, QueueInv, [Next]_vars PROVE QueueInv'  OBVIOUS
<1>1. CASE UNCHANGED vars
  <2>1. UNCHANGED <<clientVars, cockpitVars>>  BY <1>1 DEF vars
  <2>2. Pending' = Pending /\ Replied' = Replied /\ FailsDead' /\ Ordered'
    BY <2>1 DEF Pending, Replied, FailsDead, Ordered, QueueInv, FirstComeFirstServed, clientVars, callVars,
       readerVars, serverVars
  <2>3. 0 \notin delivered  BY QueueTypes
  <2> QED
    BY <2>1, <2>2, <2>3, NoMoreKeeps DEF QueueInv, FirstComeFirstServed, clientVars, callVars, serverVars,
       cockpitVars, remoteVars, railVars, chatVars
<1>2. ASSUME NEW c \in Call, Calls(c) PROVE QueueInv'
  BY <1>2, CallKeeps, RegisterKeeps, WriteKeeps DEF Calls, CallStep
<1>3. CASE Reads
  BY <1>3, ReadsKeep DEF Reads
<1>4. CASE Keys
  BY <1>4, KeysKeep, TurnsKeep DEF Keys
<1>5. CASE Server
  BY <1>5, AnswersKeep
<1> QED
  BY <1>1, <1>2, <1>3, <1>4, <1>5, TurnsKeep DEF Next

LEMMA QueueInvHolds == Spec => []QueueInv
  BY InitQueueInv, NextQueueInv, CInvHolds, PTL DEF Spec

\* A send shown as failed did not reach its session, unless the server died under it or
\* its reply could not be read: no other doubt is shown as a failure (Send, ErrUnknown).
THEOREM ResendIsSafe == Spec => []FailedWasNotDelivered
<1>1. QueueInv => FailedWasNotDelivered
  BY DEF QueueInv, ErrorsUndelivered, Legible, FailedWasNotDelivered
<1> QED  BY <1>1, QueueInvHolds, PTL

\* For any number of sessions, of goroutines and of late replies: the server removes only
\* what the operator confirmed under the name the dialog showed, and nothing made anew
\* since (PressYes, CheckArrives, the one request at a time).
THEOREM RemovalWasConfirmed == Spec => RemovesOnlyConfirmed
<1>1. QueueInv /\ CInv /\ [Next]_vars => [exist \ exist' \subseteq confirmed]_vars
  <2> SUFFICES ASSUME QueueInv, CInv, [Next]_vars, NEW s \in exist, s \notin exist'
               PROVE  s \in confirmed
    OBVIOUS
  <2>1. CASE \E how \in {"ok", "garbled"} : ServerRemoves(how)
    <3>1. serving \in Removals /\ s = serving.body.session
      BY <2>1 DEF ServerRemoves, Asked, Removals, Pending
    <3> QED  BY <3>1 DEF QueueInv, RemovalsConfirmed
  <2>2. CASE \E how \in {"ok", "garbled"} : ServerAdds(how)
    BY <2>2 DEF ServerAdds
  <2>3. CASE /\ Server
             /\ \A how \in {"ok", "garbled"} : ~ServerRemoves(how) /\ ~ServerAdds(how)
    BY <2>3 DEF Server, ServerMoves, ServerLists, ServerReads, ServerChecks, ServerDelivers, ServerRefuses,
       cockpitVars, remoteVars
  <2>4. CASE UNCHANGED vars
    BY <2>4 DEF vars, cockpitVars, remoteVars
  <2>5. CASE Keys
    BY <2>5 DEF Keys, PressNew, PressYes, Cancel, EnterName, PressRemove, StartComposing, Esc, TrySend,
       MentionRefused, remoteVars
  <2>6. CASE Tickers \/ Reads \/ \E c \in Call : Calls(c)
    BY <2>6 DEF Tickers, Refresh, ParticipantsTick, Reads, Calls, cockpitVars, remoteVars
  <2>7. CASE \E c \in Call : Arrives(c)
    BY <2>7 DEF Arrives, SessionsArrive, SessionsFail, LanesArrive, PeopleArrive, OpDone, CheckFails,
       CheckArrives, SendReturns, remoteVars
  <2> QED  BY <2>1, <2>2, <2>3, <2>4, <2>5, <2>6, <2>7 DEF Next
<1> QED  BY <1>1, QueueInvHolds, CInvHolds, PTL DEF Spec, RemovesOnlyConfirmed
===============================================================================
