--------------------------- MODULE NodeStreamProofs ---------------------------
(***************************************************************************)
(* What SendCommandToNode promises, for every number of nodes, streams and *)
(* calls and every size of a node's channel: nodeLocker is never left      *)
(* taken, a call gets no answer but its own, and only an answer that comes *)
(* before its call waits for it is lost; the register of goroutines counts *)
(* every sender; a node with one stream is connected by it, and so is the  *)
(* primary node.                                                           *)
(***************************************************************************)
EXTENDS NodeStream, FiniteSetTheorems, SequenceTheorems, TLAPS

Msg  == [id : Nat, call : Calls]
Chan == [msgs : Seq(Calls), open : BOOLEAN]
Call == [pc : {"idle", "push", "pushed", "wait", "forget", "done"}, id : Nat,
         chan : Streams \cup {NoChan}, result : Calls \cup {"none"}]

\* A call that has an id.
Active == InPc({"pushed", "wait", "forget"})

\* The ids of the calls: given once, and known to the counter.
Ids ==
  /\ \A c \in Active : call[c].id \in 1..commandRequestId
  /\ \A c1, c2 \in Active : call[c1].id = call[c2].id => c1 = c2

\* A stream that is open knows its node, one that sends has a channel, and so
\* has a call that is about to push.
Linked ==
  /\ \A s \in Streams : Open(s) => nodeId[s] \in Nodes
  /\ \A s \in Streams : gpc[s] \in {"start", "f"} => requestChan[s] \in Streams
  /\ \A c \in InPc({"push"}) : call[c].chan \in Streams

Types ==
  /\ TypeOK
  /\ queue \in [Streams -> Seq(Msg)]
  /\ sent \in [Streams -> SUBSET Msg]
  /\ gpc \in [Streams -> {"none", "start", "f", "end"}]
  /\ commandRequestId \in Nat
  /\ waiting \in SUBSET Msg
  /\ call \in [Calls -> Call]
  /\ respChan \in [Calls -> Chan]
  /\ Linked
  /\ Ids

\* The commands that have not been answered: queued, on their way or at work.
Elements(q) == {q[i] : i \in 1..Len(q)}
InFlight == UNION {Elements(queue[s]) \cup sent[s] : s \in Streams}

\* A command is of a call that has pushed it, and has the id of that call and of
\* no other.
Messages ==
  \A m \in InFlight :
    /\ m.id <= commandRequestId
    /\ call[m.call].pc \notin {"idle", "push"}
    /\ m.call \in Active => m.id = call[m.call].id
    /\ \A c \in Active : call[c].id = m.id => m.call = c

\* An entry and the open channel of its call go together.
Entries ==
  /\ \A w \in waiting : /\ w.call \in InPc({"wait", "forget"})
                        /\ w.id = call[w.call].id
                        /\ respChan[w.call].open
  /\ \A c \in InPc({"idle", "push", "pushed"}) : respChan[c].open
  /\ \A c \in InPc({"wait"}) : respChan[c].open => \E w \in waiting : w.call = c

\* What is in a channel is the answer to the call it belongs to, and there as long
\* as the call waits.
Answers ==
  /\ \A c \in Calls : respChan[c].msgs \in {<<>>, <<c>>}
  /\ OwnAnswer
  /\ answered \subseteq Active
  /\ answered \cap InPc({"pushed"}) \subseteq early
  /\ AnswerKept

\* The inductive invariant of the calls.
CallInv == Types /\ Messages /\ Entries /\ Answers /\ NeverStuck

\* The inductive invariant of the register: there are as many ids as senders.
Counted ==
  /\ instanceId \in Nat
  /\ instanceMap \subseteq 1..instanceId
  /\ IsFiniteSet(Sender!Running)
  /\ EnoughListed
-----------------------------------------------------------------------------
(***************************************************************************)
(* Sequences.                                                              *)
(***************************************************************************)

\* A command that is taken was there, and the others stay.
LEMMA TailElements ==
  ASSUME NEW S, NEW q \in Seq(S), q # <<>>
  PROVE  /\ Head(q) \in Elements(q) /\ Head(q) \in S
         /\ Tail(q) \in Seq(S) /\ Len(Tail(q)) <= Len(q)
         /\ Elements(Tail(q)) \subseteq Elements(q)
<1>1. Len(q) \in Nat /\ Len(q) >= 1 /\ Head(q) = q[1]
  BY EmptySeq, LenProperties
<1>2. Tail(q) \in Seq(S) /\ Len(Tail(q)) = Len(q) - 1 /\ \A i \in 1..Len(Tail(q)) : Tail(q)[i] = q[i + 1]
  BY HeadTailProperties
<1>3. Elements(Tail(q)) \subseteq Elements(q)
  BY <1>1, <1>2 DEF Elements
<1>4. q[1] \in Elements(q) /\ q[1] \in S
  BY <1>1 DEF Elements
<1> QED BY <1>1, <1>2, <1>3, <1>4

\* A command that is put into a channel is the only new one.
LEMMA AppendElements ==
  ASSUME NEW S, NEW q \in Seq(S), NEW x \in S
  PROVE  /\ Append(q, x) \in Seq(S) /\ Len(Append(q, x)) = Len(q) + 1
         /\ Elements(Append(q, x)) \subseteq Elements(q) \cup {x}
<1>1. /\ Append(q, x) \in Seq(S) /\ Len(Append(q, x)) = Len(q) + 1
      /\ \A i \in 1..Len(q) : Append(q, x)[i] = q[i]
      /\ Append(q, x)[Len(q) + 1] = x
  BY AppendProperties
<1>2. Len(q) \in Nat
  BY LenProperties
<1>3. \A i \in 1..Len(Append(q, x)) : Append(q, x)[i] \in Elements(q) \cup {x}
  BY <1>1, <1>2 DEF Elements
<1> QED BY <1>1, <1>3 DEF Elements

\* The commands that have not been answered are commands.
LEMMA InFlightType == Types => InFlight \subseteq Msg
<1> SUFFICES ASSUME Types, NEW s \in Streams
             PROVE  Elements(queue[s]) \cup sent[s] \subseteq Msg
  BY DEF InFlight
<1>1. queue[s] \in Seq(Msg) /\ sent[s] \subseteq Msg
  BY DEF Types
<1>2. \A i \in 1..Len(queue[s]) : queue[s][i] \in Msg
  BY <1>1
<1> QED BY <1>1, <1>2 DEF Elements

-----------------------------------------------------------------------------

(***************************************************************************)
(* Types.                                                                  *)
(***************************************************************************)

\* The types hold at the start.
LEMMA TypesInit == Init => Types
<1> SUFFICES ASSUME Init PROVE Types
  OBVIOUS
<1> USE NodeAssumption, ChanAssumption DEF Init
<1>1. call \in [Calls -> Call] /\ \A c \in Calls : call[c].pc = "idle"
  BY DEF Call, Idle
<1>2. respChan \in [Calls -> Chan] /\ \A c \in Calls : respChan[c].msgs = <<>>
  <2>1. NewChan \in Chan
    BY DEF Chan, NewChan
  <2> QED BY <2>1 DEF NewChan
<1>3. Active = {} /\ InPc({"push"}) = {}
  BY <1>1 DEF Active, InPc
<1>4. queue \in [Streams -> Seq(Msg)] /\ \A s \in Streams : Len(queue[s]) = 0
  OBVIOUS
<1>5. TypeOK
  <2>1. \A c \in Calls : Len(respChan[c].msgs) = 0
    BY <1>2
  <2>2. \A c \in Calls : Len(respChan[c].msgs) <= 1
    BY <2>1
  <2>3. \A s \in Streams : Len(queue[s]) <= QueueSize
    BY <1>4
  <2>4. \A w \in waiting : w.id \in 1..commandRequestId /\ w.call \in Calls
    OBVIOUS
  <2> QED BY <1>1, <2>2, <2>3, <2>4 DEF TypeOK
<1>6. gpc \in [Streams -> {"none", "start", "f", "end"}] /\ \A s \in Streams : gpc[s] = "none"
  BY DEF Sender!Init
<1>7. Linked
  BY <1>3, <1>6 DEF Linked, Open
<1> QED BY <1>1, <1>2, <1>3, <1>4, <1>5, <1>6, <1>7 DEF Types, Ids

\* A call that goes on keeps its id, or takes the next one.
LEMMA CallTypes ==
  ASSUME Types, NEW c \in Calls, NEW v \in Call,
         call' = [call EXCEPT ![c] = v],
         v.pc = "push" => v.chan \in Streams,
         \/ commandRequestId' = commandRequestId /\ v.pc \notin {"pushed", "wait", "forget"}
         \/ commandRequestId' = commandRequestId /\ c \in Active /\ v.id = call[c].id
         \/ commandRequestId' = commandRequestId + 1 /\ v.id = commandRequestId + 1
         \/ commandRequestId' = commandRequestId + 1 /\ v.pc \notin {"pushed", "wait", "forget"}
  PROVE  /\ commandRequestId' \in Nat /\ commandRequestId <= commandRequestId'
         /\ call' \in [Calls -> Call]
         /\ \A d \in InPc({"push"})' : call'[d].chan \in Streams
         /\ Ids'
         /\ \A d \in Calls : call'[d] = IF d = c THEN v ELSE call[d]
<1>1. call \in [Calls -> Call] /\ commandRequestId \in Nat
  BY DEF Types
<1>2. call' \in [Calls -> Call] /\ \A d \in Calls : call'[d] = IF d = c THEN v ELSE call[d]
  BY <1>1
<1>3. commandRequestId' \in Nat /\ commandRequestId <= commandRequestId'
  BY <1>1
<1>4. \A d \in InPc({"push"})' : call'[d].chan \in Streams
  BY <1>2 DEF Types, Linked, InPc
<1>5. \A d \in Active' : d # c => d \in Active /\ call'[d] = call[d]
  BY <1>2 DEF Active, InPc
<1>6. \A d \in Active' : call'[d].id \in 1..commandRequestId'
  BY <1>1, <1>2, <1>5 DEF Types, Ids, Active, InPc, Call
<1>7. \A d \in Active' : d # c /\ c \in Active' => call'[d].id # call'[c].id
  BY <1>1, <1>2, <1>5 DEF Types, Ids, Active, InPc, Call
<1>8. \A d, e \in Active' : call'[d].id = call'[e].id => d = e
  <2> SUFFICES ASSUME NEW d \in Active', NEW e \in Active', call'[d].id = call'[e].id, d # e
               PROVE  FALSE
    OBVIOUS
  <2>1. d # c /\ e # c
    BY <1>7
  <2> QED BY <1>5, <2>1 DEF Types, Ids
<1> QED BY <1>2, <1>3, <1>4, <1>6, <1>8 DEF Ids

\* Every variable keeps its type, calls their ids, and streams their channels.
LEMMA TypesStep == Types /\ [Next]_vars => Types'
<1> SUFFICES ASSUME Types, [Next]_vars PROVE Types'
  OBVIOUS
<1> USE NodeAssumption, ChanAssumption
<1>1. ASSUME NEW s \in Streams, NEW n \in Nodes, Enter(s, n) PROVE Types'
  BY <1>1 DEF Enter, Goto, Types, TypeOK, Linked, Ids, Active, InPc, Open, registry, callVars
<1>2. ASSUME NEW s \in Streams, ChoosePrimary(s) PROVE Types'
  BY <1>2 DEF ChoosePrimary, Goto, Types, TypeOK, Linked, Ids, Active, InPc, Open, opening, registry, callVars, streamVars, history
<1>3. ASSUME NEW s \in Streams, FindNodeActive(s) PROVE Types'
  BY <1>3 DEF FindNodeActive, Goto, Types, TypeOK, Linked, Ids, Active, InPc, Open, opening, registry, callVars, streamVars, history
<1>4. ASSUME NEW s \in Streams, UpdateNodeActive(s) PROVE Types'
  <2>1. PICK l \in {"message", "register"} : pc' = [pc EXCEPT ![s] = l]
    BY <1>4 DEF UpdateNodeActive, Goto
  <2>2. pc[s] = "activate" /\ isActive' = [isActive EXCEPT ![nodeId[s]] = TRUE]
    BY <1>4 DEF UpdateNodeActive
  <2>3. UNCHANGED <<primaryNodeId, chanMap, queue, requestChan, sent, opening, mixed>>
    BY <1>4 DEF UpdateNodeActive
  <2> QED BY <2>1, <2>2, <2>3 DEF Types, TypeOK, Linked, Ids, Active, InPc, Open, opening, registry, callVars, streamVars, history
<1>5. ASSUME NEW s \in Streams, CreateNodeMessage(s) \/ OpenFails(s) PROVE Types'
  BY <1>5 DEF CreateNodeMessage, OpenFails, Goto, Types, TypeOK, Linked, Ids, Active, InPc, Open, opening, registry, callVars, streamVars, history
<1>6. ASSUME NEW s \in Streams, RegisterChan(s) PROVE Types'
  BY <1>6 DEF RegisterChan, ChanStored, Sender!New, Goto, Types, TypeOK, Linked, Ids, Active, InPc, Open, opening, registry, callVars, streamVars, history
<1>7. ASSUME NEW s \in Streams, StartSender(s) PROVE Types'
  BY <1>7 DEF StartSender, Sender!Register, Goto, Types, TypeOK, Linked, Ids, Active, InPc, Open, opening, registry, callVars, streamVars, history
<1>8. ASSUME NEW s \in Streams, Send(s) PROVE Types'
  <2> DEFINE h == requestChan[s]
  <2>1. h \in Streams /\ queue[h] \in Seq(Msg) /\ queue[h] # <<>>
    BY <1>8 DEF Send, Types, Linked
  <2>2. Head(queue[h]) \in Msg /\ Tail(queue[h]) \in Seq(Msg) /\ Len(Tail(queue[h])) <= Len(queue[h])
    BY <2>1, TailElements
  <2>3. queue' = [queue EXCEPT ![h] = Tail(queue[h])]
    BY <1>8 DEF Send
  <2>4. sent' \in [Streams -> SUBSET Msg]
    <3>1. CASE UNCHANGED sent
      BY <3>1 DEF Types
    <3>2. CASE sent' = [sent EXCEPT ![s] = sent[s] \cup {Head(queue[h])}]
      BY <2>2, <3>2 DEF Types
    <3> QED BY <1>8, <3>1, <3>2 DEF Send
  <2>5. queue' \in [Streams -> Seq(Msg)] /\ \A r \in Streams : queue'[r] = IF r = h THEN Tail(queue[h]) ELSE queue[r]
    BY <2>1, <2>2, <2>3 DEF Types
  <2>6. \A r \in Streams : Len(queue'[r]) <= QueueSize
    <3>1. \A r \in Streams : Len(queue[r]) <= QueueSize /\ Len(queue[r]) \in Nat
      BY DEF Types, TypeOK
    <3>2. Len(Tail(queue[h])) \in Nat
      BY <2>2, LenProperties
    <3>3. Len(queue[h]) <= QueueSize /\ Len(queue[h]) \in Nat
      BY <2>1, <3>1
    <3>4. Len(Tail(queue[h])) <= QueueSize
      <4> DEFINE old == Len(queue[h])
                 new == Len(Tail(queue[h]))
      <4>1. old \in Nat /\ new \in Nat /\ new <= old /\ old <= QueueSize
        BY <2>2, <3>2, <3>3
      <4> HIDE DEF old, new
      <4>2. new <= QueueSize
        BY <4>1
      <4> QED BY <4>2 DEF new
    <3>5. ASSUME NEW r \in Streams PROVE Len(queue'[r]) <= QueueSize
      <4>1. CASE r = h
        BY <2>5, <3>4, <4>1
      <4>2. CASE r # h
        BY <2>5, <3>1, <4>2
      <4> QED BY <4>1, <4>2
    <3> QED BY <3>5
  <2> QED BY <1>8, <2>4, <2>5, <2>6 DEF Send, Types, TypeOK, Linked, Ids, Active, InPc, Open, registry, callVars, history
<1>9. ASSUME NEW s \in Streams, EndSender(s) PROVE Types'
  BY <1>9 DEF EndSender, Sender!Unregister, Goto, Types, TypeOK, Linked, Ids, Active, InPc, Open, opening, registry, callVars, streamVars, history
<1>10. ASSUME NEW s \in Streams, Receive(s) PROVE Types'
  <2>1. PICK m \in sent[s] :
          LET cs == {w.call : w \in {x \in waiting : x.id = m.id}}
          IN  respChan' = [c \in Calls |->
                IF c \in cs /\ respChan[c].open /\ Len(respChan[c].msgs) < RespSize
                THEN [respChan[c] EXCEPT !.msgs = <<m.call>>] ELSE respChan[c]]
    BY <1>10, Zenon DEF Receive
  <2>2. m \in Msg /\ sent' \in [Streams -> SUBSET Msg]
    BY <1>10 DEF Receive, Types
  <2>3. \A c \in Calls : respChan'[c] = respChan[c] \/ respChan'[c] = [respChan[c] EXCEPT !.msgs = <<m.call>>]
    BY <2>1
  <2>4. <<m.call>> \in Seq(Calls) /\ Len(<<m.call>>) = 1
    BY <2>2 DEF Msg
  <2>5. respChan' \in [Calls -> Chan]
    <3>1. \A c \in Calls : respChan[c] \in Chan /\ [respChan[c] EXCEPT !.msgs = <<m.call>>] \in Chan
      BY <2>4 DEF Types, Chan
    <3> QED BY <2>1, <2>3, <3>1
  <2>6. \A c \in Calls : Len(respChan'[c].msgs) <= 1
    <3>1. \A c \in Calls : Len(respChan[c].msgs) <= 1 /\ [respChan[c] EXCEPT !.msgs = <<m.call>>].msgs = <<m.call>>
      BY DEF Types, TypeOK, Chan
    <3>2. \A c \in Calls : respChan'[c].msgs \in {respChan[c].msgs, <<m.call>>}
      BY <2>3, <3>1
    <3> SUFFICES ASSUME NEW c \in Calls PROVE Len(respChan'[c].msgs) <= 1
      OBVIOUS
    <3>3. CASE respChan'[c].msgs = respChan[c].msgs
      BY <3>1, <3>3
    <3>4. CASE respChan'[c].msgs = <<m.call>>
      BY <2>4, <3>4
    <3> QED BY <3>2, <3>3, <3>4
  <2>7. stuck' \in BOOLEAN
    BY <1>10 DEF Receive
  <2>8. UNCHANGED <<primaryNodeId, isActive, chanMap, queue, pc, nodeId, requestChan, instanceMap, instanceId,
                    gpc, commandRequestId, waiting, call, mixed, fails>>
    BY <1>10 DEF Receive, registry
  <2>9. TypeOK'
    BY <2>6, <2>7, <2>8 DEF Types, TypeOK
  <2> QED BY <2>2, <2>5, <2>8, <2>9 DEF Types, Linked, Ids, Active, InPc, Open
<1>11. ASSUME NEW s \in Streams, RecvFails(s) PROVE Types'
  BY <1>11 DEF RecvFails, Goto, Types, TypeOK, Linked, Ids, Active, InPc, Open, opening, registry, callVars, streamVars, history
<1>12. ASSUME NEW s \in Streams, DeleteChan(s) PROVE Types'
  BY <1>12 DEF DeleteChan, Goto, Types, TypeOK, Linked, Ids, Active, InPc, Open, opening, registry, callVars, streamVars, history
<1>13. ASSUME NEW s \in Streams, CheckPrimary(s) PROVE Types'
  BY <1>13 DEF CheckPrimary, Goto, Types, TypeOK, Linked, Ids, Active, InPc, Open, opening, registry, callVars, streamVars, history
<1>14. ASSUME NEW s \in Streams, ClearPrimary(s) PROVE Types'
  BY <1>14 DEF ClearPrimary, Goto, Types, TypeOK, Linked, Ids, Active, InPc, Open, opening, registry, callVars, streamVars, history
<1>15. ASSUME NEW s \in Streams, MovePrimary(s) PROVE Types'
  BY <1>15 DEF MovePrimary, Goto, Types, TypeOK, Linked, Ids, Active, InPc, Open, opening, registry, callVars, streamVars, history
<1>16. ASSUME NEW s \in Streams, SetInactive(s) PROVE Types'
  BY <1>16 DEF SetInactive, Goto, Types, TypeOK, Linked, Ids, Active, InPc, Open, opening, registry, callVars, streamVars, history
<1>17. ASSUME NEW n \in Nodes, ReportStatus(n) PROVE Types'
  BY <1>17 DEF ReportStatus, Types, TypeOK, Linked, Ids, Active, InPc, Open, opening, registry, callVars
<1>18. ASSUME NEW c \in Calls, FindChan(c) PROVE Types'
  <2> DEFINE h == chanMap[NodeFor[c]]
             v == IF h = NoChan THEN Done("none") ELSE [call[c] EXCEPT !.pc = "push", !.chan = h]
  <2>1. h \in Streams \cup {NoChan} /\ call[c] \in Call
    BY DEF Types, TypeOK
  <2>2. v \in Call /\ v.pc \in {"push", "done"} /\ (v.pc = "push" => v.chan \in Streams)
    BY <2>1 DEF Call, Done
  <2>3. call' = [call EXCEPT ![c] = v] /\ commandRequestId' = commandRequestId
    BY <1>18 DEF FindChan
  <2>4. UNCHANGED <<primaryNodeId, isActive, chanMap, queue, pc, nodeId, requestChan, sent, instanceMap, instanceId,
                    gpc, waiting, respChan, stuck>>
    BY <1>18 DEF FindChan, calling, registry
  <2> HIDE DEF v
  <2>5. Ids' /\ call' \in [Calls -> Call] /\ \A d \in InPc({"push"})' : call'[d].chan \in Streams
    BY <2>2, <2>3, CallTypes
  <2> QED BY <2>3, <2>4, <2>5 DEF Types, TypeOK, Linked, Open, Call
<1>19. ASSUME NEW c \in Calls, Push(c) PROVE Types'
  <2> DEFINE h == call[c].chan
             n == commandRequestId + 1
             m == [id |-> n, call |-> c]
             v == IF HasRoom(h) THEN [call[c] EXCEPT !.pc = "pushed", !.id = n] ELSE Done("none")
  <2>1. h \in Streams /\ n \in Nat /\ m \in Msg /\ call[c] \in Call
    BY <1>19 DEF Push, Types, Linked, InPc, Msg
  <2>2. v \in Call /\ v.pc \in {"pushed", "done"} /\ (v.pc = "pushed" => v.id = n)
    BY <2>1 DEF Call, Done
  <2>3. call' = [call EXCEPT ![c] = v] /\ commandRequestId' = n
    <3>1. CASE HasRoom(h)
      <4>1. call' = [call EXCEPT ![c].pc = "pushed", ![c].id = n]
        BY <1>19, <3>1 DEF Push, NextId
      <4>2. call' = [call EXCEPT ![c] = [call[c] EXCEPT !.pc = "pushed", !.id = n]]
        BY <4>1 DEF Types
      <4> QED BY <1>19, <3>1, <4>2 DEF Push, NextId
    <3>2. CASE ~HasRoom(h)
      BY <1>19, <3>2 DEF Push, NextId
    <3> QED BY <3>1, <3>2
  <2>4. queue' = IF HasRoom(h) THEN [queue EXCEPT ![h] = Append(queue[h], m)] ELSE queue
    BY <1>19 DEF Push, NextId
  <2>5. UNCHANGED <<primaryNodeId, isActive, chanMap, pc, nodeId, requestChan, sent, instanceMap, instanceId,
                    gpc, waiting, respChan, stuck>>
    BY <1>19 DEF Push, calling, registry
  <2>6. queue' \in [Streams -> Seq(Msg)] /\ \A s \in Streams : Len(queue'[s]) <= QueueSize
    <3>1. queue[h] \in Seq(Msg) /\ Append(queue[h], m) \in Seq(Msg) /\ Len(Append(queue[h], m)) = Len(queue[h]) + 1
      BY <2>1, AppendElements DEF Types
    <3>2. Len(queue[h]) \in Nat
      BY <3>1, LenProperties
    <3>3. HasRoom(h) => Len(Append(queue[h], m)) <= QueueSize
      BY <3>1, <3>2 DEF HasRoom
    <3> HIDE DEF m, h
    <3> QED BY <2>1, <2>4, <3>1, <3>3 DEF Types, TypeOK
  <2> HIDE DEF v
  <2>7. /\ Ids' /\ call' \in [Calls -> Call] /\ \A d \in InPc({"push"})' : call'[d].chan \in Streams
        /\ commandRequestId' \in Nat /\ commandRequestId <= commandRequestId'
    BY <2>2, <2>3, CallTypes
  <2>8. \A w \in waiting' : w.id \in 1..commandRequestId' /\ w.call \in Calls
    BY <2>5, <2>7 DEF Types, TypeOK, Msg
  <2> QED BY <2>5, <2>6, <2>7, <2>8 DEF Types, TypeOK, Linked, Open, Call
<1>20. ASSUME NEW c \in Calls, Wait(c) PROVE Types'
  <2> DEFINE v == [call[c] EXCEPT !.pc = "wait"]
             e == [id |-> call[c].id, call |-> c]
  <2>1. c \in Active /\ call[c] \in Call /\ call[c].id \in 1..commandRequestId /\ commandRequestId \in Nat
    BY <1>20 DEF Wait, Active, InPc, Types, Ids
  <2>2. v \in Call /\ v.pc = "wait" /\ v.id = call[c].id /\ e \in Msg
    BY <2>1 DEF Call, Msg
  <2>3. call' = [call EXCEPT ![c] = v] /\ commandRequestId' = commandRequestId
    BY <1>20 DEF Wait, Types
  <2>4. waiting' = {w \in waiting : w.id # call[c].id} \cup {e}
    BY <1>20 DEF Wait
  <2>5. UNCHANGED <<primaryNodeId, isActive, chanMap, queue, pc, nodeId, requestChan, sent, instanceMap, instanceId,
                    gpc, respChan, stuck>>
    BY <1>20 DEF Wait, calling, registry
  <2>6. waiting' \in SUBSET Msg /\ \A w \in waiting' : w.id \in 1..commandRequestId /\ w.call \in Calls
    BY <2>1, <2>2, <2>4 DEF Types, TypeOK
  <2> HIDE DEF v, e
  <2>7. Ids' /\ call' \in [Calls -> Call] /\ \A d \in InPc({"push"})' : call'[d].chan \in Streams
    BY <2>1, <2>2, <2>3, CallTypes
  <2> QED BY <2>3, <2>5, <2>6, <2>7 DEF Types, TypeOK, Linked, Open, Call
<1>21. ASSUME NEW c \in Calls, TakeAnswer(c) PROVE Types'
  <2> DEFINE ms == respChan[c].msgs
             r == IF ms = <<>> THEN "none" ELSE Head(ms)
             v == [call[c] EXCEPT !.pc = "forget", !.result = r]
             qs == IF ms = <<>> THEN ms ELSE Tail(ms)
  <2>1. c \in Active /\ call[c] \in Call /\ respChan[c] \in Chan /\ ms \in Seq(Calls)
    BY <1>21 DEF TakeAnswer, Active, InPc, Types, Chan
  <2>2. r \in Calls \cup {"none"} /\ qs \in Seq(Calls) /\ Len(qs) <= Len(ms)
    BY <2>1, TailElements
  <2>3. v \in Call /\ v.pc = "forget" /\ v.id = call[c].id
    BY <2>1, <2>2 DEF Call
  <2>4. call' = [call EXCEPT ![c] = v] /\ commandRequestId' = commandRequestId
    BY <1>21 DEF TakeAnswer, Types
  <2>5. respChan' = [respChan EXCEPT ![c] = [respChan[c] EXCEPT !.msgs = qs]]
    BY <1>21 DEF TakeAnswer, Types
  <2>6. UNCHANGED <<primaryNodeId, isActive, chanMap, queue, pc, nodeId, requestChan, sent, instanceMap, instanceId,
                    gpc, waiting, stuck>>
    BY <1>21 DEF TakeAnswer, calling, registry
  <2>7. [respChan[c] EXCEPT !.msgs = qs] \in Chan /\ [respChan[c] EXCEPT !.msgs = qs].msgs = qs
    BY <2>1, <2>2 DEF Chan
  <2>8. respChan' \in [Calls -> Chan]
    BY <2>5, <2>7 DEF Types
  <2>9. Len(qs) <= 1
    <3>1. Len(ms) <= 1 /\ Len(ms) \in Nat /\ Len(qs) \in Nat
      BY <2>1, <2>2, LenProperties DEF Types, TypeOK
    <3> QED BY <2>2, <3>1
  <2>10. \A d \in Calls : Len(respChan'[d].msgs) <= 1
    BY <2>5, <2>7, <2>9 DEF Types, TypeOK
  <2> HIDE DEF v
  <2>11. Ids' /\ call' \in [Calls -> Call] /\ \A d \in InPc({"push"})' : call'[d].chan \in Streams
    BY <2>1, <2>3, <2>4, CallTypes
  <2> QED BY <2>4, <2>6, <2>8, <2>10, <2>11 DEF Types, TypeOK, Linked, Open, Call
<1>22. ASSUME NEW c \in Calls, Timeout(c) PROVE Types'
  <2> DEFINE v == [call[c] EXCEPT !.pc = "forget"]
  <2>1. c \in Active /\ call[c] \in Call
    BY <1>22 DEF Timeout, Active, InPc, Types
  <2>2. v \in Call /\ v.pc = "forget" /\ v.id = call[c].id
    BY <2>1 DEF Call
  <2>3. call' = [call EXCEPT ![c] = v] /\ commandRequestId' = commandRequestId
    BY <1>22 DEF Timeout, Types
  <2>4. UNCHANGED <<primaryNodeId, isActive, chanMap, queue, pc, nodeId, requestChan, sent, instanceMap, instanceId,
                    gpc, waiting, respChan, stuck>>
    BY <1>22 DEF Timeout, calling, registry
  <2> HIDE DEF v
  <2>5. Ids' /\ call' \in [Calls -> Call] /\ \A d \in InPc({"push"})' : call'[d].chan \in Streams
    BY <2>1, <2>2, <2>3, CallTypes
  <2> QED BY <2>3, <2>4, <2>5 DEF Types, TypeOK, Linked, Open, Call
<1>23. ASSUME NEW c \in Calls, Forget(c) PROVE Types'
  <2> DEFINE v == Done(call[c].result)
  <2>1. call[c] \in Call
    BY DEF Types
  <2>2. v \in Call /\ v.pc = "done"
    BY <2>1 DEF Call, Done
  <2>3. call' = [call EXCEPT ![c] = v] /\ commandRequestId' = commandRequestId
    BY <1>23 DEF Forget, Types
  <2>4. respChan' = [respChan EXCEPT ![c] = Closed] /\ waiting' \subseteq waiting
    BY <1>23 DEF Forget, Without
  <2>5. UNCHANGED <<primaryNodeId, isActive, chanMap, queue, pc, nodeId, requestChan, sent, instanceMap, instanceId,
                    gpc, stuck>>
    BY <1>23 DEF Forget, calling, registry
  <2>6. respChan' \in [Calls -> Chan] /\ \A d \in Calls : Len(respChan'[d].msgs) <= 1
    <3>1. Closed \in Chan /\ Len(Closed.msgs) = 0
      BY DEF Closed, Chan
    <3> QED BY <2>4, <3>1 DEF Types, TypeOK
  <2> HIDE DEF v
  <2>7. Ids' /\ call' \in [Calls -> Call] /\ \A d \in InPc({"push"})' : call'[d].chan \in Streams
    BY <2>2, <2>3, CallTypes
  <2>8. waiting' \in SUBSET Msg /\ \A w \in waiting' : w.id \in 1..commandRequestId /\ w.call \in Calls
    BY <2>4 DEF Types, TypeOK
  <2> QED BY <2>3, <2>5, <2>6, <2>7, <2>8 DEF Types, TypeOK, Linked, Open, Call
<1>24. ASSUME CleanWaiting PROVE Types'
  <2>1. /\ waiting' \subseteq waiting
        /\ respChan' \in [Calls -> Chan]
        /\ \A d \in Calls : respChan'[d].msgs = respChan[d].msgs
    <3>1. PICK old \in SUBSET waiting :
            /\ waiting' = waiting \ old
            /\ respChan' = [d \in Calls |-> IF \E w \in old : w.call = d
                                            THEN [respChan[d] EXCEPT !.open = FALSE] ELSE respChan[d]]
      BY <1>24 DEF CleanWaiting
    <3>2. \A d \in Calls : [respChan[d] EXCEPT !.open = FALSE] \in Chan
                           /\ [respChan[d] EXCEPT !.open = FALSE].msgs = respChan[d].msgs /\ respChan[d] \in Chan
      BY DEF Types, Chan
    <3>3. \A d \in Calls : respChan'[d] \in {[respChan[d] EXCEPT !.open = FALSE], respChan[d]}
      BY <3>1
    <3> QED BY <3>1, <3>2, <3>3
  <2>2. UNCHANGED <<primaryNodeId, isActive, chanMap, queue, pc, nodeId, requestChan, sent, instanceMap, instanceId,
                    gpc, commandRequestId, call, stuck>>
    BY <1>24 DEF CleanWaiting, calling, registry
  <2>3. waiting' \in SUBSET Msg /\ \A w \in waiting' : w.id \in 1..commandRequestId /\ w.call \in Calls
    BY <2>1 DEF Types, TypeOK
  <2>4. \A d \in Calls : Len(respChan'[d].msgs) <= 1
    BY <2>1 DEF Types, TypeOK
  <2> QED BY <2>1, <2>2, <2>3, <2>4 DEF Types, TypeOK, Linked, Open, Ids, Active, InPc
<1>25. ASSUME UNCHANGED vars PROVE Types'
  BY <1>25 DEF Types, TypeOK, Linked, Ids, Active, InPc, Open, vars, streamVars, registry, callVars, history
<1> QED BY <1>1, <1>2, <1>3, <1>4, <1>5, <1>6, <1>7, <1>8, <1>9, <1>10, <1>11, <1>12, <1>13, <1>14, <1>15, <1>16, <1>17, <1>18, <1>19, <1>20, <1>21, <1>22, <1>23, <1>24, <1>25 DEF Next

-----------------------------------------------------------------------------
(***************************************************************************)
(* What the steps of the streams and of the calls do to the calls.         *)
(***************************************************************************)

\* A step that tells the calls nothing; commands may get lost on their way.
Aside ==
  /\ UNCHANGED <<callVars, stuck, early, answered>>
  /\ InFlight' \subseteq InFlight

\* What is on its way depends on queue and sent only.
LEMMA InFlightSame ==
  ASSUME UNCHANGED <<queue, sent>> PROVE InFlight' = InFlight
BY DEF InFlight

\* A sender that passes a command on changes nothing else of the calls.
LEMMA SendAside ==
  ASSUME Types, NEW s \in Streams, Send(s) PROVE Aside
<1> DEFINE h == requestChan[s]
<1>1. h \in Streams /\ queue[h] \in Seq(Msg) /\ queue[h] # <<>>
  BY DEF Send, Types, Linked
<1>2. Head(queue[h]) \in Elements(queue[h]) /\ Elements(Tail(queue[h])) \subseteq Elements(queue[h])
  BY <1>1, TailElements
<1>3. queue' = [queue EXCEPT ![h] = Tail(queue[h])]
  BY DEF Send
<1>4. \A r \in Streams : sent'[r] \subseteq sent[r] \cup {Head(queue[h])}
  <2>1. CASE UNCHANGED sent
    BY <2>1
  <2>2. CASE sent' = [sent EXCEPT ![s] = sent[s] \cup {Head(queue[h])}]
    BY <2>2 DEF Types
  <2> QED BY <2>1, <2>2 DEF Send
<1>5. \A r \in Streams : Elements(queue'[r]) \subseteq Elements(queue[r])
  BY <1>1, <1>2, <1>3 DEF Types
<1>6. Head(queue[h]) \in InFlight
  BY <1>1, <1>2 DEF InFlight
<1>7. InFlight' \subseteq InFlight
  BY <1>4, <1>5, <1>6 DEF InFlight
<1> QED BY <1>7 DEF Aside, Send, callVars, history

\* The steps of a stream other than the receipt of an answer.
LEMMA StreamsAside ==
  ASSUME Types, NEW s \in Streams,
         \/ \E n \in Nodes : Enter(s, n)
         \/ ChoosePrimary(s) \/ FindNodeActive(s) \/ UpdateNodeActive(s)
         \/ CreateNodeMessage(s) \/ OpenFails(s) \/ RegisterChan(s) \/ StartSender(s) \/ Send(s) \/ EndSender(s)
         \/ RecvFails(s) \/ DeleteChan(s) \/ CheckPrimary(s)
         \/ ClearPrimary(s) \/ MovePrimary(s) \/ SetInactive(s)
  PROVE  Aside
<1>1. CASE Send(s)
  BY <1>1, SendAside
<1>2. CASE RecvFails(s)
  <2>1. queue' = queue /\ \A r \in Streams : sent'[r] \subseteq sent[r]
    BY <1>2 DEF RecvFails, Types
  <2>2. InFlight' \subseteq InFlight
    BY <2>1 DEF InFlight
  <2> QED BY <1>2, <2>2 DEF Aside, RecvFails, opening
<1>3. ASSUME NEW n \in Nodes, Enter(s, n) PROVE Aside
  BY <1>3, InFlightSame DEF Aside, Enter
<1>4. CASE ChoosePrimary(s) \/ FindNodeActive(s) \/ UpdateNodeActive(s) \/ CreateNodeMessage(s) \/ OpenFails(s)
  BY <1>4, InFlightSame DEF Aside, ChoosePrimary, FindNodeActive, UpdateNodeActive, CreateNodeMessage, OpenFails, opening
<1>5. CASE RegisterChan(s) \/ StartSender(s) \/ EndSender(s)
  BY <1>5, InFlightSame DEF Aside, RegisterChan, StartSender, EndSender, streamVars, history
<1>6. CASE DeleteChan(s) \/ CheckPrimary(s) \/ ClearPrimary(s) \/ MovePrimary(s) \/ SetInactive(s)
  BY <1>6, InFlightSame DEF Aside, DeleteChan, CheckPrimary, ClearPrimary, MovePrimary, SetInactive, opening
<1> QED BY <1>1, <1>2, <1>3, <1>4, <1>5, <1>6

\* Call c goes on to one of the steps in to, and no other call moves.
Change(c, to) ==
  /\ \A d \in Calls : d # c => call'[d] = call[d]
  /\ call'[c].pc \in to

\* What each step of a call makes of its record.
LEMMA CallChange ==
  ASSUME Types, NEW c \in Calls
  PROVE  /\ FindChan(c) => Change(c, {"push", "done"}) /\ call'[c].result \in {call[c].result, "none"}
         /\ Push(c) => /\ Change(c, {"pushed", "done"}) /\ call'[c].result \in {call[c].result, "none"}
                       /\ call'[c].pc = "pushed" => call'[c].id = commandRequestId + 1
         /\ Wait(c) => Change(c, {"wait"}) /\ call'[c].result = call[c].result /\ call'[c].id = call[c].id
         /\ TakeAnswer(c) => /\ Change(c, {"forget"}) /\ call'[c].id = call[c].id
                             /\ call'[c].result = IF respChan[c].msgs = <<>> THEN "none" ELSE Head(respChan[c].msgs)
         /\ Timeout(c) => Change(c, {"forget"}) /\ call'[c].result = call[c].result /\ call'[c].id = call[c].id
         /\ Forget(c) => Change(c, {"done"}) /\ call'[c].result = call[c].result
<1> USE DEF Types, Call, Change
<1>1. FindChan(c) => Change(c, {"push", "done"}) /\ call'[c].result \in {call[c].result, "none"}
  BY DEF FindChan, Done
<1>2. Push(c) => /\ Change(c, {"pushed", "done"}) /\ call'[c].result \in {call[c].result, "none"}
                 /\ call'[c].pc = "pushed" => call'[c].id = commandRequestId + 1
  BY DEF Push, Done, NextId
<1>3. Wait(c) => Change(c, {"wait"}) /\ call'[c].result = call[c].result /\ call'[c].id = call[c].id
  BY DEF Wait
<1>4. TakeAnswer(c) => /\ Change(c, {"forget"}) /\ call'[c].id = call[c].id
                       /\ call'[c].result = IF respChan[c].msgs = <<>> THEN "none" ELSE Head(respChan[c].msgs)
  BY DEF TakeAnswer
<1>5. Timeout(c) => Change(c, {"forget"}) /\ call'[c].result = call[c].result /\ call'[c].id = call[c].id
  BY DEF Timeout
<1>6. Forget(c) => Change(c, {"done"}) /\ call'[c].result = call[c].result
  BY DEF Forget, Done
<1> QED BY <1>1, <1>2, <1>3, <1>4, <1>5, <1>6

\* An answer is taken out of its channel.
LEMMA TakenChan ==
  ASSUME Types, NEW c \in Calls, TakeAnswer(c)
  PROVE  /\ \A d \in Calls : respChan'[d].open = respChan[d].open
         /\ \A d \in Calls : d # c => respChan'[d] = respChan[d]
         /\ respChan'[c].msgs = IF respChan[c].msgs = <<>> THEN <<>> ELSE Tail(respChan[c].msgs)
<1> DEFINE qs == IF respChan[c].msgs = <<>> THEN respChan[c].msgs ELSE Tail(respChan[c].msgs)
<1>1. respChan' = [respChan EXCEPT ![c] = [respChan[c] EXCEPT !.msgs = qs]]
  BY DEF TakeAnswer, Types
<1>2. respChan \in [Calls -> Chan] /\ respChan[c] \in Chan
  BY DEF Types
<1>3. [respChan[c] EXCEPT !.msgs = qs].msgs = qs /\ [respChan[c] EXCEPT !.msgs = qs].open = respChan[c].open
  BY <1>2 DEF Chan
<1> QED BY <1>1, <1>2, <1>3

\* The receipt of an answer: no channel it is put into is closed, and it gets into
\* that of a call that waits for it.
LEMMA Received ==
  ASSUME CallInv, NEW s \in Streams, Receive(s)
  PROVE  \E m \in InFlight :
           /\ InFlight' \subseteq InFlight
           /\ UNCHANGED <<commandRequestId, waiting, call>>
           /\ answered' = answered \cup ({m.call} \cap InPc({"pushed", "wait"}))
           /\ early' = early \cup ({m.call} \cap InPc({"pushed"}))
           /\ ~stuck'
           /\ \A c \in Calls : /\ respChan'[c].open = respChan[c].open
                               /\ respChan'[c].msgs \in {respChan[c].msgs, <<c>>}
           /\ m.call \in InPc({"wait"}) /\ respChan[m.call].open => respChan'[m.call].msgs = <<m.call>>
<1> DEFINE cs(m) == {w.call : w \in {x \in waiting : x.id = m.id}}
<1>1. PICK m \in sent[s] :
        /\ answered' = answered \cup ({m.call} \cap InPc({"pushed", "wait"}))
        /\ early' = early \cup ({m.call} \cap InPc({"pushed"}))
        /\ sent' = [sent EXCEPT ![s] = sent[s] \ {m}]
        /\ stuck' = \E c \in cs(m) : ~respChan[c].open
        /\ respChan' = [c \in Calls |->
             IF c \in cs(m) /\ respChan[c].open /\ Len(respChan[c].msgs) < RespSize
             THEN [respChan[c] EXCEPT !.msgs = <<m.call>>] ELSE respChan[c]]
  BY Zenon DEF Receive
<1>2. UNCHANGED <<queue, commandRequestId, waiting, call>>
  BY DEF Receive
<1>3. m \in InFlight /\ m \in Msg
  BY DEF InFlight, CallInv, Types
<1>4. InFlight' \subseteq InFlight
  <2>1. \A r \in Streams : sent'[r] \subseteq sent[r]
    BY <1>1 DEF CallInv, Types
  <2> QED BY <1>2, <2>1 DEF InFlight
<1>5. \A c \in cs(m) : c = m.call /\ respChan[c].open
  <2> SUFFICES ASSUME NEW w \in waiting, w.id = m.id
               PROVE  w.call = m.call /\ respChan[w.call].open
    OBVIOUS
  <2>1. /\ w.call \in InPc({"wait", "forget"}) /\ w.id = call[w.call].id
        /\ respChan[w.call].open
    BY DEF CallInv, Entries
  <2>2. w.call \in Active
    BY <2>1 DEF Active, InPc
  <2>3. \A c \in Active : call[c].id = m.id => m.call = c
    BY <1>3 DEF CallInv, Messages
  <2>4. call[w.call].id = m.id
    BY <2>1
  <2> QED BY <2>1, <2>2, <2>3, <2>4
<1>6. ~stuck'
  BY <1>1, <1>5
<1>7. \A c \in Calls : respChan[c] \in Chan
  BY DEF CallInv, Types
<1>8. \A c \in Calls : /\ respChan'[c].open = respChan[c].open
                       /\ respChan'[c].msgs \in {respChan[c].msgs, <<c>>}
  <2> SUFFICES ASSUME NEW c \in Calls
               PROVE  /\ respChan'[c].open = respChan[c].open
                      /\ respChan'[c].msgs \in {respChan[c].msgs, <<c>>}
    OBVIOUS
  <2>1. respChan'[c] = respChan[c] \/ (c \in cs(m) /\ respChan'[c] = [respChan[c] EXCEPT !.msgs = <<m.call>>])
    BY <1>1
  <2> HIDE DEF cs
  <2> QED BY <1>5, <1>7, <2>1 DEF Chan
<1>9. ASSUME m.call \in InPc({"wait"}), respChan[m.call].open PROVE respChan'[m.call].msgs = <<m.call>>
  <2> DEFINE c == m.call
  <2>1. PICK w \in waiting : w.call = c
    BY <1>9 DEF CallInv, Entries
  <2>2. w.id = m.id
    <3>1. c \in Active /\ w.id = call[c].id
      BY <1>9, <2>1 DEF CallInv, Entries, Active, InPc
    <3> QED BY <1>3, <3>1 DEF CallInv, Messages
  <2>3. c \in cs(m) /\ c \in Calls
    BY <1>3, <2>1, <2>2 DEF Msg
  <2>4. CASE respChan[c].msgs = <<>>
    <3>1. Len(respChan[c].msgs) < RespSize
      BY <2>4 DEF RespSize
    <3>2. respChan'[c] = [respChan[c] EXCEPT !.msgs = <<m.call>>]
      BY <1>1, <1>9, <2>3, <3>1
    <3> QED BY <1>7, <2>3, <3>2 DEF Chan
  <2>5. CASE respChan[c].msgs = <<c>>
    BY <1>8, <2>3, <2>5
  <2> QED BY <2>3, <2>4, <2>5 DEF CallInv, Answers
<1> QED BY <1>1, <1>2, <1>3, <1>4, <1>6, <1>8, <1>9

-----------------------------------------------------------------------------
(***************************************************************************)
(* Messages.                                                               *)
(***************************************************************************)

\* Commands that are there already stay those of their calls.
LEMMA MessagesKept ==
  ASSUME Types, Messages, InFlight' \subseteq InFlight,
         commandRequestId' = commandRequestId,
         \A d \in Active' : d \in Active /\ call'[d].id = call[d].id,
         \A d \in Calls : call[d].pc \notin {"idle", "push"} => call'[d].pc \notin {"idle", "push"}
  PROVE  Messages'
<1> SUFFICES ASSUME NEW m \in InFlight'
             PROVE  /\ m.id <= commandRequestId'
                    /\ call'[m.call].pc \notin {"idle", "push"}
                    /\ m.call \in Active' => m.id = call'[m.call].id
                    /\ \A c \in Active' : call'[c].id = m.id => m.call = c
  BY DEF Messages
<1>1. m \in InFlight /\ m.call \in Calls
  BY InFlightType DEF Msg
<1> QED BY <1>1 DEF Messages

\* A call that pushes: its id is new, and so is the command.
LEMMA PushMessages ==
  ASSUME Types, Messages, NEW c \in Calls, Push(c)
  PROVE  Messages'
<1> DEFINE h == call[c].chan
           n == commandRequestId + 1
           m == [id |-> n, call |-> c]
<1>1. h \in Streams /\ n \in Nat /\ m \in Msg /\ commandRequestId \in Nat
  BY DEF Push, Types, Linked, InPc, Msg
<1>2. /\ \A d \in Calls : d # c => call'[d] = call[d]
      /\ call'[c].pc \in {"pushed", "done"} /\ (call'[c].pc = "pushed" => call'[c].id = n)
      /\ call[c].pc = "push" /\ commandRequestId' = n
  BY CallChange DEF Change, Push, NextId
<1>3. InFlight' \subseteq InFlight \cup (IF call'[c].pc = "pushed" THEN {m} ELSE {})
  <2>1. CASE HasRoom(h)
    <3>1. /\ queue' = [queue EXCEPT ![h] = Append(queue[h], m)] /\ sent' = sent
          /\ call'[c].pc = "pushed"
      BY <2>1 DEF Push, NextId, calling, Types, Call
    <3>2. Elements(Append(queue[h], m)) \subseteq Elements(queue[h]) \cup {m}
      BY <1>1, AppendElements DEF Types
    <3>3. \A s \in Streams : Elements(queue'[s]) \subseteq Elements(queue[s]) \cup {m}
      BY <1>1, <3>1, <3>2 DEF Types
    <3> HIDE DEF m
    <3> QED BY <3>1, <3>3 DEF InFlight
  <2>2. CASE ~HasRoom(h)
    BY <2>2, InFlightSame DEF Push, calling
  <2> QED BY <2>1, <2>2
<1>4. \A d \in Active : call[d].id \in 1..commandRequestId /\ d # c
  BY <1>2 DEF Types, Ids, Active, InPc
<1>5. \A d \in Active' : d # c => d \in Active /\ call'[d] = call[d]
  BY <1>2 DEF Active, InPc
<1> SUFFICES ASSUME NEW x \in InFlight'
             PROVE  /\ x.id <= commandRequestId'
                    /\ call'[x.call].pc \notin {"idle", "push"}
                    /\ x.call \in Active' => x.id = call'[x.call].id
                    /\ \A d \in Active' : call'[d].id = x.id => x.call = d
  BY DEF Messages
<1>6. CASE x \in InFlight
  <2>1. x \in Msg /\ x.id \in Nat /\ x.call \in Calls
    BY <1>6, InFlightType DEF Msg
  <2>2. /\ x.id <= commandRequestId
        /\ call[x.call].pc \notin {"idle", "push"}
        /\ x.call \in Active => x.id = call[x.call].id
        /\ \A d \in Active : call[d].id = x.id => x.call = d
    BY <1>6 DEF Messages
  <2>3. x.call # c /\ call'[x.call] = call[x.call]
    BY <1>2, <2>1, <2>2
  <2>4. x.call \in Active' => x.id = call'[x.call].id
    BY <1>5, <2>2, <2>3
  <2>5. ASSUME NEW d \in Active', call'[d].id = x.id PROVE x.call = d
    <3>1. CASE d = c
      BY <1>1, <1>2, <2>1, <2>2, <2>5, <3>1 DEF Active, InPc
    <3>2. CASE d # c
      BY <1>5, <2>2, <2>5, <3>2
    <3> QED BY <3>1, <3>2
  <2> QED BY <1>1, <1>2, <2>1, <2>2, <2>3, <2>4, <2>5
<1>7. CASE x = m /\ call'[c].pc = "pushed"
  <2>1. x.id = n /\ x.call = c
    BY <1>7
  <2>2. ASSUME NEW d \in Active', call'[d].id = n PROVE d = c
    BY <1>1, <1>4, <1>5, <2>2
  <2> QED BY <1>1, <1>2, <1>7, <2>1, <2>2
<1> QED BY <1>3, <1>6, <1>7

\* Every command stays one of its call, with an id of its own.
LEMMA MessagesStep == CallInv /\ [Next]_vars => Messages'
<1> SUFFICES ASSUME CallInv, [Next]_vars PROVE Messages'
  OBVIOUS
<1>0. Types /\ Messages
  BY DEF CallInv
<1>1. ASSUME Aside PROVE Messages'
  <2>1. UNCHANGED <<call, commandRequestId>> /\ InFlight' \subseteq InFlight
    BY <1>1 DEF Aside, callVars
  <2>2. Active' = Active
    BY <2>1 DEF Active, InPc
  <2> QED BY <1>0, <2>1, <2>2, MessagesKept
<1>2. ASSUME NEW s \in Streams, Receive(s) PROVE Messages'
  <2>1. UNCHANGED <<call, commandRequestId>> /\ InFlight' \subseteq InFlight
    BY <1>2, Received
  <2>2. Active' = Active
    BY <2>1 DEF Active, InPc
  <2> QED BY <1>0, <2>1, <2>2, MessagesKept
<1>3. ASSUME NEW c \in Calls, FindChan(c) \/ Wait(c) \/ TakeAnswer(c) \/ Timeout(c) \/ Forget(c)
      PROVE  Messages'
  <2>1. UNCHANGED <<queue, sent, commandRequestId>>
    BY <1>3 DEF FindChan, Wait, TakeAnswer, Timeout, Forget, calling
  <2>2. InFlight' = InFlight
    BY <2>1, InFlightSame
  <2>3. \/ Change(c, {"push", "done"}) /\ call[c].pc = "idle"
        \/ Change(c, {"wait", "forget"}) /\ call'[c].id = call[c].id /\ call[c].pc \in {"pushed", "wait"}
        \/ Change(c, {"done"})
    BY <1>0, <1>3, CallChange DEF FindChan, Wait, TakeAnswer, Timeout, Change
  <2>4. \A d \in Active' : d \in Active /\ call'[d].id = call[d].id
    BY <2>3 DEF Change, Active, InPc
  <2>5. \A d \in Calls : call[d].pc \notin {"idle", "push"} => call'[d].pc \notin {"idle", "push"}
    BY <2>3 DEF Change
  <2> QED BY <1>0, <2>1, <2>2, <2>4, <2>5, MessagesKept
<1>4. ASSUME NEW c \in Calls, Push(c) PROVE Messages'
  BY <1>0, <1>4, PushMessages
<1>5. ASSUME CleanWaiting PROVE Messages'
  <2>1. UNCHANGED <<queue, sent, commandRequestId, call>>
    BY <1>5 DEF CleanWaiting, calling
  <2>2. InFlight' = InFlight /\ Active' = Active
    BY <2>1, InFlightSame DEF Active, InPc
  <2> QED BY <1>0, <2>1, <2>2, MessagesKept
<1>6. ASSUME NEW n \in Nodes, ReportStatus(n) PROVE Aside
  BY <1>6, InFlightSame DEF ReportStatus, Aside, opening
<1>7. ASSUME UNCHANGED vars PROVE Aside
  BY <1>7, InFlightSame DEF vars, streamVars, history, Aside
<1> QED BY <1>0, <1>1, <1>2, <1>3, <1>4, <1>5, <1>6, <1>7, StreamsAside DEF Next

-----------------------------------------------------------------------------
(***************************************************************************)
(* Entries.                                                                *)
(***************************************************************************)

\* The call begins to wait.
LEMMA WaitEntries ==
  ASSUME Types, Entries, NEW c \in Calls, Wait(c)
  PROVE  Entries'
<1> DEFINE e == [id |-> call[c].id, call |-> c]
<1>1. /\ \A d \in Calls : d # c => call'[d] = call[d]
      /\ call'[c].pc = "wait" /\ call'[c].id = call[c].id
      /\ call[c].pc = "pushed" /\ respChan' = respChan
      /\ waiting' = {w \in waiting : w.id # call[c].id} \cup {e}
  BY CallChange DEF Change, Wait
<1>2. respChan[c].open /\ e.id = call[c].id /\ e.call = c
  BY <1>1 DEF Entries, InPc
<1> HIDE DEF e
<1>3. ASSUME NEW w \in waiting'
      PROVE  /\ w.call \in InPc({"wait", "forget"})' /\ w.id = call'[w.call].id
             /\ respChan'[w.call].open
  <2>1. CASE w = e
    BY <1>1, <1>2, <2>1 DEF InPc
  <2>2. CASE w \in waiting
    <3>1. w.call \in InPc({"wait", "forget"}) /\ w.id = call[w.call].id /\ respChan[w.call].open
      BY <2>2 DEF Entries
    <3>2. w.call # c
      BY <1>1, <3>1 DEF InPc
    <3> QED BY <1>1, <3>1, <3>2 DEF InPc
  <2> QED BY <1>1, <2>1, <2>2
<1>4. \A d \in InPc({"idle", "push", "pushed"})' : respChan'[d].open
  BY <1>1 DEF Entries, InPc
<1>5. ASSUME NEW d \in InPc({"wait"})', respChan'[d].open
      PROVE  \E w \in waiting' : w.call = d
  <2>1. CASE d = c
    BY <1>1, <1>2, <2>1
  <2>2. CASE d # c
    <3>1. d \in InPc({"wait"}) /\ respChan[d].open
      BY <1>1, <1>5, <2>2 DEF InPc
    <3>2. PICK w \in waiting : w.call = d
      BY <3>1 DEF Entries
    <3>3. w.id # call[c].id
      BY <1>1, <2>2, <3>1, <3>2 DEF Entries, Types, Ids, Active, InPc
    <3> QED BY <1>1, <3>2, <3>3
  <2> QED BY <2>1, <2>2
<1> QED BY <1>3, <1>4, <1>5 DEF Entries

\* The call takes its entry out and closes its channel.
LEMMA ForgetEntries ==
  ASSUME Types, Entries, NEW c \in Calls, Forget(c)
  PROVE  Entries'
<1>1. /\ \A d \in Calls : d # c => call'[d] = call[d]
      /\ call'[c].pc = "done" /\ call[c].pc = "forget"
      /\ waiting' = {w \in waiting : w.id # call[c].id}
      /\ \A d \in Calls : d # c => respChan'[d] = respChan[d]
  BY CallChange DEF Change, Forget, Without, Types
<1>2. ASSUME NEW w \in waiting'
      PROVE  /\ w.call \in InPc({"wait", "forget"})' /\ w.id = call'[w.call].id
             /\ respChan'[w.call].open
  <2>1. w.call \in InPc({"wait", "forget"}) /\ w.id = call[w.call].id /\ respChan[w.call].open
    BY <1>1, <1>2 DEF Entries
  <2>2. w.call # c
    BY <1>1, <1>2, <2>1
  <2> QED BY <1>1, <2>1, <2>2 DEF InPc
<1>3. \A d \in InPc({"idle", "push", "pushed"})' : respChan'[d].open
  BY <1>1 DEF Entries, InPc
<1>4. ASSUME NEW d \in InPc({"wait"})', respChan'[d].open
      PROVE  \E w \in waiting' : w.call = d
  <2>1. d # c /\ d \in InPc({"wait"}) /\ respChan[d].open
    BY <1>1, <1>4 DEF InPc
  <2>2. PICK w \in waiting : w.call = d
    BY <2>1 DEF Entries
  <2>3. w.id # call[c].id
    BY <1>1, <2>1, <2>2 DEF Entries, Types, Ids, Active, InPc
  <2> QED BY <1>1, <2>2, <2>3
<1> QED BY <1>2, <1>3, <1>4 DEF Entries

\* The cleaner takes the entry of a call out and closes its channel.
LEMMA CleanEntries ==
  ASSUME Types, Entries, CleanWaiting
  PROVE  Entries'
<1>1. PICK old \in SUBSET waiting :
        /\ waiting' = waiting \ old
        /\ respChan' = [d \in Calls |-> IF \E w \in old : w.call = d
                                        THEN [respChan[d] EXCEPT !.open = FALSE] ELSE respChan[d]]
  BY DEF CleanWaiting
<1>2. call' = call
  BY DEF CleanWaiting
<1>3. \A d \in Calls : (\A w \in old : w.call # d) => respChan'[d] = respChan[d]
  BY <1>1
<1>4. \A d \in Calls : (\E w \in old : w.call = d) => ~respChan'[d].open
  BY <1>1 DEF Types, Chan
<1>5. ASSUME NEW w \in waiting'
      PROVE  /\ w.call \in InPc({"wait", "forget"})' /\ w.id = call'[w.call].id
             /\ respChan'[w.call].open
  <2>1. /\ w \in waiting /\ w \notin old /\ w \in Msg
        /\ w.call \in InPc({"wait", "forget"}) /\ w.id = call[w.call].id /\ respChan[w.call].open
    BY <1>1, <1>5 DEF Entries, Types
  <2>2. ASSUME NEW x \in old, x.call = w.call PROVE FALSE
    <3>1. x.id = w.id /\ x \in Msg
      BY <1>1, <2>1, <2>2 DEF Entries, Types
    <3>2. x = w
      BY <2>1, <2>2, <3>1 DEF Msg
    <3> QED BY <2>1, <3>2
  <2>3. respChan'[w.call] = respChan[w.call]
    BY <1>3, <2>1, <2>2 DEF Msg
  <2> QED BY <1>2, <2>1, <2>3 DEF InPc
<1>6. \A d \in InPc({"idle", "push", "pushed"})' : respChan'[d].open
  <2> SUFFICES ASSUME NEW d \in InPc({"idle", "push", "pushed"}) PROVE respChan'[d].open
    BY <1>2 DEF InPc
  <2>1. respChan[d].open /\ \A w \in old : w.call # d
    BY <1>1 DEF Entries, InPc
  <2> QED BY <1>3, <2>1 DEF InPc
<1>7. ASSUME NEW d \in InPc({"wait"})', respChan'[d].open
      PROVE  \E w \in waiting' : w.call = d
  <2>1. d \in InPc({"wait"}) /\ d \in Calls
    BY <1>2, <1>7 DEF InPc
  <2>2. \A w \in old : w.call # d
    BY <1>4, <1>7, <2>1
  <2>3. PICK w \in waiting : w.call = d
    BY <1>3, <1>7, <2>1, <2>2 DEF Entries
  <2> QED BY <1>1, <2>2, <2>3
<1> QED BY <1>5, <1>6, <1>7 DEF Entries

\* The entry and the open channel of a call go together.
LEMMA EntriesStep == CallInv /\ [Next]_vars => Entries'
<1> SUFFICES ASSUME CallInv, [Next]_vars PROVE Entries'
  OBVIOUS
<1>0. Types /\ Entries
  BY DEF CallInv
<1>1. ASSUME Aside PROVE Entries'
  BY <1>0, <1>1 DEF Aside, callVars, Entries, InPc
<1>2. ASSUME NEW s \in Streams, Receive(s) PROVE Entries'
  <2>1. UNCHANGED <<waiting, call>> /\ \A c \in Calls : respChan'[c].open = respChan[c].open
    BY <1>2, Received
  <2> QED BY <1>0, <2>1 DEF Entries, InPc
<1>3. ASSUME NEW c \in Calls, FindChan(c) \/ Push(c) \/ TakeAnswer(c) \/ Timeout(c)
      PROVE  Entries'
  <2>1. waiting' = waiting /\ \A d \in Calls : respChan'[d].open = respChan[d].open
    <3>1. CASE TakeAnswer(c)
      BY <1>0, <3>1, TakenChan DEF TakeAnswer
    <3> QED BY <1>3, <3>1 DEF FindChan, Push, Timeout
  <2>2. \/ Change(c, {"push", "pushed", "done"}) /\ call[c].pc \in {"idle", "push"}
        \/ Change(c, {"forget"}) /\ call'[c].id = call[c].id /\ call[c].pc = "wait"
    BY <1>0, <1>3, CallChange DEF FindChan, Push, TakeAnswer, Timeout, Change
  <2>3. ASSUME NEW w \in waiting'
        PROVE  /\ w.call \in InPc({"wait", "forget"})' /\ w.id = call'[w.call].id
               /\ respChan'[w.call].open
    <3>1. w.call \in InPc({"wait", "forget"}) /\ w.id = call[w.call].id /\ respChan[w.call].open
      BY <1>0, <2>1, <2>3 DEF Entries
    <3> QED BY <2>1, <2>2, <3>1 DEF Change, InPc
  <2>4. \A d \in InPc({"idle", "push", "pushed"})' : respChan'[d].open
    BY <1>0, <2>1, <2>2 DEF Change, Entries, InPc
  <2>5. \A d \in InPc({"wait"})' : d \in InPc({"wait"})
    BY <2>2 DEF Change, InPc
  <2> QED BY <1>0, <2>1, <2>3, <2>4, <2>5 DEF Entries, InPc
<1>4. ASSUME NEW c \in Calls, Wait(c) PROVE Entries'
  BY <1>0, <1>4, WaitEntries
<1>5. ASSUME NEW c \in Calls, Forget(c) PROVE Entries'
  BY <1>0, <1>5, ForgetEntries
<1>6. ASSUME CleanWaiting PROVE Entries'
  BY <1>0, <1>6, CleanEntries
<1>7. ASSUME NEW n \in Nodes, ReportStatus(n) PROVE Aside
  BY <1>7, InFlightSame DEF ReportStatus, Aside, opening
<1>8. ASSUME UNCHANGED vars PROVE Aside
  BY <1>8, InFlightSame DEF vars, streamVars, history, Aside
<1> QED BY <1>0, <1>1, <1>2, <1>3, <1>4, <1>5, <1>6, <1>7, <1>8, StreamsAside DEF Next

-----------------------------------------------------------------------------
(***************************************************************************)
(* Answers.                                                                *)
(***************************************************************************)

\* What is in a channel is the answer to its call, and stays while it waits.
LEMMA AnswersStep == CallInv /\ [Next]_vars => Answers' /\ NeverStuck'
<1> SUFFICES ASSUME CallInv, [Next]_vars PROVE Answers' /\ NeverStuck'
  OBVIOUS
<1>0. Types /\ Answers /\ ~stuck
  BY DEF CallInv, NeverStuck
<1>1. ASSUME Aside PROVE Answers' /\ NeverStuck'
  BY <1>0, <1>1 DEF Aside, callVars, Answers, OwnAnswer, AnswerKept, Active, InPc, NeverStuck
<1>2. ASSUME NEW s \in Streams, Receive(s) PROVE Answers' /\ NeverStuck'
  <2>1. PICK m \in InFlight :
           /\ call' = call
           /\ answered' = answered \cup ({m.call} \cap InPc({"pushed", "wait"}))
           /\ early' = early \cup ({m.call} \cap InPc({"pushed"}))
           /\ ~stuck'
           /\ \A c \in Calls : /\ respChan'[c].open = respChan[c].open
                               /\ respChan'[c].msgs \in {respChan[c].msgs, <<c>>}
           /\ m.call \in InPc({"wait"}) /\ respChan[m.call].open => respChan'[m.call].msgs = <<m.call>>
    BY <1>2, Received
  <2>2. \A c \in Calls : respChan'[c].msgs \in {<<>>, <<c>>}
    BY <1>0, <2>1 DEF Answers
  <2>3. OwnAnswer' /\ answered' \subseteq Active' /\ answered' \cap InPc({"pushed"})' \subseteq early'
    BY <1>0, <2>1 DEF Answers, OwnAnswer, Active, InPc
  <2>4. ASSUME NEW c \in answered' \ early', call'[c].pc = "wait", respChan'[c].open
        PROVE  respChan'[c].msgs = <<c>>
    <3>1. c \in Calls /\ call[c].pc = "wait" /\ c \in InPc({"wait"}) /\ respChan[c].open
      BY <1>0, <2>1, <2>4 DEF Answers, Active, InPc
    <3>2. CASE c \in answered \ early
      <4>1. respChan[c].msgs = <<c>>
        BY <1>0, <3>1, <3>2 DEF Answers, AnswerKept
      <4> QED BY <2>1, <3>1, <4>1
    <3>3. CASE c = m.call
      BY <2>1, <3>1, <3>3
    <3> QED BY <2>1, <2>4, <3>2, <3>3
  <2> QED BY <2>1, <2>2, <2>3, <2>4 DEF Answers, AnswerKept, NeverStuck
<1>3. ASSUME NEW c \in Calls, FindChan(c) \/ Push(c) \/ Wait(c) \/ Timeout(c)
      PROVE  Answers' /\ NeverStuck'
  <2>1. UNCHANGED <<respChan, stuck, early, answered>>
    BY <1>3 DEF FindChan, Push, Wait, Timeout
  <2>2. /\ \/ Change(c, {"push", "pushed", "done"}) /\ call[c].pc \in {"idle", "push"}
           \/ Change(c, {"wait"}) /\ call[c].pc = "pushed"
           \/ Change(c, {"forget"}) /\ call[c].pc = "wait"
        /\ call'[c].result \in {call[c].result, "none"}
    BY <1>0, <1>3, CallChange DEF FindChan, Push, Wait, Timeout, Change
  <2>3. OwnAnswer'
    BY <1>0, <2>2 DEF Answers, OwnAnswer, Change
  <2>4. answered' \subseteq Active' /\ answered' \cap InPc({"pushed"})' \subseteq early'
    BY <1>0, <2>1, <2>2 DEF Answers, Active, InPc, Change
  <2>5. AnswerKept'
    BY <1>0, <2>1, <2>2 DEF Answers, AnswerKept, Active, InPc, Change
  <2> QED BY <1>0, <2>1, <2>3, <2>4, <2>5 DEF Answers, NeverStuck
<1>4. ASSUME NEW c \in Calls, TakeAnswer(c) PROVE Answers' /\ NeverStuck'
  <2>1. /\ UNCHANGED <<stuck, early, answered>> /\ call[c].pc = "wait"
        /\ Change(c, {"forget"})
        /\ call'[c].result = IF respChan[c].msgs = <<>> THEN "none" ELSE Head(respChan[c].msgs)
        /\ \A d \in Calls : d # c => respChan'[d] = respChan[d]
        /\ respChan'[c].msgs = IF respChan[c].msgs = <<>> THEN <<>> ELSE Tail(respChan[c].msgs)
    BY <1>0, <1>4, CallChange, TakenChan DEF TakeAnswer
  <2>2. respChan[c].msgs \in {<<>>, <<c>>} /\ Head(<<c>>) = c /\ Tail(<<c>>) = <<>>
    BY <1>0 DEF Answers
  <2>3. call'[c].result \in {"none", c} /\ respChan'[c].msgs = <<>>
    BY <2>1, <2>2
  <2>4. OwnAnswer' /\ \A d \in Calls : respChan'[d].msgs \in {<<>>, <<d>>}
    BY <1>0, <2>1, <2>3 DEF Answers, OwnAnswer, Change
  <2>5. answered' \subseteq Active' /\ answered' \cap InPc({"pushed"})' \subseteq early'
    BY <1>0, <2>1 DEF Answers, Active, InPc, Change
  <2>6. AnswerKept'
    BY <1>0, <2>1 DEF Answers, AnswerKept, Active, InPc, Change
  <2> QED BY <1>0, <2>1, <2>4, <2>5, <2>6 DEF Answers, NeverStuck
<1>5. ASSUME NEW c \in Calls, Forget(c) PROVE Answers' /\ NeverStuck'
  <2>1. /\ stuck' = stuck /\ early' = early \ {c} /\ answered' = answered \ {c}
        /\ Change(c, {"done"}) /\ call'[c].result = call[c].result
        /\ \A d \in Calls : d # c => respChan'[d] = respChan[d]
        /\ respChan'[c].msgs = <<>>
    BY <1>0, <1>5, CallChange DEF Forget, Types, Closed
  <2>2. OwnAnswer' /\ \A d \in Calls : respChan'[d].msgs \in {<<>>, <<d>>}
    BY <1>0, <2>1 DEF Answers, OwnAnswer, Change
  <2>3. answered' \subseteq Active' /\ answered' \cap InPc({"pushed"})' \subseteq early'
    BY <1>0, <2>1 DEF Answers, Active, InPc, Change
  <2>4. AnswerKept'
    BY <1>0, <2>1 DEF Answers, AnswerKept, Active, InPc, Change
  <2> QED BY <1>0, <2>1, <2>2, <2>3, <2>4 DEF Answers, NeverStuck
<1>6. ASSUME CleanWaiting PROVE Answers' /\ NeverStuck'
  <2>1. UNCHANGED <<call, stuck, early, answered>>
    BY <1>6 DEF CleanWaiting
  <2>2. \A d \in Calls : respChan'[d].msgs = respChan[d].msgs /\ (respChan'[d].open => respChan[d].open)
    <3>1. PICK old \in SUBSET waiting :
            respChan' = [d \in Calls |-> IF \E w \in old : w.call = d
                                         THEN [respChan[d] EXCEPT !.open = FALSE] ELSE respChan[d]]
      BY <1>6 DEF CleanWaiting
    <3> QED BY <1>0, <3>1 DEF Types, Chan
  <2>3. OwnAnswer' /\ \A d \in Calls : respChan'[d].msgs \in {<<>>, <<d>>}
    BY <1>0, <2>1, <2>2 DEF Answers, OwnAnswer
  <2>4. answered' \subseteq Active' /\ answered' \cap InPc({"pushed"})' \subseteq early'
    BY <1>0, <2>1 DEF Answers, Active, InPc
  <2>5. AnswerKept'
    BY <1>0, <2>1, <2>2 DEF Answers, AnswerKept, Active, InPc
  <2> QED BY <1>0, <2>1, <2>3, <2>4, <2>5 DEF Answers, NeverStuck
<1>7. ASSUME NEW n \in Nodes, ReportStatus(n) PROVE Aside
  BY <1>7, InFlightSame DEF ReportStatus, Aside, opening
<1>8. ASSUME UNCHANGED vars PROVE Aside
  BY <1>8, InFlightSame DEF vars, streamVars, history, Aside
<1> QED BY <1>0, <1>1, <1>2, <1>3, <1>4, <1>5, <1>6, <1>7, <1>8, StreamsAside DEF Next

-----------------------------------------------------------------------------
(***************************************************************************)
(* The register of the senders.                                            *)
(***************************************************************************)

\* An id is new when it is entered, and one at most is taken out for a sender that
\* ends.
LEMMA CountedStep == Types /\ Counted /\ [Next]_vars => Counted'
<1> SUFFICES ASSUME Types, Counted, [Next]_vars PROVE Counted'
  OBVIOUS
<1> DEFINE R == {s \in Streams : gpc[s] = "f"}
<1>0. /\ instanceId \in Nat /\ instanceMap \subseteq 1..instanceId
      /\ IsFiniteSet(R) /\ Cardinality(R) <= Cardinality(instanceMap)
      /\ gpc \in [Streams -> {"none", "start", "f", "end"}]
  BY DEF Counted, EnoughListed, Sender!Running, Types
<1>1. IsFiniteSet(instanceMap) /\ Cardinality(instanceMap) \in Nat /\ Cardinality(R) \in Nat
  <2>1. IsFiniteSet(1..instanceId)
    BY <1>0, FS_Interval
  <2>2. IsFiniteSet(instanceMap)
    BY <1>0, <2>1, FS_Subset
  <2> HIDE DEF R
  <2> QED BY <1>0, <2>2, FS_CardinalityType
<1>2. CASE UNCHANGED registry
  BY <1>2 DEF registry, Counted, EnoughListed, Sender!Running
<1>3. ASSUME NEW s \in Streams, RegisterChan(s) PROVE Counted'
  <2>1. UNCHANGED <<instanceMap, instanceId>> /\ R' = R
    BY <1>0, <1>3 DEF RegisterChan, Sender!New
  <2> QED BY <1>0, <2>1 DEF Counted, EnoughListed, Sender!Running
<1>4. ASSUME NEW s \in Streams, StartSender(s) PROVE Counted'
  <2>1. /\ instanceId' = instanceId + 1 /\ instanceMap' = instanceMap \cup {instanceId + 1}
        /\ R' = R \cup {s} /\ s \notin R
    BY <1>0, <1>4 DEF StartSender, Sender!Register
  <2>2. instanceId' \in Nat /\ instanceMap' \subseteq 1..instanceId' /\ instanceId + 1 \notin instanceMap
    BY <1>0, <2>1
  <2>3. IsFiniteSet(R') /\ Cardinality(R') = Cardinality(R) + 1
    BY <1>0, <2>1, FS_AddElement
  <2>4. Cardinality(instanceMap') = Cardinality(instanceMap) + 1
    BY <1>1, <2>1, <2>2, FS_AddElement
  <2>5. Cardinality(R') <= Cardinality(instanceMap')
    BY <1>0, <1>1, <2>3, <2>4
  <2> QED BY <2>2, <2>3, <2>5 DEF Counted, EnoughListed, Sender!Running
<1>5. ASSUME NEW s \in Streams, EndSender(s) PROVE Counted'
  <2>1. /\ instanceId' = instanceId /\ instanceMap' = instanceMap \ {instanceId}
        /\ R' = R \ {s} /\ s \in R
    BY <1>0, <1>5 DEF EndSender, Sender!Unregister
  <2>2. instanceId' \in Nat /\ instanceMap' \subseteq 1..instanceId'
    BY <1>0, <2>1
  <2>3. IsFiniteSet(R') /\ Cardinality(R') = Cardinality(R) - 1
    BY <1>0, <2>1, FS_RemoveElement
  <2>4. Cardinality(instanceMap') >= Cardinality(instanceMap) - 1
    <3>1. Cardinality(instanceMap \ {instanceId}) \in {Cardinality(instanceMap), Cardinality(instanceMap) - 1}
      BY <1>1, FS_RemoveElement
    <3> QED BY <1>1, <2>1, <3>1
  <2>5. Cardinality(R') <= Cardinality(instanceMap')
    <3>1. IsFiniteSet(instanceMap') /\ Cardinality(instanceMap') \in Nat
      BY <1>1, <2>1, FS_RemoveElement, FS_CardinalityType
    <3> HIDE DEF R
    <3> QED BY <1>0, <1>1, <2>3, <2>4, <3>1
  <2> QED BY <2>2, <2>3, <2>5 DEF Counted, EnoughListed, Sender!Running
<1>6. ASSUME NEW s \in Streams,
             \/ \E n \in Nodes : Enter(s, n)
             \/ ChoosePrimary(s) \/ FindNodeActive(s) \/ UpdateNodeActive(s)
             \/ CreateNodeMessage(s) \/ OpenFails(s) \/ Send(s) \/ Receive(s) \/ RecvFails(s) \/ DeleteChan(s) \/ CheckPrimary(s)
             \/ ClearPrimary(s) \/ MovePrimary(s) \/ SetInactive(s)
      PROVE  UNCHANGED registry
  BY <1>6 DEF Enter, ChoosePrimary, FindNodeActive, UpdateNodeActive, CreateNodeMessage, OpenFails, Send, Receive, RecvFails,
              DeleteChan, CheckPrimary, ClearPrimary, MovePrimary, SetInactive, opening
<1>7. ASSUME NEW n \in Nodes, ReportStatus(n) PROVE UNCHANGED registry
  BY <1>7 DEF ReportStatus, opening
<1>8. ASSUME NEW c \in Calls,
             FindChan(c) \/ Push(c) \/ Wait(c) \/ TakeAnswer(c) \/ Timeout(c) \/ Forget(c)
      PROVE  UNCHANGED registry
  BY <1>8 DEF FindChan, Push, Wait, TakeAnswer, Timeout, Forget, calling
<1>9. ASSUME CleanWaiting PROVE UNCHANGED registry
  BY <1>9 DEF CleanWaiting, calling
<1>10. ASSUME UNCHANGED vars PROVE UNCHANGED registry
  BY <1>10 DEF vars
<1> QED BY <1>2, <1>3, <1>4, <1>5, <1>6, <1>7, <1>8, <1>9, <1>10 DEF Next

-----------------------------------------------------------------------------
(***************************************************************************)
(* The streams.                                                            *)
(***************************************************************************)

\* A stream that has never overlapped with another of its node is the only one.
Alone ==
  \A s, r \in Streams : Open(s) /\ Open(r) /\ s \notin mixed /\ r # s => nodeId[r] # nodeId[s]

\* A node that has a channel has a stream that will take it out of the map.
ChanServed ==
  \A n \in Nodes : chanMap[n] # NoChan =>
    \E s \in Streams : pc[s] \in {"run", "unmap"} /\ nodeId[s] = n

\* A stream alone has the channel of its node, and its node is active.
ChanOwned ==
  \A s \in Streams : pc[s] \in {"run", "unmap"} /\ s \notin mixed => chanMap[nodeId[s]] = s

ActiveSet ==
  \A s \in Streams : pc[s] \in {"message", "register", "run"} /\ s \notin mixed => isActive[nodeId[s]]

\* The primary node has a stream that has still to ask whether it is the primary one.
PrimaryServed ==
  primaryNodeId # NoNode =>
    \E s \in Streams : /\ nodeId[s] = primaryNodeId
                       /\ pc[s] \in {"find", "activate", "message", "register", "run", "unmap", "exit", "clear"}

\* The inductive invariant of the streams.
StreamInv == Alone /\ ChanServed /\ ChanOwned /\ ActiveSet /\ PrimaryServed

\* No stream is open at the start.
LEMMA StreamInit == Init => StreamInv
BY DEF Init, StreamInv, Alone, ChanServed, ChanOwned, ActiveSet, PrimaryServed, Open

\* Every step keeps what is known of the streams.
LEMMA StreamStep == Types /\ StreamInv /\ [Next]_vars => StreamInv'
<1> SUFFICES ASSUME Types, StreamInv, [Next]_vars PROVE StreamInv'
  OBVIOUS
<1> USE NodeAssumption, ChanAssumption DEF StreamInv
<1>0. ASSUME UNCHANGED <<primaryNodeId, isActive, chanMap, pc, nodeId, mixed>> PROVE StreamInv'
  BY <1>0 DEF Alone, ChanServed, ChanOwned, ActiveSet, PrimaryServed, Open
<1>1. ASSUME NEW s \in Streams, NEW n \in Nodes, Enter(s, n) PROVE StreamInv'
  <2>0. /\ pc[s] = "none" /\ nodeId \in [Streams -> Nodes \cup {NoNode}]
        /\ \A r \in Streams : r # s => pc'[r] = pc[r] /\ nodeId'[r] = nodeId[r]
        /\ pc'[s] \in {"choose", "find"} /\ nodeId'[s] = n
        /\ mixed' = IF StreamsOf(n) = {} THEN mixed ELSE mixed \cup {s} \cup StreamsOf(n)
        /\ UNCHANGED <<primaryNodeId, isActive, chanMap>>
    BY <1>1 DEF Enter, Goto, Types, TypeOK, Linked, Open
  <2>1. Alone'
    <3> SUFFICES ASSUME NEW q \in Streams, NEW r \in Streams, Open(q)', Open(r)', q \notin mixed', r # q
                 PROVE  nodeId'[r] # nodeId'[q]
      BY DEF Alone
    <3>1. CASE q = s
      BY <2>0, <3>1 DEF StreamsOf, Open
    <3>2. CASE r = s
      BY <2>0, <3>2 DEF StreamsOf, Open
    <3>3. CASE q # s /\ r # s
      <4>1. Open(q) /\ Open(r) /\ q \notin mixed
        BY <2>0, <3>3 DEF Open
      <4> QED BY <2>0, <3>3, <4>1 DEF Alone
    <3> QED BY <3>1, <3>2, <3>3
  <2>2. ChanServed'
    BY <2>0 DEF ChanServed
  <2>3. ChanOwned'
    BY <2>0 DEF ChanOwned
  <2>4. ActiveSet'
    BY <2>0 DEF ActiveSet
  <2>5. PrimaryServed'
    BY <2>0 DEF PrimaryServed
  <2> QED BY <2>1, <2>2, <2>3, <2>4, <2>5
<1>2. ASSUME NEW s \in Streams, ChoosePrimary(s) PROVE StreamInv'
  <2>0. /\ pc[s] = "choose" /\ primaryNodeId' = nodeId[s]
        /\ \A r \in Streams : pc'[r] = IF r = s THEN "find" ELSE pc[r]
        /\ UNCHANGED <<isActive, chanMap, nodeId, mixed>>
    BY <1>2 DEF ChoosePrimary, opening, Goto, Types, TypeOK
  <2>1. Alone'
    BY <2>0 DEF Alone, Open
  <2>2. ChanServed'
    BY <2>0 DEF ChanServed
  <2>3. ChanOwned'
    BY <2>0 DEF ChanOwned
  <2>4. ActiveSet'
    BY <2>0 DEF ActiveSet, Open
  <2>5. PrimaryServed'
    BY <2>0 DEF PrimaryServed
  <2> QED BY <2>1, <2>2, <2>3, <2>4, <2>5
<1>3. ASSUME NEW s \in Streams, FindNodeActive(s) PROVE StreamInv'
  <2>0. PICK l \in {"register", "activate"} :
        /\ pc[s] = "find" /\ (l = "register" => isActive[nodeId[s]])
        /\ \A r \in Streams : pc'[r] = IF r = s THEN l ELSE pc[r]
        /\ UNCHANGED <<primaryNodeId, isActive, chanMap, nodeId, mixed>>
    BY <1>3 DEF FindNodeActive, opening, Goto, Types, TypeOK
  <2>1. Alone'
    BY <2>0 DEF Alone, Open
  <2>2. ChanServed'
    BY <2>0 DEF ChanServed
  <2>3. ChanOwned'
    BY <2>0 DEF ChanOwned
  <2>4. ActiveSet'
    BY <2>0 DEF ActiveSet, Open
  <2>5. PrimaryServed'
    BY <2>0 DEF PrimaryServed
  <2> QED BY <2>1, <2>2, <2>3, <2>4, <2>5
<1>4. ASSUME NEW s \in Streams, UpdateNodeActive(s) PROVE StreamInv'
  <2>0. PICK l \in {"message", "register"} :
        /\ pc[s] = "activate" /\ nodeId[s] \in Nodes
        /\ \A r \in Streams : pc'[r] = IF r = s THEN l ELSE pc[r]
        /\ \A n \in Nodes : isActive'[n] = (n = nodeId[s] \/ isActive[n])
        /\ \A r \in Streams : Open(r) => nodeId[r] \in Nodes
        /\ UNCHANGED <<primaryNodeId, chanMap, nodeId, mixed>>
    BY <1>4 DEF UpdateNodeActive, opening, Goto, Types, TypeOK, Linked, Open
  <2>1. Alone'
    BY <2>0 DEF Alone, Open
  <2>2. ChanServed'
    BY <2>0 DEF ChanServed
  <2>3. ChanOwned'
    BY <2>0 DEF ChanOwned
  <2>4. ActiveSet'
    BY <2>0 DEF ActiveSet, Open
  <2>5. PrimaryServed'
    BY <2>0 DEF PrimaryServed
  <2> QED BY <2>1, <2>2, <2>3, <2>4, <2>5
<1>5. ASSUME NEW s \in Streams, CreateNodeMessage(s) \/ OpenFails(s) PROVE StreamInv'
  <2>0. PICK l \in {"register", "exit"} :
        /\ pc[s] \in {"find", "activate", "message"} /\ (l = "register" => pc[s] = "message")
        /\ \A r \in Streams : pc'[r] = IF r = s THEN l ELSE pc[r]
        /\ UNCHANGED <<primaryNodeId, isActive, chanMap, nodeId, mixed>>
    BY <1>5 DEF CreateNodeMessage, OpenFails, opening, Goto, Types, TypeOK
  <2>1. Alone'
    BY <2>0 DEF Alone, Open
  <2>2. ChanServed'
    BY <2>0 DEF ChanServed
  <2>3. ChanOwned'
    BY <2>0 DEF ChanOwned
  <2>4. ActiveSet'
    BY <2>0 DEF ActiveSet, Open
  <2>5. PrimaryServed'
    BY <2>0 DEF PrimaryServed
  <2> QED BY <2>1, <2>2, <2>3, <2>4, <2>5
<1>6. ASSUME NEW s \in Streams, RegisterChan(s) PROVE StreamInv'
  <2>0. /\ pc[s] = "register" /\ nodeId[s] \in Nodes
        /\ \A r \in Streams : pc'[r] = IF r = s THEN "run" ELSE pc[r]
        /\ \A n \in Nodes : chanMap'[n] = IF n = nodeId[s] /\ chanMap[n] = NoChan THEN s ELSE chanMap[n]
        /\ \A r \in Streams : Open(r) => nodeId[r] \in Nodes
        /\ \A r \in Streams : r # NoChan
        /\ UNCHANGED <<primaryNodeId, isActive, nodeId, mixed>>
    BY <1>6 DEF RegisterChan, ChanStored, history, Goto, Types, TypeOK, Linked, Open
  <2>1. Alone'
    BY <2>0 DEF Alone, Open
  <2>2. ChanServed'
    BY <2>0 DEF ChanServed
  <2>3. ChanOwned'
    <3> SUFFICES ASSUME NEW r \in Streams, pc'[r] \in {"run", "unmap"}, r \notin mixed'
                 PROVE  chanMap'[nodeId'[r]] = r
      BY DEF ChanOwned
    <3>1. Open(r) /\ nodeId[r] \in Nodes /\ Open(s)
      BY <2>0 DEF Open
    <3>2. CASE r = s
      <4>1. chanMap[nodeId[s]] = NoChan
        <5> SUFFICES ASSUME NEW q \in Streams, pc[q] \in {"run", "unmap"}, nodeId[q] = nodeId[s]
                     PROVE  FALSE
          BY <2>0 DEF ChanServed
        <5>1. Open(q) /\ q # s
          BY <2>0 DEF Open
        <5> QED BY <2>0, <3>1, <3>2, <5>1 DEF Alone
      <4> QED BY <2>0, <3>2, <4>1
    <3>3. CASE r # s
      <4>1. pc[r] \in {"run", "unmap"} /\ r \notin mixed /\ chanMap[nodeId[r]] = r
        BY <2>0, <3>3 DEF ChanOwned
      <4> QED BY <2>0, <3>1, <4>1
    <3> QED BY <3>2, <3>3
  <2>4. ActiveSet'
    BY <2>0 DEF ActiveSet
  <2>5. PrimaryServed'
    BY <2>0 DEF PrimaryServed
  <2> QED BY <2>1, <2>2, <2>3, <2>4, <2>5
<1>7. ASSUME NEW s \in Streams, RecvFails(s) PROVE StreamInv'
  BY <1>7 DEF RecvFails, opening, Goto, Types, TypeOK, Linked, Alone, ChanServed, ChanOwned, ActiveSet, PrimaryServed, Open
<1>8. ASSUME NEW s \in Streams, DeleteChan(s) PROVE StreamInv'
  <2>0. /\ pc[s] = "unmap" /\ nodeId[s] \in Nodes
        /\ \A r \in Streams : pc'[r] = IF r = s THEN "exit" ELSE pc[r]
        /\ \A n \in Nodes : chanMap'[n] = IF n = nodeId[s] THEN NoChan ELSE chanMap[n]
        /\ \A r \in Streams : Open(r) => nodeId[r] \in Nodes
        /\ UNCHANGED <<primaryNodeId, isActive, nodeId, mixed>>
    BY <1>8 DEF DeleteChan, opening, Goto, Types, TypeOK, Linked, Open
  <2>1. Alone'
    BY <2>0 DEF Alone, Open
  <2>2. ChanServed'
    BY <2>0 DEF ChanServed
  <2>3. ChanOwned'
    <3> SUFFICES ASSUME NEW r \in Streams, pc'[r] \in {"run", "unmap"}, r \notin mixed'
                 PROVE  chanMap'[nodeId'[r]] = r
      BY DEF ChanOwned
    <3>1. r # s /\ pc[r] = pc'[r] /\ r \notin mixed /\ Open(r) /\ Open(s)
      BY <2>0 DEF Open
    <3>2. nodeId[r] # nodeId[s] /\ chanMap[nodeId[r]] = r
      BY <3>1 DEF Alone, ChanOwned
    <3> QED BY <2>0, <3>1, <3>2
  <2>4. ActiveSet'
    BY <2>0 DEF ActiveSet
  <2>5. PrimaryServed'
    BY <2>0 DEF PrimaryServed
  <2> QED BY <2>1, <2>2, <2>3, <2>4, <2>5
<1>9. ASSUME NEW s \in Streams, CheckPrimary(s) PROVE StreamInv'
  <2>0. /\ pc[s] = "exit"
        /\ \A r \in Streams : pc'[r] = IF r = s THEN (IF primaryNodeId = nodeId[s] THEN "clear" ELSE "inactive") ELSE pc[r]
        /\ UNCHANGED <<primaryNodeId, isActive, chanMap, nodeId, mixed>>
    BY <1>9 DEF CheckPrimary, opening, Goto, Types, TypeOK, Linked, Open
  <2>1. Alone'
    BY <2>0 DEF Alone, Open
  <2>2. ChanServed'
    BY <2>0 DEF ChanServed
  <2>3. ChanOwned'
    BY <2>0 DEF ChanOwned
  <2>4. ActiveSet'
    BY <2>0 DEF ActiveSet
  <2>5. PrimaryServed'
    BY <2>0 DEF PrimaryServed
  <2> QED BY <2>1, <2>2, <2>3, <2>4, <2>5
<1>10. ASSUME NEW s \in Streams, ClearPrimary(s) PROVE StreamInv'
  <2>0. /\ pc[s] = "clear" /\ primaryNodeId' = NoNode
        /\ \A r \in Streams : pc'[r] = IF r = s THEN "move" ELSE pc[r]
        /\ UNCHANGED <<isActive, chanMap, nodeId, mixed>>
    BY <1>10 DEF ClearPrimary, opening, Goto, Types, TypeOK, Linked, Open
  <2>1. Alone'
    BY <2>0 DEF Alone, Open
  <2>2. ChanServed'
    BY <2>0 DEF ChanServed
  <2>3. ChanOwned'
    BY <2>0 DEF ChanOwned
  <2>4. ActiveSet'
    BY <2>0 DEF ActiveSet
  <2>5. PrimaryServed'
    BY <2>0 DEF PrimaryServed
  <2> QED BY <2>1, <2>2, <2>3, <2>4, <2>5
<1>11. ASSUME NEW s \in Streams, MovePrimary(s) PROVE StreamInv'
  <2>0. /\ pc[s] = "move"
        /\ primaryNodeId' = primaryNodeId \/ (primaryNodeId' \in Nodes /\ chanMap[primaryNodeId'] # NoChan)
        /\ \A r \in Streams : pc'[r] = IF r = s THEN "inactive" ELSE pc[r]
        /\ UNCHANGED <<isActive, chanMap, nodeId, mixed>>
    BY <1>11 DEF MovePrimary, opening, Goto, Types, TypeOK, Linked, Open
  <2>1. Alone'
    BY <2>0 DEF Alone, Open
  <2>2. ChanServed'
    BY <2>0 DEF ChanServed
  <2>3. ChanOwned'
    BY <2>0 DEF ChanOwned
  <2>4. ActiveSet'
    BY <2>0 DEF ActiveSet
  <2>5. PrimaryServed'
    BY <2>0 DEF PrimaryServed, ChanServed
  <2> QED BY <2>1, <2>2, <2>3, <2>4, <2>5
<1>12. ASSUME NEW s \in Streams, SetInactive(s) PROVE StreamInv'
  <2>0. /\ pc[s] = "inactive" /\ nodeId[s] \in Nodes
        /\ \A r \in Streams : pc'[r] = IF r = s THEN "done" ELSE pc[r]
        /\ \A r \in Streams : r # s => nodeId'[r] = nodeId[r]
        /\ \A n \in Nodes : isActive'[n] = (n # nodeId[s] /\ isActive[n])
        /\ mixed' = mixed \ {s} /\ \A r \in Streams : Open(r) => nodeId[r] \in Nodes
        /\ UNCHANGED <<primaryNodeId, chanMap>>
    BY <1>12 DEF SetInactive, Goto, Types, TypeOK, Linked, Open
  <2>1. Alone'
    BY <2>0 DEF Alone, Open
  <2>2. ChanServed'
    BY <2>0 DEF ChanServed
  <2>3. ChanOwned'
    BY <2>0 DEF ChanOwned
  <2>4. ActiveSet'
    <3> SUFFICES ASSUME NEW r \in Streams, pc'[r] \in {"message", "register", "run"}, r \notin mixed'
                 PROVE  isActive'[nodeId'[r]]
      BY DEF ActiveSet
    <3>1. r # s /\ pc[r] = pc'[r] /\ r \notin mixed /\ Open(r) /\ Open(s)
      BY <2>0 DEF Open
    <3>2. nodeId[r] # nodeId[s] /\ isActive[nodeId[r]]
      BY <3>1 DEF Alone, ActiveSet
    <3> QED BY <2>0, <3>1, <3>2
  <2>5. PrimaryServed'
    BY <2>0 DEF PrimaryServed
  <2> QED BY <2>1, <2>2, <2>3, <2>4, <2>5
<1>13. ASSUME NEW n \in Nodes, ReportStatus(n) PROVE StreamInv'
  BY <1>13 DEF ReportStatus, opening, Types, TypeOK, Linked, Alone, ChanServed, ChanOwned, ActiveSet, PrimaryServed, Open
<1>14. ASSUME NEW s \in Streams, StartSender(s) \/ Send(s) \/ EndSender(s) \/ Receive(s)
      PROVE  UNCHANGED <<primaryNodeId, isActive, chanMap, pc, nodeId, mixed>>
  BY <1>14 DEF StartSender, Send, EndSender, Receive, streamVars, history
<1>15. ASSUME NEW c \in Calls,
             FindChan(c) \/ Push(c) \/ Wait(c) \/ TakeAnswer(c) \/ Timeout(c) \/ Forget(c)
      PROVE  UNCHANGED <<primaryNodeId, isActive, chanMap, pc, nodeId, mixed>>
  BY <1>15 DEF FindChan, Push, Wait, TakeAnswer, Timeout, Forget, calling
<1>16. ASSUME CleanWaiting
      PROVE  UNCHANGED <<primaryNodeId, isActive, chanMap, pc, nodeId, mixed>>
  BY <1>16 DEF CleanWaiting, calling
<1>17. ASSUME UNCHANGED vars
      PROVE  UNCHANGED <<primaryNodeId, isActive, chanMap, pc, nodeId, mixed>>
  BY <1>17 DEF vars, streamVars, history
<1> QED BY <1>0, <1>1, <1>2, <1>3, <1>4, <1>5, <1>6, <1>7, <1>8, <1>9, <1>10, <1>11, <1>12, <1>13, <1>14, <1>15, <1>16, <1>17 DEF Next


-----------------------------------------------------------------------------
(***************************************************************************)
(* The theorems.                                                           *)
(***************************************************************************)

\* Nothing has been sent at first.
LEMMA Start == Init => CallInv /\ Counted
<1> SUFFICES ASSUME Init PROVE CallInv /\ Counted
  OBVIOUS
<1>1. Types
  BY TypesInit
<1>2. InFlight = {}
  <2>1. \A s \in Streams : queue[s] = <<>> /\ sent[s] = {}
    BY DEF Init
  <2>2. Elements(<<>>) = {}
    BY DEF Elements
  <2> QED BY <2>1, <2>2 DEF InFlight
<1>3. \A c \in Calls : call[c].pc = "idle" /\ call[c].result = "none" /\ respChan[c].open /\ respChan[c].msgs = <<>>
  BY DEF Init, Idle, NewChan
<1>4. Entries /\ Answers /\ NeverStuck
  BY <1>3 DEF Init, Entries, Answers, OwnAnswer, AnswerKept, NeverStuck, InPc, Active
<1>5. Counted
  <2>1. Sender!Running = {}
    BY DEF Init, Sender!Init, Sender!Running
  <2>2. instanceId = 0 /\ instanceMap = {}
    BY DEF Init, Sender!Init
  <2> QED BY <2>1, <2>2, FS_EmptySet DEF Counted, EnoughListed
<1> QED BY <1>1, <1>2, <1>4, <1>5 DEF CallInv, Messages

\* The invariant holds in every state.
LEMMA Invariant == Spec => [](CallInv /\ StreamInv /\ Counted)
<1> DEFINE IInv == CallInv /\ StreamInv /\ Counted
<1>1. Init => IInv
  BY Start, StreamInit
<1>2. IInv /\ [Next]_vars => IInv'
  <2>1. CallInv /\ [Next]_vars => CallInv'
    BY TypesStep, MessagesStep, EntriesStep, AnswersStep DEF CallInv
  <2> QED BY <2>1, StreamStep, CountedStep DEF CallInv
<1> QED BY <1>1, <1>2, PTL DEF Spec

\* Every variable keeps its type; no channel of a node holds more commands than it
\* has room for, and no call's channel more than one answer.
THEOREM TypeCorrect == Spec => []TypeOK
<1>1. CallInv => TypeOK
  BY DEF CallInv, Types
<1> QED BY <1>1, Invariant, PTL

\* No answer is ever sent into a closed channel, so nodeLocker is never left taken,
\* however answers, time limits, the cleaner and broken streams come together.
THEOREM LockReleased == Spec => []NeverStuck
<1>1. CallInv => NeverStuck
  BY DEF CallInv
<1> QED BY <1>1, Invariant, PTL

\* A call of SendCommandToNode returns the answer to its own command or none.
THEOREM OwnAnswers == Spec => []OwnAnswer
<1>1. CallInv => OwnAnswer
  BY DEF CallInv, Answers
<1> QED BY <1>1, Invariant, PTL

\* Only an answer that comes before its call waits for it is lost.
THEOREM AnswersKept == Spec => []AnswerKept
<1>1. CallInv => AnswerKept
  BY DEF CallInv, Answers
<1> QED BY <1>1, Invariant, PTL

\* A stream that has had its node to itself has the channel of the node, and the
\* node counts as active, whatever else opens, fails and ends.
THEOREM StreamsConnected == Spec => []Connected
<1>1. StreamInv => Connected
  BY DEF StreamInv, ChanOwned, ActiveSet, Connected
<1> QED BY <1>1, Invariant, PTL

\* The primary node always has a stream that will hand the role over.
THEOREM PrimaryHandsOver == Spec => []PrimaryConnected
<1>1. StreamInv => PrimaryConnected
  BY DEF StreamInv, PrimaryServed, PrimaryConnected, StreamsOf, Open
<1> QED BY <1>1, Invariant, PTL

\* The register of goroutines never has fewer entries than there are senders.
THEOREM SendersListed == Spec => []EnoughListed
<1>1. Counted => EnoughListed
  BY DEF Counted
<1> QED BY <1>1, Invariant, PTL
===============================================================================
