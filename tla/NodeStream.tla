------------------------------ MODULE NodeStream ------------------------------
(***************************************************************************)
(* The streams the edge nodes keep open to one API node, and the commands  *)
(* sent down them (service_node_stream.go): NodeStream runs once per       *)
(* stream and starts a sender goroutine with goman.New; SendCommandToNode  *)
(* runs once per command.  They meet in the maps nodeRequestChanMap and    *)
(* nodeResponseChanMap under nodeLocker, in primaryNodeId, which nothing   *)
(* protects, and in the column isActive of the nodes.                      *)
(*                                                                         *)
(* A section under nodeLocker is one step.  A panic inside the section     *)
(* that receives an answer is recovered without unlocking, which leaves    *)
(* the lock taken for ever: stuck.                                         *)
(***************************************************************************)
EXTENDS Integers, Sequences, FiniteSets

CONSTANTS
  Nodes,       \* edge nodes
  Streams,     \* streams that are ever opened
  Calls,       \* calls of SendCommandToNode
  NodeFor,     \* NodeFor[c]: the node call c sends its command to
  NoNode,      \* primaryNodeId = 0
  NoChan,      \* no channel in nodeRequestChanMap
  QueueSize,   \* how many commands a node's channel holds (1024)
  Reporters,   \* bound: the nodes that report their status
  MaxFails     \* bound: statements that fail while a stream opens

ASSUME NodeAssumption == NodeFor \in [Calls -> Nodes] /\ NoNode \notin Nodes
ASSUME ChanAssumption   == NoChan \notin Streams /\ QueueSize \in Nat \ {0} /\ MaxFails \in Nat

VARIABLES
  primaryNodeId,
  isActive,     \* isActive[n]: the column of node n
  chanMap,      \* nodeRequestChanMap: a channel is named after the stream that made it
  queue,        \* queue[h]: the commands in channel h
  pc,           \* pc[s]: where the call of NodeStream for s is
  nodeId,       \* nodeId[s]: the node that has opened s
  requestChan,  \* requestChan[s]: the channel s uses
  sent,         \* sent[s]: commands on their way to the node, or at work there
  instanceMap, instanceId, gpc,   \* the senders, as goman keeps them
  commandRequestId,
  waiting,      \* nodeResponseChanMap: entries [id, call]
  call,         \* call[c]: where SendCommandToNode is, its id and its result
  respChan,     \* respChan[c]: what is in the channel of call c, and whether it is open
  stuck,        \* nodeLocker is never released again
  mixed,        \* history: open streams that have overlapped with another of their node
  early,        \* history: calls answered before they were waiting
  answered,     \* history: calls whose answer has been received
  fails         \* counter for the bound

registry   == <<instanceMap, instanceId, gpc>>
streamVars == <<isActive, chanMap, queue, pc, nodeId, requestChan, sent>>
callVars   == <<commandRequestId, waiting, call, respChan>>
history    == <<mixed, early, answered>>
vars       == <<primaryNodeId, streamVars, registry, callVars, stuck, history, fails>>

\* The goroutine that sends for stream s is registered in goman.
Sender == INSTANCE Goman WITH Goroutines <- Streams, pc <- gpc

Idle == [pc |-> "idle", id |-> 0, chan |-> NoChan, result |-> "none"]

\* The call returns r: an answer, or "none" when the node is not connected, its
\* channel is full, the time is over or the channel was closed.
Done(r) == [pc |-> "done", id |-> 0, chan |-> NoChan, result |-> r]

NewChan == [msgs |-> <<>>, open |-> TRUE]
Closed  == [msgs |-> <<>>, open |-> FALSE]

Init ==
  /\ primaryNodeId = NoNode
  /\ isActive = [n \in Nodes |-> FALSE]
  /\ chanMap = [n \in Nodes |-> NoChan]
  /\ queue = [s \in Streams |-> <<>>]
  /\ pc = [s \in Streams |-> "none"]
  /\ nodeId = [s \in Streams |-> NoNode]
  /\ requestChan = [s \in Streams |-> NoChan]
  /\ sent = [s \in Streams |-> {}]
  /\ Sender!Init
  /\ commandRequestId = 0
  /\ waiting = {}
  /\ call = [c \in Calls |-> Idle]
  /\ respChan = [c \in Calls |-> NewChan]
  /\ stuck = FALSE
  /\ mixed = {} /\ early = {} /\ answered = {}
  /\ fails = 0

-----------------------------------------------------------------------------
(***************************************************************************)
(* NodeStream.                                                             *)
(***************************************************************************)

Open(s) == pc[s] \notin {"none", "done"}

StreamsOf(n) == {s \in Streams : nodeId[s] = n /\ Open(s)}

Goto(s, l) == pc' = [pc EXCEPT ![s] = l]

opening == <<nodeId, registry, callVars, stuck, early, answered>>

\* Node n opens a stream; without a primary node it is to become the one.
Enter(s, n) ==
  /\ pc[s] = "none"
  /\ nodeId' = [nodeId EXCEPT ![s] = n]
  /\ Goto(s, IF primaryNodeId = NoNode THEN "choose" ELSE "find")
  /\ mixed' = IF StreamsOf(n) = {} THEN mixed ELSE mixed \cup {s} \cup StreamsOf(n)
  /\ UNCHANGED <<primaryNodeId, isActive, chanMap, queue, requestChan, sent, registry,
                 callVars, stuck, early, answered, fails>>

ChoosePrimary(s) ==
  /\ pc[s] = "choose"
  /\ primaryNodeId' = nodeId[s]
  /\ Goto(s, "find")
  /\ UNCHANGED <<isActive, chanMap, queue, requestChan, sent, opening, mixed, fails>>

FindNodeActive(s) ==
  /\ pc[s] = "find"
  /\ Goto(s, IF isActive[nodeId[s]] THEN "register" ELSE "activate")
  /\ UNCHANGED <<primaryNodeId, isActive, chanMap, queue, requestChan, sent, opening, mixed, fails>>

\* If the node has been reported inactive, there is a message that it is back.
UpdateNodeActive(s) ==
  /\ pc[s] = "activate"
  /\ isActive' = [isActive EXCEPT ![nodeId[s]] = TRUE]
  /\ \E l \in {"message", "register"} : Goto(s, l)
  /\ UNCHANGED <<primaryNodeId, chanMap, queue, requestChan, sent, opening, mixed, fails>>

CreateNodeMessage(s) ==
  /\ pc[s] = "message"
  /\ Goto(s, "register")
  /\ UNCHANGED <<primaryNodeId, isActive, chanMap, queue, requestChan, sent, opening, mixed, fails>>

\* A statement fails: NodeStream returns before it has a channel.
OpenFails(s) ==
  /\ pc[s] \in {"find", "activate", "message"}
  /\ fails < MaxFails
  /\ fails' = fails + 1
  /\ Goto(s, "exit")
  /\ UNCHANGED <<primaryNodeId, isActive, chanMap, queue, requestChan, sent, opening, mixed>>

\* Mutant: the new channel is not stored.
ChanNotStored(s) == chanMap

\* nodeRequestChanMap after stream s has looked for the channel of its node.
ChanStored(s) ==
  [chanMap EXCEPT ![nodeId[s]] = IF @ = NoChan THEN s ELSE @]

\* The channel of the node is made, or used again, and the sender is started.
RegisterChan(s) ==
  /\ pc[s] = "register" /\ ~stuck
  /\ chanMap' = ChanStored(s)
  /\ requestChan' = [requestChan EXCEPT ![s] = IF chanMap[nodeId[s]] = NoChan THEN s ELSE chanMap[nodeId[s]]]
  /\ Sender!New(s)
  /\ Goto(s, "run")
  /\ UNCHANGED <<primaryNodeId, isActive, queue, nodeId, sent, callVars, stuck, history, fails>>

StartSender(s) ==
  /\ Sender!Register(s)
  /\ UNCHANGED <<primaryNodeId, streamVars, callVars, stuck, history, fails>>

\* The sender takes a command and sends it; the stream may be broken, or the three
\* attempts fail.
Send(s) ==
  LET h == requestChan[s]
  IN  /\ gpc[s] = "f" /\ queue[h] # <<>>
      /\ queue' = [queue EXCEPT ![h] = Tail(@)]
      /\ \/ /\ pc[s] = "run"
            /\ sent' = [sent EXCEPT ![s] = @ \cup {Head(queue[h])}]
         \/ UNCHANGED sent
      /\ UNCHANGED <<primaryNodeId, isActive, chanMap, pc, nodeId, requestChan, registry, callVars, stuck, history, fails>>

\* The context of the stream is done; select may have chosen more commands first.
EndSender(s) ==
  /\ pc[s] \notin {"none", "run"}
  /\ Sender!Unregister(s)
  /\ requestChan' = [requestChan EXCEPT ![s] = NoChan]
  /\ UNCHANGED <<primaryNodeId, isActive, chanMap, queue, pc, nodeId, sent, callVars, stuck, history, fails>>

\* Mutant: the channel of a call holds nothing, and its reader may be elsewhere.
RespSizeZero == 0

RespSize == 1

InPc(ls) == {c \in Calls : call[c].pc \in ls}

\* The answer of the node to command m arrives.  The section under nodeLocker
\* looks the call up and puts the answer into its channel, if there is room.
Receive(s) ==
  \E m \in sent[s] :
    LET cs == {w.call : w \in {x \in waiting : x.id = m.id}}
    IN  /\ pc[s] = "run" /\ ~stuck
        /\ sent' = [sent EXCEPT ![s] = @ \ {m}]
        /\ answered' = answered \cup ({m.call} \cap InPc({"pushed", "wait"}))
        /\ early' = early \cup ({m.call} \cap InPc({"pushed"}))
        /\ stuck' = \E c \in cs : ~respChan[c].open
        /\ respChan' = [c \in Calls |->
             IF c \in cs /\ respChan[c].open /\ Len(respChan[c].msgs) < RespSize
             THEN [respChan[c] EXCEPT !.msgs = <<m.call>>] ELSE respChan[c]]
        /\ UNCHANGED <<primaryNodeId, isActive, chanMap, queue, pc, nodeId, requestChan, registry,
                       commandRequestId, waiting, call, mixed, fails>>

\* Recv fails: the node is gone, or has opened another stream.
RecvFails(s) ==
  /\ pc[s] = "run"
  /\ Goto(s, "unmap")
  /\ sent' = [sent EXCEPT ![s] = {}]
  /\ UNCHANGED <<primaryNodeId, isActive, chanMap, queue, requestChan, opening, mixed, fails>>

\* The deferred calls: the channel of the node is taken out of the map, whoever
\* uses it; another connected node becomes the primary node; the node is inactive.
DeleteChan(s) ==
  /\ pc[s] = "unmap" /\ ~stuck
  /\ chanMap' = [chanMap EXCEPT ![nodeId[s]] = NoChan]
  /\ Goto(s, "exit")
  /\ UNCHANGED <<primaryNodeId, isActive, queue, requestChan, sent, opening, mixed, fails>>

\* Mutant: the primary node stays the primary node.
CheckPrimaryNever(s) ==
  /\ pc[s] = "exit"
  /\ Goto(s, "inactive")
  /\ UNCHANGED <<primaryNodeId, isActive, chanMap, queue, requestChan, sent, opening, mixed, fails>>

CheckPrimary(s) ==
  /\ pc[s] = "exit"
  /\ Goto(s, IF primaryNodeId = nodeId[s] THEN "clear" ELSE "inactive")
  /\ UNCHANGED <<primaryNodeId, isActive, chanMap, queue, requestChan, sent, opening, mixed, fails>>

ClearPrimary(s) ==
  /\ pc[s] = "clear"
  /\ primaryNodeId' = NoNode
  /\ Goto(s, "move")
  /\ UNCHANGED <<isActive, chanMap, queue, requestChan, sent, opening, mixed, fails>>

MovePrimary(s) ==
  LET others == {n \in Nodes : chanMap[n] # NoChan}
  IN  /\ pc[s] = "move" /\ ~stuck
      /\ IF others = {} THEN UNCHANGED primaryNodeId ELSE primaryNodeId' \in others
      /\ Goto(s, "inactive")
      /\ UNCHANGED <<isActive, chanMap, queue, requestChan, sent, opening, mixed, fails>>

SetInactive(s) ==
  /\ pc[s] = "inactive"
  /\ isActive' = [isActive EXCEPT ![nodeId[s]] = FALSE]
  /\ nodeId' = [nodeId EXCEPT ![s] = NoNode]
  /\ mixed' = mixed \ {s}
  /\ Goto(s, "done")
  /\ UNCHANGED <<primaryNodeId, chanMap, queue, requestChan, sent, registry, callVars, stuck,
                 early, answered, fails>>

\* A node reports its status (UpdateNodeStatus), while it has a stream or between
\* two; after the last stream there is, nothing reads the column.
ReportStatus(n) ==
  /\ n \in Reporters /\ ~isActive[n]
  /\ StreamsOf(n) # {} \/ \E s \in Streams : pc[s] = "none"
  /\ isActive' = [isActive EXCEPT ![n] = TRUE]
  /\ UNCHANGED <<primaryNodeId, chanMap, queue, pc, requestChan, sent, opening, mixed, fails>>

-----------------------------------------------------------------------------
(***************************************************************************)
(* SendCommandToNode.                                                      *)
(***************************************************************************)

calling == <<primaryNodeId, isActive, chanMap, pc, nodeId, requestChan, sent, registry, mixed, fails>>

\* The channel of the node is looked up.
FindChan(c) ==
  /\ call[c].pc = "idle" /\ ~stuck
  /\ LET h == chanMap[NodeFor[c]]
     IN  call' = [call EXCEPT ![c] =
           IF h = NoChan THEN Done("none")
                         ELSE [@ EXCEPT !.pc = "push", !.chan = h]]
  /\ UNCHANGED <<calling, queue, commandRequestId, waiting, respChan, stuck, early, answered>>

\* Mutant: the counter stays where it is after the first command.
NextIdStays == 1

NextId == commandRequestId + 1

\* Mutant: the channel takes any number of commands.
HasRoomAlways(h) == TRUE

HasRoom(h) == Len(queue[h]) < QueueSize

\* The command goes to the channel if there is room.
Push(c) ==
  LET h == call[c].chan
  IN  /\ call[c].pc = "push"
      /\ commandRequestId' = NextId
      /\ IF HasRoom(h)
         THEN /\ queue' = [queue EXCEPT ![h] = Append(@, [id |-> NextId, call |-> c])]
              /\ call' = [call EXCEPT ![c].pc = "pushed", ![c].id = NextId]
         ELSE /\ call' = [call EXCEPT ![c] = Done("none")]
              /\ UNCHANGED queue
      /\ UNCHANGED <<calling, waiting, respChan, stuck, early, answered>>

\* Only now does the call wait for an answer.
Wait(c) ==
  /\ call[c].pc = "pushed" /\ ~stuck
  /\ waiting' = {w \in waiting : w.id # call[c].id} \cup {[id |-> call[c].id, call |-> c]}
  /\ call' = [call EXCEPT ![c].pc = "wait"]
  /\ UNCHANGED <<calling, queue, commandRequestId, respChan, stuck, early, answered>>

\* The answer, or the end of a closed channel.
TakeAnswer(c) ==
  LET ms == respChan[c].msgs
  IN  /\ call[c].pc = "wait"
      /\ ms # <<>> \/ ~respChan[c].open
      /\ call' = [call EXCEPT ![c].pc = "forget", ![c].result = IF ms = <<>> THEN "none" ELSE Head(ms)]
      /\ respChan' = [respChan EXCEPT ![c].msgs = IF ms = <<>> THEN @ ELSE Tail(@)]
      /\ UNCHANGED <<calling, queue, commandRequestId, waiting, stuck, early, answered>>

\* The time limit of the command passes.
Timeout(c) ==
  /\ call[c].pc = "wait"
  /\ call' = [call EXCEPT ![c].pc = "forget"]
  /\ UNCHANGED <<calling, queue, commandRequestId, waiting, respChan, stuck, early, answered>>

\* Mutant: the channel is closed and the entry stays.
WithoutStays(id) == waiting

\* nodeResponseChanMap without id.
Without(id) == {w \in waiting : w.id # id}

\* The entry is deleted and the channel closed (if it is still open).
Forget(c) ==
  /\ call[c].pc = "forget" /\ ~stuck
  /\ waiting' = Without(call[c].id)
  /\ respChan' = [respChan EXCEPT ![c] = Closed]
  /\ call' = [call EXCEPT ![c] = Done(@.result)]
  /\ early' = early \ {c} /\ answered' = answered \ {c}
  /\ UNCHANGED <<calling, queue, commandRequestId, stuck>>

\* Every thirty seconds the entries older than an hour are closed and deleted: a
\* call may have a longer time limit.
CleanWaiting ==
  /\ ~stuck
  /\ \E old \in SUBSET waiting :
       /\ old # {}
       /\ waiting' = waiting \ old
       /\ respChan' = [c \in Calls |-> IF \E w \in old : w.call = c
                                       THEN [respChan[c] EXCEPT !.open = FALSE] ELSE respChan[c]]
  /\ UNCHANGED <<calling, queue, commandRequestId, call, stuck, early, answered>>

-----------------------------------------------------------------------------
Next ==
  \/ \E s \in Streams :
       \/ \E n \in Nodes : Enter(s, n)
       \/ ChoosePrimary(s) \/ FindNodeActive(s) \/ UpdateNodeActive(s)
       \/ CreateNodeMessage(s) \/ OpenFails(s) \/ RegisterChan(s)
       \/ StartSender(s) \/ Send(s) \/ EndSender(s)
       \/ Receive(s) \/ RecvFails(s) \/ DeleteChan(s) \/ CheckPrimary(s)
       \/ ClearPrimary(s) \/ MovePrimary(s) \/ SetInactive(s)
  \/ \E n \in Nodes : ReportStatus(n)
  \/ \E c \in Calls : FindChan(c) \/ Push(c) \/ Wait(c) \/ TakeAnswer(c) \/ Timeout(c) \/ Forget(c)
  \/ CleanWaiting

Spec == Init /\ [][Next]_vars

-----------------------------------------------------------------------------
TypeOK ==
  /\ primaryNodeId \in Nodes \cup {NoNode}
  /\ isActive \in [Nodes -> BOOLEAN]
  /\ chanMap \in [Nodes -> Streams \cup {NoChan}]
  /\ \A s \in Streams : Len(queue[s]) <= QueueSize
  /\ pc \in [Streams -> {"none", "choose", "find", "activate", "message", "register", "run", "unmap",
                         "exit", "clear", "move", "inactive", "done"}]
  /\ nodeId \in [Streams -> Nodes \cup {NoNode}]
  /\ requestChan \in [Streams -> Streams \cup {NoChan}]
  /\ \A c \in Calls : call[c].pc \in {"idle", "push", "pushed", "wait", "forget", "done"}
  /\ \A w \in waiting : w.id \in 1..commandRequestId /\ w.call \in Calls
  /\ \A c \in Calls : Len(respChan[c].msgs) <= 1
  /\ stuck \in BOOLEAN

\* A stream that has had its node to itself serves it: commands for the node go to
\* its channel, and the node counts as active.
Connected ==
  \A s \in Streams : pc[s] = "run" /\ s \notin mixed =>
    /\ chanMap[nodeId[s]] = s
    /\ isActive[nodeId[s]]

\* The primary node, which alone runs the tasks meant for one node, has a stream
\* that will hand the role over when it ends.
PrimaryConnected ==
  primaryNodeId # NoNode =>
    \E s \in StreamsOf(primaryNodeId) : pc[s] # "inactive"

\* An answer that comes while the call is waiting is there for the call, unless
\* the call has been given up (after an hour); only one that came before the call
\* was waiting is lost.
AnswerKept ==
  \A c \in answered \ early :
    call[c].pc = "wait" => respChan[c].msgs = <<c>> \/ ~respChan[c].open

\* No answer is sent into a closed channel, which would leave nodeLocker taken for
\* ever ("因为 responseChan.Chan 有被关闭的风险"): the cleaner, the answer and the time
\* limit may each end a call, the entry and the channel always go together.
NeverStuck == ~stuck

\* A call gets the answer to its own command.
OwnAnswer ==
  \A c \in Calls : call[c].result \in {"none", c}

\* goman.List shows at least as many senders as there are (it may show one that has
\* ended: the goroutine deletes the id given last, not its own).
EnoughListed ==
  Cardinality(Sender!Running) <= Cardinality(instanceMap)
===============================================================================
