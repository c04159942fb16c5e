-------------------------- MODULE HTTPCacheTaskProofs --------------------------
(***************************************************************************)
(* A task that is done has been worked on by every node of the cluster of  *)
(* each key, and a task that is ok has failed nowhere: for every number of *)
(* nodes, keys and clusters, and any number of calls that stop half way.   *)
(***************************************************************************)
EXTENDS HTTPCacheTask, TLAPS

Steps == {"work", "next", "checkKey", "keyDone", "checkTask", "errors", "status"}

\* What the record of a call holds, step by step: keys that are there, of a cluster of
\* the node; a key whose cluster has been asked for its nodes; what was found of the task.
CallType(n, c) ==
  /\ {"pc", "todo"} \subseteq DOMAIN c /\ c.pc \in Steps
  /\ c.todo \subseteq Rows
  /\ \A k \in c.todo : n \in NodesIn[ClusterOf[k]]
  /\ c.pc # "work" => {"bad", "need"} \subseteq DOMAIN c
  /\ c.pc \in {"checkKey", "keyDone"} =>
       "key" \in DOMAIN c /\ c.key \in Rows /\ ClusterOf[c.key] \in DOMAIN c.need
  /\ c.pc = "status" =>
       {"isDone", "isOk"} \subseteq DOMAIN c /\ c.isDone \in BOOLEAN /\ c.isOk \in BOOLEAN /\ (c.isOk => c.isDone)

CallTypes ==
  /\ call = [n \in Nodes |-> call[n]]
  /\ \A n \in Nodes : call[n] # Idle => CallType(n, call[n])

KeyTypes ==
  /\ keys = [k \in Keys |-> keys[k]]
  /\ \A k \in Keys : keys[k] \in KeyRows \cup {NoKey}
  /\ \A k \in Rows : keys[k].errors \subseteq keys[k].nodes /\ keys[k].nodes \subseteq NodesIn[ClusterOf[k]]

\* The task is ready once its keys are written, and no node asks for a key before.
TaskTypes ==
  /\ task \in TaskRows \cup {NoTask}
  /\ creating \in {Idle} \cup [pc : {"keys"}, todo : SUBSET Keys]
  /\ resetting \in BOOLEAN
  /\ task # NoTask => (task.isOk => task.isDone) /\ (task.isDone => task.isReady)
  /\ task = NoTask => Rows = {} /\ creating = Idle /\ ~resetting
  /\ creating # Idle => ~task.isReady /\ creating.todo \cap Rows = {}
  /\ Active # {} => task # NoTask /\ task.isReady

HistoryTypes == on \subseteq Nodes /\ ran \subseteq Nodes \X Keys /\ failed \subseteq ran

Types == CallTypes /\ KeyTypes /\ TaskTypes /\ HistoryTypes

Calm == upset \cap {"reset", "switch"} = {}

AllDone == \A k \in Rows : keys[k].isDone

\* What a key knows: whoever has reported it has worked on it, and one that is done
\* has been reported by the whole cluster.
KeyKnows(k) ==
  /\ \A n \in keys[k].nodes : <<n, k>> \in ran
  /\ keys[k].isDone => NodesIn[ClusterOf[k]] \subseteq keys[k].nodes

\* A failure is reported as one, or not reported at all.
FailureKnown ==
  \A n \in Nodes, k \in Keys : <<n, k>> \in failed =>
     k \in Rows /\ n \in NodesIn[ClusterOf[k]] /\ (n \in keys[k].errors \/ n \notin keys[k].nodes)

\* What a call has found out holds until the call is over.
CallKnows(n, c) ==
  /\ \A k \in c.todo : n \notin keys[k].nodes
  /\ c.pc # "work" =>
       /\ \A k \in c.todo : <<n, k>> \in ran /\ (<<n, k>> \in failed => k \in c.bad)
       /\ \A d \in DOMAIN c.need : NodesIn[d] \subseteq c.need[d]
  /\ c.pc = "keyDone" => NodesIn[ClusterOf[c.key]] \subseteq keys[c.key].nodes
  /\ c.pc = "errors" => AllDone
  /\ c.pc = "status" => (c.isDone => AllDone) /\ (c.isOk => ~HasErrors)

TaskKnows ==
  /\ resetting => Active = {} /\ creating = Idle /\ ~task.isDone
  /\ task # NoTask => (task.isDone => AllDone) /\ (task.isOk => ~HasErrors)

Known ==
  /\ on = Nodes
  /\ TaskKnows
  /\ \A k \in Rows : KeyKnows(k)
  /\ FailureKnown
  /\ \A n \in Nodes : call[n] # Idle => CallKnows(n, call[n])

DoneInv == Types /\ (Calm => Known)

-----------------------------------------------------------------------------
\* Go keeps what lasts of a call, but for the fields it is given.
LEMMA GoFacts ==
  ASSUME NEW n \in Nodes, CallTypes, call[n] # Idle, NEW f, Go(n, f)
  PROVE  /\ call' = [p \in Nodes |-> call'[p]]
         /\ \A p \in Nodes : p # n => call'[p] = call[p]
         /\ DOMAIN call'[n] = {"pc", "todo", "bad", "need"} \cup DOMAIN f
         /\ \A x \in DOMAIN f : call'[n][x] = f[x]
         /\ \A x \in {"pc", "todo", "bad", "need"} : x \notin DOMAIN f => call'[n][x] = call[n][x]
         /\ call'[n] # Idle
<1>1. call'[n] = [x \in {"pc", "todo", "bad", "need"} \cup DOMAIN f |-> IF x \in DOMAIN f THEN f[x] ELSE call[n][x]]
  BY DEF Go, Lasting, CallTypes
<1>2. "todo" \in {"pc", "todo", "bad", "need"}
  OBVIOUS
<1>3. "todo" \notin DOMAIN Idle
  BY DEF Idle
<1>4. \A p \in Nodes : p # n => call'[p] = call[p]
  BY DEF Go, CallTypes
<1>5. call' = [p \in Nodes |-> call'[p]]
  BY DEF Go, CallTypes
<1> QED BY <1>1, <1>2, <1>3, <1>4, <1>5

\* Who works on a call of its own is active, and finds the task there and ready.
LEMMA ActiveFacts ==
  ASSUME Types, NEW n \in Nodes, call[n] # Idle
  PROVE  /\ task \in TaskRows /\ task # NoTask /\ task.isReady /\ creating = Idle
         /\ CallType(n, call[n])
         /\ n \in Active
BY DEF Types, TaskTypes, CallTypes, Active

\* A step that leaves the calls alone and takes no key away keeps their types; so does
\* one of a single node whose own record keeps it.
LEMMA CallTypesKept ==
  ASSUME CallTypes, UNCHANGED call, Rows \subseteq Rows'
  PROVE  CallTypes'
BY DEF CallTypes, CallType

\* One call changes to a record of its type.
LEMMA OneCallTypes ==
  ASSUME CallTypes, NEW n \in Nodes, Rows' = Rows,
         call' = [p \in Nodes |-> call'[p]],
         \A p \in Nodes : p # n => call'[p] = call[p],
         call'[n] = Idle \/ CallType(n, call[n])'
  PROVE  CallTypes'
<1> SUFFICES ASSUME NEW p \in Nodes, call'[p] # Idle PROVE CallType(p, call[p])'
  BY DEF CallTypes
<1>1. CASE p = n
  BY <1>1
<1>2. CASE p # n
  BY <1>2 DEF CallTypes, CallType
<1> QED BY <1>1, <1>2

\* The keys stay as they are.
LEMMA KeysKept ==
  ASSUME KeyTypes, UNCHANGED keys
  PROVE  KeyTypes' /\ Rows' = Rows
BY DEF KeyTypes, Rows

\* A key that gets another row keeps its place among the rows.
LEMMA OneKeyTypes ==
  ASSUME KeyTypes, NEW k \in Rows, NEW r \in KeyRows, keys' = [keys EXCEPT ![k] = r],
         r.errors \subseteq r.nodes, r.nodes \subseteq NodesIn[ClusterOf[k]]
  PROVE  /\ KeyTypes' /\ Rows' = Rows
         /\ keys'[k] = r /\ \A j \in Keys : j # k => keys'[j] = keys[j]
<1>1. k \in Keys /\ r # NoKey
  BY DEF Rows, KeyRows, NoKey
<1>2. keys'[k] = r /\ \A j \in Keys : j # k => keys'[j] = keys[j]
  BY <1>1 DEF KeyTypes
<1>3. Rows' = Rows
  BY <1>1, <1>2 DEF Rows
<1>4. keys' = [j \in Keys |-> keys'[j]]
  BY DEF KeyTypes
<1> QED BY <1>1, <1>2, <1>3, <1>4 DEF KeyTypes

\* A step of a call that leaves the task alone keeps what holds of the task.
LEMMA TaskTypesKept ==
  ASSUME Types, UNCHANGED <<task, creating, resetting>>, Rows' = Rows, NEW n \in Nodes,
         call[n] # Idle, \A p \in Nodes : p # n => call'[p] = call[p]
  PROVE  TaskTypes'
<1>1. Active' \subseteq Active
  BY DEF Active
<1> QED BY <1>1 DEF Types, TaskTypes

-----------------------------------------------------------------------------
\* At first there is no task, no key and no call.
LEMMA TypesInit == Init => Types
<1> SUFFICES ASSUME Init PROVE Types
  OBVIOUS
<1>1. Rows = {} /\ Active = {}
  BY DEF Init, Rows, Active
<1>2. CallTypes
  BY DEF Init, CallTypes
<1>3. KeyTypes
  BY <1>1 DEF Init, KeyTypes
<1>4. TaskTypes
  BY <1>1 DEF Init, TaskTypes
<1>5. HistoryTypes
  BY DEF Init, HistoryTypes
<1> QED BY <1>2, <1>3, <1>4, <1>5 DEF Types

\* The service's calls, and a node that is turned on or off.
LEMMA ServiceTypes ==
  ASSUME Types, CreateTask \/ CreatorStep \/ CreationStops \/ ResetTask \/ ResetCacheKeys \/ ResetStops
                \/ DisableTask \/ \E n \in Nodes : Switch(n)
  PROVE  Types'
<1> USE DEF Types
<1>1. UNCHANGED call /\ Active' = Active
  BY DEF CreateTask, CreatorStep, CreateKey, CreateTaskEnds, CreationStops, ResetTask, ResetCacheKeys, ResetStops,
         DisableTask, Switch, Active
<1>2. HistoryTypes'
  BY DEF CreateTask, CreatorStep, CreateKey, CreateTaskEnds, CreationStops, ResetTask, ResetCacheKeys, ResetStops,
         DisableTask, Switch, history, HistoryTypes
<1>3. KeyTypes' /\ (Rows' = Rows \/ \E k \in Keys : CreateKey(k))
  <2>1. ASSUME NEW k \in Keys, CreateKey(k) PROVE KeyTypes'
    <3> DEFINE r == [state |-> "row", nodes |-> {}, errors |-> {}, isDone |-> FALSE]
    <3>1. r \in KeyRows
      BY DEF KeyRows
    <3>2. keys' = [keys EXCEPT ![k] = r]
      BY <2>1 DEF CreateKey
    <3>3. keys'[k] = r /\ \A j \in Keys : j # k => keys'[j] = keys[j]
      BY <3>2 DEF KeyTypes
    <3>4. keys' = [j \in Keys |-> keys'[j]]
      BY <3>2 DEF KeyTypes
    <3>5. r.errors = {} /\ r.nodes = {}
      OBVIOUS
    <3> HIDE DEF r
    <3> QED BY <3>1, <3>3, <3>4, <3>5 DEF KeyTypes, Rows
  <2>2. ASSUME ResetCacheKeys PROVE KeyTypes' /\ Rows' = Rows
    <3>1. \A k \in Keys : keys'[k] = IF keys[k] = NoKey THEN NoKey
                                     ELSE [keys[k] EXCEPT !.isDone = FALSE, !.nodes = {}, !.errors = {}]
      BY <2>2 DEF ResetCacheKeys
    <3>2. keys' = [k \in Keys |-> keys'[k]]
      BY <2>2 DEF ResetCacheKeys
    <3>3. ASSUME NEW k \in Rows
          PROVE  keys'[k] \in KeyRows /\ keys'[k].errors = {} /\ keys'[k].nodes = {} /\ keys'[k] # NoKey
      <4>1. k \in Keys /\ keys[k] \in KeyRows /\ keys[k] # NoKey
        BY DEF KeyTypes, Rows
      <4>2. keys'[k] = [keys[k] EXCEPT !.isDone = FALSE, !.nodes = {}, !.errors = {}]
        BY <3>1, <4>1
      <4>3. keys'[k] \in KeyRows /\ keys'[k].errors = {} /\ keys'[k].nodes = {}
        BY <4>1, <4>2 DEF KeyRows
      <4> QED BY <4>3 DEF KeyRows, NoKey
    <3>4. \A k \in Keys \ Rows : keys'[k] = NoKey
      BY <3>1 DEF Rows
    <3>5. Rows' = Rows
      BY <3>3, <3>4 DEF Rows
    <3> QED BY <3>2, <3>3, <3>4, <3>5 DEF KeyTypes
  <2>3. ASSUME ~ResetCacheKeys, ~ \E k \in Keys : CreateKey(k) PROVE KeyTypes' /\ Rows' = Rows
    <3>1. UNCHANGED keys
      BY <2>3 DEF CreateTask, CreatorStep, CreateTaskEnds, CreationStops, ResetTask, ResetStops, DisableTask, Switch
    <3> QED BY <3>1, KeysKept
  <2> QED BY <2>1, <2>2, <2>3
<1>4. CallTypes'
  <2>1. Rows \subseteq Rows'
    <3>1. ASSUME NEW k \in Keys, CreateKey(k) PROVE Rows \subseteq Rows'
      BY <3>1 DEF CreateKey, KeyTypes, Rows, NoKey
    <3> QED BY <1>3, <3>1
  <2> QED BY <1>1, <2>1, CallTypesKept
<1>5. TaskTypes'
  <2>1. CASE CreateTask
    <3>1. /\ task' = [state |-> "enabled", isReady |-> FALSE, isDone |-> FALSE, isOk |-> FALSE]
          /\ task = NoTask /\ Rows' = {} /\ resetting' = resetting /\ Active = {}
          /\ creating' \in [pc : {"keys"}, todo : SUBSET Keys]
      BY <2>1, KeysKept DEF CreateTask, TaskTypes
    <3>2. task' # NoTask /\ task' \in TaskRows
      BY <3>1 DEF NoTask, TaskRows
    <3> QED BY <1>1, <3>1, <3>2 DEF TaskTypes
  <2>2. ASSUME NEW k \in Keys, CreateKey(k) PROVE TaskTypes'
    <3>1. /\ creating \in [pc : {"keys"}, todo : SUBSET Keys] /\ creating # Idle /\ task # NoTask
          /\ creating' = [creating EXCEPT !.todo = creating.todo \ {k}]
          /\ UNCHANGED <<task, resetting>>
      BY <2>2 DEF CreateKey, TaskTypes, Idle
    <3>2. Rows' \subseteq Rows \cup {k}
      BY <2>2 DEF CreateKey, KeyTypes, Rows
    <3>3. creating' \in [pc : {"keys"}, todo : SUBSET Keys] /\ creating'.todo = creating.todo \ {k} /\ creating' # Idle
      BY <3>1 DEF Idle
    <3> QED BY <1>1, <3>1, <3>2, <3>3 DEF TaskTypes
  <2>3. CASE CreateTaskEnds
    <3>1. creating # Idle /\ task \in TaskRows /\ task # NoTask
      BY <2>3 DEF CreateTaskEnds, TaskTypes, Idle
    <3>2. /\ creating' = Idle /\ UNCHANGED <<keys, resetting>>
          /\ task' = IF Rows = {} THEN [task EXCEPT !.isDone = TRUE, !.isOk = TRUE, !.isReady = TRUE]
                                  ELSE [task EXCEPT !.isReady = TRUE]
      BY <2>3 DEF CreateTaskEnds
    <3>3. task' \in TaskRows /\ task'.isReady /\ (task'.isOk => task'.isDone)
      BY <3>1, <3>2 DEF TaskRows, TaskTypes
    <3>4. task' # NoTask
      BY <3>3 DEF TaskRows, NoTask
    <3> QED BY <1>1, <3>2, <3>3, <3>4 DEF TaskTypes
  <2>4. CASE CreationStops
    BY <1>1, <2>4, KeysKept DEF CreationStops, TaskTypes
  <2>5. CASE ResetTask
    <3>1. task \in TaskRows /\ task # NoTask
      BY <2>5 DEF ResetTask, TaskTypes
    <3>2. task' = [task EXCEPT !.isDone = FALSE, !.isOk = FALSE] /\ UNCHANGED <<keys, creating>> /\ resetting'
      BY <2>5 DEF ResetTask
    <3>3. task' \in TaskRows /\ ~task'.isDone /\ ~task'.isOk /\ task'.isReady = task.isReady
      BY <3>1, <3>2 DEF TaskRows
    <3>4. task' # NoTask
      BY <3>3 DEF TaskRows, NoTask
    <3>5. resetting' \in BOOLEAN
      BY <2>5 DEF ResetTask
    <3> QED BY <1>1, <3>1, <3>2, <3>3, <3>4, <3>5, KeysKept DEF TaskTypes
  <2>6. CASE ResetCacheKeys \/ ResetStops
    <3>1. UNCHANGED <<task, creating>> /\ resetting' = FALSE
      BY <2>6 DEF ResetCacheKeys, ResetStops
    <3>2. Rows' = Rows
      <4>1. resetting /\ ~resetting'
        BY <2>6 DEF ResetCacheKeys, ResetStops
      <4>2. ~ \E k \in Keys : CreateKey(k)
        BY <4>1 DEF CreateKey
      <4> QED BY <1>3, <4>2
    <3> QED BY <1>1, <3>1, <3>2 DEF TaskTypes
  <2>7. CASE DisableTask
    <3>1. task \in TaskRows /\ task # NoTask /\ task' = [task EXCEPT !.state = "disabled"]
      BY <2>7 DEF DisableTask, TaskTypes, NoTask
    <3>2. /\ task' \in TaskRows /\ task'.isReady = task.isReady /\ task'.isDone = task.isDone /\ task'.isOk = task.isOk
      BY <3>1 DEF TaskRows
    <3>3. task' # NoTask
      BY <3>2 DEF TaskRows, NoTask
    <3> QED BY <1>1, <2>7, <3>1, <3>2, <3>3, KeysKept DEF DisableTask, TaskTypes
  <2>8. CASE \E n \in Nodes : Switch(n)
    BY <1>1, <2>8, KeysKept DEF Switch, TaskTypes
  <2> QED BY <2>1, <2>2, <2>3, <2>4, <2>5, <2>6, <2>7, <2>8 DEF CreatorStep
<1> QED BY <1>2, <1>3, <1>4, <1>5

\* The round of a node.
LEMMA RoundTypes ==
  ASSUME Types, NEW n \in Nodes, Fetch(n) \/ CallStep(n) \/ CallStops(n)
  PROVE  Types'
<1> USE CacheAssumption
<1>0. CallTypes /\ KeyTypes /\ TaskTypes /\ HistoryTypes
  BY DEF Types
<1>1. CASE Fetch(n)
  <2>1. /\ call' = [call EXCEPT ![n] = [pc |-> "work", todo |-> DoingKeys(n)]]
        /\ task.state = "enabled" /\ task.isReady /\ call[n] = Idle
        /\ UNCHANGED <<task, keys, creating, resetting, on, ran, failed>>
    BY <1>1 DEF Fetch, history
  <2>2. KeyTypes' /\ Rows' = Rows
    BY <1>0, <2>1, KeysKept
  <2>3. /\ call' = [p \in Nodes |-> call'[p]]
        /\ \A p \in Nodes : p # n => call'[p] = call[p]
        /\ call'[n] = [pc |-> "work", todo |-> DoingKeys(n)]
    BY <1>0, <2>1 DEF CallTypes
  <2>4. CallType(n, call[n])'
    BY <2>2, <2>3 DEF CallType, Steps, DoingKeys
  <2>5. CallTypes'
    BY <1>0, <2>2, <2>3, <2>4, OneCallTypes
  <2>6. task # NoTask
    BY <2>1 DEF NoTask
  <2>7. TaskTypes'
    BY <1>0, <2>1, <2>2, <2>6 DEF TaskTypes
  <2> QED BY <1>0, <2>1, <2>2, <2>5, <2>7 DEF Types, HistoryTypes
<1>2. CASE CallStops(n) \/ CallEnds(n)
  <2>1. call' = [call EXCEPT ![n] = Idle] /\ UNCHANGED <<task, keys, creating, resetting, on, ran, failed>>
    BY <1>2 DEF CallStops, CallEnds, history
  <2>2. KeyTypes' /\ Rows' = Rows
    BY <1>0, <2>1, KeysKept
  <2>3. /\ call' = [p \in Nodes |-> call'[p]]
        /\ \A p \in Nodes : p # n => call'[p] = call[p]
        /\ call'[n] = Idle
    BY <1>0, <2>1 DEF CallTypes
  <2>4. CallTypes'
    BY <1>0, <2>2, <2>3, OneCallTypes
  <2>5. call[n] # Idle
    BY <1>2 DEF CallStops, CallEnds, Idle
  <2>6. TaskTypes'
    BY <2>1, <2>2, <2>3, <2>5, TaskTypesKept
  <2> QED BY <1>0, <2>1, <2>2, <2>4, <2>6 DEF Types, HistoryTypes
<1>3. CASE Work(n)
  <2>1. call[n] # Idle /\ call[n].pc = "work"
    BY <1>3 DEF Work, Idle
  <2>2. CallType(n, call[n])
    BY <2>1, ActiveFacts
  <2>3. PICK bad \in SUBSET call[n].todo :
          /\ ran' = ran \cup ({n} \X call[n].todo)
          /\ failed' = (failed \ ({n} \X call[n].todo)) \cup ({n} \X bad)
          /\ call' = [call EXCEPT ![n] = [pc |-> "next", todo |-> call[n].todo, bad |-> bad, need |-> [d \in {} |-> {}]]]
    BY <1>3 DEF Work
  <2>4. UNCHANGED <<task, keys, creating, resetting, on>>
    BY <1>3 DEF Work
  <2>5. KeyTypes' /\ Rows' = Rows
    BY <1>0, <2>4, KeysKept
  <2>6. /\ call' = [p \in Nodes |-> call'[p]]
        /\ \A p \in Nodes : p # n => call'[p] = call[p]
        /\ call'[n] = [pc |-> "next", todo |-> call[n].todo, bad |-> bad, need |-> [d \in {} |-> {}]]
    BY <1>0, <2>3 DEF CallTypes
  <2>7. CallType(n, call[n])'
    BY <2>2, <2>5, <2>6 DEF CallType, Steps
  <2>8. CallTypes'
    BY <1>0, <2>5, <2>6, <2>7, OneCallTypes
  <2>9. TaskTypes'
    BY <2>1, <2>4, <2>5, <2>6, TaskTypesKept
  <2>10. HistoryTypes'
    <3>1. call[n].todo \subseteq Keys
      BY <2>2 DEF CallType, Rows
    <3> QED BY <1>0, <2>3, <2>4, <3>1 DEF HistoryTypes
  <2> QED BY <2>5, <2>8, <2>9, <2>10 DEF Types
<1>4. ASSUME NEW f, Go(n, f), call[n] # Idle, UNCHANGED <<on, history>>, Rows' = Rows, KeyTypes',
             TaskTypes', CallType(n, call[n])'
      PROVE  Types'
  <2>1. CallTypes'
    BY <1>0, <1>4, GoFacts, OneCallTypes
  <2> QED BY <1>0, <1>4, <2>1 DEF Types, HistoryTypes, history
<1>5. ASSUME NEW f, Go(n, f), call[n] # Idle, UNCHANGED <<task, keys, creating, resetting, on, history>>,
             CallType(n, call[n])'
      PROVE  Types'
  <2>1. KeyTypes' /\ Rows' = Rows
    BY <1>0, <1>5, KeysKept
  <2>2. TaskTypes'
    BY <1>0, <1>5, <2>1, GoFacts, TaskTypesKept
  <2> QED BY <1>4, <1>5, <2>1, <2>2
<1>6. ASSUME NEW d \in Clusters, ReadNodes(n, d) PROVE Types'
  <2> DEFINE f == [need |-> [e \in DOMAIN call[n].need \cup {d} |->
                               IF e = d THEN on \cap NodesIn[d] ELSE call[n].need[e]]]
  <2>1. call[n] # Idle /\ call[n].pc = "next" /\ Go(n, f) /\ UNCHANGED <<task, keys, creating, resetting, on, history>>
    BY <1>6 DEF ReadNodes, Idle
  <2>2. CallType(n, call[n]) /\ Rows' = Rows
    BY <1>0, <2>1, ActiveFacts, KeysKept
  <2>3. /\ {"pc", "todo", "bad", "need"} \subseteq DOMAIN call'[n]
        /\ call'[n].pc = "next" /\ call'[n].todo = call[n].todo
    <3>1. DOMAIN f = {"need"}
      OBVIOUS
    <3>2. {"pc", "todo", "bad", "need"} \subseteq DOMAIN call[n]
      BY <2>1, <2>2 DEF CallType
    <3> HIDE DEF f
    <3> QED BY <1>0, <2>1, <3>1, <3>2, GoFacts
  <2>4. CallType(n, call[n])'
    BY <2>2, <2>3 DEF CallType, Steps
  <2> HIDE DEF f
  <2> QED BY <1>5, <2>1, <2>4
<1>7. ASSUME NEW k \in Keys, SetNode(n, k) PROVE Types'
  <2> DEFINE f == [pc |-> "checkKey", todo |-> call[n].todo \ {k}, key |-> k]
             r == [keys[k] EXCEPT !.nodes = keys[k].nodes \cup {n},
                                  !.errors = IF k \in call[n].bad THEN keys[k].errors \cup {n} ELSE keys[k].errors \ {n}]
  <2>1. /\ call[n] # Idle /\ call[n].pc = "next" /\ k \in call[n].todo /\ ClusterOf[k] \in DOMAIN call[n].need
        /\ Go(n, f) /\ UNCHANGED <<task, creating, resetting, on, history>>
    BY <1>7 DEF SetNode, Idle
  <2>2. CallType(n, call[n]) /\ k \in Rows /\ n \in NodesIn[ClusterOf[k]] /\ keys[k] \in KeyRows
    BY <1>0, <2>1, ActiveFacts DEF CallType, KeyTypes, Rows
  <2>3. keys' = [keys EXCEPT ![k] = r]
    BY <1>0, <1>7, <2>2 DEF SetNode, KeyTypes, KeyRows
  <2>4. r \in KeyRows /\ r.errors \subseteq r.nodes /\ r.nodes \subseteq NodesIn[ClusterOf[k]]
    <3>1. keys[k].errors \subseteq keys[k].nodes /\ keys[k].nodes \subseteq NodesIn[ClusterOf[k]]
      BY <1>0, <2>2 DEF KeyTypes
    <3> QED BY <2>2, <3>1 DEF KeyRows
  <2>5. KeyTypes' /\ Rows' = Rows
    <3> HIDE DEF r
    <3> QED BY <1>0, <2>2, <2>3, <2>4, OneKeyTypes
  <2>6. /\ {"pc", "todo", "bad", "need", "key"} \subseteq DOMAIN call'[n]
        /\ call'[n].pc = "checkKey" /\ call'[n].todo = call[n].todo \ {k}
        /\ call'[n].key = k /\ call'[n].need = call[n].need
    <3>1. DOMAIN f = {"pc", "todo", "key"} /\ f["pc"] = "checkKey" /\ f["todo"] = call[n].todo \ {k} /\ f["key"] = k
      OBVIOUS
    <3>2. {"pc", "todo", "bad", "need"} \subseteq DOMAIN call[n]
      BY <2>1, <2>2 DEF CallType
    <3> HIDE DEF f
    <3> QED BY <1>0, <2>1, <3>1, <3>2, GoFacts
  <2>7. CallType(n, call[n])'
    BY <2>1, <2>2, <2>5, <2>6 DEF CallType, Steps
  <2>8. TaskTypes'
    BY <1>0, <2>1, <2>5, GoFacts, TaskTypesKept
  <2> HIDE DEF f, r
  <2> QED BY <1>4, <2>1, <2>5, <2>7, <2>8
<1>8. CASE CheckKey(n)
  <2> DEFINE f == IF Reported(n) THEN [pc |-> "keyDone", key |-> call[n].key] ELSE [pc |-> "next"]
  <2>1. /\ call[n] # Idle /\ call[n].pc = "checkKey" /\ Go(n, f)
        /\ UNCHANGED <<task, keys, creating, resetting, on, history>>
    BY <1>8 DEF CheckKey, Idle
  <2>2. CallType(n, call[n]) /\ Rows' = Rows
    BY <1>0, <2>1, ActiveFacts, KeysKept
  <2>3. /\ {"pc", "todo", "bad", "need"} \subseteq DOMAIN call'[n]
        /\ call'[n].todo = call[n].todo /\ call'[n].need = call[n].need
        /\ \/ call'[n].pc = "next"
           \/ call'[n].pc = "keyDone" /\ "key" \in DOMAIN call'[n] /\ call'[n].key = call[n].key
    <3>1. \/ DOMAIN f = {"pc"} /\ f["pc"] = "next"
          \/ DOMAIN f = {"pc", "key"} /\ f["pc"] = "keyDone" /\ f["key"] = call[n].key
      OBVIOUS
    <3> HIDE DEF f
    <3> QED BY <1>0, <2>1, <3>1, GoFacts
  <2>4. CallType(n, call[n])'
    BY <2>1, <2>2, <2>3 DEF CallType, Steps
  <2> HIDE DEF f
  <2> QED BY <1>5, <2>1, <2>4
<1>9. CASE SetKeyDone(n)
  <2> DEFINE f == [pc |-> "checkTask"]
  <2>1. call[n] # Idle /\ call[n].pc = "keyDone" /\ Go(n, f) /\ UNCHANGED <<task, creating, resetting, on, history>>
    BY <1>9 DEF SetKeyDone, Idle
  <2>2. CallType(n, call[n]) /\ call[n].key \in Rows
    BY <2>1, ActiveFacts DEF CallType
  <2>3. PICK k \in Rows : k = call[n].key
    BY <2>2
  <2> DEFINE r == [keys[k] EXCEPT !.isDone = TRUE]
  <2>4. keys[k] \in KeyRows /\ keys' = [keys EXCEPT ![k] = r]
    BY <1>0, <1>9, <2>3 DEF SetKeyDone, KeyTypes, Rows
  <2>5. r \in KeyRows /\ r.errors = keys[k].errors /\ r.nodes = keys[k].nodes
    BY <2>4 DEF KeyRows
  <2>6. KeyTypes' /\ Rows' = Rows
    <3>1. keys[k].errors \subseteq keys[k].nodes /\ keys[k].nodes \subseteq NodesIn[ClusterOf[k]]
      BY <1>0 DEF KeyTypes
    <3> HIDE DEF r
    <3> QED BY <1>0, <2>4, <2>5, <3>1, OneKeyTypes
  <2>7. {"pc", "todo", "bad", "need"} \subseteq DOMAIN call'[n] /\ call'[n].pc = "checkTask" /\ call'[n].todo = call[n].todo
    <3>1. DOMAIN f = {"pc"} /\ f["pc"] = "checkTask"
      OBVIOUS
    <3>2. {"pc", "todo", "bad", "need"} \subseteq DOMAIN call[n]
      BY <2>1, <2>2 DEF CallType
    <3> HIDE DEF f
    <3> QED BY <1>0, <2>1, <3>1, <3>2, GoFacts
  <2>8. CallType(n, call[n])'
    BY <2>2, <2>6, <2>7 DEF CallType, Steps
  <2>9. TaskTypes'
    BY <1>0, <2>1, <2>6, GoFacts, TaskTypesKept
  <2> HIDE DEF f, r
  <2> QED BY <1>4, <2>1, <2>6, <2>8, <2>9
<1>10. CASE CheckTask(n)
  <2> DEFINE f == IF \E k \in Rows : ~keys[k].isDone THEN [pc |-> "status", isDone |-> FALSE, isOk |-> FALSE]
                                                     ELSE [pc |-> "errors"]
  <2>1. call[n] # Idle /\ call[n].pc = "checkTask" /\ Go(n, f) /\ UNCHANGED <<task, keys, creating, resetting, on, history>>
    BY <1>10 DEF CheckTask, Idle
  <2>2. CallType(n, call[n]) /\ Rows' = Rows
    BY <1>0, <2>1, ActiveFacts, KeysKept
  <2>3. /\ {"pc", "todo", "bad", "need"} \subseteq DOMAIN call'[n] /\ call'[n].todo = call[n].todo
        /\ \/ call'[n].pc = "errors"
           \/ call'[n].pc = "status" /\ {"isDone", "isOk"} \subseteq DOMAIN call'[n] /\ ~call'[n].isDone /\ ~call'[n].isOk
              /\ call'[n].isDone \in BOOLEAN /\ call'[n].isOk \in BOOLEAN
    <3>1. \/ DOMAIN f = {"pc"} /\ f["pc"] = "errors"
          \/ DOMAIN f = {"pc", "isDone", "isOk"} /\ f["pc"] = "status" /\ f["isDone"] = FALSE /\ f["isOk"] = FALSE
      OBVIOUS
    <3>2. {"pc", "todo", "bad", "need"} \subseteq DOMAIN call[n]
      BY <2>1, <2>2 DEF CallType
    <3> HIDE DEF f
    <3>3. /\ DOMAIN call'[n] = {"pc", "todo", "bad", "need"} \cup DOMAIN f
          /\ \A x \in DOMAIN f : call'[n][x] = f[x]
          /\ \A x \in {"pc", "todo", "bad", "need"} : x \notin DOMAIN f => call'[n][x] = call[n][x]
      BY <1>0, <2>1, GoFacts
    <3>4. CASE DOMAIN f = {"pc"} /\ f["pc"] = "errors"
      BY <3>2, <3>3, <3>4
    <3>5. CASE DOMAIN f = {"pc", "isDone", "isOk"} /\ f["pc"] = "status" /\ f["isDone"] = FALSE /\ f["isOk"] = FALSE
      BY <3>2, <3>3, <3>5
    <3> QED BY <3>1, <3>4, <3>5
  <2>4. CallType(n, call[n])'
    BY <2>2, <2>3 DEF CallType, Steps
  <2> HIDE DEF f
  <2> QED BY <1>5, <2>1, <2>4
<1>11. CASE CheckErrors(n)
  <2> DEFINE f == [pc |-> "status", isDone |-> TRUE, isOk |-> ~HasErrors]
  <2>1. call[n] # Idle /\ call[n].pc = "errors" /\ Go(n, f) /\ UNCHANGED <<task, keys, creating, resetting, on, history>>
    BY <1>11 DEF CheckErrors, Idle
  <2>2. CallType(n, call[n]) /\ Rows' = Rows
    BY <1>0, <2>1, ActiveFacts, KeysKept
  <2>3. /\ {"pc", "todo", "bad", "need", "isDone", "isOk"} \subseteq DOMAIN call'[n] /\ call'[n].todo = call[n].todo
        /\ call'[n].pc = "status" /\ call'[n].isDone = TRUE /\ call'[n].isOk = ~HasErrors
    <3>1. DOMAIN f = {"pc", "isDone", "isOk"} /\ f["pc"] = "status" /\ f["isDone"] = TRUE /\ f["isOk"] = ~HasErrors
      OBVIOUS
    <3>2. {"pc", "todo", "bad", "need"} \subseteq DOMAIN call[n]
      BY <2>1, <2>2 DEF CallType
    <3> HIDE DEF f
    <3>3. call'[n]["isOk"] = f["isOk"]
      BY <1>0, <2>1, <3>1, GoFacts
    <3>4. /\ {"pc", "todo", "bad", "need", "isDone", "isOk"} \subseteq DOMAIN call'[n] /\ call'[n].todo = call[n].todo
          /\ call'[n].pc = "status" /\ call'[n].isDone = TRUE
      <4>1. DOMAIN f = {"pc", "isDone", "isOk"} /\ f["pc"] = "status" /\ f["isDone"] = TRUE
        BY <3>1
      <4> QED BY <1>0, <2>1, <4>1, <3>2, GoFacts
    <3> QED BY <3>1, <3>3, <3>4
  <2>4. CallType(n, call[n])'
    BY <2>2, <2>3 DEF CallType, Steps, HasErrors
  <2> HIDE DEF f
  <2> QED BY <1>5, <2>1, <2>4
<1>12. CASE UpdateTaskStatus(n)
  <2> DEFINE f == [pc |-> "next"]
  <2>1. call[n] # Idle /\ call[n].pc = "status" /\ Go(n, f) /\ task' = NewStatus(n)
        /\ UNCHANGED <<keys, creating, resetting, on, history>>
    BY <1>12 DEF UpdateTaskStatus, Idle
  <2>2. CallType(n, call[n]) /\ task \in TaskRows /\ task # NoTask /\ task.isReady /\ creating = Idle
    BY <2>1, ActiveFacts
  <2>3. KeyTypes' /\ Rows' = Rows
    BY <1>0, <2>1, KeysKept
  <2>4. {"pc", "todo", "bad", "need"} \subseteq DOMAIN call'[n] /\ call'[n].pc = "next" /\ call'[n].todo = call[n].todo
    <3>1. DOMAIN f = {"pc"} /\ f["pc"] = "next"
      OBVIOUS
    <3>2. {"pc", "todo", "bad", "need"} \subseteq DOMAIN call[n]
      BY <2>1, <2>2 DEF CallType
    <3> HIDE DEF f
    <3> QED BY <1>0, <2>1, <3>1, <3>2, GoFacts
  <2>5. CallType(n, call[n])'
    BY <2>2, <2>3, <2>4 DEF CallType, Steps
  <2>6. task' \in TaskRows /\ task'.isReady = TRUE /\ task'.isDone = call[n].isDone /\ task'.isOk = call[n].isOk
    BY <2>1, <2>2 DEF NewStatus, TaskRows, CallType
  <2>7. task' # NoTask /\ (call[n].isOk => call[n].isDone)
    BY <2>1, <2>2, <2>6 DEF TaskRows, NoTask, CallType
  <2>8. TaskTypes'
    BY <1>0, <2>1, <2>2, <2>3, <2>6, <2>7 DEF TaskTypes
  <2> HIDE DEF f
  <2> QED BY <1>4, <2>1, <2>3, <2>5, <2>8
<1> QED BY <1>1, <1>2, <1>3, <1>6, <1>7, <1>8, <1>9, <1>10, <1>11, <1>12 DEF CallStep

\* Every variable keeps its type.
LEMMA TypesStep == Types /\ [Next]_vars => Types'
<1> SUFFICES ASSUME Types, [Next]_vars PROVE Types'
  OBVIOUS
<1>1. CASE UNCHANGED vars
  BY <1>1 DEF vars, history, Types, CallTypes, CallType, KeyTypes, TaskTypes, HistoryTypes, Rows, Active
<1> QED BY <1>1, ServiceTypes, RoundTypes DEF Next

-----------------------------------------------------------------------------
\* What is known stays so where the keys and the histories stay.
LEMMA SameKeysKnow ==
  ASSUME UNCHANGED <<keys, ran, failed>>
  PROVE  /\ Rows' = Rows /\ (AllDone' <=> AllDone) /\ (HasErrors' <=> HasErrors)
         /\ (FailureKnown => FailureKnown')
         /\ ((\A k \in Rows : KeyKnows(k)) => (\A k \in Rows : KeyKnows(k))')
<1>1. Rows' = Rows
  BY DEF Rows
<1>2. (AllDone' <=> AllDone) /\ (HasErrors' <=> HasErrors)
  BY <1>1 DEF AllDone, HasErrors
<1> QED BY <1>1, <1>2 DEF FailureKnown, KeyKnows

\* So does what the calls know.
LEMMA SameCallsKnow ==
  ASSUME UNCHANGED <<keys, ran, failed, call>>, \A n \in Nodes : call[n] # Idle => CallKnows(n, call[n])
  PROVE  (\A n \in Nodes : call[n] # Idle => CallKnows(n, call[n]))'
BY SameKeysKnow DEF CallKnows

\* The steps of the service and of who turns nodes off and on.
LEMMA ServiceKnown ==
  ASSUME Types, Calm => Known, Calm',
         CreateTask \/ CreatorStep \/ CreationStops \/ ResetTask \/ ResetCacheKeys \/ ResetStops
           \/ DisableTask \/ \E n \in Nodes : Switch(n)
  PROVE  Known'
<1>1. /\ UNCHANGED call /\ Active' = Active
      /\ Calm /\ ~ResetStops /\ ~ \E n \in Nodes : Switch(n)
  BY DEF CreateTask, CreatorStep, CreateKey, CreateTaskEnds, CreationStops, ResetTask, ResetCacheKeys, ResetStops,
         DisableTask, Switch, Active, Calm
<1>2. /\ CallTypes /\ KeyTypes /\ TaskTypes /\ HistoryTypes
      /\ on = Nodes /\ TaskKnows /\ (\A k \in Rows : KeyKnows(k)) /\ FailureKnown
      /\ \A n \in Nodes : call[n] # Idle => CallKnows(n, call[n])
  BY <1>1 DEF Known, Types
<1>3. on' = on
  BY <1>1 DEF CreateTask, CreatorStep, CreateKey, CreateTaskEnds, CreationStops, ResetTask, ResetCacheKeys, DisableTask
<1>4. ASSUME UNCHANGED <<keys, ran, failed>>, TaskKnows' PROVE Known'
  BY <1>1, <1>2, <1>3, <1>4, SameKeysKnow, SameCallsKnow DEF Known
<1>5. CASE CreateTask
  <2>1. task = NoTask /\ ~resetting /\ ~resetting' /\ UNCHANGED <<keys, ran, failed>>
    BY <1>2, <1>5 DEF CreateTask, TaskTypes, history
  <2>2. ~task'.isDone /\ ~task'.isOk
    BY <1>5 DEF CreateTask
  <2> QED BY <1>4, <2>1, <2>2 DEF TaskKnows
<1>6. ASSUME NEW k \in Keys, CreateKey(k) PROVE Known'
  <2>1. /\ creating # Idle /\ k \notin Rows /\ task # NoTask /\ ~resetting /\ Active = {} /\ ~task.isDone /\ ~task.isOk
        /\ UNCHANGED <<task, resetting, ran, failed>>
    BY <1>2, <1>6 DEF CreateKey, TaskTypes, TaskKnows, Idle, history
  <2>2. /\ keys'[k] = [state |-> "row", nodes |-> {}, errors |-> {}, isDone |-> FALSE]
        /\ \A j \in Keys : j # k => keys'[j] = keys[j]
    BY <1>2, <1>6 DEF CreateKey, KeyTypes
  <2>3. Rows' = Rows \cup {k}
    BY <2>2 DEF Rows, NoKey
  <2>4. TaskKnows'
    BY <2>1 DEF TaskKnows
  <2>5. \A j \in Rows' : KeyKnows(j)'
    <3>1. KeyKnows(k)'
      BY <2>2 DEF KeyKnows
    <3>2. \A j \in Rows : j \in Keys /\ j # k
      BY <2>1 DEF Rows
    <3> QED BY <1>2, <2>1, <2>2, <2>3, <3>1, <3>2 DEF KeyKnows
  <2>6. FailureKnown'
    BY <1>2, <2>1, <2>2, <2>3 DEF FailureKnown
  <2>7. \A n \in Nodes : call'[n] = Idle
    BY <1>1, <2>1 DEF Active
  <2> QED BY <1>2, <1>3, <2>4, <2>5, <2>6, <2>7 DEF Known
<1>7. CASE CreateTaskEnds
  <2>1. /\ creating # Idle /\ task \in TaskRows /\ task # NoTask /\ ~resetting /\ ~resetting'
        /\ UNCHANGED <<keys, ran, failed>>
        /\ task' = IF Rows = {} THEN [task EXCEPT !.isDone = TRUE, !.isOk = TRUE, !.isReady = TRUE]
                                ELSE [task EXCEPT !.isReady = TRUE]
    BY <1>2, <1>7 DEF CreateTaskEnds, TaskTypes, TaskKnows, Idle, history
  <2>2. Rows = {} \/ (task'.isDone = task.isDone /\ task'.isOk = task.isOk)
    BY <2>1 DEF TaskRows
  <2>3. Rows = {} => AllDone /\ ~HasErrors
    BY DEF AllDone, HasErrors
  <2>4. (AllDone' <=> AllDone) /\ (HasErrors' <=> HasErrors)
    BY <2>1, SameKeysKnow
  <2>5. TaskKnows'
    BY <1>2, <2>1, <2>2, <2>3, <2>4 DEF TaskKnows
  <2> QED BY <1>4, <2>1, <2>5
<1>8. CASE CreationStops
  <2>1. UNCHANGED <<task, keys, resetting, ran, failed>> /\ creating' = Idle
    BY <1>8 DEF CreationStops, history
  <2> QED BY <1>1, <1>2, <1>4, <2>1, SameKeysKnow DEF TaskKnows
<1>9. CASE ResetTask
  <2>1. /\ UNCHANGED <<keys, creating, ran, failed>> /\ Active = {} /\ creating = Idle /\ task \in TaskRows
        /\ task' = [task EXCEPT !.isDone = FALSE, !.isOk = FALSE]
    BY <1>1, <1>2, <1>9 DEF ResetTask, history, Calm, TaskTypes
  <2>2. ~task'.isDone /\ ~task'.isOk
    BY <2>1 DEF TaskRows
  <2> QED BY <1>1, <1>4, <2>1, <2>2 DEF TaskKnows
<1>10. CASE ResetCacheKeys
  <2>1. /\ resetting /\ ~resetting' /\ UNCHANGED task /\ ran' = {} /\ failed' = {} /\ Active = {} /\ ~task.isDone
        /\ task # NoTask /\ ~task.isOk
    BY <1>2, <1>10 DEF ResetCacheKeys, TaskKnows, TaskTypes
  <2>2. \A k \in Keys : keys'[k] = IF keys[k] = NoKey THEN NoKey
                                   ELSE [keys[k] EXCEPT !.isDone = FALSE, !.nodes = {}, !.errors = {}]
    BY <1>10 DEF ResetCacheKeys
  <2>3. ASSUME NEW k \in Rows' PROVE keys'[k].nodes = {} /\ keys'[k].isDone = FALSE
    <3>1. k \in Keys /\ keys[k] \in KeyRows /\ keys'[k] = [keys[k] EXCEPT !.isDone = FALSE, !.nodes = {}, !.errors = {}]
      BY <1>2, <2>2, <2>3 DEF Rows, KeyTypes
    <3> QED BY <3>1 DEF KeyRows
  <2>4. \A k \in Rows' : KeyKnows(k)'
    BY <2>3 DEF KeyKnows
  <2>5. \A n \in Nodes : call'[n] = Idle
    BY <1>1, <2>1 DEF Active
  <2> QED BY <1>2, <1>3, <2>1, <2>4, <2>5 DEF Known, TaskKnows, FailureKnown
<1>11. CASE DisableTask
  <2>1. /\ task \in TaskRows /\ task # NoTask /\ task' = [task EXCEPT !.state = "disabled"]
        /\ UNCHANGED <<keys, creating, resetting, ran, failed>>
    BY <1>2, <1>11 DEF DisableTask, TaskTypes, NoTask, history
  <2>2. task'.isDone = task.isDone /\ task'.isOk = task.isOk
    BY <2>1 DEF TaskRows
  <2> QED BY <1>1, <1>2, <1>4, <2>1, <2>2, SameKeysKnow DEF TaskKnows
<1> QED BY <1>1, <1>5, <1>6, <1>7, <1>8, <1>9, <1>10, <1>11 DEF CreatorStep

\* A step of a call that reads: the record goes on with what it has read.
LEMMA ReaderKnown ==
  ASSUME Known, UNCHANGED <<task, keys, creating, resetting, on, ran, failed>>, NEW n \in Nodes,
         \A p \in Nodes : p # n => call'[p] = call[p],
         call'[n] = Idle \/ (~resetting /\ CallKnows(n, call[n])')
  PROVE  Known'
<1>1. ASSUME NEW p \in Nodes, call'[p] # Idle PROVE CallKnows(p, call[p])'
  <2>1. CASE p = n
    BY <1>1, <2>1
  <2>2. CASE p # n
    BY <1>1, <2>2, SameKeysKnow DEF Known, CallKnows
  <2> QED BY <2>1, <2>2
<1>2. TaskKnows'
  <2>1. resetting => Active' = {}
    BY DEF Active, Known, TaskKnows
  <2> QED BY <2>1, SameKeysKnow DEF Known, TaskKnows
<1> QED BY <1>1, <1>2, SameKeysKnow DEF Known

\* The round of a node.
LEMMA RoundKnown ==
  ASSUME Types, Calm => Known, Calm', NEW n \in Nodes, Fetch(n) \/ CallStep(n) \/ CallStops(n)
  PROVE  Known'
<1> USE CacheAssumption
<1>1. Calm
  BY DEF Calm, Fetch, CallStep, CallStops, Work, ReadNodes, SetNode, CheckKey, SetKeyDone, CheckTask, CheckErrors,
         UpdateTaskStatus, CallEnds
<1>2. /\ CallTypes /\ KeyTypes /\ TaskTypes /\ HistoryTypes
      /\ Known /\ on = Nodes /\ TaskKnows /\ (\A k \in Rows : KeyKnows(k)) /\ FailureKnown
      /\ \A p \in Nodes : call[p] # Idle => CallKnows(p, call[p]) /\ CallType(p, call[p])
      /\ task # NoTask => (task.isOk => task.isDone)
  BY <1>1 DEF Known, Types, CallTypes, TaskTypes
<1>3. call[n] # Idle => ~resetting /\ CallType(n, call[n]) /\ CallKnows(n, call[n]) /\ task \in TaskRows /\ task # NoTask
  BY <1>2, ActiveFacts DEF TaskKnows
<1>4. CASE Fetch(n)
  <2>1. /\ call' = [call EXCEPT ![n] = [pc |-> "work", todo |-> DoingKeys(n)]]
        /\ ~resetting /\ UNCHANGED <<task, keys, creating, resetting, on, ran, failed>>
    BY <1>4 DEF Fetch, history, Calm
  <2>2. /\ \A p \in Nodes : p # n => call'[p] = call[p]
        /\ call'[n] = [pc |-> "work", todo |-> DoingKeys(n)]
    BY <1>2, <2>1 DEF CallTypes
  <2>3. CallKnows(n, call[n])'
    BY <2>1, <2>2 DEF CallKnows, DoingKeys
  <2> QED BY <1>2, <2>1, <2>2, <2>3, ReaderKnown
<1>5. CASE CallStops(n) \/ CallEnds(n)
  <2>1. call' = [call EXCEPT ![n] = Idle] /\ UNCHANGED <<task, keys, creating, resetting, on, ran, failed>>
    BY <1>5 DEF CallStops, CallEnds, history
  <2>2. (\A p \in Nodes : p # n => call'[p] = call[p]) /\ call'[n] = Idle
    BY <1>2, <2>1 DEF CallTypes
  <2> QED BY <1>2, <2>1, <2>2, ReaderKnown
<1>6. CASE Work(n)
  <2>1. call[n] # Idle /\ call[n].pc = "work" /\ UNCHANGED <<task, keys, creating, resetting, on>>
    BY <1>6 DEF Work, Idle
  <2>2. PICK bad \in SUBSET call[n].todo :
          /\ ran' = ran \cup ({n} \X call[n].todo)
          /\ failed' = (failed \ ({n} \X call[n].todo)) \cup ({n} \X bad)
          /\ call' = [call EXCEPT ![n] = [pc |-> "next", todo |-> call[n].todo, bad |-> bad, need |-> [d \in {} |-> {}]]]
    BY <1>6 DEF Work
  <2>3. /\ \A p \in Nodes : p # n => call'[p] = call[p]
        /\ call'[n] = [pc |-> "next", todo |-> call[n].todo, bad |-> bad, need |-> [d \in {} |-> {}]]
    BY <1>2, <2>2 DEF CallTypes
  <2>4. Rows' = Rows /\ (AllDone' <=> AllDone) /\ (HasErrors' <=> HasErrors)
    BY <2>1 DEF Rows, AllDone, HasErrors
  <2>5. CallKnows(n, call[n])'
    <3>1. \A k \in call[n].todo : n \notin keys'[k].nodes
      BY <1>3, <2>1 DEF CallKnows
    <3>2. \A k \in call[n].todo : <<n, k>> \in ran' /\ (<<n, k>> \in failed' => k \in bad)
      BY <2>2
    <3> QED BY <2>3, <3>1, <3>2 DEF CallKnows
  <2>6. ASSUME NEW p \in Nodes, p # n, call'[p] # Idle PROVE CallKnows(p, call[p])'
    <3>1. \A k : (<<p, k>> \in ran => <<p, k>> \in ran') /\ (<<p, k>> \in failed' => <<p, k>> \in failed)
      BY <2>2, <2>6
    <3> QED BY <1>2, <2>1, <2>3, <2>4, <2>6, <3>1 DEF CallKnows
  <2>7. FailureKnown'
    <3> SUFFICES ASSUME NEW p \in Nodes, NEW k \in Keys, <<p, k>> \in failed'
                 PROVE  k \in Rows /\ p \in NodesIn[ClusterOf[k]] /\ (p \in keys[k].errors \/ p \notin keys[k].nodes)
      BY <2>1, <2>4 DEF FailureKnown
    <3>1. CASE <<p, k>> \in failed
      BY <1>2, <3>1 DEF FailureKnown
    <3>2. CASE <<p, k>> \notin failed
      <4>1. p = n /\ k \in call[n].todo
        BY <2>2, <3>2
      <4> QED BY <1>3, <2>1, <4>1 DEF CallKnows, CallType
    <3> QED BY <3>1, <3>2
  <2>8. \A k \in Rows' : KeyKnows(k)'
    BY <1>2, <2>1, <2>2, <2>4 DEF KeyKnows
  <2>9. TaskKnows'
    BY <1>2, <1>3, <2>1, <2>4 DEF TaskKnows
  <2> QED BY <1>2, <2>1, <2>5, <2>6, <2>7, <2>8, <2>9 DEF Known
<1>7. ASSUME NEW d \in Clusters, ReadNodes(n, d) PROVE Known'
  <2> DEFINE more == [e \in DOMAIN call[n].need \cup {d} |-> IF e = d THEN on \cap NodesIn[d] ELSE call[n].need[e]]
             f == [need |-> more]
  <2>1. call[n] # Idle /\ call[n].pc = "next" /\ Go(n, f) /\ UNCHANGED <<task, keys, creating, resetting, on, ran, failed>>
    BY <1>7 DEF ReadNodes, Idle, history
  <2>2. {"pc", "todo", "bad", "need"} \subseteq DOMAIN call[n]
    BY <1>3, <2>1 DEF CallType
  <2>3. /\ call'[n].pc = "next" /\ call'[n].todo = call[n].todo /\ call'[n].bad = call[n].bad
        /\ call'[n].need = more
        /\ \A p \in Nodes : p # n => call'[p] = call[p]
    <3>1. DOMAIN f = {"need"} /\ f["need"] = more
      OBVIOUS
    <3> HIDE DEF f, more
    <3> QED BY <1>2, <2>1, <2>2, <3>1, GoFacts
  <2>4. \A e \in DOMAIN more : NodesIn[e] \subseteq more[e]
    BY <1>2, <1>3, <2>1 DEF CallKnows
  <2> HIDE DEF f, more
  <2>5. CallKnows(n, call[n])'
    BY <1>3, <2>1, <2>3, <2>4 DEF CallKnows
  <2> QED BY <1>2, <1>3, <2>1, <2>3, <2>5, ReaderKnown
<1>8. ASSUME NEW k \in Keys, SetNode(n, k) PROVE Known'
  <2> DEFINE f == [pc |-> "checkKey", todo |-> call[n].todo \ {k}, key |-> k]
             r == [keys[k] EXCEPT !.nodes = keys[k].nodes \cup {n},
                                  !.errors = IF k \in call[n].bad THEN keys[k].errors \cup {n} ELSE keys[k].errors \ {n}]
  <2>1. /\ call[n] # Idle /\ call[n].pc = "next" /\ k \in call[n].todo
        /\ Go(n, f) /\ UNCHANGED <<task, creating, resetting, on, ran, failed>>
    BY <1>8 DEF SetNode, Idle, history
  <2>2. k \in Rows /\ n \in NodesIn[ClusterOf[k]] /\ keys[k] \in KeyRows
    BY <1>2, <1>3, <2>1 DEF CallType, KeyTypes, Rows
  <2>3. /\ n \notin keys[k].nodes /\ <<n, k>> \in ran /\ (<<n, k>> \in failed => k \in call[n].bad)
        /\ \A d \in DOMAIN call[n].need : NodesIn[d] \subseteq call[n].need[d]
    BY <1>3, <2>1 DEF CallKnows
  <2>4. ~AllDone
    BY <1>2, <2>2, <2>3 DEF AllDone, KeyKnows
  <2>5. keys' = [keys EXCEPT ![k] = r]
    BY <1>2, <1>8, <2>2 DEF SetNode, KeyTypes, KeyRows
  <2>6. /\ keys'[k] = r /\ Rows' = Rows
        /\ \A j \in Keys : j # k => keys'[j] = keys[j]
    <3>1. r # NoKey
      BY <2>2 DEF KeyRows, NoKey
    <3> HIDE DEF r
    <3> QED BY <1>2, <2>2, <2>5, <3>1 DEF KeyTypes, Rows
  <2>7. /\ keys'[k].nodes = keys[k].nodes \cup {n} /\ keys'[k].isDone = keys[k].isDone
        /\ keys'[k].errors = IF k \in call[n].bad THEN keys[k].errors \cup {n} ELSE keys[k].errors \ {n}
    BY <2>2, <2>6 DEF KeyRows
  <2>8. /\ call'[n].pc = "checkKey" /\ call'[n].todo = call[n].todo \ {k}
        /\ call'[n].bad = call[n].bad /\ call'[n].need = call[n].need
        /\ \A p \in Nodes : p # n => call'[p] = call[p]
    <3>1. DOMAIN f = {"pc", "todo", "key"} /\ f["pc"] = "checkKey" /\ f["todo"] = call[n].todo \ {k} /\ f["key"] = k
      OBVIOUS
    <3>2. {"pc", "todo", "bad", "need"} \subseteq DOMAIN call[n]
      BY <1>3, <2>1 DEF CallType
    <3> HIDE DEF f
    <3> QED BY <1>2, <2>1, <3>1, <3>2, GoFacts
  <2> HIDE DEF f, r
  <2>9. \A j \in Keys, p \in Nodes : p \notin keys[j].nodes /\ (j # k \/ p # n) => p \notin keys'[j].nodes
    BY <2>6, <2>7
  <2>10. \A j \in Rows : j \in Keys /\ keys[j].nodes \subseteq keys'[j].nodes
    BY <2>6, <2>7 DEF Rows
  <2>11. CallKnows(n, call[n])'
    <3>1. \A j \in call[n].todo : j \in Keys /\ n \notin keys[j].nodes
      BY <1>3, <2>1 DEF CallKnows, CallType, Rows
    <3>2. \A j \in call[n].todo \ {k} : n \notin keys'[j].nodes
      BY <2>9, <3>1
    <3>3. \A j \in call[n].todo : <<n, j>> \in ran /\ (<<n, j>> \in failed => j \in call[n].bad)
      BY <1>3, <2>1 DEF CallKnows
    <3> QED BY <2>1, <2>3, <2>8, <3>2, <3>3 DEF CallKnows
  <2>12. ASSUME NEW p \in Nodes, p # n, call'[p] # Idle PROVE CallKnows(p, call[p])'
    <3>1. call'[p] = call[p] /\ CallKnows(p, call[p]) /\ CallType(p, call[p])
      BY <1>2, <2>8, <2>12
    <3>2. \A j \in call[p].todo : p \notin keys'[j].nodes
      <4>1. call[p].todo \subseteq Keys
        BY <3>1 DEF CallType, Rows
      <4>2. \A j \in call[p].todo : p \notin keys[j].nodes
        BY <3>1 DEF CallKnows
      <4> QED BY <2>9, <2>12, <4>1, <4>2
    <3>3. call[p].pc = "keyDone" => NodesIn[ClusterOf[call[p].key]] \subseteq keys'[call[p].key].nodes
      BY <2>10, <3>1 DEF CallKnows, CallType
    <3>4. call[p].pc # "errors" /\ (call[p].pc = "status" => ~call[p].isDone /\ ~call[p].isOk)
      BY <2>4, <3>1 DEF CallKnows, CallType
    <3> QED BY <2>1, <3>1, <3>2, <3>3, <3>4 DEF CallKnows
  <2>13. FailureKnown'
    <3> SUFFICES ASSUME NEW p \in Nodes, NEW j \in Keys, <<p, j>> \in failed
                 PROVE  j \in Rows /\ p \in NodesIn[ClusterOf[j]] /\ (p \in keys'[j].errors \/ p \notin keys'[j].nodes)
      BY <2>1, <2>6 DEF FailureKnown
    <3>1. j \in Rows /\ p \in NodesIn[ClusterOf[j]] /\ (p \in keys[j].errors \/ p \notin keys[j].nodes)
      BY <1>2 DEF FailureKnown
    <3> QED BY <2>3, <2>6, <2>7, <3>1
  <2>14. \A j \in Rows' : KeyKnows(j)'
    <3> SUFFICES ASSUME NEW j \in Rows PROVE KeyKnows(j)'
      BY <2>6
    <3>1. j \in Keys /\ KeyKnows(j)
      BY <1>2 DEF Rows
    <3> QED BY <2>1, <2>3, <2>6, <2>7, <3>1 DEF KeyKnows
  <2>15. TaskKnows'
    BY <1>2, <1>3, <2>1, <2>4 DEF TaskKnows
  <2> QED BY <1>2, <2>1, <2>11, <2>12, <2>13, <2>14, <2>15 DEF Known
<1>9. CASE CheckKey(n)
  <2> DEFINE f == IF Reported(n) THEN [pc |-> "keyDone", key |-> call[n].key] ELSE [pc |-> "next"]
  <2>1. /\ call[n] # Idle /\ call[n].pc = "checkKey" /\ Go(n, f)
        /\ UNCHANGED <<task, keys, creating, resetting, on, ran, failed>>
    BY <1>9 DEF CheckKey, Idle, history
  <2>2. /\ call'[n].pc \in {"keyDone", "next"} /\ (call'[n].pc = "keyDone" => Reported(n))
        /\ call'[n].todo = call[n].todo /\ call'[n].bad = call[n].bad
        /\ (call'[n].pc = "keyDone" => call'[n].key = call[n].key) /\ call'[n].need = call[n].need
        /\ \A p \in Nodes : p # n => call'[p] = call[p]
    <3>1. \/ DOMAIN f = {"pc"} /\ f["pc"] = "next"
          \/ DOMAIN f = {"pc", "key"} /\ f["pc"] = "keyDone" /\ f["key"] = call[n].key /\ Reported(n)
      OBVIOUS
    <3> HIDE DEF f
    <3> QED BY <1>2, <2>1, <3>1, GoFacts
  <2> HIDE DEF f
  <2>3. Reported(n) => NodesIn[ClusterOf[call[n].key]] \subseteq keys[call[n].key].nodes
    <3>1. NodesIn[ClusterOf[call[n].key]] \subseteq call[n].need[ClusterOf[call[n].key]]
      BY <1>3, <2>1 DEF CallKnows, CallType
    <3> QED BY <3>1 DEF Reported
  <2>4. CallKnows(n, call[n])'
    BY <1>3, <2>1, <2>2, <2>3 DEF CallKnows
  <2> QED BY <1>2, <1>3, <2>1, <2>2, <2>4, ReaderKnown
<1>10. CASE SetKeyDone(n)
  <2> DEFINE f == [pc |-> "checkTask"]
  <2>1. call[n] # Idle /\ call[n].pc = "keyDone" /\ Go(n, f) /\ UNCHANGED <<task, creating, resetting, on, ran, failed>>
    BY <1>10 DEF SetKeyDone, Idle, history
  <2>2. PICK k \in Rows : k = call[n].key
    BY <1>3, <2>1 DEF CallType
  <2>3. NodesIn[ClusterOf[k]] \subseteq keys[k].nodes
    BY <1>3, <2>1, <2>2 DEF CallKnows
  <2>4. k \in Keys /\ keys[k] \in KeyRows /\ keys' = [keys EXCEPT ![k] = [keys[k] EXCEPT !.isDone = TRUE]]
    BY <1>2, <1>10, <2>2 DEF SetKeyDone, KeyTypes, Rows
  <2>5. /\ keys'[k] \in KeyRows /\ keys'[k].isDone = TRUE
        /\ keys'[k].nodes = keys[k].nodes /\ keys'[k].errors = keys[k].errors
        /\ \A j \in Keys : j # k => keys'[j] = keys[j]
    BY <1>2, <2>4 DEF KeyTypes, KeyRows
  <2>6. Rows' = Rows
    BY <2>4, <2>5 DEF Rows, KeyRows, NoKey
  <2>7. \A j \in Keys : /\ keys'[j].nodes = keys[j].nodes /\ keys'[j].errors = keys[j].errors
                        /\ keys[j].isDone => keys'[j].isDone
    BY <2>5
  <2>8. Rows \subseteq Keys
    BY DEF Rows
  <2>9. (AllDone => AllDone') /\ (HasErrors' => HasErrors)
    BY <2>6, <2>7, <2>8 DEF AllDone, HasErrors
  <2>10. /\ call'[n].pc = "checkTask" /\ call'[n].todo = call[n].todo
         /\ call'[n].bad = call[n].bad /\ call'[n].need = call[n].need
         /\ \A p \in Nodes : p # n => call'[p] = call[p]
    <3>1. DOMAIN f = {"pc"} /\ f["pc"] = "checkTask"
      OBVIOUS
    <3>2. {"pc", "todo", "bad", "need"} \subseteq DOMAIN call[n]
      BY <1>3, <2>1 DEF CallType
    <3> HIDE DEF f
    <3> QED BY <1>2, <2>1, <3>1, <3>2, GoFacts
  <2> HIDE DEF f
  <2>11. CallKnows(n, call[n])'
    <3>1. call[n].todo \subseteq Keys
      BY <1>3, <2>1 DEF CallType, Rows
    <3> QED BY <1>3, <2>1, <2>7, <2>10, <3>1 DEF CallKnows
  <2>12. ASSUME NEW p \in Nodes, p # n, call'[p] # Idle PROVE CallKnows(p, call[p])'
    <3>1. call'[p] = call[p] /\ CallKnows(p, call[p]) /\ CallType(p, call[p])
      BY <1>2, <2>10, <2>12
    <3>2. \A j \in call[p].todo : p \notin keys'[j].nodes
      BY <2>7, <2>8, <3>1 DEF CallKnows, CallType
    <3>3. call[p].pc = "keyDone" => NodesIn[ClusterOf[call[p].key]] \subseteq keys'[call[p].key].nodes
      BY <2>7, <2>8, <3>1 DEF CallKnows, CallType
    <3> QED BY <2>1, <2>9, <3>1, <3>2, <3>3 DEF CallKnows
  <2>13. FailureKnown'
    BY <1>2, <2>1, <2>6, <2>7 DEF FailureKnown
  <2>14. \A j \in Rows' : KeyKnows(j)'
    <3> SUFFICES ASSUME NEW j \in Rows PROVE KeyKnows(j)'
      BY <2>6
    <3>1. j \in Keys /\ KeyKnows(j)
      BY <1>2, <2>8
    <3> QED BY <2>1, <2>3, <2>5, <3>1 DEF KeyKnows
  <2>15. TaskKnows'
    BY <1>2, <1>3, <2>1, <2>9 DEF TaskKnows
  <2> QED BY <1>2, <2>1, <2>11, <2>12, <2>13, <2>14, <2>15 DEF Known
<1>11. CASE CheckTask(n)
  <2> DEFINE f == IF \E k \in Rows : ~keys[k].isDone THEN [pc |-> "status", isDone |-> FALSE, isOk |-> FALSE]
                                                     ELSE [pc |-> "errors"]
  <2>1. /\ call[n] # Idle /\ call[n].pc = "checkTask" /\ Go(n, f)
        /\ UNCHANGED <<task, keys, creating, resetting, on, ran, failed>>
    BY <1>11 DEF CheckTask, Idle, history
  <2>2. /\ call'[n].todo = call[n].todo /\ call'[n].bad = call[n].bad /\ call'[n].need = call[n].need
        /\ \/ call'[n].pc = "errors" /\ AllDone
           \/ call'[n].pc = "status" /\ ~call'[n].isDone /\ ~call'[n].isOk
        /\ \A p \in Nodes : p # n => call'[p] = call[p]
    <3>1. \/ DOMAIN f = {"pc"} /\ f["pc"] = "errors" /\ AllDone
          \/ DOMAIN f = {"pc", "isDone", "isOk"} /\ f["pc"] = "status" /\ f["isDone"] = FALSE /\ f["isOk"] = FALSE
      BY DEF AllDone
    <3>2. {"pc", "todo", "bad", "need"} \subseteq DOMAIN call[n]
      BY <1>3, <2>1 DEF CallType
    <3> HIDE DEF f
    <3> QED BY <1>2, <2>1, <3>1, <3>2, GoFacts
  <2> HIDE DEF f
  <2>3. CallKnows(n, call[n])'
    BY <1>3, <2>1, <2>2, SameKeysKnow DEF CallKnows
  <2> QED BY <1>2, <1>3, <2>1, <2>2, <2>3, ReaderKnown
<1>12. CASE CheckErrors(n)
  <2> DEFINE f == [pc |-> "status", isDone |-> TRUE, isOk |-> ~HasErrors]
  <2>1. /\ call[n] # Idle /\ call[n].pc = "errors" /\ Go(n, f)
        /\ UNCHANGED <<task, keys, creating, resetting, on, ran, failed>>
    BY <1>12 DEF CheckErrors, Idle, history
  <2>2. /\ call'[n].todo = call[n].todo /\ call'[n].bad = call[n].bad /\ call'[n].need = call[n].need
        /\ call'[n].pc = "status" /\ call'[n].isOk = f["isOk"]
        /\ \A p \in Nodes : p # n => call'[p] = call[p]
    <3>1. DOMAIN f = {"pc", "isDone", "isOk"} /\ f["pc"] = "status"
      OBVIOUS
    <3>2. {"pc", "todo", "bad", "need"} \subseteq DOMAIN call[n]
      BY <1>3, <2>1 DEF CallType
    <3> HIDE DEF f
    <3> QED BY <1>2, <2>1, <3>1, <3>2, GoFacts
  <2>3. f["isOk"] = ~HasErrors
    OBVIOUS
  <2> HIDE DEF f
  <2>4. call'[n].isOk = ~HasErrors
    BY <2>2, <2>3
  <2>5. AllDone
    BY <1>3, <2>1 DEF CallKnows
  <2>6. CallKnows(n, call[n])'
    BY <1>3, <2>1, <2>2, <2>4, <2>5, SameKeysKnow DEF CallKnows
  <2> QED BY <1>2, <1>3, <2>1, <2>2, <2>6, ReaderKnown
<1>13. CASE UpdateTaskStatus(n)
  <2> DEFINE f == [pc |-> "next"]
  <2>1. call[n] # Idle /\ call[n].pc = "status" /\ Go(n, f) /\ task' = NewStatus(n)
        /\ UNCHANGED <<keys, creating, resetting, on, ran, failed>>
    BY <1>13 DEF UpdateTaskStatus, Idle, history
  <2>2. task'.isDone = call[n].isDone /\ task'.isOk = call[n].isOk
    BY <1>3, <2>1 DEF NewStatus, TaskRows
  <2>3. /\ call'[n].todo = call[n].todo /\ call'[n].bad = call[n].bad /\ call'[n].need = call[n].need
        /\ call'[n].pc = "next"
        /\ \A p \in Nodes : p # n => call'[p] = call[p]
    <3>1. DOMAIN f = {"pc"} /\ f["pc"] = "next"
      OBVIOUS
    <3>2. {"pc", "todo", "bad", "need"} \subseteq DOMAIN call[n]
      BY <1>3, <2>1 DEF CallType
    <3> HIDE DEF f
    <3> QED BY <1>2, <2>1, <3>1, <3>2, GoFacts
  <2> HIDE DEF f
  <2>4. CallKnows(n, call[n])'
    BY <1>3, <2>1, <2>3 DEF CallKnows
  <2>5. ASSUME NEW p \in Nodes, p # n, call'[p] # Idle PROVE CallKnows(p, call[p])'
    <3>1. call'[p] = call[p] /\ CallKnows(p, call[p])
      BY <1>2, <2>3, <2>5
    <3>2. (AllDone' <=> AllDone) /\ (HasErrors' <=> HasErrors) /\ UNCHANGED <<keys, ran, failed>>
      BY <2>1, SameKeysKnow
    <3> QED BY <3>1, <3>2 DEF CallKnows
  <2>6. TaskKnows'
    <3>1. (call[n].isDone => AllDone) /\ (call[n].isOk => ~HasErrors)
      BY <1>3, <2>1 DEF CallKnows
    <3> QED BY <1>3, <2>1, <2>2, <3>1, SameKeysKnow DEF TaskKnows
  <2> QED BY <1>2, <2>1, <2>4, <2>5, <2>6, SameKeysKnow DEF Known
<1> QED BY <1>4, <1>5, <1>6, <1>7, <1>8, <1>9, <1>10, <1>11, <1>12, <1>13 DEF CallStep

-----------------------------------------------------------------------------
(***************************************************************************)
(* The theorems.                                                           *)
(***************************************************************************)

\* Every reachable state has its types and, as long as no reset has run into a report
\* and no node has been switched, what its keys, calls and task know is so.
THEOREM DoneInvariant == Spec => []DoneInv
<1>1. Init => DoneInv
  <2> SUFFICES ASSUME Init PROVE Known
    BY TypesInit DEF DoneInv
  <2>1. Rows = {}
    BY DEF Init, Rows
  <2> QED BY <2>1 DEF Init, Known, TaskKnows, FailureKnown
<1>2. DoneInv /\ [Next]_vars => DoneInv'
  <2> SUFFICES ASSUME DoneInv, [Next]_vars, Calm' PROVE Known'
    BY TypesStep DEF DoneInv
  <2>1. Types /\ (Calm => Known)
    BY DEF DoneInv
  <2>2. CASE UNCHANGED vars
    <3>1. Calm
      BY <2>2 DEF Calm, vars
    <3>2. UNCHANGED <<task, keys, creating, resetting, on, call, ran, failed>>
      BY <2>2 DEF vars, history
    <3>3. TaskKnows => TaskKnows'
      BY <3>2, SameKeysKnow DEF TaskKnows, Active
    <3> QED BY <2>1, <3>1, <3>2, <3>3, SameKeysKnow, SameCallsKnow DEF Known
  <2> QED BY <2>1, <2>2, ServiceKnown, RoundKnown DEF Next
<1> QED BY <1>1, <1>2, PTL DEF Spec

\* Rows keep their types and what their writers assume: errors among the reports, reports
\* of the cluster's nodes only, ok only when done, done only when ready.
THEOREM TypeCorrect == Spec => []TypeOK
<1>1. DoneInv => TypeOK
  BY DEF DoneInv, Types, KeyTypes, TaskTypes, HistoryTypes, TypeOK
<1> QED BY <1>1, DoneInvariant, PTL

\* A task that is done has been worked on, key by key, by every node of the key's cluster.
THEOREM DoneIsDone == Spec => []DoneEverywhere
<1>1. DoneInv => DoneEverywhere
  BY DEF DoneInv, Calm, Known, TaskKnows, Finished, AllDone, KeyKnows, DoneEverywhere
<1> QED BY <1>1, DoneInvariant, PTL

\* A task that ends well has failed on no node the last time that node tried.
THEOREM OkIsOk == Spec => []OkMeansNoError
<1>1. DoneInv => OkMeansNoError
  <2> SUFFICES ASSUME DoneInv, Finished, task.isOk, Calm, NEW x \in failed PROVE FALSE
    BY DEF OkMeansNoError, Calm
  <2>1. Known /\ AllDone /\ ~HasErrors /\ x \in Nodes \X Keys
    BY DEF DoneInv, Known, TaskKnows, Finished, Types, HistoryTypes
  <2>2. PICK n \in Nodes, k \in Keys : x = <<n, k>>
    BY <2>1
  <2>3. k \in Rows /\ n \in NodesIn[ClusterOf[k]] /\ (n \in keys[k].errors \/ n \notin keys[k].nodes)
    BY <2>1, <2>2 DEF Known, FailureKnown
  <2>4. n \in keys[k].nodes
    BY <2>1, <2>3 DEF Known, AllDone, KeyKnows
  <2> QED BY <2>1, <2>3, <2>4 DEF HasErrors
<1> QED BY <1>1, DoneInvariant, PTL

=============================================================================
