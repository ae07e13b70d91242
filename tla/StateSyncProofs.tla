-------------------------- MODULE StateSyncProofs --------------------------
(***************************************************************************)
(* The poller's type invariant, and the reason why a remembered state is a *)
(* shown one: whenever the log cannot suspend a task, or only the poll     *)
(* task runs _sync, nobody can come between a remembered state and its     *)
(* assignment.                                                             *)
(***************************************************************************)
EXTENDS StateSync, TLAPS

TaskRecord ==
    [at : Places, todo : SUBSET Ids, snap : Table, id : Ids \cup {Missing}]

\* What the locals of a task in the middle of _sync or set_state are.
Locals(r) ==
    /\ r.at = "build" => r.todo \subseteq controls
    /\ r.at \in {"loop", "log", "notify"} => \A e \in r.todo : r.snap[e] \in States
    /\ r.at = "log" => r.id \in Late /\ r.snap[r.id] \in States /\ LogSuspends

HandlerOnly(r) ==
    /\ r.at \in {"off", "log", "notify"}
    /\ r.todo = {}
    /\ r.at = "log" => r.id \in Switches

LocalsOK == (\A t \in Tasks : Locals(task[t])) /\ HandlerOnly(task[handler])

IInv == TypeOK /\ LocalsOK

LEMMA AtType ==
  ASSUME NEW p \in Places PROVE At(p) \in TaskRecord
  BY DEF At, TaskRecord, NoStates, Table

LEMMA RenderType ==
  ASSUME NEW v \in States PROVE Render(v) \in Values
  BY StatesAssumption DEF Render, States

\* Returning from set_state leaves a well-formed task.
LEMMA ReturnedOK ==
  ASSUME NEW t \in Tasks, NEW r \in TaskRecord, \A x \in r.todo : r.snap[x] \in States
  PROVE  Returned(t, r) \in TaskRecord /\ Locals(Returned(t, r))
  <1>1. At("off") \in TaskRecord /\ Locals(At("off"))
    BY AtType DEF Places, Locals, At
  <1>2. [r EXCEPT !.at = "loop", !.id = Missing] \in TaskRecord
    BY DEF TaskRecord, Places, Running
  <1>3. Locals([r EXCEPT !.at = "loop", !.id = Missing])
    BY DEF TaskRecord, Locals
  <1> QED BY <1>1, <1>2, <1>3 DEF Returned

LEMMA InitIInv == Init => IInv
  <1> SUFFICES ASSUME Init PROVE IInv
    OBVIOUS
  <1>1. \A t \in Tasks : task[t] = At("ready") \/ task[t] = At("off")
    BY DEF Init
  <1>2. task \in [Tasks -> TaskRecord] BY <1>1, AtType DEF Init, Places
  <1>3. NoStates \in Table BY DEF NoStates, Table
  <1>4. TypeOK
    BY <1>2, <1>3, StatesAssumption DEF Init, TypeOK, TaskRecord, Ids
  <1>5. handler \in Tasks /\ handler # poll BY DEF Tasks, handler, poll
  <1>6. LocalsOK
    BY <1>1, <1>5 DEF Init, LocalsOK, Locals, HandlerOnly, At
  <1> QED BY <1>4, <1>6 DEF IInv

\* A step that changes one task, given that its new record is well formed.
LEMMA OneTask ==
  ASSUME IInv, controls' = controls, NEW t \in Tasks, NEW r \in TaskRecord,
         task' = [task EXCEPT ![t] = r], Locals(r), t = handler => HandlerOnly(r)
  PROVE  task' \in [Tasks -> TaskRecord] /\ LocalsOK'
  <1>1. task' \in [Tasks -> TaskRecord] BY DEF IInv, TypeOK, TaskRecord
  <1>2. \A u \in Tasks : Locals(task'[u])
    BY DEF IInv, TypeOK, LocalsOK
  <1>3. HandlerOnly(task'[handler])
    BY DEF IInv, TypeOK, LocalsOK, Tasks
  <1>4. (\A u \in Tasks : Locals(task[u]))' BY <1>2 DEF Locals
  <1> QED BY <1>1, <1>3, <1>4 DEF LocalsOK, HandlerOnly

\* Where set_state can leave its task: returned, in the log or notifying.
LEMMA SetStateTask ==
  ASSUME IInv, NEW t \in Tasks, NEW r \in TaskRecord, NEW e \in Ids,
         NEW v \in States, controls' = controls, UNCHANGED <<states, reader, built>>,
         last' \in Table, SetState(t, r, e, v),
         r.snap[e] = v, \A x \in r.todo : r.snap[x] \in States,
         t = handler => r.todo = {} /\ e \in Switches
  PROVE  IInv'
  <1>1. Returned(t, r) \in TaskRecord BY ReturnedOK
  <1>2. Locals(Returned(t, r)) BY ReturnedOK
  <1>3. t = handler => HandlerOnly(Returned(t, r))
    BY DEF Returned, HandlerOnly, At
  <1>4. Render(v) \in Values BY RenderType
  <1>5. shown' \in [Ids -> Values]
    BY <1>4 DEF SetState, Assign, IInv, TypeOK
  <1>6. task' \in [Tasks -> TaskRecord] /\ LocalsOK'
    <2>1. CASE task' = [task EXCEPT ![t] = Returned(t, r)]
      BY <2>1, <1>1, <1>2, <1>3, OneTask
    <2>2. ASSUME NEW p \in {"notify", "log"},
                 p = "log" => e \in Late /\ LogSuspends,
                 task' = [task EXCEPT ![t] = [r EXCEPT !.at = p, !.id = e]]
          PROVE  task' \in [Tasks -> TaskRecord] /\ LocalsOK'
      <3> DEFINE q == [r EXCEPT !.at = p, !.id = e]
      <3>1. q \in TaskRecord BY DEF TaskRecord, Places
      <3>2. Locals(q) BY <2>2 DEF Locals, TaskRecord
      <3>3. t = handler => HandlerOnly(q) BY DEF HandlerOnly, TaskRecord
      <3> QED BY <2>2, <3>1, <3>2, <3>3, OneTask
    <2> QED BY <2>1, <2>2 DEF SetState, Assign
  <1> QED BY <1>5, <1>6 DEF IInv, TypeOK, TaskRecord
LEMMA NextIInv == IInv /\ [Next]_vars => IInv'
  <1> SUFFICES ASSUME IInv, [Next]_vars PROVE IInv'
    OBVIOUS
  <1>h. handler \in Tasks BY DEF Tasks
  <1>t. /\ TypeOK
        /\ \A t \in Tasks : task[t] \in TaskRecord /\ Locals(task[t])
        /\ HandlerOnly(task[handler])
    BY <1>h DEF IInv, TypeOK, LocalsOK, TaskRecord
  <1>f. ASSUME UNCHANGED task, controls \subseteq controls' PROVE LocalsOK'
    BY <1>f, <1>t DEF LocalsOK, Locals, HandlerOnly
  <1>1. ASSUME NEW e \in Ids, NEW v \in States, UpdateEntityState(e, v)
        PROVE  IInv'
    BY <1>1, <1>t, <1>f DEF UpdateEntityState, IInv, TypeOK, Table
  <1>2. ASSUME NEW e \in Dynamic, AddEntity(e) PROVE IInv'
    <2>1. e \in Ids BY DEF Ids
    <2> QED BY <1>2, <2>1, <1>t, <1>f DEF AddEntity, IInv, TypeOK
  <1>3. CASE SetEntityInitialState
    <2>1. PICK v \in {Off, None} :
            states' = IF states[reader.id] = Missing
                      THEN [states EXCEPT ![reader.id] = v] ELSE states
      BY <1>3 DEF SetEntityInitialState
    <2>2. states' \in Table
      BY <2>1, <1>t, StatesAssumption DEF TypeOK, Table, States
    <2>3. reader' \in [at : {"idle", "init", "signal"}, id : Ids \cup {Missing}]
      BY <1>3, <1>t DEF SetEntityInitialState, TypeOK
    <2> QED
      BY <1>3, <2>2, <2>3, <1>t, <1>f DEF SetEntityInitialState, IInv, TypeOK
  <1>4. CASE SendSignalEntitiesAdded
    <2>1. PICK t \in Syncs : task' = [task EXCEPT ![t] = At("ready")]
      BY <1>4 DEF SendSignalEntitiesAdded
    <2>2. t \in Tasks /\ t # handler BY TasksAssumption DEF Tasks
    <2>3. At("ready") \in TaskRecord /\ Locals(At("ready"))
      BY AtType DEF Places, Locals, At
    <2>4. task' \in [Tasks -> TaskRecord] /\ LocalsOK'
      BY <1>4, <2>1, <2>2, <2>3, OneTask DEF SendSignalEntitiesAdded
    <2> QED
      BY <1>4, <2>4, <1>t DEF SendSignalEntitiesAdded, IInv, TypeOK, TaskRecord
  <1>5. ASSUME NEW t \in Tasks, t # handler, UNCHANGED <<core, shown, last>>,
               built' \subseteq controls, NEW r \in TaskRecord, Locals(r),
               task' = [task EXCEPT ![t] = r]
        PROVE  IInv'
    <2>1. task' \in [Tasks -> TaskRecord] /\ LocalsOK' BY <1>5, OneTask DEF core
    <2> QED BY <1>5, <2>1, <1>t DEF IInv, TypeOK, TaskRecord, core
  <1>6. ASSUME NEW t \in Tasks, StartSync(t) PROVE IInv'
    <2> DEFINE r == [At("build") EXCEPT !.todo = controls]
    <2>1. r \in TaskRecord /\ Locals(r)
      BY <1>t, AtType DEF TypeOK, At, TaskRecord, Places, Running, Locals
    <2>2. t # handler /\ built' \subseteq controls
      BY <1>6, <1>t DEF StartSync, TypeOK
    <2> QED BY <1>6, <2>1, <2>2, <1>5 DEF StartSync
  <1>b. ASSUME NEW t \in Tasks, task[t].at \in Running PROVE t # handler
    BY <1>b, <1>t DEF HandlerOnly, Running
  <1>7. ASSUME NEW t \in Tasks, Build(t) \/ BuildRaises(t) PROVE IInv'
    <2>1. t # handler BY <1>7, <1>b DEF Build, BuildRaises, Running
    <2>2. task[t].todo \subseteq controls
      BY <1>7, <1>t DEF Build, BuildRaises, Locals
    <2>3. built' \subseteq controls
      BY <1>7, <2>2, <1>t DEF Build, BuildRaises, TypeOK
    <2>4. PICK p \in {"snapshot", "dead", "off"} : task' = [task EXCEPT ![t] = At(p)]
      BY <1>7 DEF Build, BuildRaises
    <2>5. At(p) \in TaskRecord /\ Locals(At(p))
      BY AtType DEF Places, Running, Locals, At
    <2> QED
      BY <1>7, <2>1, <2>3, <2>4, <2>5, <1>5 DEF Build, BuildRaises
  <1>8. ASSUME NEW t \in Tasks, Snapshot(t) PROVE IInv'
    <2> DEFINE r == [at |-> "loop", snap |-> states, id |-> Missing,
                     todo |-> {e \in Ids : states[e] # Missing}]
    <2>1. r \in TaskRecord /\ Locals(r)
      BY <1>t DEF TypeOK, TaskRecord, Places, Running, Locals, Table
    <2>2. t # handler /\ built' \subseteq controls
      BY <1>8, <1>b, <1>t DEF Snapshot, Running, TypeOK
    <2> QED BY <1>8, <2>1, <2>2, <1>5 DEF Snapshot
  <1>9. ASSUME NEW t \in Tasks, NEW e \in Ids, SyncState(t, e) PROVE IInv'
    <2> DEFINE r == [task[t] EXCEPT !.todo = @ \ {e}]
               v == task[t].snap[e]
    <2>1. t # handler BY <1>9, <1>b DEF SyncState, Running
    <2>2. r \in TaskRecord /\ Locals(r)
      BY <1>9, <1>t DEF SyncState, TaskRecord, Locals
    <2>3. v \in States /\ r.snap[e] = v /\ \A x \in r.todo : r.snap[x] \in States
      BY <1>9, <1>t DEF SyncState, TaskRecord, Locals
    <2>4. CASE e \in built /\ last[e] # v
      <3>1. last' = [last EXCEPT ![e] = v] /\ SetState(t, r, e, v)
        BY <1>9, <2>4 DEF SyncState
      <3>2. last' \in Table BY <3>1, <2>3, <1>t DEF TypeOK, Table
      <3>3. UNCHANGED <<controls, states, reader, built>>
        BY <1>9 DEF SyncState, core
      <3> HIDE DEF r, v
      <3> QED BY <2>1, <2>2, <2>3, <3>1, <3>2, <3>3, SetStateTask
    <2>5. CASE ~(e \in built /\ last[e] # v)
      <3>1. task' = [task EXCEPT ![t] = r] /\ UNCHANGED <<core, built, last, shown>>
        BY <1>9, <2>5 DEF SyncState
      <3>2. built' \subseteq controls BY <3>1, <1>t DEF TypeOK
      <3> QED BY <2>1, <2>2, <3>1, <3>2, <1>5
    <2> QED BY <2>4, <2>5
  <1>10. ASSUME NEW t \in Tasks, EndSync(t) PROVE IInv'
    <2>1. PICK p \in {"sleep", "off"} : task' = [task EXCEPT ![t] = At(p)]
      BY <1>10 DEF EndSync
    <2>2. At(p) \in TaskRecord /\ Locals(At(p))
      BY AtType DEF Places, Locals, At
    <2>3. t # handler /\ built' \subseteq controls
      BY <1>10, <1>b, <1>t DEF EndSync, Running, TypeOK
    <2> QED BY <1>10, <2>1, <2>2, <2>3, <1>5 DEF EndSync
  <1>11. ASSUME NEW t \in Tasks, ResumeFromLog(t) PROVE IInv'
    <2> DEFINE r == task[t]
               e == task[t].id
               v == task[t].snap[task[t].id]
    <2>1. r \in TaskRecord /\ e \in Ids /\ v \in States
      BY <1>11, <1>t, KindsAssumption DEF ResumeFromLog, Locals
    <2>2. \A x \in r.todo : r.snap[x] \in States
      BY <1>11, <1>t DEF ResumeFromLog, Locals
    <2>3. t = handler => r.todo = {} /\ e \in Switches
      BY <1>11, <1>t DEF ResumeFromLog, HandlerOnly
    <2>4. Returned(t, r) \in TaskRecord /\ Locals(Returned(t, r))
      BY <2>1, <2>2, ReturnedOK
    <2>5. t = handler => HandlerOnly(Returned(t, r))
      BY DEF Returned, HandlerOnly, At
    <2>6. Assign(t, r, e, v) /\ UNCHANGED <<core, built, last>>
      BY <1>11 DEF ResumeFromLog
    <2>7. shown' \in [Ids -> Values]
      BY <2>1, <2>6, <1>t, RenderType DEF Assign, TypeOK
    <2>8. task' \in [Tasks -> TaskRecord] /\ LocalsOK'
      <3>1. CASE task' = [task EXCEPT ![t] = Returned(t, r)]
        BY <3>1, <2>4, <2>5, <2>6, OneTask DEF core
      <3>2. CASE task' = [task EXCEPT ![t] = [r EXCEPT !.at = "notify", !.id = e]]
        <4> DEFINE q == [r EXCEPT !.at = "notify", !.id = e]
        <4>1. q \in TaskRecord /\ Locals(q)
          BY <2>1, <2>2 DEF TaskRecord, Places, Locals
        <4>2. t = handler => HandlerOnly(q)
          BY <2>1, <2>3 DEF HandlerOnly, TaskRecord
        <4> QED BY <3>2, <4>1, <4>2, <2>6, OneTask DEF core
      <3> QED BY <2>6, <3>1, <3>2 DEF Assign
    <2> QED BY <2>6, <2>7, <2>8, <1>t DEF IInv, TypeOK, TaskRecord, core
  <1>12. ASSUME NEW t \in Tasks, ResumeFromNotify(t) PROVE IInv'
    <2>1. Returned(t, task[t]) \in TaskRecord /\ Locals(Returned(t, task[t]))
      BY <1>12, <1>t, ReturnedOK DEF ResumeFromNotify, Locals
    <2>2. t = handler => HandlerOnly(Returned(t, task[t]))
      BY DEF Returned, HandlerOnly, At
    <2>3. task' \in [Tasks -> TaskRecord] /\ LocalsOK'
      BY <1>12, <2>1, <2>2, OneTask DEF ResumeFromNotify, core
    <2> QED BY <1>12, <2>3, <1>t DEF ResumeFromNotify, IInv, TypeOK, TaskRecord, core
  <1>13. ASSUME NEW e \in Switches, NEW v \in Values, HandleSwitch(e, v)
         PROVE  IInv'
    <2> DEFINE r == [At("off") EXCEPT !.snap[e] = v]
    <2>1. e \in Ids /\ v \in States BY KindsAssumption DEF States
    <2>2. r \in TaskRecord /\ r.snap[e] = v /\ r.todo = {}
      BY <2>1 DEF At, TaskRecord, Places, NoStates, Table
    <2>3. SetState(handler, r, e, v) /\ UNCHANGED <<core, built, last>>
      BY <1>13 DEF HandleSwitch
    <2>4. last' \in Table BY <2>3, <1>t DEF TypeOK
    <2> HIDE DEF r
    <2> QED BY <1>h, <2>1, <2>2, <2>3, <2>4, SetStateTask DEF core
  <1>14. CASE UNCHANGED vars
    BY <1>14, <1>t, <1>f DEF vars, IInv, TypeOK
  <1> QED
    BY <1>1, <1>2, <1>3, <1>4, <1>6, <1>7, <1>8, <1>9, <1>10, <1>11, <1>12,
       <1>13, <1>14
    DEF Next, CoreStep, TaskStep, Command

THEOREM Typed == Spec => []IInv
  <1> QED BY InitIInv, NextIInv, PTL DEF Spec

(* Every variable keeps its type: a task never sets a state that a         *)
(* dictionary does not have, and no entity is built without its control.   *)
THEOREM TypeCorrect == Spec => []TypeOK
  <1>1. IInv => TypeOK BY DEF IInv
  <1> QED BY <1>1, Typed, PTL
-----------------------------------------------------------------------------
(***************************************************************************)
(* What is remembered is shown.  A task in the log is about to assign the  *)
(* state it has remembered, and nobody remembers another one meanwhile:    *)
(* either no log suspends, or poll is the only task that runs _sync.       *)
(***************************************************************************)
OneAtATime == LogSuspends = FALSE \/ Syncs = {}

AboutToShow ==
    \A t \in Tasks \ {handler} : task[t].at = "log" =>
        LET e == task[t].id
        IN  task[t].snap[e] = last[e] /\ ~Skips(e, last[e])

ShownInv == LastIsShown /\ AboutToShow

LEMMA InitShown == Init => ShownInv
  BY DEF Init, ShownInv, LastIsShown, AboutToShow, NoStates, At

\* A task in the log is the one that is not running, so a running sync task
\* is alone: no other task can be in the log.
LEMMA Alone ==
  ASSUME OneAtATime, IInv, NEW t \in Tasks, task[t].at = "loop", t # handler,
         NEW u \in Tasks \ {handler}
  PROVE  task[u].at # "log"
  BY DEF OneAtATime, IInv, LocalsOK, Locals, Tasks

\* The steps of set_state, for an entity e that is a switch or whose
\* remembered state is the one being set.
LEMMA SetStateShown ==
  ASSUME OneAtATime, IInv, ShownInv, NEW t \in Tasks, t # handler,
         NEW r \in TaskRecord, NEW e \in Ids, NEW v \in States,
         task[t].at = "loop", SetState(t, r, e, v), r.snap[e] = v,
         last' = [last EXCEPT ![e] = v]
  PROVE  ShownInv'
  <1>t. TypeOK BY DEF IInv
  <1>1. last'[e] = v /\ \A x \in Ids \ {e} : last'[x] = last[x]
    BY <1>t DEF TypeOK, Table
  <1>2. \A x \in Ids \ {e} : shown'[x] = shown[x]
    BY <1>t DEF SetState, Assign, TypeOK
  <1>3. \A u \in Tasks \ {t} : task'[u] = task[u]
    BY <1>t DEF SetState, Assign, TypeOK
  <1>4. \A u \in Tasks \ {handler} : task[u].at # "log" BY Alone
  <1>5. \/ task'[t] = Returned(t, r)
        \/ task'[t] = [r EXCEPT !.at = "notify", !.id = e]
        \/ task'[t] = [r EXCEPT !.at = "log", !.id = e] /\ ~Skips(e, v)
    BY <1>t DEF SetState, Assign, TypeOK
  <1>6. AboutToShow'
    <2> SUFFICES ASSUME NEW u \in Tasks \ {handler}, task'[u].at = "log"
                 PROVE  /\ task'[u].snap[task'[u].id] = last'[task'[u].id]
                        /\ ~Skips(task'[u].id, last'[task'[u].id])
      BY DEF AboutToShow, Skips
    <2>1. u = t BY <1>3, <1>4
    <2>2. task'[t].id = e /\ task'[t].snap[e] = v /\ ~Skips(e, v)
      BY <1>5, <2>1 DEF Returned, TaskRecord
    <2> QED BY <1>1, <2>1, <2>2
  <1>7. LastIsShown'
    <2> SUFFICES ASSUME NEW x \in Ids \ Switches, last'[x] # Missing,
                        ~Skips(x, last'[x])
                 PROVE  \/ shown'[x] = Render(last'[x])
                        \/ \E u \in Tasks : task'[u].at = "log" /\ task'[u].id = x
      BY DEF LastIsShown, Skips, Render
    <2>1. CASE x # e
      <3>1. \/ shown[x] = Render(last[x])
            \/ \E u \in Tasks : task[u].at = "log" /\ task[u].id = x
        BY <1>1, <2>1 DEF ShownInv, LastIsShown
      <3>2. \A u \in Tasks : ~(task[u].at = "log" /\ task[u].id = x)
        BY <1>4 DEF IInv, LocalsOK, HandlerOnly
      <3> QED BY <1>1, <1>2, <2>1, <3>1, <3>2
    <2>2. CASE x = e
      <3>1. CASE shown' = [shown EXCEPT ![e] = Render(v)]
        BY <1>1, <1>t, <2>2, <3>1 DEF TypeOK
      <3>2. CASE task' = [task EXCEPT ![t] = [r EXCEPT !.at = "log", !.id = e]]
        <4>1. task'[t].at = "log" /\ task'[t].id = e
          BY <1>t, <3>2 DEF TypeOK, TaskRecord
        <4> QED BY <2>2, <4>1
      <3> QED BY <1>1, <2>2, <3>1, <3>2 DEF SetState, Assign
    <2> QED BY <2>1, <2>2
  <1> QED BY <1>6, <1>7 DEF ShownInv

LEMMA NextShown ==
  ASSUME OneAtATime, IInv, ShownInv, [Next]_vars PROVE ShownInv'
  <1>t. /\ TypeOK
        /\ \A t \in Tasks : task[t] \in TaskRecord /\ Locals(task[t])
        /\ HandlerOnly(task[handler])
    BY DEF IInv, TypeOK, LocalsOK, TaskRecord, Tasks
  <1>1. ASSUME UNCHANGED <<shown, last>>, NEW t \in Tasks, NEW r,
               task' = [task EXCEPT ![t] = r], r.at # "log", task[t].at # "log"
        PROVE  ShownInv'
    <2>1. task'[t] = r /\ \A u \in Tasks \ {t} : task'[u] = task[u]
      BY <1>1, <1>t DEF TypeOK
    <2>2. \A u \in Tasks : task'[u].at = "log" \/ task[u].at = "log" => task'[u] = task[u]
      BY <1>1, <2>1
    <2> QED
      BY <1>1, <2>2 DEF ShownInv, LastIsShown, AboutToShow, Skips, Render
  <1>2. ASSUME UNCHANGED <<shown, last, task>> PROVE ShownInv'
    BY <1>2 DEF ShownInv, LastIsShown, AboutToShow, Skips, Render
  <1>3. CASE \/ \E e \in Ids, v \in States : UpdateEntityState(e, v)
             \/ \E e \in Dynamic : AddEntity(e)
             \/ SetEntityInitialState
             \/ UNCHANGED vars
    BY <1>2, <1>3 DEF UpdateEntityState, AddEntity, SetEntityInitialState, vars
  <1>4. CASE SendSignalEntitiesAdded
    <2>1. PICK t \in Syncs : task[t].at = "off" /\ task' = [task EXCEPT ![t] = At("ready")]
      BY <1>4 DEF SendSignalEntitiesAdded
    <2>2. At("ready").at # "log" BY DEF At
    <2>3. t \in Tasks /\ UNCHANGED <<shown, last>>
      BY <1>4 DEF SendSignalEntitiesAdded, Tasks
    <2> QED BY <1>1, <2>1, <2>2, <2>3
  <1>5. ASSUME NEW t \in Tasks,
               \/ StartSync(t) \/ Build(t) \/ BuildRaises(t) \/ Snapshot(t)
               \/ EndSync(t)
        PROVE  ShownInv'
    <2>1. task[t].at # "log" /\ UNCHANGED <<shown, last>>
      BY <1>5 DEF StartSync, Build, BuildRaises, Snapshot, EndSync
    <2>2. \E r : r.at # "log" /\ task' = [task EXCEPT ![t] = r]
      BY <1>5 DEF StartSync, Build, BuildRaises, Snapshot, EndSync, At
    <2> QED BY <1>1, <2>1, <2>2
  <1>6. ASSUME NEW t \in Tasks, ResumeFromNotify(t) PROVE ShownInv'
    <2>1. Returned(t, task[t]).at # "log"
      BY <1>t DEF Returned, At, TaskRecord
    <2> QED BY <1>1, <1>6, <2>1 DEF ResumeFromNotify
  <1>7. ASSUME NEW t \in Tasks, NEW e \in Ids, SyncState(t, e) PROVE ShownInv'
    <2> DEFINE r == [task[t] EXCEPT !.todo = @ \ {e}]
               v == task[t].snap[e]
    <2>1. t # handler /\ task[t].at = "loop"
      BY <1>7, <1>t DEF SyncState, HandlerOnly
    <2>2. r \in TaskRecord /\ r.snap[e] = v /\ v \in States /\ r.at # "log"
      BY <1>7, <1>t DEF SyncState, TaskRecord, Locals
    <2>3. CASE e \in built /\ last[e] # v
      <3>1. last' = [last EXCEPT ![e] = v] /\ SetState(t, r, e, v)
        BY <1>7, <2>3 DEF SyncState
      <3> HIDE DEF r, v
      <3> QED BY <2>1, <2>2, <3>1, SetStateShown
    <2>4. CASE ~(e \in built /\ last[e] # v)
      <3>1. task' = [task EXCEPT ![t] = r] /\ UNCHANGED <<last, shown>>
        BY <1>7, <2>4 DEF SyncState
      <3> QED BY <1>1, <2>1, <2>2, <3>1
    <2> QED BY <2>3, <2>4
  <1>8. ASSUME NEW t \in Tasks, NEW r \in TaskRecord, NEW e \in Ids, NEW v \in States,
               UNCHANGED last, Assign(t, r, e, v),
               task[t].at = "log" => task[t].id = e,
               e \in Switches \/ last[e] = v
        PROVE  ShownInv'
    <2>1. \A x \in Ids \ {e} : shown'[x] = shown[x]
      BY <1>8, <1>t DEF Assign, TypeOK
    <2>2. shown'[e] = Render(v) BY <1>8, <1>t DEF Assign, TypeOK
    <2>3. \A u \in Tasks \ {t} : task'[u] = task[u]
      BY <1>8, <1>t DEF Assign, TypeOK
    <2>4. task'[t].at # "log"
      <3>1. Returned(t, r).at # "log" BY DEF Returned, At, TaskRecord
      <3>2. [r EXCEPT !.at = "notify", !.id = e].at # "log" BY DEF TaskRecord
      <3> QED BY <1>8, <1>t, <3>1, <3>2 DEF Assign, TypeOK
    <2>5. AboutToShow'
      BY <1>8, <2>3, <2>4 DEF ShownInv, AboutToShow, Skips
    <2>6. LastIsShown'
      <3> SUFFICES ASSUME NEW x \in Ids \ Switches, last[x] # Missing,
                          ~Skips(x, last[x])
                   PROVE  \/ shown'[x] = Render(last[x])
                          \/ \E u \in Tasks : task'[u].at = "log" /\ task'[u].id = x
        BY <1>8 DEF LastIsShown, Skips, Render
      <3>1. CASE x = e BY <1>8, <2>2, <3>1
      <3>2. CASE x # e
        <4>1. \/ shown[x] = Render(last[x])
              \/ \E u \in Tasks : task[u].at = "log" /\ task[u].id = x
          BY DEF ShownInv, LastIsShown
        <4> QED BY <1>8, <2>1, <2>3, <3>2, <4>1
      <3> QED BY <3>1, <3>2
    <2> QED BY <2>5, <2>6 DEF ShownInv
  <1>9. ASSUME NEW t \in Tasks, ResumeFromLog(t) PROVE ShownInv'
    <2> DEFINE r == task[t]
               e == task[t].id
               v == task[t].snap[task[t].id]
    <2>1. r \in TaskRecord /\ e \in Ids /\ v \in States
      BY <1>9, <1>t, KindsAssumption DEF ResumeFromLog, Locals
    <2>2. e \in Switches \/ last[e] = v
      BY <1>9, <1>t DEF ResumeFromLog, HandlerOnly, ShownInv, AboutToShow
    <2>3. UNCHANGED last /\ Assign(t, r, e, v) /\ task[t].id = e
      BY <1>9 DEF ResumeFromLog
    <2> HIDE DEF r, e, v
    <2> QED BY <1>8, <2>1, <2>2, <2>3
  <1>10. ASSUME NEW e \in Switches, NEW v \in Values, HandleSwitch(e, v)
         PROVE  ShownInv'
    <2> DEFINE r == [At("off") EXCEPT !.snap[e] = v]
    <2>1. e \in Ids /\ v \in States /\ handler \in Tasks
      BY KindsAssumption DEF States, Tasks
    <2>2. r \in TaskRecord
      BY <2>1 DEF At, TaskRecord, Places, NoStates, Table
    <2>3. SetState(handler, r, e, v) /\ UNCHANGED last /\ task[handler].at = "off"
      BY <1>10 DEF HandleSwitch
    <2>4. ~Skips(e, v) BY KindsAssumption DEF Skips
    <2> HIDE DEF r
    <2>5. CASE Assign(handler, r, e, v)
      BY <1>8, <2>1, <2>2, <2>3, <2>5
    <2>6. CASE /\ task' = [task EXCEPT ![handler] = [r EXCEPT !.at = "log", !.id = e]]
               /\ UNCHANGED shown
      <3>1. \A u \in Tasks \ {handler} : task'[u] = task[u]
        BY <2>6, <1>t DEF TypeOK
      <3>2. AboutToShow' BY <2>3, <3>1 DEF ShownInv, AboutToShow, Skips
      <3>3. LastIsShown'
        BY <2>3, <2>6, <3>1 DEF ShownInv, LastIsShown, Skips, Render
      <3> QED BY <3>2, <3>3 DEF ShownInv
    <2> QED BY <2>3, <2>4, <2>5, <2>6 DEF SetState
  <1> QED
    BY <1>3, <1>4, <1>5, <1>6, <1>7, <1>9, <1>10
    DEF Next, CoreStep, TaskStep, Command

(* A state that no poll will publish again because it is remembered is     *)
(* shown by its entity, or is being given to it: for any number of         *)
(* entities and of overlapping _sync tasks, while no log suspends them; and *)
(* for the poll task alone even when the log does.                         *)
THEOREM RememberedIsShown ==
  ASSUME OneAtATime PROVE Spec => []LastIsShown
  <1>1. IInv /\ ShownInv /\ [Next]_vars => ShownInv' BY NextShown
  <1>2. ShownInv => LastIsShown BY DEF ShownInv
  <1> QED BY <1>1, <1>2, InitShown, Typed, PTL DEF Spec
=============================================================================
