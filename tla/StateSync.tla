----------------------------- MODULE StateSync -----------------------------
(***************************************************************************)
(* The state poller (state_sync.py) between the core's tables, which the   *)
(* serial reader thread changes at any moment, and the native API entities *)
(* (entities.py, and the vendored set_state they call).                    *)
(*                                                                         *)
(* The poll task and one task per "entities added" signal run _sync on the *)
(* event loop, a client's switch command runs set_state beside them.  A    *)
(* task keeps the loop until an await really suspends; the reader thread   *)
(* is never held back by it.  set_state suspends where a client's socket   *)
(* is full: sensors and switches log before they assign the new state,     *)
(* every entity notifies the clients after.                                *)
(***************************************************************************)
EXTENDS Naturals, FiniteSets

CONSTANTS
    Initial,        \* controls created before the poller starts
    Dynamic,        \* controls the reader adds while it runs (battery, LAN)
    Late,           \* sensors and switches: log first, assign after
    Skipping,       \* sensors, text sensors, panels: None is not shown
    Switches,       \* PG outputs, which clients command
    Values,         \* entity states
    Off,            \* what an entity shows before its first state
    None,           \* the core's "no state"
    Missing,        \* no entry in a dictionary
    Syncs,          \* tasks that the signal starts
    LogSuspends     \* whether a log subscriber's socket may be full

poll == "poll"
handler == "handler"

Ids == Initial \cup Dynamic
Tasks == Syncs \cup {poll, handler}
States == Values \cup {None}
Table == [Ids -> States \cup {Missing}]

ASSUME KindsAssumption ==
    /\ Initial \cap Dynamic = {}
    /\ Late \subseteq Ids /\ Skipping \subseteq Ids /\ Switches \subseteq Late
    /\ Switches \cap Skipping = {}
ASSUME StatesAssumption ==
    /\ Off \in Values /\ None \notin Values
    /\ Missing \notin States /\ Missing \notin Ids
    /\ LogSuspends \in BOOLEAN
ASSUME TasksAssumption == {poll, handler} \cap Syncs = {}

VARIABLES
    controls,       \* keys of core.entities
    states,         \* core.entities_states
    reader,         \* where the reader thread is in adding a control
    built,          \* keys of EspDeviceTree._entities
    shown,          \* _state of each entity
    last,           \* StateSync._last_states
    task            \* each task's position and locals

core == <<controls, states, reader>>
vars == <<controls, states, reader, built, shown, last, task>>

NoStates == [e \in Ids |-> Missing]

\* A task that does nothing but be at a place.
At(place) == [at |-> place, todo |-> {}, snap |-> NoStates, id |-> Missing]

\* Between awaits that suspend: the event loop runs nothing else.
Running == {"build", "snapshot", "loop"}
Places == Running \cup {"off", "ready", "log", "notify", "sleep", "dead"}
LoopFree == \A t \in Tasks : task[t].at \notin Running

TypeOK ==
    /\ controls \subseteq Ids
    /\ states \in Table
    /\ reader \in [at : {"idle", "init", "signal"}, id : Ids \cup {Missing}]
    /\ built \subseteq controls
    /\ shown \in [Ids -> Values]
    /\ last \in Table
    /\ task \in [Tasks -> [at : Places, todo : SUBSET Ids, snap : Table,
                           id : Ids \cup {Missing}]]

\* The core has created its controls and loaded stored states, of which some
\* may belong to controls that are not there yet.
Init ==
    /\ controls = Initial
    /\ states \in {s \in Table : \A e \in Initial : s[e] # Missing}
    /\ reader = [at |-> "idle", id |-> Missing]
    /\ built = {}
    /\ shown = [e \in Ids |-> Off]
    /\ last = NoStates
    /\ task = [t \in Tasks |-> IF t = poll THEN At("ready") ELSE At("off")]

-----------------------------------------------------------------------------
(* The serial reader thread.                                               *)

UpdateEntityState(e, v) ==
    /\ reader.at = "idle"
    /\ e \in controls
    /\ states[e] # v
    /\ states' = [states EXCEPT ![e] = v]
    /\ UNCHANGED <<controls, reader, built, shown, last, task>>

\* The control enters the table before it has a state, and without the lock.
AddEntity(e) ==
    /\ reader.at = "idle"
    /\ e \in Dynamic \ controls
    /\ controls' = controls \cup {e}
    /\ reader' = [at |-> "init", id |-> e]
    /\ UNCHANGED <<states, built, shown, last, task>>

SetEntityInitialState ==
    /\ reader.at = "init"
    /\ \E v \in {Off, None} :
          states' = IF states[reader.id] = Missing
                    THEN [states EXCEPT ![reader.id] = v] ELSE states
    /\ reader' = [reader EXCEPT !.at = "signal"]
    /\ UNCHANGED <<controls, built, shown, last, task>>

\* The dispatcher calls _on_entities_added in the reader thread, which hands
\* a new _sync to the loop.
SendSignalEntitiesAdded ==
    /\ reader.at = "signal"
    /\ \E t \in Syncs :
          /\ task[t].at = "off"
          /\ task' = [task EXCEPT ![t] = At("ready")]
    /\ reader' = [at |-> "idle", id |-> Missing]
    /\ UNCHANGED <<controls, states, built, shown, last>>

-----------------------------------------------------------------------------
(* EspDeviceTree.build iterates the tables while the reader may add to     *)
(* them.                                                                   *)

StartSync(t) ==
    /\ t # handler
    /\ task[t].at \in {"ready", "sleep"}
    /\ LoopFree
    /\ task' = [task EXCEPT ![t] = [At("build") EXCEPT !.todo = controls]]
    /\ UNCHANGED <<core, built, shown, last>>

\* Mutant: entities are built for the stored states.
BuildFromStates(t) ==
    /\ task[t].at = "build"
    /\ built' = built \cup {e \in Ids : states[e] # Missing}
    /\ task' = [task EXCEPT ![t] = At("snapshot")]
    /\ UNCHANGED <<core, shown, last>>

\* Mutant: a tree that is there is not built again.
BuildOnce(t) ==
    /\ task[t].at = "build"
    /\ built' = IF built = {} THEN task[t].todo ELSE built
    /\ task' = [task EXCEPT ![t] = At("snapshot")]
    /\ UNCHANGED <<core, shown, last>>

\* Nothing was added, or only where the iteration had not begun or was over.
Build(t) ==
    /\ task[t].at = "build"
    /\ \E seen \in SUBSET (controls \ task[t].todo) :
          built' = built \cup task[t].todo \cup seen
    /\ task' = [task EXCEPT ![t] = At("snapshot")]
    /\ UNCHANGED <<core, shown, last>>

\* "dictionary changed size during iteration": nothing in _sync, _poll or
\* start catches it, so the task ends.
BuildRaises(t) ==
    /\ task[t].at = "build"
    /\ controls # task[t].todo
    /\ \E seen \in SUBSET task[t].todo : built' = built \cup seen
    /\ task' = [task EXCEPT ![t] = At(IF t = poll THEN "dead" ELSE "off")]
    /\ UNCHANGED <<core, shown, last>>

-----------------------------------------------------------------------------
(* The states, one after the other.                                        *)

Snapshot(t) ==
    /\ task[t].at = "snapshot"
    /\ task' = [task EXCEPT ![t] = [at |-> "loop", snap |-> states, id |-> Missing,
                                    todo |-> {e \in Ids : states[e] # Missing}]]
    /\ UNCHANGED <<core, built, shown, last>>

Skips(e, v) == v = None /\ e \in Skipping
Render(v) == IF v = None THEN Off ELSE v

\* Where a task goes when set_state returns.
Returned(t, r) == IF t = handler THEN At("off") ELSE [r EXCEPT !.at = "loop", !.id = Missing]

\* The assignment, then notify_state_change, which may suspend.
Assign(t, r, e, v) ==
    /\ shown' = [shown EXCEPT ![e] = Render(v)]
    /\ \/ task' = [task EXCEPT ![t] = Returned(t, r)]
       \/ /\ shown[e] # Render(v)
          /\ task' = [task EXCEPT ![t] = [r EXCEPT !.at = "notify", !.id = e]]

SetState(t, r, e, v) ==
    \/ /\ Skips(e, v)
       /\ task' = [task EXCEPT ![t] = Returned(t, r)]
       /\ UNCHANGED shown
    \/ ~Skips(e, v) /\ Assign(t, r, e, v)
    \/ /\ ~Skips(e, v) /\ e \in Late /\ LogSuspends
       /\ task' = [task EXCEPT ![t] = [r EXCEPT !.at = "log", !.id = e]]
       /\ UNCHANGED shown

\* Mutant: a state is remembered before its entity is looked up.
SyncStateUnbuilt(t, e) ==
    /\ task[t].at = "loop"
    /\ e \in task[t].todo
    /\ LET r == [task[t] EXCEPT !.todo = @ \ {e}]
           v == task[t].snap[e]
       IN  /\ last' = [last EXCEPT ![e] = v]
           /\ IF e \in built /\ last[e] # v
              THEN SetState(t, r, e, v)
              ELSE task' = [task EXCEPT ![t] = r] /\ UNCHANGED shown
    /\ UNCHANGED <<core, built>>

\* Mutant: only an entity's first state is published.
SyncStateOnce(t, e) ==
    /\ task[t].at = "loop"
    /\ e \in task[t].todo
    /\ LET r == [task[t] EXCEPT !.todo = @ \ {e}]
           v == task[t].snap[e]
       IN  IF e \in built /\ last[e] = Missing
           THEN last' = [last EXCEPT ![e] = v] /\ SetState(t, r, e, v)
           ELSE task' = [task EXCEPT ![t] = r] /\ UNCHANGED <<last, shown>>
    /\ UNCHANGED <<core, built>>

\* The state is remembered before set_state is called.
SyncState(t, e) ==
    /\ task[t].at = "loop"
    /\ e \in task[t].todo
    /\ LET r == [task[t] EXCEPT !.todo = @ \ {e}]
           v == task[t].snap[e]
       IN  IF e \in built /\ last[e] # v
           THEN last' = [last EXCEPT ![e] = v] /\ SetState(t, r, e, v)
           ELSE task' = [task EXCEPT ![t] = r] /\ UNCHANGED <<last, shown>>
    /\ UNCHANGED <<core, built>>

EndSync(t) ==
    /\ task[t].at = "loop"
    /\ task[t].todo = {}
    /\ task' = [task EXCEPT ![t] = At(IF t = poll THEN "sleep" ELSE "off")]
    /\ UNCHANGED <<core, built, shown, last>>

\* Mutant: a set_state that was suspended in its log does not assign.
ResumeWithoutState(t) ==
    /\ task[t].at = "log"
    /\ LoopFree
    /\ task' = [task EXCEPT ![t] = Returned(t, task[t])]
    /\ UNCHANGED <<core, built, shown, last>>

\* The log subscribers' sockets have drained.
ResumeFromLog(t) ==
    /\ task[t].at = "log"
    /\ LoopFree
    /\ Assign(t, task[t], task[t].id, task[t].snap[task[t].id])
    /\ UNCHANGED <<core, built, last>>

ResumeFromNotify(t) ==
    /\ task[t].at = "notify"
    /\ LoopFree
    /\ task' = [task EXCEPT ![t] = Returned(t, task[t])]
    /\ UNCHANGED <<core, built, shown, last>>

\* A client's SwitchCommandRequest: the packet goes to the panel, and the
\* entity takes the commanded state; _last_states does not.
HandleSwitch(e, v) ==
    /\ task[handler].at = "off"
    /\ LoopFree
    /\ e \in Switches \cap built
    /\ SetState(handler, [At("off") EXCEPT !.snap[e] = v], e, v)
    /\ UNCHANGED <<core, built, last>>

-----------------------------------------------------------------------------
CoreStep ==
    \/ \E e \in Ids, v \in States : UpdateEntityState(e, v)
    \/ \E e \in Dynamic : AddEntity(e)
    \/ SetEntityInitialState
    \/ SendSignalEntitiesAdded

TaskStep(t) ==
    \/ StartSync(t) \/ Build(t) \/ BuildRaises(t) \/ Snapshot(t)
    \/ \E e \in Ids : SyncState(t, e)
    \/ EndSync(t) \/ ResumeFromLog(t) \/ ResumeFromNotify(t)

Command == \E e \in Switches, v \in Values : HandleSwitch(e, v)

Next == CoreStep \/ (\E t \in Tasks : TaskStep(t)) \/ Command

Spec == Init /\ [][Next]_vars

Resume(t) == StartSync(t) \/ ResumeFromLog(t) \/ ResumeFromNotify(t)

\* The loop runs ready tasks in turn, so that none is passed over forever
\* (strong fairness: another task may hold the loop again and again), the
\* poll timer fires, and a full socket drains or is lost.  The reader
\* finishes adding a control it has begun.
Fairness ==
    /\ WF_vars(SetEntityInitialState)
    /\ WF_vars(SendSignalEntitiesAdded)
    /\ \A t \in Tasks : WF_vars(TaskStep(t)) /\ SF_vars(Resume(t))

FairSpec == Spec /\ Fairness

-----------------------------------------------------------------------------
(* Properties.                                                             *)

\* A state that _last_states remembers, so that no poll will publish it
\* again, is the state the entity shows, or is being given to it: whatever
\* stale snapshots the overlapping _sync tasks work from.  (A commanded
\* switch shows the command instead.)
LastIsShown ==
    \A e \in Ids \ Switches :
        last[e] # Missing /\ ~Skips(e, last[e]) =>
            \/ shown[e] = Render(last[e])
            \/ \E t \in Tasks : task[t].at = "log" /\ task[t].id = e

\* The entity shows what the core has, as far as it can be shown.
Mirrored(e) ==
    e \in built /\ (Skips(e, states[e]) \/ shown[e] = Render(states[e]))

\* The poller polls as long as the bridge runs.
PollAlive == task[poll].at # "dead"

\* When the panel falls silent and the poller lives, every entity ends up
\* showing the core's state, also the ones added late, whose control was in
\* the table before its state, and the ones a stale snapshot overwrote.
\* (A commanded switch may keep showing a command the panel refused.)
EventuallyMirrored ==
    <>[][~CoreStep]_vars /\ <>[]PollAlive
        => <>[](\A e \in controls \ Switches : Mirrored(e))
=============================================================================
