------------------------------- MODULE Store -------------------------------
(***************************************************************************)
(* The file-backed store (storage.py) together with its only client, the   *)
(* core's _store_* operations (core.py).                                   *)
(*                                                                         *)
(* A thread changes the shared dictionary under _state_lock, and after that*)
(* asks the event loop for a delayed save.  The loop                       *)
(* (re-)arms a one-shot timer; when it expires a task deep-copies the      *)
(* dictionary and hands the copy to a worker thread, which writes it to a  *)
(* temporary file and renames that over the store file.  A stop, a kill or *)
(* a disk error can come between any two of these steps.                   *)
(***************************************************************************)
EXTENDS Integers, FiniteSets

CONSTANTS
    Entities,      \* entity ids whose states are stored
    Detected,      \* the key under which detected devices are stored
    States,        \* stored values
    Absent,        \* the key is not in the dictionary
    Truncated,     \* what open(..., "w") leaves: no complete document yet
    Torn,          \* the bytes of two saves in one file, which json rejects
    Threads,       \* threads that change the dictionary (reader, event loop)
    Delay,         \* debounce delay, in clock ticks
    MaxCalls,      \* bound on queued call_soon_threadsafe callbacks
    MaxJobs,       \* saves under way at once; 1: a save ends before the next
    Fallible       \* whether makedirs, open, write or replace may fail

Keys == Entities \cup {Detected}
Data == [Keys -> States \cup {Absent}]
Jobs == 1..MaxJobs
Inodes == 1..(MaxJobs + 2)
NoInode == 0
Off == -1

ASSUME BoundsAssumption ==
    /\ Delay \in Nat
    /\ MaxCalls \in Nat \ {0}
    /\ MaxJobs \in Nat \ {0}
    /\ Fallible \in BOOLEAN
ASSUME ValuesAssumption ==
    /\ Torn \notin Data /\ Truncated \notin Data
    /\ Absent \notin States
    /\ Detected \notin Entities

VARIABLES
    phase,         \* "up", "draining" (loop gone, workers finishing), "down"
    stored,        \* JablotronStore.data, aliased by Jablotron._stored_data
    pc,            \* per thread: "idle", or "notify" between unlock and call
    calls,         \* async_delay_save callbacks queued on the event loop
    timer,         \* ticks until _delay_save_handle fires, or Off
    job,           \* per save: its step, the copied payload, the open inode
    final,         \* inode the store path names
    tmp,           \* inode the .json.tmp path names, or NoInode
    content,       \* what each inode holds
    failed         \* the latest save ended in a caught OSError

procVars == <<stored, pc, calls, timer>>
fileVars == <<final, tmp, content>>
vars == <<phase, stored, pc, calls, timer, job, final, tmp, content, failed>>

NoData == [k \in Keys |-> Absent]
NoJob == [st |-> "none", payload |-> NoData, inode |-> NoInode]

Steps == {"none", "created", "queued", "open", "written"}

TypeOK ==
    /\ phase \in {"up", "draining", "down"}
    /\ stored \in Data
    /\ pc \in [Threads -> {"idle", "notify"}]
    /\ calls \in 0..MaxCalls
    /\ timer \in Off..Delay
    /\ job \in [Jobs -> [st : Steps, payload : Data, inode : Inodes \cup {NoInode}]]
    /\ final \in Inodes
    /\ tmp \in Inodes \cup {NoInode}
    /\ content \in [Inodes -> Data \cup {Truncated, Torn}]
    /\ failed \in BOOLEAN

\* A missing store file and an empty one are the same to _read_sync's caller.
Init ==
    /\ phase = "up"
    /\ stored = NoData
    /\ pc = [t \in Threads |-> "idle"]
    /\ calls = 0
    /\ timer = Off
    /\ job = [j \in Jobs |-> NoJob]
    /\ final = 1
    /\ tmp = NoInode
    /\ content = [i \in Inodes |-> NoData]
    /\ failed = FALSE

-----------------------------------------------------------------------------
(* The core's threads.                                                     *)

Write(t, k, v) ==
    /\ phase = "up"
    /\ pc[t] = "idle"
    /\ stored' = [stored EXCEPT ![k] = v]
    /\ pc' = [pc EXCEPT ![t] = "notify"]
    /\ UNCHANGED <<phase, calls, timer, job, fileVars, failed>>

\* An unchanged state returns before anything is scheduled.
StoreState(t) ==
    \E e \in Entities, v \in States : stored[e] # v /\ Write(t, e, v)

RemoveStoredEntityState(t) ==
    \E e \in Entities : stored[e] # Absent /\ Write(t, e, Absent)

\* The detected data is stored whether it changed or not.
StoreDetectedData(t) == \E v \in States : Write(t, Detected, v)

StoreDataThreadsafe(t) ==
    /\ pc[t] = "notify"
    /\ calls < MaxCalls
    /\ calls' = calls + 1
    /\ pc' = [pc EXCEPT ![t] = "idle"]
    /\ UNCHANGED <<phase, stored, timer, job, fileVars, failed>>

-----------------------------------------------------------------------------
(* The event loop.                                                         *)

Busy == {j \in Jobs : job[j].st # "none"}

\* Mutant: a call while the timer is armed adds to it.
AsyncDelaySaveExtends ==
    /\ calls > 0
    /\ calls' = calls - 1
    /\ timer' = timer + Delay + 1
    /\ UNCHANGED <<phase, stored, pc, job, fileVars, failed>>

\* Mutant: a call during a save relies on that save.
AsyncDelaySaveSkipsBusy ==
    /\ calls > 0
    /\ calls' = calls - 1
    /\ timer' = IF Busy = {} THEN Delay ELSE timer
    /\ UNCHANGED <<phase, stored, pc, job, fileVars, failed>>

\* Mutant: the armed timer is cancelled and not armed again.
AsyncDelaySaveForgets ==
    /\ calls > 0
    /\ calls' = calls - 1
    /\ timer' = IF timer = Off THEN Delay ELSE Off
    /\ UNCHANGED <<phase, stored, pc, job, fileVars, failed>>

\* Cancels the armed timer, if any, and arms a new one.
AsyncDelaySave ==
    /\ calls > 0
    /\ calls' = calls - 1
    /\ timer' = Delay
    /\ UNCHANGED <<phase, stored, pc, job, fileVars, failed>>

Tick ==
    /\ timer > 0
    /\ timer' = timer - 1
    /\ UNCHANGED <<phase, stored, pc, calls, job, fileVars, failed>>

RunDelayedSave ==
    /\ timer = 0
    /\ timer' = Off
    /\ \E j \in Jobs \ Busy : job' = [job EXCEPT ![j].st = "created"]
    /\ UNCHANGED <<phase, stored, pc, calls, fileVars, failed>>

\* The task's first step: _data_to_store under the lock, then to_thread.
StartSave(j) ==
    /\ job[j].st = "created"
    /\ job' = [job EXCEPT ![j].st = "queued", ![j].payload = stored]
    /\ UNCHANGED <<phase, procVars, fileVars, failed>>

-----------------------------------------------------------------------------
(* _write_sync, in a worker thread of the default executor.                *)

Used == {final} \cup {job[j].inode : j \in Jobs}

\* Mutant: the store file itself is opened and written in place.
OpenInPlace(j) ==
    /\ job[j].st = "queued"
    /\ job' = [job EXCEPT ![j].st = "open", ![j].inode = final]
    /\ tmp' = final
    /\ content' = [content EXCEPT ![final] = Truncated]
    /\ UNCHANGED <<phase, procVars, final, failed>>

\* open(..., "w") truncates the file the path names, or creates a new one.
OpenTemp(j) ==
    /\ job[j].st = "queued"
    /\ \E i \in Inodes :
          /\ IF tmp = NoInode THEN i \notin Used ELSE i = tmp
          /\ tmp' = i
          /\ job' = [job EXCEPT ![j].st = "open", ![j].inode = i]
          /\ content' = [content EXCEPT ![i] = Truncated]
    /\ UNCHANGED <<phase, procVars, final, failed>>

\* Another save that writes, or wrote, through the same inode since it was
\* truncated may leave its bytes between or behind ours.
Shared(j) ==
    \/ content[job[j].inode] # Truncated
    \/ \E k \in Jobs \ {j} : job[k].inode = job[j].inode

\* Mutant: the dictionary is dumped where it is, and not the copy.
DumpShared(j) ==
    /\ job[j].st = "open"
    /\ content' = [content EXCEPT ![job[j].inode] = stored]
    /\ job' = [job EXCEPT ![j].st = "written"]
    /\ UNCHANGED <<phase, procVars, final, tmp, failed>>

DumpPayload(j) ==
    /\ job[j].st = "open"
    /\ \E c \in {job[j].payload} \cup (IF Shared(j) THEN {Torn} ELSE {}) :
          content' = [content EXCEPT ![job[j].inode] = c]
    /\ job' = [job EXCEPT ![j].st = "written"]
    /\ UNCHANGED <<phase, procVars, final, tmp, failed>>

ReplaceFile(j) ==
    /\ job[j].st = "written"
    /\ tmp # NoInode
    /\ final' = tmp
    /\ tmp' = NoInode
    /\ job' = [job EXCEPT ![j] = NoJob]
    /\ failed' = FALSE
    /\ UNCHANGED <<phase, procVars, content>>

\* The OSError is logged and the save forgotten.  Besides a disk error,
\* os.replace fails when another save has renamed the temporary file.
SaveFails(j) ==
    /\ \/ Fallible /\ job[j].st \in {"queued", "open", "written"}
       \/ job[j].st = "written" /\ tmp = NoInode
    /\ job' = [job EXCEPT ![j] = NoJob]
    /\ failed' = TRUE
    /\ UNCHANGED <<phase, procVars, fileVars>>

-----------------------------------------------------------------------------
(* The process.                                                            *)

\* asyncio.run ends: timers and callbacks are dropped, tasks that did not
\* start never run, a job no worker has taken may be cancelled; a job that
\* has started is waited for.
Stop ==
    /\ phase = "up"
    /\ phase' = "draining"
    /\ pc' = [t \in Threads |-> "idle"]
    /\ calls' = 0
    /\ timer' = Off
    /\ \E cancelled \in SUBSET {j \in Jobs : job[j].st = "queued"} :
          job' = [j \in Jobs |->
                     IF job[j].st = "created" \/ j \in cancelled
                     THEN NoJob ELSE job[j]]
    /\ UNCHANGED <<stored, fileVars, failed>>

Exit ==
    /\ phase = "draining"
    /\ Busy = {}
    /\ phase' = "down"
    /\ UNCHANGED <<procVars, job, fileVars, failed>>

Kill ==
    /\ phase # "down"
    /\ phase' = "down"
    /\ pc' = [t \in Threads |-> "idle"]
    /\ calls' = 0
    /\ timer' = Off
    /\ job' = [j \in Jobs |-> NoJob]
    /\ UNCHANGED <<stored, fileVars, failed>>

\* _read_sync: an unreadable file is no data.
Loaded(c) == IF c \in {Truncated, Torn} THEN NoData ELSE c

Restart ==
    /\ phase = "down"
    /\ phase' = "up"
    /\ stored' = Loaded(content[final])
    /\ failed' = FALSE
    /\ UNCHANGED <<pc, calls, timer, job, fileVars>>

Change == \E t \in Threads :
    StoreState(t) \/ RemoveStoredEntityState(t) \/ StoreDetectedData(t)

Loop == AsyncDelaySave \/ Tick \/ RunDelayedSave

Worker == \E j \in Jobs : OpenTemp(j) \/ DumpPayload(j) \/ ReplaceFile(j)

Fail == \E j \in Jobs : SaveFails(j)

Next ==
    \/ Change
    \/ \E t \in Threads : StoreDataThreadsafe(t)
    \/ Loop
    \/ \E j \in Jobs : StartSave(j)
    \/ Worker
    \/ Fail
    \/ Stop \/ Exit \/ Kill \/ Restart

Spec == Init /\ [][Next]_vars

\* The loop, the clock and the worker threads keep running; nothing makes a
\* state change, a stop or a restart happen.
Fairness ==
    /\ \A t \in Threads : WF_vars(StoreDataThreadsafe(t))
    /\ WF_vars(AsyncDelaySave)
    /\ WF_vars(Tick)
    /\ WF_vars(RunDelayedSave)
    /\ \A j \in Jobs : WF_vars(StartSave(j))
    /\ \A j \in Jobs : WF_vars(OpenTemp(j) \/ DumpPayload(j) \/ ReplaceFile(j) \/ SaveFails(j))

FairSpec == Spec /\ Fairness

-----------------------------------------------------------------------------
(* Properties.                                                             *)

\* The store file always holds a complete document: whenever the process
\* dies, _read_sync of the next one finds what some save copied.
FileIntact == content[final] \notin {Truncated, Torn}

OnDisk == Loaded(content[final])

SaveComing ==
    \/ \E t \in Threads : pc[t] = "notify"
    \/ calls > 0
    \/ timer # Off
    \/ \E j \in Jobs : \/ job[j].st = "created"
                       \/ job[j].st # "none" /\ job[j].payload = stored

\* While the bridge runs, a dictionary that differs from the file always has
\* a save on its way that will bring it there, unless the latest save failed
\* (it is logged, not retried).  The call that re-arms the timer may come
\* late or twice, and the copy is taken long after the change: none of the
\* schedules loses the last change.
NoLostSave == phase = "up" => OnDisk = stored \/ SaveComing \/ failed

Disturbance == Change \/ Fail \/ Stop \/ Kill

\* Once changes, failures and stops end, the file becomes the dictionary and
\* stays so: every re-armed timer expires and its save reaches the file.
EventuallySaved ==
    <>[][~Disturbance]_vars => <>[](phase = "up" => OnDisk = stored \/ failed)

\* What the store promises its client: a cell of memory, and a disk that
\* moves from one complete copy of the memory to a later one.
Copying == {j \in Jobs : job[j].st \in {"queued", "open", "written"}}
Copied == IF Copying = {} THEN OnDisk ELSE job[CHOOSE j \in Copying : TRUE].payload

Durable == INSTANCE DurableCell WITH mem <- stored, disk <- OnDisk, copy <- Copied

ImplementsDurableCell == Durable!Spec
=============================================================================
