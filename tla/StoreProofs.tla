---------------------------- MODULE StoreProofs ----------------------------
(***************************************************************************)
(* The store's type invariant for every value of the constants, and, for   *)
(* saves that do not overlap (MaxJobs = 1), the inductive invariant from   *)
(* which the file is always intact, no change is lost while the bridge     *)
(* runs, and the store implements DurableCell.                             *)
(***************************************************************************)
EXTENDS Store, TLAPS

JobRecord == [st : Steps, payload : Data, inode : Inodes \cup {NoInode}]

LEMMA NoDataType == NoData \in Data
  BY DEF NoData, Data

LEMMA NoJobType == NoJob \in JobRecord
  BY NoDataType DEF NoJob, JobRecord, Steps

LEMMA LoadedType ==
  ASSUME NEW c \in Data \cup {Truncated, Torn} PROVE Loaded(c) \in Data
  BY NoDataType DEF Loaded

LEMMA WriteType ==
  ASSUME TypeOK, NEW t \in Threads, NEW k \in Keys,
         NEW v \in States \cup {Absent}, Write(t, k, v)
  PROVE  TypeOK'
  BY DEF TypeOK, Write, Data, fileVars

-----------------------------------------------------------------------------
LEMMA InitType == Init => TypeOK
  <1> SUFFICES ASSUME Init PROVE TypeOK
    OBVIOUS
  <1>1. job \in [Jobs -> JobRecord] BY NoJobType DEF Init
  <1>2. final \in Inodes /\ tmp \in Inodes \cup {NoInode}
    BY BoundsAssumption DEF Init, Inodes
  <1>3. calls \in 0..MaxCalls /\ timer \in Off..Delay
    BY BoundsAssumption DEF Init, Off
  <1>4. content \in [Inodes -> Data \cup {Truncated, Torn}] /\ stored \in Data
    BY NoDataType DEF Init
  <1> QED BY <1>1, <1>2, <1>3, <1>4 DEF Init, TypeOK, JobRecord

LEMMA NextType == TypeOK /\ [Next]_vars => TypeOK'
  <1> SUFFICES ASSUME TypeOK, [Next]_vars PROVE TypeOK'
    OBVIOUS
  <1> USE BoundsAssumption
  <1>1. CASE Change
    <2>1. ASSUME NEW t \in Threads, StoreState(t) PROVE TypeOK'
      BY <2>1, WriteType DEF StoreState, Keys
    <2>2. ASSUME NEW t \in Threads, RemoveStoredEntityState(t) PROVE TypeOK'
      BY <2>2, WriteType DEF RemoveStoredEntityState, Keys
    <2>3. ASSUME NEW t \in Threads, StoreDetectedData(t) PROVE TypeOK'
      BY <2>3, WriteType DEF StoreDetectedData, Keys
    <2> QED BY <1>1, <2>1, <2>2, <2>3 DEF Change
  <1>2. ASSUME NEW t \in Threads, StoreDataThreadsafe(t) PROVE TypeOK'
    BY <1>2 DEF StoreDataThreadsafe, TypeOK, fileVars
  <1>3. CASE AsyncDelaySave
    BY <1>3 DEF AsyncDelaySave, TypeOK, fileVars, Off
  <1>4. CASE Tick
    BY <1>4 DEF Tick, TypeOK, fileVars, Off
  <1>5. CASE RunDelayedSave
    BY <1>5 DEF RunDelayedSave, TypeOK, fileVars, Off, Steps
  <1>6. ASSUME NEW j \in Jobs, StartSave(j) PROVE TypeOK'
    BY <1>6 DEF StartSave, TypeOK, fileVars, procVars, Steps
  <1>7. ASSUME NEW j \in Jobs, OpenTemp(j) PROVE TypeOK'
    <2>1. PICK i \in Inodes :
            /\ tmp' = i
            /\ job' = [job EXCEPT ![j].st = "open", ![j].inode = i]
            /\ content' = [content EXCEPT ![i] = Truncated]
      BY <1>7 DEF OpenTemp
    <2>2. UNCHANGED <<phase, procVars, final, failed>>
      BY <1>7 DEF OpenTemp
    <2> QED BY <2>1, <2>2 DEF TypeOK, procVars, Steps
  <1>8. ASSUME NEW j \in Jobs, DumpPayload(j) PROVE TypeOK'
    BY <1>8 DEF DumpPayload, TypeOK, procVars, Steps
  <1>9. ASSUME NEW j \in Jobs, ReplaceFile(j) PROVE TypeOK'
    BY <1>9, NoJobType DEF ReplaceFile, TypeOK, procVars, JobRecord
  <1>10. ASSUME NEW j \in Jobs, SaveFails(j) PROVE TypeOK'
    BY <1>10, NoJobType DEF SaveFails, TypeOK, procVars, fileVars, JobRecord
  <1>11. CASE Stop
    BY <1>11, NoJobType DEF Stop, TypeOK, fileVars, JobRecord, Off
  <1>12. CASE Exit
    BY <1>12 DEF Exit, TypeOK, procVars, fileVars
  <1>13. CASE Kill
    BY <1>13, NoJobType DEF Kill, TypeOK, fileVars, JobRecord, Off
  <1>14. CASE Restart
    <2>1. content[final] \in Data \cup {Truncated, Torn} BY DEF TypeOK
    <2>2. stored' \in Data BY <1>14, <2>1, LoadedType DEF Restart
    <2> QED BY <1>14, <2>2 DEF Restart, TypeOK, fileVars
  <1>15. CASE UNCHANGED vars
    BY <1>15 DEF vars, TypeOK
  <1> QED
    BY <1>1, <1>2, <1>3, <1>4, <1>5, <1>6, <1>7, <1>8, <1>9, <1>10, <1>11,
       <1>12, <1>13, <1>14, <1>15
    DEF Next, Loop, Worker, Fail

(* Every variable keeps its type, whatever threads, stops and failures do. *)
THEOREM TypeCorrect == Spec => []TypeOK
  <1> QED BY InitType, NextType, PTL DEF Spec
-----------------------------------------------------------------------------
(***************************************************************************)
(* Saves that do not overlap.  The inductive invariant says which inode a  *)
(* save holds and what is in it, that a process that is gone has nothing   *)
(* pending, and what the absence of pending work implies: Settled is the   *)
(* negation of the part of SaveComing that comes before the copy.          *)
(***************************************************************************)
st == job[1].st

Settled ==
    /\ \A t \in Threads : pc[t] = "idle"
    /\ calls = 0
    /\ timer = Off
    /\ st # "created"

Pending ==
    /\ phase # "up" => Settled
    /\ phase = "down" => st = "none"

Files ==
    /\ tmp # final
    /\ content[final] \notin {Truncated, Torn}
    /\ st \in {"open", "written"} => tmp # NoInode /\ job[1].inode = tmp
    /\ st = "open" => content[tmp] = Truncated
    /\ st = "written" => content[tmp] = job[1].payload

LastChange ==
    phase = "up" /\ Settled =>
        IF st = "none" THEN content[final] = stored \/ failed
        ELSE job[1].payload = stored

SerialInv == TypeOK /\ Pending /\ Files /\ LastChange

LEMMA SerialInit ==
  ASSUME MaxJobs = 1, Init PROVE SerialInv
  <1>1. TypeOK BY InitType
  <1>2. 1 \in Jobs /\ 1 \in Inodes BY DEF Jobs, Inodes
  <1>3. st = "none" BY <1>2 DEF Init, NoJob, st
  <1>4. content[final] = NoData BY <1>2 DEF Init
  <1>5. Pending BY <1>3 DEF Pending, Settled, Init
  <1>6. Files
    BY <1>3, <1>4, NoDataType, ValuesAssumption DEF Files, Init, NoInode
  <1>7. LastChange BY <1>3, <1>4 DEF LastChange, Init
  <1> QED BY <1>1, <1>5, <1>6, <1>7 DEF SerialInv

\* A change leaves the file and the save alone and makes its thread notify.
LEMMA SerialWrite ==
  ASSUME SerialInv, NEW t \in Threads, NEW k \in Keys,
         NEW v \in States \cup {Absent}, Write(t, k, v)
  PROVE  Pending' /\ Files' /\ LastChange'
  <1>1. ~Settled' BY DEF Write, Settled, SerialInv, TypeOK
  <1> QED
    BY <1>1 DEF Write, SerialInv, Pending, Files, LastChange, st, fileVars

LEMMA SerialNext == MaxJobs = 1 /\ SerialInv /\ [Next]_vars => SerialInv'
  <1> SUFFICES ASSUME MaxJobs = 1, SerialInv, [Next]_vars PROVE SerialInv'
    OBVIOUS
  <1> USE BoundsAssumption
  <1>0. Jobs = {1} /\ 1 \in Jobs BY DEF Jobs
  <1>t. TypeOK /\ TypeOK' BY NextType DEF SerialInv
  <1>p. job[1] \in JobRecord BY <1>0, <1>t DEF TypeOK, JobRecord
  <1> SUFFICES Pending' /\ Files' /\ LastChange'
    BY <1>t DEF SerialInv
  <1>1. CASE Change
    BY <1>1, SerialWrite
    DEF Change, StoreState, RemoveStoredEntityState, StoreDetectedData, Keys
  <1>2. ASSUME NEW t \in Threads, StoreDataThreadsafe(t)
        PROVE  Pending' /\ Files' /\ LastChange'
    <2>1. phase = "up"
      BY <1>2 DEF StoreDataThreadsafe, SerialInv, Pending, Settled
    <2>2. ~Settled' BY <1>2, <1>t DEF StoreDataThreadsafe, Settled, TypeOK
    <2> QED
      BY <1>2, <2>1, <2>2
      DEF StoreDataThreadsafe, SerialInv, Pending, Files, LastChange, st, fileVars
  <1>3. CASE AsyncDelaySave
    <2>1. phase = "up" BY <1>3 DEF AsyncDelaySave, SerialInv, Pending, Settled
    <2>2. ~Settled' BY <1>3 DEF AsyncDelaySave, Settled, Off
    <2> QED
      BY <1>3, <2>1, <2>2
      DEF AsyncDelaySave, SerialInv, Pending, Files, LastChange, st, fileVars
  <1>4. CASE Tick
    <2>1. phase = "up" BY <1>4 DEF Tick, SerialInv, Pending, Settled, Off
    <2>2. ~Settled' BY <1>4, <1>t DEF Tick, Settled, Off, TypeOK
    <2> QED
      BY <1>4, <2>1, <2>2
      DEF Tick, SerialInv, Pending, Files, LastChange, st, fileVars
  <1>5. CASE RunDelayedSave
    <2>1. phase = "up" BY <1>5 DEF RunDelayedSave, SerialInv, Pending, Settled, Off
    <2>2. st' = "created"
      BY <1>5, <1>0, <1>t DEF RunDelayedSave, st, TypeOK
    <2> QED
      BY <1>5, <2>1, <2>2
      DEF RunDelayedSave, SerialInv, Pending, Files, LastChange, Settled, fileVars
  <1>6. ASSUME NEW j \in Jobs, StartSave(j)
        PROVE  Pending' /\ Files' /\ LastChange'
    <2>1. j = 1 /\ st = "created" BY <1>6, <1>0 DEF StartSave, st
    <2>2. phase = "up" BY <2>1 DEF SerialInv, Pending, Settled
    <2>3. st' = "queued" /\ job'[1].payload = stored
      BY <1>6, <1>0, <1>t, <2>1 DEF StartSave, st, TypeOK
    <2> QED
      BY <1>6, <2>2, <2>3
      DEF StartSave, SerialInv, Pending, Files, LastChange, Settled, fileVars, procVars
  <1>7. ASSUME NEW j \in Jobs, OpenTemp(j)
        PROVE  Pending' /\ Files' /\ LastChange'
    <2>1. j = 1 /\ st = "queued" BY <1>7, <1>0 DEF OpenTemp, st
    <2>2. PICK i \in Inodes :
            /\ i # final
            /\ tmp' = i
            /\ job' = [job EXCEPT ![1].st = "open", ![1].inode = i]
            /\ content' = [content EXCEPT ![i] = Truncated]
      BY <1>7, <2>1 DEF OpenTemp, Used, SerialInv, Files
    <2>3. UNCHANGED <<phase, stored, pc, calls, timer, final, failed>>
      BY <1>7 DEF OpenTemp, procVars
    <2>4. /\ st' = "open" /\ job'[1].inode = i
          /\ job'[1].payload = job[1].payload
      BY <2>2, <1>0, <1>t DEF st, TypeOK
    <2>5. content'[i] = Truncated /\ content'[final] = content[final]
      BY <2>2, <1>t DEF TypeOK
    <2>6. i # NoInode BY DEF Inodes, NoInode
    <2>7. Files' BY <2>2, <2>3, <2>4, <2>5, <2>6 DEF Files, SerialInv
    <2>8. Pending' BY <2>1, <2>3, <2>4 DEF Pending, SerialInv, Settled
    <2>9. LastChange'
      BY <2>1, <2>3, <2>4 DEF LastChange, SerialInv, Settled
    <2> QED BY <2>7, <2>8, <2>9
  <1>8. ASSUME NEW j \in Jobs, DumpPayload(j)
        PROVE  Pending' /\ Files' /\ LastChange'
    <2>1. j = 1 /\ st = "open" BY <1>8, <1>0 DEF DumpPayload, st
    <2>2. ~Shared(1) BY <1>0, <2>1 DEF Shared, SerialInv, Files
    <2>3. /\ content' = [content EXCEPT ![tmp] = job[1].payload]
          /\ job' = [job EXCEPT ![1].st = "written"]
      BY <1>8, <2>1, <2>2 DEF DumpPayload, SerialInv, Files
    <2>4. UNCHANGED <<phase, stored, pc, calls, timer, final, tmp, failed>>
      BY <1>8 DEF DumpPayload, procVars
    <2>5. /\ st' = "written" /\ job'[1].inode = job[1].inode
          /\ job'[1].payload = job[1].payload
      BY <2>3, <1>0, <1>t DEF st, TypeOK
    <2>6. tmp \in Inodes /\ tmp # final
      BY <2>1, <1>t DEF TypeOK, SerialInv, Files
    <2>7. content'[tmp] = job[1].payload /\ content'[final] = content[final]
      BY <2>3, <2>6, <1>t DEF TypeOK
    <2>8. Files' BY <2>1, <2>4, <2>5, <2>7 DEF Files, SerialInv
    <2>9. Pending' BY <2>1, <2>4, <2>5 DEF Pending, SerialInv, Settled
    <2>10. LastChange'
      BY <2>1, <2>4, <2>5 DEF LastChange, SerialInv, Settled
    <2> QED BY <2>8, <2>9, <2>10
  <1>9. ASSUME NEW j \in Jobs, ReplaceFile(j)
        PROVE  Pending' /\ Files' /\ LastChange'
    <2>1. j = 1 /\ st = "written" BY <1>9, <1>0 DEF ReplaceFile, st
    <2>2. final' = tmp /\ tmp' = NoInode /\ content' = content
      BY <1>9 DEF ReplaceFile
    <2>3. UNCHANGED <<phase, stored, pc, calls, timer>>
      BY <1>9 DEF ReplaceFile, procVars
    <2>4. st' = "none"
      BY <1>9, <2>1, <1>0, <1>t DEF ReplaceFile, st, TypeOK, NoJob
    <2>5. content[tmp] = job[1].payload /\ tmp # NoInode
      BY <2>1 DEF SerialInv, Files
    <2>6. content[tmp] \in Data BY <2>5, <1>p DEF JobRecord
    <2>7. Files'
      BY <2>2, <2>4, <2>5, <2>6, ValuesAssumption DEF Files
    <2>8. Pending' BY <2>1, <2>3, <2>4 DEF Pending, SerialInv, Settled
    <2>9. LastChange'
      BY <2>1, <2>2, <2>3, <2>4, <2>5 DEF LastChange, SerialInv, Settled
    <2> QED BY <2>7, <2>8, <2>9
  <1>10. ASSUME NEW j \in Jobs, SaveFails(j)
         PROVE  Pending' /\ Files' /\ LastChange'
    <2>1. j = 1 /\ st \in {"queued", "open", "written"}
      BY <1>10, <1>0 DEF SaveFails, st
    <2>2. st' = "none" /\ failed'
      BY <1>10, <2>1, <1>0, <1>t DEF SaveFails, st, TypeOK, NoJob
    <2>3. UNCHANGED <<phase, stored, pc, calls, timer, final, tmp, content>>
      BY <1>10 DEF SaveFails, procVars, fileVars
    <2> QED
      BY <2>1, <2>2, <2>3 DEF Pending, Files, LastChange, SerialInv, Settled
  <1>11. CASE Stop
    <2>1. st' # "created"
      BY <1>11, <1>0, <1>t DEF Stop, st, TypeOK, NoJob
    <2>2. st' = "none" \/ job'[1] = job[1]
      BY <1>11, <1>0, <1>t DEF Stop, st, TypeOK, NoJob
    <2>3. Settled' BY <1>11, <2>1 DEF Stop, Settled
    <2>4. Files' BY <1>11, <2>2 DEF Stop, Files, SerialInv, st, fileVars
    <2> QED BY <1>11, <2>3, <2>4 DEF Stop, Pending, LastChange
  <1>12. CASE Exit
    BY <1>12, <1>0
    DEF Exit, Busy, SerialInv, Pending, Files, LastChange, Settled, st,
        procVars, fileVars
  <1>13. CASE Kill
    <2>1. st' = "none" BY <1>13, <1>0 DEF Kill, st, NoJob
    <2>2. Settled' BY <1>13, <2>1 DEF Kill, Settled
    <2>3. Files' BY <1>13, <2>1 DEF Kill, Files, SerialInv, fileVars
    <2> QED BY <1>13, <2>1, <2>2, <2>3 DEF Kill, Pending, LastChange
  <1>14. CASE Restart
    <2>1. st' = "none" /\ st = "none"
      BY <1>14 DEF Restart, SerialInv, Pending, st
    <2>2. stored' = content[final] /\ content' = content /\ final' = final
      BY <1>14 DEF Restart, SerialInv, Files, Loaded, fileVars
    <2>3. Files' BY <1>14, <2>1, <2>2 DEF Restart, SerialInv, Files, fileVars
    <2>4. Pending' BY <1>14, <2>1 DEF Restart, Pending
    <2>5. LastChange' BY <2>1, <2>2 DEF LastChange
    <2> QED BY <2>3, <2>4, <2>5
  <1>15. CASE UNCHANGED vars
    BY <1>15
    DEF vars, SerialInv, Pending, Files, LastChange, Settled, st
  <1> QED
    BY <1>1, <1>2, <1>3, <1>4, <1>5, <1>6, <1>7, <1>8, <1>9, <1>10, <1>11,
       <1>12, <1>13, <1>14, <1>15
    DEF Next, Loop, Worker, Fail

THEOREM Serial ==
  ASSUME MaxJobs = 1 PROVE Spec => []SerialInv
  <1>1. Init => SerialInv BY SerialInit
  <1>2. SerialInv /\ [Next]_vars => SerialInv' BY SerialNext
  <1> QED BY <1>1, <1>2, PTL DEF Spec

(* However a process is stopped, killed or fails to write, the file is one *)
(* complete document, as long as a save ends before the next one starts.   *)
THEOREM FileStaysIntact ==
  ASSUME MaxJobs = 1 PROVE Spec => []FileIntact
  <1>1. SerialInv => FileIntact BY DEF SerialInv, Files, FileIntact
  <1> QED BY <1>1, Serial, PTL

(* While the bridge runs no schedule of the changing threads, the loop and *)
(* the worker leaves a difference between memory and file unattended.      *)
THEOREM NoSaveIsLost ==
  ASSUME MaxJobs = 1 PROVE Spec => []NoLostSave
  <1>1. SerialInv => NoLostSave
    <2> SUFFICES ASSUME SerialInv, phase = "up", ~SaveComing
                 PROVE  OnDisk = stored \/ failed
      BY DEF NoLostSave
    <2>1. 1 \in Jobs BY DEF Jobs
    <2>2. Settled
      BY <2>1 DEF SaveComing, Settled, SerialInv, TypeOK, st
    <2>3. st = "none"
      BY <2>1, <2>2 DEF SaveComing, SerialInv, LastChange, st
    <2> QED
      BY <2>2, <2>3 DEF SerialInv, LastChange, Files, OnDisk, Loaded
  <1> QED BY <1>1, Serial, PTL
-----------------------------------------------------------------------------
(***************************************************************************)
(* The refinement.  With one save at a time, what is copied is the payload *)
(* of save 1 while it is on its way and what is on disk otherwise.         *)
(***************************************************************************)
OneCopy ==
    Copied = IF st \in {"queued", "open", "written"}
             THEN job[1].payload ELSE OnDisk

LEMMA CopiedIs == MaxJobs = 1 => OneCopy
  <1> SUFFICES ASSUME MaxJobs = 1 PROVE OneCopy
    OBVIOUS
  <1> USE DEF OneCopy
  <1>1. Jobs = {1} BY DEF Jobs
  <1>2. CASE st \in {"queued", "open", "written"}
    <2>1. Copying = {1} BY <1>1, <1>2 DEF Copying, st
    <2> QED BY <1>2, <2>1 DEF Copied
  <1>3. CASE st \notin {"queued", "open", "written"}
    <2>1. Copying = {} BY <1>1, <1>3 DEF Copying, st
    <2> QED BY <1>3, <2>1 DEF Copied
  <1> QED BY <1>2, <1>3

LEMMA RefinedInit ==
  ASSUME MaxJobs = 1, Init PROVE Durable!Init
  <1>1. Jobs = {1} /\ final \in Inodes BY DEF Init, Jobs, Inodes
  <1>2. st = "none" BY <1>1 DEF Init, st, NoJob
  <1>3. OnDisk = NoData BY <1>1 DEF OnDisk, Loaded, Init
  <1> QED BY <1>2, <1>3, CopiedIs DEF OneCopy, Init, Durable!Init

LEMMA RefinedNext ==
  ASSUME MaxJobs = 1, SerialInv, SerialInv', OneCopy, OneCopy', [Next]_vars
  PROVE  [Durable!Next]_<<stored, OnDisk, Copied>>
  <1> USE BoundsAssumption
  <1>0. Jobs = {1} /\ 1 \in Jobs BY DEF Jobs
  <1>c. /\ Copied = IF st \in {"queued", "open", "written"}
                    THEN job[1].payload ELSE OnDisk
        /\ Copied' = IF st' \in {"queued", "open", "written"}
                     THEN job'[1].payload ELSE OnDisk'
    BY DEF OneCopy
  <1>t. TypeOK /\ TypeOK' BY DEF SerialInv
  <1>1. ASSUME NEW t \in Threads, NEW k \in Keys,
               NEW v \in States \cup {Absent}, Write(t, k, v)
        PROVE  Durable!Change
    <2>1. OnDisk' = OnDisk BY <1>1 DEF Write, OnDisk, fileVars
    <2>2. Copied' = Copied BY <1>1, <1>c, <2>1 DEF Write, st
    <2> QED BY <1>t, <2>1, <2>2 DEF Durable!Change, TypeOK
  <1>2. CASE Change
    BY <1>1, <1>2
    DEF Change, StoreState, RemoveStoredEntityState, StoreDetectedData, Keys, Durable!Next
  <1>3. ASSUME UNCHANGED <<stored, job, fileVars>>
        PROVE  UNCHANGED <<stored, OnDisk, Copied>>
    <2>1. OnDisk' = OnDisk BY <1>3 DEF OnDisk, fileVars
    <2> QED BY <1>3, <1>c, <2>1 DEF st
  <1>4. CASE \/ \E t \in Threads : StoreDataThreadsafe(t)
             \/ AsyncDelaySave \/ Tick \/ Exit
    BY <1>3, <1>4
    DEF StoreDataThreadsafe, AsyncDelaySave, Tick, Exit, procVars
  <1>5. CASE RunDelayedSave
    <2>1. PICK j \in Jobs \ Busy : job' = [job EXCEPT ![j].st = "created"]
      BY <1>5 DEF RunDelayedSave
    <2>2. j = 1 /\ st = "none" BY <2>1, <1>0 DEF Busy, st
    <2>3. st' = "created" BY <2>1, <2>2, <1>t DEF st, TypeOK
    <2>4. stored' = stored /\ OnDisk' = OnDisk
      BY <1>5 DEF RunDelayedSave, OnDisk, fileVars
    <2> QED BY <2>2, <2>3, <2>4, <1>c
  <1>6. ASSUME NEW j \in Jobs, StartSave(j) PROVE Durable!Capture
    <2>1. j = 1 BY <1>0
    <2>2. st' = "queued" /\ job'[1].payload = stored
      BY <1>6, <2>1, <1>t DEF StartSave, st, TypeOK
    <2>3. stored' = stored /\ OnDisk' = OnDisk
      BY <1>6 DEF StartSave, OnDisk, procVars, fileVars
    <2> QED BY <2>2, <2>3, <1>c DEF Durable!Capture
  <1>7. ASSUME NEW j \in Jobs, OpenTemp(j) \/ DumpPayload(j)
        PROVE  UNCHANGED <<stored, OnDisk, Copied>>
    <2>1. j = 1 BY <1>0
    <2>2. /\ st \in {"queued", "open"}
          /\ st' \in {"open", "written"}
          /\ job'[1].payload = job[1].payload
      BY <1>7, <2>1, <1>t DEF OpenTemp, DumpPayload, st, TypeOK
    <2>3. stored' = stored /\ final' = final
      BY <1>7 DEF OpenTemp, DumpPayload, procVars
    <2>4. \E i, c : i # final /\ content' = [content EXCEPT ![i] = c]
      <3>1. CASE OpenTemp(j)
        BY <3>1 DEF OpenTemp, Used, SerialInv, Files
      <3>2. CASE DumpPayload(j)
        <4>1. content' = [content EXCEPT ![tmp] = content'[job[1].inode]]
          BY <3>2, <2>1, <1>t DEF DumpPayload, SerialInv, Files, st, TypeOK
        <4> QED BY <4>1 DEF SerialInv, Files
      <3> QED BY <1>7, <3>1, <3>2
    <2>5. OnDisk' = OnDisk BY <2>3, <2>4, <1>t DEF OnDisk, TypeOK
    <2> QED BY <2>2, <2>3, <2>5, <1>c
  <1>8. ASSUME NEW j \in Jobs, ReplaceFile(j) PROVE Durable!Commit
    <2>1. j = 1 /\ st = "written" BY <1>8, <1>0 DEF ReplaceFile, st
    <2>2. st' = "none"
      BY <1>8, <2>1, <1>0, <1>t DEF ReplaceFile, st, TypeOK, NoJob
    <2>3. content[tmp] = job[1].payload BY <2>1 DEF SerialInv, Files
    <2>4. final' = tmp /\ content' = content /\ stored' = stored
      BY <1>8 DEF ReplaceFile, procVars
    <2>5. job[1].payload \notin {Truncated, Torn}
      BY <1>0, <1>t, ValuesAssumption DEF TypeOK
    <2>6. OnDisk' = job[1].payload
      BY <2>3, <2>4, <2>5 DEF OnDisk, Loaded
    <2> QED BY <2>1, <2>2, <2>4, <2>6, <1>c DEF Durable!Commit
  <1>9. ASSUME \/ job'[1] = job[1]
               \/ job'[1] = NoJob,
               UNCHANGED <<stored, fileVars>>
        PROVE  Durable!Abandon \/ UNCHANGED <<stored, OnDisk, Copied>>
    <2>1. OnDisk' = OnDisk BY <1>9 DEF OnDisk, fileVars
    <2> QED BY <1>9, <1>c, <2>1 DEF Durable!Abandon, st, NoJob
  <1>10. ASSUME NEW j \in Jobs, SaveFails(j)
         PROVE  Durable!Abandon \/ UNCHANGED <<stored, OnDisk, Copied>>
    BY <1>9, <1>10, <1>0, <1>t DEF SaveFails, procVars, TypeOK
  <1>11. CASE Stop \/ Kill
    BY <1>9, <1>11, <1>0 DEF Stop, Kill, Durable!Next
  <1>12. CASE Restart
    <2>1. stored' = OnDisk /\ OnDisk' = OnDisk /\ job' = job
      BY <1>12 DEF Restart, OnDisk, fileVars
    <2> QED
      BY <2>1, <1>c DEF Durable!Next, Durable!Recover, st
  <1>13. CASE UNCHANGED vars
    BY <1>3, <1>13 DEF vars, fileVars
  <1> QED
    BY <1>2, <1>4, <1>5, <1>6, <1>7, <1>8, <1>10, <1>11, <1>12, <1>13
    DEF Next, Loop, Worker, Fail, Durable!Next

(* Saves that do not overlap make the store an atomic durable cell: disk   *)
(* goes from one complete copy of the memory to a later one, and a process *)
(* starts from what the disk holds.                                        *)
THEOREM StoreImplementsDurableCell ==
  ASSUME MaxJobs = 1 PROVE Spec => ImplementsDurableCell
  <1>1. Init => Durable!Init BY RefinedInit
  <1>2. SerialInv /\ SerialInv' /\ OneCopy /\ OneCopy' /\ [Next]_vars
          => [Durable!Next]_<<stored, OnDisk, Copied>>
    BY RefinedNext
  <1>3. OneCopy BY CopiedIs
  <1> QED
    BY <1>1, <1>2, <1>3, Serial, PTL DEF Spec, ImplementsDurableCell, Durable!Spec
=============================================================================
