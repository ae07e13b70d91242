----------------------------- MODULE BridgeProofs -----------------------------
(***************************************************************************)
(* The life of the process, for any number of starts, clients and devices: *)
(* the type invariant, which mishaps leave the keepalive thread behind,    *)
(* and that a detection without mishap does not fail and knows every       *)
(* device.                                                                 *)
(***************************************************************************)
EXTENDS Bridge, FiniteSetTheorems, TLAPS

-----------------------------------------------------------------------------
(* The type invariant.                                                     *)

\* The answers on their way and those received are no more than the writer
\* has asked for, in its last, unfinished round perhaps.
Asked ==
    /\ \A a \in Answers :
          owed[a] + got[a] <= rounds + (IF writer = "failed" THEN 1 ELSE 0)
    /\ writer = "failed" => rounds < Rounds

DetectionInv == DetectionTypeOK /\ Asked

LEMMA Bags ==
    ASSUME DetectionInv, NEW answers
    PROVE  /\ owed \in [Answers -> Nat] /\ got \in [Answers -> Nat]
           /\ rounds \in Nat /\ Rounds \in Nat /\ rounds <= Rounds
           /\ Add(owed, answers) \in [Answers -> Nat]
           /\ Add(got, answers) \in [Answers -> Nat]
           /\ NoAnswers \in [Answers -> 0..Rounds]
  BY RoundsAssumption DEF DetectionInv, DetectionTypeOK, Add, NoAnswers

\* What is added to one bag or moved between them stays below the bound.
LEMMA BagsStay ==
    ASSUME owed' \in [Answers -> Nat], got' \in [Answers -> Nat],
           rounds' \in 0..Rounds, writer' \in {"asks", "failed"},
           Asked'
    PROVE  owed' \in [Answers -> 0..Rounds] /\ got' \in [Answers -> 0..Rounds]
  <1> SUFFICES ASSUME NEW a \in Answers
               PROVE  owed'[a] \in 0..Rounds /\ got'[a] \in 0..Rounds
    OBVIOUS
  <1>1. owed'[a] + got'[a] <= rounds' + (IF writer' = "failed" THEN 1 ELSE 0)
    BY DEF Asked
  <1>2. writer' = "failed" => rounds' < Rounds
    BY DEF Asked
  <1> QED
    BY <1>1, <1>2, RoundsAssumption

\* Nothing asked, nothing received.
LEMMA BagsEmpty ==
    ASSUME owed' = NoAnswers, got' = NoAnswers, rounds' = 0, writer' = "asks"
    PROVE  /\ owed' \in [Answers -> 0..Rounds] /\ got' \in [Answers -> 0..Rounds]
           /\ rounds' \in 0..Rounds /\ Asked'
  BY RoundsAssumption DEF NoAnswers, Asked

LEMMA BeginsTyped ==
    ASSUME NEW s \in Detections, Begins(s)
    PROVE  /\ step' \in Detections
           /\ owed' \in [Answers -> 0..Rounds] /\ got' \in [Answers -> 0..Rounds]
           /\ rounds' \in 0..Rounds /\ Asked'
           /\ writer' \in {"asks", "failed"} /\ reader' \in {"reads", "ended", "raised"}
  BY BagsEmpty DEF Begins

LEMMA OverTyped ==
    ASSUME DetectionOver
    PROVE  /\ owed' \in [Answers -> 0..Rounds] /\ got' \in [Answers -> 0..Rounds]
           /\ rounds' \in 0..Rounds /\ Asked'
           /\ writer' \in {"asks", "failed"} /\ reader' \in {"reads", "ended", "raised"}
  BY BagsEmpty DEF DetectionOver

\* A detection step keeps the type invariant, bags included.
LEMMA DetectionStep ==
    ASSUME DetectionInv, DetectionSteps \/ Lose \/ ReaderMeetsUnknown \/ Moves
    PROVE  DetectionInv'
  <1> USE DEF DetectionInv, DetectionTypeOK
  <1>1. CASE PortNotDetected
    BY <1>1 DEF PortNotDetected, memory, detection, Asked
  <1>2. CASE FindPort
    <2>1. DetectedPort \in Nodes
      BY DEF DetectedPort, Nodes
    <2>2. "central" \in Detections
      BY DEF Detections
    <2> QED
      BY <1>2, <2>1, <2>2, BeginsTyped DEF FindPort, memory
  <1>3. CASE WriterAsks
    <2> USE <1>3 DEF WriterAsks, memory
    <2>1. owed' \in [Answers -> Nat] /\ got' \in [Answers -> Nat]
      BY Bags
    <2>2. Asked'
      BY Bags DEF Asked, Add
    <2>3. rounds' \in 0..Rounds
      BY Bags
    <2> QED
      BY <2>1, <2>2, <2>3, BagsStay
  <1>4. CASE WriterFails
    <2> USE <1>4 DEF WriterFails, memory
    <2>1. owed' \in [Answers -> Nat] /\ got' \in [Answers -> Nat]
      BY Bags
    <2>2. Asked'
      BY Bags DEF Asked, Add
    <2> QED
      BY <2>1, <2>2, BagsStay
  <1>5. CASE ReaderReads
    <2> USE <1>5 DEF ReaderReads, memory
    <2>1. PICK batch \in SUBSET Arrived(owed) :
             /\ owed' = [a \in Answers |-> owed[a] - (IF a \in batch THEN 1 ELSE 0)]
             /\ got' = Add(got, batch \cap Requests(step))
      OBVIOUS
    <2>2. \A a \in batch : owed[a] > 0
      BY DEF Arrived
    <2>3. owed' \in [Answers -> Nat] /\ got' \in [Answers -> Nat]
      BY <2>1, <2>2, Bags
    <2>4. Asked'
      BY <2>1, <2>2, Bags DEF Asked, Add
    <2>5. reader' \in {"reads", "ended", "raised"}
      OBVIOUS
    <2> QED
      BY <2>3, <2>4, <2>5, BagsStay
  <1>6. CASE Lose
    <2> USE <1>6 DEF Lose, memory
    <2>1. PICK a \in Arrived(owed) : owed' = [owed EXCEPT ![a] = @ - 1]
      OBVIOUS
    <2>2. a \in Answers /\ owed[a] > 0
      BY DEF Arrived
    <2>3. owed' \in [Answers -> Nat] /\ got' \in [Answers -> Nat]
      BY <2>1, <2>2, Bags
    <2>4. Asked'
      BY <2>1, <2>2, Bags DEF Asked
    <2> QED
      BY <2>3, <2>4, BagsStay
  <1>7. CASE ReaderMeetsUnknown
    BY <1>7 DEF ReaderMeetsUnknown, memory, Asked
  <1>8. CASE Moves
    BY <1>8 DEF Moves, memory, Asked
  <1>9. CASE MainMeetsException
    BY <1>9, OverTyped DEF MainMeetsException, Fails, memory
  <1>10. CASE MainTimesOut
    BY <1>10, OverTyped DEF MainTimesOut, Fails, memory
  <1>11. CASE MainMissesSections
    BY <1>11, OverTyped DEF MainMissesSections, Fails, memory
  <1>12. CASE MainTakesCentral
    <2>1. (IF NothingToDetect THEN "sections" ELSE "devices") \in Detections
      BY DEF Detections
    <2>2. skipped' \in BOOLEAN
      BY <1>12 DEF MainTakesCentral, NothingToDetect
    <2> QED
      BY <1>12, <2>1, <2>2, BeginsTyped DEF MainTakesCentral
  <1>13. CASE MainTakesDevices
    <2>1. "sections" \in Detections
      BY DEF Detections
    <2>2. config.wanted \subseteq Devices
      BY DEF Configs, Devices
    <2>3. data' \subseteq Devices /\ stored' \subseteq Devices
      BY <1>13, <2>2 DEF MainTakesDevices
    <2> QED
      BY <1>13, <2>1, <2>3, BeginsTyped DEF MainTakesDevices
  <1>14. CASE MainTakesSections
    BY <1>14, OverTyped DEF MainTakesSections, memory
  <1> QED
    BY <1>1, <1>2, <1>3, <1>4, <1>5, <1>6, <1>7, <1>8, <1>9, <1>10, <1>11, <1>12, <1>13,
       <1>14 DEF DetectionSteps

-----------------------------------------------------------------------------
(* Threads left behind.                                                    *)

\* Before the threads are started there is none, and no service either.
Unstarted ==
    /\ main \in {"ended", "detect"} => keeper = "none"
    /\ main \in {"detect", "sync"} => poll = "none"
    /\ main \in Starting => server = "none"

\* Unstarted is needed where a start fails: then nothing is left behind, or,
\* when the first _sync met the reader, no service has begun.
StrandedInv == Unstarted /\ StrandedOnlyIf

LEMMA StrandedStep == StrandedInv /\ [Next]_allVars => StrandedInv'
  <1> USE DEF StrandedInv, Unstarted, StrandedOnlyIf, Stranded, Starting
  <1> SUFFICES ASSUME StrandedInv, [Next]_allVars PROVE StrandedInv'
    OBVIOUS
  <1>1. CASE Start
    BY <1>1 DEF Start, Boots
  <1>2. CASE Refuse
    BY <1>2 DEF Refuse, Boots
  <1>3. CASE Detects \/ Mishaps \/ Replugs
    BY <1>3 DEF Detects, Mishaps, Replugs, threads, services
  <1>4. CASE StartFails
    BY <1>4 DEF StartFails, threads, services
  <1>5. CASE Initialized
    BY <1>5 DEF Initialized, services
  <1>6. CASE Syncs
    BY <1>6 DEF Syncs, threads
  <1>7. CASE SyncRaises
    BY <1>7 DEF SyncRaises, threads, services
  <1>8. CASE Registers
    BY <1>8 DEF Registers, threads
  <1>9. CASE Signal
    BY <1>9 DEF Signal, threads, services
  <1>10. CASE PollDies
    BY <1>10 DEF PollDies, threads
  <1>11. CASE ServerBinds(TRUE) \/ ServerBinds(FALSE)
    BY <1>11 DEF ServerBinds, threads
  <1>12. CASE ClientConnects
    BY <1>12 DEF ClientConnects, threads
  <1>13. CASE ClientLeaves(TRUE) \/ ClientLeaves(FALSE)
    BY <1>13 DEF ClientLeaves, threads
  <1>14. CASE BeginStop
    BY <1>14 DEF BeginStop, MainGoes, threads, services
  <1>15. CASE StopPoll
    BY <1>15 DEF StopPoll, MainGoes, threads
  <1>16. CASE StopPollRaises
    BY <1>16 DEF StopPollRaises, MainGoes, threads, services
  <1>17. CASE StopZeroconf \/ StopServer
    BY <1>17 DEF StopZeroconf, StopServer, MainGoes, threads
  <1>18. CASE ServerClosed
    BY <1>18 DEF ServerClosed, MainGoes, threads, services
  <1>19. CASE ClientStopRaises
    BY <1>19 DEF ClientStopRaises, MainGoes, threads, services
  <1>20. CASE StopHub
    BY <1>20 DEF StopHub, MainGoes, services
  <1>21. CASE KeeperEnds
    BY <1>21 DEF KeeperEnds, services
  <1>22. CASE ReadReturns
    BY <1>22 DEF ReadReturns, services
  <1>23. CASE End
    BY <1>23 DEF End, threads, services
  <1>24. CASE UNCHANGED allVars
    BY <1>24 DEF allVars, threads, services
  <1> QED
    BY <1>1, <1>2, <1>3, <1>4, <1>5, <1>6, <1>7, <1>8, <1>9, <1>10, <1>11, <1>12,
       <1>13, <1>14, <1>15, <1>16, <1>17, <1>18, <1>19, <1>20, <1>21, <1>22, <1>23,
       <1>24 DEF Next, Starts, Stops

\* Only a dead poll task, a client that is reset while the server closes, or
\* a first _sync that met the reader can leave the keepalive thread, and
\* with it the process, behind.
THEOREM StrandedOnly == Spec => []StrandedOnlyIf
  <1>1. Init => StrandedInv
    BY DEF Init, StrandedInv, Unstarted, StrandedOnlyIf, Stranded
  <1>2. StrandedInv => StrandedOnlyIf
    BY DEF StrandedInv
  <1> QED
    BY <1>1, <1>2, StrandedStep, PTL DEF Spec

-----------------------------------------------------------------------------
(* The type invariant, of the process too: Unstarted, because a new start  *)
(* must not meet a keepalive thread that nobody has told to stop.          *)

TypeInv == TypeOK /\ Asked /\ Unstarted

LEMMA TypeStep ==
    ASSUME TypeInv, Unstarted', [Next]_allVars
    PROVE  TypeInv'
  <1> USE DEF TypeInv, TypeOK
  <1>0. DetectionInv
    BY DEF DetectionInv
  <1>1. ASSUME UNCHANGED vars PROVE DetectionTypeOK' /\ Asked'
    BY <1>1 DEF vars, memory, detection, DetectionTypeOK, Asked
  <1>2. CASE Start \/ Refuse
    <2>1. PICK validated \in BOOLEAN : Boots(validated)
      BY <1>2 DEF Start, Refuse
    <2>2. step' \in {"off", "port"} /\ main' \in {"detect", "ending"} /\ mishap' \in BOOLEAN
      BY <1>2 DEF Start, Refuse
    <2>3. DetectionTypeOK' /\ Asked'
      BY <2>1, <2>2 DEF Boots, detection, DetectionTypeOK, Asked
    <2>4. starts' \in 0..MaxStarts
      BY <2>1, BridgeAssumption DEF Boots
    <2>5. keeper = "none" /\ keeper' = "none"
      BY <2>1 DEF Boots, Unstarted
    <2>6. clients' = 0 /\ asked' = FALSE /\ stop' = FALSE /\ reset' = FALSE /\ announced' = FALSE
      BY <2>1 DEF Boots
    <2>7. poll' = "none" /\ server' = "none" /\ stream' = stream
      BY <2>1 DEF Boots
    <2>8. main' \in {"ended", "up", "ending"} \cup Starting \cup Stopping
      BY <2>2 DEF Starting
    <2>9. clients' \in 0..MaxClients /\ ~(clients' > 0)
      BY <2>6, BridgeAssumption
    <2> QED
      BY <2>3, <2>4, <2>5, <2>6, <2>7, <2>8, <2>9
  <1>3. CASE Detects \/ Mishaps \/ Replugs
    <2>1. DetectionInv'
      BY <1>0, <1>3, DetectionStep DEF Detects, Mishaps, Replugs
    <2> QED
      BY <1>3, <2>1 DEF Detects, Mishaps, Replugs, threads, services, DetectionInv
  <1>4. CASE StartFails
    BY <1>1, <1>4 DEF StartFails, threads, services
  <1>5. CASE Initialized
    BY <1>1, <1>5 DEF Initialized, services, Starting
  <1>6. CASE Syncs
    BY <1>1, <1>6 DEF Syncs, threads, Starting
  <1>7. CASE SyncRaises
    BY <1>1, <1>7 DEF SyncRaises, threads, services
  <1>8. CASE Registers
    <2>1. clients = 0
      BY <1>8, BridgeAssumption DEF Registers, Unstarted, Starting
    <2> QED
      BY <1>1, <1>8, <2>1 DEF Registers, threads
  <1>9. CASE Signal
    BY <1>1, <1>9 DEF Signal, threads, services
  <1>10. CASE PollDies
    BY <1>1, <1>10 DEF PollDies, threads
  <1>11. CASE ServerBinds(TRUE) \/ ServerBinds(FALSE)
    BY <1>1, <1>11 DEF ServerBinds, threads
  <1>12. CASE ClientConnects
    BY <1>1, <1>12, BridgeAssumption DEF ClientConnects, threads
  <1>13. CASE ClientLeaves(TRUE) \/ ClientLeaves(FALSE)
    <2>1. PICK resets \in BOOLEAN : ClientLeaves(resets)
      BY <1>13
    <2>2. clients' \in 0..MaxClients /\ clients > 0 /\ server' = server
      BY <2>1, BridgeAssumption DEF ClientLeaves
    <2>3. reset' \in BOOLEAN
      BY <2>1 DEF ClientLeaves
    <2> QED
      BY <1>1, <2>1, <2>2, <2>3 DEF ClientLeaves, threads
  <1>14. CASE BeginStop
    BY <1>1, <1>14 DEF BeginStop, MainGoes, threads, services, Stopping
  <1>15. CASE StopPoll
    BY <1>1, <1>15 DEF StopPoll, MainGoes, threads, Stopping
  <1>16. CASE StopPollRaises
    BY <1>1, <1>16 DEF StopPollRaises, MainGoes, threads, services
  <1>17. CASE StopZeroconf
    BY <1>1, <1>17 DEF StopZeroconf, MainGoes, threads, Stopping
  <1>18. CASE StopServer
    BY <1>1, <1>18 DEF StopServer, MainGoes, threads, Stopping
  <1>19. CASE ServerClosed
    BY <1>1, <1>19 DEF ServerClosed, MainGoes, threads, services, Stopping
  <1>20. CASE ClientStopRaises
    BY <1>1, <1>20 DEF ClientStopRaises, MainGoes, threads, services
  <1>21. CASE StopHub
    BY <1>1, <1>21 DEF StopHub, MainGoes, services
  <1>22. CASE KeeperEnds
    BY <1>1, <1>22 DEF KeeperEnds, services
  <1>23. CASE ReadReturns
    <2>1. DetectionTypeOK' /\ Asked'
      BY <1>23 DEF ReadReturns, memory, detection, DetectionTypeOK, Asked
    <2>2. stream' \in {"none", "runs"}
      BY <1>23 DEF ReadReturns
    <2>3. stream' = "none" => ~(keeper' = "runs" /\ ~stop')
      BY <1>23 DEF ReadReturns
    <2> QED
      BY <1>23, <2>1, <2>2, <2>3 DEF ReadReturns, services
  <1>24. CASE End
    BY <1>1, <1>24 DEF End, threads, services
  <1>25. CASE UNCHANGED allVars
    BY <1>1, <1>25 DEF allVars, threads, services
  <1> QED
    BY <1>2, <1>3, <1>4, <1>5, <1>6, <1>7, <1>8, <1>9, <1>10, <1>11, <1>12, <1>13,
       <1>14, <1>15, <1>16, <1>17, <1>18, <1>19, <1>20, <1>21, <1>22, <1>23, <1>24,
       <1>25 DEF Next, Starts, Stops

\* Type correctness of the detection and the process: the bags of answers
\* never exceed what was asked, clients have a server, and no reader thread
\* is gone while the keepalive thread goes on.
THEOREM TypeCorrect == Spec => []TypeOK
  <1>1. Init => TypeInv
    <2> SUFFICES ASSUME Init PROVE TypeInv
      OBVIOUS
    <2>1. /\ owed \in [Answers -> 0..Rounds] /\ got \in [Answers -> 0..Rounds]
          /\ rounds \in 0..Rounds /\ Asked
      BY RoundsAssumption DEF Init, DetectionInit, NoAnswers, Asked
    <2>2. DetectionTypeOK
      BY <2>1 DEF Init, DetectionInit, DetectionTypeOK
    <2>3. starts \in 0..MaxStarts /\ clients \in 0..MaxClients /\ ~(clients > 0)
      BY BridgeAssumption DEF Init
    <2>4. Unstarted
      BY DEF Init, Unstarted
    <2>5. stream = "none" => ~(keeper = "runs" /\ ~stop)
      BY DEF Init
    <2>6. keeper \in {"none", "runs"} /\ stream \in {"none", "runs"}
      BY DEF Init
    <2>7. poll \in {"none", "runs", "dead"}
      BY DEF Init
    <2>8. server \in {"none", "binding", "unbound", "bound", "closing"}
      BY DEF Init
    <2>9. asked \in BOOLEAN /\ stop \in BOOLEAN /\ reset \in BOOLEAN /\ announced \in BOOLEAN
      BY DEF Init
    <2>10. main \in {"ended", "up", "ending"} \cup Starting \cup Stopping
      BY DEF Init
    <2> QED
      BY <2>1, <2>2, <2>3, <2>4, <2>5, <2>6, <2>7, <2>8, <2>9, <2>10 DEF TypeInv, TypeOK
  <1>2. Init => StrandedInv
    BY DEF Init, StrandedInv, Unstarted, StrandedOnlyIf, Stranded
  <1>3. TypeInv /\ StrandedInv /\ [Next]_allVars => TypeInv' /\ StrandedInv'
    <2>1. StrandedInv' => Unstarted'
      BY DEF StrandedInv
    <2> QED
      BY <2>1, StrandedStep, TypeStep
  <1>4. TypeInv => TypeOK
    BY DEF TypeInv
  <1> QED
    BY <1>1, <1>2, <1>3, <1>4, PTL DEF Spec

-----------------------------------------------------------------------------
(* What the detection counts.  The reader of the devices ends when it has  *)
(* received as many packets as it has asked for: a number, where the other *)
(* detections look at which packets they were.                             *)

\* As many answers as devices.
LEMMA StatusCount ==
    ASSUME NEW set, IsFiniteSet(set)
    PROVE  /\ IsFiniteSet({Status(d) : d \in set})
           /\ Cardinality({Status(d) : d \in set}) = Cardinality(set)
  <1> DEFINE image == {Status(d) : d \in set}
             f == [d \in set |-> Status(d)]
  <1>1. f \in Bijection(set, image)
    BY DEF Bijection, Injection, IsInjective, Surjection, Status
  <1>2. ExistsBijection(set, image)
    BY <1>1 DEF ExistsBijection
  <1> QED
    BY <1>2, FS_Bijection

LEMMA AnswersFinite ==
    /\ IsFiniteSet(Answers) /\ IsFiniteSet(Devices)
    /\ \A wanted \in Wanted : IsFiniteSet(wanted)
  <1>1. IsFiniteSet(1..230)
    <2> DEFINE last == 230
    <2>1. 1 \in Int /\ last \in Int
      OBVIOUS
    <2> HIDE DEF last
    <2>2. IsFiniteSet(1..last)
      BY <2>1, FS_Interval
    <2> QED
      BY <2>2 DEF last
  <1>2. Devices \subseteq 1..230
    BY ConfigsAssumption DEF Devices
  <1>3. IsFiniteSet(Devices)
    BY <1>1, <1>2, FS_Subset
  <1>4. \A wanted \in Wanted : IsFiniteSet(wanted)
    BY <1>1, ConfigsAssumption, FS_Subset
  <1>5. IsFiniteSet({Status(d) : d \in Devices})
    BY <1>3, StatusCount
  <1>6. IsFiniteSet({Info(type) : type \in {2, 8, 9}})
    <2>1. {Info(type) : type \in {2, 8, 9}} = {Info(2)} \cup {Info(8)} \cup {Info(9)}
      OBVIOUS
    <2>2. \A x : IsFiniteSet({x})
      BY FS_Singleton
    <2>3. IsFiniteSet({Info(2)} \cup {Info(8)})
      BY <2>2, FS_Union
    <2>4. IsFiniteSet({Info(2)} \cup {Info(8)} \cup {Info(9)})
      BY <2>2, <2>3, FS_Union
    <2> QED
      BY <2>1, <2>4
  <1>7. IsFiniteSet({DevicesSections, SectionsStates})
    <2>1. {DevicesSections, SectionsStates} = {DevicesSections} \cup {SectionsStates}
      OBVIOUS
    <2>2. IsFiniteSet({DevicesSections}) /\ IsFiniteSet({SectionsStates})
      BY FS_Singleton
    <2> QED
      BY <2>1, <2>2, FS_Union
  <1>8. IsFiniteSet(Infos \cup {Status(d) : d \in Devices} \cup {DevicesSections, SectionsStates})
    BY <1>5, <1>6, <1>7, FS_Union DEF Infos
  <1> QED
    BY <1>3, <1>4, <1>8 DEF Answers

Ones(bag, set) == {a \in set : bag[a] = 1}

LEMMA OneLess ==
    ASSUME NEW bag \in [Answers -> {0, 1}], NEW set \in SUBSET Answers, NEW x \in set
    PROVE  /\ Cardinality(Ones(bag, set \ {x})) \in Nat
           /\ Cardinality(Ones(bag, set)) = Cardinality(Ones(bag, set \ {x})) + bag[x]
  <1> DEFINE less == Ones(bag, set \ {x})
  <1>1. less \subseteq Answers /\ x \notin less /\ bag[x] \in {0, 1}
    BY DEF Ones
  <1>2. Ones(bag, set) = IF bag[x] = 1 THEN less \cup {x} ELSE less
    BY DEF Ones
  <1> HIDE DEF less
  <1>3. IsFiniteSet(less) /\ Cardinality(less) \in Nat
    BY <1>1, AnswersFinite, FS_Subset, FS_CardinalityType
  <1>4. Cardinality(less \cup {x}) = Cardinality(less) + 1
    BY <1>1, <1>3, FS_AddElement
  <1> QED
    BY <1>1, <1>2, <1>3, <1>4 DEF less

\* Count is defined by recursion over the subsets of Answers; of a bag with
\* at most one of each it gives how many there are.
LEMMA CountOfOnes ==
    ASSUME NEW bag \in [Answers -> {0, 1}]
    PROVE  Count(bag) = Cardinality(Arrived(bag))
  <1> DEFINE some(s) == CHOOSE x \in s : TRUE
             ones == [s \in SUBSET Answers |-> Cardinality(Ones(bag, s))]
             Sums(f) == f = [s \in SUBSET Answers |->
                               IF s = {} THEN 0 ELSE f[s \ {some(s)}] + bag[some(s)]]
             sum == CHOOSE f : Sums(f)
  <1>1. Count(bag) = sum[Answers]
    BY DEF Count, FoldSet, MapThenFoldSet
  <1>2. ASSUME NEW s \in SUBSET Answers
        PROVE  ones[s] = IF s = {} THEN 0 ELSE ones[s \ {some(s)}] + bag[some(s)]
    <2>1. CASE s = {}
      BY <2>1, FS_EmptySet DEF Ones
    <2>2. CASE s # {}
      <3>1. some(s) \in s
        BY <2>2
      <3> HIDE DEF some
      <3>2. Cardinality(Ones(bag, s)) = Cardinality(Ones(bag, s \ {some(s)})) + bag[some(s)]
        BY <3>1, OneLess
      <3> QED
        BY <2>2, <3>2
    <2> QED
      BY <2>1, <2>2
  <1>3. Sums(ones)
    <2>1. \A s \in SUBSET Answers :
             ones[s] = IF s = {} THEN 0 ELSE ones[s \ {some(s)}] + bag[some(s)]
      BY <1>2
    <2> HIDE DEF some
    <2>2. ones = [s \in SUBSET Answers |-> ones[s]]
      OBVIOUS
    <2> QED
      BY <2>1, <2>2
  <1>4. Sums(sum)
    BY <1>3
  <1>5. \A s \in SUBSET Answers : sum[s] = ones[s]
    <2> DEFINE Differ == {s \in SUBSET Answers : sum[s] # ones[s]}
    <2> SUFFICES ASSUME Differ # {} PROVE FALSE
      OBVIOUS
    <2>1. IsWellFoundedOn(StrictSubsetOrdering(Answers), FiniteSubsetsOf(Answers))
      BY FS_StrictSubsetOrderingWellFounded
    <2>2. FiniteSubsetsOf(Answers) = SUBSET Answers
      BY AnswersFinite, FS_FiniteSubsetsOfFinite
    <2>3. PICK s \in Differ : \A t \in Differ : ~(<<t, s>> \in StrictSubsetOrdering(Answers))
      <3> HIDE DEF Differ
      <3>1. Differ \subseteq SUBSET Answers
        BY DEF Differ
      <3> QED
        BY <2>1, <2>2, <3>1, WFMin
    <2> DEFINE t == s \ {some(s)}
    <2>4. CASE s = {}
      BY <1>2, <1>4, <2>4
    <2>5. CASE s # {}
      <3>1. some(s) \in s /\ t \in SUBSET Answers /\ t # s
        BY <2>5
      <3>2. <<t, s>> \in StrictSubsetOrdering(Answers)
        BY <3>1 DEF StrictSubsetOrdering
      <3>3. sum[t] = ones[t]
        BY <2>3, <3>1, <3>2
      <3>4. sum[s] = sum[t] + bag[some(s)]
        BY <1>4, <2>5
      <3>5. ones[s] = ones[t] + bag[some(s)]
        BY <1>2, <2>5
      <3> QED
        BY <3>3, <3>4, <3>5
    <2> QED
      BY <2>4, <2>5
  <1>6. Count(bag) = Cardinality(Ones(bag, Answers))
    BY <1>1, <1>5
  <1>7. Ones(bag, Answers) = Arrived(bag)
    BY DEF Arrived, Ones
  <1> QED
    BY <1>6, <1>7

-----------------------------------------------------------------------------
(* A detection without mishap fails in no step and leaves no device out.   *)

One(set) == [a \in Answers |-> IF a \in set THEN 1 ELSE 0]

\* The writer has asked once at most until the reader has its answers, and
\* each of them is on its way or received, once; then the reader has them
\* all, however often the writer asks again.
Orderly ==
    ~mishap /\ step \in Detections =>
        /\ writer = "asks"
        /\ reader = "reads" =>
              \/ rounds = 0 /\ owed = NoAnswers /\ got = NoAnswers
              \/ /\ rounds = 1 /\ owed # NoAnswers
                 /\ \A a \in Answers : owed[a] + got[a] = One(Requests(step))[a]
        /\ reader = "ended" => got = One(Requests(step))

\* Every device has its data, or was not asked for because the store has
\* data of as many.
Known ==
    config.wanted \subseteq data \/ (skipped /\ ~(data \subseteq config.wanted))

KnownAfter == step \in {"sections", "ready"} /\ ~mishap => Known

MishapInv == Orderly /\ KnownAfter /\ FailsOnlyAfterMishap

\* What a detection asks for are answers, at least one.
LEMMA RequestsAre ==
    ASSUME DetectionTypeOK, step \in Detections
    PROVE  Requests(step) \subseteq Answers /\ Requests(step) # {}
  <1>1. config.wanted \subseteq Devices
    BY DEF DetectionTypeOK, Configs, Devices
  <1>2. step = "central" \/ step = "devices" \/ step = "sections"
    BY DEF Detections
  <1>3. Requests("central") = Infos /\ Requests("sections") = {SectionsStates}
        /\ Requests("devices") = {Status(d) : d \in config.wanted} \cup {DevicesSections}
    BY DEF Requests
  <1>4. Info(2) \in Infos
    BY DEF Infos
  <1> QED
    BY <1>1, <1>2, <1>3, <1>4 DEF Answers

\* A reader that has all answers once has enough, and one that has enough
\* and none more than once has all of them.
LEMMA EnoughIsAll ==
    ASSUME DetectionTypeOK, step \in Detections,
           NEW bag \in [Answers -> {0, 1}], Arrived(bag) \subseteq Requests(step)
    PROVE  Enough(bag) <=> bag = One(Requests(step))
  <1>0. Requests(step) \subseteq Answers
    BY RequestsAre
  <1>1. bag = One(Requests(step)) <=> Arrived(bag) = Requests(step)
    <2>1. bag = One(Requests(step)) => Arrived(bag) = Requests(step)
      BY <1>0 DEF One, Arrived
    <2>2. ASSUME Arrived(bag) = Requests(step) PROVE bag = One(Requests(step))
      <3>1. \A a \in Answers : bag[a] = IF a \in Requests(step) THEN 1 ELSE 0
        BY <2>2 DEF Arrived
      <3> QED
        BY <3>1 DEF One
    <2> QED
      BY <2>1, <2>2
  <1>2. CASE step = "central"
    <2>1. Requests(step) = Infos /\ (Enough(bag) <=> Infos \subseteq Arrived(bag))
      BY <1>2 DEF Requests, Enough
    <2> QED
      BY <1>1, <2>1
  <1>3. CASE step = "sections"
    <2>1. Requests(step) = {SectionsStates} /\ (Enough(bag) <=> bag[SectionsStates] > 0)
      BY <1>3 DEF Requests, Enough
    <2>2. bag[SectionsStates] > 0 <=> SectionsStates \in Arrived(bag)
      BY <1>0, <2>1 DEF Arrived
    <2> QED
      BY <1>1, <2>1, <2>2
  <1>4. CASE step = "devices"
    <2> DEFINE statuses == {Status(d) : d \in config.wanted}
    <2>1. /\ Requests(step) = statuses \cup {DevicesSections}
          /\ Enough(bag) <=> Count(bag) = Cardinality(config.wanted) + 1
      BY <1>4 DEF Requests, Enough
    <2>2. IsFiniteSet(config.wanted)
      BY AnswersFinite DEF DetectionTypeOK, Configs
    <2>3. IsFiniteSet(statuses) /\ Cardinality(statuses) = Cardinality(config.wanted)
      BY <2>2, StatusCount
    <2>4. DevicesSections \notin statuses
      BY DEF Status, DevicesSections
    <2> HIDE DEF statuses
    <2>5. /\ IsFiniteSet(Requests(step))
          /\ Cardinality(Requests(step)) = Cardinality(config.wanted) + 1
      BY <2>1, <2>3, <2>4, FS_AddElement
    <2>6. Count(bag) = Cardinality(Arrived(bag))
      BY CountOfOnes
    <2>7. Cardinality(Arrived(bag)) = Cardinality(Requests(step)) <=> Arrived(bag) = Requests(step)
      BY <2>5, FS_Subset
    <2> QED
      BY <1>1, <2>1, <2>5, <2>6, <2>7
  <1> QED
    BY <1>2, <1>3, <1>4 DEF Detections

\* A detection that begins has asked for nothing yet, or has no reader.
LEMMA OrderlyBeginning ==
    ASSUME NEW s \in Detections, Begins(s)
    PROVE  Orderly'
  <1>1. reader' = "reads" \/ reader' = "raised"
    BY DEF Begins
  <1> QED
    BY <1>1 DEF Begins, Orderly

\* Every step of the detection, and every mishap, keeps the invariant: a
\* mishap by its flag alone, the others because the answers stay counted.
LEMMA OrderlyStep ==
    ASSUME DetectionTypeOK, MishapInv, DetectionSteps \/ Lose \/ ReaderMeetsUnknown \/ Moves
    PROVE  MishapInv'
  <1>t. /\ owed \in [Answers -> Nat] /\ got \in [Answers -> Nat]
        /\ rounds \in Nat /\ mishap \in BOOLEAN
        /\ reader \in {"reads", "ended", "raised"}
        /\ step \in {"off", "port", "ready", "failed"} \cup Detections
    BY RoundsAssumption DEF DetectionTypeOK
  <1>i. Orderly /\ KnownAfter /\ FailsOnlyAfterMishap
    BY DEF MishapInv
  <1>m. ASSUME mishap' PROVE MishapInv'
    BY <1>m DEF MishapInv, Orderly, KnownAfter, FailsOnlyAfterMishap
  <1>d. "failed" \notin Detections /\ "ready" \notin Detections /\ "off" \notin Detections
        /\ "port" \notin Detections
    BY DEF Detections
  <1>1. CASE PortNotDetected \/ WriterFails \/ Lose \/ ReaderMeetsUnknown \/ Moves \/ MainMeetsException
    BY <1>1, <1>m DEF PortNotDetected, WriterFails, Lose, ReaderMeetsUnknown, Moves, MainMeetsException
  <1>2. CASE FindPort
    <2>1. Begins("central") /\ step' = "central"
      BY <1>2 DEF FindPort, Begins
    <2>2. Orderly'
      BY <2>1, OrderlyBeginning DEF Detections
    <2> QED
      BY <2>1, <2>2 DEF MishapInv, KnownAfter, FailsOnlyAfterMishap
  <1>3. CASE WriterAsks
    <2> SUFFICES ASSUME ~mishap' PROVE MishapInv'
      BY <1>m
    <2>1. /\ step \in Detections /\ UNCHANGED <<config, step, memory, got, writer, reader>>
          /\ owed' = Add(owed, Requests(step)) /\ rounds' = rounds + 1
          /\ ~mishap /\ ~(reader = "reads" /\ owed # NoAnswers)
      BY <1>3, <1>t DEF WriterAsks
    <2>2. Requests(step) \subseteq Answers /\ Requests(step) # {}
      BY <2>1, RequestsAre
    <2>3. Requests(step)' = Requests(step)
      BY <2>1 DEF Requests
    <2>4. ASSUME reader = "reads"
          PROVE  /\ rounds' = 1 /\ owed' # NoAnswers
                 /\ \A a \in Answers : owed'[a] + got[a] = One(Requests(step))[a]
      <3>1. rounds = 0 /\ owed = NoAnswers /\ got = NoAnswers
        BY <1>i, <2>1, <2>4 DEF Orderly
      <3>2. \A a \in Answers : owed'[a] = (IF a \in Requests(step) THEN 1 ELSE 0) /\ got[a] = 0
        BY <2>1, <3>1 DEF Add, NoAnswers
      <3>3. PICK a \in Answers : a \in Requests(step)
        BY <2>2
      <3>4. owed'[a] = 1 /\ NoAnswers[a] = 0
        BY <3>2, <3>3 DEF NoAnswers
      <3> QED
        BY <2>1, <3>1, <3>2, <3>4 DEF One
    <2>5. Orderly'
      BY <1>i, <2>1, <2>3, <2>4 DEF Orderly, One
    <2> QED
      BY <1>i, <2>1, <2>5 DEF MishapInv, KnownAfter, Known, FailsOnlyAfterMishap, memory
  <1>4. CASE ReaderReads
    <2> SUFFICES ASSUME ~mishap' PROVE MishapInv'
      BY <1>m
    <2>1. /\ step \in Detections /\ reader = "reads" /\ ~mishap
          /\ UNCHANGED <<config, step, memory, rounds, writer, mishap>>
          /\ reader' = IF Enough(got') THEN "ended" ELSE "reads"
      BY <1>4 DEF ReaderReads
    <2>2. PICK batch \in SUBSET Arrived(owed) :
             /\ batch # {}
             /\ owed' = [a \in Answers |-> owed[a] - (IF a \in batch THEN 1 ELSE 0)]
             /\ got' = Add(got, batch \cap Requests(step))
      BY <1>4 DEF ReaderReads
    <2>3. owed # NoAnswers
      BY <2>2 DEF Arrived, NoAnswers
    <2>4. /\ rounds = 1 /\ writer = "asks"
          /\ \A a \in Answers : owed[a] + got[a] = One(Requests(step))[a]
      BY <1>i, <2>1, <2>3 DEF Orderly
    <2>5. Requests(step) \subseteq Answers /\ Requests(step)' = Requests(step)
      BY <2>1, RequestsAre DEF Requests
    <2>6. batch \subseteq Answers /\ \A a \in batch : owed[a] > 0
      BY DEF Arrived
    <2>7. \A a \in batch : a \in Requests(step)
      BY <1>t, <2>4, <2>6 DEF One
    <2>8. \A a \in Answers : owed'[a] + got'[a] = One(Requests(step))[a]
      BY <1>t, <2>2, <2>4, <2>7 DEF Add
    <2>9. \A a \in Answers : owed'[a] \in Nat /\ got'[a] \in Nat
      BY <1>t, <2>2, <2>6 DEF Add
    <2>10. got' \in [Answers -> {0, 1}] /\ Arrived(got') \subseteq Requests(step)
      BY <2>2, <2>8, <2>9 DEF Add, Arrived, One
    <2>11. Enough(got') <=> got' = One(Requests(step))
      BY <2>1, <2>10, EnoughIsAll
    <2>12. ~Enough(got') => owed' # NoAnswers
      <3> SUFFICES ASSUME owed' = NoAnswers PROVE got' = One(Requests(step))
        BY <2>11
      <3>1. \A a \in Answers : got'[a] = One(Requests(step))[a]
        BY <2>8, <2>9 DEF NoAnswers
      <3> QED
        BY <2>10, <3>1 DEF One
    <2>13. Orderly'
      BY <2>1, <2>4, <2>5, <2>8, <2>11, <2>12 DEF Orderly, One
    <2> QED
      BY <1>i, <2>1, <2>13 DEF MishapInv, KnownAfter, Known, FailsOnlyAfterMishap, memory
  <1>5. CASE MainTimesOut
    <2> SUFFICES ASSUME ~mishap' PROVE FALSE
      BY <1>m
    <2>1. /\ ~mishap /\ owed = NoAnswers /\ step \in Detections /\ reader = "reads"
          /\ rounds = Rounds \/ writer = "failed"
      BY <1>5, <1>t DEF MainTimesOut
    <2> QED
      BY <1>i, <2>1, RoundsAssumption DEF Orderly
  <1>6. CASE MainTakesCentral
    <2> SUFFICES ASSUME ~mishap' PROVE MishapInv'
      BY <1>m
    <2>1. /\ Begins(IF NothingToDetect THEN "sections" ELSE "devices")
          /\ skipped' = NothingToDetect /\ UNCHANGED <<config, data>>
      BY <1>6 DEF MainTakesCentral
    <2>2. Orderly' /\ step' = IF NothingToDetect THEN "sections" ELSE "devices"
      BY <2>1, OrderlyBeginning DEF Begins, Detections
    <2>3. ASSUME NothingToDetect, data \subseteq config.wanted PROVE config.wanted \subseteq data
      <3>1. config.wanted = {} \/ Cardinality(data) = Cardinality(config.wanted)
        BY <2>3 DEF NothingToDetect
      <3>2. IsFiniteSet(config.wanted)
        BY AnswersFinite DEF DetectionTypeOK, Configs
      <3> QED
        BY <2>3, <3>1, <3>2, FS_Subset
    <2>4. KnownAfter'
      BY <2>1, <2>2, <2>3 DEF KnownAfter, Known
    <2> QED
      BY <2>2, <2>4 DEF MishapInv, FailsOnlyAfterMishap
  <1>7. CASE MainMissesSections
    <2> SUFFICES ASSUME ~mishap' PROVE FALSE
      BY <1>m
    <2>1. ~mishap /\ step = "devices" /\ reader = "ended" /\ got[DevicesSections] = 0
      BY <1>7 DEF MainMissesSections
    <2>2. got = One(Requests("devices")) /\ DevicesSections \in Requests("devices")
      BY <1>i, <2>1 DEF Orderly, Detections, Requests
    <2> QED
      BY <2>1, <2>2 DEF One, Answers
  <1>8. CASE MainTakesDevices
    <2> SUFFICES ASSUME ~mishap' PROVE MishapInv'
      BY <1>m
    <2>1. /\ ~mishap /\ step = "devices" /\ reader = "ended"
          /\ data' = data \cup {d \in config.wanted : Status(d) \in Arrived(got)}
          /\ Begins("sections") /\ UNCHANGED <<config, skipped>>
      BY <1>8 DEF MainTakesDevices
    <2>2. Orderly' /\ step' = "sections"
      BY <2>1, OrderlyBeginning DEF Begins, Detections
    <2>3. got = One(Requests("devices"))
      BY <1>i, <2>1 DEF Orderly, Detections
    <2>4. \A d \in config.wanted : Status(d) \in Answers /\ Status(d) \in Requests("devices")
      BY DEF DetectionTypeOK, Configs, Devices, Answers, Requests
    <2>5. \A d \in config.wanted : Status(d) \in Arrived(got)
      BY <2>3, <2>4 DEF Arrived, One
    <2>6. KnownAfter'
      BY <2>1, <2>5 DEF KnownAfter, Known
    <2> QED
      BY <2>2, <2>6 DEF MishapInv, FailsOnlyAfterMishap
  <1>9. CASE MainTakesSections
    BY <1>9, <1>i, <1>d DEF MainTakesSections, MishapInv, Orderly, KnownAfter, Known,
       FailsOnlyAfterMishap, memory
  <1> QED
    BY <1>1, <1>2, <1>3, <1>4, <1>5, <1>6, <1>7, <1>8, <1>9 DEF DetectionSteps

LEMMA MishapStep ==
    ASSUME TypeOK, MishapInv, [Next]_allVars
    PROVE  MishapInv'
  <1>t. DetectionTypeOK
    BY DEF TypeOK
  <1>1. CASE Start \/ Refuse
    BY <1>1 DEF Start, Refuse, MishapInv, Orderly, KnownAfter, FailsOnlyAfterMishap, Detections
  <1>2. CASE Detects \/ Mishaps \/ Replugs
    BY <1>t, <1>2, OrderlyStep DEF Detects, Mishaps, Replugs
  <1>3. ASSUME UNCHANGED <<config, step, memory, detection, mishap>>
        PROVE  MishapInv'
    BY <1>3 DEF MishapInv, Orderly, KnownAfter, Known, FailsOnlyAfterMishap, Requests,
       memory, detection
  <1>4. CASE \/ StartFails \/ Initialized \/ Syncs \/ SyncRaises \/ Registers
             \/ Signal \/ PollDies \/ ServerBinds(TRUE) \/ ServerBinds(FALSE)
             \/ ClientConnects \/ ClientLeaves(TRUE) \/ ClientLeaves(FALSE)
    BY <1>3, <1>4 DEF StartFails, Initialized, Syncs, SyncRaises, Registers, Signal,
       PollDies, ServerBinds, ClientConnects, ClientLeaves, vars
  <1>5. CASE Stops \/ ClientStopRaises
    BY <1>3, <1>5 DEF Stops, BeginStop, StopPoll, StopPollRaises, StopZeroconf, StopServer,
       ServerClosed, StopHub, KeeperEnds, End, ClientStopRaises, vars
  <1>6. CASE ReadReturns
    BY <1>3, <1>6 DEF ReadReturns
  <1>7. CASE UNCHANGED allVars
    BY <1>3, <1>7 DEF allVars, vars
  <1> QED
    BY <1>1, <1>2, <1>4, <1>5, <1>6, <1>7 DEF Next, Starts

LEMMA MishapAlways == Spec => []MishapInv
  <1>1. Init => MishapInv
    BY DEF Init, DetectionInit, MishapInv, Orderly, KnownAfter, FailsOnlyAfterMishap, Detections
  <1>2. TypeOK /\ MishapInv /\ [Next]_allVars => MishapInv'
    BY MishapStep
  <1> QED
    BY <1>1, <1>2, TypeCorrect, PTL DEF Spec

\* For any devices, configurations and number of rounds: a detection in which
\* every answer comes before the question is repeated, the panel says nothing
\* unknown and the node stays where it is, does not fail.  The number of
\* packets that ends the reader of the devices is the number asked for.
THEOREM FailureMeansMishap == Spec => []FailsOnlyAfterMishap
  <1>1. MishapInv => FailsOnlyAfterMishap
    BY DEF MishapInv
  <1> QED
    BY <1>1, MishapAlways, PTL

\* A bridge that is up without mishap has data of every configured device,
\* although its reader counts packets and not devices: or it was not asked,
\* because the store has data of as many devices, of others.
THEOREM DevicesAreKnown == Spec => []DevicesKnown
  <1>1. MishapInv => DevicesKnown
    BY DEF MishapInv, KnownAfter, Known, DevicesKnown
  <1> QED
    BY <1>1, MishapAlways, PTL
==============================================================================
