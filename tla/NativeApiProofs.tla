--------------------------- MODULE NativeApiProofs ---------------------------
(***************************************************************************)
(* The native API server, for any number of clients: the type invariant,   *)
(* and that no update is lost silently while only the poller publishes.    *)
(***************************************************************************)
EXTENDS NativeApi, FiniteSetTheorems, TLAPS

CastRecord ==
    [at : {"none", "next", "drain", "broken"}, kind : {"log", "state"},
     msg : Values \cup {Unknown}, todo : SUBSET Clients,
     size : 0..Cardinality(Clients), to : Tasks]

Casts == [Tasks -> CastRecord]

\* An iteration starts at any set of connected clients.
LEMMA Sizes == \A set \in SUBSET Clients : Cardinality(set) \in 0..Cardinality(Clients)
  <1> SUFFICES ASSUME NEW set \in SUBSET Clients
               PROVE  Cardinality(set) \in 0..Cardinality(Clients)
    OBVIOUS
  <1>1. IsFiniteSet(Clients)
    BY ClientsAssumption
  <1>2. IsFiniteSet(set) /\ Cardinality(set) <= Cardinality(Clients)
    BY <1>1, FS_Subset
  <1>3. Cardinality(set) \in Nat /\ Cardinality(Clients) \in Nat
    BY <1>1, <1>2, FS_CardinalityType
  <1> QED
    BY <1>2, <1>3

LEMMA NoCastType == NoCast \in CastRecord
  <1>1. 0 \in 0..Cardinality(Clients)
    BY ClientsAssumption, FS_CardinalityType
  <1> QED
    BY <1>1 DEF NoCast, CastRecord, Tasks

\* Starting to iterate leaves a well-formed iteration.
LEMMA StartCastType ==
    ASSUME TypeOK, NEW t \in Tasks, NEW k \in {"log", "state"}, NEW m \in Values \cup {Unknown},
           StartCast(t, k, m)
    PROVE  /\ cast' \in Casts
           /\ cast'[t].at = "next" /\ cast'[t].kind = k /\ cast'[t].msg = m
           /\ cast'[t].todo = clients
           /\ \A u \in Tasks \ {t} : cast'[u] = cast[u]
  <1>1. Cardinality(clients) \in 0..Cardinality(Clients)
    BY Sizes DEF TypeOK
  <1>2. [at |-> "next", kind |-> k, msg |-> m, todo |-> clients,
         size |-> Cardinality(clients), to |-> poll] \in CastRecord
    BY <1>1 DEF TypeOK, CastRecord, Tasks
  <1> QED
    BY <1>2 DEF StartCast, TypeOK, Casts, CastRecord

\* A write to one client: what becomes of the iteration.
LEMMA WriteCast ==
    ASSUME cast \in Casts, NEW t \in Tasks, NEW c \in Clients,
           NEW at \in {"next", "drain", "broken"},
           cast' = [cast EXCEPT ![t].todo = @ \ {c}, ![t].to = c, ![t].at = at]
    PROVE  /\ cast' \in Casts
           /\ cast'[t].at = at /\ cast'[t].todo = cast[t].todo \ {c}
           /\ cast'[t].msg = cast[t].msg /\ cast'[t].kind = cast[t].kind
           /\ \A u \in Tasks \ {t} : cast'[u] = cast[u]
  BY DEF Casts, CastRecord, Tasks

LEMMA ResumeCast ==
    ASSUME cast \in Casts, NEW t \in Tasks, ResumeDrain(t)
    PROVE  /\ cast' \in Casts
           /\ cast'[t].at = "next" /\ cast'[t].todo = cast[t].todo
           /\ cast'[t].msg = cast[t].msg /\ cast'[t].kind = cast[t].kind
           /\ \A u \in Tasks \ {t} : cast'[u] = cast[u]
  BY DEF Casts, CastRecord, Tasks, ResumeDrain

\* A lost connection ends no iteration at once.
LEMMA BreakCast ==
    ASSUME cast \in Casts, NEW c \in Clients, cast' = Break(c)
    PROVE  /\ cast' \in Casts
           /\ \A t \in Tasks :
                 /\ cast'[t].at # "none" <=> cast[t].at # "none"
                 /\ cast'[t].todo = cast[t].todo
                 /\ cast'[t].msg = cast[t].msg /\ cast'[t].kind = cast[t].kind
  BY DEF Casts, CastRecord, Break

LEMMA LeaveCast ==
    ASSUME cast \in Casts, NEW c \in Clients, EndConnection(c)
    PROVE  /\ cast' \in Casts
           /\ \A t \in Tasks :
                 /\ cast'[t].at = cast[t].at /\ cast'[t].todo = cast[t].todo \ {c}
                 /\ cast'[t].msg = cast[t].msg /\ cast'[t].kind = cast[t].kind
  BY DEF Casts, CastRecord, Tasks, EndConnection

\* The part of the type invariant that relates a connection's place to its
\* iteration and to the sets it is in.
Placed(c) ==
    /\ place[c] = "out" <=> conn[c] = "none"
    /\ cast[c].at # "none" <=> place[c] \in {"log", "log2", "publish"}
    /\ place[c] = "out" => c \notin clients \cup states \cup logs \cup missed

Places == {"out", "read", "log", "dispatch", "log2", "send", "publish", "closing"}

LEMMA InitType == Init => TypeOK
  BY NoCastType, ValuesAssumption DEF Init, TypeOK, CastRecord, NoCast, Tasks

LEMMA NextType == TypeOK /\ [Next]_vars => TypeOK'
  <1> SUFFICES ASSUME TypeOK, [Next]_vars PROVE TypeOK'
    OBVIOUS
  <1> USE DEF TypeOK
  <1>c. cast \in Casts
    BY DEF Casts, CastRecord
  <1>p. poll \in Tasks /\ (\A c \in Clients : c \in Tasks /\ c # poll)
    BY ClientsAssumption DEF Tasks
  <1>1. ASSUME NEW c \in Clients, Connect(c) PROVE TypeOK'
    BY <1>1 DEF Connect
  <1>2. ASSUME NEW c \in Clients, FillsUp(c) \/ Drains(c) PROVE TypeOK'
    BY <1>2 DEF FillsUp, Drains, subVars
  <1>3. ASSUME NEW c \in Clients, Lose(c) PROVE TypeOK'
    BY <1>3, <1>c, <1>p, BreakCast DEF Lose, subVars, Casts, CastRecord
  <1>4. ASSUME NEW c \in Clients, HandleNextMessage(c) PROVE TypeOK'
    <2>1. /\ cast' \in Casts /\ cast'[c].at = "next"
          /\ \A u \in Tasks \ {c} : cast'[u] = cast[u]
      BY <1>4, <1>p, StartCastType DEF HandleNextMessage
    <2> QED
      BY <1>4, <1>p, <2>1 DEF HandleNextMessage, netVars, subVars, Casts, CastRecord
  <1>5. ASSUME NEW c \in Clients, HandleSubscribeLogs(c) PROVE TypeOK'
    BY <1>5 DEF HandleSubscribeLogs, netVars
  <1>6. ASSUME NEW c \in Clients, HandleSubscribeStates(c) PROVE TypeOK'
    <2>1. /\ cast' \in Casts /\ cast'[c].at = "next"
          /\ \A u \in Tasks \ {c} : cast'[u] = cast[u]
      BY <1>6, <1>p, StartCastType DEF HandleSubscribeStates
    <2> QED
      BY <1>6, <1>p, <2>1 DEF HandleSubscribeStates, netVars, Casts, CastRecord
  <1>7. ASSUME NEW c \in Clients, SendAllStates(c) PROVE TypeOK'
    BY <1>7 DEF SendAllStates, netVars, subVars
  <1>8. ASSUME NEW c \in Clients, HandleCommand(c) PROVE TypeOK'
    <2>1. PICK v \in Values :
             IF v = state THEN place' = [place EXCEPT ![c] = "read"] /\ UNCHANGED <<state, cast>>
             ELSE /\ state' = v
                  /\ place' = [place EXCEPT ![c] = "publish"]
                  /\ StartCast(c, "state", v)
      BY <1>8 DEF HandleCommand
    <2>2. CASE v = state
      BY <1>8, <2>1, <2>2 DEF HandleCommand, netVars, subVars
    <2>3. CASE v # state
      <3>1. /\ cast' \in Casts /\ cast'[c].at = "next"
            /\ \A u \in Tasks \ {c} : cast'[u] = cast[u]
        BY <2>1, <2>3, <1>p, StartCastType
      <3> QED
        BY <1>8, <1>p, <2>1, <2>3, <3>1 DEF HandleCommand, netVars, subVars, Casts, CastRecord
    <2> QED
      BY <2>2, <2>3
  <1>9. ASSUME NEW c \in Clients, HandleOther(c) \/ HandleDisconnect(c) PROVE TypeOK'
    BY <1>9 DEF HandleOther, HandleDisconnect, netVars, subVars
  <1>10. ASSUME NEW c \in Clients, CloseWriter(c) PROVE TypeOK'
    BY <1>10, <1>c, <1>p, BreakCast DEF CloseWriter, subVars, Casts, CastRecord
  <1>11. ASSUME NEW c \in Clients, EndConnection(c) PROVE TypeOK'
    <2>1. cast' \in Casts /\ \A t \in Tasks : cast'[t].at = cast[t].at
      BY <1>11, <1>c, LeaveCast
    <2>2. \A d \in Clients : Placed(d)'
      BY <1>11, <1>p, <2>1 DEF EndConnection, Placed
    <2>3. /\ conn' \in [Clients -> {"none", "open", "lost"}] /\ place' \in [Clients -> Places]
          /\ full' \subseteq Clients /\ clients' \subseteq Clients /\ states' \subseteq Clients
          /\ logs' \subseteq Clients /\ missed' \subseteq Clients /\ state' \in Values
          /\ view' \in [Clients -> Values \cup {Unknown}]
      BY <1>11 DEF EndConnection, Places
    <2> QED
      BY <2>1, <2>2, <2>3 DEF Casts, CastRecord, Placed, Places
  <1>12. ASSUME NEW t \in Tasks, SendNext(t) PROVE TypeOK'
    <2>1. PICK c \in Recipients(cast[t].kind) :
             /\ c \in cast[t].todo
             /\ cast' = [cast EXCEPT ![t].todo = @ \ {c}, ![t].to = c,
                                     ![t].at = IF conn[c] # "open" THEN "broken"
                                               ELSE IF c \in full THEN "drain" ELSE "next"]
             /\ IF cast[t].kind = "state" /\ conn[c] = "open"
                THEN view' = [view EXCEPT ![c] = cast[t].msg] /\ missed' = missed \ {c}
                ELSE UNCHANGED <<view, missed>>
      BY <1>12 DEF SendNext
    <2>2. c \in Clients
      BY <2>1 DEF Recipients
    <2>3. cast' \in Casts /\ \A u \in Tasks : cast'[u].at # "none" <=> cast[u].at # "none"
      <3>1. PICK at \in {"next", "drain", "broken"} :
               cast' = [cast EXCEPT ![t].todo = @ \ {c}, ![t].to = c, ![t].at = at]
        BY <2>1, Zenon
      <3>2. cast[t].at = "next"
        BY <1>12 DEF SendNext
      <3>3. /\ cast' \in Casts /\ cast'[t].at = at
            /\ \A u \in Tasks \ {t} : cast'[u] = cast[u]
        BY <1>c, <2>2, <3>1, WriteCast, Zenon
      <3> QED
        BY <3>2, <3>3
    <2> QED
      BY <1>12, <1>p, <2>1, <2>2, <2>3 DEF SendNext, netVars, subVars, Casts, CastRecord
  <1>13. ASSUME NEW t \in Tasks, cast' = [cast EXCEPT ![t] = NoCast], cast[t].at # "none",
                NEW ended \in {"all", "size", "reset"}, place' = After(t, ended),
                UNCHANGED <<netVars, subVars, state, view>>,
                missed' = missed \/ missed' = missed \cup Forgotten(t)
         PROVE  TypeOK'
    <2>1. cast' \in Casts /\ cast'[t].at = "none"
          /\ \A u \in Tasks \ {t} : cast'[u] = cast[u]
      BY <1>13, <1>c, NoCastType DEF NoCast, Casts
    <2>2. /\ place' \in [Clients -> Places]
          /\ \A c \in Clients \ {t} : place'[c] = place[c]
          /\ t \in Clients => place'[t] \notin {"out", "log", "log2", "publish"}
      BY <1>13, <1>p DEF After, Places, Tasks
    <2>3. Forgotten(t) \subseteq Clients /\ (\A c \in Forgotten(t) : place[c] # "out")
      BY <1>13, <1>p DEF Forgotten, Tasks
    <2>4. \A c \in Clients : Placed(c)'
      BY <1>13, <1>p, <2>1, <2>2, <2>3 DEF Placed, netVars, subVars
    <2> QED
      BY <1>13, <2>1, <2>2, <2>3, <2>4 DEF netVars, subVars, Casts, CastRecord, Placed, Places
  <1>14. ASSUME NEW t \in Tasks, EndCast(t) \/ SizeChanged(t) \/ DrainRaises(t) PROVE TypeOK'
    BY <1>13, <1>14 DEF EndCast, SizeChanged, DrainRaises
  <1>15. ASSUME NEW t \in Tasks, ResumeDrain(t) PROVE TypeOK'
    <2>1. cast' \in Casts /\ \A u \in Tasks : cast'[u].at # "none" <=> cast[u].at # "none"
      <3>1. cast[t].at # "none"
        BY <1>15 DEF ResumeDrain
      <3> QED
        BY <1>15, <1>c, <3>1, ResumeCast
    <2> QED
      BY <1>15, <1>p, <2>1 DEF ResumeDrain, netVars, subVars, Casts, CastRecord
  <1>16. CASE Publish
    <2>1. PICK v \in Values : state' = v /\ StartCast(poll, "state", v)
      BY <1>16 DEF Publish
    <2>2. /\ cast' \in Casts
          /\ \A u \in Tasks \ {poll} : cast'[u] = cast[u]
      BY <1>p, <2>1, StartCastType
    <2> QED
      BY <1>16, <1>p, <2>1, <2>2 DEF Publish, netVars, subVars, Casts, CastRecord
  <1>17. CASE CleanStaleConnections
    BY <1>17 DEF CleanStaleConnections
  <1>18. CASE UNCHANGED vars
    BY <1>18 DEF vars
  <1> QED
    BY <1>1, <1>2, <1>3, <1>4, <1>5, <1>6, <1>7, <1>8, <1>9, <1>10, <1>11, <1>12, <1>14,
       <1>15, <1>16, <1>17, <1>18 DEF Next, Dispatch, CastStep

\* Type correctness: a connection task iterates exactly where its place says
\* so, and a client that is gone is in none of the server's sets.
THEOREM TypeCorrect == Spec => []TypeOK
  BY InitType, NextType, PTL DEF Spec

-----------------------------------------------------------------------------
(* No silent miss.                                                         *)

\* A connected client is in _clients, where every broadcast begins.
ConnectedListed == \A c \in Clients : conn[c] = "open" => c \in clients

\* Only the poller's task broadcasts states, and what it broadcasts is the
\* entity's state until it has finished.  Here the absence of commands is
\* needed: the task that handles one changes the state beside the poller.
PollerCasts ==
    /\ \A c \in Clients : cast[c].at # "none" => cast[c].kind = "log" /\ cast[c].msg = Unknown
    /\ cast[poll].at # "none" => cast[poll].kind = "state" /\ cast[poll].msg = state

\* NoSilentMiss, of which the broadcast can then only be the poller's.
Reached(c) ==
    \/ view[c] = state
    \/ c \in missed
    \/ cast[poll].at # "none" /\ c \in cast[poll].todo

SubscribedReached ==
    \A c \in Clients :
        c \in states /\ conn[c] = "open" /\ place[c] \notin {"log2", "send"} => Reached(c)

MissInv == TypeOK /\ ConnectedListed /\ PollerCasts /\ SubscribedReached

LEMMA ListedStep == TypeOK /\ ConnectedListed /\ [Next]_vars => ConnectedListed'
  <1> SUFFICES ASSUME TypeOK, ConnectedListed, [Next]_vars,
                      NEW c \in Clients, conn'[c] = "open"
               PROVE  c \in clients'
    BY DEF ConnectedListed
  <1>0. /\ conn \in [Clients -> {"none", "open", "lost"}]
        /\ conn[c] = "open" => c \in clients
    BY DEF TypeOK, ConnectedListed
  <1>1. ASSUME NEW d \in Clients, Connect(d) PROVE c \in clients'
    BY <1>0, <1>1 DEF Connect
  <1>2. ASSUME NEW d \in Clients, FillsUp(d) \/ Drains(d) \/ Lose(d) PROVE c \in clients'
    BY <1>0, <1>2 DEF FillsUp, Drains, Lose, subVars
  <1>3. ASSUME NEW d \in Clients, HandleNextMessage(d) \/ Dispatch(d) PROVE c \in clients'
    BY <1>0, <1>3 DEF HandleNextMessage, Dispatch, HandleSubscribeLogs, HandleSubscribeStates,
       HandleCommand, HandleOther, HandleDisconnect, SendAllStates, netVars, subVars
  <1>4. ASSUME NEW d \in Clients, CloseWriter(d) \/ EndConnection(d) PROVE c \in clients'
    BY <1>0, <1>4 DEF CloseWriter, EndConnection, subVars
  <1>5. ASSUME NEW t \in Tasks, CastStep(t) PROVE c \in clients'
    BY <1>0, <1>5 DEF CastStep, SendNext, EndCast, SizeChanged, ResumeDrain, DrainRaises,
       netVars, subVars
  <1>6. CASE Publish
    BY <1>0, <1>6 DEF Publish, netVars, subVars
  <1>7. CASE CleanStaleConnections
    BY <1>0, <1>7 DEF CleanStaleConnections
  <1>8. CASE UNCHANGED vars
    BY <1>0, <1>8 DEF vars
  <1> QED
    BY <1>1, <1>2, <1>3, <1>4, <1>5, <1>6, <1>7, <1>8 DEF Next

\* The steps that write to no client, take none out of an iteration and
\* give the entity no other state.
LEMMA Undisturbed ==
    ASSUME PollerCasts, SubscribedReached, UNCHANGED <<state, view>>,
           missed \subseteq missed',
           \A c \in Clients :
              c \in states' /\ conn'[c] = "open" /\ place'[c] \notin {"log2", "send"}
                 => \/ c \in states /\ conn[c] = "open" /\ place[c] \notin {"log2", "send"}
                    \/ Reached(c)',
           \A t \in Tasks :
              cast'[t].at # "none" =>
                 \/ cast[t].at # "none" /\ cast'[t].kind = cast[t].kind /\ cast'[t].msg = cast[t].msg
                 \/ t \in Clients /\ cast'[t].kind = "log" /\ cast'[t].msg = Unknown,
           cast[poll].at # "none" => cast'[poll].at # "none" /\ cast[poll].todo \subseteq cast'[poll].todo
    PROVE  PollerCasts' /\ SubscribedReached'
  <1>1. poll \in Tasks /\ poll \notin Clients /\ Clients \subseteq Tasks
    BY ClientsAssumption DEF Tasks
  <1>2. PollerCasts'
    BY <1>1 DEF PollerCasts
  <1>3. SubscribedReached'
    BY DEF SubscribedReached, Reached
  <1> QED
    BY <1>2, <1>3

LEMMA MissStep ==
    ASSUME Commanders = {}, MissInv, [Next]_vars
    PROVE  PollerCasts' /\ SubscribedReached'
  <1>p. poll \in Tasks /\ poll \notin Clients /\ Clients \subseteq Tasks
    BY ClientsAssumption DEF Tasks
  <1>c. cast \in Casts
    BY DEF MissInv, TypeOK, Casts, CastRecord
  <1>t. /\ TypeOK /\ PollerCasts /\ SubscribedReached /\ ConnectedListed
        /\ conn \in [Clients -> {"none", "open", "lost"}] /\ place \in [Clients -> Places]
        /\ view \in [Clients -> Values \cup {Unknown}]
        /\ states \subseteq Clients /\ clients \subseteq Clients
        /\ \A c \in Clients : Placed(c)
    BY DEF MissInv, TypeOK, Placed, Places
  <1>1. ASSUME NEW c \in Clients, Connect(c) PROVE PollerCasts' /\ SubscribedReached'
    <2>1. c \notin states
      BY <1>1, <1>t DEF Connect, Placed
    <2> QED
      BY <1>1, <1>t, <2>1, Undisturbed DEF Connect
  <1>2. ASSUME NEW c \in Clients, FillsUp(c) \/ Drains(c) PROVE PollerCasts' /\ SubscribedReached'
    BY <1>2, <1>t, Undisturbed DEF FillsUp, Drains, subVars
  <1>3. ASSUME NEW c \in Clients, Lose(c) \/ CloseWriter(c) PROVE PollerCasts' /\ SubscribedReached'
    <2>1. cast' = Break(c)
      BY <1>3 DEF Lose, CloseWriter
    <2>2. conn' = [conn EXCEPT ![c] = "lost"]
      BY <1>3 DEF Lose, CloseWriter
    <2> QED
      BY <1>3, <1>c, <1>p, <1>t, <2>1, <2>2, BreakCast, Undisturbed DEF Lose, CloseWriter, subVars
  <1>4. ASSUME NEW c \in Clients, HandleNextMessage(c) \/ HandleSubscribeStates(c)
        PROVE  PollerCasts' /\ SubscribedReached'
    <2>1. StartCast(c, "log", Unknown) /\ UNCHANGED <<conn, state, view, missed>>
      BY <1>4 DEF HandleNextMessage, HandleSubscribeStates, netVars
    <2>2. /\ cast'[c].kind = "log" /\ cast'[c].msg = Unknown
          /\ \A u \in Tasks \ {c} : cast'[u] = cast[u]
      BY <1>p, <1>t, <2>1, StartCastType
    <2>3. \A d \in Clients :
             d \in states' /\ place'[d] \notin {"log2", "send"}
               => d \in states /\ place[d] \notin {"log2", "send"}
      BY <1>4, <1>t DEF HandleNextMessage, HandleSubscribeStates, subVars
    <2> QED
      BY <1>p, <1>t, <2>1, <2>2, <2>3, Undisturbed
  <1>5. ASSUME NEW c \in Clients, HandleSubscribeLogs(c) \/ HandleOther(c) \/ HandleDisconnect(c)
        PROVE  PollerCasts' /\ SubscribedReached'
    BY <1>5, <1>t, Undisturbed DEF HandleSubscribeLogs, HandleOther, HandleDisconnect, netVars, subVars
  <1>6. ASSUME NEW c \in Clients, SendAllStates(c) PROVE PollerCasts' /\ SubscribedReached'
    <2>1. PollerCasts'
      BY <1>6, <1>t DEF SendAllStates, PollerCasts
    <2>2. SubscribedReached'
      BY <1>6, <1>t DEF SendAllStates, SubscribedReached, Reached, netVars, subVars
    <2> QED
      BY <2>1, <2>2
  <1>7. ASSUME NEW c \in Clients, EndConnection(c) PROVE PollerCasts' /\ SubscribedReached'
    <2>1. \A t \in Tasks :
             /\ cast'[t].at = cast[t].at /\ cast'[t].todo = cast[t].todo \ {c}
             /\ cast'[t].msg = cast[t].msg /\ cast'[t].kind = cast[t].kind
      BY <1>7, <1>c, LeaveCast
    <2>2. PollerCasts'
      BY <1>7, <1>p, <1>t, <2>1 DEF EndConnection, PollerCasts
    <2>3. SubscribedReached'
      BY <1>7, <1>p, <1>t, <2>1 DEF EndConnection, SubscribedReached, Reached
    <2> QED
      BY <2>2, <2>3
  <1>8. ASSUME NEW t \in Tasks, SendNext(t) PROVE PollerCasts' /\ SubscribedReached'
    <2>1. PICK c \in Recipients(cast[t].kind) :
             /\ c \in cast[t].todo
             /\ cast' = [cast EXCEPT ![t].todo = @ \ {c}, ![t].to = c,
                                     ![t].at = IF conn[c] # "open" THEN "broken"
                                               ELSE IF c \in full THEN "drain" ELSE "next"]
             /\ IF cast[t].kind = "state" /\ conn[c] = "open"
                THEN view' = [view EXCEPT ![c] = cast[t].msg] /\ missed' = missed \ {c}
                ELSE UNCHANGED <<view, missed>>
      BY <1>8 DEF SendNext
    <2>2. c \in Clients
      BY <1>t, <2>1 DEF Recipients
    <2>3. PICK at \in {"next", "drain", "broken"} :
             cast' = [cast EXCEPT ![t].todo = @ \ {c}, ![t].to = c, ![t].at = at]
      BY <2>1, Zenon
    <2>4. /\ cast'[t].at = at /\ cast'[t].todo = cast[t].todo \ {c}
          /\ cast'[t].msg = cast[t].msg /\ cast'[t].kind = cast[t].kind
          /\ \A u \in Tasks \ {t} : cast'[u] = cast[u]
      BY <1>c, <2>2, <2>3, WriteCast, Zenon
    <2>5. cast[t].at # "none" /\ UNCHANGED <<conn, place, states, state>>
      BY <1>8 DEF SendNext, subVars
    <2>6. PollerCasts'
      BY <1>p, <1>t, <2>4, <2>5 DEF PollerCasts
    <2>7. CASE t = poll
      <3>1. cast[t].kind = "state" /\ cast[t].msg = state
        BY <1>t, <2>5, <2>7 DEF PollerCasts
      <3> QED
        BY <1>t, <2>1, <2>2, <2>4, <2>5, <2>6, <2>7, <3>1 DEF SubscribedReached, Reached
    <2>8. CASE t # poll
      <3>1. cast[t].kind = "log" /\ cast'[poll] = cast[poll]
        BY <1>p, <1>t, <2>4, <2>5, <2>8 DEF PollerCasts, Tasks
      <3> QED
        BY <1>t, <2>1, <2>5, <2>6, <3>1 DEF SubscribedReached, Reached
    <2> QED
      BY <2>7, <2>8
  <1>9. ASSUME NEW t \in Tasks, EndCast(t) PROVE PollerCasts' /\ SubscribedReached'
    <2>1. /\ cast'[t].at = "none" /\ (\A u \in Tasks \ {t} : cast'[u] = cast[u])
          /\ UNCHANGED <<conn, states, state, view, missed>>
      BY <1>9, <1>c DEF EndCast, Casts, NoCast, netVars, subVars
    <2>2. PollerCasts'
      BY <1>p, <1>t, <2>1 DEF PollerCasts
    <2>3. CASE t = poll
      <3>1. place' = place
        BY <1>9, <2>3 DEF EndCast, After
      <3>2. \A c \in clients \cap states : c \notin cast[poll].todo
        BY <1>9, <1>t, <2>3 DEF EndCast, Recipients, PollerCasts
      <3>3. SubscribedReached'
        BY <1>t, <2>1, <3>1, <3>2 DEF SubscribedReached, Reached, ConnectedListed
      <3> QED
        BY <2>2, <3>3
    <2>4. CASE t # poll
      <3>1. cast'[poll] = cast[poll] /\ t \in Clients
        BY <1>p, <2>1, <2>4 DEF Tasks
      <3>2. \A c \in Clients :
               place'[c] \notin {"log2", "send"} => place[c] \notin {"log2", "send"}
        BY <1>9, <1>t, <2>4, <3>1 DEF EndCast, After, Placed
      <3>3. SubscribedReached'
        BY <1>t, <2>1, <3>1, <3>2 DEF SubscribedReached, Reached
      <3> QED
        BY <2>2, <3>3
    <2> QED
      BY <2>3, <2>4
  <1>10. ASSUME NEW t \in Tasks, SizeChanged(t) \/ DrainRaises(t)
         PROVE  PollerCasts' /\ SubscribedReached'
    <2>0. cast[t].at # "none"
      BY <1>10 DEF SizeChanged, DrainRaises
    <2>1. /\ cast'[t].at = "none" /\ (\A u \in Tasks \ {t} : cast'[u] = cast[u])
          /\ UNCHANGED <<conn, states, state, view>>
          /\ missed' = missed \cup Forgotten(t)
      BY <1>10, <1>c DEF SizeChanged, DrainRaises, Casts, NoCast, netVars, subVars
    <2>2. PollerCasts'
      BY <1>p, <1>t, <2>1 DEF PollerCasts
    <2>3. CASE t = poll
      <3>1. place' = place
        BY <1>10, <2>3 DEF SizeChanged, DrainRaises, After
      <3>2. cast[poll].todo \cap states \subseteq missed'
        BY <1>t, <2>0, <2>1, <2>3 DEF Forgotten, PollerCasts
      <3>3. SubscribedReached'
        BY <1>t, <2>1, <3>1, <3>2 DEF SubscribedReached, Reached
      <3> QED
        BY <2>2, <3>3
    <2>4. CASE t # poll
      <3>1. cast'[poll] = cast[poll] /\ t \in Clients
        BY <1>p, <2>1, <2>4 DEF Tasks
      <3>2. PICK ended \in {"size", "reset"} : place' = After(t, ended)
        BY <1>10 DEF SizeChanged, DrainRaises
      <3>3. \A c \in Clients \ {t} : place'[c] = place[c]
        BY <1>t, <2>4, <3>1, <3>2 DEF After
      <3>4. place[t] = "log2" => t \in missed'
        BY <1>t, <2>0, <2>1, <2>4, <3>1 DEF Forgotten, PollerCasts
      <3>5. place[t] # "send"
        BY <1>t, <2>0, <3>1 DEF Placed
      <3>6. SubscribedReached'
        BY <1>t, <2>1, <3>1, <3>3, <3>4, <3>5 DEF SubscribedReached, Reached
      <3> QED
        BY <2>2, <3>6
    <2> QED
      BY <2>3, <2>4
  <1>11. ASSUME NEW t \in Tasks, ResumeDrain(t) PROVE PollerCasts' /\ SubscribedReached'
    <2>1. /\ cast'[t].at = "next" /\ cast'[t].todo = cast[t].todo
          /\ cast'[t].msg = cast[t].msg /\ cast'[t].kind = cast[t].kind
          /\ \A u \in Tasks \ {t} : cast'[u] = cast[u]
      BY <1>11, <1>c, ResumeCast
    <2>2. cast[t].at # "none" /\ UNCHANGED <<place, conn, states, state, view, missed>>
      BY <1>11 DEF ResumeDrain, netVars, subVars
    <2> QED
      BY <1>p, <1>t, <2>1, <2>2, Undisturbed
  <1>12. CASE Publish
    <2>1. PICK v \in Values : state' = v /\ StartCast(poll, "state", v)
      BY <1>12 DEF Publish
    <2>2. /\ cast'[poll].at = "next" /\ cast'[poll].kind = "state" /\ cast'[poll].msg = v
          /\ cast'[poll].todo = clients
          /\ \A u \in Tasks \ {poll} : cast'[u] = cast[u]
      BY <1>p, <1>t, <2>1, StartCastType
    <2>3. PollerCasts'
      BY <1>p, <1>t, <2>1, <2>2 DEF PollerCasts
    <2>4. SubscribedReached'
      BY <1>12, <1>t, <2>2 DEF Publish, SubscribedReached, Reached, ConnectedListed, netVars, subVars
    <2> QED
      BY <2>3, <2>4
  <1>13. CASE CleanStaleConnections
    BY <1>13, <1>t, Undisturbed DEF CleanStaleConnections
  <1>14. CASE UNCHANGED vars
    BY <1>14, <1>t, Undisturbed DEF vars
  <1>15. ASSUME NEW c \in Clients PROVE ~HandleCommand(c)
    BY DEF HandleCommand
  <1> QED
    BY <1>1, <1>2, <1>3, <1>4, <1>5, <1>6, <1>7, <1>8, <1>9, <1>10, <1>11, <1>12, <1>13,
       <1>14, <1>15 DEF Next, Dispatch, CastStep

\* While only the poller publishes, no client loses an update but by a
\* broadcast or a snapshot that was cut short, however many clients come and
\* go, stall and are lost.
THEOREM NoUpdateLostSilently ==
    ASSUME Commanders = {}
    PROVE  Spec => []NoSilentMiss
  <1>1. Init => MissInv
    <2> SUFFICES ASSUME Init PROVE MissInv
      OBVIOUS
    <2>1. TypeOK
      BY InitType
    <2>2. ConnectedListed /\ PollerCasts /\ SubscribedReached
      BY DEF Init, ConnectedListed, PollerCasts, SubscribedReached, NoCast, Tasks
    <2> QED
      BY <2>1, <2>2 DEF MissInv
  <1>2. MissInv /\ [Next]_vars => MissInv'
    BY NextType, ListedStep, MissStep DEF MissInv
  <1>3. MissInv => NoSilentMiss
    <2> SUFFICES ASSUME MissInv, NEW c \in Subscribed
                 PROVE  \/ view[c] = state
                        \/ c \in missed
                        \/ \E t \in Tasks : cast[t].at # "none" /\ cast[t].msg = state /\ c \in cast[t].todo
      BY DEF NoSilentMiss
    <2>1. Reached(c)
      BY DEF MissInv, TypeOK, SubscribedReached, Subscribed
    <2>2. poll \in Tasks /\ (cast[poll].at # "none" => cast[poll].msg = state)
      BY DEF MissInv, PollerCasts, Tasks
    <2> QED
      BY <2>1, <2>2 DEF Reached
  <1> QED
    BY <1>1, <1>2, <1>3, PTL DEF Spec
==============================================================================
