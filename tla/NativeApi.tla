----------------------------- MODULE NativeApi -----------------------------
(***************************************************************************)
(* The native API server (native_api_server.py) and Device.publish: client *)
(* connections come, subscribe, stall and are lost, while broadcasts       *)
(* iterate over the set _clients.                                          *)
(*                                                                         *)
(* One task per connection and the poller's task share the event loop.  A  *)
(* task that writes to a client whose buffer is full suspends in drain,    *)
(* and whatever the others then do to _clients it finds when it resumes.   *)
(* One entity stands for all: its state, and what was last written of it   *)
(* to each client.                                                         *)
(***************************************************************************)
EXTENDS Naturals, FiniteSets

CONSTANTS
    Clients,       \* peers that may connect, one connection each at a time
    Loggers,       \* clients that may subscribe to logs,
    Watchers,      \* ... to states,
    Commanders,    \* ... and send switch commands
    Values,        \* states of the entity
    Initial,       \* its state at the start
    Unknown        \* nothing was written to this client yet

poll == "poll"
Tasks == Clients \cup {poll}

ASSUME ClientsAssumption ==
    /\ IsFiniteSet(Clients) /\ poll \notin Clients
    /\ Loggers \cup Watchers \cup Commanders \subseteq Clients
ASSUME ValuesAssumption == Initial \in Values /\ Unknown \notin Values

VARIABLES
    conn,          \* per client: "none", "open", or "lost" (reset or closing)
    place,         \* per client: where its connection task is
    full,          \* clients whose write buffer is over the high-water mark
    clients,       \* NativeApiServer._clients
    states,        \* clients with subscribe_to_states
    logs,          \* clients with subscribe_to_logs
    state,         \* the entity's _state
    view,          \* per client: the state last written to it
    cast,          \* per task: the iteration over _clients it is in
    missed         \* clients that an aborted broadcast or snapshot left out

netVars == <<conn, full>>
subVars == <<clients, states, logs>>
vars == <<conn, place, full, clients, states, logs, state, view, cast, missed>>

NoCast == [at |-> "none", kind |-> "log", msg |-> Unknown, todo |-> {}, size |-> 0, to |-> poll]

TypeOK ==
    /\ conn \in [Clients -> {"none", "open", "lost"}]
    /\ place \in [Clients -> {"out", "read", "log", "dispatch", "log2", "send", "publish", "closing"}]
    /\ full \subseteq Clients
    /\ clients \subseteq Clients /\ states \subseteq Clients /\ logs \subseteq Clients
    /\ state \in Values
    /\ view \in [Clients -> Values \cup {Unknown}]
    /\ cast \in [Tasks -> [at : {"none", "next", "drain", "broken"}, kind : {"log", "state"},
                           msg : Values \cup {Unknown}, todo : SUBSET Clients,
                           size : 0..Cardinality(Clients), to : Tasks]]
    /\ missed \subseteq Clients
    /\ \A c \in Clients :
          /\ place[c] = "out" <=> conn[c] = "none"
          /\ cast[c].at # "none" <=> place[c] \in {"log", "log2", "publish"}
          /\ place[c] = "out" => c \notin clients \cup states \cup logs \cup missed

Init ==
    /\ conn = [c \in Clients |-> "none"]
    /\ place = [c \in Clients |-> "out"]
    /\ full = {}
    /\ clients = {} /\ states = {} /\ logs = {}
    /\ state = Initial
    /\ view = [c \in Clients |-> Unknown]
    /\ cast = [t \in Tasks |-> NoCast]
    /\ missed = {}

\* A task keeps the loop while it iterates and while it dispatches.
LoopFree ==
    /\ \A t \in Tasks : cast[t].at # "next"
    /\ \A c \in Clients : place[c] \notin {"dispatch", "send"}

-----------------------------------------------------------------------------
(* The network.                                                            *)

Connect(c) ==
    /\ LoopFree
    /\ place[c] = "out"
    /\ conn' = [conn EXCEPT ![c] = "open"]
    /\ place' = [place EXCEPT ![c] = "read"]
    /\ clients' = clients \cup {c}
    /\ UNCHANGED <<full, states, logs, state, view, cast, missed>>

FillsUp(c) ==
    /\ LoopFree
    /\ conn[c] = "open" /\ c \notin full
    /\ full' = full \cup {c}
    /\ UNCHANGED <<conn, place, subVars, state, view, cast, missed>>

Drains(c) ==
    /\ LoopFree
    /\ c \in full
    /\ full' = full \ {c}
    /\ UNCHANGED <<conn, place, subVars, state, view, cast, missed>>

\* Writes that wait for c raise when they resume.
Break(c) ==
    [t \in Tasks |-> IF cast[t].at = "drain" /\ cast[t].to = c
                     THEN [cast[t] EXCEPT !.at = "broken"] ELSE cast[t]]

\* A reset, an EOF, or a heartbeat that gave up.
Lose(c) ==
    /\ LoopFree
    /\ conn[c] = "open"
    /\ conn' = [conn EXCEPT ![c] = "lost"]
    /\ full' = full \ {c}
    /\ cast' = Break(c)
    /\ UNCHANGED <<place, subVars, state, view, missed>>

-----------------------------------------------------------------------------
(* Iterating over _clients.                                                *)

\* Mutant: clients that are slow are passed over.
StartCastSkipsFull(t, k, m) ==
    cast' = [cast EXCEPT ![t] = [at |-> "next", kind |-> k, msg |-> m, todo |-> clients \ full,
                                 size |-> Cardinality(clients), to |-> poll]]

StartCast(t, k, m) ==
    cast' = [cast EXCEPT ![t] = [at |-> "next", kind |-> k, msg |-> m, todo |-> clients,
                                 size |-> Cardinality(clients), to |-> poll]]

Recipients(k) == clients \cap (IF k = "log" THEN logs ELSE states)

\* Write to one more client.  The message counts as sent when it is in the
\* buffer.  (A client that joined meanwhile and is visited after all only
\* gets a state that its own snapshot gives it too.)
SendNext(t) ==
    /\ cast[t].at = "next"
    /\ Cardinality(clients) = cast[t].size
    /\ \E c \in Recipients(cast[t].kind) :
          /\ c \in cast[t].todo
          /\ cast' = [cast EXCEPT ![t].todo = @ \ {c}, ![t].to = c,
                                  ![t].at = IF conn[c] # "open" THEN "broken"
                                            ELSE IF c \in full THEN "drain" ELSE "next"]
          /\ IF cast[t].kind = "state" /\ conn[c] = "open"
             THEN /\ view' = [view EXCEPT ![c] = cast[t].msg]
                  /\ missed' = missed \ {c}
             ELSE UNCHANGED <<view, missed>>
    /\ UNCHANGED <<conn, place, full, subVars, state>>

\* Where the connection task of t goes after an iteration.
After(t, ended) ==
    IF t = poll THEN place
    ELSE [place EXCEPT ![t] =
             CASE ended = "all" /\ @ = "log" -> "dispatch"
               [] ended = "all" /\ @ = "log2" -> "send"
               [] ended = "reset" /\ @ \in {"log", "log2"} -> "closing"
               [] OTHER -> "read"]

\* Clients that stay without the state, because the iteration of t ends here.
Forgotten(t) ==
    CASE cast[t].kind = "state" -> cast[t].todo \cap states
      [] cast[t].kind = "log" /\ t # poll -> IF place[t] = "log2" THEN {t} ELSE {}
      [] OTHER -> {}

EndCast(t) ==
    /\ cast[t].at = "next"
    /\ Cardinality(clients) = cast[t].size
    /\ Recipients(cast[t].kind) \cap cast[t].todo = {}
    /\ cast' = [cast EXCEPT ![t] = NoCast]
    /\ place' = After(t, "all")
    /\ UNCHANGED <<netVars, subVars, state, view, missed>>

\* RuntimeError, "Set changed size during iteration".  Device.publish logs
\* it; in a connection task it costs the message and five seconds.
SizeChanged(t) ==
    /\ cast[t].at = "next"
    /\ Cardinality(clients) # cast[t].size
    /\ cast' = [cast EXCEPT ![t] = NoCast]
    /\ place' = After(t, "size")
    /\ missed' = missed \cup Forgotten(t)
    /\ UNCHANGED <<netVars, subVars, state, view>>

\* drain returns, or raises ConnectionResetError for the client written to.
ResumeDrain(t) ==
    /\ cast[t].at = "drain"
    /\ LoopFree
    /\ cast[t].to \notin full
    /\ cast' = [cast EXCEPT ![t].at = "next", ![t].to = poll]
    /\ UNCHANGED <<place, netVars, subVars, state, view, missed>>

\* Mutant: the write is tried again.
DrainRetries(t) ==
    /\ cast[t].at = "broken"
    /\ LoopFree
    /\ UNCHANGED vars

\* Device.publish logs the error; in a connection task it closes the
\* connection of the task, whichever client was lost.
DrainRaises(t) ==
    /\ cast[t].at = "broken"
    /\ LoopFree
    /\ cast' = [cast EXCEPT ![t] = NoCast]
    /\ place' = After(t, "reset")
    /\ missed' = missed \cup Forgotten(t)
    /\ UNCHANGED <<netVars, subVars, state, view>>

-----------------------------------------------------------------------------
(* The connection task.                                                    *)

\* Every message is logged to the log subscribers before it is dispatched;
\* what it asks for is chosen there.
HandleNextMessage(c) ==
    /\ LoopFree
    /\ place[c] = "read" /\ conn[c] = "open"
    /\ place' = [place EXCEPT ![c] = "log"]
    /\ StartCast(c, "log", Unknown)
    /\ UNCHANGED <<netVars, subVars, state, view, missed>>

HandleSubscribeLogs(c) ==
    /\ place[c] = "dispatch" /\ c \in Loggers
    /\ logs' = logs \cup {c}
    /\ place' = [place EXCEPT ![c] = "read"]
    /\ UNCHANGED <<netVars, clients, states, state, view, cast, missed>>

HandleSubscribeStates(c) ==
    /\ place[c] = "dispatch" /\ c \in Watchers
    /\ states' = states \cup {c}
    /\ place' = [place EXCEPT ![c] = "log2"]
    /\ StartCast(c, "log", Unknown)
    /\ UNCHANGED <<netVars, clients, logs, state, view, missed>>

SendAllStates(c) ==
    /\ place[c] = "send"
    /\ view' = [view EXCEPT ![c] = state]
    /\ missed' = missed \ {c}
    /\ place' = [place EXCEPT ![c] = "read"]
    /\ UNCHANGED <<netVars, subVars, state, cast>>

\* set_state and notify_state_change, in the task that handles a command
\* and in the poller's.
HandleCommand(c) ==
    /\ place[c] = "dispatch" /\ c \in Commanders
    /\ \E v \in Values :
          IF v = state
          THEN /\ place' = [place EXCEPT ![c] = "read"]
               /\ UNCHANGED <<state, cast>>
          ELSE /\ state' = v
               /\ place' = [place EXCEPT ![c] = "publish"]
               /\ StartCast(c, "state", v)
    /\ UNCHANGED <<netVars, subVars, view, missed>>

Publish ==
    /\ LoopFree
    /\ cast[poll].at = "none"
    /\ \E v \in Values \ {state} : state' = v /\ StartCast(poll, "state", v)
    /\ UNCHANGED <<place, netVars, subVars, view, missed>>

HandleOther(c) ==
    /\ place[c] = "dispatch"
    /\ place' = [place EXCEPT ![c] = "read"]
    /\ UNCHANGED <<netVars, subVars, state, view, cast, missed>>

HandleDisconnect(c) ==
    /\ place[c] = "dispatch"
    /\ place' = [place EXCEPT ![c] = "closing"]
    /\ UNCHANGED <<netVars, subVars, state, view, cast, missed>>

\* stop, after the DisconnectResponse went out: the drain of that write has
\* no timeout.
CloseWriter(c) ==
    /\ LoopFree
    /\ place[c] = "closing" /\ conn[c] = "open" /\ c \notin full
    /\ conn' = [conn EXCEPT ![c] = "lost"]
    /\ cast' = Break(c)
    /\ UNCHANGED <<place, full, subVars, state, view, missed>>

\* Mutant: handle_client does not discard the connection.
EndConnectionKeeps(c) ==
    /\ LoopFree
    /\ place[c] \in {"read", "closing"} /\ conn[c] = "lost"
    /\ conn' = [conn EXCEPT ![c] = "none"]
    /\ place' = [place EXCEPT ![c] = "out"]
    /\ UNCHANGED <<full, subVars, state, view, cast, missed>>

\* Mutant: at the end of the stream the task reads on.
EndConnectionAfterClose(c) ==
    /\ LoopFree
    /\ place[c] = "closing" /\ conn[c] = "lost"
    /\ conn' = [conn EXCEPT ![c] = "none"]
    /\ place' = [place EXCEPT ![c] = "out"]
    /\ clients' = clients \ {c} /\ states' = states \ {c} /\ logs' = logs \ {c}
    /\ view' = [view EXCEPT ![c] = Unknown]
    /\ cast' = [t \in Tasks |-> [cast[t] EXCEPT !.todo = @ \ {c}]]
    /\ missed' = missed \ {c}
    /\ UNCHANGED <<full, state>>

\* The task reads again, finds the connection lost and ends; handle_client
\* discards the connection; a later one of this client is another object.
EndConnection(c) ==
    /\ LoopFree
    /\ place[c] \in {"read", "closing"} /\ conn[c] = "lost"
    /\ conn' = [conn EXCEPT ![c] = "none"]
    /\ place' = [place EXCEPT ![c] = "out"]
    /\ clients' = clients \ {c} /\ states' = states \ {c} /\ logs' = logs \ {c}
    /\ view' = [view EXCEPT ![c] = Unknown]
    /\ cast' = [t \in Tasks |-> [cast[t] EXCEPT !.todo = @ \ {c}]]
    /\ missed' = missed \ {c}
    /\ UNCHANGED <<full, state>>

CleanStaleConnections ==
    /\ LoopFree
    /\ \E c \in clients : conn[c] # "open"
    /\ clients' = {c \in clients : conn[c] = "open"}
    /\ UNCHANGED <<conn, place, full, states, logs, state, view, cast, missed>>

-----------------------------------------------------------------------------
CastStep(t) == SendNext(t) \/ EndCast(t) \/ SizeChanged(t) \/ ResumeDrain(t) \/ DrainRaises(t)

Dispatch(c) ==
    \/ HandleSubscribeLogs(c) \/ HandleSubscribeStates(c) \/ HandleCommand(c)
    \/ HandleOther(c) \/ HandleDisconnect(c) \/ SendAllStates(c)

Next ==
    \/ \E c \in Clients : Connect(c) \/ FillsUp(c) \/ Drains(c) \/ Lose(c)
    \/ \E c \in Clients : HandleNextMessage(c) \/ Dispatch(c) \/ CloseWriter(c) \/ EndConnection(c)
    \/ \E t \in Tasks : CastStep(t)
    \/ Publish
    \/ CleanStaleConnections

Spec == Init /\ [][Next]_vars

\* The loop runs what is ready in turn (strong fairness: another task may
\* take the loop first again and again), and a full buffer drains.
Fairness ==
    /\ \A c \in Clients : SF_vars(Drains(c)) /\ WF_vars(Dispatch(c)) /\ SF_vars(CloseWriter(c) \/ EndConnection(c))
    /\ \A t \in Tasks : SF_vars(CastStep(t))

FairSpec == Spec /\ Fairness

-----------------------------------------------------------------------------
(* Properties.                                                             *)

Subscribed == {c \in states : conn[c] = "open" /\ place[c] \notin {"log2", "send"}}

\* While only the poller publishes, a subscribed client has the entity's
\* state, is still to be visited by the broadcast of it, or was left out by
\* a broadcast (or a first snapshot) that another client's coming or going
\* cut short: there is no other way to lose an update.
NoSilentMiss ==
    \A c \in Subscribed :
        \/ view[c] = state
        \/ c \in missed
        \/ \E t \in Tasks : cast[t].at # "none" /\ cast[t].msg = state /\ c \in cast[t].todo

\* A stalled or abruptly lost client does not keep a broadcast from ending.
BroadcastEnds == \A t \in Tasks : cast[t].at # "none" ~> cast[t].at = "none"

\* A lost connection is forgotten, even one whose task was suspended in a
\* write to somebody else.
LostLeaves == \A c \in Clients : conn[c] = "lost" ~> c \notin clients

\* entities.py: state changes are broadcast to the clients.  A client that
\* stays subscribed ends up with the state the entity has settled on.
StateReaches ==
    \A c \in Clients :
        <>[][state' = state]_vars /\ <>[](c \in Subscribed) => <>[](view[c] = state)
=============================================================================
