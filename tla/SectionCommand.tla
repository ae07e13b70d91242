---------------------------- MODULE SectionCommand ----------------------------
(***************************************************************************)
(* Arming and disarming a section, and switching a PG output (core.py,     *)
(* entities.py).                                                           *)
(*                                                                         *)
(* A command with a code of its own ends the session of the configured     *)
(* code, logs in, waits a second for an error, and only then sends the     *)
(* section command; after it, or after the error, it logs in again with    *)
(* the configured code.  The panel has one session, the core one flag for  *)
(* the errors, and every write is a job of an executor whose threads write *)
(* in any order.                                                           *)
(***************************************************************************)
EXTENDS FiniteSets

CONSTANTS
    Commands        \* the commands and switches of clients, each given once

Codes == {"configured", "good", "bad", "short", "malformed", "switch"}
Waiting == {"soon", "second"}       \* after_login_callback is still to come

VARIABLES
    at,             \* where each command is
    code,           \* its code, once it is given
    successful,     \* _successful_login
    jobs,           \* writes in the executor
    session,        \* of the panel: nobody's, the configured code's, another's
    errors,         \* commands whose login error is on its way to the reader
    sent,           \* commands whose section packet was handed to a job
    away,           \* commands whose login was written, and what ends it not
    crossed,        \* commands that waited while another one was given
    late,           \* those whose second ended before the answer to the login
    failed          \* commands one of whose writes failed

history == <<crossed, late, failed>>
vars == <<at, code, successful, jobs, session, errors, sent, away, history>>

Login(c) == <<"login", c>>
Finish(c) == <<"finish", c>>
Switch(c) == <<"switch", c>>

Jobs == {"login", "finish", "switch"} \X Commands

TypeOK ==
    /\ at \in [Commands -> {"idle", "done"} \cup Waiting]
    /\ code \in [Commands -> Codes \cup {"none"}]
    /\ successful \in BOOLEAN
    /\ jobs \subseteq Jobs
    /\ session \in {"nobody", "configured", "user"}
    /\ errors \subseteq Commands /\ sent \subseteq Commands /\ away \subseteq Commands
    /\ crossed \subseteq Commands /\ late \subseteq Commands /\ failed \subseteq Commands
    /\ \A c \in Commands :
          /\ Login(c) \in jobs => code[c] \in {"good", "bad"}
          /\ Finish(c) \in jobs => at[c] = "done"
          /\ c \in errors => code[c] = "bad"

\* The keepalive thread has logged in.
Init ==
    /\ at = [c \in Commands |-> "idle"]
    /\ code = [c \in Commands |-> "none"]
    /\ successful = TRUE
    /\ jobs = {}
    /\ session = "configured"
    /\ errors = {} /\ sent = {} /\ away = {}
    /\ crossed = {} /\ late = {} /\ failed = {}

-----------------------------------------------------------------------------
(* modify_alarm_control_panel_section_state, on the event loop.  It asks    *)
(* for the sections' states too, which changes nothing here.                *)

Others(c) == {d \in Commands \ {c} : at[d] \in Waiting}

Give(c, given, next) ==
    /\ at[c] = "idle"
    /\ code' = [code EXCEPT ![c] = given]
    /\ at' = [at EXCEPT ![c] = next]

Cross(c) == crossed' = crossed \cup Others(c) \cup (IF Others(c) = {} THEN {} ELSE {c})

\* A wrong-code event, and nothing else.
TooShort(c) ==
    /\ Give(c, "short", "done")
    /\ UNCHANGED <<successful, jobs, session, errors, sent, away, history>>

\* Mutant: the flag is reset when the answer is due.
CommandLeavesFlag(c, given) ==
    /\ given \in {"configured", "good", "bad"}
    /\ Give(c, given, IF given = "configured" THEN "soon" ELSE "second")
    /\ jobs' = IF given = "configured" THEN jobs ELSE jobs \cup {Login(c)}
    /\ Cross(c)
    /\ UNCHANGED <<successful, session, errors, sent, away, late, failed>>

\* Mutant: the configured code logs in like others.
CommandLogsIn(c, given) ==
    /\ given \in {"configured", "good", "bad"}
    /\ Give(c, given, "second")
    /\ successful' = TRUE
    /\ jobs' = jobs \cup {Login(c)}
    /\ Cross(c)
    /\ UNCHANGED <<session, errors, sent, away, late, failed>>

Command(c, given) ==
    /\ given \in {"configured", "good", "bad"}
    /\ Give(c, given, IF given = "configured" THEN "soon" ELSE "second")
    /\ successful' = TRUE
    /\ jobs' = IF given = "configured" THEN jobs ELSE jobs \cup {Login(c)}
    /\ Cross(c)
    /\ UNCHANGED <<session, errors, sent, away, late, failed>>

\* The packet cannot be built of the code: the flag is reset already.
Malformed(c) ==
    /\ Give(c, "malformed", "done")
    /\ successful' = TRUE
    /\ Cross(c)
    /\ UNCHANGED <<jobs, session, errors, sent, away, late, failed>>

\* toggle_pg_output
Toggle(c) ==
    /\ Give(c, "switch", "done")
    /\ jobs' = jobs \cup {Switch(c)}
    /\ UNCHANGED <<successful, session, errors, sent, away, history>>

\* Mutant: a login that failed is not looked at.
AfterLoginAlways(c) ==
    /\ at[c] \in Waiting
    /\ at' = [at EXCEPT ![c] = "done"]
    /\ sent' = sent \cup {c}
    /\ jobs' = jobs \cup {Finish(c)}
    /\ late' = IF Login(c) \in jobs \/ c \in errors THEN late \cup {c} ELSE late
    /\ UNCHANGED <<code, successful, session, errors, away, crossed, failed>>

\* Mutant: after an error there is nothing to end.
AfterLoginReturns(c) ==
    /\ at[c] \in Waiting
    /\ at' = [at EXCEPT ![c] = "done"]
    /\ sent' = IF successful THEN sent \cup {c} ELSE sent
    /\ jobs' = IF successful THEN jobs \cup {Finish(c)} ELSE jobs
    /\ late' = IF Login(c) \in jobs \/ c \in errors THEN late \cup {c} ELSE late
    /\ UNCHANGED <<code, successful, session, errors, away, crossed, failed>>

\* after_login_callback: what it sends, if anything, is one write.
AfterLogin(c) ==
    /\ at[c] \in Waiting
    /\ at' = [at EXCEPT ![c] = "done"]
    /\ sent' = IF successful THEN sent \cup {c} ELSE sent
    /\ jobs' = IF successful \/ code[c] # "configured" THEN jobs \cup {Finish(c)} ELSE jobs
    /\ late' = IF Login(c) \in jobs \/ c \in errors THEN late \cup {c} ELSE late
    /\ UNCHANGED <<code, successful, session, errors, away, crossed, failed>>

-----------------------------------------------------------------------------
(* The executor's jobs, and what the panel does with them.                 *)

\* The end of the session, and the login that the panel accepts or refuses.
WriteLogin(c) ==
    /\ Login(c) \in jobs
    /\ jobs' = jobs \ {Login(c)}
    /\ session' = IF code[c] = "good" THEN "user" ELSE "nobody"
    /\ errors' = IF code[c] = "bad" THEN errors \cup {c} ELSE errors
    /\ away' = away \cup {c}
    /\ UNCHANGED <<at, code, successful, sent, history>>

\* Mutant: the end of the session follows the login it should precede.
WriteFinishEndsLast(c) ==
    /\ Finish(c) \in jobs
    /\ jobs' = jobs \ {Finish(c)}
    /\ session' = IF code[c] = "configured" THEN session ELSE "nobody"
    /\ away' = IF Login(c) \in jobs THEN away ELSE away \ {c}
    /\ UNCHANGED <<at, code, successful, errors, sent, history>>

\* The section command, if any; then the configured code's login, if needed.
WriteFinish(c) ==
    /\ Finish(c) \in jobs
    /\ jobs' = jobs \ {Finish(c)}
    /\ session' = IF code[c] = "configured" THEN session ELSE "configured"
    /\ away' = IF Login(c) \in jobs THEN away ELSE away \ {c}
    /\ UNCHANGED <<at, code, successful, errors, sent, history>>

WriteSwitch(c) ==
    /\ Switch(c) \in jobs
    /\ jobs' = jobs \ {Switch(c)}
    /\ UNCHANGED <<at, code, successful, session, errors, sent, away, history>>

\* The port cannot be opened: nobody looks at the job's exception.
WriteFails(c) ==
    /\ \E job \in jobs \cap {Login(c), Finish(c), Switch(c)} : jobs' = jobs \ {job}
    /\ failed' = failed \cup {c}
    /\ UNCHANGED <<at, code, successful, session, errors, sent, away, crossed, late>>

\* _keepalive logs in; whether that ends another code's session is the
\* panel's affair.
Keepalive ==
    /\ session' \in {session, "configured"}
    /\ session = "nobody" => session' = "configured"
    /\ UNCHANGED <<at, code, successful, jobs, errors, sent, away, history>>

\* _read_packets
LoginError(c) ==
    /\ c \in errors
    /\ errors' = errors \ {c}
    /\ successful' = FALSE
    /\ UNCHANGED <<at, code, jobs, session, sent, away, history>>

Gives(c) ==
    \/ TooShort(c) \/ Malformed(c) \/ Toggle(c)
    \/ \E given \in Codes : Command(c, given)

Proceeds(c) ==
    AfterLogin(c) \/ WriteLogin(c) \/ WriteFinish(c) \/ WriteSwitch(c) \/ LoginError(c)

Next ==
    \/ \E c \in Commands : Gives(c) \/ Proceeds(c) \/ WriteFails(c)
    \/ Keepalive

Spec == Init /\ [][Next]_vars

-----------------------------------------------------------------------------
(* Properties.                                                             *)

\* The section packet of a command whose code the panel refuses is not sent,
\* unless another command was given in its second and reset the flag, or its
\* login or the error took longer than that, or failed.
RefusedNotSent ==
    \A c \in sent : code[c] = "bad" => c \in crossed \cup late \cup failed

\* A command with a code the panel accepts is sent, unless another one was
\* given in its second, or an error came late: no refusal of one command is
\* taken for another's whose second does not overlap.
AcceptedSent ==
    \A c \in Commands :
        at[c] = "done" /\ code[c] \in {"good", "configured"}
            => c \in sent \cup crossed \/ late # {}

Quiet == jobs = {} /\ \A c \in Commands : at[c] \in {"idle", "done"}

\* When nothing is under way the panel has the configured code's session,
\* whatever was given and refused, unless a write failed or a login was
\* written after what should end it.
RestoredAtRest == Quiet /\ failed = {} /\ late = {} => session = "configured"

\* The panel ignores a section command or a switch for want of a session
\* only while a login that it refused has not been followed by the
\* configured code's.
IgnoredOnlyWhileAway ==
    [][\A c \in Commands :
         session = "nobody" /\ (WriteSwitch(c) \/ (WriteFinish(c) /\ c \in sent))
             => \E d \in away : code[d] = "bad"]_vars
=============================================================================
