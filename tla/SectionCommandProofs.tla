------------------------- MODULE SectionCommandProofs -------------------------
(***************************************************************************)
(* Proofs about SectionCommand, for any number of commands.                *)
(*                                                                         *)
(* What makes the safety properties inductive: the answer to a login is    *)
(* under way only while its command waits, or is late; two commands that   *)
(* wait have crossed; so while a command waits and has not been crossed,   *)
(* the flag can only tell of its own login.  And whoever took the panel's  *)
(* session away is still to give it back.                                  *)
(***************************************************************************)
EXTENDS SectionCommand, TLAPS

Waits(c) == at[c] \in Waiting

Unanswered(c) == Login(c) \in jobs \/ c \in errors

\* A command that was not given has no code; one whose packet was sent is done.
Order ==
    \A c \in Commands :
        /\ at[c] = "idle" => code[c] = "none"
        /\ c \in sent => at[c] = "done"
        /\ c \in away => code[c] \in {"good", "bad"}

AnswersAreAwaited == \A c \in Commands : Unanswered(c) => Waits(c) \/ c \in late

WaitersCross ==
    \A c, d \in Commands : c # d /\ Waits(c) /\ Waits(d) => c \in crossed

FlagTellsRefusal ==
    \A c \in Commands :
        Waits(c) /\ code[c] = "bad" /\ c \notin crossed /\ c \notin failed
            => Unanswered(c) \/ ~successful

FlagTellsAcceptance ==
    \A c \in Commands :
        Waits(c) /\ code[c] \in {"good", "configured"} /\ c \notin crossed /\ late = {}
            => successful

SessionComesBack ==
    failed = {} /\ late = {} /\ session # "configured"
        => \E c \in away : Waits(c) \/ Finish(c) \in jobs

NobodyAfterRefusal == session = "nobody" => \E c \in away : code[c] = "bad"

Flag == FlagTellsRefusal /\ FlagTellsAcceptance

Inv ==
    /\ TypeOK /\ Order
    /\ AnswersAreAwaited /\ WaitersCross /\ Flag
    /\ RefusedNotSent /\ AcceptedSent
    /\ SessionComesBack /\ NobodyAfterRefusal

LEMMA InvInit == Init => Inv
BY DEF Init, Inv, TypeOK, Order, AnswersAreAwaited, WaitersCross, Flag, FlagTellsRefusal,
       FlagTellsAcceptance, RefusedNotSent, AcceptedSent, SessionComesBack, NobodyAfterRefusal,
       Waits, Waiting, Unanswered, Login, Finish, Jobs, Codes

\* The type invariant is preserved.
LEMMA TypeOKStep ==
    ASSUME TypeOK, Order, [Next]_vars
    PROVE  TypeOK'
<1> USE DEF TypeOK, Order, Jobs, Codes, Waits, Waiting, Unanswered, Login, Finish, history
<1>1. ASSUME NEW c \in Commands, TooShort(c) PROVE TypeOK'
  BY <1>1 DEF TooShort, Give
<1>2. ASSUME NEW c \in Commands, Malformed(c) PROVE TypeOK'
  BY <1>2 DEF Malformed, Give, Cross, Others
<1>3. ASSUME NEW c \in Commands, Toggle(c) PROVE TypeOK'
  BY <1>3 DEF Toggle, Give, Switch
<1>4. ASSUME NEW c \in Commands, NEW given \in Codes, Command(c, given) PROVE TypeOK'
  BY <1>4 DEF Command, Give, Cross, Others
<1>5. ASSUME NEW c \in Commands, AfterLogin(c) PROVE TypeOK'
  BY <1>5 DEF AfterLogin
<1>6. ASSUME NEW c \in Commands, WriteLogin(c) PROVE TypeOK'
  BY <1>6 DEF WriteLogin
<1>7. ASSUME NEW c \in Commands, WriteFinish(c) PROVE TypeOK'
  BY <1>7 DEF WriteFinish
<1>8. ASSUME NEW c \in Commands, WriteSwitch(c) PROVE TypeOK'
  BY <1>8 DEF WriteSwitch, Switch
<1>9. ASSUME NEW c \in Commands, LoginError(c) PROVE TypeOK'
  BY <1>9 DEF LoginError
<1>10. ASSUME NEW c \in Commands, WriteFails(c) PROVE TypeOK'
  BY <1>10 DEF WriteFails, Switch
<1>11. CASE Keepalive
  BY <1>11 DEF Keepalive
<1>12. CASE UNCHANGED vars
  BY <1>12 DEF vars
<1> QED
  BY <1>1, <1>2, <1>3, <1>4, <1>5, <1>6, <1>7, <1>8, <1>9, <1>10, <1>11, <1>12 DEF Next, Gives, Proceeds

\* A command is given once, and its packets follow.
LEMMA OrderStep ==
    ASSUME TypeOK, Order, [Next]_vars
    PROVE  Order'
<1> USE DEF TypeOK, Order, Jobs, Codes, Waits, Waiting, Unanswered, Login, Finish, history
<1>1. ASSUME NEW c \in Commands, TooShort(c) PROVE Order'
  BY <1>1 DEF TooShort, Give
<1>2. ASSUME NEW c \in Commands, Malformed(c) PROVE Order'
  BY <1>2 DEF Malformed, Give, Cross, Others
<1>3. ASSUME NEW c \in Commands, Toggle(c) PROVE Order'
  BY <1>3 DEF Toggle, Give, Switch
<1>4. ASSUME NEW c \in Commands, NEW given \in Codes, Command(c, given) PROVE Order'
  BY <1>4 DEF Command, Give, Cross, Others
<1>5. ASSUME NEW c \in Commands, AfterLogin(c) PROVE Order'
  BY <1>5 DEF AfterLogin
<1>6. ASSUME NEW c \in Commands, WriteLogin(c) PROVE Order'
  BY <1>6 DEF WriteLogin
<1>7. ASSUME NEW c \in Commands, WriteFinish(c) PROVE Order'
  BY <1>7 DEF WriteFinish
<1>8. ASSUME NEW c \in Commands, WriteSwitch(c) PROVE Order'
  BY <1>8 DEF WriteSwitch, Switch
<1>9. ASSUME NEW c \in Commands, LoginError(c) PROVE Order'
  BY <1>9 DEF LoginError
<1>10. ASSUME NEW c \in Commands, WriteFails(c) PROVE Order'
  BY <1>10 DEF WriteFails, Switch
<1>11. CASE Keepalive
  BY <1>11 DEF Keepalive
<1>12. CASE UNCHANGED vars
  BY <1>12 DEF vars
<1> QED
  BY <1>1, <1>2, <1>3, <1>4, <1>5, <1>6, <1>7, <1>8, <1>9, <1>10, <1>11, <1>12 DEF Next, Gives, Proceeds

\* A command that is done leaves no answer behind, unless it is late.
LEMMA AnswersStep ==
    ASSUME TypeOK, Order, AnswersAreAwaited, [Next]_vars
    PROVE  AnswersAreAwaited'
<1> USE DEF TypeOK, Order, AnswersAreAwaited, Codes, Waits, Waiting, Unanswered, Login, Finish, history
<1>1. ASSUME NEW c \in Commands, TooShort(c) PROVE AnswersAreAwaited'
  BY <1>1 DEF TooShort, Give
<1>2. ASSUME NEW c \in Commands, Malformed(c) PROVE AnswersAreAwaited'
  BY <1>2 DEF Malformed, Give, Cross, Others
<1>3. ASSUME NEW c \in Commands, Toggle(c) PROVE AnswersAreAwaited'
  BY <1>3 DEF Toggle, Give, Switch
<1>4. ASSUME NEW c \in Commands, NEW given \in Codes, Command(c, given) PROVE AnswersAreAwaited'
  BY <1>4 DEF Command, Give, Cross, Others
<1>5. ASSUME NEW c \in Commands, AfterLogin(c) PROVE AnswersAreAwaited'
  BY <1>5 DEF AfterLogin
<1>6. ASSUME NEW c \in Commands, WriteLogin(c) PROVE AnswersAreAwaited'
  BY <1>6 DEF WriteLogin
<1>7. ASSUME NEW c \in Commands, WriteFinish(c) PROVE AnswersAreAwaited'
  BY <1>7 DEF WriteFinish
<1>8. ASSUME NEW c \in Commands, WriteSwitch(c) PROVE AnswersAreAwaited'
  BY <1>8 DEF WriteSwitch, Switch
<1>9. ASSUME NEW c \in Commands, LoginError(c) PROVE AnswersAreAwaited'
  BY <1>9 DEF LoginError
<1>10. ASSUME NEW c \in Commands, WriteFails(c) PROVE AnswersAreAwaited'
  BY <1>10 DEF WriteFails, Switch
<1>11. CASE Keepalive
  BY <1>11 DEF Keepalive
<1>12. CASE UNCHANGED vars
  BY <1>12 DEF vars
<1> QED
  BY <1>1, <1>2, <1>3, <1>4, <1>5, <1>6, <1>7, <1>8, <1>9, <1>10, <1>11, <1>12 DEF Next, Gives, Proceeds

\* Whoever is given while another waits has crossed it, and it the other.
LEMMA CrossStep ==
    ASSUME TypeOK, WaitersCross, [Next]_vars
    PROVE  WaitersCross'
<1> USE DEF TypeOK, WaitersCross, Codes, Waits, Waiting, Unanswered, Login, Finish, history
<1>1. ASSUME NEW c \in Commands, TooShort(c) PROVE WaitersCross'
  BY <1>1 DEF TooShort, Give
<1>2. ASSUME NEW c \in Commands, Malformed(c) PROVE WaitersCross'
  BY <1>2 DEF Malformed, Give, Cross, Others
<1>3. ASSUME NEW c \in Commands, Toggle(c) PROVE WaitersCross'
  BY <1>3 DEF Toggle, Give, Switch
<1>4. ASSUME NEW c \in Commands, NEW given \in Codes, Command(c, given) PROVE WaitersCross'
  BY <1>4 DEF Command, Give, Cross, Others
<1>5. ASSUME NEW c \in Commands, AfterLogin(c) PROVE WaitersCross'
  BY <1>5 DEF AfterLogin
<1>6. ASSUME NEW c \in Commands, WriteLogin(c) PROVE WaitersCross'
  BY <1>6 DEF WriteLogin
<1>7. ASSUME NEW c \in Commands, WriteFinish(c) PROVE WaitersCross'
  BY <1>7 DEF WriteFinish
<1>8. ASSUME NEW c \in Commands, WriteSwitch(c) PROVE WaitersCross'
  BY <1>8 DEF WriteSwitch, Switch
<1>9. ASSUME NEW c \in Commands, LoginError(c) PROVE WaitersCross'
  BY <1>9 DEF LoginError
<1>10. ASSUME NEW c \in Commands, WriteFails(c) PROVE WaitersCross'
  BY <1>10 DEF WriteFails, Switch
<1>11. CASE Keepalive
  BY <1>11 DEF Keepalive
<1>12. CASE UNCHANGED vars
  BY <1>12 DEF vars
<1> QED
  BY <1>1, <1>2, <1>3, <1>4, <1>5, <1>6, <1>7, <1>8, <1>9, <1>10, <1>11, <1>12 DEF Next, Gives, Proceeds

\* The flag tells of the one command that waits.
LEMMA FlagStep ==
    ASSUME TypeOK, Order, AnswersAreAwaited, WaitersCross, Flag, [Next]_vars
    PROVE  Flag'
<1> USE DEF TypeOK, Order, AnswersAreAwaited, WaitersCross, Flag, FlagTellsRefusal, FlagTellsAcceptance, Codes, Waits, Waiting, Unanswered, Login, Finish, history
<1>1. ASSUME NEW c \in Commands, TooShort(c) PROVE Flag'
  BY <1>1 DEF TooShort, Give
<1>2. ASSUME NEW c \in Commands, Malformed(c) PROVE Flag'
  BY <1>2 DEF Malformed, Give, Cross, Others
<1>3. ASSUME NEW c \in Commands, Toggle(c) PROVE Flag'
  BY <1>3 DEF Toggle, Give, Switch
<1>4. ASSUME NEW c \in Commands, NEW given \in Codes, Command(c, given) PROVE Flag'
  BY <1>4 DEF Command, Give, Cross, Others
<1>5. ASSUME NEW c \in Commands, AfterLogin(c) PROVE Flag'
  BY <1>5 DEF AfterLogin
<1>6. ASSUME NEW c \in Commands, WriteLogin(c) PROVE Flag'
  BY <1>6 DEF WriteLogin
<1>7. ASSUME NEW c \in Commands, WriteFinish(c) PROVE Flag'
  BY <1>7 DEF WriteFinish
<1>8. ASSUME NEW c \in Commands, WriteSwitch(c) PROVE Flag'
  BY <1>8 DEF WriteSwitch, Switch
<1>9. ASSUME NEW c \in Commands, LoginError(c) PROVE Flag'
  BY <1>9 DEF LoginError
<1>10. ASSUME NEW c \in Commands, WriteFails(c) PROVE Flag'
  BY <1>10 DEF WriteFails, Switch
<1>11. CASE Keepalive
  BY <1>11 DEF Keepalive
<1>12. CASE UNCHANGED vars
  BY <1>12 DEF vars
<1> QED
  BY <1>1, <1>2, <1>3, <1>4, <1>5, <1>6, <1>7, <1>8, <1>9, <1>10, <1>11, <1>12 DEF Next, Gives, Proceeds

\* A refused command is found refused when its second ends.
LEMMA RefusedStep ==
    ASSUME TypeOK, Order, Flag, RefusedNotSent, [Next]_vars
    PROVE  RefusedNotSent'
<1> USE DEF TypeOK, Order, Flag, RefusedNotSent, FlagTellsRefusal, Codes, Waits, Waiting, Unanswered, Login, Finish, history
<1>1. ASSUME NEW c \in Commands, TooShort(c) PROVE RefusedNotSent'
  BY <1>1 DEF TooShort, Give
<1>2. ASSUME NEW c \in Commands, Malformed(c) PROVE RefusedNotSent'
  BY <1>2 DEF Malformed, Give, Cross, Others
<1>3. ASSUME NEW c \in Commands, Toggle(c) PROVE RefusedNotSent'
  BY <1>3 DEF Toggle, Give, Switch
<1>4. ASSUME NEW c \in Commands, NEW given \in Codes, Command(c, given) PROVE RefusedNotSent'
  BY <1>4 DEF Command, Give, Cross, Others
<1>5. ASSUME NEW c \in Commands, AfterLogin(c) PROVE RefusedNotSent'
  BY <1>5 DEF AfterLogin
<1>6. ASSUME NEW c \in Commands, WriteLogin(c) PROVE RefusedNotSent'
  BY <1>6 DEF WriteLogin
<1>7. ASSUME NEW c \in Commands, WriteFinish(c) PROVE RefusedNotSent'
  BY <1>7 DEF WriteFinish
<1>8. ASSUME NEW c \in Commands, WriteSwitch(c) PROVE RefusedNotSent'
  BY <1>8 DEF WriteSwitch, Switch
<1>9. ASSUME NEW c \in Commands, LoginError(c) PROVE RefusedNotSent'
  BY <1>9 DEF LoginError
<1>10. ASSUME NEW c \in Commands, WriteFails(c) PROVE RefusedNotSent'
  BY <1>10 DEF WriteFails, Switch
<1>11. CASE Keepalive
  BY <1>11 DEF Keepalive
<1>12. CASE UNCHANGED vars
  BY <1>12 DEF vars
<1> QED
  BY <1>1, <1>2, <1>3, <1>4, <1>5, <1>6, <1>7, <1>8, <1>9, <1>10, <1>11, <1>12 DEF Next, Gives, Proceeds

\* An accepted command is not found refused.
LEMMA AcceptedStep ==
    ASSUME TypeOK, Order, Flag, AcceptedSent, [Next]_vars
    PROVE  AcceptedSent'
<1> USE DEF TypeOK, Order, Flag, AcceptedSent, FlagTellsAcceptance, Codes, Waits, Waiting, Unanswered, Login, Finish, history
<1>1. ASSUME NEW c \in Commands, TooShort(c) PROVE AcceptedSent'
  BY <1>1 DEF TooShort, Give
<1>2. ASSUME NEW c \in Commands, Malformed(c) PROVE AcceptedSent'
  BY <1>2 DEF Malformed, Give, Cross, Others
<1>3. ASSUME NEW c \in Commands, Toggle(c) PROVE AcceptedSent'
  BY <1>3 DEF Toggle, Give, Switch
<1>4. ASSUME NEW c \in Commands, NEW given \in Codes, Command(c, given) PROVE AcceptedSent'
  BY <1>4 DEF Command, Give, Cross, Others
<1>5. ASSUME NEW c \in Commands, AfterLogin(c) PROVE AcceptedSent'
  BY <1>5 DEF AfterLogin
<1>6. ASSUME NEW c \in Commands, WriteLogin(c) PROVE AcceptedSent'
  BY <1>6 DEF WriteLogin
<1>7. ASSUME NEW c \in Commands, WriteFinish(c) PROVE AcceptedSent'
  BY <1>7 DEF WriteFinish
<1>8. ASSUME NEW c \in Commands, WriteSwitch(c) PROVE AcceptedSent'
  BY <1>8 DEF WriteSwitch, Switch
<1>9. ASSUME NEW c \in Commands, LoginError(c) PROVE AcceptedSent'
  BY <1>9 DEF LoginError
<1>10. ASSUME NEW c \in Commands, WriteFails(c) PROVE AcceptedSent'
  BY <1>10 DEF WriteFails, Switch
<1>11. CASE Keepalive
  BY <1>11 DEF Keepalive
<1>12. CASE UNCHANGED vars
  BY <1>12 DEF vars
<1> QED
  BY <1>1, <1>2, <1>3, <1>4, <1>5, <1>6, <1>7, <1>8, <1>9, <1>10, <1>11, <1>12 DEF Next, Gives, Proceeds

\* Whoever takes the session away gives it back.
LEMMA SessionStep ==
    ASSUME TypeOK, Order, AnswersAreAwaited, SessionComesBack, [Next]_vars
    PROVE  SessionComesBack'
<1> USE DEF TypeOK, Order, AnswersAreAwaited, SessionComesBack, Codes, Waits, Waiting, Unanswered, Login, Finish, history
<1>1. ASSUME NEW c \in Commands, TooShort(c) PROVE SessionComesBack'
  BY <1>1 DEF TooShort, Give
<1>2. ASSUME NEW c \in Commands, Malformed(c) PROVE SessionComesBack'
  BY <1>2 DEF Malformed, Give, Cross, Others
<1>3. ASSUME NEW c \in Commands, Toggle(c) PROVE SessionComesBack'
  BY <1>3 DEF Toggle, Give, Switch
<1>4. ASSUME NEW c \in Commands, NEW given \in Codes, Command(c, given) PROVE SessionComesBack'
  BY <1>4 DEF Command, Give, Cross, Others
<1>5. ASSUME NEW c \in Commands, AfterLogin(c) PROVE SessionComesBack'
  BY <1>5 DEF AfterLogin
<1>6. ASSUME NEW c \in Commands, WriteLogin(c) PROVE SessionComesBack'
  BY <1>6 DEF WriteLogin
<1>7. ASSUME NEW c \in Commands, WriteFinish(c) PROVE SessionComesBack'
  BY <1>7 DEF WriteFinish
<1>8. ASSUME NEW c \in Commands, WriteSwitch(c) PROVE SessionComesBack'
  BY <1>8 DEF WriteSwitch, Switch
<1>9. ASSUME NEW c \in Commands, LoginError(c) PROVE SessionComesBack'
  BY <1>9 DEF LoginError
<1>10. ASSUME NEW c \in Commands, WriteFails(c) PROVE SessionComesBack'
  BY <1>10 DEF WriteFails, Switch
<1>11. CASE Keepalive
  BY <1>11 DEF Keepalive
<1>12. CASE UNCHANGED vars
  BY <1>12 DEF vars
<1> QED
  BY <1>1, <1>2, <1>3, <1>4, <1>5, <1>6, <1>7, <1>8, <1>9, <1>10, <1>11, <1>12 DEF Next, Gives, Proceeds

\* Only a refused login leaves the panel without a session.
LEMMA NobodyStep ==
    ASSUME TypeOK, Order, NobodyAfterRefusal, [Next]_vars
    PROVE  NobodyAfterRefusal'
<1> USE DEF TypeOK, Order, NobodyAfterRefusal, Codes, Waits, Waiting, Unanswered, Login, Finish, history
<1>1. ASSUME NEW c \in Commands, TooShort(c) PROVE NobodyAfterRefusal'
  BY <1>1 DEF TooShort, Give
<1>2. ASSUME NEW c \in Commands, Malformed(c) PROVE NobodyAfterRefusal'
  BY <1>2 DEF Malformed, Give, Cross, Others
<1>3. ASSUME NEW c \in Commands, Toggle(c) PROVE NobodyAfterRefusal'
  BY <1>3 DEF Toggle, Give, Switch
<1>4. ASSUME NEW c \in Commands, NEW given \in Codes, Command(c, given) PROVE NobodyAfterRefusal'
  BY <1>4 DEF Command, Give, Cross, Others
<1>5. ASSUME NEW c \in Commands, AfterLogin(c) PROVE NobodyAfterRefusal'
  BY <1>5 DEF AfterLogin
<1>6. ASSUME NEW c \in Commands, WriteLogin(c) PROVE NobodyAfterRefusal'
  BY <1>6 DEF WriteLogin
<1>7. ASSUME NEW c \in Commands, WriteFinish(c) PROVE NobodyAfterRefusal'
  BY <1>7 DEF WriteFinish
<1>8. ASSUME NEW c \in Commands, WriteSwitch(c) PROVE NobodyAfterRefusal'
  BY <1>8 DEF WriteSwitch, Switch
<1>9. ASSUME NEW c \in Commands, LoginError(c) PROVE NobodyAfterRefusal'
  BY <1>9 DEF LoginError
<1>10. ASSUME NEW c \in Commands, WriteFails(c) PROVE NobodyAfterRefusal'
  BY <1>10 DEF WriteFails, Switch
<1>11. CASE Keepalive
  BY <1>11 DEF Keepalive
<1>12. CASE UNCHANGED vars
  BY <1>12 DEF vars
<1> QED
  BY <1>1, <1>2, <1>3, <1>4, <1>5, <1>6, <1>7, <1>8, <1>9, <1>10, <1>11, <1>12 DEF Next, Gives, Proceeds

LEMMA InvStep == Inv /\ [Next]_vars => Inv'
BY TypeOKStep, OrderStep, AnswersStep, CrossStep, FlagStep, RefusedStep, AcceptedStep,
   SessionStep, NobodyStep DEF Inv

\* The invariant, from which the rest follows.
THEOREM Invariant == Spec => []Inv
BY InvInit, InvStep, PTL DEF Spec

\* Types, and that logins and their errors belong to commands with a code of
\* their own, and what ends them to commands that are done.
THEOREM TypeCorrect == Spec => []TypeOK
<1>1. Inv => TypeOK  BY DEF Inv
<1> QED  BY <1>1, Invariant, PTL

\* A command whose code the panel refuses is not sent, unless it was crossed,
\* late or its login not written.
THEOREM RefusedIsNotSent == Spec => []RefusedNotSent
<1>1. Inv => RefusedNotSent  BY DEF Inv
<1> QED  BY <1>1, Invariant, PTL

\* A command whose code the panel accepts is sent, unless it was crossed or
\* some answer was late.
THEOREM AcceptedIsSent == Spec => []AcceptedSent
<1>1. Inv => AcceptedSent  BY DEF Inv
<1> QED  BY <1>1, Invariant, PTL

\* At rest the configured code has the session again.
THEOREM SessionIsRestored == Spec => []RestoredAtRest
<1>1. Inv => RestoredAtRest
  BY DEF Inv, TypeOK, SessionComesBack, RestoredAtRest, Quiet, Waits, Waiting
<1> QED  BY <1>1, Invariant, PTL

\* The panel ignores commands only between a refused login and its follow-up.
THEOREM IgnoredWhileAway == Spec => IgnoredOnlyWhileAway
<1>1. Inv => \A c \in Commands :
         session = "nobody" /\ (WriteSwitch(c) \/ (WriteFinish(c) /\ c \in sent))
             => \E d \in away : code[d] = "bad"
  BY DEF Inv, NobodyAfterRefusal
<1> QED  BY <1>1, Invariant, PTL DEF IgnoredOnlyWhileAway
=============================================================================
