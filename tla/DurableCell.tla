---------------------------- MODULE DurableCell ----------------------------
(***************************************************************************)
(* What the file-backed store promises: a memory that changes freely, a    *)
(* disk that holds one complete value, and a way from the first to the     *)
(* second through one copy at a time.  A copy may be abandoned; the disk   *)
(* never takes anything but the last copy, and a new process starts from   *)
(* what the disk holds.                                                    *)
(***************************************************************************)
CONSTANT Data,     \* the values a dictionary may have
         NoData    \* the empty dictionary

VARIABLES mem, disk, copy

Init == mem = NoData /\ disk = NoData /\ copy = NoData

Change  == mem' \in Data /\ UNCHANGED <<disk, copy>>
Capture == copy' = mem /\ UNCHANGED <<mem, disk>>
Commit  == disk' = copy /\ UNCHANGED <<mem, copy>>
Abandon == copy' = disk /\ UNCHANGED <<mem, disk>>
Recover == mem' = disk /\ UNCHANGED <<disk, copy>>

Next == Change \/ Capture \/ Commit \/ Abandon \/ Recover

Spec == Init /\ [][Next]_<<mem, disk, copy>>
=============================================================================
