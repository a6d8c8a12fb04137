---------------------------- MODULE WorkerContract ----------------------------
(***************************************************************************)
(* What a worker promises the scheduler, and all that TaskController       *)
(* assumes of it: a task is absent, queued or being processed; a cancel is *)
(* answered according to that and nothing else; every result is the result *)
(* of a task in processing, which it ends.  A worker may stop at any time. *)
(***************************************************************************)
EXTENDS Sequences

CONSTANTS Task

VARIABLES
    up,         \* FALSE once the worker has stopped
    holds,      \* holds[t]: "absent", "queued" or "processing"
    sent        \* the answers and results sent to the scheduler, oldest first

contract == <<up, holds, sent>>

Report(kind, t) == [kind |-> kind, task |-> t]

Init ==
    /\ up = TRUE
    /\ holds = [t \in Task |-> "absent"]
    /\ sent = <<>>

(* A second delivery of a task the worker holds changes nothing.           *)
Receive(t) ==
    /\ holds[t] = "absent"
    /\ holds' = [holds EXCEPT ![t] = "queued"]
    /\ UNCHANGED <<up, sent>>

(* A queued task is given up; a task in processing only if it is forced.   *)
Cancel(t, force) ==
    LET answer == CASE holds[t] = "absent"                -> "cancelNotFound"
                    [] holds[t] = "processing" /\ ~ force -> "cancelFailed"
                    [] OTHER                              -> "canceled"
    IN  /\ sent' = Append(sent, Report(answer, t))
        /\ holds' = IF answer = "canceled" THEN [holds EXCEPT ![t] = "absent"] ELSE holds
        /\ UNCHANGED up

Start(t) ==
    /\ holds[t] = "queued"
    /\ holds' = [holds EXCEPT ![t] = "processing"]
    /\ UNCHANGED <<up, sent>>

Finish(t) ==
    /\ holds[t] = "processing"
    /\ holds' = [holds EXCEPT ![t] = "absent"]
    /\ sent' = Append(sent, Report("result", t))
    /\ UNCHANGED up

Stop ==
    /\ up' = FALSE
    /\ holds' = [t \in Task |-> "absent"]
    /\ UNCHANGED sent

Next ==
    /\ up
    /\ \/ \E t \in Task : Receive(t) \/ Start(t) \/ Finish(t)
       \/ \E t \in Task, force \in BOOLEAN : Cancel(t, force)
       \/ Stop

Spec == Init /\ [][Next]_contract
=============================================================================
