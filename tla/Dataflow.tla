------------------------------ MODULE Dataflow ------------------------------
(***************************************************************************)
(* What a CnC graph promises, without threads, queues or replay: a step    *)
(* that is prescribed and whose input items are all available is executed  *)
(* once; items and tags appear only on behalf of such a step or of the     *)
(* environment; context::wait returns only when no step can be executed.   *)
(***************************************************************************)
CONSTANTS
    Steps, Items,
    Reads,         \* Reads[s]: the items s gets
    Writes,        \* Writes[s]: the items s puts
    Prescribes,    \* Prescribes[s]: the steps whose tags s puts
    EnvWrites,     \* what the environment puts
    EnvPrescribes

VARIABLES
    prescribed,    \* the steps whose tag has been put
    available,     \* the items that have been put
    done,          \* the steps that have been executed
    quiet          \* the environment has come out of a wait

vars == <<prescribed, available, done, quiet>>

Init == prescribed = {} /\ available = {} /\ done = {} /\ quiet = FALSE

Ready(s) == s \in prescribed \ done /\ Reads[s] \subseteq available

Prescribe(s) ==
    /\ s \notin prescribed
    /\ s \in EnvPrescribes \/ \E p \in Steps : Ready(p) /\ s \in Prescribes[p]
    /\ prescribed' = prescribed \cup {s}
    /\ quiet' = FALSE
    /\ UNCHANGED <<available, done>>

Put(i) ==
    /\ i \notin available
    /\ i \in EnvWrites \/ \E p \in Steps : Ready(p) /\ i \in Writes[p]
    /\ available' = available \cup {i}
    /\ quiet' = FALSE
    /\ UNCHANGED <<prescribed, done>>

Finish(s) ==
    /\ Ready(s)
    /\ Writes[s] \subseteq available
    /\ Prescribes[s] \subseteq prescribed
    /\ done' = done \cup {s}
    /\ UNCHANGED <<prescribed, available, quiet>>

WaitReturns ==
    /\ \A s \in Steps : ~Ready(s)
    /\ quiet' = TRUE
    /\ UNCHANGED <<prescribed, available, done>>

\* The environment goes on with something that changes nothing here.
Proceed == quiet /\ quiet' = FALSE /\ UNCHANGED <<prescribed, available, done>>

Next ==
    \/ \E s \in Steps : Prescribe(s) \/ Finish(s)
    \/ \E i \in Items : Put(i)
    \/ WaitReturns \/ Proceed

Spec == Init /\ [][Next]_vars

\* A step that is ready stays so until it is done: in the end none is.
ReadyStepsFinish == <>[](\A s \in Steps : ~Ready(s))
=============================================================================
