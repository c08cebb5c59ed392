----------------------------- MODULE MCDistWait -----------------------------
(***************************************************************************)
(* The builds and environments in which DistWait is checked.               *)
(***************************************************************************)
EXTENDS DistWait

\* One client, main on the host only.
TwoProcs == [procs |-> 2, distEnv |-> FALSE, preSend |-> FALSE, work |-> 3, prompt |-> TRUE]
\* Two clients that send messages to each other.
ThreeProcs == [procs |-> 3, distEnv |-> FALSE, preSend |-> FALSE, work |-> 2, prompt |-> TRUE]
\* The MPI build, main runs on both processes.
BothMains == [procs |-> 2, distEnv |-> TRUE, preSend |-> TRUE, work |-> 2, prompt |-> FALSE]

ThreeModes == {ThreeProcs, BothMains}

\* The host reads its counter while a counted message waits for its dispatch.
LateDispatch == {[TwoProcs EXCEPT !.prompt = FALSE]}
=============================================================================
