------------------------------ MODULE MCRelay -------------------------------
(***************************************************************************)
(* A machine and its hub in four scenarios; a behaviour is one of one of   *)
(* them, chosen at the start.  All have the same requests and connections, *)
(* which the configuration names, and differ in the sizes of the channels  *)
(* and in what may happen; in the first and the third the machine has one  *)
(* offer only, and the second request, for the other one, is never routed. *)
(***************************************************************************)
EXTENDS Relay, TLC

CONSTANTS r1, r2, o1, o2, c1, c2

VARIABLE scenario

OneEach == r1 :> o1 @@ r2 :> o2

(* One request in three chunks, a cancel, and a fault.                     *)
Streams == INSTANCE Relay WITH
    Offers <- {o1}, QueueSize <- 2, EventSize <- 2, MaxChunks <- 2, MaxUpdates <- 0,
    MaxFaults <- 1, MaxStops <- 0

(* Two jobs on one connection with channels of one, a cancel of one of     *)
(* them and a change of backends.                                          *)
Jobs == INSTANCE Relay WITH
    QueueSize <- 1, EventSize <- 1, MaxChunks <- 0, MaxUpdates <- 1, MaxFaults <- 0, MaxStops <- 0

(* A daemon that is stopped, with a fault.                                 *)
Stopping == INSTANCE Relay WITH
    Offers <- {o1}, QueueSize <- 1, EventSize <- 1, MaxChunks <- 1, MaxUpdates <- 0,
    MaxFaults <- 1, MaxStops <- 1

(* Two jobs on a connection that stays.                                    *)
Good == INSTANCE Relay WITH
    Cancels <- {}, QueueSize <- 2, EventSize <- 8, MaxChunks <- 1, MaxUpdates <- 0,
    MaxFaults <- 0, MaxStops <- 0

MCInit ==
    \/ scenario \in {"stream", "stop"} /\ Stopping!Init
    \/ scenario \in {"jobs", "good"} /\ Jobs!Init

MCNext ==
    /\ \/ scenario = "stream" /\ Streams!Next
       \/ scenario = "jobs" /\ Jobs!Next
       \/ scenario = "stop" /\ Stopping!Next
       \/ scenario = "good" /\ Good!Next
       \/ phase = "stopped" /\ UNCHANGED vars
    /\ UNCHANGED scenario

(* The fairness of Relay, in the two scenarios that are about progress.    *)
MCFairSpec ==
    /\ MCInit /\ [][MCNext]_<<scenario, vars>>
    /\ WF_vars(scenario = "stop" /\ Stopping!Broker)
    /\ \A c \in Conns :
        /\ WF_vars(scenario = "stop" /\ Stopping!HubRead(c))
        /\ WF_vars(scenario = "stop" /\ Stopping!EndLoop(c))
        /\ WF_vars(scenario = "good" /\ Good!HubRead(c))
        /\ WF_vars(scenario = "good" /\ Good!EndLoop(c))
    /\ WF_vars(scenario = "stop" /\ Stopping!Serve)
    /\ WF_vars(scenario = "stop" /\ Stopping!heartbeat)
    /\ WF_vars(scenario = "stop" /\ Stopping!Job(r1))
    /\ WF_vars(scenario = "stop" /\ Stopping!Propose(r1))
    /\ WF_vars(scenario = "good" /\ Good!Broker)
    /\ WF_vars(scenario = "good" /\ Good!Serve)
    /\ WF_vars(scenario = "good" /\ Good!heartbeat)
    /\ \A r \in Requests :
        /\ WF_vars(scenario = "good" /\ Good!Job(r))
        /\ WF_vars(scenario = "good" /\ Good!Propose(r))

-----------------------------------------------------------------------------
(* A machine that lost its connection is registered again, or ended with   *)
(* all of its jobs once it was told to stop; on a good connection the      *)
(* receipt of finished work is signed (serveWithReconnect, signProposal).  *)
WorkGoesOn ==
    /\ []<>(scenario = "stop" => Stopping!Back)
    /\ []<>(scenario = "stop" => Stopping!Completed)
    /\ []<>(scenario = "good" => Good!Signed)
=============================================================================
