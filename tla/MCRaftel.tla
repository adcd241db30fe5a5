------------------------------- MODULE MCRaftel -------------------------------
(* Populations, schedules and fairness under which Raftel is checked.      *)
EXTENDS RaftelInvariant

CONSTANT Crashes   \* the sets of replicas one of which is down from the beginning

ASSUME CrashesAssumption == Crashes \subseteq SUBSET Replica

VARIABLE down      \* the replicas that are down

allvars == <<vars, down>>

Live == Replica \ down
MCInit == Init /\ down \in Crashes

\* The peer event loop of r handles the next message from s.
Deliver(r, s) ==
    \/ ReceiveNewView(r, s)
    \/ ReceiveLdrPrepare(r, s)
    \/ ReceivePrepare(r, s)
    \/ ReceivePreCommit(r, s)
    \/ ReceiveCommit(r, s)

Step(r) == Timeout(r) \/ CatchUp(r) \/ \E s \in Live \ {r} : Deliver(r, s)

\* MsgStart reaches each replica at any time, even after messages of peers.
LateNext == \E r \in Live : Start(r) \/ Step(r)
LateSpec == MCInit /\ [][LateNext /\ UNCHANGED down]_allvars

\* MsgStart reaches every live replica before it handles a message of a peer.
PromptNext ==
    \/ \E r \in Live : Start(r)
    \/ (\A p \in Live : host[p].started) /\ \E r \in Live : Step(r)
PromptSpec == MCInit /\ [][PromptNext /\ UNCHANGED down]_allvars

(***************************************************************************)
(* Timers outlast message delays: one runs out only in a view whose leader *)
(* is down.  This is an assumption on the configured initial timeout: the  *)
(* back-off of the timer goes no further than twice that value (module     *)
(* KVService, TimeoutWithinTwice).                                         *)
(***************************************************************************)
Patient(r) == timeouts' > timeouts => getLeaderOf(host[r].skipped, host[r].view) \in down
PatientNext ==
    \/ \E r \in Live : Start(r)
    \/ (\A p \in Live : host[p].started) /\ \E r \in Live : Step(r) /\ Patient(r)
PatientSpec == MCInit /\ [][PatientNext /\ UNCHANGED down]_allvars

(***************************************************************************)
(* Weak fairness of Start, CatchUp, Deliver and Timeout of every live      *)
(* replica: its client thread handles MsgStart, a running handler ends,    *)
(* the event loop handles what a connection delivers, and a timer that     *)
(* stays armed runs out.  All but CatchUp are written with the guards and  *)
(* the effects of the actions, which only those actions have, to spare TLC *)
(* the evaluation of ENABLED.                                              *)
(***************************************************************************)
CanDeliver(r, s) == r \in Live /\ s \in Live /\ Running(r) /\ net[s][r] # <<>>
CanTimeout(r) ==
    /\ r \in Live /\ Running(r)
    /\ host[r].view > FirstView /\ host[r].view < MaxView /\ timeouts < MaxTimeouts
    /\ getLeaderOf(host[r].skipped, host[r].view) \in down

Fairness ==
    \A r \in Replica :
        /\ <>(r \in down \/ host[r].started)
        /\ WF_vars(CatchUp(r))
        /\ []<>(~CanTimeout(r)) \/ []<><<timeouts' > timeouts /\ host'[r] # host[r]>>_vars
        /\ \A s \in Replica \ {r} :
            []<>(~CanDeliver(r, s)) \/ []<><<Len(net'[s][r]) < Len(net[s][r])>>_vars

FairLateSpec == LateSpec /\ Fairness
FairPatientSpec == PatientSpec /\ Fairness

(***************************************************************************)
(* EveryoneExecutes: every live replica executes as many blocks as it was  *)
(* told to run views (executeComb, timeToStopComb) and stops.              *)
(***************************************************************************)
EveryoneExecutes ==
    \A r \in Replica : <>(r \in down \/ Len(host[r].executed) = MaxViews)
=============================================================================
