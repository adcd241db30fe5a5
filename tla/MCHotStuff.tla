------------------------------ MODULE MCHotStuff ------------------------------
(* Schedules under which HotStuff is checked.                              *)
EXTENDS HotStuff

CONSTANT Crashed   \* replicas that are down from the beginning

ASSUME CrashedAssumption == Crashed \subseteq Replica

Live == Replica \ Crashed

Deliver(r, s) ==
    \/ ReceiveNewView(r, s)
    \/ ReceiveLdrPrepare(r, s)
    \/ ReceivePrepare(r, s)
    \/ ReceivePreCommit(r, s)
    \/ ReceiveCommit(r, s)

(***************************************************************************)
(* A handler that has begun runs to its end before another replica takes   *)
(* its next step.  Nobody sees the difference: a handler only touches its  *)
(* own replica and the ends of its own channels.                           *)
(***************************************************************************)
Resume(r) ==
    \/ StartNewView(r)
    \/ EarlierMessages(r)
    \/ InitiatePrepare(r)
    \/ InitiatePrecommit(r)
    \/ InitiateCommit(r)

Step(r) ==
    \/ Resume(r)
    \/ /\ \A p \in Live : host[p].todo = <<>>
       /\ Timeout(r) \/ \E s \in Live \ {r} : Deliver(r, s)

\* MsgStart reaches every live replica before it handles a message of a peer.
PromptNext ==
    \/ \E r \in Live : Start(r)
    \/ (\A p \in Live : host[p].started) /\ \E r \in Live : Step(r)
PromptSpec == Init /\ [][PromptNext]_vars

(***************************************************************************)
(* NeverStalls: as long as no timer has run out, live replicas that have   *)
(* nothing left to handle have decided a block in every view (executeRData)*)
(* up to the one whose leader is down, or up to numViews.                  *)
(***************************************************************************)
NeverStalls ==
    (/\ timeouts = 0
     /\ \A r \in Live : host[r].started /\ host[r].todo = <<>>
     /\ \A r, s \in Live : net[s][r] = <<>> \/ host[r].stopped)
    => \A r \in Live :
        /\ host[r].stopped \/ getLeaderOf({}, host[r].view) \in Crashed
        /\ Cardinality(host[r].decided) =
              IF host[r].stopped THEN MaxViews ELSE host[r].view
=============================================================================
