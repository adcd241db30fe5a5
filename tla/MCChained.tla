------------------------------- MODULE MCChained -------------------------------
(* Schedules under which ChainedRaftel is checked.                         *)
EXTENDS ChainedRaftel

CONSTANT Impatient   \* bound: the pairs <<replica, view>> whose timer may run out

\* Every timer, or those of the run named by Impatient.
Anyone == Replica \X View
ForkTimers == {<<0, 2>>, <<1, 3>>, <<2, 4>>}

Deliver(r, s) ==
    \/ ReceiveNewView(r, s)
    \/ ReceiveLdrPrepare(r, s)
    \/ ReceivePrepare(r, s)

(***************************************************************************)
(* A handler that has begun runs to its end before another replica takes   *)
(* its next step.  Nobody sees the difference: a handler only touches its  *)
(* own replica and the ends of its own channels.                           *)
(***************************************************************************)
Step(r) ==
    \/ Vote(r)
    \/ /\ \A p \in Replica : host[p].pending = <<>>
       /\ \/ <<r, host[r].view>> \in Impatient /\ Timeout(r)
          \/ \E s \in Replica \ {r} : Deliver(r, s)

\* MsgStart reaches each replica at any time, even after messages of peers.
LateNext == \E r \in Replica : Start(r) \/ Step(r)
LateSpec == Init /\ [][LateNext]_vars

\* MsgStart reaches every replica before it handles a message of a peer.
PromptNext ==
    \/ \E r \in Replica : Start(r)
    \/ (\A p \in Replica : host[p].started) /\ \E r \in Replica : Step(r)
PromptSpec == Init /\ [][PromptNext]_vars
=============================================================================
