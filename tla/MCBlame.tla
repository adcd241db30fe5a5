-------------------------------- MODULE MCBlame --------------------------------
(***************************************************************************)
(* A schedule that reaches the views in which replicas disagree on the     *)
(* leader.  Leaders are blamed from view 2 on and a blamed leader is       *)
(* passed over when its turn comes again, so that happens in view          *)
(* total + 2 at the earliest.  A replica that has yet to enter view        *)
(* FreeFrom handles its messages first and in one fixed order; the others  *)
(* handle theirs in any order.  Timers run out at any time.                *)
(***************************************************************************)
EXTENDS MCRaftel

CONSTANT FreeFrom   \* bound: the view from which the order of messages is free

ASSUME FreeFromAssumption == FreeFrom \in Nat

Before(a, b) == a[1] < b[1] \/ (a[1] = b[1] /\ a[2] < b[2])
Behind == {<<r, s>> \in Live \X Live : CanDeliver(r, s) /\ host[r].view < FreeFrom}
OneAtATime(r, s) ==
    /\ Behind # {} => <<r, s>> \in Behind
    /\ \A b \in Behind : ~Before(b, <<r, s>>)

BlameNext ==
    \/ \E r \in Live :
        /\ \A p \in Live : p < r => host[p].started
        /\ Start(r)
    \/ /\ \A p \in Live : host[p].started
       /\ \E r \in Live : Timeout(r) \/ CatchUp(r)
    \/ /\ \A p \in Live : host[p].started /\ ~host[p].catchup
       /\ \E r, s \in Live : r # s /\ OneAtATime(r, s) /\ Deliver(r, s)
BlameSpec == MCInit /\ [][BlameNext /\ UNCHANGED down]_allvars
=============================================================================
