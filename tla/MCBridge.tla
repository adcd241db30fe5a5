------------------------------- MODULE MCBridge -------------------------------
(* Inputs for one component behind its bridge: two first blocks, one of which *)
(* can be extended.                                                           *)
EXTENDS EnclaveBridge

MCViews == {1, 2}
A == <<<<0, 1>>>>
B == <<<<3, 1>>>>

MCBlocks == {[prev |-> newHash, hash |-> A], [prev |-> newHash, hash |-> B],
             [prev |-> A, hash |-> Append(A, <<0, 2>>)]}

\* Signers 0 and 1 hold a TEE, 2 and 3 do not.
MCNewView(v, p, h, u) ==
    [data |-> [proph |-> noHash, propv |-> v, justh |-> h, justv |-> u, phase |-> PH1_NEWVIEW],
     signer |-> p]

MCReports == {<<newHash, 0>>, <<A, 1>>}

MCProofs ==
    {{MCNewView(v, 0, a[1], a[2]), MCNewView(v, 1, newHash, 0)} : v \in MCViews, a \in MCReports}
    \cup {{MCNewView(v, p, a[1], a[2]) : p \in {1, 2, 3}} : v \in MCViews, a \in MCReports}
    \cup {{MCNewView(1, p, newHash, 0) : p \in {2, 3}}}

\* TEE replica 0 accumulates TEE quorums, replica 3 classical ones.
MCAccums == {[view |-> v, prepv |-> a[2], hash |-> a[1], size |-> s[1], signer |-> s[2]] :
                v \in MCViews, a \in MCReports, s \in {<<tqsize, 0>>, <<qsize, 3>>}}

MCJusts == {[data |-> [proph |-> h, propv |-> v, justh |-> newHash, justv |-> 0, phase |-> ph],
             signers |-> S] :
                h \in {A, B}, v \in MCViews, ph \in {PH1_PREPARE, PH1_PRECOMMIT, PH1_COMMIT},
                S \in {{0, 1}, {2, 3}, {1, 2, 3}}}

\* The thread of the peers' messages alone, making every ECALL there is.
MCPeer == {"peer"}
MCEveryCall == [t \in {"peer"} |-> ECallName]

\* The thread of the clients' messages beside it: MsgStart makes it sign a new-view.
MCPeerAndClient == {"peer", "client"}
MCStartCalls == [t \in {"peer", "client"} |->
                    IF t = "client" THEN {"COMB_TEEsign"}
                    ELSE {"COMB_TEEprepare"}]

\* ocall_print and u_sgxssl_ftime stand for the others.
MCOCalls == {1, 6}
=============================================================================
