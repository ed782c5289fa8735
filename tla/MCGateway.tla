----------------------------- MODULE MCGateway -----------------------------
(* Small instances of Gateway. *)
EXTENDS Gateway

CONSTANTS h1, h2, h3, h4, alice

\* Requests are interchangeable, and at AuthGuard they do not meet: one has a
\* token, the others have no cookie.
Senders == sender = [h \in Hits |-> IF h = h1 THEN alice ELSE Nobody]

\* Which of the others is which does not matter: they arrive in one order.
InOrder == \A g, h \in {h2, h3, h4} :
             <<g, h>> \in {<<h2, h3>>, <<h3, h4>>} /\ pc[g] = "idle" => pc[h] = "idle"

MCInit == GatewayInit /\ Senders

MCGatewaySpec == /\ MCInit /\ [][GatewayNext /\ InOrder']_gatewayVars
                 /\ WF_gatewayVars(TimePasses)
                 /\ WF_gatewayVars(\E h \in Hits : SecondCommand(h))

=============================================================================
