------------------------ MODULE MCWebhookIntake ------------------------
(* Two webhooks about one repository and organization, of any kinds, and   *)
(* two installations of the repository.                                    *)
EXTENDS WebhookIntake, TLC

CONSTANTS h1, h2, r, o, i1, i2, w1

MCQueueOf == [m \in Message |-> "webhook"]
MCPolls == [w \in Worker |-> "webhook"]
MCMaxReceives == [q \in Queue |-> 2]
MCRepoOf == [m \in Message |-> r]
MCOrgOf == [m \in Message |-> o]
MCSelected == [i \in Install |-> {r}]
MCSymmetry == Permutations({h1, h2}) \cup Permutations({i1, i2})

\* A bound: reads in all, so that both webhooks are read, or one of them twice.
FewReads == receives[h1] + receives[h2] <= 2
=============================================================================
