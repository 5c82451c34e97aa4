---------------------- MODULE MCPullRequestReview ----------------------
(* Two builds of one pull request, the first scanned twice, and a build of *)
(* another pull request.                                                   *)
EXTENDS PullRequestReview, TLC

CONSTANTS p, q, j1, again1, j2, j3

MCPrOf == 1 :> p @@ 2 :> p @@ 3 :> q
MCBuildOf == [j \in Job |-> CASE j = j2 -> 2 [] j = j3 -> 3 [] OTHER -> 1]
=============================================================================
