------------------------ MODULE MCBuildPipeline ------------------------
(* One build; a snapshot or a scan whose delivery repeats overlaps with    *)
(* the job the timer gave up on.  The task s1 reads the SBOM queue, w1 the *)
(* repository queue.                                                       *)
EXTENDS BuildPipeline

CONSTANTS b, w1, s1

MCQueue == {"repository", "sbom"}
MCMessage == PipelineMessage
MCQueueOf == [m \in MCMessage |-> IF m[1] = "snapshot" THEN "repository" ELSE "sbom"]
MCPolls == [w \in Worker |-> IF w = w1 THEN "repository" ELSE "sbom"]
MCSnapshotsRepeat == [repository |-> 2, sbom |-> 1]
MCScansRepeat == [repository |-> 1, sbom |-> 2]

\* A bound: scan jobs overlap when they were read together, not when the timer
\* gave up on one of them.
NoLateScan == late[s1] = {}
=============================================================================
