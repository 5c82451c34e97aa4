------------------------ MODULE MCSnapshotSystem ------------------------
(* Two builds that share z and the package of x1 and x2, in opposite       *)
(* orders: the lock file of A lists x1, which depends on z, then z; that   *)
(* of B lists x2, another version of x1, then z.                           *)
(* One task reads the repository queue, none the other.                    *)
EXTENDS SnapshotSystem

MCBuild == {"A", "B"}
MCQueue == {"repository", "sbom"}
MCMessage == PipelineMessage
MCQueueOf == [m \in MCMessage |-> IF m[1] = "snapshot" THEN "repository" ELSE "sbom"]
MCPolls == [w \in Worker |-> "repository"]
MCMaxReceives == [repository |-> 2, sbom |-> 1]

MCProject == [A |-> "pA", B |-> "pB"]
MCNode == {"x1", "x2", "z"}
MCChild == [x1 |-> {"z"}, x2 |-> {}, z |-> {}]
MCPackage == [x1 |-> "x", x2 |-> "x", z |-> "z"]
MCVersion == [x1 |-> 1, x2 |-> 2, z |-> 1]
MCRoots == [A |-> {"x1", "z"}, B |-> {"x2", "z"}]
MCRank == [A |-> [z |-> 0, x1 |-> 1, x2 |-> 2], B |-> [x2 |-> 0, z |-> 1, x1 |-> 2]]
MCHasParent == [b \in MCBuild |-> {}]

\* A bound: two reads in all, of both builds or twice of one.
FewReads == receives[SnapshotMsg("A")] + receives[SnapshotMsg("B")] <= 2

\* A bound: what an SBOM holds only matters to scans, which are not run here.
GoodUploads == badSbom = {}
=============================================================================
