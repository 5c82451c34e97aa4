--------------------- MODULE MCDependencyGraphStore ---------------------
(***************************************************************************)
(* Two builds of a project share z, and use two versions of the packages x *)
(* and y, which they list in opposite orders.  Build A, which takes two    *)
(* slices, is delivered twice.                                             *)
(***************************************************************************)
EXTENDS DependencyGraphStore, Sequences, SequencesExt

MCBuild == {"A", "B"}
MCJob == {"a1", "a2", "b1"}
MCBuildOf == [j \in Job |-> IF j = "b1" THEN "B" ELSE "A"]
MCProject == [b \in MCBuild |-> "p"]
MCNode == {"rA", "x1", "y1", "x2", "y2", "z"}
MCPackage == [rA |-> "r", x1 |-> "x", x2 |-> "x", y1 |-> "y", y2 |-> "y", z |-> "z"]
MCVersion == [rA |-> 1, x1 |-> 1, x2 |-> 2, y1 |-> 1, y2 |-> 2, z |-> 1]

\* Object.values(dependencies) of each package, and of each build's lock file.
Kids == [rA |-> <<"x1", "y1">>, x1 |-> <<"z">>, x2 |-> <<"z">>,
         y1 |-> <<>>, y2 |-> <<>>, z |-> <<>>]
RootList == [A |-> <<"rA", "x1", "y1">>, B |-> <<"y2", "x2">>]

MCChild == [n \in MCNode |-> ToSet(Kids[n])]
MCRoots == [b \in MCBuild |-> ToSet(RootList[b])]

\* recursePackageGraph: the visits of a tree, children first, with the parent.
RECURSIVE Visits(_, _)
Visits(n, parent) ==
    FlattenSeq([i \in 1..Len(Kids[n]) |-> Visits(Kids[n][i], n)])
        \o <<[id |-> n, parent |-> parent]>>

Walk(b) == FlattenSeq([i \in 1..Len(RootList[b]) |-> Visits(RootList[b][i], "none")])

\* Map.set keeps the place of the first visit and the value of the last.  A node the
\* walk of a build does not visit has a place where it agrees with the other's, if any.
MCRank == [A |-> [y2 |-> 0, z |-> 1, x1 |-> 2, y1 |-> 3, rA |-> 4, x2 |-> 5],
           B |-> [y2 |-> 1, z |-> 2, x2 |-> 3, x1 |-> 4, y1 |-> 5, rA |-> 6]]
MCHasParent == [A |-> {"z"}, B |-> {"z"}]

ASSUME WalkAssumption == \A b \in MCBuild :
    LET walk == Walk(b)
        Positions(n) == {i \in 1..Len(walk) : walk[i].id = n}
    IN  \A n \in MCNode : Positions(n) # {} =>
            /\ MCRank[b][n] = Min(Positions(n))
            /\ n \in MCHasParent[b] <=> walk[Max(Positions(n))].parent # "none"
=============================================================================
