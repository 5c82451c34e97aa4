----------------------- MODULE MCStaticAnalysis -----------------------
(* Two builds share the edge e; the first also has a root that is          *)
(* vulnerable itself, r.  One Go task reads the queue, a message at a time.*)
EXTENDS StaticAnalysis

CONSTANTS e, r, s1, s2, b1, b2

MCBuildOf == [s \in Scan |-> IF s = s1 THEN b1 ELSE b2]
MCVulnerable == [b \in Build |-> IF b = b1 THEN {e, r} ELSE {e}]
MCFinding == [x \in Edge |-> "not_vulnerable"]
MCMessage == EdgeMessage
MCQueueOf == [m \in MCMessage |-> "static-analysis"]
MCPolls == [w \in Worker |-> "static-analysis"]
MCMaxReceives == [q \in Queue |-> 2]
=============================================================================
