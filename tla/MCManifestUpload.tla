------------------------ MODULE MCManifestUpload ------------------------
(* One file, whose S3 event is delivered twice, so that two builds may be  *)
(* made of it.  The task w1 reads the manifest queue and s1 the SBOM queue.*)
EXTENDS ManifestUpload

CONSTANTS u, w1, s1

MCQueue == {"manifest", "sbom"}
MCMessage == UploadMessage
MCQueueOf == [m \in MCMessage |-> m[1]]
MCPolls == [w \in Worker |-> IF w = s1 THEN "sbom" ELSE "manifest"]
MCMaxReceives == [manifest |-> 2, sbom |-> 1]

\* A bound: a message that was read as often as it may be is not followed to the
\* dead letter queue, where nothing happens to it any more.
NoReadIsLeft ==
    \A m \in Message : receives[m] = Limit(m) => status[m] \in {"hidden", "deleted"}
=============================================================================
