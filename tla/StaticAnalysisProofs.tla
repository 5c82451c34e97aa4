----------------------- MODULE StaticAnalysisProofs -----------------------
(***************************************************************************)
(* That no vulnerable edge of a loaded tree is forgotten, for any scans,   *)
(* builds, edges, tasks and receive limits.  The argument follows a        *)
(* message: it is being asked about, being sent, or in the queue, until a  *)
(* deletion is on its way, and then its edge has a result (AckInv), which  *)
(* later findings overwrite but never remove.                              *)
(***************************************************************************)
EXTENDS StaticAnalysis, QueueWorkerProofs

\* A delivery is to be deleted once its edge has a result, unless its handler
\* panicked or there is no such edge.
AckInv ==
    \A w \in Worker : \A d \in acking[w] :
        d[1] \notin panicked /\ EdgeOf(d[1]) \in Stored => result[EdgeOf(d[1])] # "none"

StaticInv == StaticTypeOK /\ AckInv /\ AnalysesNotLost /\ EdgesNotForgotten

\* A message names an edge.
LEMMA EdgeOfMessage ==
    ASSUME NEW m \in Message
    PROVE  EdgeOf(m) \in Edge /\ m[1] \in Scan
  BY StaticAssumption DEF EdgeMessage, EdgeOf

LEMMA InitStaticInv ==
    ASSUME StaticInit
    PROVE  StaticInv
<1>1. TypeOK
  BY LimitType DEF StaticInit, Init, TypeOK
<1>2. StaticTypeOK
  BY <1>1 DEF StaticInit, Init, StaticTypeOK, Good
<1>3. AckInv /\ AnalysesNotLost /\ EdgesNotForgotten
  BY DEF StaticInit, Init, AckInv, AnalysesNotLost, EdgesNotForgotten
<1> QED
  BY <1>2, <1>3 DEF StaticInv
-----------------------------------------------------------------------------
(* The backend's steps.                                                    *)

LEMMA TreeStep ==
    ASSUME StaticInv, NEW b \in Build, InsertManifests(b)
    PROVE  StaticInv'
  BY DEF InsertManifests, StaticInv, queueVars, callVars, loopVars, StaticTypeOK, TypeOK, AckInv,
         AnalysesNotLost, EdgesNotForgotten, UnderWay, GivenUp

LEMMA ScanStep ==
    ASSUME StaticInv, NEW s \in Scan, AnalyzeTree(s)
    PROVE  StaticInv'
<1> USE DEF StaticInv
<1>1. UNCHANGED <<status, receives, batch, late, handled, sending, lost, handling, acking, panicked, result>>
  BY DEF AnalyzeTree, queueVars, callVars, loopVars
<1>2. StaticTypeOK'
  BY <1>1 DEF AnalyzeTree, StaticTypeOK, TypeOK
<1>3. AckInv' /\ AnalysesNotLost'
  BY <1>1 DEF AckInv, AnalysesNotLost
<1>4. EdgesNotForgotten'
  BY <1>1 DEF AnalyzeTree, EdgesNotForgotten, UnderWay, GivenUp
<1> QED
  BY <1>2, <1>3, <1>4

LEMMA CallStep ==
    ASSUME StaticInv, NEW m \in Message, Call(m)
    PROVE  StaticInv'
<1> USE DEF StaticInv
<1>1. UNCHANGED <<receives, batch, late, handled, trees, started, loaded, handling, acking, panicked, result>>
  BY DEF Call, Lookup, SendEdge, Send, Lose, queueVars, scanVars, loopVars
<1>2. StaticTypeOK'
  BY <1>1 DEF Call, Lookup, SendEdge, Send, Lose, queueVars, StaticTypeOK, TypeOK
<1>3. AckInv' /\ AnalysesNotLost'
  BY <1>1 DEF Call, Lookup, SendEdge, Send, Lose, queueVars, AckInv, AnalysesNotLost, StaticTypeOK, TypeOK
<1>4. EdgesNotForgotten'
  <2> SUFFICES ASSUME NEW n \in Message, n[1] \in loaded, EdgeOf(n) \in Stored, result[EdgeOf(n)] = "none"
               PROVE  UnderWay(n)' \/ GivenUp(n)'
    BY <1>1 DEF EdgesNotForgotten
  <2>1. UnderWay(n) \/ GivenUp(n)
    BY DEF EdgesNotForgotten
  <2>2. CASE Lookup(m)
    BY <2>1, <2>2 DEF Lookup, queueVars, UnderWay, GivenUp, Good
  <2>3. CASE SendEdge(m)
    BY <2>1, <2>3 DEF SendEdge, Send, UnderWay, GivenUp, StaticTypeOK, TypeOK
  <2>4. CASE Lose(m)
    BY <2>1, <2>4 DEF Lose, queueVars, UnderWay, GivenUp
  <2> QED
    BY <2>2, <2>3, <2>4 DEF Call
<1> QED
  BY <1>2, <1>3, <1>4
-----------------------------------------------------------------------------
(* The queue's and the tasks' steps.                                       *)

\* What these steps do to a message that is in the queue: it stays in it, ends in
\* the dead letter queue, or is deleted because a delivery was to be deleted.
QueueKeeps ==
    \A m \in Message :
        \/ status'[m] = status[m]
        \/ status[m] \in {"visible", "hidden"} /\ status'[m] \in {"visible", "hidden", "dead"}
        \/ \E w \in Worker : \E d \in acking[w] : d[1] = m /\ status'[m] = "deleted"

\* Results are overwritten, never removed; a panic is remembered.
ResultsKeep ==
    /\ \A e \in Edge : result[e] # "none" => result'[e] # "none"
    /\ panicked \subseteq panicked'

\* So no step of these loses an edge.
LEMMA NothingLost ==
    ASSUME StaticInv, QueueKeeps, ResultsKeep, UNCHANGED <<loaded, looking, sending, lost>>
    PROVE  AnalysesNotLost' /\ EdgesNotForgotten'
<1> USE DEF StaticInv
<1>1. ASSUME NEW m \in Message, m \notin panicked', status'[m] = "deleted", EdgeOf(m) \in Stored
      PROVE  result'[EdgeOf(m)] # "none"
  <2>1. m \notin panicked /\ EdgeOf(m) \in Edge
    BY <1>1, EdgeOfMessage DEF ResultsKeep
  <2>2. result[EdgeOf(m)] # "none"
    BY <1>1, <2>1 DEF QueueKeeps, AckInv, AnalysesNotLost
  <2> QED
    BY <2>1, <2>2 DEF ResultsKeep
<1>2. ASSUME NEW m \in Message, m[1] \in loaded, EdgeOf(m) \in Stored, result'[EdgeOf(m)] = "none"
      PROVE  UnderWay(m)' \/ GivenUp(m)'
  <2>1. result[EdgeOf(m)] = "none"
    BY <1>2, EdgeOfMessage DEF ResultsKeep
  <2>2. UnderWay(m) \/ GivenUp(m)
    BY <1>2, <2>1 DEF EdgesNotForgotten
  <2>3. status'[m] = "deleted" => m \in panicked'
    BY <1>1, <1>2
  <2> QED
    BY <2>2, <2>3 DEF UnderWay, GivenUp, QueueKeeps, ResultsKeep
<1> QED
  BY <1>1, <1>2 DEF AnalysesNotLost, EdgesNotForgotten

LEMMA PrefetchType ==
    ASSUME TypeOK, NEW w \in Worker, NEW S \in SUBSET Message, Prefetch(w, S)
    PROVE  TypeOK'
<1>1. \A m \in S : receives[m] < Limit(m) /\ receives[m] \in Nat /\ Limit(m) \in Nat
  BY LimitType DEF Prefetch, TypeOK
<1>2. status' \in [Message -> {"unsent", "visible", "hidden", "deleted", "dead"}]
  BY DEF Prefetch, TypeOK
<1>3. /\ receives' \in [Message -> Nat]
      /\ \A m \in Message : receives'[m] <= Limit(m)
  BY <1>1 DEF Prefetch, TypeOK
<1>4. {<<m, receives[m] + 1>> : m \in S} \subseteq Delivery
  <2> SUFFICES ASSUME NEW m \in S PROVE <<m, receives[m] + 1>> \in Delivery
    OBVIOUS
  <2>1. receives[m] + 1 \in 1..Limit(m)
    BY <1>1
  <2> QED
    BY <2>1, DeliveryMember
<1>5. batch' \in [Worker -> SUBSET Delivery]
  BY <1>4 DEF Prefetch, TypeOK
<1> QED
  BY <1>2, <1>3, <1>5 DEF Prefetch, TypeOK

LEMMA PollStep ==
    ASSUME StaticInv, NEW w \in Worker, Poll(w)
    PROVE  StaticInv'
<1> PICK S \in SUBSET Message : Prefetch(w, S)
  BY DEF Poll
<1> USE DEF StaticInv
<1>1. TypeOK'
  BY PrefetchType DEF StaticTypeOK
<1>2. \A v \in Worker : batch[v] \subseteq batch'[v]
  BY DEF Prefetch, StaticTypeOK, TypeOK
<1>3. StaticTypeOK'
  BY <1>1, <1>2 DEF Prefetch, scanVars, callVars, loopVars, StaticTypeOK
<1>4. QueueKeeps /\ ResultsKeep
  BY DEF Prefetch, QueueKeeps, ResultsKeep, StaticTypeOK, TypeOK
<1>5. AckInv'
  BY DEF Prefetch, loopVars, AckInv
<1> QED
  BY <1>3, <1>4, <1>5, NothingLost DEF Prefetch, scanVars, callVars

LEMMA SqsStep ==
    ASSUME StaticInv, NEW m \in Message, Sqs(m)
    PROVE  StaticInv'
<1> USE DEF StaticInv
<1>1. StaticTypeOK'
  BY DEF Sqs, VisibilityExpires, Redrive, scanVars, callVars, loopVars, StaticTypeOK, TypeOK
<1>2. QueueKeeps /\ ResultsKeep
  BY DEF Sqs, VisibilityExpires, Redrive, QueueKeeps, ResultsKeep, StaticTypeOK, TypeOK
<1>3. AckInv'
  BY DEF Sqs, loopVars, AckInv
<1> QED
  BY <1>1, <1>2, <1>3, NothingLost DEF Sqs, scanVars, callVars

LEMMA BeginStep ==
    ASSUME StaticInv, NEW w \in Worker, NEW d \in batch[w], Begin(w, d)
    PROVE  StaticInv'
<1> USE DEF StaticInv
<1>1. StaticTypeOK'
  BY DEF Begin, queueVars, scanVars, callVars, StaticTypeOK, TypeOK
<1>2. QueueKeeps /\ ResultsKeep
  BY DEF Begin, queueVars, QueueKeeps, ResultsKeep
<1>3. AckInv'
  BY DEF Begin, AckInv
<1> QED
  BY <1>1, <1>2, <1>3, NothingLost DEF Begin, scanVars, callVars

\* However a message is handled, its deletion is justified.
LEMMA DoneStep ==
    ASSUME StaticInv, NEW w \in Worker, NEW d \in batch[w],
           Analyze(w, d) \/ Invalid(w, d) \/ Panic(w, d)
    PROVE  StaticInv'
<1> USE DEF StaticInv
<1>1. d[1] \in Message /\ EdgeOf(d[1]) \in Edge
  BY DeliveryMessage, EdgeOfMessage DEF StaticTypeOK, TypeOK
<1>2. Done(w, d)
  BY DEF Analyze, Invalid, Panic
<1>3. /\ result' \in [Edge -> Good \cup {"none", "error"}]
      /\ panicked' \subseteq Message
      /\ ResultsKeep
  BY <1>1, StaticAssumption DEF Analyze, Invalid, Panic, StaticTypeOK, Good, ResultsKeep
<1>4. QueueKeeps
  BY <1>2 DEF Done, queueVars, QueueKeeps
<1>5. StaticTypeOK'
  BY <1>2, <1>3 DEF Done, queueVars, scanVars, callVars, StaticTypeOK, TypeOK
<1>6. AckInv'
  <2>1. d[1] \in panicked' \/ EdgeOf(d[1]) \notin Stored \/ result'[EdgeOf(d[1])] # "none"
    BY <1>1, StaticAssumption DEF Analyze, Invalid, Panic, StaticTypeOK
  <2> SUFFICES ASSUME NEW v \in Worker, NEW c \in acking'[v], c[1] \notin panicked', EdgeOf(c[1]) \in Stored
               PROVE  result'[EdgeOf(c[1])] # "none"
    BY DEF AckInv
  <2>2. acking'[v] \subseteq acking[v] \cup {d}
    BY <1>2 DEF Done, StaticTypeOK
  <2>3. CASE c = d
    BY <2>1, <2>3
  <2>4. CASE c \in acking[v]
    <3>1. EdgeOf(c[1]) \in Edge
      BY <2>4, DeliveryMessage, EdgeOfMessage DEF StaticTypeOK, TypeOK
    <3> QED
      BY <1>3, <2>4, <3>1 DEF AckInv, ResultsKeep
  <2> QED
    BY <2>2, <2>3, <2>4
<1> QED
  BY <1>2, <1>3, <1>4, <1>5, <1>6, NothingLost DEF Done, scanVars, callVars

\* What a task keeps of its deliveries when it lets go of one.
LEMMA LeaveType ==
    ASSUME StaticTypeOK, NEW w \in Worker, NEW d \in batch[w], TypeOK', Leave(w, d),
           UNCHANGED <<scanVars, callVars, panicked, result>>,
           \/ /\ d \in handling[w]
              /\ handling' = [handling EXCEPT ![w] = {}] /\ UNCHANGED acking
           \/ /\ d \in acking[w]
              /\ acking' = [acking EXCEPT ![w] = @ \ {d}] /\ UNCHANGED handling
    PROVE  StaticTypeOK'
<1>1. /\ handling' \in [Worker -> SUBSET Delivery] /\ acking' \in [Worker -> SUBSET Delivery]
      /\ \A v \in Worker : handling'[v] \subseteq handling[v] /\ acking'[v] \subseteq acking[v]
      /\ d \notin handling'[w] \cup acking'[w]
  BY DEF StaticTypeOK
<1>2. \A v \in Worker : batch[v] \subseteq batch'[v] \cup (IF v = w THEN {d} ELSE {})
  BY DEF Leave, StaticTypeOK, TypeOK
<1>3. ASSUME NEW v \in Worker
      PROVE  /\ handling'[v] \cup acking'[v] \subseteq batch'[v]
             /\ handling'[v] \cap acking'[v] = {}
             /\ \A c, e \in handling'[v] : c = e
  BY <1>1, <1>2 DEF StaticTypeOK
<1> QED
  BY <1>1, <1>3 DEF StaticTypeOK, scanVars, callVars

\* A failed message goes back, and nothing is taken away.
LEMMA FailStep ==
    ASSUME StaticInv, NEW w \in Worker, NEW d \in batch[w], FailRecord(w, d)
    PROVE  StaticInv'
<1> USE DEF StaticInv
<1>1. d[1] \in Message
  BY DeliveryMessage DEF StaticTypeOK, TypeOK
<1>2. status' \in [Message -> {"unsent", "visible", "hidden", "deleted", "dead"}] /\ QueueKeeps
  BY <1>1 DEF FailRecord, QueueKeeps, StaticTypeOK, TypeOK
<1>3. TypeOK'
  BY <1>2 DEF FailRecord, Leave, StaticTypeOK, TypeOK
<1>4. StaticTypeOK'
  BY <1>3, LeaveType DEF FailRecord
<1>5. AckInv' /\ ResultsKeep
  BY DEF FailRecord, AckInv, ResultsKeep
<1> QED
  BY <1>2, <1>4, <1>5, NothingLost DEF FailRecord, scanVars, callVars

\* A task that ends drops all its deliveries.
LEMMA RestartStep ==
    ASSUME StaticInv, NEW w \in Worker, Restart(w)
    PROVE  StaticInv'
<1> USE DEF StaticInv
<1>1. TypeOK'
  BY DEF Restart, Crash, StaticTypeOK, TypeOK
<1>2. ASSUME NEW v \in Worker
      PROVE  /\ handling'[v] \cup acking'[v] \subseteq batch'[v]
             /\ handling'[v] \cap acking'[v] = {}
             /\ \A c, e \in handling'[v] : c = e
  BY DEF Restart, Crash, StaticTypeOK, TypeOK
<1>3. StaticTypeOK'
  BY <1>1, <1>2 DEF Restart, scanVars, callVars, StaticTypeOK
<1>4. QueueKeeps /\ ResultsKeep
  BY DEF Restart, Crash, QueueKeeps, ResultsKeep
<1>5. AckInv'
  BY DEF Restart, AckInv, StaticTypeOK
<1> QED
  BY <1>3, <1>4, <1>5, NothingLost DEF Restart, scanVars, callVars

\* A deletion takes away a message whose edge has its result.
LEMMA AckStep ==
    ASSUME StaticInv, NEW w \in Worker, NEW d \in batch[w], Ack(w, d)
    PROVE  StaticInv'
<1> USE DEF StaticInv
<1>1. d[1] \in Message
  BY DeliveryMessage DEF StaticTypeOK, TypeOK
<1>2. d \in Delivery
  BY DEF StaticTypeOK, TypeOK
<1>3. [Next]_queueVars
  BY <1>2 DEF Ack, Next
<1>4. TypeOK'
  BY <1>3, StepType DEF StaticTypeOK
<1>5. StaticTypeOK'
  BY <1>4, LeaveType DEF Ack, Succeed
<1>6. QueueKeeps /\ ResultsKeep
  BY <1>1 DEF Ack, Succeed, QueueKeeps, ResultsKeep, StaticTypeOK, TypeOK
<1>7. AckInv'
  BY DEF Ack, AckInv, StaticTypeOK
<1> QED
  BY <1>5, <1>6, <1>7, NothingLost DEF Ack, scanVars, callVars
-----------------------------------------------------------------------------
\* Every message is accounted for at every moment.
THEOREM StaticInvariant == StaticSpec => []StaticInv
<1>1. StaticInv /\ [StaticNext]_vars => StaticInv'
  <2> SUFFICES ASSUME StaticInv, [StaticNext]_vars PROVE StaticInv'
    OBVIOUS
  <2>1. ASSUME NEW b \in Build, InsertManifests(b) PROVE StaticInv'
    BY <2>1, TreeStep
  <2>2. ASSUME NEW s \in Scan, AnalyzeTree(s) PROVE StaticInv'
    BY <2>2, ScanStep
  <2>3. ASSUME NEW w \in Worker, Loop(w) \/ Flush(w) PROVE StaticInv'
    BY <2>3, BeginStep, DoneStep, FailStep, AckStep DEF Loop, Handle, Flush
  <2>4. CASE UNCHANGED vars
    BY <2>4 DEF vars, queueVars, scanVars, callVars, loopVars, StaticInv, StaticTypeOK, TypeOK, AckInv,
                AnalysesNotLost, EdgesNotForgotten, UnderWay, GivenUp
  <2> QED
    BY <2>1, <2>2, <2>3, <2>4, CallStep, SqsStep, PollStep, RestartStep DEF StaticNext
<1> QED
  BY <1>1, InitStaticInv, PTL DEF StaticSpec

\* The variables keep their types, and a task handles one message at a time.
THEOREM StaticTypeCorrect == StaticSpec => []StaticTypeOK
<1>1. StaticInv => StaticTypeOK
  BY DEF StaticInv
<1> QED
  BY <1>1, StaticInvariant, PTL

\* Only a panic makes the queue forget an edge without a result.
THEOREM NoAnalysisIsLost == StaticSpec => []AnalysesNotLost
<1>1. StaticInv => AnalysesNotLost
  BY DEF StaticInv
<1> QED
  BY <1>1, StaticInvariant, PTL

\* A scan that finds the tree forgets no vulnerable edge of it.
THEOREM NoEdgeIsForgotten == StaticSpec => []EdgesNotForgotten
<1>1. StaticInv => EdgesNotForgotten
  BY DEF StaticInv
<1> QED
  BY <1>1, StaticInvariant, PTL
=============================================================================
