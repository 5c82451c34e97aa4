------------------------- MODULE QueueWorkerProofs -------------------------
(***************************************************************************)
(* What holds of QueueWorker for any queues, tasks, messages and limits,   *)
(* step by step, so that modules with jobs of their own can reuse it.      *)
(***************************************************************************)
EXTENDS QueueWorker, TLAPS

\* A receive limit is a positive number, whichever queue a message is sent to.
LEMMA LimitType ==
    ASSUME NEW m \in Message
    PROVE  Limit(m) \in Nat \ {0}
  BY QueueAssumption DEF Limit

\* A read of a message is one of its first Limit(m) reads.
LEMMA DeliveryMember ==
    ASSUME NEW m \in Message, NEW n \in 1..Limit(m)
    PROVE  <<m, n>> \in Delivery
  BY DEF Delivery

\* A delivery names its message.
LEMMA DeliveryMessage ==
    ASSUME NEW d \in Delivery
    PROVE  d[1] \in Message
  BY DEF Delivery

\* A read adds one to the receive counts of its messages and starts their jobs.
LEMMA ReceiveType ==
    ASSUME TypeOK, NEW w \in Worker, NEW S \in SUBSET Message, Receive(w, S)
    PROVE  TypeOK'
<1>1. \A m \in S : receives[m] < Limit(m) /\ receives[m] \in Nat /\ Limit(m) \in Nat
  BY LimitType DEF Receive, TypeOK
<1>2. status' \in [Message -> {"unsent", "visible", "hidden", "deleted", "dead"}]
  BY DEF Receive, TypeOK
<1>3. /\ receives' \in [Message -> Nat]
      /\ \A m \in Message : receives'[m] <= Limit(m)
  BY <1>1 DEF Receive, TypeOK
<1>4. {<<m, receives[m] + 1>> : m \in S} \subseteq Delivery
  <2> SUFFICES ASSUME NEW m \in S PROVE <<m, receives[m] + 1>> \in Delivery
    OBVIOUS
  <2>1. receives[m] + 1 \in 1..Limit(m)
    BY <1>1
  <2> QED
    BY <2>1, DeliveryMember
<1>5. batch' \in [Worker -> SUBSET Delivery]
  BY <1>4 DEF Receive, TypeOK
<1> QED
  BY <1>2, <1>3, <1>5 DEF Receive, TypeOK

\* The types survive every step of the worker and of SQS.
LEMMA StepType ==
    ASSUME TypeOK, [Next]_queueVars
    PROVE  TypeOK'
<1> USE DEF TypeOK
<1>1. ASSUME NEW m \in Message, Send(m) \/ VisibilityExpires(m) \/ Redrive(m)
      PROVE  TypeOK'
  BY <1>1 DEF Send, VisibilityExpires, Redrive
<1>2. ASSUME NEW w \in Worker, NEW d \in Delivery, Succeed(w, d)
      PROVE  TypeOK'
  BY <1>2, DeliveryMessage DEF Succeed, Leave
<1>3. ASSUME NEW w \in Worker, NEW d \in Delivery, Fail(w, d)
      PROVE  TypeOK'
  BY <1>3 DEF Fail, Leave
<1>4. ASSUME NEW w \in Worker, JobTimeout(w) \/ Crash(w)
      PROVE  TypeOK'
  BY <1>4 DEF JobTimeout, Crash
<1>5. CASE UNCHANGED queueVars
  BY <1>5 DEF queueVars
<1> QED
  BY <1>1, <1>2, <1>3, <1>4, <1>5, ReceiveType DEF Next

\* Receive counts, jobs and message states keep their types.
THEOREM QueueTypeCorrect == Spec => []TypeOK
<1>1. Init => TypeOK
  BY LimitType DEF Init, TypeOK
<1> QED
  BY <1>1, StepType, PTL DEF Spec

\* Only deleteMessage takes a message off its queue, and only after its job.
LEMMA StepNothingVanishes ==
    ASSUME TypeOK, NothingVanishes, [Next]_queueVars
    PROVE  NothingVanishes'
<1> USE DEF NothingVanishes
<1>1. ASSUME NEW m \in Message, Send(m) \/ VisibilityExpires(m) \/ Redrive(m)
      PROVE  NothingVanishes'
  BY <1>1 DEF Send, VisibilityExpires, Redrive, TypeOK
<1>2. ASSUME NEW w \in Worker, NEW S \in SUBSET Message, Receive(w, S)
      PROVE  NothingVanishes'
  BY <1>2 DEF Receive, TypeOK
<1>3. ASSUME NEW w \in Worker, NEW d \in Delivery, Succeed(w, d)
      PROVE  NothingVanishes'
  BY <1>3, DeliveryMessage DEF Succeed, Leave, TypeOK
<1>4. ASSUME NEW w \in Worker, NEW d \in Delivery, Fail(w, d)
      PROVE  NothingVanishes'
  BY <1>4 DEF Fail
<1>5. ASSUME NEW w \in Worker, JobTimeout(w) \/ Crash(w)
      PROVE  NothingVanishes'
  BY <1>5 DEF JobTimeout, Crash
<1>6. CASE UNCHANGED queueVars
  BY <1>6 DEF queueVars
<1> QED
  BY <1>1, <1>2, <1>3, <1>4, <1>5, <1>6 DEF Next

\* No crash, late job or repeated delivery makes a message vanish.
THEOREM NoMessageVanishes == Spec => []NothingVanishes
<1>1. Init => NothingVanishes
  BY DEF Init, NothingVanishes
<1> QED
  BY <1>1, StepNothingVanishes, QueueTypeCorrect, PTL DEF Spec
-----------------------------------------------------------------------------
\* A message that was sent stays sent.
SentStays == \A m \in Message : status[m] # "unsent" => status'[m] # "unsent"

\* Only Send makes a message visible that was not.
LEMMA StepKeepsSent ==
    ASSUME TypeOK, [Next]_queueVars
    PROVE  SentStays
<1> SUFFICES ASSUME NEW m \in Message, status[m] # "unsent" PROVE status'[m] # "unsent"
  BY DEF SentStays
<1>1. ASSUME NEW n \in Message, Send(n) \/ VisibilityExpires(n) \/ Redrive(n)
      PROVE  status'[m] # "unsent"
  BY <1>1 DEF Send, VisibilityExpires, Redrive, TypeOK
<1>2. ASSUME NEW w \in Worker, NEW S \in SUBSET Message, Receive(w, S)
      PROVE  status'[m] # "unsent"
  BY <1>2 DEF Receive
<1>3. ASSUME NEW w \in Worker, NEW d \in Delivery, Succeed(w, d) \/ Fail(w, d)
      PROVE  status'[m] # "unsent"
  BY <1>3 DEF Succeed, Fail, TypeOK
<1>4. ASSUME NEW w \in Worker, JobTimeout(w) \/ Crash(w) PROVE status'[m] # "unsent"
  BY <1>4 DEF JobTimeout, Crash
<1>5. CASE UNCHANGED queueVars
  BY <1>5 DEF queueVars
<1> QED
  BY <1>1, <1>2, <1>3, <1>4, <1>5 DEF Next
=============================================================================
