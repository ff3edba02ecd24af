----------------------------- MODULE TaskQueue -----------------------------
(***************************************************************************)
(* The JetStream work queue as the NATS engine configures it: publishing   *)
(* never deduplicates, a delivered message stays in flight until it is     *)
(* acked, nacked or its ack deadline passes, and a message delivered too   *)
(* often (MaxDeliver) is given up.                                         *)
(***************************************************************************)
EXTENDS TaskStatus

CONSTANTS MsgIds,   \* broker messages (bounds the number of publishes)
          NoTaskId  \* the task of a message that was not published yet

ASSUME NoTaskAssumption == NoTaskId \notin TaskIds

VARIABLES queue,    \* queue[m]: where message m is
          msgTask   \* msgTask[m]: the task id m carries

queueVars == <<queue, msgTask>>

QueueTypeOK ==
  /\ queue \in [MsgIds -> {"unused", "ready", "inflight", "acked", "dropped"}]
  /\ msgTask \in [MsgIds -> TaskIds \cup {NoTaskId}]

QueueInit ==
  /\ queue = [m \in MsgIds |-> "unused"]
  /\ msgTask = [m \in MsgIds |-> NoTaskId]

-----------------------------------------------------------------------------
\* PublishTask: no message id, hence no deduplication.
PublishTask(m, t) ==
  /\ queue[m] = "unused"
  /\ queue' = [queue EXCEPT ![m] = "ready"]
  /\ msgTask' = [msgTask EXCEPT ![m] = t]

\* Mutant of Deliver: a consumer without explicit acks.
DeliverOnce(m) ==
  /\ queue[m] = "ready"
  /\ queue' = [queue EXCEPT ![m] = "acked"]
  /\ UNCHANGED msgTask

\* PullMessage: the queue hands a ready message to one puller.
Deliver(m) ==
  /\ queue[m] = "ready"
  /\ queue' = [queue EXCEPT ![m] = "inflight"]
  /\ UNCHANGED msgTask

\* Ack removes the message, also through the handle of an earlier delivery.
AfterAck(m) ==
  IF queue[m] \in {"ready", "inflight"} THEN [queue EXCEPT ![m] = "acked"] ELSE queue

\* Nak makes an in-flight message ready again.
AfterNack(m) ==
  IF queue[m] = "inflight" THEN [queue EXCEPT ![m] = "ready"] ELSE queue

\* The message can still reach a worker, or is with one.
Live(m) == queue[m] \in {"ready", "inflight"}
=============================================================================
