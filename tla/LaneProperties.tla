--------------------------- MODULE LaneProperties ---------------------------
(***************************************************************************)
(* What a lane promises, whatever its callers, its effects and crashes do. *)
(***************************************************************************)
EXTENDS LaneHarness

PcValues == {"none", "restore", "claimed", "reload", "plan", "model", "tool", "summary", "sleep"}

\* Every variable has the shape src/src/state.rs and src/src/entry.rs give it.
TypeOK ==
  /\ fresh \in Id
  /\ \A id \in DOMAIN entries : id \in Id \ {NoId} /\ entries[id] \in Entry
  /\ usage \subseteq Id
  /\ leaf \in Id
  /\ lane \in [op: Id, nextRun: Seq(Id)]
  /\ meta \in [prompts: Seq(Id), source: Id, target: Id]
  /\ state \in OperationState \cup {NoOperation}
  /\ \A id \in DOMAIN pending : pending[id] \in InputKinds
  /\ toolArgs \subseteq Id \X Nat
  /\ \A task \in DOMAIN prep : prep[task] \in Id
  /\ lastResult.outcome \in Outcomes \cup {"none"}
  /\ pc \in PcValues
  /\ then \in {"plan", "model", "tool", "summary"}
  /\ signal \in BOOLEAN /\ chan \in {"none", "old", "live"}
  /\ registry \in Registries

(***************************************************************************)
(* The lane can be restored at every moment.                               *)
(***************************************************************************)

\* restore() and validate_current() accept what is durable after every
\* commit, so that an operation can be resumed wherever the process died.
AlwaysRestorable == Restorable

(***************************************************************************)
(* Accepted input.                                                         *)
(***************************************************************************)
Queues ==
  IF state.kind = "run"
  THEN <<lane.nextRun, state.steer, state.followUp, state.writes, state.drained>>
  ELSE <<lane.nextRun>>

\* The places that claim an input.
Homes(id) ==
  UNION {{<<q, i>> : i \in {j \in DOMAIN Queues[q] : Queues[q][j] = id}} : q \in DOMAIN Queues}

\* No register is left without an owner: an input waits in exactly one queue
\* or is an entry, never both, and what an operation wrote is gone when it ends
\* (enqueue, apply_inbox, terminal).
OneHome ==
  /\ \A id \in DOMAIN pending : \E home \in Homes(id) : Homes(id) = {home}
  /\ DOMAIN pending \cap DOMAIN entries = {}
  /\ ~Busy => state = NoOperation /\ meta = NoMeta /\ toolArgs = {} /\ prep = <<>>

\* A run never ends with a follow-up still queued, and a failed one ends with
\* nothing queued at all, however late the input was accepted
\* (checkpoint, failure_drain and the condition of terminal()).
QueuedInputContinues ==
  \A d \in dropped : d.queue # "followUp" /\ d.outcome # "failed"

\* An input for the next run stays queued until a run adopts it: neither the
\* end of the open operation nor a crash loses it (terminal(), start()).
NextRunKept ==
  [][\A id \in Range(lane.nextRun) :
       \/ id \in Range(lane'.nextRun)
       \/ state'.kind = "run" /\ id \in Range(state'.writes)]_vars

(***************************************************************************)
(* Effects.                                                                *)
(***************************************************************************)

\* A tool call that was not declared safe to replay, when it was started or
\* when it would be started again, runs at most once (tools(), Replay).
UnsafeToolOnce ==
  \A r \in DOMAIN invoked : invoked[r].unsafe => invoked[r].n = 1

\* One generation makes at most max_attempts provider requests, crashes and
\* lost commits included (RetryPolicy, assistant()).
AttemptsBounded == \A s \in DOMAIN requests : requests[s] <= MaxAttempts

Intents(s) ==
  IF s.kind = "run"
  THEN IF s.phase.p = "assistant" THEN {s.phase.response}
       ELSE IF s.phase.p = "tools"
       THEN {s.phase.calls[i].result :
               i \in {j \in DOMAIN s.phase.calls : s.phase.calls[j].status = "pending"}}
       ELSE IF s.phase.p = "compaction" THEN {s.phase.structural.usage}
       ELSE {}
  ELSE IF s.kind = "compaction" THEN {s.structural.usage} ELSE {}

\* Once the cancellation is durable no intent of a new effect is committed,
\* whatever the driver planned before it saw it (transition(), abort()).
CancelledStartsNothing ==
  [][state.kind # "none" /\ IsCancelled(state)
       => Intents(state') \subseteq Intents(state) \cup {NoId}]_vars

\* A run or a navigation that was cancelled stays cancelled until it ends, and
\* ends aborted (transition(), terminal()).  A standalone compaction may not.
CancelSticks ==
  [][state.kind \in {"run", "navigation"} /\ IsCancelled(state)
       => \/ lane'.op = lane.op /\ IsCancelled(state')
          \/ lane'.op = NoId /\ lastResult'.outcome = "aborted"]_vars

(***************************************************************************)
(* The conversation.                                                       *)
(***************************************************************************)

\* Entries are never rewritten and the leaf only moves to an entry below it,
\* except that a navigation moves it where it was asked to.
ConversationGrows ==
  [][/\ \A id \in DOMAIN entries : id \in DOMAIN entries' /\ entries'[id] = entries[id]
     /\ \/ leaf' = leaf
        \/ state.kind = "navigation" /\ leaf' = meta.target
        \/ leaf = NoId \/ leaf \in Branch']_vars

\* The results of a response follow it directly, in the order of its calls.
ResultsFollowCalls ==
  \A id \in DOMAIN entries :
    entries[id].type = "toolResult" =>
      LET a == entries[id].call[1]
          i == entries[id].call[2]
          p == entries[id].parent
      IN  IF i = 1 THEN p = a ELSE Placed(p) /\ entries[p].type = "toolResult"
                                             /\ entries[p].call = <<a, i - 1>>

\* When the lane is idle every call of a response on its branch that was
\* neither an error nor aborted has its result there (tools(), abort_finish).
CallsAnswered ==
  ~Busy =>
    \A a \in Branch :
      entries[a].type = "assistant" /\ entries[a].stop \notin {"error", "aborted"} =>
        \A i \in DOMAIN entries[a].calls :
          \E r \in Branch : entries[r].type = "toolResult" /\ entries[r].call = <<a, i>>

\* Every call in the conversation a request is built from has its result
\* there too: a provider refuses a call without one (request_assistant).
RequestsPaired ==
  pc = "model" =>
    \A a \in Ancestors(cur.leaf) :
      entries[a].type = "assistant" /\ entries[a].stop \notin {"error", "aborted"} =>
        \A i \in DOMAIN entries[a].calls :
          \E r \in Ancestors(cur.leaf) :
            entries[r].type = "toolResult" /\ entries[r].call = <<a, i>>

\* No call stays unanswered, in what a lane leaves behind or sends.
CallsPaired == CallsAnswered /\ RequestsPaired

(***************************************************************************)
(* The life of an operation as its caller sees it.                         *)
(***************************************************************************)
Life == INSTANCE LaneLife WITH
  status <- IF ~Busy THEN "idle" ELSE IF IsCancelled(state) THEN "cancelling" ELSE "running",
  op <- lane.op,
  result <- [op |-> lastResult.op, outcome |-> lastResult.outcome]

\* The lane implements LaneLife: one operation at a time, each ends once,
\* and a cancelled one ends aborted (start(), abort(), terminal()).
LaneImplementsLife == Life!LifeSpec

(***************************************************************************)
(* Statements of the documents and of comments that the code contradicts.  *)
(***************************************************************************)

\* A result that says the process died is there only if it did: nothing else
\* erases the result of a tool that is running.
LiveResultKept ==
  \A id \in DOMAIN entries :
    entries[id].type = "toolResult" /\ entries[id].result = "process_died"
      => used.crashes > 0

\* A run completes only once its inbox is empty.
CompletedDropsNothing == \A d \in dropped : d.outcome # "completed"

\* A response is settled as aborted only with the cancellation durable.
AbortedIsDurable == AbortedOnlyUnderCancel

\* A standalone compaction is prepared from the leaf it was accepted at.
PreparedFromSource ==
  state.kind = "compaction" => prep[state.structural.task] = meta.source

(***************************************************************************)
(* Liveness.                                                               *)
(***************************************************************************)

\* What the runtime schedules: the driver's own steps, the rest of calls that
\* began, resume at start-up.  A retry time passes even if the driver sleeps
\* and is woken again and again.
Scheduling ==
  /\ WF_vars(Start)
  /\ WF_vars(Deregister)
  /\ WF_vars(AbortSignal)
  /\ WF_vars(Resume)
  /\ WF_vars(Reload)
  /\ WF_vars(PlanStep)
  /\ WF_vars(Wake)
  /\ SF_vars(ElapsedStep)

\* Providers and tools may hang, and end for certain only when they are woken.
HangingSpec == Spec /\ Scheduling /\ WF_vars(signal /\ EffectStep)

\* If providers and tools do answer, an operation that was accepted ends,
\* through retries, crashes and whatever is queued meanwhile (drive(), resume()).
OperationEnds == WF_vars(EffectStep) => (Busy ~> ~Busy)

\* A cancelled operation ends even if its effect hangs: abort() wakes it.
AbortEnds == (Busy /\ IsCancelled(state)) ~> ~Busy
=============================================================================
