----------------------------- MODULE LaneDriver -----------------------------
(***************************************************************************)
(* The driver of src/src/lane.rs: it works from a snapshot of op.state,    *)
(* performs at most one effect and commits the next state on condition     *)
(* that op.state was not written since the snapshot.  Whatever happened to *)
(* the commit, it then reads the lane again and plans from what it finds.  *)
(***************************************************************************)
EXTENDS LaneStore

CONSTANTS
  Scenarios   \* name -> the settings of a lane and what its environment may do

\* What an environment does a bounded number of times.
Choices == {"runs", "compacts", "navigations", "steer", "followUp", "writes", "nextRun",
            "aborts", "crashes", "hooks", "turns"}

Response == [stop: StopReasons, calls: Seq(ToolNames),
             error: {"none", "retryable", "overflow", "fatal"}]

ASSUME ScenariosAssumption ==
  \A s \in DOMAIN Scenarios :
    /\ Scenarios[s].responses \subseteq Response
    /\ \A tools \in Scenarios[s].registries :
         \A name \in DOMAIN tools : tools[name] \in Replay
    /\ Scenarios[s].bounds \in [Choices -> Nat]

VARIABLES
  scenario,   \* the one this behaviour is about; it never changes
  pc,         \* where the drive() of this lane is
  cur,        \* the snapshot it works from
  then,       \* where the pending reload leads
  signal,     \* the value in its cancel channel
  chan,       \* whose sender Harness.cancels holds: "none", "old" or "live"
  leaving,    \* drive() calls that ended and did not deregister yet
  registry,   \* the tools this process registered
  signals,    \* abort() calls past their commit and not yet past their signal
  compacting, \* leaf a compact() call prepared from and did not claim yet
  recovering, \* the process restarted and did not resume the lane yet
  used,       \* how often each bounded choice was made
  invoked,    \* history: result id -> executions of that tool call
  requests,   \* history: generation step -> provider requests made for it
  dropped     \* history: queued inputs a terminal transaction deleted

Responses == Scenarios[scenario].responses     \* what a provider may answer: [stop, calls, error]
Registries == Scenarios[scenario].registries   \* what a process may register: tool -> replay
CompactionEnabled == Scenarios[scenario].compaction   \* RunSettings.compaction.enabled
SteeringMode == Scenarios[scenario].steering   \* QueueMode of steers, "all" or "one"
FollowUpMode == Scenarios[scenario].followUp   \* QueueMode of follow-ups
Bounds == Scenarios[scenario].bounds           \* how often each environment choice may be made

driverVars == <<pc, cur, then, signal, chan, leaving>>
callers == <<signals, compacting, recovering>>
history == <<invoked, requests, dropped>>
vars == <<durable, driverVars, registry, callers, used, history>>

NoCurrent == [op |-> NoId]

DriverInit ==
  /\ scenario \in DOMAIN Scenarios
  /\ pc = "none"
  /\ cur = NoCurrent
  /\ then = "plan"
  /\ signal = FALSE
  /\ chan = "none"
  /\ leaving = 0
  /\ registry \in Registries
  /\ signals = 0
  /\ compacting = NoId
  /\ recovering = FALSE
  /\ used = [b \in Choices |-> 0]
  /\ invoked = <<>>
  /\ requests = <<>>
  /\ dropped = {}

Spend(b) ==
  /\ used[b] < Bounds[b]
  /\ used' = [used EXCEPT ![b] = @ + 1]

\* History of the effects: a provider request, the execution of a tool call.
Requested(step) ==
  Extend(requests, [s \in {step} |-> 1 + IF s \in DOMAIN requests THEN requests[s] ELSE 0])

Executed(result, unsafe) ==
  LET before == IF result \in DOMAIN invoked THEN invoked[result] ELSE [n |-> 0, unsafe |-> FALSE]
  IN  Extend(invoked, [r \in {result} |-> [n |-> before.n + 1, unsafe |-> before.unsafe \/ unsafe]])

(***************************************************************************)
(* Commits.                                                                *)
(***************************************************************************)
\* Mutants of StateFresh and LaneFresh: commits without a condition.
StateUnchecked == TRUE
LaneUnchecked == TRUE

StateFresh == cur.stateSeq = stateSeq
LaneFresh == cur.laneSeq = laneSeq

\* transition(): commit on condition, then reload; an effect follows only a
\* commit that went through.
Transition(next, tx, effect) ==
  /\ IF StateFresh
     THEN CommitTransition(next, tx) /\ then' = effect
     ELSE UNCHANGED durable /\ then' = "plan"
  /\ pc' = "reload"
  /\ UNCHANGED <<cur, signal, chan, leaving, registry, callers, history>>

\* drive() returned: its sender stays registered until it deregisters.
Leave ==
  /\ pc' = "none"
  /\ cur' = NoCurrent
  /\ then' = "plan"
  /\ signal' = FALSE
  /\ chan' = IF chan = "live" THEN "old" ELSE chan
  /\ leaving' = leaving + 1

Dropped(s, outcome) ==
  {[id |-> id, queue |-> "steer", outcome |-> outcome] : id \in Range(s.steer)}
    \cup {[id |-> id, queue |-> "followUp", outcome |-> outcome] : id \in Range(s.followUp)}
    \cup {[id |-> id, queue |-> "writes", outcome |-> outcome] : id \in Range(s.writes)}

\* terminal(): conditional on op.state and on lane.state.
Terminal(outcome, tx, label) ==
  /\ IF StateFresh /\ LaneFresh
     THEN /\ CommitTerminal(cur, outcome, tx, label)
          /\ Leave
          /\ dropped' = dropped \cup
               (IF cur.state.kind = "run" THEN Dropped(cur.state, outcome) ELSE {})
     ELSE /\ UNCHANGED <<durable, cur, signal, chan, leaving, dropped>>
          /\ pc' = "reload"
          /\ then' = "plan"
  /\ UNCHANGED <<registry, callers, invoked, requests>>

AbortFinish == Terminal("aborted", NoWrites, {})

\* reload(), and with it the start of the effect the commit announced.
Reload ==
  /\ pc = "reload"
  /\ IF Restorable /\ lane.op = cur.op
     THEN /\ cur' = Current
          /\ pc' = then
          /\ UNCHANGED <<then, signal, chan, leaving>>
          /\ requests' = IF then = "model" THEN Requested(state.phase.step) ELSE requests
          /\ invoked' = IF then = "tool"
                        THEN LET c == CHOOSE c \in Range(state.phase.calls) : c.status = "pending"
                             IN  Executed(c.result, c.replay = "never")
                        ELSE invoked
     ELSE Leave /\ UNCHANGED <<requests, invoked>>
  /\ UNCHANGED <<durable, registry, callers, used, dropped>>

(***************************************************************************)
(* Checkpoints: drain the inbox, check the threshold, generate or finish.  *)
(***************************************************************************)
run == cur.state

Planning(p) == pc = "plan" /\ run.kind = "run" /\ run.phase.p = p

WithPhase(phase) == [run EXCEPT !.phase = phase]

Take(mode, queue) ==
  IF mode = "all" \/ queue = <<>> THEN queue ELSE <<Head(queue)>>

\* Mutant of Placement: the payloads stay pending.
PlacementKeepsPending(ids) ==
  LET at(id) == CHOOSE i \in DOMAIN ids : ids[i] = id IN
  [NoWrites EXCEPT
     !.entries = [id \in Range(ids) |->
                    UserEntry(pending[id],
                              IF at(id) = 1 THEN cur.leaf ELSE ids[at(id) - 1])],
     !.leaf = ids[Len(ids)]]

\* placement_writes(): the inputs become entries, chained below the leaf.
Placement(ids) ==
  LET at(id) == CHOOSE i \in DOMAIN ids : ids[i] = id IN
  [NoWrites EXCEPT
     !.entries = [id \in Range(ids) |->
                    UserEntry(pending[id],
                              IF at(id) = 1 THEN cur.leaf ELSE ids[at(id) - 1])],
     !.leaf = ids[Len(ids)],
     !.consumed = Range(ids)]

\* retain(): what was taken is the head of the queue, and nothing waits twice.
Remaining(queue, ids) == SubSeq(queue, Len(ids) + 1, Len(queue))

\* apply_inbox(): a message asks for an answer, unless the run is cancelled.
ApplyInbox(queue, ids) ==
  LET projects == \E id \in Range(ids) : pending[id] = "message"
      phase == IF projects /\ ~IsCancelled(run)
               THEN SkippingInbox(NeedAssistant(ids[Len(ids)]))
               ELSE IF run.phase.p = "checkpoint" THEN SkippingInbox(run.phase)
               ELSE run.phase
  IN  /\ ids # <<>>
      /\ Transition([run EXCEPT !.phase = phase, ![queue] = Remaining(run[queue], ids)],
                    Placement(ids), "plan")
      /\ UNCHANGED used

WritesDue == run.writes # <<>> /\ (~run.phase.skip \/ IsCancelled(run))

SteerDue == ~run.phase.skip /\ run.steer # <<>>

\* Mutant of Drained: a cancelled run goes on.
DrainedIgnoringCancel == ~WritesDue /\ ~SteerDue

\* Nothing of the inbox is due before generation.
Drained == ~WritesDue /\ ~IsCancelled(run) /\ ~SteerDue

ThresholdDue ==
  Needs(run.phase) /\ CompactionEnabled /\ run.phase.checked # run.phase.trigger

CheckpointWrites ==
  /\ Planning("checkpoint")
  /\ WritesDue
  /\ ApplyInbox("writes", run.writes)

CheckpointAbort ==
  /\ Planning("checkpoint")
  /\ ~WritesDue
  /\ IsCancelled(run)
  /\ AbortFinish
  /\ UNCHANGED used

CheckpointSteer ==
  /\ Planning("checkpoint")
  /\ ~WritesDue /\ ~IsCancelled(run) /\ SteerDue
  /\ ApplyInbox("steer", Take(SteeringMode, run.steer))

\* Over the threshold with something to compact, or not: either way this
\* trigger is not checked again.
CheckThreshold(over) ==
  LET checked == [run.phase EXCEPT !.checked = run.phase.trigger] IN
  /\ Planning("checkpoint")
  /\ Drained /\ ThresholdDue
  /\ IF over
     THEN Transition(
            WithPhase([p |-> "compaction", reason |-> "threshold",
                       structural |-> Deciding(fresh), resume |-> checked]),
            [NoWrites EXCEPT !.prep = Extend(prep, [t \in {fresh} |-> cur.leaf]),
                             !.minted = 1],
            "plan")
     ELSE Transition(WithPhase(checked), NoWrites, "plan")
  /\ UNCHANGED used

BeginGeneration ==
  /\ Planning("checkpoint")
  /\ Drained /\ ~ThresholdDue /\ Needs(run.phase)
  /\ Transition(WithPhase(GenerationReady(fresh, run.phase)),
                [NoWrites EXCEPT !.minted = 1], "plan")
  /\ UNCHANGED used

\* Neither inbox nor model has anything to do: the run may finish.
MayEnd == Planning("checkpoint") /\ Drained /\ ~Needs(run.phase)

CheckpointFollowUp ==
  /\ MayEnd
  /\ ApplyInbox("followUp", Take(FollowUpMode, run.followUp))

\* before_run_end asks for one more turn; its message is born placed.
RunEndHook ==
  /\ MayEnd
  /\ run.followUp = <<>>
  /\ Spend("hooks")
  /\ Transition(WithPhase(SkippingInbox(NeedAssistant(fresh))),
                [NoWrites EXCEPT
                   !.entries = [id \in {fresh} |-> UserEntry("message", cur.leaf)],
                   !.leaf = fresh, !.minted = 1],
                "plan")

\* Mutant of Complete: queued follow-ups do not hold it back.
CompleteEagerly ==
  /\ MayEnd
  /\ Terminal("completed", NoWrites, {})
  /\ UNCHANGED used

Complete ==
  /\ MayEnd
  /\ run.followUp = <<>>
  /\ Terminal("completed", NoWrites, {})
  /\ UNCHANGED used

(***************************************************************************)
(* A failed run first gives queued input the chance to continue it.        *)
(***************************************************************************)
FailureInbox ==
  /\ Planning("failure")
  /\ \/ ApplyInbox("writes", run.writes)
     \/ /\ run.writes = <<>> /\ ~IsCancelled(run)
        /\ ApplyInbox("steer", Take(SteeringMode, run.steer))
     \/ /\ run.writes = <<>> /\ ~IsCancelled(run) /\ run.steer = <<>>
        /\ ApplyInbox("followUp", Take(FollowUpMode, run.followUp))

FailureFinish ==
  /\ Planning("failure")
  /\ run.writes = <<>>
  /\ IF IsCancelled(run) THEN AbortFinish
     ELSE run.steer = <<>> /\ run.followUp = <<>> /\ Terminal("failed", NoWrites, {})
  /\ UNCHANGED used

(***************************************************************************)
(* Assistant generation.                                                   *)
(***************************************************************************)
Generating(g) == Planning("assistant") /\ run.phase.gen = g

\* A cancelled run neither starts a request nor waits for the next one.
GenerationAbort ==
  /\ Generating("ready") \/ Generating("wait")
  /\ IsCancelled(run)
  /\ AbortFinish
  /\ UNCHANGED used

\* The intent reserves the ids of the response and of its usage row.
AssistantIntent ==
  /\ Generating("ready")
  /\ ~IsCancelled(run)
  /\ Transition(WithPhase([run.phase EXCEPT !.gen = "pending",
                             !.response = fresh, !.usage = fresh + 1]),
                [NoWrites EXCEPT !.minted = 2], "model")
  /\ UNCHANGED used

\* Classification of a settled response (settle_assistant).
SettledPhase(g, resp, stop, cancelled, prepared) ==
  CASE cancelled -> MayFinish(g.response, TRUE)
    [] ~cancelled /\ stop = "error" /\ resp.error = "overflow" ->
         IF prepared /\ ~g.overflowed
         THEN [p |-> "compaction", reason |-> "overflow", structural |-> Deciding(fresh),
               resume |-> [p |-> "checkpoint", cont |-> "need_overflowed",
                           trigger |-> g.trigger, checked |-> g.trigger, skip |-> FALSE]]
         ELSE [p |-> "failure", provenance |-> g.response]
    [] ~cancelled /\ stop = "error" /\ resp.error # "overflow" ->
         IF resp.error = "retryable" /\ g.attempt < MaxAttempts
         THEN [g EXCEPT !.gen = "wait", !.attempt = @ + 1, !.response = NoId, !.usage = NoId]
         ELSE [p |-> "failure", provenance |-> g.response]
    [] ~cancelled /\ stop # "error" /\ resp.calls # <<>> ->
         [p |-> "tools", assistant |-> g.response, step |-> g.step,
          calls |-> [i \in DOMAIN resp.calls |-> Planned(fresh + i - 1)]]
    [] OTHER -> MayFinish(g.response, TRUE)

\* settle_assistant(): response, usage row and next state in one commit.
Settle(resp, prepared) ==
  LET g == run.phase
      cancelled == IsCancelled(run) \/ signal
      stop == IF cancelled THEN "aborted"
              ELSE IF resp.stop = "aborted" THEN "error" ELSE resp.stop
      next == SettledPhase(g, resp, stop, cancelled, prepared)
  IN  Transition(
        [run EXCEPT !.phase = next, !.latest = g.response],
        [NoWrites EXCEPT
           !.entries = [id \in {g.response} |-> AssistantEntry(stop, resp.calls, cur.leaf)],
           !.leaf = g.response,
           !.usage = {g.usage},
           !.prep = IF next.p = "compaction"
                    THEN Extend(prep, [t \in {fresh} |-> cur.leaf]) ELSE prep,
           !.minted = Len(resp.calls) + 1],
        "plan")

\* The provider answers, in time or not.
ModelReturns(resp, prepared) ==
  /\ pc = "model"
  /\ IF resp.calls # <<>> THEN Spend("turns") ELSE UNCHANGED used
  /\ Settle(resp, prepared)

Interrupted == [stop |-> "aborted", calls |-> <<>>, error |-> "fatal"]

\* The cancel channel wins over the response.
ModelInterrupted ==
  /\ pc = "model"
  /\ signal
  /\ Settle(Interrupted, FALSE)
  /\ UNCHANGED used

\* Mutant of AssistantRestored: the attempt that was lost does not count.
AssistantRestoredUncounted ==
  /\ Generating("pending")
  /\ IF IsCancelled(run) THEN Settle(Interrupted, FALSE)
     ELSE Transition(WithPhase([run.phase EXCEPT !.gen = "ready", !.response = NoId,
                                                 !.usage = NoId]), NoWrites, "plan")
  /\ UNCHANGED used

\* An intent found by planning: its effect is taken not to be running.
AssistantRestored ==
  /\ Generating("pending")
  /\ IF IsCancelled(run) THEN Settle(Interrupted, FALSE)
     ELSE IF run.phase.attempt < MaxAttempts
     THEN Transition(WithPhase([run.phase EXCEPT !.gen = "ready", !.attempt = @ + 1,
                                  !.response = NoId, !.usage = NoId]),
                     NoWrites, "plan")
     ELSE Settle([stop |-> "error", calls |-> <<>>, error |-> "fatal"], FALSE)
  /\ UNCHANGED used

\* not_before has passed.
RetryElapsed ==
  /\ Generating("wait")
  /\ ~IsCancelled(run)
  /\ Transition(WithPhase([run.phase EXCEPT !.gen = "ready"]), NoWrites, "plan")
  /\ UNCHANGED used


(***************************************************************************)
(* Tool calls, one at a time in source order.                              *)
(***************************************************************************)
batch == run.phase

\* Mutant of Unfinished: a call that was started counts as done.
Unstarted == {i \in DOMAIN batch.calls : batch.calls[i].status = "planned"}

Unfinished == {i \in DOMAIN batch.calls : batch.calls[i].status # "completed"}

\* The call the step is about.
At(i, status) ==
  /\ i \in Unfinished
  /\ \A j \in Unfinished : i <= j
  /\ batch.calls[i].status = status

ToolOf(i) == entries[batch.assistant].calls[i]

\* replay_of(): what this process declares about a tool, if it has it.
Declares(name) == IF name \in DOMAIN registry THEN registry[name] ELSE "none"

Stopping == IsCancelled(run) \/ signal

\* The batch is done: its arguments go, and it asks for the next response
\* unless every call ended the run.
BatchComplete ==
  LET last == batch.calls[Len(batch.calls)].result
      ended == \A i \in DOMAIN batch.calls : batch.calls[i].terminate
  IN  /\ Planning("tools")
      /\ Unfinished = {}
      /\ Transition(WithPhase(IF ended THEN MayFinish(last, FALSE) ELSE NeedAssistant(last)),
                    [NoWrites EXCEPT !.args = {k \in toolArgs : k[1] # batch.step}],
                    "plan")
      /\ UNCHANGED used

\* Mutant of CommitResult: every result hangs below the response.
CommitResultUnderCall(i, kind, terminate) ==
  LET result == batch.calls[i].result IN
  Transition([run EXCEPT !.phase.calls[i] =
                [Planned(result) EXCEPT !.status = "completed", !.terminate = terminate]],
             [NoWrites EXCEPT
                !.entries = [id \in {result} |->
                               ResultEntry(kind, <<batch.assistant, i>>, batch.assistant)],
                !.leaf = result],
             "plan")

\* commit_tool_result(): the result entry and the completed call, at once.
CommitResult(i, kind, terminate) ==
  LET result == batch.calls[i].result IN
  Transition([run EXCEPT !.phase.calls[i] =
                [Planned(result) EXCEPT !.status = "completed", !.terminate = terminate]],
             [NoWrites EXCEPT
                !.entries = [id \in {result} |->
                               ResultEntry(kind, <<batch.assistant, i>>, cur.leaf)],
                !.leaf = result],
             "plan")

\* Mutant of Refusal: whatever the model names is taken to be registered.
RefusalTrusting(i) ==
  IF Stopping THEN "aborted"
  ELSE IF entries[batch.assistant].stop = "length" THEN "truncated" ELSE "none"

\* Why a planned call gets a result without being run; "none" if it is run.
Refusal(i) ==
  CASE Stopping -> "aborted"
    [] ~Stopping /\ entries[batch.assistant].stop = "length" -> "truncated"
    [] ~Stopping /\ entries[batch.assistant].stop # "length"
         /\ Declares(ToolOf(i)) = "none" -> "unknown_tool"
    [] OTHER -> "none"

ToolRefused(i) ==
  /\ Planning("tools")
  /\ At(i, "planned")
  /\ Refusal(i) # "none"
  /\ CommitResult(i, Refusal(i), FALSE)
  /\ UNCHANGED used

\* before_tool may block the call, and end the run with it.
ToolBlocked(i, terminate) ==
  /\ Planning("tools")
  /\ At(i, "planned")
  /\ Refusal(i) = "none"
  /\ Spend("hooks")
  /\ CommitResult(i, "blocked", terminate)

\* Mutant of ToolIntent: the effective arguments are not made durable.
ToolIntentWithoutArgs(i) ==
  /\ Planning("tools")
  /\ At(i, "planned")
  /\ Refusal(i) = "none"
  /\ Transition([run EXCEPT !.phase.calls[i].status = "pending",
                            !.phase.calls[i].replay = Declares(ToolOf(i))],
                NoWrites, "tool")
  /\ UNCHANGED used

ToolIntent(i) ==
  /\ Planning("tools")
  /\ At(i, "planned")
  /\ Refusal(i) = "none"
  /\ Transition([run EXCEPT !.phase.calls[i].status = "pending",
                            !.phase.calls[i].replay = Declares(ToolOf(i))],
                [NoWrites EXCEPT !.args = @ \cup {<<batch.step, i>>}], "tool")
  /\ UNCHANGED used

\* The tool returned; after_tool may end the run, except once signalled.
ToolFinishes(i, terminate) ==
  /\ pc = "tool"
  /\ At(i, "pending")
  /\ signal => ~terminate
  /\ CommitResult(i, "executed", terminate)
  /\ UNCHANGED used

\* Mutant of Replayable: only what the tool declares now counts.
ReplayableNow(i) == Declares(ToolOf(i)) = "safe"

\* An intent found by planning: run it again only if it was, and still is,
\* declared safe to replay.
Replayable(i) ==
  batch.calls[i].replay = "safe" /\ Declares(ToolOf(i)) = "safe"

ToolReplayed(i) ==
  /\ Planning("tools")
  /\ At(i, "pending")
  /\ ~Stopping
  /\ Replayable(i)
  /\ pc' = "tool"
  /\ invoked' = Executed(batch.calls[i].result, Declares(ToolOf(i)) = "never")
  /\ UNCHANGED <<durable, cur, then, signal, chan, leaving, registry, callers, used,
                 requests, dropped>>

ToolGivenUp(i) ==
  /\ Planning("tools")
  /\ At(i, "pending")
  /\ Stopping \/ ~Replayable(i)
  /\ CommitResult(i, IF Stopping THEN "interrupted" ELSE "process_died", FALSE)
  /\ UNCHANGED used

(***************************************************************************)
(* Compaction: the same steps inside a run and as an operation of its own. *)
(***************************************************************************)
Standalone == run.kind = "compaction"

structural == IF Standalone THEN run.structural ELSE run.phase.structural

WithStructural(s) ==
  IF Standalone THEN [run EXCEPT !.structural = s] ELSE [run EXCEPT !.phase.structural = s]

Compacting == Standalone \/ (run.kind = "run" /\ run.phase.p = "compaction")

\* A decision to take, the run not being cancelled.
Structuring(status) ==
  /\ pc = "plan"
  /\ Compacting
  /\ ~IsCancelled(run)
  /\ structural.status = status

StructuralAbort ==
  /\ pc = "plan"
  /\ Compacting
  /\ IsCancelled(run)
  /\ AbortFinish
  /\ UNCHANGED used

\* The summary becomes an entry; a run goes on where it was, compact() ends.
Publish(result, tx) ==
  LET published == [tx EXCEPT
        !.entries = [id \in {result} |-> CompactionEntry(prep[structural.task], cur.leaf)],
        !.leaf = result]
  IN  IF Standalone THEN Terminal("completed", published, {})
      ELSE Transition(WithPhase(run.phase.resume), published, "plan")

\* No summary: a run drains its inbox before it fails.
SummaryFails(tx) ==
  IF Standalone THEN Terminal("failed", tx, {})
  ELSE Transition(WithPhase([p |-> "failure", provenance |-> NoId]), tx, "plan")

\* before_compaction declines; a run that merely was over the threshold goes on.
StructuralDeclined ==
  /\ Structuring("deciding")
  /\ Spend("hooks")
  /\ IF Standalone THEN Terminal("declined", NoWrites, {})
     ELSE IF run.phase.reason = "threshold"
     THEN Transition(WithPhase(run.phase.resume), NoWrites, "plan")
     ELSE SummaryFails(NoWrites)

\* before_compaction brings a summary of its own.
StructuralHookSummary ==
  /\ Structuring("deciding")
  /\ Spend("hooks")
  /\ Publish(fresh, [NoWrites EXCEPT !.minted = 1])

StructuralGenerate ==
  /\ Structuring("deciding")
  /\ Transition(WithStructural([structural EXCEPT !.status = "ready", !.attempt = 1,
                                                  !.result = fresh]),
                [NoWrites EXCEPT !.minted = 1], "plan")
  /\ UNCHANGED used

SummaryIntent ==
  /\ Structuring("ready")
  /\ Transition(WithStructural([structural EXCEPT !.status = "pending", !.usage = fresh]),
                [NoWrites EXCEPT !.minted = 1], "summary")
  /\ UNCHANGED used

\* Mutant of SummaryReturns: a run, too, retries with the control it had
\* before the intent.
SummaryReturnsStale(answer) ==
  LET billed == [NoWrites EXCEPT !.usage = {structural.usage}]
      retry == [structural EXCEPT !.status = "wait", !.attempt = @ + 1, !.usage = NoId]
  IN  /\ pc = "summary"
      /\ IF answer = "summary" /\ ~signal THEN Publish(structural.result, billed)
         ELSE IF answer = "retryable" /\ ~signal /\ structural.attempt < MaxAttempts
         THEN Transition([WithStructural(retry) EXCEPT !.control = "running"], billed, "plan")
         ELSE SummaryFails(billed)
      /\ UNCHANGED used

\* summary_effect() ends.  The state a standalone compaction writes when it
\* retries is the one it had before the intent, its control included.
SummaryReturns(answer) ==
  LET billed == [NoWrites EXCEPT !.usage = {structural.usage}]
      retry == [structural EXCEPT !.status = "wait", !.attempt = @ + 1, !.usage = NoId]
  IN  /\ pc = "summary"
      /\ IF answer = "summary" /\ ~signal THEN Publish(structural.result, billed)
         ELSE IF answer = "retryable" /\ ~signal /\ structural.attempt < MaxAttempts
         THEN Transition(IF Standalone THEN [WithStructural(retry) EXCEPT !.control = "running"]
                         ELSE WithStructural(retry),
                         billed, "plan")
         ELSE SummaryFails(billed)
      /\ UNCHANGED used

\* An intent found by planning: nothing is known of its request.
SummaryRestored ==
  /\ Structuring("pending")
  /\ IF structural.attempt < MaxAttempts
     THEN Transition(WithStructural([structural EXCEPT !.status = "ready", !.attempt = @ + 1,
                                                      !.usage = NoId]),
                    NoWrites, "plan")
     ELSE SummaryFails(NoWrites)
  /\ UNCHANGED used

SummaryRetryElapsed ==
  /\ Structuring("wait")
  /\ Transition(WithStructural([structural EXCEPT !.status = "ready"]), NoWrites, "plan")
  /\ UNCHANGED used

(***************************************************************************)
(* A retry whose not_before has not passed: sleep, read the lane again.    *)
(***************************************************************************)
RetrySleep ==
  /\ Structuring("wait") \/ (Generating("wait") /\ ~IsCancelled(run))
  /\ pc' = "sleep"
  /\ UNCHANGED <<durable, cur, then, signal, chan, leaving, registry, callers, used, history>>

Wake ==
  /\ pc = "sleep"
  /\ pc' = "reload"
  /\ then' = "plan"
  /\ UNCHANGED <<durable, cur, signal, chan, leaving, registry, callers, used, history>>

(***************************************************************************)
(* Navigation is one terminal transaction.                                 *)
(***************************************************************************)
\* Mutant of NavigationStep: the leaf moves in front of the target.
NavigationStepBefore ==
  /\ pc = "plan"
  /\ run.kind = "navigation"
  /\ Terminal("completed",
              [NoWrites EXCEPT !.leaf = IF run.target = NoId THEN NoId
                                        ELSE entries[run.target].parent], {})
  /\ UNCHANGED used

NavigationStep ==
  /\ pc = "plan"
  /\ run.kind = "navigation"
  /\ IF IsCancelled(run) THEN AbortFinish
     ELSE Terminal("completed", [NoWrites EXCEPT !.leaf = run.target],
                   IF run.label /\ run.target # NoId THEN {run.target} ELSE {})
  /\ UNCHANGED used

(***************************************************************************)
(* drive(): the steps it takes by itself, and those an effect ends.        *)
(***************************************************************************)
Answers == {"summary", "retryable", "fatal"}

CallIndices == UNION {DOMAIN resp.calls : resp \in Responses}

PlanStep ==
  \/ CheckpointWrites \/ CheckpointAbort \/ CheckpointSteer
  \/ \E over \in BOOLEAN : CheckThreshold(over)
  \/ BeginGeneration \/ CheckpointFollowUp \/ RunEndHook \/ Complete
  \/ FailureInbox \/ FailureFinish
  \/ GenerationAbort \/ AssistantIntent \/ AssistantRestored
  \/ BatchComplete
  \/ \E i \in CallIndices : ToolRefused(i) \/ ToolIntent(i) \/ ToolReplayed(i) \/ ToolGivenUp(i)
  \/ \E i \in CallIndices, terminate \in BOOLEAN : ToolBlocked(i, terminate)
  \/ StructuralAbort \/ StructuralDeclined \/ StructuralHookSummary \/ StructuralGenerate
  \/ SummaryIntent \/ SummaryRestored
  \/ NavigationStep

\* A retry time that passed.
ElapsedStep == RetryElapsed \/ SummaryRetryElapsed

\* The effects end.
EffectStep ==
  \/ \E resp \in Responses, prepared \in BOOLEAN : ModelReturns(resp, prepared)
  \/ ModelInterrupted
  \/ \E i \in CallIndices, terminate \in BOOLEAN : ToolFinishes(i, terminate)
  \/ \E answer \in Answers : SummaryReturns(answer)

DriverStep == Reload \/ PlanStep \/ ElapsedStep \/ EffectStep \/ RetrySleep \/ Wake
=============================================================================
