------------------------------ MODULE OpState ------------------------------
(***************************************************************************)
(* The durable state of one operation (src/src/state.rs): the value kept   *)
(* in the op.state register, which is the program counter of a lane.       *)
(*                                                                         *)
(* Ids are naturals and 0 stands for an absent id.  Texts, settings that   *)
(* never change and time stamps are left out.                              *)
(***************************************************************************)
EXTENDS Naturals, Sequences

CONSTANTS
  ToolNames,     \* the tools a model may call
  MaxAttempts    \* RetryPolicy.max_attempts

ASSUME MaxAttemptsAssumption == MaxAttempts \in Nat \ {0}

NoId == 0
Id == Nat

(***************************************************************************)
(* Inputs, entries.  An assistant entry carries its stop reason and the    *)
(* tools it calls; a tool result carries what produced it; a compaction    *)
(* entry carries the leaf its preparation was built from.                  *)
(***************************************************************************)
InputKinds == {"message", "custom"}

StopReasons == {"stop", "length", "tool_use", "error", "aborted"}

\* "executed" is a real result, the others are the driver's synthetic ones.
ResultKinds ==
  {"executed", "aborted", "truncated", "unknown_tool", "blocked",
   "interrupted", "process_died"}

UserEntry(kind, parent) == [type |-> kind, parent |-> parent]

AssistantEntry(stop, calls, parent) ==
  [type |-> "assistant", parent |-> parent, stop |-> stop, calls |-> calls]

ResultEntry(kind, call, parent) ==
  [type |-> "toolResult", parent |-> parent, result |-> kind, call |-> call]

CompactionEntry(base, parent) ==
  [type |-> "compaction", parent |-> parent, base |-> base]

Entry ==
  [type: InputKinds, parent: Id]
    \cup [type: {"assistant"}, parent: Id, stop: StopReasons, calls: Seq(ToolNames)]
    \cup [type: {"toolResult"}, parent: Id, result: ResultKinds, call: Id \X Nat]
    \cup [type: {"compaction"}, parent: Id, base: Id]

(***************************************************************************)
(* The phases of a run.  The continuation of a checkpoint is one of        *)
(*   need             NeedAssistant { overflow_recovery_used: false }      *)
(*   need_overflowed  NeedAssistant { overflow_recovery_used: true }       *)
(*   finish           MayFinish { include_final_assistant: true }          *)
(*   finish_tools     MayFinish { include_final_assistant: false }         *)
(***************************************************************************)
Continuations == {"need", "need_overflowed", "finish", "finish_tools"}

Checkpoint == [p: {"checkpoint"}, cont: Continuations, trigger: Id,
               checked: Id, skip: BOOLEAN]

NeedAssistant(trigger) ==
  [p |-> "checkpoint", cont |-> "need", trigger |-> trigger,
   checked |-> NoId, skip |-> FALSE]

MayFinish(trigger, include) ==
  [p |-> "checkpoint", cont |-> IF include THEN "finish" ELSE "finish_tools",
   trigger |-> trigger, checked |-> NoId, skip |-> FALSE]

SkippingInbox(cp) == [cp EXCEPT !.skip = TRUE]

Needs(cp) == cp.cont \in {"need", "need_overflowed"}

GenStatus == {"ready", "pending", "wait"}

\* GenerationContext and Generation.
Generation == [p: {"assistant"}, gen: GenStatus, attempt: Nat, step: Id,
               trigger: Id, overflowed: BOOLEAN, response: Id, usage: Id]

GenerationReady(step, cp) ==
  [p |-> "assistant", gen |-> "ready", attempt |-> 1, step |-> step,
   trigger |-> cp.trigger, overflowed |-> cp.cont = "need_overflowed",
   response |-> NoId, usage |-> NoId]

Replay == {"safe", "never"}

\* ToolCallState; replay and terminate matter in one status each.
ToolCall == [status: {"planned", "pending", "completed"}, result: Id,
             replay: Replay, terminate: BOOLEAN]

Planned(result) ==
  [status |-> "planned", result |-> result, replay |-> "never", terminate |-> FALSE]

Tools == [p: {"tools"}, assistant: Id, step: Id, calls: Seq(ToolCall)]

\* StructuralDecision with the SummaryGeneration inside it.
Structural == [task: Id, status: {"deciding", "ready", "pending", "wait"},
               attempt: Nat, result: Id, usage: Id]

Deciding(task) ==
  [task |-> task, status |-> "deciding", attempt |-> 0, result |-> NoId, usage |-> NoId]

InRunCompaction == [p: {"compaction"}, reason: {"threshold", "overflow"},
                    structural: Structural, resume: Checkpoint]

\* provenance: the failed response, or NoId for structural work.
FailureDrain == [p: {"failure"}, provenance: Id]

Phase == Checkpoint \cup Generation \cup Tools \cup InRunCompaction \cup FailureDrain

(***************************************************************************)
(* Operation states.                                                       *)
(***************************************************************************)
Controls == {"running", "cancel_requested"}

Run == [kind: {"run"}, control: Controls, phase: Phase, latest: Id,
        steer: Seq(Id), followUp: Seq(Id), writes: Seq(Id), drained: Seq(Id)]

Compaction == [kind: {"compaction"}, control: Controls, structural: Structural]

Navigation == [kind: {"navigation"}, control: Controls, target: Id, label: BOOLEAN]

OperationState == Run \cup Compaction \cup Navigation

NoOperation == [kind |-> "none"]

IsCancelled(state) == state.control = "cancel_requested"

\* What abort() turns a running state into: queued steers and follow-ups are
\* set aside, deferred writes stay queued.
Cancel(state) ==
  IF state.kind = "run"
  THEN [state EXCEPT !.control = "cancel_requested",
                     !.drained = state.steer \o state.followUp,
                     !.steer = <<>>, !.followUp = <<>>]
  ELSE [state EXCEPT !.control = "cancel_requested"]

Outcomes == {"completed", "failed", "aborted", "declined"}
=============================================================================
