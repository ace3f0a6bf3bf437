---------------------------- MODULE LaneHarness ----------------------------
(***************************************************************************)
(* One lane under the public operations of src/src/harness.rs: callers     *)
(* start operations, queue input, abort; the process crashes and resumes.  *)
(*                                                                         *)
(* A caller's read-compute-commit loop is one step: its commit succeeds    *)
(* only if nothing was written since its read, and is tried again if not.  *)
(* What a caller does after its commit, and what it read before a commit   *)
(* that does not check it, are steps of their own.                         *)
(***************************************************************************)
EXTENDS LaneDriver

CONSTANTS
  PromptCounts,   \* how many prompts a run may start with
  QueueKinds      \* the queues callers use: subset of DOMAIN Run's queues

ASSUME CallersAssumption ==
  /\ PromptCounts \subseteq Nat \ {0}
  /\ QueueKinds \subseteq {"steer", "followUp", "writes"}

Init == StoreInit /\ DriverInit

(***************************************************************************)
(* Starting an operation: start(), then restore() of what it claimed, then *)
(* the registration of a cancel channel.                                   *)
(***************************************************************************)
\* One transaction claims the lane; a run adopts what waits for the next run.
Claim(op, next, source, target, prompts, minted, payloads, preparation) ==
  LET adopted == IF next.kind = "run" THEN lane.nextRun ELSE <<>> IN
  /\ ~Busy /\ ~recovering
  /\ fresh' = fresh + minted
  /\ lane' = [op |-> op,
              nextRun |-> IF next.kind = "run" THEN <<>> ELSE lane.nextRun]
  /\ laneSeq' = laneSeq + 1
  /\ meta' = [prompts |-> prompts, source |-> source, target |-> target]
  /\ state' = IF next.kind = "run" THEN [next EXCEPT !.writes = adopted \o @] ELSE next
  /\ stateSeq' = stateSeq + 1
  /\ pending' = Extend(pending, payloads)
  /\ prep' = Extend(prep, preparation)
  /\ pc' = "restore"
  /\ cur' = [op |-> op]
  /\ UNCHANGED <<entries, usage, leaf, toolArgs, labels, lastResult, then, signal,
                 chan, leaving, registry, history, signals, recovering>>

StartRun(n) ==
  LET ids == [i \in 1 .. n |-> fresh + i] IN
  /\ pc = "none"
  /\ Spend("runs")
  /\ Claim(fresh,
           [kind |-> "run", control |-> "running", phase |-> NeedAssistant(fresh + n),
            latest |-> NoId, steer |-> <<>>, followUp |-> <<>>, writes |-> ids,
            drained |-> <<>>],
           leaf, NoId, ids, n + 1, [id \in Range(ids) |-> "message"], <<>>)
  /\ UNCHANGED compacting

\* compact() builds its preparation before start() looks at the lane.
CompactPrepare ==
  /\ compacting = NoId /\ ~recovering
  /\ leaf # NoId
  /\ Spend("compacts")
  /\ compacting' = leaf
  /\ UNCHANGED <<durable, driverVars, registry, history, signals, recovering>>

CompactClaim ==
  /\ compacting # NoId
  /\ pc = "none"
  /\ compacting' = NoId
  /\ Claim(fresh, [kind |-> "compaction", control |-> "running",
                   structural |-> Deciding(fresh + 1)],
           leaf, NoId, <<>>, 2, <<>>, [t \in {fresh + 1} |-> compacting])
  /\ UNCHANGED used

CompactBusy ==
  /\ compacting # NoId
  /\ Busy
  /\ compacting' = NoId
  /\ UNCHANGED <<durable, driverVars, registry, used, history, signals, recovering>>

Navigate(target, label) ==
  /\ pc = "none"
  /\ Spend("navigations")
  /\ Claim(fresh, [kind |-> "navigation", control |-> "running",
                   target |-> target, label |-> label],
           leaf, target, <<>>, 1, <<>>, <<>>)
  /\ UNCHANGED compacting

NavigateSomewhere ==
  \E target \in DOMAIN entries \cup {NoId}, label \in BOOLEAN : Navigate(target, label)

\* start() reads its claim back.
RestoreClaim ==
  /\ pc = "restore"
  /\ IF Restorable /\ lane.op = cur.op
     THEN cur' = Current /\ pc' = "claimed"
     ELSE cur' = NoCurrent /\ pc' = "none"
  /\ UNCHANGED <<durable, then, signal, chan, leaving, registry, used, history, callers>>

\* drive() of the harness: a channel, armed if the snapshot is cancelled.
Register ==
  /\ pc = "claimed"
  /\ pc' = "plan"
  /\ signal' = IsCancelled(cur.state)
  /\ chan' = "live"
  /\ UNCHANGED <<durable, cur, then, leaving, registry, used, history, callers>>

\* cancels.remove(lane), whoever's sender is there by now.
Deregister ==
  /\ leaving > 0
  /\ leaving' = leaving - 1
  /\ chan' = "none"
  /\ UNCHANGED <<durable, pc, cur, then, signal, registry, used, history, callers>>

(***************************************************************************)
(* Amending an open run.                                                   *)
(***************************************************************************)
Enqueue(queue, kind) ==
  /\ Busy
  /\ Restorable
  /\ state.kind = "run"
  /\ IsCancelled(state) => queue = "writes"
  /\ Spend(queue)
  /\ fresh' = fresh + 1
  /\ pending' = Extend(pending, [id \in {fresh} |-> kind])
  /\ state' = [state EXCEPT ![queue] = Append(@, fresh)]
  /\ stateSeq' = stateSeq + 1
  /\ UNCHANGED <<entries, usage, leaf, lane, laneSeq, meta, toolArgs, prep, labels,
                 lastResult, driverVars, registry, history, callers>>

\* Only write_entry() takes content that is not a message.
KindsOf(queue) == IF queue = "writes" THEN InputKinds ELSE {"message"}

NextRun ==
  /\ Spend("nextRun")
  /\ fresh' = fresh + 1
  /\ pending' = Extend(pending, [id \in {fresh} |-> "message"])
  /\ lane' = [lane EXCEPT !.nextRun = Append(@, fresh)]
  /\ laneSeq' = laneSeq + 1
  /\ UNCHANGED <<entries, usage, leaf, meta, state, stateSeq, toolArgs, prep, labels,
                 lastResult, driverVars, registry, history, callers>>

\* abort(): the cancellation is committed first ...
Abort ==
  /\ Busy
  /\ Restorable
  /\ Spend("aborts")
  /\ IF IsCancelled(state) THEN UNCHANGED <<state, stateSeq>>
     ELSE state' = Cancel(state) /\ stateSeq' = stateSeq + 1
  /\ signals' = signals + 1
  /\ UNCHANGED <<fresh, entries, usage, leaf, lane, laneSeq, meta, pending, toolArgs,
                 prep, labels, lastResult, driverVars, registry, history,
                 compacting, recovering>>

\* Mutant of AbortSignal: nobody is woken.
AbortSignalLost ==
  /\ signals > 0
  /\ signals' = signals - 1
  /\ UNCHANGED <<durable, driverVars, registry, used, history, compacting, recovering>>

\* ... and only then is whoever is registered for the lane woken.
AbortSignal ==
  /\ signals > 0
  /\ signals' = signals - 1
  /\ signal' = (signal \/ chan = "live")
  /\ UNCHANGED <<durable, pc, cur, then, chan, leaving, registry, used, history,
                 compacting, recovering>>

(***************************************************************************)
(* The process dies and comes back, perhaps with other tools.              *)
(***************************************************************************)
Crash(tools) ==
  /\ Spend("crashes")
  /\ pc' = "none"
  /\ cur' = NoCurrent
  /\ then' = "plan"
  /\ signal' = FALSE
  /\ chan' = "none"
  /\ leaving' = 0
  /\ registry' = tools
  /\ signals' = 0
  /\ compacting' = NoId
  /\ recovering' = TRUE
  /\ UNCHANGED <<durable, history>>

\* Mutant of Resume: an operation in its tools phase is not picked up.
ResumeBetweenTurns ==
  /\ recovering
  /\ recovering' = FALSE
  /\ IF Busy /\ Restorable /\ (state.kind = "run" => state.phase.p # "tools")
     THEN cur' = Current /\ pc' = "claimed"
     ELSE UNCHANGED <<cur, pc>>
  /\ UNCHANGED <<durable, then, signal, chan, leaving, registry, used, history,
                 signals, compacting>>

\* resume(): once, before the process takes anything new.
Resume ==
  /\ recovering
  /\ recovering' = FALSE
  /\ IF Busy /\ Restorable
     THEN cur' = Current /\ pc' = "claimed"
     ELSE UNCHANGED <<cur, pc>>
  /\ UNCHANGED <<durable, then, signal, chan, leaving, registry, used, history,
                 signals, compacting>>

CallerStep ==
  \/ \E n \in PromptCounts : StartRun(n)
  \/ CompactPrepare \/ CompactClaim \/ CompactBusy
  \/ NavigateSomewhere
  \/ \E queue \in QueueKinds : \E kind \in KindsOf(queue) : Enqueue(queue, kind)
  \/ NextRun
  \/ Abort \/ AbortSignal
  \/ Resume
  \/ \E tools \in Registries : Crash(tools)

Start == RestoreClaim \/ Register \/ Deregister

Next ==
  /\ CallerStep \/ Start \/ DriverStep
  /\ UNCHANGED scenario

Spec == Init /\ [][Next]_<<vars, scenario>>
=============================================================================
