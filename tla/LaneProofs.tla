------------------------------ MODULE LaneProofs ------------------------------
(***************************************************************************)
(* A lane for any scenario, any number of operations, inputs, crashes and  *)
(* attempts.  The invariants come in layers: the driver's snapshot against *)
(* what is durable, then what rests on it.                                 *)
(***************************************************************************)
EXTENDS LaneProperties, TLAPS

Working == {"claimed", "plan", "model", "tool", "summary", "sleep", "reload"}
Settled == Working \ {"reload"}

Snapshot == [op: Id, state: OperationState, stateSeq: Nat, nextRun: Seq(Id), laneSeq: Nat,
             leaf: Id]

\* Callers amend the queues and the control of an operation, never its work.
SameWork(s, t) ==
  /\ s.kind = t.kind
  /\ s.kind = "run" => s.phase = t.phase /\ s.latest = t.latest
  /\ s.kind = "compaction" => s.structural = t.structural
  /\ s.kind = "navigation" => s.target = t.target /\ s.label = t.label

\* The part of the types that the driver steers by.
Control ==
  /\ fresh \in Nat \ {0} /\ leaf \in Id /\ DOMAIN entries \subseteq Id
  /\ lane \in [op: Id, nextRun: Seq(Id)]
  /\ state \in OperationState \cup {NoOperation}
  /\ laneSeq \in Nat /\ stateSeq \in Nat
  /\ lastResult.op \in Id
  /\ pc \in PcValues /\ then \in {"plan", "model", "tool", "summary"}
  /\ signal \in BOOLEAN
  /\ registry \in Registries /\ scenario \in DOMAIN Scenarios

\* One operation at a time, with a new id; only it is driven.
OneOperation ==
  /\ Busy <=> state # NoOperation
  /\ lane.op < fresh /\ lastResult.op < fresh
  /\ Busy => lastResult.op < lane.op
  /\ ~Busy => pc = "none"
  /\ recovering => pc = "none"

\* The snapshot is of this operation; unless a version moved on since, it
\* says what is durable, and its work is up to date even if one did.
Coherent ==
  /\ pc = "restore" => cur = [op |-> lane.op]
  /\ pc \in Working =>
       /\ cur \in Snapshot
       /\ cur.op = lane.op
       /\ cur.stateSeq <= stateSeq /\ (cur.stateSeq = stateSeq => cur.state = state /\ cur.leaf = leaf)
       /\ cur.laneSeq <= laneSeq /\ (cur.laneSeq = laneSeq => cur.nextRun = lane.nextRun)
  /\ pc \in Settled => SameWork(cur.state, state)

\* A batch has a call; an empty one would have no result to go on from.
HasCalls(s) == s.kind = "run" /\ s.phase.p = "tools" => s.phase.calls # <<>>

Batched == HasCalls(state) /\ (pc \in Working => HasCalls(cur.state))

Base == Control /\ OneOperation /\ Coherent /\ Batched

\* What must be durable before an effect starts, and while it runs.
Expects(effect, s) ==
  /\ effect = "model" => s.kind = "run" /\ s.phase.p = "assistant" /\ s.phase.gen = "pending"
  /\ effect = "tool" => /\ s.kind = "run" /\ s.phase.p = "tools"
                        /\ \E i \in DOMAIN s.phase.calls : s.phase.calls[i].status = "pending"
  /\ effect = "summary" =>
       \/ s.kind = "compaction" /\ s.structural.status = "pending"
       \/ /\ s.kind = "run" /\ s.phase.p = "compaction"
          /\ s.phase.structural.status = "pending"

\* An effect is started only behind its intent.
Announced ==
  /\ pc = "reload" => Expects(then, state)
  /\ pc \in {"model", "tool", "summary"} => Expects(pc, cur.state)

(***************************************************************************)
(* What a driver may commit, given its snapshot.                           *)
(***************************************************************************)
QueueNames == {"steer", "followUp", "writes"}

\* A transaction record that a commit understands.
Sound(tx) ==
  /\ DOMAIN tx = {"entries", "leaf", "usage", "consumed", "args", "prep", "minted"}
  /\ tx.minted \in Nat /\ tx.leaf \in Id /\ DOMAIN tx.entries \subseteq Id

Minted(tx) == {id \in Nat : fresh <= id /\ id < fresh + tx.minted}

\* Entry ids an operation has promised to an effect that did not settle.
StructuralIds(s) == IF s.status = "deciding" THEN {} ELSE {s.result}

Reserved(s) ==
  IF s.kind = "run"
  THEN IF s.phase.p = "assistant" /\ s.phase.gen = "pending" THEN {s.phase.response}
       ELSE IF s.phase.p = "tools"
       THEN {s.phase.calls[i].result :
               i \in {j \in DOMAIN s.phase.calls : s.phase.calls[j].status # "completed"}}
       ELSE IF s.phase.p = "compaction" THEN StructuralIds(s.phase.structural)
       ELSE {}
  ELSE IF s.kind = "compaction" THEN StructuralIds(s.structural) ELSE {}

\* Inputs leave the head of one queue, or none does.
Drains(next, tx) ==
  /\ next.drained = run.drained
  /\ \/ tx.consumed = {} /\ \A q \in QueueNames : next[q] = run[q]
     \/ \E q \in QueueNames : \E n \in 1 .. Len(run[q]) :
          /\ next[q] = SubSeq(run[q], n + 1, Len(run[q]))
          /\ tx.consumed = {run[q][j] : j \in 1 .. n}
          /\ \A o \in QueueNames \ {q} : next[o] = run[o]

\* A generation begins, or takes its next step.
Generates(before, g, tx, effect) ==
  /\ ~IsCancelled(run)
  /\ g.gen = "pending" => effect = "model"
  /\ \/ /\ before.p = "checkpoint" /\ g.gen = "ready" /\ g.attempt = 1
        /\ g.step = fresh /\ tx.minted = 1
     \/ /\ before.p = "assistant" /\ g.step = before.step
        /\ \/ before.gen = "ready" /\ g.gen = "pending" /\ g.attempt = before.attempt
           \/ before.gen = "wait" /\ g.gen = "ready" /\ g.attempt = before.attempt
           \/ /\ before.gen = "pending" /\ g.gen \in {"ready", "wait"}
              /\ before.attempt < MaxAttempts /\ g.attempt = before.attempt + 1

\* A batch is planned, or its first unfinished call takes its next step.
Batches(before, b, tx, effect) ==
  \/ /\ before.p = "assistant" /\ b.assistant = before.response
     /\ b.calls # <<>> /\ tx.minted = Len(b.calls) + 1
     /\ \A i \in DOMAIN b.calls : b.calls[i] = Planned(fresh + i - 1)
  \/ /\ before.p = "tools" /\ b.assistant = before.assistant
     /\ \E i \in DOMAIN before.calls, c \in ToolCall :
          /\ b.calls = [before.calls EXCEPT ![i] = c]
          /\ c.result = before.calls[i].result
          /\ \A j \in DOMAIN before.calls : j < i => before.calls[j].status = "completed"
          /\ \/ /\ before.calls[i].status = "planned" /\ c.status = "pending"
                /\ effect = "tool" /\ DOMAIN tx.entries = {} /\ ~IsCancelled(run)
             \/ /\ before.calls[i].status # "completed" /\ c.status = "completed"
                /\ effect = "plan" /\ DOMAIN tx.entries = {c.result}

\* An entry is placed under an id of its own; ids are promised once.
Reserves(next, tx) ==
  /\ \A id \in DOMAIN tx.entries : id \in Reserved(run) \cup tx.consumed \cup Minted(tx)
  /\ Reserved(next) = {} \/ DOMAIN tx.entries \subseteq Reserved(run)
  /\ \/ /\ run.kind = "run" /\ run.phase.p = "tools" /\ next.phase.p = "tools"
        /\ Reserved(next) \subseteq Reserved(run)
     \/ Reserved(next) \subseteq (Reserved(run) \ DOMAIN tx.entries) \cup Minted(tx)
  /\ tx.consumed \subseteq DOMAIN tx.entries

Legal(next, tx, effect) ==
  /\ next \in OperationState /\ next.kind = run.kind /\ Sound(tx)
  /\ effect \in {"plan", "model", "tool", "summary"} /\ Expects(effect, next)
  /\ next.control = run.control \/ (run.kind = "compaction" /\ next.control = "running")
  /\ IsCancelled(run) => Intents(next) \subseteq Intents(run) \cup {NoId}
  /\ IF run.kind = "run" THEN Drains(next, tx) ELSE tx.consumed = {}
  /\ run.kind = "run" /\ next.phase.p = "assistant" => Generates(run.phase, next.phase, tx, effect)
  /\ run.kind = "run" /\ next.phase.p = "tools" => Batches(run.phase, next.phase, tx, effect)
  /\ Reserves(next, tx)

Commits == \E next, tx, effect : Transition(next, tx, effect) /\ Legal(next, tx, effect)

\* A run or a navigation ends aborted exactly if it was cancelled, and a run
\* ends otherwise only with nothing queued that would continue it.
LegalEnd(outcome, tx) ==
  /\ outcome \in Outcomes /\ Sound(tx)
  /\ outcome = "aborted" => IsCancelled(run)
  /\ run.kind # "compaction" /\ IsCancelled(run) => outcome = "aborted"
  /\ run.kind = "run" /\ outcome # "aborted" => run.followUp = <<>>
  /\ run.kind = "run" /\ outcome = "failed" => run.steer = <<>> /\ run.writes = <<>>
  /\ \A id \in DOMAIN tx.entries : id \in Reserved(run) \cup Minted(tx)

Ends == \E outcome, tx, label : Terminal(outcome, tx, label) /\ LegalEnd(outcome, tx)

(***************************************************************************)
(* Shapes.                                                                 *)
(***************************************************************************)
\* The kind of a state, and the p of a phase, tell their shapes.
LEMMA StateShape ==
  ASSUME NEW s \in OperationState
  PROVE  /\ s.kind = "run" => s \in Run
         /\ s.kind = "compaction" => s \in Compaction
         /\ s.kind = "navigation" => s \in Navigation
         /\ s # NoOperation /\ s.kind \in {"run", "compaction", "navigation"}
BY DEF OperationState, Run, Compaction, Navigation, NoOperation

\* The p of a phase tells its shape.
LEMMA PhaseShape ==
  ASSUME NEW ph \in Phase
  PROVE  /\ ph.p = "checkpoint" => ph \in Checkpoint
         /\ ph.p = "assistant" => ph \in Generation
         /\ ph.p = "tools" => ph \in Tools
         /\ ph.p = "compaction" => ph \in InRunCompaction
         /\ ph.p = "failure" => ph \in FailureDrain
         /\ ph.p \in {"checkpoint", "assistant", "tools", "compaction", "failure"}
BY DEF Phase, Checkpoint, Generation, Tools, InRunCompaction, FailureDrain

\* A new phase or a new queue leaves the rest of a run alone.
LEMMA PhaseUpdate ==
  ASSUME NEW r \in Run, NEW ph \in Phase
  PROVE  LET n == [r EXCEPT !.phase = ph] IN
         /\ n \in Run /\ n \in OperationState /\ n.kind = "run" /\ n.phase = ph
         /\ n.control = r.control /\ n.latest = r.latest
         /\ n.steer = r.steer /\ n.followUp = r.followUp
         /\ n.writes = r.writes /\ n.drained = r.drained
BY DEF Run, OperationState

\* A run with another phase and another queue.
Requeued(r, ph, q, ids) == [r EXCEPT !.phase = ph, ![q] = ids]

\* Changing its phase and one queue changes nothing else of a run.
LEMMA QueueUpdate ==
  ASSUME NEW r \in Run, NEW ph \in Phase, NEW q \in QueueNames, NEW ids \in Seq(Id)
  PROVE  LET n == Requeued(r, ph, q, ids) IN
         /\ n \in Run /\ n \in OperationState /\ n.kind = "run" /\ n.phase = ph
         /\ n.control = r.control /\ n.latest = r.latest /\ n.drained = r.drained
         /\ n[q] = ids
         /\ \A o \in QueueNames : o # q => n[o] = r[o]
BY DEF Run, OperationState, QueueNames, Requeued

\* What a cancellation does to an operation.
LEMMA CancelUpdate ==
  ASSUME NEW s \in OperationState
  PROVE  /\ Cancel(s) \in OperationState /\ SameWork(s, Cancel(s)) /\ IsCancelled(Cancel(s))
         /\ s.kind = "run" => /\ Cancel(s).steer = <<>> /\ Cancel(s).followUp = <<>>
                              /\ Cancel(s).writes = s.writes
                              /\ Cancel(s).drained = s.steer \o s.followUp
<1>1. CASE s.kind = "run"
  <2>1. s \in Run
    BY <1>1, StateShape
  <2>2. s.steer \o s.followUp \in Seq(Id) /\ <<>> \in Seq(Id)
    BY <2>1 DEF Run
  <2> DEFINE d == s.steer \o s.followUp
  <2> HIDE DEF d
  <2>3. LET n == [s EXCEPT !.control = "cancel_requested", !.drained = d, !.steer = <<>>,
                           !.followUp = <<>>] IN
        /\ n \in Run /\ SameWork(s, n) /\ n.control = "cancel_requested" /\ n.steer = <<>>
        /\ n.followUp = <<>> /\ n.writes = s.writes /\ n.drained = d
    BY <2>1, <2>2 DEF Run, SameWork, Controls, d
  <2> QED
    BY <1>1, <2>3 DEF Cancel, OperationState, IsCancelled, d
<1>2. CASE s.kind = "compaction"
  <2>1. s \in Compaction
    BY <1>2, StateShape
  <2> QED
    BY <1>2, <2>1 DEF Cancel, OperationState, IsCancelled, Compaction, SameWork, Controls
<1>3. CASE s.kind = "navigation"
  <2>1. s \in Navigation
    BY <1>3, StateShape
  <2> QED
    BY <1>3, <2>1 DEF Cancel, OperationState, IsCancelled, Navigation, SameWork, Controls
<1> QED
  BY <1>1, <1>2, <1>3, StateShape

(***************************************************************************)
(* The base layer.                                                         *)
(***************************************************************************)
LEMMA NoWritesSound ==
  ASSUME leaf \in Id
  PROVE  Sound(NoWrites)
BY DEF Sound, NoWrites, Id

\* A driver that works has an open operation.
LEMMA WorkingIsBusy ==
  ASSUME Base, pc \in Working
  PROVE  Busy /\ state \in OperationState /\ lane.op \in Id /\ cur \in Snapshot /\ ~recovering
BY DEF Base, Control, OneOperation, Coherent, Working

\* A commit on condition, or its refusal.
LEMMA TransitionBase ==
  ASSUME Base, pc \in Settled, scenario' = scenario, NEW next \in OperationState, HasCalls(next),
         NEW tx, Sound(tx), NEW effect \in {"plan", "model", "tool", "summary"}, Transition(next, tx, effect)
  PROVE  Base'
<1> USE DEF Base
<1>1. pc \in Working /\ Busy
  BY WorkingIsBusy DEF Settled
<1>2. /\ pc' = "reload" /\ then' \in {"plan", effect}
      /\ UNCHANGED <<cur, signal, registry, recovering, lane, laneSeq, lastResult>>
      /\ \/ /\ state' = next /\ stateSeq' = stateSeq + 1 /\ fresh' = fresh + tx.minted /\ leaf' = tx.leaf
            /\ DOMAIN entries' = DOMAIN entries \cup DOMAIN tx.entries
         \/ UNCHANGED <<state, stateSeq, fresh, leaf, entries>>
  BY DEF Transition, CommitTransition, Write, Extend, durable, callers
<1>3. Control'
  BY <1>2 DEF Control, PcValues, Sound, Registries
<1>4. OneOperation'
  <2>1. next # NoOperation
    BY StateShape
  <2> QED
    BY <1>1, <1>2, <2>1, WorkingIsBusy DEF OneOperation, Busy, Control, Sound, Id
<1>5. Coherent'
  BY <1>1, <1>2 DEF Coherent, Control, Settled, Working, Snapshot
<1>6. Batched'
  BY <1>1, <1>2 DEF Batched, HasCalls, Working
<1> QED
  BY <1>3, <1>4, <1>5, <1>6

\* The terminal transaction, or its refusal.
LEMMA TerminalBase ==
  ASSUME Base, pc \in Settled, scenario' = scenario, NEW outcome, NEW tx, Sound(tx), NEW label,
         Terminal(outcome, tx, label)
  PROVE  Base'
<1> USE DEF Base
<1>1. pc \in Working /\ Busy
  BY WorkingIsBusy DEF Settled
<1>2. CASE StateFresh /\ LaneFresh
  <2>1. CommitTerminal(cur, outcome, tx, label) /\ Leave /\ UNCHANGED <<registry, recovering>>
    BY <1>2 DEF Terminal, callers
  <2>2. /\ fresh' = fresh + tx.minted /\ leaf' = tx.leaf /\ state' = NoOperation
        /\ stateSeq' = stateSeq + 1 /\ lane' = [op |-> NoId, nextRun |-> cur.nextRun]
        /\ laneSeq' = laneSeq + 1 /\ lastResult'.op = cur.op
        /\ DOMAIN entries' = DOMAIN entries \cup DOMAIN tx.entries
    BY <2>1 DEF CommitTerminal, Write, Extend, Sound
  <2>3. pc' = "none" /\ then' = "plan" /\ signal' \in BOOLEAN
    BY <2>1 DEF Leave
  <2>4. cur.op = lane.op /\ cur.nextRun \in Seq(Id) /\ lane.op \in Id
    BY <1>1 DEF Coherent, Snapshot, Control
  <2>5. Control'
    BY <2>1, <2>2, <2>3, <2>4 DEF Control, Sound, PcValues, Registries, Id, NoId
  <2>6. OneOperation'
    BY <2>2, <2>3, <2>4 DEF OneOperation, Busy, Control, Sound, Id, NoId
  <2>7. Coherent'
    BY <2>3 DEF Coherent, Working, Settled
  <2>8. Batched'
    BY <2>2, <2>3 DEF Batched, HasCalls, Working, NoOperation
  <2> QED
    BY <2>5, <2>6, <2>7, <2>8
<1>3. CASE ~(StateFresh /\ LaneFresh)
  <2>1. /\ UNCHANGED <<cur, signal, registry, recovering, lane, laneSeq, lastResult, state, stateSeq,
                       fresh, leaf, entries>>
        /\ pc' = "reload" /\ then' = "plan"
    BY <1>3 DEF Terminal, callers, durable
  <2>2. Control'
    BY <2>1 DEF Control, PcValues, Registries
  <2>3. OneOperation'
    BY <1>1, <2>1, WorkingIsBusy DEF OneOperation, Busy
  <2>4. Coherent'
    BY <1>1, <2>1 DEF Coherent, Working, Settled
  <2>5. Batched'
    BY <1>1, <2>1 DEF Batched, HasCalls, Working
  <2> QED
    BY <2>2, <2>3, <2>4, <2>5
<1> QED
  BY <1>2, <1>3

(***************************************************************************)
(* Every step of a driver is such a commit.                                *)
(***************************************************************************)
\* A driver that plans for a run.
LEMMA PlanningRun ==
  ASSUME Base, NEW ph, Planning(ph)
  PROVE  /\ pc \in Settled /\ run \in Run /\ run.phase \in Phase /\ run.phase.p = ph
         /\ run.kind = "run" /\ leaf \in Id /\ fresh \in Nat /\ cur.leaf \in Id
<1>1. pc = "plan" /\ run.kind = "run" /\ run.phase.p = ph
  BY DEF Planning
<1>2. run \in OperationState /\ cur.leaf \in Id
  BY <1>1 DEF Base, Coherent, Working, Snapshot, run
<1>3. run \in Run
  BY <1>1, <1>2, StateShape
<1> QED
  BY <1>1, <1>2, <1>3 DEF Settled, Working, Run, Base, Control

\* A step of a run that only changes its phase, to one without intents.
LEMMA Rephase ==
  ASSUME run \in Run, NEW ph \in Phase, NEW tx, Sound(tx), tx.consumed = {},
         ph.p \in {"checkpoint", "failure"} \/ (ph.p = "compaction" /\ ph.structural = Deciding(fresh)),
         \A id \in DOMAIN tx.entries : id \in Reserved(run) \cup Minted(tx),
         Transition(WithPhase(ph), tx, "plan")
  PROVE  Commits
<1> DEFINE next == WithPhase(ph)
<1>1. /\ next \in OperationState /\ next.kind = "run" /\ next.phase = ph
      /\ next.control = run.control /\ next.drained = run.drained
      /\ \A q \in QueueNames : next[q] = run[q]
  BY PhaseUpdate DEF WithPhase, QueueNames
<1>2. run.kind = "run"
  BY DEF Run
<1> HIDE DEF next
<1>3. Intents(next) \subseteq {NoId} /\ Reserved(next) = {}
  BY <1>1 DEF Intents, Reserved, StructuralIds, Deciding
<1>4. Drains(next, tx) /\ Reserves(next, tx) /\ Expects("plan", next)
  BY <1>1, <1>3 DEF Drains, Reserves, Expects
<1>5. Legal(next, tx, "plan")
  BY <1>1, <1>2, <1>3, <1>4 DEF Legal
<1> QED
  BY <1>5 DEF Commits, next

\* Take(): a head of the queue.
LEMMA TakesHead ==
  ASSUME NEW queue \in Seq(Id), NEW mode, Take(mode, queue) # <<>>
  PROVE  LET ids == Take(mode, queue) IN
         /\ ids \in Seq(Id) /\ Len(ids) \in 1 .. Len(queue)
         /\ \A j \in 1 .. Len(ids) : ids[j] = queue[j]
<1>1. CASE mode = "all" \/ queue = <<>>
  BY <1>1 DEF Take
<1>2. CASE ~(mode = "all" \/ queue = <<>>)
  <2>1. Take(mode, queue) = <<Head(queue)>> /\ Head(queue) \in Id /\ Head(queue) = queue[1]
    BY <1>2 DEF Take
  <2>2. Len(queue) \in Nat /\ Len(queue) # 0
    BY <1>2
  <2> QED
    BY <2>1, <2>2
<1> QED
  BY <1>1, <1>2

\* apply_inbox(): the head of a queue becomes entries.
LEMMA InboxCommits ==
  ASSUME Base, run \in Run, run.phase.p \in {"checkpoint", "failure"}, NEW q \in QueueNames,
         NEW ids \in Seq(Id), Len(ids) \in 1 .. Len(run[q]),
         \A j \in 1 .. Len(ids) : ids[j] = run[q][j], ApplyInbox(q, ids)
  PROVE  Commits
<1> DEFINE rest == Remaining(run[q], ids)
           tx == Placement(ids)
<1>1. run[q] \in Seq(Id) /\ run.phase \in Phase /\ run.kind = "run" /\ leaf \in Id
  BY DEF Run, QueueNames, Base, Control
<1>2. rest \in Seq(Id) /\ rest = SubSeq(run[q], Len(ids) + 1, Len(run[q]))
  BY <1>1 DEF Remaining
<1>3. ids[Len(ids)] \in Id
  OBVIOUS
<1>4. PICK ph : /\ Transition([run EXCEPT !.phase = ph, ![q] = rest], tx, "plan")
                /\ ph \in {SkippingInbox(NeedAssistant(ids[Len(ids)])), SkippingInbox(run.phase),
                           run.phase}
                /\ ph = SkippingInbox(run.phase) => run.phase.p = "checkpoint" \/ ph = run.phase
                    \/ ph = SkippingInbox(NeedAssistant(ids[Len(ids)]))
  BY DEF ApplyInbox
<1>5. ph \in Phase /\ ph.p \in {"checkpoint", "failure"}
  BY <1>1, <1>3, <1>4, PhaseShape DEF SkippingInbox, NeedAssistant, Checkpoint, Phase, Continuations,
    Id, NoId
<1>6. Sound(tx) /\ tx.consumed = Range(ids) /\ DOMAIN tx.entries = Range(ids)
  <2>1. tx.consumed = Range(ids) /\ DOMAIN tx.entries = Range(ids)
    BY DEF Placement, NoWrites
  <2>2. Range(ids) \subseteq Id
    BY DEF Range
  <2>3. DOMAIN tx = DOMAIN NoWrites /\ tx.minted = 0 /\ tx.leaf \in Id
    BY <1>3 DEF Placement, NoWrites
  <2> QED
    BY <2>1, <2>2, <2>3 DEF Sound, NoWrites
<1>7. Range(ids) = {run[q][j] : j \in 1 .. Len(ids)}
  BY DEF Range
<1> DEFINE next == Requeued(run, ph, q, rest)
<1> HIDE DEF rest
<1>8. /\ next \in OperationState /\ next.kind = "run" /\ next.phase = ph
      /\ next.control = run.control /\ next.drained = run.drained
      /\ next[q] = rest /\ \A o \in QueueNames : o # q => next[o] = run[o]
  <2>1. run \in Run /\ ph \in Phase /\ q \in QueueNames /\ rest \in Seq(Id)
    BY <1>2, <1>5
  <2>2. next \in OperationState
    BY <2>1, QueueUpdate
  <2>3. next[q] = rest
    BY <2>1, QueueUpdate
  <2>4. next.kind = "run" /\ next.phase = ph
    BY <2>1, QueueUpdate
  <2>5. next.control = run.control /\ next.drained = run.drained
    BY <2>1, QueueUpdate
  <2>6. \A o \in QueueNames : o # q => next[o] = run[o]
    BY <2>1, QueueUpdate
  <2> QED
    BY <2>2, <2>3, <2>4, <2>5, <2>6
<1> HIDE DEF next, rest, tx
<1>9. Intents(next) \subseteq {NoId} /\ Reserved(next) = {}
  BY <1>5, <1>8 DEF Intents, Reserved
<1>10. Drains(next, tx)
  <2>1. /\ next[q] = SubSeq(run[q], Len(ids) + 1, Len(run[q]))
        /\ tx.consumed = {run[q][j] : j \in 1 .. Len(ids)}
    BY <1>2, <1>6, <1>7, <1>8
  <2> QED
    BY <2>1, <1>8 DEF Drains
<1>11. Reserves(next, tx) /\ Expects("plan", next)
  BY <1>6, <1>9 DEF Reserves, Expects
<1>12. Legal(next, tx, "plan")
  BY <1>1, <1>5, <1>6, <1>8, <1>9, <1>10, <1>11 DEF Legal
<1> QED
  BY <1>4, <1>12 DEF Commits, next, Requeued

\* abort_finish() and the other ends that write nothing but the leaf.
LEMMA BareEnd ==
  ASSUME leaf \in Id, NEW outcome \in Outcomes, NEW to \in Id, NEW label,
         Terminal(outcome, [NoWrites EXCEPT !.leaf = to], label),
         outcome = "aborted" => IsCancelled(run),
         run.kind # "compaction" /\ IsCancelled(run) => outcome = "aborted",
         run.kind = "run" /\ outcome # "aborted" => run.followUp = <<>>,
         run.kind = "run" /\ outcome = "failed" => run.steer = <<>> /\ run.writes = <<>>
  PROVE  Ends
<1> DEFINE tx == [NoWrites EXCEPT !.leaf = to]
<1>1. Sound(tx) /\ DOMAIN tx.entries = {}
  BY DEF Sound, NoWrites
<1> HIDE DEF tx
<1>2. LegalEnd(outcome, tx)
  BY <1>1 DEF LegalEnd
<1> QED
  BY <1>2 DEF Ends, tx

\* An end that writes no entry.
LEMMA PlainEnd ==
  ASSUME leaf \in Id, NEW outcome \in Outcomes, Terminal(outcome, NoWrites, {}),
         outcome = "aborted" => IsCancelled(run),
         run.kind # "compaction" /\ IsCancelled(run) => outcome = "aborted",
         run.kind = "run" /\ outcome # "aborted" => run.followUp = <<>>,
         run.kind = "run" /\ outcome = "failed" => run.steer = <<>> /\ run.writes = <<>>
  PROVE  Ends
<1>1. Sound(NoWrites) /\ DOMAIN NoWrites.entries = {}
  BY DEF Sound, NoWrites, Id
<1>2. LegalEnd(outcome, NoWrites)
  BY <1>1 DEF LegalEnd
<1> QED
  BY <1>2 DEF Ends

\* An end that aborts what was cancelled.
LEMMA AbortEnd ==
  ASSUME leaf \in Id, IsCancelled(run), AbortFinish
  PROVE  Ends
BY PlainEnd DEF AbortFinish, Outcomes

\* The steps of a checkpoint.
LEMMA CheckpointCommits ==
  ASSUME Base,
         \/ CheckpointWrites \/ CheckpointAbort \/ CheckpointSteer
         \/ \E over \in BOOLEAN : CheckThreshold(over)
         \/ BeginGeneration \/ CheckpointFollowUp \/ RunEndHook \/ Complete
  PROVE  pc \in Settled /\ (Commits \/ Ends)
<1>1. Planning("checkpoint")
  BY DEF CheckpointWrites, CheckpointAbort, CheckpointSteer, CheckThreshold, BeginGeneration,
    CheckpointFollowUp, RunEndHook, Complete, MayEnd
<1>2. /\ pc \in Settled /\ run \in Run /\ run.phase \in Checkpoint /\ run.phase.p = "checkpoint"
      /\ run.kind = "run" /\ leaf \in Id /\ fresh \in Id /\ cur.leaf \in Id
  BY <1>1, PlanningRun, PhaseShape DEF Id
<1>3. run.writes \in Seq(Id) /\ run.steer \in Seq(Id) /\ run.followUp \in Seq(Id)
  BY <1>2 DEF Run
<1>4. CASE CheckpointWrites
  <2>1. Len(run.writes) \in 1 .. Len(run.writes)
    BY <1>3, <1>4 DEF CheckpointWrites, WritesDue
  <2> QED
    BY <1>2, <1>3, <1>4, <2>1, InboxCommits DEF CheckpointWrites, QueueNames
<1>5. CASE CheckpointSteer
  <2> DEFINE ids == Take(SteeringMode, run.steer)
  <2>1. ids # <<>> /\ ApplyInbox("steer", ids)
    BY <1>5 DEF CheckpointSteer, ApplyInbox
  <2>2. /\ ids \in Seq(Id) /\ Len(ids) \in 1 .. Len(run.steer)
        /\ \A j \in 1 .. Len(ids) : ids[j] = run.steer[j]
    BY <1>3, <2>1, TakesHead
  <2> HIDE DEF ids
  <2> QED
    BY <1>2, <2>1, <2>2, InboxCommits DEF QueueNames
<1>6. CASE CheckpointFollowUp
  <2> DEFINE ids == Take(FollowUpMode, run.followUp)
  <2>1. ids # <<>> /\ ApplyInbox("followUp", ids)
    BY <1>6 DEF CheckpointFollowUp, ApplyInbox
  <2>2. /\ ids \in Seq(Id) /\ Len(ids) \in 1 .. Len(run.followUp)
        /\ \A j \in 1 .. Len(ids) : ids[j] = run.followUp[j]
    BY <1>3, <2>1, TakesHead
  <2> HIDE DEF ids
  <2> QED
    BY <1>2, <2>1, <2>2, InboxCommits DEF QueueNames
<1>7. CASE CheckpointAbort
  BY <1>2, <1>7, AbortEnd DEF CheckpointAbort
<1>8. CASE Complete
  <2>1. Terminal("completed", NoWrites, {}) /\ ~IsCancelled(run) /\ run.followUp = <<>>
    BY <1>8 DEF Complete, MayEnd, Drained
  <2> QED
    BY <1>2, <2>1, PlainEnd DEF Outcomes
<1>9. CASE RunEndHook
  <2> DEFINE ph == SkippingInbox(NeedAssistant(fresh))
             tx == [NoWrites EXCEPT
                      !.entries = [id \in {fresh} |-> UserEntry("message", cur.leaf)],
                      !.leaf = fresh, !.minted = 1]
  <2>1. Transition(WithPhase(ph), tx, "plan")
    BY <1>9 DEF RunEndHook
  <2>2. ph \in Phase /\ ph.p = "checkpoint"
    BY <1>2 DEF SkippingInbox, NeedAssistant, Phase, Checkpoint, Continuations, Id, NoId
  <2>3. Sound(tx) /\ tx.consumed = {} /\ DOMAIN tx.entries = {fresh} /\ tx.minted = 1
    BY <1>2 DEF NoWrites, Sound, Id
  <2> HIDE DEF ph, tx
  <2>4. fresh \in Minted(tx)
    BY <1>2, <2>3 DEF Minted, Id
  <2> QED
    BY <1>2, <2>1, <2>2, <2>3, <2>4, Rephase
<1>10. ASSUME NEW over \in BOOLEAN, CheckThreshold(over)
       PROVE  Commits
  <2> DEFINE checked == [run.phase EXCEPT !.checked = run.phase.trigger]
             compaction == [p |-> "compaction", reason |-> "threshold",
                            structural |-> Deciding(fresh), resume |-> checked]
             tx == [NoWrites EXCEPT !.prep = Extend(prep, [t \in {fresh} |-> cur.leaf]),
                                    !.minted = 1]
  <2>1. checked \in Checkpoint /\ checked.p = "checkpoint"
    BY <1>2 DEF Checkpoint
  <2>2. CASE over
    <3>1. Transition(WithPhase(compaction), tx, "plan")
      BY <1>10, <2>2 DEF CheckThreshold
    <3>2. compaction \in Phase /\ compaction.p = "compaction"
          /\ compaction.structural = Deciding(fresh)
      BY <1>2, <2>1 DEF Phase, InRunCompaction, Deciding, Structural, Id, NoId
    <3>3. Sound(tx) /\ tx.consumed = {} /\ DOMAIN tx.entries = {}
      BY <1>2 DEF NoWrites, Sound, Id
    <3> HIDE DEF compaction, tx
    <3> QED
      BY <1>2, <3>1, <3>2, <3>3, Rephase
  <2>3. CASE ~over
    <3>1. Transition(WithPhase(checked), NoWrites, "plan")
      BY <1>10, <2>3 DEF CheckThreshold
    <3>2. Sound(NoWrites) /\ NoWrites.consumed = {} /\ DOMAIN NoWrites.entries = {}
      BY <1>2 DEF NoWrites, Sound, Id
    <3> HIDE DEF checked
    <3> QED
      BY <1>2, <2>1, <3>1, <3>2, Rephase DEF Phase
  <2> QED
    BY <2>2, <2>3
<1>11. CASE BeginGeneration
  <2> DEFINE g == GenerationReady(fresh, run.phase)
             next == WithPhase(g)
             tx == [NoWrites EXCEPT !.minted = 1]
  <2>1. Transition(next, tx, "plan") /\ ~IsCancelled(run)
    BY <1>11 DEF BeginGeneration, Drained
  <2>2. /\ g \in Phase /\ g.p = "assistant" /\ g.gen = "ready" /\ g.attempt = 1 /\ g.step = fresh
        /\ g.response = NoId
    BY <1>2 DEF GenerationReady, Phase, Generation, Checkpoint, GenStatus, Id, NoId
  <2>3. Sound(tx) /\ tx.consumed = {} /\ DOMAIN tx.entries = {} /\ tx.minted = 1
    BY <1>2 DEF NoWrites, Sound, Id
  <2> HIDE DEF g
  <2>4. /\ next \in OperationState /\ next.kind = "run" /\ next.phase = g
        /\ next.control = run.control /\ next.drained = run.drained
        /\ \A q \in QueueNames : next[q] = run[q]
    BY <1>2, <2>2, PhaseUpdate DEF WithPhase, QueueNames
  <2> HIDE DEF next, tx
  <2>5. Drains(next, tx) /\ Reserves(next, tx) /\ Expects("plan", next)
    BY <2>2, <2>3, <2>4 DEF Drains, Reserves, Expects, Reserved
  <2>6. Generates(run.phase, g, tx, "plan")
    BY <1>2, <2>1, <2>2, <2>3 DEF Generates
  <2>7. Legal(next, tx, "plan")
    BY <1>2, <2>1, <2>2, <2>3, <2>4, <2>5, <2>6 DEF Legal
  <2> QED
    BY <1>2, <2>1, <2>7 DEF Commits
<1> QED
  BY <1>2, <1>4, <1>5, <1>6, <1>7, <1>8, <1>9, <1>10, <1>11

\* The steps of a failed run.
LEMMA FailureCommits ==
  ASSUME Base, FailureInbox \/ FailureFinish
  PROVE  pc \in Settled /\ (Commits \/ Ends)
<1>1. Planning("failure")
  BY DEF FailureInbox, FailureFinish
<1>2. /\ pc \in Settled /\ run \in Run /\ run.phase.p = "failure"
      /\ run.kind = "run" /\ leaf \in Id
  BY <1>1, PlanningRun
<1>3. run.writes \in Seq(Id) /\ run.steer \in Seq(Id) /\ run.followUp \in Seq(Id)
  BY <1>2 DEF Run
<1>4. CASE FailureInbox /\ ApplyInbox("writes", run.writes)
  <2>1. Len(run.writes) \in 1 .. Len(run.writes)
    BY <1>3, <1>4 DEF ApplyInbox
  <2> QED
    BY <1>2, <1>3, <1>4, <2>1, InboxCommits DEF QueueNames
<1>5. CASE FailureInbox /\ ApplyInbox("steer", Take(SteeringMode, run.steer))
  <2> DEFINE ids == Take(SteeringMode, run.steer)
  <2>1. ids # <<>> /\ ApplyInbox("steer", ids)
    BY <1>5 DEF ApplyInbox
  <2>2. /\ ids \in Seq(Id) /\ Len(ids) \in 1 .. Len(run.steer)
        /\ \A j \in 1 .. Len(ids) : ids[j] = run.steer[j]
    BY <1>3, <2>1, TakesHead
  <2> HIDE DEF ids
  <2> QED
    BY <1>2, <2>1, <2>2, InboxCommits DEF QueueNames
<1>6. CASE FailureInbox /\ ApplyInbox("followUp", Take(FollowUpMode, run.followUp))
  <2> DEFINE ids == Take(FollowUpMode, run.followUp)
  <2>1. ids # <<>> /\ ApplyInbox("followUp", ids)
    BY <1>6 DEF ApplyInbox
  <2>2. /\ ids \in Seq(Id) /\ Len(ids) \in 1 .. Len(run.followUp)
        /\ \A j \in 1 .. Len(ids) : ids[j] = run.followUp[j]
    BY <1>3, <2>1, TakesHead
  <2> HIDE DEF ids
  <2> QED
    BY <1>2, <2>1, <2>2, InboxCommits DEF QueueNames
<1>7. CASE FailureFinish /\ IsCancelled(run)
  BY <1>2, <1>7, AbortEnd DEF FailureFinish
<1>8. CASE FailureFinish /\ ~IsCancelled(run)
  <2>1. /\ Terminal("failed", NoWrites, {}) /\ run.followUp = <<>> /\ run.steer = <<>>
        /\ run.writes = <<>>
    BY <1>8 DEF FailureFinish
  <2> QED
    BY <1>2, <1>8, <2>1, PlainEnd DEF Outcomes
<1> QED
  BY <1>4, <1>5, <1>6, <1>7, <1>8 DEF FailureInbox

\* Navigation.
LEMMA NavigationCommits ==
  ASSUME Base, NavigationStep
  PROVE  pc \in Settled /\ Ends
<1>1. pc = "plan" /\ run.kind = "navigation"
  BY DEF NavigationStep
<1>2. pc \in Settled /\ run \in OperationState /\ leaf \in Id
  BY <1>1 DEF Base, Coherent, Control, Snapshot, Working, Settled, run
<1>3. run.target \in Id
  BY <1>1, <1>2, StateShape DEF Navigation
<1>4. CASE IsCancelled(run)
  BY <1>2, <1>4, AbortEnd DEF NavigationStep
<1>5. CASE ~IsCancelled(run)
  <2>1. \E label : Terminal("completed", [NoWrites EXCEPT !.leaf = run.target], label)
    BY <1>5 DEF NavigationStep
  <2> QED
    BY <1>1, <1>2, <1>3, <1>5, <2>1, BareEnd DEF Outcomes
<1> QED
  BY <1>4, <1>5

\* A step of a run to another phase.
Moved(ph, latest) == [run EXCEPT !.phase = ph, !.latest = latest]

\* A step to another phase that leaves the inbox alone is a legal commit.
LEMMA PhaseCommits ==
  ASSUME run \in Run, NEW ph \in Phase, NEW latest \in Id, NEW tx, Sound(tx), tx.consumed = {},
         NEW effect \in {"plan", "model", "tool", "summary"}, Transition(Moved(ph, latest), tx, effect),
         \A next : next.kind = "run" /\ next.phase = ph =>
           /\ Expects(effect, next) /\ Reserves(next, tx)
           /\ IsCancelled(run) => Intents(next) \subseteq Intents(run) \cup {NoId},
         ph.p = "assistant" => Generates(run.phase, ph, tx, effect),
         ph.p = "tools" => Batches(run.phase, ph, tx, effect)
  PROVE  Commits
<1> DEFINE next == Moved(ph, latest)
<1>1. /\ next \in OperationState /\ next.kind = "run" /\ next.phase = ph
      /\ next.control = run.control /\ next.drained = run.drained
      /\ \A q \in QueueNames : next[q] = run[q]
  BY DEF Moved, Run, OperationState, QueueNames
<1>2. run.kind = "run"
  BY DEF Run
<1> HIDE DEF next
<1>3. Drains(next, tx)
  BY <1>1 DEF Drains
<1>4. Legal(next, tx, effect)
  BY <1>1, <1>2, <1>3 DEF Legal
<1> QED
  BY <1>4 DEF Commits, next

\* A step that says nothing of the newest response keeps it.
LEMMA MovedPhase ==
  ASSUME run \in Run, NEW ph
  PROVE  WithPhase(ph) = Moved(ph, run.latest) /\ run.latest \in Id
BY DEF WithPhase, Moved, Run

\* A batch as the response orders it.
LEMMA PlannedBatch ==
  ASSUME NEW calls \in Seq(ToolNames), NEW first \in Id, NEW assistant \in Id, NEW step \in Id
  PROVE  LET b == [p |-> "tools", assistant |-> assistant, step |-> step,
                   calls |-> [i \in DOMAIN calls |-> Planned(first + i - 1)]] IN
         /\ b \in Phase /\ b.p = "tools" /\ b.assistant = assistant
         /\ b.calls \in Seq(ToolCall) /\ Len(b.calls) = Len(calls)
         /\ \A i \in DOMAIN b.calls : b.calls[i] = Planned(first + i - 1)
<1> DEFINE planned == [i \in DOMAIN calls |-> Planned(first + i - 1)]
<1>1. Len(calls) \in Nat /\ DOMAIN calls = 1 .. Len(calls)
  OBVIOUS
<1>2. \A i \in DOMAIN calls : Planned(first + i - 1) \in ToolCall
  BY <1>1 DEF Planned, ToolCall, Replay, Id
<1>3. planned \in Seq(ToolCall) /\ Len(planned) = Len(calls)
  BY <1>1, <1>2
<1>4. \A i \in DOMAIN planned : planned[i] = Planned(first + i - 1)
  OBVIOUS
<1> HIDE DEF planned
<1>5. LET b == [p |-> "tools", assistant |-> assistant, step |-> step, calls |-> planned] IN
      b \in Phase /\ b.p = "tools" /\ b.assistant = assistant /\ b.calls = planned
  BY <1>3 DEF Phase, Tools
<1> QED
  BY <1>3, <1>4, <1>5 DEF planned

\* settle_assistant() leads to a checkpoint, a wait, a batch, a compaction or
\* the failure drain.
SettlesAs(g, resp, cancelled, next) ==
  /\ next \in Phase
  /\ \/ next.p \in {"checkpoint", "failure"}
     \/ ~cancelled /\ next.p = "compaction" /\ next.structural = Deciding(fresh)
     \/ /\ ~cancelled /\ g.attempt < MaxAttempts
        /\ next.p = "assistant" /\ next.gen = "wait" /\ next.attempt = g.attempt + 1
        /\ next.step = g.step /\ next.response = NoId
     \/ /\ ~cancelled /\ next.p = "tools" /\ next.assistant = g.response
        /\ next.calls \in Seq(ToolCall) /\ Len(next.calls) = Len(resp.calls) /\ resp.calls # <<>>
        /\ \A i \in DOMAIN next.calls : next.calls[i] = Planned(fresh + i - 1)

\* What a settled response turns a run into.
LEMMA SettledShape ==
  ASSUME NEW g \in Generation, NEW resp \in Response, NEW stop, NEW cancelled \in BOOLEAN,
         NEW prepared \in BOOLEAN, fresh \in Id
  PROVE  SettlesAs(g, resp, cancelled, SettledPhase(g, resp, stop, cancelled, prepared))
<1> DEFINE next == SettledPhase(g, resp, stop, cancelled, prepared)
           batched == [p |-> "tools", assistant |-> g.response, step |-> g.step,
                       calls |-> [i \in DOMAIN resp.calls |-> Planned(fresh + i - 1)]]
           overflown == [p |-> "compaction", reason |-> "overflow", structural |-> Deciding(fresh),
                         resume |-> [p |-> "checkpoint", cont |-> "need_overflowed",
                                     trigger |-> g.trigger, checked |-> g.trigger, skip |-> FALSE]]
           waits == [g EXCEPT !.gen = "wait", !.attempt = @ + 1, !.response = NoId, !.usage = NoId]
           fails == [p |-> "failure", provenance |-> g.response]
           finishes == MayFinish(g.response, TRUE)
<1>1. /\ g.response \in Id /\ g.trigger \in Id /\ g.step \in Id /\ g.attempt \in Nat
      /\ resp.calls \in Seq(ToolNames)
  BY DEF Generation, Response
<1>2. \/ next = finishes
      \/ next = fails
      \/ ~cancelled /\ next = overflown
      \/ ~cancelled /\ g.attempt < MaxAttempts /\ next = waits
      \/ ~cancelled /\ next = batched /\ resp.calls # <<>>
  BY ZenonT(60) DEF SettledPhase
<1>3. finishes \in Phase /\ finishes.p = "checkpoint"
  BY <1>1 DEF MayFinish, Phase, Checkpoint, Continuations, Id, NoId
<1>4. fails \in Phase /\ fails.p = "failure"
  BY <1>1 DEF Phase, FailureDrain
<1>5. overflown \in Phase /\ overflown.p = "compaction" /\ overflown.structural = Deciding(fresh)
  BY <1>1 DEF Phase, InRunCompaction, Checkpoint, Continuations, Deciding, Structural, Id, NoId
<1>6. /\ waits \in Phase /\ waits.p = "assistant" /\ waits.gen = "wait"
      /\ waits.attempt = g.attempt + 1 /\ waits.step = g.step /\ waits.response = NoId
  <2>1. waits \in Generation
    <3> DEFINE more == g.attempt + 1
    <3>1. more \in Nat
      BY <1>1
    <3> HIDE DEF more
    <3>2. [g EXCEPT !.gen = "wait", !.attempt = more, !.response = NoId, !.usage = NoId] \in Generation
      BY <3>1 DEF Generation, GenStatus, Id, NoId
    <3> QED
      BY <3>2 DEF more
  <2>2. /\ waits.p = "assistant" /\ waits.gen = "wait"
        /\ waits.attempt = g.attempt + 1 /\ waits.step = g.step /\ waits.response = NoId
    BY <1>1 DEF Generation
  <2> QED
    BY <2>1, <2>2 DEF Phase
<1>7. /\ batched \in Phase /\ batched.p = "tools" /\ batched.assistant = g.response
      /\ batched.calls \in Seq(ToolCall) /\ Len(batched.calls) = Len(resp.calls)
      /\ \A i \in DOMAIN batched.calls : batched.calls[i] = Planned(fresh + i - 1)
  BY <1>1, PlannedBatch
<1> HIDE DEF finishes, fails, overflown, waits, batched
<1> HIDE DEF next
<1> SUFFICES SettlesAs(g, resp, cancelled, next)
  BY DEF next
<1>8. CASE next = finishes \/ next = fails
  BY <1>3, <1>4, <1>8 DEF SettlesAs
<1>9. CASE ~cancelled /\ next = overflown
  BY <1>5, <1>9 DEF SettlesAs
<1>10. CASE ~cancelled /\ g.attempt < MaxAttempts /\ next = waits
  BY <1>6, <1>10 DEF SettlesAs
<1>11. CASE ~cancelled /\ next = batched /\ resp.calls # <<>>
  BY <1>7, <1>11 DEF SettlesAs
<1> QED
  BY <1>2, <1>8, <1>9, <1>10, <1>11

\* settle_assistant().
LEMMA SettleCommits ==
  ASSUME Base, run \in Run, run.phase \in Generation, run.phase.gen = "pending",
         NEW resp \in Response, NEW prepared \in BOOLEAN, Settle(resp, prepared)
  PROVE  Commits
<1> DEFINE g == run.phase
           cancelled == IsCancelled(run) \/ signal
           stop == IF cancelled THEN "aborted"
                   ELSE IF resp.stop = "aborted" THEN "error" ELSE resp.stop
           ph == SettledPhase(g, resp, stop, cancelled, prepared)
           tx == [NoWrites EXCEPT
                    !.entries = [id \in {g.response} |-> AssistantEntry(stop, resp.calls, cur.leaf)],
                    !.leaf = g.response,
                    !.usage = {g.usage},
                    !.prep = IF ph.p = "compaction"
                             THEN Extend(prep, [t \in {fresh} |-> cur.leaf]) ELSE prep,
                    !.minted = Len(resp.calls) + 1]
<1>1. Transition(Moved(ph, g.response), tx, "plan")
  BY DEF Settle, Moved
<1>2. /\ run.kind = "run" /\ g.p = "assistant" /\ g.response \in Id /\ fresh \in Nat
      /\ Len(resp.calls) \in Nat /\ resp.calls \in Seq(ToolNames)
  BY DEF Run, Generation, Response, Base, Control
<1>3. /\ Sound(tx) /\ tx.consumed = {} /\ DOMAIN tx.entries = {g.response}
      /\ tx.minted = Len(resp.calls) + 1
  BY <1>2 DEF Sound, NoWrites
<1>4. /\ ph \in Phase
      /\ \/ ph.p \in {"checkpoint", "failure"}
         \/ ph.p = "compaction" /\ ph.structural = Deciding(fresh)
         \/ /\ ~IsCancelled(run) /\ g.attempt < MaxAttempts
            /\ ph.p = "assistant" /\ ph.gen = "wait" /\ ph.attempt = g.attempt + 1
            /\ ph.step = g.step /\ ph.response = NoId
         \/ /\ ~IsCancelled(run) /\ ph.p = "tools" /\ ph.assistant = g.response
            /\ ph.calls \in Seq(ToolCall) /\ Len(ph.calls) = Len(resp.calls) /\ ph.calls # <<>>
            /\ \A i \in DOMAIN ph.calls : ph.calls[i] = Planned(fresh + i - 1)
  <2>1. g \in Generation /\ fresh \in Id /\ cancelled \in BOOLEAN
    BY <1>2 DEF Id, Base, Control
  <2>2. ~cancelled => ~IsCancelled(run)
    OBVIOUS
  <2> HIDE DEF stop, cancelled, g
  <2>3. SettlesAs(g, resp, cancelled, ph)
    BY <2>1, SettledShape
  <2> QED
    BY <2>2, <2>3 DEF SettlesAs
<1>5. Reserved(run) = {g.response}
  BY <1>2 DEF Reserved
<1> HIDE DEF ph, tx, stop, cancelled
<1>6. ASSUME NEW next, next.kind = "run", next.phase = ph
      PROVE  /\ Expects("plan", next) /\ Reserves(next, tx)
             /\ IsCancelled(run) => Intents(next) \subseteq Intents(run) \cup {NoId}
  <2>1. Expects("plan", next)
    BY DEF Expects
  <2>2. CASE ph.p \in {"checkpoint", "failure"}
    <3>1. Reserved(next) = {} /\ Intents(next) = {}
      BY <1>6, <2>2 DEF Reserved, Intents
    <3> QED
      BY <1>3, <1>5, <2>1, <3>1 DEF Reserves
  <2>3. CASE ph.p = "compaction" /\ ph.structural = Deciding(fresh)
    <3>1. Reserved(next) = {} /\ Intents(next) = {NoId}
      BY <1>6, <2>3 DEF Reserved, Intents, Deciding, StructuralIds
    <3> QED
      BY <1>3, <1>5, <2>1, <3>1 DEF Reserves
  <2>4. CASE ph.p = "assistant" /\ ph.gen = "wait" /\ ~IsCancelled(run)
    <3>1. Reserved(next) = {}
      BY <1>6, <2>4 DEF Reserved
    <3> QED
      BY <1>3, <1>5, <2>1, <2>4, <3>1 DEF Reserves
  <2>5. CASE /\ ph.p = "tools" /\ ~IsCancelled(run) /\ ph.calls \in Seq(ToolCall)
             /\ Len(ph.calls) = Len(resp.calls)
             /\ \A i \in DOMAIN ph.calls : ph.calls[i] = Planned(fresh + i - 1)
    <3>1. \A id \in Reserved(next) : \E i \in DOMAIN ph.calls : id = ph.calls[i].result
      BY <1>6, <2>5 DEF Reserved
    <3>2. \A i \in DOMAIN ph.calls : ph.calls[i].result = fresh + i - 1 /\ i \in 1 .. Len(resp.calls)
      <4>1. DOMAIN ph.calls = 1 .. Len(resp.calls)
        BY <2>5
      <4>2. \A i \in DOMAIN ph.calls : ph.calls[i] = Planned(fresh + i - 1)
        BY <2>5
      <4>3. \A id : Planned(id).result = id
        BY DEF Planned
      <4> QED
        BY <4>1, <4>2, <4>3
    <3>3. Reserved(next) \subseteq Minted(tx)
      BY <1>2, <1>3, <3>1, <3>2 DEF Minted
    <3> QED
      BY <1>3, <1>5, <2>1, <2>5, <3>3 DEF Reserves
  <2> QED
    BY <1>4, <2>2, <2>3, <2>4, <2>5
<1>7. ph.p = "assistant" => Generates(g, ph, tx, "plan")
  BY <1>2, <1>4 DEF Generates
<1>8. ph.p = "tools" => Batches(g, ph, tx, "plan")
  BY <1>2, <1>3, <1>4 DEF Batches
<1> QED
  BY <1>1, <1>2, <1>3, <1>4, <1>6, <1>7, <1>8, PhaseCommits

\* A driver that waits for an effect, or plans after one, is in a run, and
\* what may be answered is a response.
LEMMA Answered ==
  ASSUME Base
  PROVE  Responses \subseteq Response /\ Interrupted \in Response
BY ScenariosAssumption DEF Base, Control, Responses, Interrupted, Response, StopReasons

\* The steps of a generation.
LEMMA AssistantCommits ==
  ASSUME Base, Announced,
         \/ GenerationAbort \/ AssistantIntent \/ AssistantRestored \/ RetryElapsed
         \/ \E resp \in Responses, prepared \in BOOLEAN : ModelReturns(resp, prepared)
         \/ ModelInterrupted
  PROVE  pc \in Settled /\ (Commits \/ Ends)
<1>1. pc = "model" \/ Planning("assistant")
  BY DEF GenerationAbort, AssistantIntent, AssistantRestored, RetryElapsed, ModelReturns,
    ModelInterrupted, Generating
<1>2. /\ pc \in Settled /\ run \in Run /\ run.phase \in Generation /\ run.kind = "run"
      /\ run.phase.p = "assistant" /\ leaf \in Id /\ fresh \in Id
  <2>1. CASE pc = "model"
    <3>1. run.kind = "run" /\ run.phase.p = "assistant" /\ run \in OperationState
      BY <2>1 DEF Announced, Expects, Base, Coherent, Working, Snapshot, run
    <3>2. run \in Run /\ leaf \in Id /\ fresh \in Id
      BY <3>1, StateShape DEF Base, Control, Id
    <3> QED
      BY <2>1, <3>1, <3>2, PhaseShape DEF Run, Settled, Working
  <2>2. CASE Planning("assistant")
    BY <2>2, PlanningRun, PhaseShape DEF Id
  <2> QED
    BY <1>1, <2>1, <2>2
<1>3. pc = "model" => run.phase.gen = "pending"
  BY DEF Announced, Expects, run
<1> DEFINE g == run.phase
<1>4. /\ g.response \in Id /\ g.step \in Id /\ g.attempt \in Nat /\ g.gen \in GenStatus
  BY <1>2 DEF Generation
<1>5. CASE GenerationAbort
  BY <1>2, <1>5, AbortEnd DEF GenerationAbort
<1>6. CASE \E resp \in Responses, prepared \in BOOLEAN : ModelReturns(resp, prepared)
  <2>1. PICK resp \in Response, prepared \in BOOLEAN : pc = "model" /\ Settle(resp, prepared)
    BY <1>6, Answered DEF ModelReturns
  <2> QED
    BY <1>2, <1>3, <2>1, SettleCommits
<1>7. CASE ModelInterrupted
  BY <1>2, <1>3, <1>7, Answered, SettleCommits DEF ModelInterrupted
<1>8. CASE AssistantIntent
  <2> DEFINE ph == [g EXCEPT !.gen = "pending", !.response = fresh, !.usage = fresh + 1]
             tx == [NoWrites EXCEPT !.minted = 2]
  <2>1. /\ Transition(Moved(ph, run.latest), tx, "model") /\ ~IsCancelled(run)
        /\ g.gen = "ready" /\ run.latest \in Id
    <3>1. Transition(WithPhase(ph), tx, "model") /\ ~IsCancelled(run) /\ g.gen = "ready"
      BY <1>8 DEF AssistantIntent, Generating
    <3> HIDE DEF ph, tx
    <3> QED
      BY <1>2, <3>1, MovedPhase
  <2>2. ph \in Generation
    <3> DEFINE row == fresh + 1
    <3>1. row \in Id
      BY <1>2 DEF Id
    <3> HIDE DEF row
    <3>2. [g EXCEPT !.gen = "pending", !.response = fresh, !.usage = row] \in Generation
      BY <1>2, <3>1 DEF Generation, GenStatus
    <3> QED
      BY <3>2 DEF row
  <2>3. /\ ph \in Phase /\ ph.p = "assistant" /\ ph.gen = "pending" /\ ph.response = fresh
        /\ ph.attempt = g.attempt /\ ph.step = g.step
    BY <1>2, <2>2 DEF Phase, Generation
  <2>4. Sound(tx) /\ tx.consumed = {} /\ DOMAIN tx.entries = {} /\ tx.minted = 2
    BY <1>2 DEF NoWrites, Sound, Id
  <2>5. fresh \in Minted(tx)
    BY <1>2, <2>4 DEF Minted, Id
  <2> HIDE DEF ph, tx
  <2>6. ASSUME NEW next, next.kind = "run", next.phase = ph
        PROVE  Expects("model", next) /\ Reserves(next, tx)
    BY <2>3, <2>4, <2>5, <2>6 DEF Expects, Reserves, Reserved
  <2>7. Generates(g, ph, tx, "model")
    BY <1>2, <2>1, <2>3 DEF Generates
  <2> QED
    BY <1>2, <2>1, <2>3, <2>4, <2>6, <2>7, PhaseCommits
<1>9. CASE RetryElapsed
  <2> DEFINE ph == [g EXCEPT !.gen = "ready"]
  <2>1. /\ Transition(Moved(ph, run.latest), NoWrites, "plan") /\ ~IsCancelled(run)
        /\ g.gen = "wait" /\ run.latest \in Id
    BY <1>2, <1>9, MovedPhase DEF RetryElapsed, Generating
  <2>2. ph \in Generation
    BY <1>2 DEF Generation, GenStatus
  <2>3. /\ ph \in Phase /\ ph.p = "assistant" /\ ph.gen = "ready"
        /\ ph.attempt = g.attempt /\ ph.step = g.step
    BY <1>2, <2>2 DEF Phase, Generation
  <2>4. Sound(NoWrites) /\ NoWrites.consumed = {} /\ DOMAIN NoWrites.entries = {}
    BY <1>2 DEF NoWrites, Sound, Id
  <2> HIDE DEF ph
  <2>6. ASSUME NEW next, next.kind = "run", next.phase = ph
        PROVE  Expects("plan", next) /\ Reserves(next, NoWrites)
    BY <2>3, <2>4, <2>6 DEF Expects, Reserves, Reserved
  <2>7. Generates(g, ph, NoWrites, "plan")
    BY <1>2, <2>1, <2>3 DEF Generates
  <2> QED
    BY <1>2, <2>1, <2>3, <2>4, <2>6, <2>7, PhaseCommits
<1>10. CASE AssistantRestored
  <2>1. g.gen = "pending"
    BY <1>10 DEF AssistantRestored, Generating
  <2>2. CASE IsCancelled(run)
    <3>1. Settle(Interrupted, FALSE)
      BY <1>10, <2>2 DEF AssistantRestored
    <3> QED
      BY <1>2, <2>1, <3>1, Answered, SettleCommits
  <2>3. CASE ~IsCancelled(run) /\ ~(g.attempt < MaxAttempts)
    <3>1. Settle([stop |-> "error", calls |-> <<>>, error |-> "fatal"], FALSE)
      BY <1>10, <2>3 DEF AssistantRestored
    <3>2. [stop |-> "error", calls |-> <<>>, error |-> "fatal"] \in Response
      BY DEF Response, StopReasons
    <3> QED
      BY <1>2, <2>1, <3>1, <3>2, SettleCommits
  <2>4. CASE ~IsCancelled(run) /\ g.attempt < MaxAttempts
    <3> DEFINE more == g.attempt + 1
               ph == [g EXCEPT !.gen = "ready", !.attempt = more, !.response = NoId, !.usage = NoId]
    <3>1. Transition(Moved(ph, run.latest), NoWrites, "plan") /\ run.latest \in Id
      BY <1>2, <1>10, <2>4, MovedPhase DEF AssistantRestored
    <3>2. more \in Nat
      BY <1>4
    <3> HIDE DEF more
    <3>3. ph \in Generation
      BY <1>2, <3>2 DEF Generation, GenStatus, Id, NoId
    <3>4. /\ ph \in Phase /\ ph.p = "assistant" /\ ph.gen = "ready"
          /\ ph.attempt = more /\ ph.step = g.step
      BY <1>2, <3>3 DEF Phase, Generation
    <3>5. Sound(NoWrites) /\ NoWrites.consumed = {} /\ DOMAIN NoWrites.entries = {}
      BY <1>2 DEF NoWrites, Sound, Id
    <3> HIDE DEF ph
    <3>6. ASSUME NEW next, next.kind = "run", next.phase = ph
          PROVE  Expects("plan", next) /\ Reserves(next, NoWrites)
      BY <3>4, <3>5, <3>6 DEF Expects, Reserves, Reserved
    <3>7. Generates(g, ph, NoWrites, "plan")
      BY <1>2, <2>1, <2>4, <3>4 DEF Generates, more
    <3> QED
      BY <1>2, <2>4, <3>1, <3>4, <3>5, <3>6, <3>7, PhaseCommits
  <2> QED
    BY <2>2, <2>3, <2>4
<1> QED
  BY <1>5, <1>6, <1>7, <1>8, <1>9, <1>10

\* A batch with another state of one call.
Recalled(i, c) == [batch EXCEPT !.calls = [batch.calls EXCEPT ![i] = c]]

\* Changing one call changes nothing else of a batch.
LEMMA CallUpdate ==
  ASSUME batch \in Tools, NEW i \in DOMAIN batch.calls, NEW c \in ToolCall
  PROVE  /\ Recalled(i, c) \in Phase /\ Recalled(i, c).p = "tools"
         /\ Recalled(i, c).assistant = batch.assistant
         /\ Recalled(i, c).calls = [batch.calls EXCEPT ![i] = c]
         /\ Recalled(i, c).calls \in Seq(ToolCall)
         /\ DOMAIN Recalled(i, c).calls = DOMAIN batch.calls
<1>1. [batch.calls EXCEPT ![i] = c] \in Seq(ToolCall)
  BY DEF Tools
<1>2. Recalled(i, c) \in Tools
  BY <1>1 DEF Recalled, Tools
<1> QED
  BY <1>1, <1>2 DEF Recalled, Tools, Phase

\* The step of one call, the first that is unfinished.
LEMMA CallCommits ==
  ASSUME Base, run \in Run, batch \in Tools, NEW i \in DOMAIN batch.calls, NEW c \in ToolCall,
         c.result = batch.calls[i].result,
         \A j \in Unfinished : i <= j,
         NEW tx, Sound(tx), tx.consumed = {}, tx.minted = 0, NEW effect,
         Transition(Moved(Recalled(i, c), run.latest), tx, effect),
         \/ /\ batch.calls[i].status = "planned" /\ c.status = "pending"
            /\ effect = "tool" /\ DOMAIN tx.entries = {} /\ ~IsCancelled(run)
         \/ /\ batch.calls[i].status # "completed" /\ c.status = "completed"
            /\ effect = "plan" /\ DOMAIN tx.entries = {c.result}
  PROVE  Commits
<1> DEFINE ph == Recalled(i, c)
<1>1. /\ ph \in Phase /\ ph.p = "tools" /\ ph.assistant = batch.assistant
      /\ ph.calls = [batch.calls EXCEPT ![i] = c] /\ DOMAIN ph.calls = DOMAIN batch.calls
  BY CallUpdate
<1>2. /\ run.kind = "run" /\ batch.p = "tools" /\ run.latest \in Id /\ batch.calls \in Seq(ToolCall)
  BY DEF Run, Tools
<1>3. DOMAIN batch.calls = 1 .. Len(batch.calls) /\ Len(batch.calls) \in Nat
  BY <1>2
<1>4. \A j \in DOMAIN batch.calls : j < i => batch.calls[j].status = "completed"
  BY <1>3 DEF Unfinished
<1>5. effect \in {"plan", "tool"}
  OBVIOUS
<1>6. Batches(batch, ph, tx, effect)
  BY <1>1, <1>2, <1>4 DEF Batches
<1> HIDE DEF ph
<1>7. Reserved(run) = {batch.calls[j].result : j \in {k \in DOMAIN batch.calls :
                         batch.calls[k].status # "completed"}}
  BY <1>2 DEF Reserved, batch
<1>8. ASSUME NEW next, next.kind = "run", next.phase = ph
      PROVE  /\ Expects(effect, next) /\ Reserves(next, tx)
             /\ IsCancelled(run) => Intents(next) \subseteq Intents(run) \cup {NoId}
  <2>1. ph.calls[i] = c /\ \A j \in DOMAIN batch.calls : j # i => ph.calls[j] = batch.calls[j]
    BY <1>1
  <2>2. Expects(effect, next)
    BY <1>1, <1>8, <2>1 DEF Expects
  <2>3. Reserved(next) \subseteq Reserved(run)
    BY <1>1, <1>7, <1>8, <2>1 DEF Reserved
  <2>4. DOMAIN tx.entries \subseteq Reserved(run)
    BY <1>7
  <2>5. Reserves(next, tx)
    BY <1>1, <1>2, <1>8, <2>3, <2>4 DEF Reserves, batch
  <2>6. IsCancelled(run) => Intents(next) \subseteq Intents(run) \cup {NoId}
    <3>1. Intents(run) = {batch.calls[j].result : j \in {k \in DOMAIN batch.calls :
                            batch.calls[k].status = "pending"}}
      BY <1>2 DEF Intents, batch
    <3>2. Intents(next) = {ph.calls[j].result : j \in {k \in DOMAIN ph.calls :
                             ph.calls[k].status = "pending"}}
      BY <1>1, <1>8 DEF Intents
    <3> QED
      BY <1>1, <2>1, <3>1, <3>2
  <2> QED
    BY <2>2, <2>5, <2>6
<1> QED
  BY <1>1, <1>2, <1>5, <1>6, <1>8, PhaseCommits DEF ph, batch

\* The updates of one call, as the driver writes them.
LEMMA CallWritten ==
  ASSUME run \in Run, batch \in Tools, NEW i \in DOMAIN batch.calls, NEW c, NEW replay
  PROVE  /\ [run EXCEPT !.phase.calls[i] = c] = Moved(Recalled(i, c), run.latest)
         /\ [run EXCEPT !.phase.calls[i].status = "pending", !.phase.calls[i].replay = replay]
              = Moved(Recalled(i, [batch.calls[i] EXCEPT !.status = "pending", !.replay = replay]),
                      run.latest)
BY DEF Moved, Recalled, batch, Run, Tools

\* commit_tool_result().
LEMMA ResultCommits ==
  ASSUME Base, run \in Run, batch \in Tools, NEW i, NEW status \in {"planned", "pending"},
         At(i, status), NEW kind, NEW terminate \in BOOLEAN, CommitResult(i, kind, terminate)
  PROVE  Commits
<1> DEFINE result == batch.calls[i].result
           c == [Planned(result) EXCEPT !.status = "completed", !.terminate = terminate]
           tx == [NoWrites EXCEPT
                    !.entries = [id \in {result} |->
                                   ResultEntry(kind, <<batch.assistant, i>>, cur.leaf)],
                    !.leaf = result]
<1>1. i \in DOMAIN batch.calls /\ (\A j \in Unfinished : i <= j) /\ batch.calls[i].status # "completed"
  BY DEF At, Unfinished
<1>2. batch.calls[i] \in ToolCall /\ result \in Id
  <2>1. batch.calls \in Seq(ToolCall)
    BY DEF Tools
  <2>2. batch.calls[i] \in ToolCall
    BY <1>1, <2>1
  <2> QED
    BY <2>2 DEF ToolCall
<1>3. c \in ToolCall /\ c.result = result /\ c.status = "completed"
  BY <1>2 DEF Planned, ToolCall, Replay
<1>4. Sound(tx) /\ tx.consumed = {} /\ tx.minted = 0 /\ DOMAIN tx.entries = {result}
  BY <1>2 DEF Sound, NoWrites, Id
<1>5. Transition([run EXCEPT !.phase.calls[i] = c], tx, "plan")
  BY DEF CommitResult
<1> HIDE DEF c, tx
<1>6. Transition(Moved(Recalled(i, c), run.latest), tx, "plan")
  BY <1>1, <1>5, CallWritten
<1> QED
  BY <1>1, <1>3, <1>4, <1>6, CallCommits

\* The steps of a batch.
LEMMA ToolsCommit ==
  ASSUME Base, Announced,
         \/ BatchComplete
         \/ \E i \in CallIndices : ToolRefused(i) \/ ToolIntent(i) \/ ToolGivenUp(i)
         \/ \E i \in CallIndices, terminate \in BOOLEAN : ToolBlocked(i, terminate)
         \/ \E i \in CallIndices, terminate \in BOOLEAN : ToolFinishes(i, terminate)
  PROVE  pc \in Settled /\ Commits
<1>1. pc = "tool" \/ Planning("tools")
  BY DEF BatchComplete, ToolRefused, ToolIntent, ToolGivenUp, ToolBlocked, ToolFinishes
<1>2. /\ pc \in Settled /\ run \in Run /\ batch \in Tools /\ run.kind = "run" /\ batch.p = "tools"
      /\ leaf \in Id /\ fresh \in Id
  <2>1. CASE pc = "tool"
    <3>1. run.kind = "run" /\ run.phase.p = "tools" /\ run \in OperationState
      BY <2>1 DEF Announced, Expects, Base, Coherent, Working, Snapshot, run
    <3>2. run \in Run /\ leaf \in Id /\ fresh \in Id
      BY <3>1, StateShape DEF Base, Control, Id
    <3> QED
      BY <2>1, <3>1, <3>2, PhaseShape DEF Run, Settled, Working, batch
  <2>2. CASE Planning("tools")
    BY <2>2, PlanningRun, PhaseShape DEF Id, batch
  <2> QED
    BY <1>1, <2>1, <2>2
<1>3. CASE \E i \in CallIndices : ToolRefused(i)
  <2>1. PICK i : At(i, "planned") /\ CommitResult(i, Refusal(i), FALSE)
    BY <1>3 DEF ToolRefused
  <2> QED
    BY <1>2, <2>1, ResultCommits
<1>4. CASE \E i \in CallIndices : ToolGivenUp(i)
  <2>1. PICK i : /\ At(i, "pending")
                 /\ CommitResult(i, IF Stopping THEN "interrupted" ELSE "process_died", FALSE)
    BY <1>4 DEF ToolGivenUp
  <2> QED
    BY <1>2, <2>1, ResultCommits
<1>5. CASE \E i \in CallIndices, terminate \in BOOLEAN : ToolBlocked(i, terminate)
  <2>1. PICK i \in CallIndices, terminate \in BOOLEAN : ToolBlocked(i, terminate)
    BY <1>5
  <2>2. At(i, "planned") /\ CommitResult(i, "blocked", terminate)
    BY <2>1 DEF ToolBlocked
  <2> QED
    BY <1>2, <2>2, ResultCommits
<1>6. CASE \E i \in CallIndices, terminate \in BOOLEAN : ToolFinishes(i, terminate)
  <2>1. PICK i \in CallIndices, terminate \in BOOLEAN : ToolFinishes(i, terminate)
    BY <1>6
  <2>2. At(i, "pending") /\ CommitResult(i, "executed", terminate)
    BY <2>1 DEF ToolFinishes
  <2> QED
    BY <1>2, <2>2, ResultCommits
<1>7. CASE \E i \in CallIndices : ToolIntent(i)
  <2>1. PICK i : ToolIntent(i)
    BY <1>7
  <2> DEFINE replay == Declares(ToolOf(i))
             c == [batch.calls[i] EXCEPT !.status = "pending", !.replay = replay]
             tx == [NoWrites EXCEPT !.args = @ \cup {<<batch.step, i>>}]
  <2>2. /\ At(i, "planned") /\ Refusal(i) = "none"
        /\ Transition([run EXCEPT !.phase.calls[i].status = "pending",
                                  !.phase.calls[i].replay = replay], tx, "tool")
    BY <2>1 DEF ToolIntent
  <2>3. ~IsCancelled(run) /\ replay # "none"
    BY <2>2 DEF Refusal, Stopping
  <2>4. replay \in Replay
    <3>1. ToolOf(i) \in DOMAIN registry /\ replay = registry[ToolOf(i)]
      BY <2>3 DEF Declares
    <3> QED
      BY <3>1, ScenariosAssumption DEF Base, Control, Registries
  <2>5. /\ i \in DOMAIN batch.calls /\ (\A j \in Unfinished : i <= j)
        /\ batch.calls[i].status = "planned"
    BY <2>2 DEF At, Unfinished
  <2> HIDE DEF replay
  <2>6. c \in ToolCall /\ c.result = batch.calls[i].result /\ c.status = "pending"
    <3>1. batch.calls[i] \in ToolCall
      BY <1>2, <2>5 DEF Tools
    <3> QED
      BY <2>4, <3>1 DEF ToolCall
  <2>7. Sound(tx) /\ tx.consumed = {} /\ tx.minted = 0 /\ DOMAIN tx.entries = {}
    BY <1>2 DEF Sound, NoWrites, Id
  <2>8. Transition(Moved(Recalled(i, c), run.latest), tx, "tool")
    BY <1>2, <2>2, <2>5, CallWritten
  <2> HIDE DEF c, tx
  <2> QED
    BY <1>2, <2>3, <2>5, <2>6, <2>7, <2>8, CallCommits
<1>8. CASE BatchComplete
  <2> DEFINE last == batch.calls[Len(batch.calls)].result
             ended == \A i \in DOMAIN batch.calls : batch.calls[i].terminate
             ph == IF ended THEN MayFinish(last, FALSE) ELSE NeedAssistant(last)
             tx == [NoWrites EXCEPT !.args = {k \in toolArgs : k[1] # batch.step}]
  <2>1. Transition(WithPhase(ph), tx, "plan")
    BY <1>8 DEF BatchComplete
  <2>2. batch.calls # <<>> /\ batch.calls \in Seq(ToolCall)
    BY <1>2 DEF Base, Batched, HasCalls, Settled, run, batch, Tools
  <2>3. last \in Id
    <3>1. Len(batch.calls) \in DOMAIN batch.calls
      BY <2>2
    <3>2. batch.calls[Len(batch.calls)] \in ToolCall
      BY <2>2, <3>1
    <3> QED
      BY <3>2 DEF ToolCall
  <2> HIDE DEF last, ended
  <2>4. ph \in Phase /\ ph.p = "checkpoint"
    BY <2>3 DEF MayFinish, NeedAssistant, Phase, Checkpoint, Continuations, Id, NoId
  <2>5. Sound(tx) /\ tx.consumed = {} /\ DOMAIN tx.entries = {}
    BY <1>2 DEF Sound, NoWrites, Id
  <2> HIDE DEF ph, tx
  <2> QED
    BY <1>2, <2>1, <2>4, <2>5, Rephase
<1> QED
  BY <1>3, <1>4, <1>5, <1>6, <1>7, <1>8

\* A driver that compacts, in a run or as an operation of its own.
LEMMA CompactingShape ==
  ASSUME Base, Compacting, pc \in {"plan", "summary"}
  PROVE  /\ pc \in Settled /\ run \in OperationState /\ structural \in Structural
         /\ leaf \in Id /\ fresh \in Id
         /\ Standalone => run \in Compaction /\ structural = run.structural
         /\ ~Standalone => /\ run \in Run /\ run.kind = "run" /\ run.phase \in InRunCompaction
                           /\ run.phase.p = "compaction" /\ structural = run.phase.structural
<1>1. pc \in Settled /\ run \in OperationState /\ leaf \in Id /\ fresh \in Id
  BY DEF Settled, Working, Base, Coherent, Control, Snapshot, run, Id
<1>2. CASE Standalone
  <2>1. run \in Compaction
    BY <1>1, <1>2, StateShape DEF Standalone
  <2> QED
    BY <1>1, <1>2, <2>1 DEF structural, Compaction
<1>3. CASE ~Standalone
  <2>1. run \in Run /\ run.phase.p = "compaction" /\ run.kind = "run"
    BY <1>1, <1>3, StateShape DEF Compacting
  <2>2. run.phase \in InRunCompaction
    BY <2>1, PhaseShape DEF Run
  <2> QED
    BY <1>1, <1>3, <2>1, <2>2 DEF structural, InRunCompaction
<1> QED
  BY <1>2, <1>3

\* What a run reserves while it compacts.
LEMMA CompactingReserves ==
  ASSUME Base, Compacting, pc \in {"plan", "summary"}
  PROVE  Reserved(run) = StructuralIds(structural) /\ Intents(run) = {structural.usage}
BY CompactingShape DEF Reserved, Intents, Standalone

\* Changing the decision changes nothing else of a compaction.
LEMMA StructuralUpdate ==
  ASSUME Base, Compacting, pc \in {"plan", "summary"}, NEW s \in Structural
  PROVE  LET n == WithStructural(s) IN
         /\ n \in OperationState /\ n.kind = run.kind /\ n.control = run.control
         /\ Standalone => n \in Compaction /\ n.structural = s
         /\ ~Standalone => /\ n.phase.p = "compaction" /\ n.phase.structural = s
                           /\ n.drained = run.drained /\ \A q \in QueueNames : n[q] = run[q]
<1> DEFINE n == WithStructural(s)
<1>1. CASE Standalone
  <2>1. n = [run EXCEPT !.structural = s] /\ run \in Compaction
    BY <1>1, CompactingShape DEF WithStructural
  <2> HIDE DEF n
  <2>2. n \in Compaction /\ n.structural = s /\ n.kind = run.kind /\ n.control = run.control
    BY <2>1 DEF Compaction
  <2>3. n \in OperationState
    BY <2>2 DEF OperationState
  <2> QED
    BY <1>1, <2>2, <2>3 DEF n
<1>2. CASE ~Standalone
  <2> DEFINE ph == [run.phase EXCEPT !.structural = s]
  <2>1. n = [run EXCEPT !.phase = ph] /\ run \in Run /\ run.phase \in InRunCompaction
    BY <1>2, CompactingShape DEF WithStructural, Run
  <2>2. ph \in InRunCompaction /\ ph.structural = s
    BY <2>1 DEF InRunCompaction
  <2>3. ph \in Phase /\ ph.p = "compaction"
    BY <2>2 DEF Phase, InRunCompaction
  <2> HIDE DEF n, ph
  <2>4. /\ n \in OperationState /\ n.kind = "run" /\ n.phase = ph /\ n.control = run.control
        /\ n.drained = run.drained /\ \A q \in QueueNames : n[q] = run[q]
    BY <2>1, <2>3, PhaseUpdate DEF QueueNames
  <2>5. run.kind = "run"
    BY <2>1 DEF Run
  <2> QED
    BY <1>2, <2>2, <2>3, <2>4, <2>5 DEF n
<1> QED
  BY <1>1, <1>2

\* The decision takes its next step.  A standalone one that retries forgets
\* its control.
LEMMA DecisionCommits ==
  ASSUME Base, Compacting, pc \in {"plan", "summary"}, NEW s \in Structural,
         NEW next, \/ next = WithStructural(s)
                   \/ Standalone /\ next = [WithStructural(s) EXCEPT !.control = "running"],
         NEW tx, Sound(tx), tx.consumed = {}, DOMAIN tx.entries = {},
         NEW effect \in {"plan", "summary"}, effect = "summary" => s.status = "pending",
         IsCancelled(run) => s.usage \in {NoId, structural.usage},
         StructuralIds(s) \subseteq StructuralIds(structural) \cup Minted(tx),
         Transition(next, tx, effect)
  PROVE  Commits
<1> DEFINE n == WithStructural(s)
<1>1. /\ n \in OperationState /\ n.kind = run.kind /\ n.control = run.control
      /\ Standalone => n \in Compaction /\ n.structural = s
      /\ ~Standalone => /\ n.phase.p = "compaction" /\ n.phase.structural = s
                        /\ n.drained = run.drained /\ \A q \in QueueNames : n[q] = run[q]
  BY StructuralUpdate
<1> HIDE DEF n
<1>2. /\ next \in OperationState /\ next.kind = run.kind
      /\ ~Standalone => next = n /\ run.kind = "run"
      /\ Standalone => next.structural = s /\ run.kind = "compaction"
      /\ next.control = run.control \/ (Standalone /\ next.control = "running")
  <2>1. CASE next = n
    BY <1>1, <2>1, CompactingShape DEF Standalone
  <2>2. CASE Standalone /\ next = [n EXCEPT !.control = "running"]
    <3>1. /\ next \in Compaction /\ next.structural = s /\ next.kind = run.kind
          /\ next.control = "running"
      BY <1>1, <2>2 DEF Compaction, Controls
    <3> QED
      BY <2>2, <3>1 DEF OperationState, Standalone
  <2> QED
    BY <2>1, <2>2 DEF n
<1>3. Reserved(next) = StructuralIds(s) /\ Intents(next) = {s.usage}
  BY <1>1, <1>2 DEF Reserved, Intents
<1>4. Reserves(next, tx)
  BY <1>3, CompactingReserves DEF Reserves
<1>5. Expects(effect, next)
  BY <1>1, <1>2 DEF Expects
<1>6. IsCancelled(run) => Intents(next) \subseteq Intents(run) \cup {NoId}
  BY <1>3, CompactingReserves
<1>7. /\ run.kind # "compaction" => next.control = run.control /\ next.phase.p = "compaction"
      /\ next.control = run.control \/ (run.kind = "compaction" /\ next.control = "running")
  BY <1>1, <1>2
<1>8. IF run.kind = "run" THEN Drains(next, tx) ELSE tx.consumed = {}
  BY <1>1, <1>2 DEF Drains
<1>9. Legal(next, tx, effect)
  BY <1>2, <1>4, <1>5, <1>6, <1>7, <1>8 DEF Legal
<1> QED
  BY <1>9 DEF Commits

\* A summary becomes an entry.
LEMMA PublishCommits ==
  ASSUME Base, Compacting, pc \in {"plan", "summary"},
         NEW result \in Id, NEW tx, Sound(tx), tx.consumed = {}, DOMAIN tx.entries = {},
         result \in StructuralIds(structural) \cup Minted(tx),
         Publish(result, tx)
  PROVE  Commits \/ Ends
<1> DEFINE entry == CompactionEntry(prep[structural.task], cur.leaf)
           published == [tx EXCEPT !.entries = [id \in {result} |-> entry], !.leaf = result]
<1> HIDE DEF entry
<1>1. /\ Sound(published) /\ published.consumed = {} /\ DOMAIN published.entries = {result}
      /\ Minted(published) = Minted(tx)
  BY DEF Sound, Minted
<1>2. /\ Standalone => Terminal("completed", published, {})
      /\ ~Standalone => Transition(WithPhase(run.phase.resume), published, "plan")
  BY DEF Publish, entry
<1> HIDE DEF published
<1>3. \A id \in DOMAIN published.entries : id \in Reserved(run) \cup Minted(published)
  BY <1>1, CompactingReserves
<1>4. CASE Standalone
  <2>1. run.kind = "compaction"
    BY <1>4 DEF Standalone
  <2>2. LegalEnd("completed", published)
    BY <1>1, <1>3, <2>1 DEF LegalEnd, Outcomes
  <2> QED
    BY <1>2, <1>4, <2>2 DEF Ends
<1>5. CASE ~Standalone
  <2>1. run \in Run /\ run.phase \in InRunCompaction
    BY <1>5, CompactingShape
  <2>2. run.phase.resume \in Phase /\ run.phase.resume.p = "checkpoint"
    BY <2>1 DEF InRunCompaction, Checkpoint, Phase
  <2> QED
    BY <1>1, <1>2, <1>3, <1>5, <2>1, <2>2, Rephase
<1> QED
  BY <1>4, <1>5

\* No summary.
LEMMA FailsCommits ==
  ASSUME Base, Compacting, pc \in {"plan", "summary"}, NEW tx, Sound(tx), tx.consumed = {},
         DOMAIN tx.entries = {}, SummaryFails(tx)
  PROVE  Commits \/ Ends
<1>1. CASE Standalone
  <2>1. run.kind = "compaction" /\ Terminal("failed", tx, {})
    BY <1>1 DEF Standalone, SummaryFails
  <2>2. LegalEnd("failed", tx)
    BY <2>1 DEF LegalEnd, Outcomes
  <2> QED
    BY <2>1, <2>2 DEF Ends
<1>2. CASE ~Standalone
  <2> DEFINE ph == [p |-> "failure", provenance |-> NoId]
  <2>1. run \in Run /\ Transition(WithPhase(ph), tx, "plan")
    BY <1>2, CompactingShape DEF SummaryFails
  <2>2. ph \in Phase /\ ph.p = "failure"
    BY DEF Phase, FailureDrain, Id, NoId
  <2> HIDE DEF ph
  <2> QED
    BY <2>1, <2>2, Rephase
<1> QED
  BY <1>1, <1>2

\* The steps of a compaction.
LEMMA StructuralCommits ==
  ASSUME Base, Announced,
         \/ StructuralAbort \/ StructuralDeclined \/ StructuralHookSummary \/ StructuralGenerate
         \/ SummaryIntent \/ SummaryRestored \/ SummaryRetryElapsed
         \/ \E answer \in Answers : SummaryReturns(answer)
  PROVE  pc \in Settled /\ (Commits \/ Ends)
<1> DEFINE d == structural
<1>1. Compacting /\ pc \in {"plan", "summary"} /\ (pc = "summary" => d.status = "pending")
  <2>1. pc = "summary" => Compacting /\ d.status = "pending"
    BY DEF Announced, Expects, Compacting, Standalone, structural, run
  <2>2. pc = "summary" \/ (pc = "plan" /\ Compacting)
    BY DEF StructuralAbort, StructuralDeclined, StructuralHookSummary, StructuralGenerate,
      SummaryIntent, SummaryRestored, SummaryRetryElapsed, SummaryReturns, Structuring
  <2> QED
    BY <2>1, <2>2
<1>2. /\ pc \in Settled /\ run \in OperationState /\ d \in Structural /\ leaf \in Id /\ fresh \in Id
      /\ Standalone => run \in Compaction
      /\ ~Standalone => run \in Run /\ run.kind = "run" /\ run.phase \in InRunCompaction
  BY <1>1, CompactingShape
<1>3. d.attempt \in Nat /\ d.result \in Id /\ d.usage \in Id
  BY <1>2 DEF Structural
<1>4. Sound(NoWrites) /\ NoWrites.consumed = {} /\ DOMAIN NoWrites.entries = {}
  BY <1>2 DEF NoWrites, Sound, Id
<1> DEFINE minting == [NoWrites EXCEPT !.minted = 1]
           billed == [NoWrites EXCEPT !.usage = {d.usage}]
<1>5. /\ Sound(minting) /\ minting.consumed = {} /\ DOMAIN minting.entries = {}
      /\ fresh \in Minted(minting)
  BY <1>2 DEF NoWrites, Sound, Minted, Id
<1>6. Sound(billed) /\ billed.consumed = {} /\ DOMAIN billed.entries = {}
  BY <1>2 DEF NoWrites, Sound, Id
<1> HIDE DEF minting, billed, d
<1>7. CASE StructuralAbort
  BY <1>2, <1>7, AbortEnd DEF StructuralAbort
<1>8. CASE StructuralDeclined
  <2>1. CASE Standalone
    <3>1. Terminal("declined", NoWrites, {}) /\ run.kind = "compaction"
      BY <1>8, <2>1 DEF StructuralDeclined, Standalone
    <3> QED
      BY <1>2, <3>1, PlainEnd DEF Outcomes
  <2>2. CASE ~Standalone /\ run.phase.reason = "threshold"
    <3>1. Transition(WithPhase(run.phase.resume), NoWrites, "plan")
      BY <1>8, <2>2 DEF StructuralDeclined
    <3>2. run.phase.resume \in Phase /\ run.phase.resume.p = "checkpoint"
      BY <1>2, <2>2 DEF InRunCompaction, Checkpoint, Phase
    <3> QED
      BY <1>2, <1>4, <2>2, <3>1, <3>2, Rephase
  <2>3. CASE ~Standalone /\ run.phase.reason # "threshold"
    <3>1. SummaryFails(NoWrites)
      BY <1>8, <2>3 DEF StructuralDeclined
    <3> QED
      BY <1>1, <1>2, <1>4, <3>1, FailsCommits
  <2> QED
    BY <2>1, <2>2, <2>3
<1>9. CASE StructuralHookSummary
  <2>1. Publish(fresh, minting)
    BY <1>9 DEF StructuralHookSummary, minting
  <2> QED
    BY <1>1, <1>2, <1>5, <2>1, PublishCommits
<1>10. CASE StructuralGenerate
  <2> DEFINE s == [d EXCEPT !.status = "ready", !.attempt = 1, !.result = fresh]
  <2>1. Transition(WithStructural(s), minting, "plan")
    BY <1>10 DEF StructuralGenerate, d, minting
  <2>2. /\ s \in Structural /\ s.usage = d.usage /\ StructuralIds(s) = {fresh}
    BY <1>2 DEF Structural, StructuralIds
  <2> HIDE DEF s
  <2> QED
    BY <1>1, <1>2, <1>5, <2>1, <2>2, DecisionCommits DEF d
<1>11. CASE SummaryIntent
  <2> DEFINE s == [d EXCEPT !.status = "pending", !.usage = fresh]
  <2>1. Transition(WithStructural(s), minting, "summary") /\ d.status = "ready" /\ ~IsCancelled(run)
    BY <1>11 DEF SummaryIntent, Structuring, d, minting
  <2>2. s \in Structural /\ s.status = "pending" /\ StructuralIds(s) = StructuralIds(d)
    BY <1>2, <2>1 DEF Structural, StructuralIds
  <2> HIDE DEF s
  <2> QED
    BY <1>1, <1>2, <1>5, <2>1, <2>2, DecisionCommits DEF d
<1>12. CASE SummaryRestored
  <2>1. d.status = "pending"
    BY <1>12 DEF SummaryRestored, Structuring, d
  <2>2. CASE d.attempt < MaxAttempts
    <3> DEFINE more == d.attempt + 1
               s == [d EXCEPT !.status = "ready", !.attempt = more, !.usage = NoId]
    <3>1. Transition(WithStructural(s), NoWrites, "plan")
      BY <1>12, <2>2 DEF SummaryRestored, d
    <3>2. more \in Nat
      BY <1>3
    <3> HIDE DEF more
    <3>3. s \in Structural /\ s.usage = NoId /\ StructuralIds(s) = StructuralIds(d)
      BY <1>2, <2>1, <3>2 DEF Structural, StructuralIds, NoId, Id
    <3> HIDE DEF s
    <3> QED
      BY <1>1, <1>2, <1>4, <3>1, <3>3, DecisionCommits DEF d
  <2>3. CASE ~(d.attempt < MaxAttempts)
    <3>1. SummaryFails(NoWrites)
      BY <1>12, <2>3 DEF SummaryRestored, d
    <3> QED
      BY <1>1, <1>2, <1>4, <3>1, FailsCommits
  <2> QED
    BY <2>2, <2>3
<1>13. CASE SummaryRetryElapsed
  <2> DEFINE s == [d EXCEPT !.status = "ready"]
  <2>1. Transition(WithStructural(s), NoWrites, "plan") /\ d.status = "wait"
    BY <1>13 DEF SummaryRetryElapsed, Structuring, d
  <2>2. s \in Structural /\ s.usage = d.usage /\ StructuralIds(s) = StructuralIds(d)
    BY <1>2, <2>1 DEF Structural, StructuralIds
  <2> HIDE DEF s
  <2> QED
    BY <1>1, <1>2, <1>4, <2>1, <2>2, DecisionCommits DEF d
<1>14. ASSUME NEW answer \in Answers, SummaryReturns(answer)
       PROVE  Commits \/ Ends
  <2>1. d.status = "pending" /\ pc = "summary"
    BY <1>1, <1>14 DEF SummaryReturns
  <2>2. d.result \in StructuralIds(d)
    BY <2>1 DEF StructuralIds
  <2> DEFINE more == d.attempt + 1
             s == [d EXCEPT !.status = "wait", !.attempt = more, !.usage = NoId]
             next == IF Standalone THEN [WithStructural(s) EXCEPT !.control = "running"]
                     ELSE WithStructural(s)
  <2>3. \/ Publish(d.result, billed)
        \/ Transition(next, billed, "plan")
        \/ SummaryFails(billed)
    BY <1>14 DEF SummaryReturns, d, billed
  <2>4. more \in Nat
    BY <1>3
  <2> HIDE DEF more
  <2>5. s \in Structural /\ s.usage = NoId /\ StructuralIds(s) = StructuralIds(d)
    BY <1>2, <2>1, <2>4 DEF Structural, StructuralIds, NoId, Id
  <2> HIDE DEF s
  <2>6. CASE Publish(d.result, billed)
    BY <1>1, <1>3, <1>6, <2>2, <2>6, PublishCommits DEF d
  <2>7. CASE SummaryFails(billed)
    BY <1>1, <1>6, <2>7, FailsCommits
  <2>8. CASE Transition(next, billed, "plan")
    <3>1. \/ next = WithStructural(s)
          \/ Standalone /\ next = [WithStructural(s) EXCEPT !.control = "running"]
      OBVIOUS
    <3> HIDE DEF next
    <3> QED
      BY <1>1, <1>6, <2>5, <2>8, <3>1, DecisionCommits DEF d
  <2> QED
    BY <2>3, <2>6, <2>7, <2>8
<1> QED
  BY <1>2, <1>7, <1>8, <1>9, <1>10, <1>11, <1>12, <1>13, <1>14

\* All of a driver's steps on its own, and those an effect ends.
LEMMA DriverCommits ==
  ASSUME Base, Announced, PlanStep \/ ElapsedStep \/ EffectStep
  PROVE  \/ pc \in Settled /\ (Commits \/ Ends)
         \/ \E i \in CallIndices : ToolReplayed(i)
<1>1. CASE \/ CheckpointWrites \/ CheckpointAbort \/ CheckpointSteer
           \/ \E over \in BOOLEAN : CheckThreshold(over)
           \/ BeginGeneration \/ CheckpointFollowUp \/ RunEndHook \/ Complete
  BY <1>1, CheckpointCommits
<1>2. CASE FailureInbox \/ FailureFinish
  BY <1>2, FailureCommits
<1>3. CASE \/ GenerationAbort \/ AssistantIntent \/ AssistantRestored \/ RetryElapsed
           \/ \E resp \in Responses, prepared \in BOOLEAN : ModelReturns(resp, prepared)
           \/ ModelInterrupted
  BY <1>3, AssistantCommits
<1>4. CASE \/ BatchComplete
           \/ \E i \in CallIndices : ToolRefused(i) \/ ToolIntent(i) \/ ToolGivenUp(i)
           \/ \E i \in CallIndices, terminate \in BOOLEAN : ToolBlocked(i, terminate)
           \/ \E i \in CallIndices, terminate \in BOOLEAN : ToolFinishes(i, terminate)
  BY <1>4, ToolsCommit
<1>5. CASE \/ StructuralAbort \/ StructuralDeclined \/ StructuralHookSummary \/ StructuralGenerate
           \/ SummaryIntent \/ SummaryRestored \/ SummaryRetryElapsed
           \/ \E answer \in Answers : SummaryReturns(answer)
  BY <1>5, StructuralCommits
<1>6. CASE NavigationStep
  BY <1>6, NavigationCommits
<1>7. CASE \E i \in CallIndices : ToolReplayed(i)
  BY <1>7
<1> QED
  BY <1>1, <1>2, <1>3, <1>4, <1>5, <1>6, <1>7 DEF PlanStep, ElapsedStep, EffectStep

(***************************************************************************)
(* The base layer holds throughout.                                        *)
(***************************************************************************)
Driven == Base /\ Announced

\* An idle lane at an empty conversation, nobody driving it.
LEMMA BaseInit ==
  ASSUME Init
  PROVE  Driven
<1>1. /\ fresh = 1 /\ leaf = 0 /\ lane = [op |-> 0, nextRun |-> <<>>] /\ laneSeq = 1
      /\ state = NoOperation /\ stateSeq = 0 /\ lastResult.op = 0
      /\ scenario \in DOMAIN Scenarios /\ pc = "none" /\ then = "plan" /\ signal = FALSE
      /\ recovering = FALSE /\ registry \in Registries /\ entries = <<>>
  BY DEF Init, StoreInit, DriverInit, NoId, NoResult
<1>2. Control
  <2>1. /\ lane \in [op: Id, nextRun: Seq(Id)] /\ fresh \in Nat \ {0} /\ leaf \in Id
        /\ DOMAIN entries \subseteq Id
    BY <1>1 DEF Id
  <2>2. signal \in BOOLEAN
    BY <1>1
  <2> QED
    BY <1>1, <2>1, <2>2 DEF Control, Id, PcValues
<1>3. OneOperation
  BY <1>1 DEF OneOperation, Busy, NoId
<1>4. Coherent /\ Batched /\ Announced
  BY <1>1 DEF Coherent, Batched, HasCalls, Announced, Working, Settled, NoOperation, Expects
<1> QED
  BY <1>2, <1>3, <1>4 DEF Driven, Base

\* A legal state keeps a batch's calls.
LEMMA LegalHasCalls ==
  ASSUME Base, pc \in Settled, NEW next, NEW tx, NEW effect, Legal(next, tx, effect)
  PROVE  HasCalls(next) /\ next \in OperationState /\ Sound(tx) /\ Expects(effect, next)
         /\ effect \in {"plan", "model", "tool", "summary"}
<1>1. next \in OperationState /\ next.kind = run.kind /\ Sound(tx) /\ Expects(effect, next)
      /\ effect \in {"plan", "model", "tool", "summary"}
  BY DEF Legal
<1>2. ASSUME next.kind = "run", next.phase.p = "tools"
      PROVE  next.phase.calls # <<>>
  <2>1. Batches(run.phase, next.phase, tx, effect)
    BY <1>1, <1>2 DEF Legal
  <2>2. next.phase.calls # <<>> \/ \E i : i \in DOMAIN next.phase.calls
    BY <2>1 DEF Batches
  <2> QED
    BY <2>2
<1> QED
  BY <1>1, <1>2 DEF HasCalls

\* A commit, or its refusal.
LEMMA CommitSteers ==
  ASSUME Driven, pc \in Settled, scenario' = scenario, Commits \/ Ends
  PROVE  Driven'
<1> USE DEF Driven
<1>1. CASE Commits
  <2>1. PICK next, tx, effect : Transition(next, tx, effect) /\ Legal(next, tx, effect)
    BY <1>1 DEF Commits
  <2>2. /\ HasCalls(next) /\ next \in OperationState /\ Sound(tx) /\ Expects(effect, next)
        /\ effect \in {"plan", "model", "tool", "summary"}
    BY <2>1, LegalHasCalls
  <2>3. Base'
    BY <2>1, <2>2, TransitionBase
  <2>4. Announced'
    BY <2>1, <2>2 DEF Transition, CommitTransition, Announced, Expects
  <2> QED
    BY <2>3, <2>4
<1>2. CASE Ends
  <2>1. PICK outcome, tx, label : Terminal(outcome, tx, label) /\ LegalEnd(outcome, tx)
    BY <1>2 DEF Ends
  <2>2. Base'
    BY <2>1, TerminalBase DEF LegalEnd
  <2>3. Announced'
    BY <2>1 DEF Terminal, Leave, Announced, Expects
  <2> QED
    BY <2>2, <2>3
<1> QED
  BY <1>1, <1>2

\* Work that is the same needs the same intents.
LEMMA SameWorkExpects ==
  ASSUME NEW s \in OperationState, NEW t, SameWork(s, t)
  PROVE  /\ \A effect : Expects(effect, s) <=> Expects(effect, t)
         /\ HasCalls(s) <=> HasCalls(t)
BY DEF SameWork, Expects, HasCalls

\* The work of an operation stays the same over several amendments.
LEMMA SameWorkTransitive ==
  ASSUME NEW s, NEW t, NEW u, SameWork(s, t), SameWork(t, u)
  PROVE  SameWork(s, u)
BY DEF SameWork

\* A caller amends the open operation.
LEMMA Amended ==
  ASSUME Driven, Busy, state \in OperationState, state' \in OperationState, SameWork(state, state'),
         stateSeq' = stateSeq + 1, fresh' \in Nat, fresh' >= fresh,
         UNCHANGED <<entries, leaf, lane, laneSeq, lastResult, driverVars, registry, recovering,
                     scenario>>
  PROVE  Driven'
<1> USE DEF Driven
<1>1. UNCHANGED <<pc, cur, then, signal>>
  BY DEF driverVars
<1>2. Control'
  BY <1>1 DEF Base, Control, Registries
<1>3. OneOperation'
  <2>1. state' # NoOperation
    BY StateShape
  <2>2. lane.op \in Nat /\ lastResult.op \in Nat /\ fresh \in Nat
    BY DEF Base, Control, Id
  <2> QED
    BY <1>1, <2>1, <2>2 DEF Base, OneOperation, Busy
<1>4. Coherent'
  <2>1. (pc = "restore" => cur = [op |-> lane.op])'
    BY <1>1 DEF Base, Coherent
  <2>2. (pc \in Working =>
           /\ cur \in Snapshot
           /\ cur.op = lane.op
           /\ cur.stateSeq <= stateSeq /\ (cur.stateSeq = stateSeq => cur.state = state /\ cur.leaf = leaf)
           /\ cur.laneSeq <= laneSeq /\ (cur.laneSeq = laneSeq => cur.nextRun = lane.nextRun))'
    BY <1>1 DEF Base, Coherent, Control, Snapshot, Working
  <2>3. (pc \in Settled => SameWork(cur.state, state))'
    BY <1>1, SameWorkTransitive DEF Base, Coherent, Settled
  <2> QED
    BY <2>1, <2>2, <2>3 DEF Coherent
<1>5. Batched'
  BY <1>1, SameWorkExpects DEF Base, Batched, Working, HasCalls
<1>6. Announced'
  <2>1. \A effect : Expects(effect, state) <=> Expects(effect, state')
    BY SameWorkExpects
  <2> QED
    BY <1>1, <2>1 DEF Announced
<1> QED
  BY <1>2, <1>3, <1>4, <1>5, <1>6 DEF Base

\* A caller reads its claim back, or the process resumes what it finds.
LEMMA Restored ==
  ASSUME Driven, Busy, Restorable, cur' = Current, pc' \in Working,
         pc' \in {"model", "tool", "summary"} => Expects(pc', state),
         pc' # "reload", ~recovering',
         UNCHANGED <<durable, then, signal, registry, scenario>>
  PROVE  Driven'
<1> USE DEF Driven
<1>1. state \in OperationState /\ state.kind # "none"
  BY DEF Restorable, Base, Control, NoOperation
<1>2. UNCHANGED <<fresh, entries, leaf, lane, laneSeq, state, stateSeq, lastResult>>
  BY DEF durable
<1>3. /\ cur' \in Snapshot /\ cur'.op = lane.op /\ cur'.state = state /\ cur'.stateSeq = stateSeq
      /\ cur'.nextRun = lane.nextRun /\ cur'.laneSeq = laneSeq /\ cur'.leaf = leaf
  BY <1>1 DEF Current, Snapshot, Base, Control
<1>4. Control'
  BY <1>2 DEF Base, Control, Registries, PcValues, Working
<1>5. OneOperation'
  BY <1>2 DEF Base, OneOperation, Busy
<1>6. Coherent'
  BY <1>2, <1>3 DEF Base, Coherent, Control, Working, SameWork
<1>7. Batched'
  BY <1>2, <1>3 DEF Base, Batched, HasCalls
<1>8. Announced'
  BY <1>2, <1>3 DEF Announced, Expects
<1> QED
  BY <1>4, <1>5, <1>6, <1>7, <1>8 DEF Base

\* start() claims an idle lane.
LEMMA ClaimSteers ==
  ASSUME Driven, pc = "none", NEW next \in OperationState, HasCalls(next), NEW source, NEW target,
         NEW prompts, NEW minted \in Nat \ {0}, NEW payloads, NEW preparation,
         Claim(fresh, next, source, target, prompts, minted, payloads, preparation),
         scenario' = scenario
  PROVE  Driven'
<1> USE DEF Driven
<1>1. /\ fresh' = fresh + minted /\ lane'.op = fresh /\ laneSeq' = laneSeq + 1 /\ stateSeq' = stateSeq + 1
      /\ pc' = "restore" /\ cur' = [op |-> fresh] /\ ~recovering'
      /\ UNCHANGED <<entries, leaf, lastResult, then, signal, registry>>
  BY DEF Claim
<1>2. lane' \in [op: Id, nextRun: Seq(Id)]
  BY DEF Claim, Base, Control, Id
<1>3. state' \in OperationState /\ HasCalls(state')
  <2>1. CASE next.kind = "run"
    <3> DEFINE writes == lane.nextRun \o next.writes
    <3>1. next \in Run /\ state' = [next EXCEPT !.writes = writes]
      BY <2>1, StateShape DEF Claim
    <3>2. writes \in Seq(Id)
      BY <3>1 DEF Run, Base, Control
    <3> HIDE DEF writes
    <3>3. state' \in Run /\ state'.phase = next.phase
      BY <3>1, <3>2 DEF Run
    <3> QED
      BY <2>1, <3>3 DEF OperationState, HasCalls
  <2>2. CASE next.kind # "run"
    BY <2>2 DEF Claim
  <2> QED
    BY <2>1, <2>2
<1>4. fresh \in Nat \ {0} /\ fresh' \in Nat \ {0} /\ fresh < fresh' /\ lastResult.op < fresh
  BY <1>1 DEF Base, Control, OneOperation
<1>5. Control'
  BY <1>1, <1>2, <1>3, <1>4 DEF Base, Control, Registries, PcValues
<1>6. OneOperation'
  <2>1. state' # NoOperation
    BY <1>3, StateShape
  <2>2. lastResult.op \in Nat
    BY DEF Base, Control, Id
  <2> QED
    BY <1>1, <1>4, <2>1, <2>2 DEF OneOperation, Busy, NoId
<1>7. Coherent' /\ Batched' /\ Announced'
  BY <1>1, <1>3 DEF Coherent, Batched, Announced, HasCalls, Working, Settled
<1> QED
  BY <1>5, <1>6, <1>7 DEF Base

\* What leaves a driver, its snapshot and the operation alone.
LEMMA Untouched ==
  ASSUME Driven, fresh' \in Nat, fresh' >= fresh,
         lane'.op = lane.op, lane' \in [op: Id, nextRun: Seq(Id)],
         \/ UNCHANGED <<lane, laneSeq>>
         \/ laneSeq' = laneSeq + 1,
         UNCHANGED <<entries, leaf, state, stateSeq, lastResult, pc, cur, then, registry, recovering,
                     scenario>>,
         signal' \in BOOLEAN
  PROVE  Driven'
<1> USE DEF Driven
<1>1. Control'
  BY DEF Base, Control, Registries
<1>2. OneOperation'
  <2>1. lane.op \in Nat /\ lastResult.op \in Nat /\ fresh \in Nat
    BY DEF Base, Control, Id
  <2> QED
    BY <2>1 DEF Base, OneOperation, Busy
<1>3. Coherent'
  BY DEF Base, Coherent, Control, Snapshot, Working, Settled, SameWork
<1>4. Batched' /\ Announced'
  BY DEF Base, Batched, HasCalls, Announced, Expects, Working
<1> QED
  BY <1>1, <1>2, <1>3, <1>4 DEF Base

\* A process or a driver that stops.
LEMMA Stopped ==
  ASSUME Driven, pc' = "none", then' = "plan" \/ then' = then, signal' \in BOOLEAN,
         registry' \in Registries, UNCHANGED <<durable, scenario>>
  PROVE  Driven'
<1> USE DEF Driven
<1>1. UNCHANGED <<fresh, entries, leaf, lane, laneSeq, state, stateSeq, lastResult>>
  BY DEF durable
<1>2. Control'
  BY <1>1 DEF Base, Control, Registries, PcValues
<1>3. OneOperation'
  BY <1>1 DEF Base, OneOperation, Busy
<1>4. Coherent' /\ Batched' /\ Announced'
  BY <1>1 DEF Base, Coherent, Batched, HasCalls, Announced, Working, Settled
<1> QED
  BY <1>2, <1>3, <1>4 DEF Base

\* An input joins its queue.
LEMMA EnqueueUpdate ==
  ASSUME state \in Run, fresh \in Id, NEW q \in QueueNames
  PROVE  LET n == [state EXCEPT ![q] = Append(@, fresh)] IN
         /\ n \in OperationState /\ SameWork(state, n) /\ n.kind = "run"
         /\ n.control = state.control /\ n.drained = state.drained
         /\ n[q] = Append(state[q], fresh) /\ \A o \in QueueNames : o # q => n[o] = state[o]
<1> DEFINE ids == Append(state[q], fresh)
           n == [state EXCEPT ![q] = ids]
<1>1. ids \in Seq(Id)
  BY DEF Run, QueueNames
<1> HIDE DEF ids
<1>2. n \in Run
  BY <1>1 DEF Run, QueueNames
<1>3. n[q] = ids /\ \A o \in QueueNames : o # q => n[o] = state[o]
  BY DEF Run, QueueNames
<1>4. n.kind = "run" /\ n.control = state.control /\ n.drained = state.drained
      /\ n.phase = state.phase /\ n.latest = state.latest
  BY DEF Run, QueueNames
<1>5. state.kind = "run"
  BY DEF Run
<1> HIDE DEF n
<1>6. n \in OperationState /\ SameWork(state, n)
  BY <1>2, <1>4, <1>5 DEF OperationState, SameWork
<1> QED
  BY <1>3, <1>4, <1>6 DEF n, ids

\* A steer, a follow-up or a deferred write.
LEMMA EnqueueSteers ==
  ASSUME Driven, NEW q \in QueueKinds, NEW kind, Enqueue(q, kind), scenario' = scenario
  PROVE  Driven' /\ state \in Run /\ q \in QueueNames
<1>1. /\ Busy /\ state.kind = "run" /\ fresh' = fresh + 1 /\ stateSeq' = stateSeq + 1
      /\ state' = [state EXCEPT ![q] = Append(@, fresh)]
      /\ UNCHANGED <<entries, leaf, lane, laneSeq, lastResult, driverVars, registry, recovering>>
  BY DEF Enqueue, callers
<1>2. state \in Run /\ state \in OperationState /\ fresh \in Id /\ fresh' \in Nat /\ fresh' >= fresh
  BY <1>1, StateShape DEF Driven, Base, Control, NoOperation, Id
<1>3. q \in QueueNames
  BY CallersAssumption DEF QueueNames
<1>4. state' \in OperationState /\ SameWork(state, state')
  BY <1>1, <1>2, <1>3, EnqueueUpdate
<1> QED
  BY <1>1, <1>2, <1>3, <1>4, Amended

\* A cancellation.
LEMMA AbortSteers ==
  ASSUME Driven, Abort, scenario' = scenario
  PROVE  Driven' /\ state \in OperationState
<1>1. Busy /\ Restorable /\ fresh' = fresh
      /\ UNCHANGED <<entries, leaf, lane, laneSeq, lastResult, driverVars, registry, recovering>>
  BY DEF Abort
<1>2. state \in OperationState /\ fresh \in Nat /\ fresh >= fresh /\ lane \in [op: Id, nextRun: Seq(Id)]
      /\ signal \in BOOLEAN
  BY <1>1 DEF Restorable, Driven, Base, Control, NoOperation
<1>3. CASE UNCHANGED <<state, stateSeq>>
  BY <1>1, <1>2, <1>3, Untouched DEF driverVars
<1>4. CASE state' = Cancel(state) /\ stateSeq' = stateSeq + 1
  BY <1>1, <1>2, <1>4, CancelUpdate, Amended
<1> QED
  BY <1>2, <1>3, <1>4 DEF Abort

\* The operations that callers start.
LEMMA StartSteers ==
  ASSUME Driven, scenario' = scenario,
         (\E n \in PromptCounts : StartRun(n)) \/ CompactClaim \/ NavigateSomewhere
  PROVE  Driven'
<1>1. fresh \in Id /\ fresh \in Nat
  BY DEF Driven, Base, Control, Id
<1>2. ASSUME NEW n \in PromptCounts, StartRun(n)
      PROVE  Driven'
  <2> DEFINE ids == [i \in 1 .. n |-> fresh + i]
             next == [kind |-> "run", control |-> "running", phase |-> NeedAssistant(fresh + n),
                      latest |-> NoId, steer |-> <<>>, followUp |-> <<>>, writes |-> ids,
                      drained |-> <<>>]
  <2>1. n \in Nat \ {0} /\ fresh + n \in Id /\ n + 1 \in Nat \ {0}
    BY <1>1, CallersAssumption DEF Id
  <2>2. ids \in Seq(Id)
    BY <1>1, <2>1 DEF Id
  <2>3. /\ pc = "none"
        /\ Claim(fresh, next, leaf, NoId, ids, n + 1, [id \in Range(ids) |-> "message"], <<>>)
    BY <1>2 DEF StartRun
  <2>4. NeedAssistant(fresh + n) \in Phase
    BY <2>1 DEF NeedAssistant, Phase, Checkpoint, Continuations, Id, NoId
  <2> HIDE DEF ids
  <2>5. next \in OperationState
    BY <2>2, <2>4 DEF OperationState, Run, Controls, Id, NoId
  <2>6. HasCalls(next)
    BY DEF HasCalls, NeedAssistant
  <2> HIDE DEF next
  <2> QED
    BY <2>1, <2>3, <2>5, <2>6, ClaimSteers
<1>3. CASE CompactClaim
  <2> DEFINE next == [kind |-> "compaction", control |-> "running", structural |-> Deciding(fresh + 1)]
  <2>1. /\ pc = "none"
        /\ Claim(fresh, next, leaf, NoId, <<>>, 2, <<>>, [t \in {fresh + 1} |-> compacting])
    BY <1>3 DEF CompactClaim
  <2>2. fresh + 1 \in Id
    BY <1>1 DEF Id
  <2>3. Deciding(fresh + 1) \in Structural
    BY <2>2 DEF Deciding, Structural, Id, NoId
  <2>4. next \in OperationState /\ HasCalls(next)
    BY <2>3 DEF OperationState, Compaction, Controls, HasCalls
  <2> HIDE DEF next
  <2> QED
    BY <2>1, <2>4, ClaimSteers
<1>4. CASE NavigateSomewhere
  <2>1. PICK target \in DOMAIN entries \cup {NoId}, label \in BOOLEAN : Navigate(target, label)
    BY <1>4 DEF NavigateSomewhere
  <2> DEFINE next == [kind |-> "navigation", control |-> "running",
                      target |-> target, label |-> label]
  <2>2. pc = "none" /\ Claim(fresh, next, leaf, target, <<>>, 1, <<>>, <<>>)
    BY <2>1 DEF Navigate
  <2>3. target \in Id
    BY DEF Driven, Base, Control, Id, NoId
  <2>4. next \in OperationState /\ HasCalls(next)
    BY <2>3 DEF OperationState, Navigation, Controls, HasCalls
  <2> HIDE DEF next
  <2> QED
    BY <2>2, <2>4, ClaimSteers
<1> QED
  BY <1>2, <1>3, <1>4

\* What a driver and a restarted process do besides planning.
LEMMA DriveSteers ==
  ASSUME Driven, scenario' = scenario,
         \/ Reload \/ RetrySleep \/ Wake \/ RestoreClaim \/ Register \/ Deregister \/ Resume
         \/ \E i \in CallIndices : ToolReplayed(i)
  PROVE  Driven'
<1>1. /\ signal \in BOOLEAN /\ fresh \in Nat /\ fresh >= fresh /\ registry \in Registries
      /\ lane \in [op: Id, nextRun: Seq(Id)]
  BY DEF Driven, Base, Control
<1>2. CASE Reload
  <2>1. CASE Restorable /\ lane.op = cur.op
    <3>1. /\ cur' = Current /\ pc' = then /\ pc = "reload"
          /\ UNCHANGED <<durable, then, signal, registry, recovering>>
      BY <1>2, <2>1 DEF Reload, callers
    <3>2. Busy /\ ~recovering
      BY <3>1, WorkingIsBusy DEF Driven, Working
    <3>3. Expects(then, state) /\ then \in {"plan", "model", "tool", "summary"}
      BY <3>1 DEF Driven, Announced, Base, Control
    <3> QED
      BY <2>1, <3>1, <3>2, <3>3, Restored DEF Working
  <2>2. CASE ~(Restorable /\ lane.op = cur.op)
    <3>1. Leave /\ UNCHANGED <<durable, registry>>
      BY <1>2, <2>2 DEF Reload
    <3>2. pc' = "none" /\ then' = "plan" /\ signal' \in BOOLEAN
      BY <3>1 DEF Leave
    <3> QED
      BY <1>1, <3>1, <3>2, Stopped
  <2> QED
    BY <2>1, <2>2
<1>3. CASE RestoreClaim
  <2>1. CASE Restorable /\ lane.op = cur.op
    <3>1. /\ cur' = Current /\ pc' = "claimed" /\ pc = "restore"
          /\ UNCHANGED <<durable, then, signal, registry, recovering>>
      BY <1>3, <2>1 DEF RestoreClaim, callers
    <3>2. Busy /\ ~recovering
      BY <3>1 DEF Driven, Base, OneOperation
    <3> QED
      BY <2>1, <3>1, <3>2, Restored DEF Working
  <2>2. CASE ~(Restorable /\ lane.op = cur.op)
    <3>1. pc' = "none" /\ UNCHANGED <<durable, then, signal, registry>>
      BY <1>3, <2>2 DEF RestoreClaim
    <3> QED
      BY <1>1, <3>1, Stopped
  <2> QED
    BY <2>1, <2>2
<1>4. CASE Resume
  <2>1. CASE Busy /\ Restorable
    <3>1. /\ cur' = Current /\ pc' = "claimed" /\ recovering' = FALSE
          /\ UNCHANGED <<durable, then, signal, registry>>
      BY <1>4, <2>1 DEF Resume
    <3> QED
      BY <2>1, <3>1, Restored DEF Working
  <2>2. CASE ~(Busy /\ Restorable)
    <3>1. UNCHANGED <<durable, cur, pc, then, signal, registry>> /\ recovering
      BY <1>4, <2>2 DEF Resume
    <3>2. pc' = "none"
      BY <3>1 DEF Driven, Base, OneOperation
    <3> QED
      BY <1>1, <3>1, <3>2, Stopped
  <2> QED
    BY <2>1, <2>2
<1>5. CASE Register \/ RetrySleep \/ Wake \/ \E i \in CallIndices : ToolReplayed(i)
  <2> USE DEF Driven
  <2>1. /\ UNCHANGED <<durable, cur, registry, callers>>
        /\ \/ pc = "claimed" /\ pc' = "plan" /\ then' = then /\ signal' = IsCancelled(cur.state)
           \/ pc = "plan" /\ pc' = "sleep" /\ UNCHANGED <<then, signal>>
           \/ pc = "sleep" /\ pc' = "reload" /\ then' = "plan" /\ signal' = signal
           \/ /\ pc = "plan" /\ pc' = "tool" /\ UNCHANGED <<then, signal>>
              /\ Planning("tools") /\ \E i : At(i, "pending")
    BY <1>5 DEF Register, RetrySleep, Wake, ToolReplayed, Structuring, Generating, Planning
  <2>2. UNCHANGED <<fresh, entries, leaf, lane, laneSeq, state, stateSeq, lastResult, recovering>>
    BY <2>1 DEF durable, callers
  <2>3. pc \in Working /\ pc' \in Working /\ (pc' = "reload" \/ (pc \in Settled /\ pc' \in Settled))
    BY <2>1 DEF Working, Settled
  <2>4. signal' \in BOOLEAN
    BY <1>1, <2>1 DEF IsCancelled
  <2>5. Control'
    BY <2>1, <2>2, <2>4 DEF Base, Control, Registries, PcValues
  <2>6. OneOperation'
    BY <2>1, <2>2, WorkingIsBusy, <2>3 DEF Base, OneOperation, Busy
  <2>7. Coherent'
    BY <2>1, <2>2, <2>3 DEF Base, Coherent, Snapshot, SameWork, Working, Settled
  <2>8. Batched'
    BY <2>1, <2>2, <2>3 DEF Base, Batched, HasCalls
  <2>9. Announced'
    BY <2>1, <2>2 DEF Announced, Expects, Planning, At, Unfinished, run, batch
  <2> QED
    BY <2>5, <2>6, <2>7, <2>8, <2>9 DEF Base
<1>6. CASE Deregister
  BY <1>1, <1>6, Untouched DEF Deregister, durable, callers
<1> QED
  BY <1>2, <1>3, <1>4, <1>5, <1>6

\* The operations of callers.
LEMMA CallerSteers ==
  ASSUME Driven, scenario' = scenario, CallerStep
  PROVE  Driven'
<1>1. /\ signal \in BOOLEAN /\ fresh \in Nat /\ fresh >= fresh /\ lane \in [op: Id, nextRun: Seq(Id)]
      /\ fresh \in Id
  BY DEF Driven, Base, Control, Id
<1>2. CASE CompactPrepare \/ CompactBusy \/ AbortSignal
  <2>1. UNCHANGED <<durable, pc, cur, then, registry, recovering>> /\ signal' \in BOOLEAN
    BY <1>1, <1>2 DEF CompactPrepare, CompactBusy, AbortSignal, driverVars
  <2> QED
    BY <1>1, <2>1, Untouched DEF durable
<1>3. CASE NextRun
  <2>1. /\ lane' = [lane EXCEPT !.nextRun = Append(@, fresh)] /\ laneSeq' = laneSeq + 1
        /\ fresh' = fresh + 1
        /\ UNCHANGED <<entries, leaf, state, stateSeq, lastResult, pc, cur, then, signal, registry,
                       recovering>>
    BY <1>3 DEF NextRun, driverVars, callers
  <2> DEFINE queue == Append(lane.nextRun, fresh)
  <2>2. lane' \in [op: Id, nextRun: Seq(Id)] /\ lane'.op = lane.op
    <3>1. queue \in Seq(Id)
      BY <1>1
    <3>2. lane' = [lane EXCEPT !.nextRun = queue]
      BY <2>1
    <3> HIDE DEF queue
    <3> QED
      BY <1>1, <3>1, <3>2
  <2> QED
    BY <1>1, <2>1, <2>2, Untouched
<1>4. ASSUME NEW tools \in Registries, Crash(tools)
      PROVE  Driven'
  BY <1>4, Stopped DEF Crash
<1>5. CASE \E queue \in QueueKinds : \E kind \in KindsOf(queue) : Enqueue(queue, kind)
  BY <1>5, EnqueueSteers
<1>6. CASE Abort
  BY <1>6, AbortSteers
<1>7. CASE Resume
  BY <1>7, DriveSteers
<1>8. CASE (\E n \in PromptCounts : StartRun(n)) \/ CompactClaim \/ NavigateSomewhere
  BY <1>8, StartSteers
<1> QED
  BY <1>2, <1>3, <1>4, <1>5, <1>6, <1>7, <1>8 DEF CallerStep

\* The base layer is inductive.
LEMMA SteeredNext ==
  ASSUME Driven, [Next]_<<vars, scenario>>
  PROVE  Driven'
<1>1. CASE CallerStep /\ scenario' = scenario
  BY <1>1, CallerSteers
<1>2. CASE Start /\ scenario' = scenario
  BY <1>2, DriveSteers DEF Start
<1>3. CASE (Reload \/ RetrySleep \/ Wake) /\ scenario' = scenario
  BY <1>3, DriveSteers
<1>4. CASE (PlanStep \/ ElapsedStep \/ EffectStep) /\ scenario' = scenario
  BY <1>4, DriverCommits, CommitSteers, DriveSteers DEF Driven
<1>5. CASE UNCHANGED <<vars, scenario>>
  <2>1. /\ signal \in BOOLEAN /\ fresh \in Nat /\ fresh >= fresh /\ lane \in [op: Id, nextRun: Seq(Id)]
    BY DEF Driven, Base, Control
  <2> QED
    BY <1>5, <2>1, Untouched DEF vars, durable, driverVars, callers
<1> QED
  BY <1>1, <1>2, <1>3, <1>4, <1>5 DEF Next, DriverStep

\* A step that changes nothing durable: a driver reads, waits or starts an
\* effect, a caller goes on, the process dies.
Observes ==
  /\ UNCHANGED <<durable, dropped>>
  /\ pc' \in Working => (cur' = cur /\ pc \in Working) \/ cur' = Current
  /\ \/ Reload
     \/ \E i \in CallIndices : ToolReplayed(i)
     \/ /\ UNCHANGED <<invoked, requests>>
        /\ pc' = "reload" => then' = "plan" \/ UNCHANGED <<pc, then>>

Claims == (\E n \in PromptCounts : StartRun(n)) \/ CompactClaim \/ NavigateSomewhere

\* A claim opens an operation that is neither cancelled nor under way; a run
\* adopts what waits for it.
Opens ==
  /\ ~Busy /\ pc' = "restore" /\ lane'.op = fresh /\ fresh' \in Nat /\ fresh' > fresh
  /\ UNCHANGED <<entries, usage, leaf, lastResult, then, history>>
  /\ state' \in OperationState /\ ~IsCancelled(state')
  /\ state'.kind = "run" => state'.phase.p = "checkpoint"
  /\ state'.kind = "compaction" => state'.structural.status = "deciding"
  /\ \/ state'.kind = "run" /\ Range(lane.nextRun) \subseteq Range(state'.writes)
     \/ lane'.nextRun = lane.nextRun

\* The first of two sequences keeps its places.
LEMMA HeadOfConcat ==
  ASSUME NEW s \in Seq(Id), NEW t \in Seq(Id), NEW i \in DOMAIN s
  PROVE  i \in DOMAIN (s \o t) /\ (s \o t)[i] = s[i]
OBVIOUS

\* A claim opens the operation it is given.
LEMMA ClaimOpens ==
  ASSUME Base, NEW next \in OperationState, next.control = "running",
         next.kind = "run" => next.phase.p = "checkpoint",
         next.kind = "compaction" => next.structural.status = "deciding",
         NEW source, NEW target, NEW prompts, NEW minted \in Nat \ {0}, NEW payloads,
         NEW preparation, Claim(fresh, next, source, target, prompts, minted, payloads, preparation)
  PROVE  Opens
<1>1. fresh \in Nat /\ lane.nextRun \in Seq(Id)
  BY DEF Base, Control
<1>2. /\ ~Busy /\ pc' = "restore" /\ lane'.op = fresh /\ fresh' \in Nat /\ fresh' > fresh
      /\ UNCHANGED <<entries, usage, leaf, lastResult, then, history>>
  BY <1>1 DEF Claim
<1>3. CASE next.kind = "run"
  <2> DEFINE writes == lane.nextRun \o next.writes
  <2>1. next \in Run /\ state' = [next EXCEPT !.writes = writes]
    BY <1>3, StateShape DEF Claim
  <2>2. writes \in Seq(Id) /\ Range(lane.nextRun) \subseteq Range(writes)
    <3>1. next.writes \in Seq(Id)
      BY <2>1 DEF Run
    <3>2. writes \in Seq(Id)
      BY <1>1, <3>1
    <3>3. \A i \in DOMAIN lane.nextRun : i \in DOMAIN writes /\ writes[i] = lane.nextRun[i]
      BY <1>1, <3>1, HeadOfConcat
    <3> QED
      BY <3>2, <3>3 DEF Range
  <2> HIDE DEF writes
  <2>3. /\ state' \in Run /\ state'.phase = next.phase /\ state'.control = next.control
        /\ state'.writes = writes /\ state'.kind = "run"
    BY <2>1, <2>2 DEF Run
  <2>4. state' \in OperationState /\ ~IsCancelled(state')
    BY <2>3 DEF OperationState, IsCancelled
  <2> QED
    BY <1>2, <1>3, <2>2, <2>3, <2>4 DEF Opens
<1>4. CASE next.kind # "run"
  <2>1. state' = next /\ lane'.nextRun = lane.nextRun
    BY <1>4 DEF Claim
  <2> QED
    BY <1>2, <1>4, <2>1 DEF Opens, IsCancelled
<1> QED
  BY <1>3, <1>4

\* A prompt, a compaction and a navigation open an operation.
LEMMA ClaimsOpen ==
  ASSUME Base, Claims
  PROVE  Opens
<1>1. fresh \in Id /\ fresh \in Nat
  BY DEF Base, Control, Id
<1>2. ASSUME NEW n \in PromptCounts, StartRun(n)
      PROVE  Opens
  <2> DEFINE ids == [i \in 1 .. n |-> fresh + i]
             next == [kind |-> "run", control |-> "running", phase |-> NeedAssistant(fresh + n),
                      latest |-> NoId, steer |-> <<>>, followUp |-> <<>>, writes |-> ids,
                      drained |-> <<>>]
  <2>1. n \in Nat \ {0} /\ fresh + n \in Id /\ n + 1 \in Nat \ {0}
    BY <1>1, CallersAssumption DEF Id
  <2>2. ids \in Seq(Id)
    BY <1>1, <2>1 DEF Id
  <2>3. Claim(fresh, next, leaf, NoId, ids, n + 1, [id \in Range(ids) |-> "message"], <<>>)
    BY <1>2 DEF StartRun
  <2>4. NeedAssistant(fresh + n) \in Phase
    BY <2>1 DEF NeedAssistant, Phase, Checkpoint, Continuations, Id, NoId
  <2> HIDE DEF ids
  <2>5. next \in OperationState
    BY <2>2, <2>4 DEF OperationState, Run, Controls, Id, NoId
  <2>6. next.kind = "run" /\ next.phase.p = "checkpoint" /\ next.control = "running"
    BY DEF NeedAssistant
  <2> HIDE DEF next
  <2> QED
    BY <2>1, <2>3, <2>5, <2>6, ClaimOpens
<1>3. CASE CompactClaim
  <2> DEFINE next == [kind |-> "compaction", control |-> "running", structural |-> Deciding(fresh + 1)]
  <2>1. Claim(fresh, next, leaf, NoId, <<>>, 2, <<>>, [t \in {fresh + 1} |-> compacting])
    BY <1>3 DEF CompactClaim
  <2>2. Deciding(fresh + 1) \in Structural
    BY <1>1 DEF Deciding, Structural, Id, NoId
  <2>3. /\ next \in OperationState /\ next.kind = "compaction" /\ next.control = "running"
        /\ next.structural.status = "deciding"
    BY <2>2 DEF OperationState, Compaction, Controls, Deciding
  <2> HIDE DEF next
  <2> QED
    BY <2>1, <2>3, ClaimOpens
<1>4. CASE NavigateSomewhere
  <2>1. PICK target \in DOMAIN entries \cup {NoId}, label \in BOOLEAN : Navigate(target, label)
    BY <1>4 DEF NavigateSomewhere
  <2> DEFINE next == [kind |-> "navigation", control |-> "running",
                      target |-> target, label |-> label]
  <2>2. Claim(fresh, next, leaf, target, <<>>, 1, <<>>, <<>>)
    BY <2>1 DEF Navigate
  <2>3. target \in Id
    BY DEF Base, Control, Id, NoId
  <2>4. next \in OperationState /\ next.kind = "navigation" /\ next.control = "running"
    BY <2>3 DEF OperationState, Navigation, Controls
  <2> HIDE DEF next
  <2> QED
    BY <2>2, <2>4, ClaimOpens
<1> QED
  BY <1>2, <1>3, <1>4 DEF Claims

\* Every step of a lane is a commit of its driver, a commit of a caller, or
\* changes nothing durable.
LEMMA NextCases ==
  ASSUME Driven, [Next]_<<vars, scenario>>
  PROVE  \/ pc \in Settled /\ Commits
         \/ pc \in Settled /\ Ends
         \/ \E q \in QueueKinds : \E kind \in KindsOf(q) : Enqueue(q, kind)
         \/ NextRun \/ Abort \/ Claims
         \/ Observes
<1>1. CASE CallerStep
  <2>1. CASE CompactPrepare \/ CompactBusy \/ AbortSignal
    <3>1. UNCHANGED <<durable, dropped, pc, cur, then, invoked, requests>>
      BY <2>1 DEF CompactPrepare, CompactBusy, AbortSignal, driverVars, history
    <3> QED
      BY <3>1 DEF Observes
  <2>2. ASSUME NEW tools \in Registries, Crash(tools)
        PROVE  Observes
    <3>1. UNCHANGED <<durable, dropped, invoked, requests>> /\ pc' = "none"
      BY <2>2 DEF Crash, history
    <3> QED
      BY <3>1 DEF Observes, Working
  <2>3. CASE Resume
    <3>1. UNCHANGED <<durable, dropped, invoked, requests>>
      BY <2>3 DEF Resume, history
    <3>2. (cur' = Current /\ pc' = "claimed") \/ (UNCHANGED <<cur, pc>> /\ then' = then)
      BY <2>3 DEF Resume
    <3> QED
      BY <3>1, <3>2 DEF Observes, Working
  <2> QED
    BY <1>1, <2>1, <2>2, <2>3 DEF CallerStep, Claims
<1>2. CASE Start
  <2>1. UNCHANGED <<durable, dropped, invoked, requests>>
    BY <1>2 DEF Start, RestoreClaim, Register, Deregister, history
  <2>2. \/ cur' = Current /\ pc' = "claimed"
        \/ pc' = "none"
        \/ pc = "claimed" /\ cur' = cur /\ pc' = "plan"
        \/ UNCHANGED <<cur, pc, then>>
    BY <1>2 DEF Start, RestoreClaim, Register, Deregister
  <2> QED
    BY <2>1, <2>2 DEF Observes, Working
<1>3. CASE Reload
  <2>1. UNCHANGED <<durable, dropped>>
    BY <1>3 DEF Reload
  <2>2. cur' = Current \/ pc' = "none"
    BY <1>3 DEF Reload, Leave
  <2> QED
    BY <1>3, <2>1, <2>2 DEF Observes, Working
<1>4. CASE RetrySleep \/ Wake \/ \E i \in CallIndices : ToolReplayed(i)
  <2>1. UNCHANGED <<durable, dropped, cur>> /\ pc \in Working
    BY <1>4 DEF RetrySleep, Wake, ToolReplayed, Planning, Structuring, Generating, history, Working
  <2>2. \/ pc' = "sleep" /\ UNCHANGED <<invoked, requests>>
        \/ pc' = "reload" /\ then' = "plan" /\ UNCHANGED <<invoked, requests>>
        \/ \E i \in CallIndices : ToolReplayed(i)
    BY <1>4 DEF RetrySleep, Wake, history
  <2> QED
    BY <2>1, <2>2 DEF Observes
<1>5. CASE PlanStep \/ ElapsedStep \/ EffectStep
  BY <1>4, <1>5, DriverCommits DEF Driven
<1>6. CASE UNCHANGED <<vars, scenario>>
  BY <1>6 DEF Observes, vars, driverVars, history
<1> QED
  BY <1>1, <1>2, <1>3, <1>4, <1>5, <1>6 DEF Next, DriverStep

(***************************************************************************)
(* Cancellation and the queues.                                            *)
(***************************************************************************)
\* A cancelled run has set its steers and follow-ups aside.
SetAside(s) == s.kind = "run" /\ IsCancelled(s) => s.steer = <<>> /\ s.followUp = <<>>

CancelledEmpty == SetAside(state) /\ (pc \in Working => SetAside(cur.state))

Queued == CancelledEmpty /\ QueuedInputContinues

\* A driver never fills a queue.
LEMMA LegalSetAside ==
  ASSUME Base, pc \in Settled, SetAside(run), NEW next, NEW tx, NEW effect, Legal(next, tx, effect)
  PROVE  SetAside(next)
<1> SUFFICES ASSUME next.kind = "run", IsCancelled(next)
             PROVE  next.steer = <<>> /\ next.followUp = <<>>
  BY DEF SetAside
<1>1. run.kind = "run" /\ Drains(next, tx) /\ next.control = run.control
  BY DEF Legal
<1>2. run.steer = <<>> /\ run.followUp = <<>>
  BY <1>1 DEF SetAside, IsCancelled
<1>3. \A q \in {"steer", "followUp"} : next[q] = run[q]
  <2> TAKE q \in {"steer", "followUp"}
  <2>1. run[q] = <<>> /\ q \in QueueNames
    BY <1>2 DEF QueueNames
  <2>2. 1 .. Len(run[q]) = {}
    BY <2>1
  <2> QED
    BY <1>1, <2>1, <2>2 DEF Drains
<1> QED
  BY <1>2, <1>3

\* Every step keeps the base layer, and what was dropped legitimate.
LEMMA QueuedNext ==
  ASSUME Driven, Driven', Queued, [Next]_<<vars, scenario>>
  PROVE  Queued'
<1> USE DEF Driven, Queued
<1>1. CASE pc \in Settled /\ Commits
  <2>1. PICK next, tx, effect : Transition(next, tx, effect) /\ Legal(next, tx, effect)
    BY <1>1 DEF Commits
  <2>2. pc \in Working /\ SetAside(run)
    BY <1>1 DEF Settled, CancelledEmpty, run
  <2>3. SetAside(next)
    BY <1>1, <2>1, <2>2, LegalSetAside
  <2>4. cur' = cur /\ dropped' = dropped /\ (state' = next \/ state' = state)
    BY <2>1 DEF Transition, CommitTransition, durable, history
  <2> QED
    BY <2>2, <2>3, <2>4 DEF CancelledEmpty, QueuedInputContinues, SetAside, run
<1>2. CASE pc \in Settled /\ Ends
  <2>1. PICK outcome, tx, label : Terminal(outcome, tx, label) /\ LegalEnd(outcome, tx)
    BY <1>2 DEF Ends
  <2>2. pc \in Working /\ SetAside(run)
    BY <1>2 DEF Settled, CancelledEmpty, run
  <2>3. CASE StateFresh /\ LaneFresh
    <3>1. /\ state' = NoOperation /\ pc' = "none"
          /\ dropped' = dropped \cup (IF run.kind = "run" THEN Dropped(run, outcome) ELSE {})
      BY <2>1, <2>3 DEF Terminal, CommitTerminal, Leave, run
    <3>2. CancelledEmpty'
      BY <3>1 DEF CancelledEmpty, SetAside, NoOperation, Working
    <3>3. ASSUME run.kind = "run", NEW d \in Dropped(run, outcome)
          PROVE  d.queue # "followUp" /\ d.outcome # "failed"
      <4>1. run.followUp = <<>> /\ (outcome = "failed" => run.steer = <<>> /\ run.writes = <<>>)
        BY <2>1, <2>2, <3>3 DEF LegalEnd, SetAside
      <4>2. Range(<<>>) = {}
        BY DEF Range
      <4> QED
        BY <3>3, <4>1, <4>2 DEF Dropped
    <3> QED
      BY <3>1, <3>2, <3>3 DEF QueuedInputContinues
  <2>4. CASE ~(StateFresh /\ LaneFresh)
    <3>1. UNCHANGED <<state, cur, dropped>>
      BY <2>1, <2>4 DEF Terminal, durable
    <3> QED
      BY <2>2, <3>1 DEF CancelledEmpty, QueuedInputContinues, SetAside, run
  <2> QED
    BY <2>3, <2>4
<1>3. ASSUME NEW q \in QueueKinds, NEW kind, Enqueue(q, kind)
      PROVE  Queued'
  <2>1. state \in Run /\ fresh \in Id /\ q \in QueueNames
    <3>1. state.kind = "run"
      BY <1>3 DEF Enqueue
    <3> QED
      BY <3>1, StateShape, CallersAssumption DEF Base, Control, NoOperation, Id, QueueNames
  <2>2. /\ state' = [state EXCEPT ![q] = Append(@, fresh)] /\ UNCHANGED <<pc, cur, dropped>>
        /\ IsCancelled(state) => q = "writes"
    BY <1>3 DEF Enqueue, driverVars, history
  <2>3. SetAside(state')
    <3>1. state'.control = state.control /\ \A o \in QueueNames : o # q => state'[o] = state[o]
      BY <2>1, <2>2, EnqueueUpdate
    <3>2. state.kind = "run"
      BY <2>1 DEF Run
    <3> QED
      BY <2>2, <3>1, <3>2 DEF CancelledEmpty, SetAside, IsCancelled, QueueNames
  <2> QED
    BY <2>2, <2>3 DEF CancelledEmpty, QueuedInputContinues, Working
<1>4. CASE NextRun
  BY <1>4 DEF NextRun, driverVars, history, CancelledEmpty, SetAside, QueuedInputContinues
<1>5. CASE Abort
  <2>1. state \in OperationState
    BY <1>5 DEF Abort, Restorable, Base, Control, NoOperation
  <2>2. UNCHANGED <<pc, cur, dropped>> /\ (state' = state \/ state' = Cancel(state))
    BY <1>5 DEF Abort, driverVars, history
  <2>3. SetAside(Cancel(state))
    BY <2>1, CancelUpdate DEF SetAside, SameWork
  <2> QED
    BY <2>2, <2>3 DEF CancelledEmpty, QueuedInputContinues, SetAside
<1>6. CASE Claims
  <2>1. pc' = "restore" /\ dropped' = dropped
    BY <1>6, ClaimsOpen DEF Opens, history
  <2>2. ~IsCancelled(state')
    BY <1>6, ClaimsOpen DEF Opens
  <2> QED
    BY <2>1, <2>2 DEF CancelledEmpty, QueuedInputContinues, SetAside, Working
<1>7. CASE Observes
  <2>1. UNCHANGED <<state, dropped>>
    BY <1>7 DEF Observes, durable
  <2>2. pc' \in Working => cur'.state = state \/ (cur' = cur /\ pc \in Working)
    BY <1>7 DEF Observes, Current
  <2> QED
    BY <2>1, <2>2 DEF CancelledEmpty, QueuedInputContinues, SetAside
<1> QED
  BY <1>1, <1>2, <1>3, <1>4, <1>5, <1>6, <1>7, NextCases

(***************************************************************************)
(* Theorems of the first layers.                                           *)
(***************************************************************************)
\* The driver's snapshot never says more than what is durable, and an effect
\* runs only behind its intent, in every behaviour.
THEOREM Steering == Spec => []Driven
<1>1. Init => Driven
  BY BaseInit
<1>2. Driven /\ [Next]_<<vars, scenario>> => Driven'
  BY SteeredNext
<1> QED
  BY <1>1, <1>2, PTL DEF Spec

\* No end of a run deletes a queued follow-up, and a failure deletes nothing.
THEOREM QueuedInputIsHonoured == Spec => []QueuedInputContinues
<1>1. Init => Queued
  BY DEF Init, StoreInit, DriverInit, Queued, CancelledEmpty, QueuedInputContinues, SetAside,
    NoOperation, Working
<1>2. Driven /\ Driven' /\ Queued /\ [Next]_<<vars, scenario>> => Queued'
  BY QueuedNext
<1>3. Queued => QueuedInputContinues
  BY DEF Queued
<1> QED
  BY <1>1, <1>2, <1>3, Steering, PTL DEF Spec

\* What a commit of the driver does, if nothing was written since its
\* snapshot, and what its refusal does.
LEMMA CommitFacts ==
  ASSUME Driven, pc \in Settled, Commits
  PROVE  /\ UNCHANGED <<lane, laneSeq, lastResult, cur>>
         /\ \/ UNCHANGED <<durable, history>> /\ then' = "plan" /\ pc' = "reload"
            \/ /\ run = state /\ pc' = "reload"
               /\ \E tx : CommitTransition(state', tx) /\ Legal(state', tx, then')
               /\ UNCHANGED history
<1>1. PICK next, tx, effect : Transition(next, tx, effect) /\ Legal(next, tx, effect)
  BY DEF Commits
<1>2. CASE StateFresh
  <2>1. run = state
    BY <1>2 DEF StateFresh, run, Driven, Base, Coherent, Settled
  <2>2. CommitTransition(next, tx) /\ then' = effect /\ pc' = "reload" /\ UNCHANGED <<cur, history>>
    BY <1>1, <1>2 DEF Transition
  <2>3. state' = next /\ UNCHANGED <<lane, laneSeq, lastResult>>
    BY <2>2 DEF CommitTransition
  <2> QED
    BY <1>1, <2>1, <2>2, <2>3
<1>3. CASE ~StateFresh
  BY <1>1, <1>3 DEF Transition, durable
<1> QED
  BY <1>2, <1>3

\* What an end does: nothing, if somebody wrote meanwhile.
LEMMA EndFacts ==
  ASSUME Driven, pc \in Settled, Ends
  PROVE  \/ UNCHANGED <<durable, history, cur>> /\ then' = "plan" /\ pc' = "reload"
         \/ /\ run = state /\ cur.nextRun = lane.nextRun /\ pc' = "none" /\ then' = "plan"
            /\ UNCHANGED <<invoked, requests>>
            /\ \E outcome, tx, label : CommitTerminal(cur, outcome, tx, label) /\ LegalEnd(outcome, tx)
<1>1. PICK outcome, tx, label : Terminal(outcome, tx, label) /\ LegalEnd(outcome, tx)
  BY DEF Ends
<1>2. CASE StateFresh /\ LaneFresh
  <2>1. run = state /\ cur.nextRun = lane.nextRun
    BY <1>2 DEF StateFresh, LaneFresh, run, Driven, Base, Coherent, Settled
  <2>2. CommitTerminal(cur, outcome, tx, label) /\ Leave /\ UNCHANGED <<invoked, requests>>
    BY <1>1, <1>2 DEF Terminal
  <2> QED
    BY <1>1, <2>1, <2>2 DEF Leave
<1>3. CASE ~(StateFresh /\ LaneFresh)
  BY <1>1, <1>3 DEF Terminal, history
<1> QED
  BY <1>2, <1>3

\* An input for the next run waits until a run adopts it.
THEOREM NextRunNeverLost == Spec => NextRunKept
<1>1. ASSUME Driven, [Next]_<<vars, scenario>>
      PROVE  \A id \in Range(lane.nextRun) :
               \/ id \in Range(lane'.nextRun)
               \/ state'.kind = "run" /\ id \in Range(state'.writes)
  <2> USE DEF Driven
  <2>1. CASE pc \in Settled /\ Commits
    BY <1>1, <2>1, CommitFacts
  <2>2. CASE pc \in Settled /\ Ends
    <3>1. CASE lane' = lane
      BY <3>1
    <3>2. CASE /\ cur.nextRun = lane.nextRun
               /\ \E outcome, tx, label : CommitTerminal(cur, outcome, tx, label)
      <4>1. lane' = [op |-> NoId, nextRun |-> cur.nextRun]
        BY <3>2 DEF CommitTerminal
      <4> QED
        BY <3>2, <4>1
    <3> QED
      BY <1>1, <2>2, <3>1, <3>2, EndFacts DEF durable
  <2>3. CASE NextRun
    <3> DEFINE more == Append(lane.nextRun, fresh)
    <3>1. lane.nextRun \in Seq(Id) /\ fresh \in Id /\ lane \in [op: Id, nextRun: Seq(Id)]
      BY <1>1 DEF Base, Control, Id
    <3>2. lane'.nextRun = more
      BY <2>3, <3>1 DEF NextRun
    <3>3. \A i \in DOMAIN lane.nextRun : i \in DOMAIN more /\ more[i] = lane.nextRun[i]
      BY <3>1
    <3> HIDE DEF more
    <3> QED
      BY <3>2, <3>3 DEF Range
  <2>4. CASE Abort \/ Observes \/ \E q \in QueueKinds : \E kind \in KindsOf(q) : Enqueue(q, kind)
    BY <2>4 DEF Abort, Observes, Enqueue, durable
  <2>5. CASE Claims
    BY <1>1, <2>5, ClaimsOpen DEF Opens
  <2> QED
    BY <1>1, <2>1, <2>2, <2>3, <2>4, <2>5, NextCases
<1> QED
  BY <1>1, Steering, PTL DEF Spec, NextRunKept

\* No step commits an intent for a cancelled operation, however stale the
\* plan it comes from.
THEOREM NoEffectAfterCancel == Spec => CancelledStartsNothing
<1>1. ASSUME Driven, [Next]_<<vars, scenario>>, state.kind # "none", IsCancelled(state)
      PROVE  Intents(state') \subseteq Intents(state) \cup {NoId}
  <2> USE DEF Driven
  <2>0. state \in OperationState
    BY <1>1 DEF Base, Control, NoOperation
  <2>1. CASE pc \in Settled /\ Commits
    <3>1. CASE state' = state
      BY <3>1
    <3>2. CASE run = state /\ \E tx : Legal(state', tx, then')
      BY <1>1, <3>2 DEF Legal
    <3> QED
      BY <1>1, <2>1, <3>1, <3>2, CommitFacts DEF durable
  <2>2. CASE pc \in Settled /\ Ends
    <3>1. state' = state \/ state' = NoOperation
      BY <1>1, <2>2, EndFacts DEF CommitTerminal, durable
    <3> QED
      BY <3>1 DEF Intents, NoOperation
  <2>3. CASE NextRun \/ Abort \/ Observes
    <3>1. state' = state
      BY <1>1, <2>3 DEF NextRun, Abort, Observes, durable
    <3> QED
      BY <3>1
  <2>4. ASSUME NEW q \in QueueKinds, NEW kind, Enqueue(q, kind)
        PROVE  Intents(state') \subseteq Intents(state) \cup {NoId}
    <3>1. state \in Run /\ fresh \in Id /\ q \in QueueNames
      BY <1>1, <2>0, <2>4, StateShape, CallersAssumption DEF Enqueue, Base, Control, Id, QueueNames
    <3>2. SameWork(state, state')
      BY <2>4, <3>1, EnqueueUpdate DEF Enqueue
    <3> QED
      BY <3>2 DEF SameWork, Intents
  <2>5. CASE Claims
    <3>1. ~Busy
      BY <1>1, <2>5, ClaimsOpen DEF Opens
    <3> QED
      BY <1>1, <3>1 DEF Base, OneOperation, NoOperation
  <2> QED
    BY <1>1, <2>1, <2>2, <2>3, <2>4, <2>5, NextCases
<1> QED
  BY <1>1, Steering, PTL DEF Spec, CancelledStartsNothing

\* A cancelled run or navigation stays cancelled and ends aborted.
THEOREM CancellationSticks == Spec => CancelSticks
<1>1. ASSUME Driven, [Next]_<<vars, scenario>>, state.kind \in {"run", "navigation"},
             IsCancelled(state)
      PROVE  \/ lane'.op = lane.op /\ IsCancelled(state')
             \/ lane'.op = NoId /\ lastResult'.outcome = "aborted"
  <2> USE DEF Driven
  <2>0. state \in OperationState
    BY <1>1 DEF Base, Control, NoOperation
  <2>1. CASE pc \in Settled /\ Commits
    <3>1. CASE state' = state /\ lane' = lane
      BY <1>1, <3>1
    <3>2. CASE run = state /\ lane' = lane /\ \E tx : Legal(state', tx, then')
      BY <1>1, <3>2 DEF Legal, IsCancelled
    <3> QED
      BY <1>1, <2>1, <3>1, <3>2, CommitFacts DEF durable
  <2>2. CASE pc \in Settled /\ Ends
    <3>1. CASE state' = state /\ lane' = lane
      BY <1>1, <3>1
    <3>2. CASE /\ run = state
               /\ \E outcome, tx, label : CommitTerminal(cur, outcome, tx, label)
                                          /\ LegalEnd(outcome, tx)
      <4>1. PICK outcome, tx, label : CommitTerminal(cur, outcome, tx, label) /\ LegalEnd(outcome, tx)
        BY <3>2
      <4>2. outcome = "aborted"
        BY <1>1, <3>2, <4>1 DEF LegalEnd
      <4> QED
        BY <4>1, <4>2 DEF CommitTerminal
    <3> QED
      BY <1>1, <2>2, <3>1, <3>2, EndFacts DEF durable
  <2>3. CASE Abort \/ Observes
    <3>1. state' = state /\ lane' = lane
      BY <1>1, <2>3 DEF Abort, Observes, durable
    <3> QED
      BY <1>1, <3>1
  <2>4. CASE NextRun
    <3>1. state' = state /\ lane'.op = lane.op
      BY <1>1, <2>4 DEF NextRun, Base, Control
    <3> QED
      BY <1>1, <3>1
  <2>5. ASSUME NEW q \in QueueKinds, NEW kind, Enqueue(q, kind)
        PROVE  lane'.op = lane.op /\ IsCancelled(state')
    <3>1. state \in Run /\ fresh \in Id /\ q \in QueueNames
      BY <1>1, <2>0, <2>5, StateShape, CallersAssumption DEF Enqueue, Base, Control, Id, QueueNames
    <3>2. state'.control = state.control
      BY <2>5, <3>1, EnqueueUpdate DEF Enqueue
    <3> QED
      BY <1>1, <2>5, <3>2 DEF Enqueue, IsCancelled
  <2>6. CASE Claims
    <3>1. ~Busy
      BY <1>1, <2>6, ClaimsOpen DEF Opens
    <3> QED
      BY <1>1, <3>1 DEF Base, OneOperation, NoOperation
  <2> QED
    BY <1>1, <2>1, <2>2, <2>3, <2>4, <2>5, <2>6, NextCases
<1> QED
  BY <1>1, Steering, PTL DEF Spec, CancelSticks

(***************************************************************************)
(* Effects: how often a request is made, and a tool call executed.         *)
(***************************************************************************)
\* Callers only amend, and start no effect.
LEMMA AmendFacts ==
  ASSUME Driven,
         \/ \E q \in QueueKinds : \E kind \in KindsOf(q) : Enqueue(q, kind)
         \/ NextRun \/ Abort
  PROVE  /\ fresh' \in Nat /\ fresh' >= fresh
         /\ UNCHANGED <<entries, leaf, lastResult, pc, then, cur, history>> /\ lane'.op = lane.op
         /\ \/ state' = state
            \/ state \in OperationState /\ state' \in OperationState /\ SameWork(state, state')
<1> USE DEF Driven
<1>1. fresh \in Nat /\ fresh \in Id
  BY DEF Base, Control, Id
<1>2. ASSUME NEW q \in QueueKinds, NEW kind, Enqueue(q, kind)
      PROVE  /\ fresh' = fresh + 1
             /\ UNCHANGED <<entries, leaf, lane, lastResult, pc, then, cur, history>>
             /\ state \in OperationState /\ state' \in OperationState /\ SameWork(state, state')
  <2>1. /\ state.kind = "run" /\ fresh' = fresh + 1 /\ state' = [state EXCEPT ![q] = Append(@, fresh)]
        /\ UNCHANGED <<entries, leaf, lane, lastResult, pc, then, cur, history>>
    BY <1>2 DEF Enqueue, driverVars
  <2>2. state \in Run /\ state \in OperationState /\ q \in QueueNames
    BY <2>1, StateShape, CallersAssumption DEF Base, Control, NoOperation, QueueNames
  <2> QED
    BY <1>1, <2>1, <2>2, EnqueueUpdate
<1>3. CASE NextRun
  <2>1. /\ fresh' = fresh + 1 /\ state' = state /\ lane' = [lane EXCEPT !.nextRun = Append(@, fresh)]
        /\ UNCHANGED <<entries, leaf, lastResult, pc, then, cur, history>>
    BY <1>3 DEF NextRun, driverVars
  <2>2. lane'.op = lane.op
    BY <2>1 DEF Base, Control
  <2> QED
    BY <1>1, <2>1, <2>2
<1>4. CASE Abort
  <2>1. /\ fresh' = fresh /\ UNCHANGED <<entries, leaf, lane, lastResult, pc, then, cur, history>>
        /\ state' = state \/ state' = Cancel(state)
    BY <1>4 DEF Abort, driverVars
  <2>2. state \in OperationState
    BY <1>4 DEF Abort, Restorable, Base, Control, NoOperation
  <2>3. Cancel(state) \in OperationState /\ SameWork(state, Cancel(state))
    BY <2>2, CancelUpdate
  <2> QED
    BY <1>1, <2>1, <2>2, <2>3
<1> QED
  BY <1>1, <1>2, <1>3, <1>4

Made(reqs, step) == IF step \in DOMAIN reqs THEN reqs[step] ELSE 0

\* A generation that was not announced made fewer requests than its attempt,
\* which counts every one it may have made.
Generated(s, reqs, announced) ==
  s.kind = "run" /\ s.phase.p = "assistant" =>
    /\ s.phase.attempt <= MaxAttempts
    /\ Made(reqs, s.phase.step) <= s.phase.attempt
    /\ s.phase.gen # "pending" \/ announced => Made(reqs, s.phase.step) < s.phase.attempt

Counts(s, reqs, unused) ==
  /\ \A step \in DOMAIN reqs :
       step \in Nat /\ step < unused /\ reqs[step] \in Nat /\ reqs[step] <= MaxAttempts
  /\ s.kind = "run" /\ s.phase.p = "assistant" => s.phase.step < unused

Counted ==
  /\ Counts(state, requests, fresh)
  /\ Generated(state, requests, pc = "reload" /\ then = "model")

\* A call that may be started, or started again, was never started as unsafe;
\* runs is the history of the executions.
Ran(s, runs, unused, announced) ==
  s.kind = "run" /\ s.phase.p = "tools" =>
    LET calls == s.phase.calls IN
    /\ \A i \in DOMAIN calls : calls[i].result < unused
    /\ \A i, j \in DOMAIN calls : calls[i].result = calls[j].result => i = j
    /\ \A i, j \in DOMAIN calls :
         i < j /\ calls[j].status # "planned" => calls[i].status = "completed"
    /\ \A i \in DOMAIN calls :
         \/ calls[i].status = "completed"
         \/ calls[i].result \notin DOMAIN runs
         \/ /\ calls[i].status = "pending" /\ ~announced
            /\ calls[i].replay = "safe" => ~runs[calls[i].result].unsafe

Once(runs, unused) ==
  \A r \in DOMAIN runs : r \in Nat /\ r < unused /\ (runs[r].unsafe => runs[r].n = 1)

Guarded ==
  /\ Once(invoked, fresh)
  /\ Ran(state, invoked, fresh, pc = "reload" /\ then = "tool")

\* The same work, or none that has begun, bounds the same requests.
LEMMA GeneratedKept ==
  ASSUME Counted, requests' = requests, fresh \in Nat, fresh' \in Nat, fresh' >= fresh,
         \/ state' = state
         \/ SameWork(state, state')
         \/ state'.kind = "run" => state'.phase.p # "assistant",
         (pc = "reload" /\ then = "model")' => pc = "reload" /\ then = "model",
         state \in OperationState \cup {NoOperation}
  PROVE  Counted'
<1>1. ASSUME state'.kind = "run", state'.phase.p = "assistant"
      PROVE  /\ state.kind = "run" /\ state.phase = state'.phase
             /\ state.phase.step \in Nat
  <2>1. state.kind = "run" /\ state.phase = state'.phase
    BY <1>1 DEF SameWork
  <2>2. state.phase.step \in Nat
    BY <1>1, <2>1, StateShape, PhaseShape DEF Run, Generation, NoOperation, Id
  <2> QED
    BY <2>1, <2>2
<1>2. Counts(state', requests', fresh')
  BY <1>1 DEF Counted, Counts
<1>3. Generated(state', requests', (pc = "reload" /\ then = "model")')
  BY <1>1 DEF Counted, Generated
<1> QED
  BY <1>2, <1>3 DEF Counted

\* A generation of the driver counts its attempts.
LEMMA GeneratesCounts ==
  ASSUME NEW before \in Phase, NEW g \in Generation, NEW tx, NEW effect, tx.minted \in Nat,
         fresh \in Nat, Generates(before, g, tx, effect),
         \A step \in DOMAIN requests : step < fresh /\ requests[step] \in Nat,
         before.p = "assistant" =>
           /\ before.step < fresh /\ before.attempt <= MaxAttempts
           /\ Made(requests, before.step) <= before.attempt
           /\ before.gen # "pending" => Made(requests, before.step) < before.attempt
  PROVE  /\ g.step < fresh + tx.minted /\ g.attempt <= MaxAttempts
         /\ Made(requests, g.step) < g.attempt /\ Made(requests, g.step) <= g.attempt
<1>1. g.step \in Nat /\ g.attempt \in Nat
  BY DEF Generation, Id
<1>2. Made(requests, g.step) \in Nat /\ (g.step = fresh => Made(requests, g.step) = 0)
  BY DEF Made
<1>3. CASE g.attempt = 1 /\ g.step = fresh /\ tx.minted = 1
  BY <1>1, <1>2, <1>3, MaxAttemptsAssumption
<1>4. CASE /\ before.p = "assistant" /\ g.step = before.step /\ before.gen # "pending"
           /\ g.attempt = before.attempt
  BY <1>1, <1>2, <1>4, MaxAttemptsAssumption
<1>5. CASE /\ before.p = "assistant" /\ g.step = before.step
           /\ before.attempt < MaxAttempts /\ g.attempt = before.attempt + 1
  <2>1. before.attempt \in Nat
    BY <1>5, PhaseShape DEF Generation
  <2> QED
    BY <1>1, <1>2, <1>5, <2>1, MaxAttemptsAssumption
<1> QED
  BY <1>3, <1>4, <1>5 DEF Generates

\* Every step keeps the count of the attempts.
LEMMA CountedNext ==
  ASSUME Driven, Driven', Counted, [Next]_<<vars, scenario>>
  PROVE  Counted'
<1> USE DEF Driven
<1>1. fresh \in Nat /\ fresh' \in Nat /\ state \in OperationState \cup {NoOperation} /\ fresh >= fresh
  BY DEF Base, Control
<1>2. CASE pc \in Settled /\ Commits
  <2>1. CASE UNCHANGED <<durable, history>> /\ then' = "plan"
    BY <1>1, <2>1, GeneratedKept DEF durable, history
  <2>2. CASE /\ run = state /\ pc' = "reload" /\ UNCHANGED history
             /\ \E tx : CommitTransition(state', tx) /\ Legal(state', tx, then')
    <3>1. PICK tx : CommitTransition(state', tx) /\ Legal(state', tx, then')
      BY <2>2
    <3>2. /\ fresh' = fresh + tx.minted /\ tx.minted \in Nat /\ requests' = requests
          /\ state' \in OperationState /\ state'.kind = state.kind /\ state \in OperationState
      BY <2>2, <3>1, <1>2, WorkingIsBusy DEF CommitTransition, Write, Legal, Sound, history, Settled
    <3>3. CASE ~(state'.kind = "run" /\ state'.phase.p = "assistant")
      BY <1>1, <3>2, <3>3 DEF Counted, Counts, Generated
    <3>4. CASE state'.kind = "run" /\ state'.phase.p = "assistant"
      <4>1. Generates(state.phase, state'.phase, tx, then')
        BY <2>2, <3>1, <3>2, <3>4 DEF Legal
      <4>2. state.phase \in Phase /\ state'.phase \in Generation
        BY <3>2, <3>4, StateShape, PhaseShape DEF Run
      <4>3. /\ state'.phase.step < fresh' /\ state'.phase.attempt <= MaxAttempts
            /\ Made(requests, state'.phase.step) < state'.phase.attempt
            /\ Made(requests, state'.phase.step) <= state'.phase.attempt
        BY <1>1, <3>2, <3>4, <4>1, <4>2, GeneratesCounts DEF Counted, Counts, Generated
      <4>4. Counts(state', requests', fresh')
        BY <1>1, <3>2, <4>3 DEF Counted, Counts
      <4>5. Generated(state', requests', (pc = "reload" /\ then = "model")')
        BY <3>2, <4>3 DEF Generated
      <4> QED
        BY <4>4, <4>5 DEF Counted
    <3> QED
      BY <3>3, <3>4
  <2> QED
    BY <1>2, <2>1, <2>2, CommitFacts
<1>3. CASE pc \in Settled /\ Ends
  <2>1. CASE UNCHANGED <<durable, history>> /\ then' = "plan"
    BY <1>1, <2>1, GeneratedKept DEF durable, history
  <2>2. CASE /\ then' = "plan" /\ UNCHANGED <<invoked, requests>>
             /\ \E outcome, tx, label : CommitTerminal(cur, outcome, tx, label) /\ LegalEnd(outcome, tx)
    <3>1. PICK outcome, tx, label : CommitTerminal(cur, outcome, tx, label) /\ LegalEnd(outcome, tx)
      BY <2>2
    <3>2. fresh' = fresh + tx.minted /\ tx.minted \in Nat /\ state' = NoOperation
      BY <3>1 DEF CommitTerminal, Write, LegalEnd, Sound
    <3> QED
      BY <1>1, <2>2, <3>2, GeneratedKept DEF NoOperation
  <2> QED
    BY <1>3, <2>1, <2>2, EndFacts
<1>4. CASE (\E q \in QueueKinds : \E kind \in KindsOf(q) : Enqueue(q, kind)) \/ NextRun \/ Abort
  BY <1>1, <1>4, AmendFacts, GeneratedKept DEF history
<1>5. CASE Claims
  <2>1. Opens
    BY <1>5, ClaimsOpen
  <2> QED
    BY <1>1, <2>1, GeneratedKept DEF Opens, history
<1>6. CASE Observes
  <2>1. UNCHANGED <<fresh, state>>
    BY <1>6 DEF Observes, durable
  <2>2. CASE Reload /\ Restorable /\ lane.op = cur.op /\ then = "model"
    <3> DEFINE g == state.phase
    <3>1. /\ pc' = "model" /\ requests' = Requested(g.step) /\ pc = "reload"
      BY <2>2 DEF Reload
    <3>2. state.kind = "run" /\ g.p = "assistant" /\ g.gen = "pending"
      BY <2>2, <3>1 DEF Announced, Expects
    <3>3. g.step \in Nat /\ g.attempt \in Nat
      BY <1>1, <3>2, StateShape, PhaseShape DEF Run, Generation, NoOperation, Id
    <3>4. g.step < fresh /\ g.attempt <= MaxAttempts /\ Made(requests, g.step) < g.attempt
      BY <2>2, <3>1, <3>2 DEF Counted, Counts, Generated
    <3>5. /\ DOMAIN requests' = DOMAIN requests \cup {g.step}
          /\ requests'[g.step] = 1 + Made(requests, g.step)
          /\ \A s \in DOMAIN requests : s # g.step => requests'[s] = requests[s]
      BY <3>1 DEF Requested, Extend, Made
    <3>6. Made(requests, g.step) \in Nat
      BY DEF Made, Counted, Counts
    <3>7. /\ Made(requests', g.step) = requests'[g.step] /\ Made(requests', g.step) <= g.attempt
          /\ requests'[g.step] \in Nat /\ requests'[g.step] <= MaxAttempts
      <4>1. Made(requests', g.step) = requests'[g.step]
        BY <3>5 DEF Made
      <4> QED
        BY <3>3, <3>4, <3>5, <3>6, <4>1, MaxAttemptsAssumption
    <3>8. Counts(state', requests', fresh')
      <4> HIDE DEF g
      <4>1. \A s \in DOMAIN requests' :
              s \in Nat /\ s < fresh /\ requests'[s] \in Nat /\ requests'[s] <= MaxAttempts
        BY <3>3, <3>4, <3>5, <3>7 DEF Counted, Counts
      <4> QED
        BY <2>1, <4>1 DEF Counted, Counts
    <3>9. Generated(state', requests', (pc = "reload" /\ then = "model")')
      BY <2>1, <3>1, <3>2, <3>4, <3>7 DEF Generated
    <3> QED
      BY <3>8, <3>9 DEF Counted
  <2>3. CASE ~(Reload /\ Restorable /\ lane.op = cur.op /\ then = "model")
    <3>1. requests' = requests
      BY <1>6, <2>3 DEF Observes, Reload, ToolReplayed
    <3>2. (pc = "reload" /\ then = "model")' => pc = "reload" /\ then = "model"
      BY <1>6 DEF Observes, Reload, Leave, ToolReplayed, Driven, Base, Control
    <3> QED
      BY <1>1, <2>1, <3>1, <3>2, GeneratedKept
  <2> QED
    BY <2>2, <2>3
<1> QED
  BY <1>2, <1>3, <1>4, <1>5, <1>6, NextCases

\* One generation makes at most MaxAttempts requests, whatever crashes, lost
\* commits and retries come between them.
THEOREM AttemptsAreBounded == Spec => []AttemptsBounded
<1>1. Init => Counted
  BY DEF Init, StoreInit, DriverInit, Counted, Counts, Generated, NoOperation
<1>2. Driven /\ Driven' /\ Counted /\ [Next]_<<vars, scenario>> => Counted'
  BY CountedNext
<1>3. Counted => AttemptsBounded
  BY DEF Counted, Counts, AttemptsBounded
<1> QED
  BY <1>1, <1>2, <1>3, Steering, PTL DEF Spec

\* The calls of a batch.
LEMMA CallShape ==
  ASSUME NEW calls \in Seq(ToolCall)
  PROVE  /\ Len(calls) \in Nat /\ DOMAIN calls = 1 .. Len(calls)
         /\ \A i \in DOMAIN calls :
              i \in Nat /\ i >= 1 /\ i <= Len(calls) /\ calls[i] \in ToolCall
              /\ calls[i].result \in Nat
<1>1. Len(calls) \in Nat /\ DOMAIN calls = 1 .. Len(calls) /\ \A i \in DOMAIN calls : calls[i] \in ToolCall
  OBVIOUS
<1>2. \A c \in ToolCall : c.result \in Nat
  BY DEF ToolCall, Id
<1> QED
  BY <1>1, <1>2

\* The same work, or none that has begun, is guarded by the same history.
LEMMA GuardedKept ==
  ASSUME Guarded, invoked' = invoked, fresh \in Nat, fresh' \in Nat, fresh' >= fresh,
         \/ state' = state
         \/ SameWork(state, state')
         \/ state'.kind = "run" => state'.phase.p # "tools",
         (pc = "reload" /\ then = "tool")' => pc = "reload" /\ then = "tool",
         state \in OperationState \cup {NoOperation}
  PROVE  Guarded'
<1>1. ASSUME state'.kind = "run", state'.phase.p = "tools"
      PROVE  /\ state.kind = "run" /\ state.phase = state'.phase
             /\ \A i \in DOMAIN state.phase.calls : state.phase.calls[i].result \in Nat
  <2>1. state.kind = "run" /\ state.phase = state'.phase
    BY <1>1 DEF SameWork
  <2>2. state.phase.calls \in Seq(ToolCall)
    BY <1>1, <2>1, StateShape, PhaseShape DEF Run, Tools, NoOperation
  <2> QED
    BY <2>1, <2>2, CallShape
<1>2. Once(invoked', fresh')
  BY DEF Guarded, Once
<1>3. Ran(state', invoked', fresh', (pc = "reload" /\ then = "tool")')
  BY <1>1 DEF Guarded, Ran
<1> QED
  BY <1>2, <1>3 DEF Guarded

\* A batch of the driver guards its calls.
LEMMA BatchesGuard ==
  ASSUME NEW r \in Run, NEW n \in Run, n.phase.p = "tools", NEW tx, NEW effect, tx.minted \in Nat,
         fresh \in Nat, Batches(r.phase, n.phase, tx, effect), Once(invoked, fresh),
         NEW started \in BOOLEAN, Ran(r, invoked, fresh, started)
  PROVE  Ran(n, invoked, fresh + tx.minted, effect = "tool")
<1> DEFINE before == r.phase.calls
           calls == n.phase.calls
<1>1. calls \in Seq(ToolCall) /\ r.kind = "run" /\ r.phase \in Phase
  BY PhaseShape DEF Run, Tools
<1>2. CASE /\ calls # <<>> /\ tx.minted = Len(calls) + 1
           /\ \A i \in DOMAIN calls : calls[i] = Planned(fresh + i - 1)
  <2>1. /\ \A i \in DOMAIN calls : calls[i].result = fresh + i - 1 /\ calls[i].status = "planned"
        /\ \A i \in DOMAIN calls : i \in Nat /\ i >= 1 /\ i <= Len(calls)
        /\ Len(calls) \in Nat
    <3> HIDE DEF calls
    <3>1. \A i \in DOMAIN calls : Planned(fresh + i - 1).result = fresh + i - 1
                                  /\ Planned(fresh + i - 1).status = "planned"
      BY DEF Planned
    <3> QED
      BY <1>1, <1>2, <3>1, CallShape DEF calls
  <2> HIDE DEF calls
  <2>2. \A i \in DOMAIN calls : calls[i].result >= fresh /\ calls[i].result < fresh + tx.minted
    BY <1>2, <2>1
  <2>3. \A i, j \in DOMAIN calls : calls[i].result = calls[j].result => i = j
    BY <2>1
  <2>4. \A i \in DOMAIN calls : calls[i].result \notin DOMAIN invoked
    BY <2>1, <2>2 DEF Once
  <2> QED
    BY <2>1, <2>2, <2>3, <2>4 DEF Ran, calls
<1>3. ASSUME r.phase.p = "tools", NEW k \in DOMAIN before, NEW c \in ToolCall,
             calls = [before EXCEPT ![k] = c], c.result = before[k].result,
             \A j \in DOMAIN before : j < k => before[j].status = "completed",
             \/ /\ before[k].status = "planned" /\ c.status = "pending" /\ effect = "tool"
             \/ before[k].status # "completed" /\ c.status = "completed" /\ effect = "plan"
      PROVE  Ran(n, invoked, fresh + tx.minted, effect = "tool")
  <2>1. before \in Seq(ToolCall)
    BY <1>1, <1>3, PhaseShape DEF Tools
  <2>2. /\ DOMAIN calls = DOMAIN before /\ calls[k] = c
        /\ \A j \in DOMAIN before : j # k => calls[j] = before[j]
        /\ \A j \in DOMAIN before : j \in Nat /\ before[j].result \in Nat
        /\ \A j \in DOMAIN before : calls[j].result = before[j].result
    BY <1>3, <2>1, CallShape
  <2>3. /\ \A i \in DOMAIN before : before[i].result < fresh
        /\ \A i, j \in DOMAIN before : before[i].result = before[j].result => i = j
        /\ \A i, j \in DOMAIN before :
             i < j /\ before[j].status # "planned" => before[i].status = "completed"
        /\ \A i \in DOMAIN before :
             \/ before[i].status = "completed"
             \/ before[i].result \notin DOMAIN invoked
             \/ /\ before[i].status = "pending"
                /\ before[i].replay = "safe" => ~invoked[before[i].result].unsafe
    BY <1>1, <1>3 DEF Ran
  <2> HIDE DEF before, calls
  <2>4. \A j \in DOMAIN before : j < k \/ j = k \/ k < j
    BY <2>2
  <2>5. \A j \in DOMAIN before : k < j => before[j].status = "planned"
    BY <1>3, <2>3
  <2>6. \A i \in DOMAIN calls : calls[i].result < fresh + tx.minted
    BY <2>2, <2>3
  <2>7. \A i, j \in DOMAIN calls : calls[i].result = calls[j].result => i = j
    BY <2>2, <2>3
  <2>8. \A i, j \in DOMAIN calls :
          i < j /\ calls[j].status # "planned" => calls[i].status = "completed"
    BY <1>3, <2>2, <2>3, <2>4, <2>5
  <2>9. ASSUME NEW i \in DOMAIN calls
        PROVE  \/ calls[i].status = "completed"
               \/ calls[i].result \notin DOMAIN invoked
               \/ /\ calls[i].status = "pending" /\ effect # "tool"
                  /\ calls[i].replay = "safe" => ~invoked[calls[i].result].unsafe
    BY <1>3, <2>2, <2>3, <2>4, <2>5
  <2> QED
    BY <2>6, <2>7, <2>8, <2>9 DEF Ran, calls
<1> QED
  BY <1>2, <1>3 DEF Batches

\* One more execution of the first unfinished call, which is pending: the first
\* one, or one that was declared safe before and is now.
LEMMA ExecutedGuards ==
  ASSUME Guarded, fresh \in Nat, state \in Run, state.phase.p = "tools",
         NEW k \in DOMAIN state.phase.calls, NEW unsafe \in BOOLEAN,
         LET c == state.phase.calls[k] IN
           /\ c.status = "pending" /\ invoked' = Executed(c.result, unsafe)
           /\ \/ pc = "reload" /\ then = "tool" /\ unsafe = (c.replay = "never")
              \/ c.replay = "safe" /\ ~unsafe,
         UNCHANGED <<fresh, state>>, pc' # "reload"
  PROVE  Guarded'
<1> DEFINE calls == state.phase.calls
           c == calls[k]
           before == IF c.result \in DOMAIN invoked THEN invoked[c.result] ELSE [n |-> 0, unsafe |-> FALSE]
           now == [n |-> before.n + 1, unsafe |-> before.unsafe \/ unsafe]
<1>1. calls \in Seq(ToolCall) /\ state.kind = "run"
  BY PhaseShape DEF Run, Tools
<1>2. /\ \A i \in DOMAIN calls : calls[i].result \in Nat /\ calls[i].result < fresh
      /\ \A i, j \in DOMAIN calls : calls[i].result = calls[j].result => i = j
      /\ \A i, j \in DOMAIN calls :
           i < j /\ calls[j].status # "planned" => calls[i].status = "completed"
      /\ \A i \in DOMAIN calls :
           \/ calls[i].status = "completed"
           \/ calls[i].result \notin DOMAIN invoked
           \/ /\ calls[i].status = "pending" /\ ~(pc = "reload" /\ then = "tool")
              /\ calls[i].replay = "safe" => ~invoked[calls[i].result].unsafe
  BY <1>1, CallShape DEF Guarded, Ran
<1>3. /\ DOMAIN invoked' = DOMAIN invoked \cup {c.result} /\ invoked'[c.result] = now
      /\ \A r \in DOMAIN invoked : r # c.result => invoked'[r] = invoked[r]
  BY DEF Executed, Extend
<1>4. now.n = before.n + 1 /\ now.unsafe = (before.unsafe \/ unsafe)
  OBVIOUS
<1> HIDE DEF now
<1>5. \/ c.result \notin DOMAIN invoked /\ now.n = 1 /\ now.unsafe = unsafe
      \/ now.unsafe = FALSE
  <2>1. CASE c.result \notin DOMAIN invoked
    BY <1>4, <2>1
  <2>2. CASE c.result \in DOMAIN invoked
    <3>1. c.replay = "safe" /\ ~unsafe /\ ~invoked[c.result].unsafe
      BY <1>2, <2>2
    <3> QED
      BY <1>4, <2>2, <3>1
  <2> QED
    BY <2>1, <2>2
<1>6. c.replay = "safe" => now.unsafe = FALSE
  <2>1. CASE c.result \notin DOMAIN invoked
    BY <1>5, <2>1
  <2>2. CASE c.result \in DOMAIN invoked
    BY <1>5, <2>2
  <2> QED
    BY <2>1, <2>2
<1> HIDE DEF before, c, calls
<1>7. Once(invoked', fresh')
  <2>1. c.result \in Nat /\ c.result < fresh
    BY <1>2 DEF c, calls
  <2> QED
    BY <1>3, <1>5, <2>1 DEF Guarded, Once
<1>8. Ran(state', invoked', fresh', (pc = "reload" /\ then = "tool")')
  <2>1. ASSUME NEW i \in DOMAIN calls
        PROVE  \/ calls[i].status = "completed"
               \/ calls[i].result \notin DOMAIN invoked'
               \/ /\ calls[i].status = "pending"
                  /\ calls[i].replay = "safe" => ~invoked'[calls[i].result].unsafe
    <3>1. CASE i = k
      BY <1>3, <1>6, <3>1 DEF c, calls
    <3>2. CASE i # k
      <4>1. calls[i].result # c.result
        BY <1>2, <3>2 DEF c, calls
      <4> QED
        BY <1>2, <1>3, <4>1
    <3> QED
      BY <3>1, <3>2
  <2> QED
    BY <1>2, <2>1 DEF Ran, calls
<1> QED
  BY <1>7, <1>8 DEF Guarded

\* Every step keeps the history of executions guarded.
LEMMA GuardedNext ==
  ASSUME Driven, Driven', Guarded, [Next]_<<vars, scenario>>
  PROVE  Guarded'
<1> USE DEF Driven
<1>1. fresh \in Nat /\ fresh' \in Nat /\ state \in OperationState \cup {NoOperation} /\ fresh >= fresh
  BY DEF Base, Control
<1>2. CASE pc \in Settled /\ Commits
  <2>1. CASE UNCHANGED <<durable, history>> /\ then' = "plan"
    BY <1>1, <2>1, GuardedKept DEF durable, history
  <2>2. CASE /\ run = state /\ pc' = "reload" /\ UNCHANGED history
             /\ \E tx : CommitTransition(state', tx) /\ Legal(state', tx, then')
    <3>1. PICK tx : CommitTransition(state', tx) /\ Legal(state', tx, then')
      BY <2>2
    <3>2. /\ fresh' = fresh + tx.minted /\ tx.minted \in Nat /\ invoked' = invoked
          /\ state' \in OperationState /\ state'.kind = state.kind /\ state \in OperationState
      BY <2>2, <3>1, <1>2, WorkingIsBusy DEF CommitTransition, Write, Legal, Sound, history, Settled
    <3>3. Once(invoked', fresh')
      BY <1>1, <3>2 DEF Guarded, Once
    <3>4. Ran(state', invoked', fresh', (pc = "reload" /\ then = "tool")')
      <4>1. CASE ~(state'.kind = "run" /\ state'.phase.p = "tools")
        BY <4>1 DEF Ran
      <4>2. CASE state'.kind = "run" /\ state'.phase.p = "tools"
        <5>1. Batches(state.phase, state'.phase, tx, then')
          BY <2>2, <3>1, <3>2, <4>2 DEF Legal
        <5>2. state \in Run /\ state' \in Run
          BY <3>2, <4>2, StateShape
        <5>3. Ran(state', invoked, fresh + tx.minted, then' = "tool")
          BY <1>1, <3>2, <4>2, <5>1, <5>2, BatchesGuard DEF Guarded
        <5>4. (then' = "tool") = (pc = "reload" /\ then = "tool")'
          BY <2>2
        <5> QED
          BY <3>2, <5>3, <5>4
      <4> QED
        BY <4>1, <4>2
    <3> QED
      BY <3>3, <3>4 DEF Guarded
  <2> QED
    BY <1>2, <2>1, <2>2, CommitFacts
<1>3. CASE pc \in Settled /\ Ends
  <2>1. CASE UNCHANGED <<durable, history>> /\ then' = "plan"
    BY <1>1, <2>1, GuardedKept DEF durable, history
  <2>2. CASE /\ then' = "plan" /\ UNCHANGED <<invoked, requests>>
             /\ \E outcome, tx, label : CommitTerminal(cur, outcome, tx, label) /\ LegalEnd(outcome, tx)
    <3>1. PICK outcome, tx, label : CommitTerminal(cur, outcome, tx, label) /\ LegalEnd(outcome, tx)
      BY <2>2
    <3>2. fresh' = fresh + tx.minted /\ tx.minted \in Nat /\ state' = NoOperation
      BY <3>1 DEF CommitTerminal, Write, LegalEnd, Sound
    <3> QED
      BY <1>1, <2>2, <3>2, GuardedKept DEF NoOperation
  <2> QED
    BY <1>3, <2>1, <2>2, EndFacts
<1>4. CASE (\E q \in QueueKinds : \E kind \in KindsOf(q) : Enqueue(q, kind)) \/ NextRun \/ Abort
  BY <1>1, <1>4, AmendFacts, GuardedKept DEF history
<1>5. CASE Claims
  <2>1. Opens
    BY <1>5, ClaimsOpen
  <2> QED
    BY <1>1, <2>1, GuardedKept DEF Opens, history
<1>6. CASE Observes
  <2>1. UNCHANGED <<fresh, state>>
    BY <1>6 DEF Observes, durable
  <2>2. CASE Reload /\ Restorable /\ lane.op = cur.op /\ then = "tool"
    <3> DEFINE calls == state.phase.calls
               c == CHOOSE c \in Range(calls) : c.status = "pending"
    <3>1. pc' = "tool" /\ pc = "reload" /\ invoked' = Executed(c.result, c.replay = "never")
      BY <2>2 DEF Reload
    <3>2. state.kind = "run" /\ state.phase.p = "tools" /\ \E i \in DOMAIN calls : calls[i].status = "pending"
      BY <2>2, <3>1 DEF Announced, Expects
    <3>3. state \in Run
      BY <1>1, <3>2, StateShape DEF NoOperation
    <3>4. PICK k \in DOMAIN calls : calls[k] = c /\ c.status = "pending"
      <4>1. \E x \in Range(calls) : x.status = "pending"
        BY <3>2 DEF Range
      <4>2. c \in Range(calls) /\ c.status = "pending"
        BY <4>1
      <4> QED
        BY <4>2 DEF Range
    <3> HIDE DEF c
    <3> QED
      BY <1>1, <2>1, <2>2, <3>1, <3>2, <3>3, <3>4, ExecutedGuards
  <2>3. CASE \E i \in CallIndices : ToolReplayed(i)
    <3>1. PICK i \in CallIndices : ToolReplayed(i)
      BY <2>3
    <3>2. /\ Planning("tools") /\ At(i, "pending") /\ Replayable(i) /\ pc' = "tool"
          /\ invoked' = Executed(batch.calls[i].result, FALSE)
      BY <3>1 DEF ToolReplayed, Replayable
    <3>3. state.kind = "run" /\ state.phase = run.phase
      BY <3>2 DEF Planning, Base, Coherent, Settled, Working, SameWork, run
    <3>4. state \in Run /\ state.phase.p = "tools"
      BY <1>1, <3>2, <3>3, StateShape DEF NoOperation, Planning
    <3>5. i \in DOMAIN state.phase.calls /\ state.phase.calls[i].status = "pending"
          /\ state.phase.calls[i].replay = "safe"
          /\ invoked' = Executed(state.phase.calls[i].result, FALSE)
      BY <3>2, <3>3 DEF At, Unfinished, Replayable, batch
    <3> QED
      BY <1>1, <2>1, <3>2, <3>4, <3>5, ExecutedGuards
  <2>4. CASE ~(Reload /\ Restorable /\ lane.op = cur.op /\ then = "tool")
             /\ ~\E i \in CallIndices : ToolReplayed(i)
    <3>1. invoked' = invoked
      BY <1>6, <2>4 DEF Observes, Reload
    <3>2. (pc = "reload" /\ then = "tool")' => pc = "reload" /\ then = "tool"
      BY <1>6, <2>4 DEF Observes, Reload, Leave, Driven, Base, Control
    <3> QED
      BY <1>1, <2>1, <3>1, <3>2, GuardedKept
  <2> QED
    BY <2>2, <2>3, <2>4
<1> QED
  BY <1>2, <1>3, <1>4, <1>5, <1>6, NextCases

\* A tool call that may not be repeated is executed once, in any scenario and
\* whatever the process does or declares when it comes back.
THEOREM UnsafeToolsRunOnce == Spec => []UnsafeToolOnce
<1>1. Init => Guarded
  BY DEF Init, StoreInit, DriverInit, Guarded, Once, Ran, NoOperation
<1>2. Driven /\ Driven' /\ Guarded /\ [Next]_<<vars, scenario>> => Guarded'
  BY GuardedNext
<1>3. Guarded => UnsafeToolOnce
  BY DEF Guarded, Once, UnsafeToolOnce
<1> QED
  BY <1>1, <1>2, <1>3, Steering, PTL DEF Spec

(***************************************************************************)
(* The life of an operation.                                               *)
(***************************************************************************)
\* No scenario has both: a standalone compaction that was cancelled may be
\* set running again by a retry (SummaryReturns).
NoCompactionToAbort ==
  \A s \in DOMAIN Scenarios :
    Scenarios[s].bounds["compacts"] = 0 \/ Scenarios[s].bounds["aborts"] = 0

\* What is there is what the scenario allows.
Allowed ==
  /\ used \in [Choices -> Nat]
  /\ compacting # NoId \/ state.kind = "compaction" => Bounds["compacts"] # 0
  /\ state # NoOperation /\ IsCancelled(state) => Bounds["aborts"] # 0

\* The bounds of the environment are naturals.
LEMMA BoundsShape ==
  ASSUME Base
  PROVE  Bounds \in [Choices -> Nat]
BY ScenariosAssumption DEF Base, Control, Bounds

\* A bounded choice was possible.
LEMMA Spent ==
  ASSUME Base, used \in [Choices -> Nat], NEW b \in Choices, Spend(b)
  PROVE  /\ used' \in [Choices -> Nat] /\ Bounds[b] # 0
         /\ \A c \in Choices : used[c] <= used'[c]
BY BoundsShape DEF Spend

\* Steps count what they choose, and never count back.
LEMMA UsedCounts ==
  ASSUME Base, used \in [Choices -> Nat], [Next]_<<vars, scenario>>
  PROVE  used' \in [Choices -> Nat] /\ \A c \in Choices : used[c] <= used'[c]
<1>1. \/ used' = used \/ \E b \in Choices : Spend(b)
  <2>1. CASE CallerStep
    <3>1. CASE \E queue \in QueueKinds : \E kind \in KindsOf(queue) : Enqueue(queue, kind)
      BY <3>1, CallersAssumption DEF Enqueue, Choices
    <3>2. CASE (\E n \in PromptCounts : StartRun(n)) \/ NavigateSomewhere
      BY <3>2 DEF StartRun, NavigateSomewhere, Navigate, Choices
    <3>3. CASE CompactPrepare \/ CompactClaim \/ CompactBusy \/ NextRun \/ Abort \/ AbortSignal \/ Resume
      BY <3>3 DEF CompactPrepare, CompactClaim, CompactBusy, NextRun, Abort, AbortSignal, Resume, Choices
    <3>4. ASSUME NEW tools, Crash(tools)
          PROVE  \E b \in Choices : Spend(b)
      BY <3>4 DEF Crash, Choices
    <3> QED
      BY <2>1, <3>1, <3>2, <3>3, <3>4 DEF CallerStep
  <2>2. CASE Start \/ Reload \/ RetrySleep \/ Wake
    BY <2>2 DEF Start, RestoreClaim, Register, Deregister, Reload, RetrySleep, Wake
  <2>3. CASE \/ CheckpointWrites \/ CheckpointAbort \/ CheckpointSteer
             \/ \E over \in BOOLEAN : CheckThreshold(over)
             \/ BeginGeneration \/ CheckpointFollowUp \/ RunEndHook \/ Complete
             \/ FailureInbox \/ FailureFinish
    BY <2>3 DEF CheckpointWrites, CheckpointAbort, CheckpointSteer, CheckThreshold, BeginGeneration,
      CheckpointFollowUp, RunEndHook, Complete, FailureInbox, FailureFinish, ApplyInbox, Choices
  <2>4. CASE \/ GenerationAbort \/ AssistantIntent \/ AssistantRestored \/ RetryElapsed
             \/ (\E resp \in Responses, prepared \in BOOLEAN : ModelReturns(resp, prepared))
             \/ ModelInterrupted
    BY <2>4 DEF GenerationAbort, AssistantIntent, AssistantRestored, RetryElapsed, ModelReturns,
      ModelInterrupted, Choices
  <2>5. CASE \/ BatchComplete
             \/ \E i \in CallIndices : ToolRefused(i) \/ ToolIntent(i) \/ ToolReplayed(i) \/ ToolGivenUp(i)
             \/ \E i \in CallIndices, terminate \in BOOLEAN : ToolBlocked(i, terminate)
             \/ \E i \in CallIndices, terminate \in BOOLEAN : ToolFinishes(i, terminate)
    BY <2>5 DEF BatchComplete, ToolRefused, ToolIntent, ToolReplayed, ToolGivenUp, ToolBlocked,
      ToolFinishes, Choices
  <2>6. CASE \/ StructuralAbort \/ StructuralDeclined \/ StructuralHookSummary \/ StructuralGenerate
             \/ SummaryIntent \/ SummaryRestored \/ SummaryRetryElapsed \/ NavigationStep
             \/ \E answer \in Answers : SummaryReturns(answer)
    BY <2>6 DEF StructuralAbort, StructuralDeclined, StructuralHookSummary, StructuralGenerate,
      SummaryIntent, SummaryRestored, SummaryRetryElapsed, NavigationStep, SummaryReturns, Choices
  <2>7. CASE UNCHANGED <<vars, scenario>>
    BY <2>7 DEF vars
  <2> QED
    BY <2>1, <2>2, <2>3, <2>4, <2>5, <2>6, <2>7
      DEF Next, DriverStep, PlanStep, ElapsedStep, EffectStep
<1> QED
  BY <1>1, Spent

\* What a caller did with the operation of a lane, and what a driver did.
LEMMA AllowedNext ==
  ASSUME Driven, Allowed, NoCompactionToAbort, [Next]_<<vars, scenario>>
  PROVE  Allowed'
<1> USE DEF Driven
<1>1. used' \in [Choices -> Nat] /\ Bounds' = Bounds /\ state \in OperationState \cup {NoOperation}
  <2>1. scenario' = scenario
    BY DEF Next
  <2> QED
    BY <2>1, UsedCounts DEF Allowed, Bounds, Base, Control
<1>2. compacting' # NoId => compacting' = compacting \/ Bounds["compacts"] # 0
  <2>1. CASE CallerStep
    <3>1. CASE CompactPrepare
      BY <3>1, Spent DEF CompactPrepare, Allowed, Choices
    <3>2. CASE \/ (\E n \in PromptCounts : StartRun(n)) \/ CompactClaim \/ CompactBusy
               \/ NavigateSomewhere \/ NextRun \/ Abort \/ AbortSignal \/ Resume
               \/ \E queue \in QueueKinds : \E kind \in KindsOf(queue) : Enqueue(queue, kind)
               \/ \E tools \in Registries : Crash(tools)
      BY <3>2 DEF StartRun, CompactClaim, CompactBusy, NavigateSomewhere, Navigate, NextRun, Abort,
        AbortSignal, Resume, Enqueue, Crash, callers
    <3> QED
      BY <2>1, <3>1, <3>2 DEF CallerStep
  <2>2. CASE Start \/ Reload \/ RetrySleep \/ Wake \/ \E i \in CallIndices : ToolReplayed(i)
    BY <2>2 DEF Start, RestoreClaim, Register, Deregister, Reload, RetrySleep, Wake, ToolReplayed, callers
  <2>3. CASE PlanStep \/ ElapsedStep \/ EffectStep
    BY <2>2, <2>3, DriverCommits DEF Commits, Ends, Transition, Terminal, callers
  <2>4. CASE UNCHANGED <<vars, scenario>>
    BY <2>4 DEF vars, callers
  <2> QED
    BY <2>1, <2>2, <2>3, <2>4 DEF Next, DriverStep
<1>3. /\ state'.kind = "compaction" => state.kind = "compaction" \/ Bounds["compacts"] # 0
      /\ state' # NoOperation /\ IsCancelled(state') =>
           (state # NoOperation /\ IsCancelled(state)) \/ Bounds["aborts"] # 0
  <2>1. CASE pc \in Settled /\ Commits
    <3>1. CASE UNCHANGED durable
      BY <3>1 DEF durable
    <3>2. CASE run = state /\ \E tx : Legal(state', tx, then')
      <4>1. state \in OperationState
        BY <2>1, WorkingIsBusy DEF Settled
      <4> QED
        BY <3>2, <4>1, StateShape DEF Legal, IsCancelled
    <3> QED
      BY <2>1, <3>1, <3>2, CommitFacts
  <2>2. CASE pc \in Settled /\ Ends
    <3>1. state' = state \/ state' = NoOperation
      BY <2>2, EndFacts DEF CommitTerminal, durable
    <3> QED
      BY <3>1 DEF NoOperation
  <2>3. ASSUME NEW q \in QueueKinds, NEW kind \in KindsOf(q), Enqueue(q, kind)
        PROVE  state'.kind = state.kind /\ state'.control = state.control /\ state # NoOperation
    <3>1. state \in Run /\ fresh \in Id /\ q \in QueueNames
      BY <1>1, <2>3, StateShape, CallersAssumption DEF Enqueue, Base, Control, Id, QueueNames, NoOperation
    <3>2. state'.control = state.control /\ SameWork(state, state')
      BY <2>3, <3>1, EnqueueUpdate DEF Enqueue
    <3> QED
      BY <3>1, <3>2 DEF SameWork, Run, NoOperation
  <2>4. CASE NextRun \/ Observes
    BY <2>4 DEF NextRun, Observes, durable
  <2>5. CASE Abort
    <3>1. Bounds["aborts"] # 0
      BY <2>5, Spent DEF Abort, Allowed, Choices
    <3>2. state' = state \/ (state \in OperationState /\ state' = Cancel(state))
      BY <1>1, <2>5 DEF Abort, Restorable, NoOperation
    <3>3. state'.kind = state.kind
      BY <3>2, CancelUpdate DEF SameWork
    <3> QED
      BY <3>1, <3>3
  <2>6. CASE Claims
    <3>1. ~IsCancelled(state')
      BY <2>6, ClaimsOpen DEF Opens
    <3>2. state'.kind = "compaction" => compacting # NoId
      <4>1. ASSUME NEW n \in PromptCounts, StartRun(n)
            PROVE  state'.kind = "run"
        BY <4>1 DEF StartRun, Claim
      <4>2. CASE NavigateSomewhere
        BY <4>2 DEF NavigateSomewhere, Navigate, Claim
      <4>3. CASE CompactClaim
        BY <4>3 DEF CompactClaim
      <4> QED
        BY <2>6, <4>1, <4>2, <4>3 DEF Claims
    <3> QED
      BY <3>1, <3>2 DEF Allowed
  <2> QED
    BY <2>1, <2>2, <2>3, <2>4, <2>5, <2>6, NextCases DEF IsCancelled
<1> QED
  BY <1>1, <1>2, <1>3 DEF Allowed

\* Every step of a lane is one of the life of its operation, or is not seen.
LEMMA LivesNext ==
  ASSUME Driven, Allowed, NoCompactionToAbort, [Next]_<<vars, scenario>>
  PROVE  [Life!LifeNext]_(Life!life)
<1> USE DEF Driven
<1> DEFINE st == IF ~Busy THEN "idle" ELSE IF IsCancelled(state) THEN "cancelling" ELSE "running"
           res == [op |-> lastResult.op, outcome |-> lastResult.outcome]
<1>1. /\ state \in OperationState \cup {NoOperation} /\ lane.op \in Nat /\ fresh \in Nat /\ fresh # 0
      /\ (Busy <=> state # NoOperation) /\ lastResult.op \in Nat /\ lastResult.op < fresh
  BY DEF Base, Control, OneOperation, Id
<1>2. ASSUME st' = st, lane'.op = lane.op, lastResult' = lastResult
      PROVE  UNCHANGED Life!life
  BY <1>2 DEF Life!life
<1>3. CASE pc \in Settled /\ Commits
  <2>1. lane' = lane /\ lastResult' = lastResult /\ Busy /\ state \in OperationState
    BY <1>3, CommitFacts, WorkingIsBusy DEF Settled
  <2>2. state' = state \/ (run = state /\ \E tx : Legal(state', tx, then'))
    BY <1>3, CommitFacts DEF durable
  <2>3. state.control \in Controls
    BY <2>1 DEF OperationState, Run, Compaction, Navigation
  <2>4. IsCancelled(state') = IsCancelled(state)
    <3>1. CASE state.kind = "compaction" /\ IsCancelled(state)
      <4>1. Bounds["compacts"] # 0 /\ Bounds["aborts"] # 0
        BY <1>1, <2>1, <3>1, StateShape DEF Allowed
      <4> QED
        BY <4>1 DEF NoCompactionToAbort, Bounds, Base, Control
    <3>2. CASE ~(state.kind = "compaction" /\ IsCancelled(state))
      BY <2>2, <2>3, <3>2 DEF Legal, IsCancelled, Controls
    <3> QED
      BY <3>1, <3>2
  <2> QED
    BY <1>2, <2>1, <2>4 DEF Busy
<1>4. CASE pc \in Settled /\ Ends
  <2>1. Busy /\ state \in OperationState /\ cur.op = lane.op
    BY <1>4, WorkingIsBusy DEF Base, Settled, Coherent
  <2>2. CASE UNCHANGED durable
    BY <1>2, <2>2 DEF durable, Busy
  <2>3. CASE /\ run = state
             /\ \E outcome, tx, label : CommitTerminal(cur, outcome, tx, label) /\ LegalEnd(outcome, tx)
    <3>1. PICK outcome, tx, label : CommitTerminal(cur, outcome, tx, label) /\ LegalEnd(outcome, tx)
      BY <2>3
    <3>2. lane'.op = NoId /\ lastResult'.op = lane.op /\ lastResult'.outcome = outcome
      BY <2>1, <3>1 DEF CommitTerminal
    <3>3. outcome \in Outcomes /\ ((outcome = "aborted") <=> IsCancelled(state))
      <4>1. CASE state.kind = "compaction" /\ IsCancelled(state)
        <5>1. Bounds["compacts"] # 0 /\ Bounds["aborts"] # 0
          BY <1>1, <2>1, <4>1, StateShape DEF Allowed
        <5> QED
          BY <5>1 DEF NoCompactionToAbort, Bounds, Base, Control
      <4>2. CASE ~(state.kind = "compaction" /\ IsCancelled(state))
        BY <2>3, <3>1, <4>2 DEF LegalEnd
      <4> QED
        BY <3>1, <4>1, <4>2 DEF LegalEnd
    <3>4. Life!End(outcome)
      BY <2>1, <3>2, <3>3 DEF Life!End, Busy, NoId
    <3> QED
      BY <3>3, <3>4 DEF Life!LifeNext, Outcomes
  <2> QED
    BY <1>4, <2>2, <2>3, EndFacts
<1>5. ASSUME NEW q \in QueueKinds, NEW kind \in KindsOf(q), Enqueue(q, kind)
      PROVE  UNCHANGED Life!life
  <2>1. state \in Run /\ fresh \in Id /\ q \in QueueNames
    BY <1>1, <1>5, StateShape, CallersAssumption DEF Enqueue, Id, QueueNames, NoOperation
  <2>2. state'.control = state.control
    BY <1>5, <2>1, EnqueueUpdate DEF Enqueue
  <2>3. lane' = lane /\ lastResult' = lastResult
    BY <1>5 DEF Enqueue
  <2> QED
    BY <1>2, <2>2, <2>3 DEF Busy, IsCancelled
<1>6. CASE NextRun \/ Observes
  <2>1. state' = state /\ lane'.op = lane.op /\ lastResult' = lastResult
    BY <1>6, AmendFacts DEF NextRun, Observes, durable
  <2> QED
    BY <1>2, <2>1 DEF Busy
<1>7. CASE Abort
  <2>1. Busy /\ lane' = lane /\ lastResult' = lastResult /\ state \in OperationState
    BY <1>1, <1>7 DEF Abort
  <2>2. CASE IsCancelled(state)
    <3>1. state' = state
      BY <1>7, <2>2 DEF Abort
    <3> QED
      BY <1>2, <2>1, <3>1 DEF Busy
  <2>3. CASE ~IsCancelled(state)
    <3>1. IsCancelled(state')
      BY <1>7, <2>1, <2>3, CancelUpdate DEF Abort
    <3>2. Life!Stop
      BY <2>1, <2>3, <3>1 DEF Life!Stop, Busy
    <3> QED
      BY <3>2 DEF Life!LifeNext
  <2> QED
    BY <2>2, <2>3
<1>8. CASE Claims
  <2>1. ~Busy /\ lane'.op = fresh /\ ~IsCancelled(state') /\ lastResult' = lastResult
    BY <1>8, ClaimsOpen DEF Opens
  <2>2. Life!Open
    BY <1>1, <2>1 DEF Life!Open, Busy, NoId
  <2> QED
    BY <2>2 DEF Life!LifeNext
<1> QED
  BY <1>3, <1>4, <1>5, <1>6, <1>7, <1>8, NextCases

\* A lane implements LaneLife: one operation at a time, each under a new id,
\* each ends once, and one that was cancelled ends aborted.
THEOREM LaneKeepsItsPromise == NoCompactionToAbort => (Spec => LaneImplementsLife)
<1> SUFFICES ASSUME NoCompactionToAbort
             PROVE  Spec => LaneImplementsLife
  OBVIOUS
<1>1. Init => Life!LifeInit /\ Allowed
  <2>1. Init => Life!LifeInit
    BY DEF Init, StoreInit, Busy, NoId, NoResult, Life!LifeInit
  <2>2. Init => Allowed
    BY DEF Init, StoreInit, DriverInit, Allowed, NoOperation, NoId
  <2> QED
    BY <2>1, <2>2
<1>2. Driven /\ Allowed /\ [Next]_<<vars, scenario>> => Allowed' /\ [Life!LifeNext]_(Life!life)
  BY AllowedNext, LivesNext
<1> QED
  BY <1>1, <1>2, Steering, PTL DEF Spec, LaneImplementsLife, Life!LifeSpec

(***************************************************************************)
(* Where the ids of a lane are: an input has one home, an entry is written *)
(* once, and what is minted is neither until it is committed.              *)
(***************************************************************************)

Lines == {"nextRun", "steer", "followUp", "writes", "drained"}

\* The queues of a lane by name.
Waits(s, nextRun) ==
  [q \in Lines |-> IF q = "nextRun" THEN nextRun ELSE IF s.kind = "run" THEN s[q] ELSE <<>>]

\* Every id has one seat in the queues, and every seat an id.
Seats(w, ids) ==
  /\ \A id \in ids : \E q \in Lines : \E i \in DOMAIN w[q] : w[q][i] = id
  /\ \A q \in Lines : \A i \in DOMAIN w[q] : w[q][i] \in ids
  /\ \A q, p \in Lines : \A i \in DOMAIN w[q], j \in DOMAIN w[p] :
       w[q][i] = w[p][j] => q = p /\ i = j

\* An id is minted once: it waits, is promised, or names an entry.
Housed ==
  /\ \A id \in DOMAIN entries \cup DOMAIN pending \cup Reserved(state) : id \in Nat /\ 0 < id /\ id < fresh
  /\ DOMAIN pending \cap DOMAIN entries = {}
  /\ Reserved(state) \cap (DOMAIN entries \cup DOMAIN pending) = {}
  /\ Seats(Waits(state, lane.nextRun), DOMAIN pending)
  /\ state.kind = "run" /\ ~IsCancelled(state) => state.drained = <<>>
  /\ ~Busy => meta = NoMeta /\ toolArgs = {} /\ prep = <<>>

(***************************************************************************)
(* Seats in the queues.                                                    *)
(***************************************************************************)
\* A function from queues to sequences of ids.
Rows == [Lines -> Seq(Id)]

\* The queues of a lane are rows.
LEMMA WaitsShape ==
  ASSUME NEW s, s \in OperationState \/ s = NoOperation, NEW nextRun \in Seq(Id)
  PROVE  /\ Waits(s, nextRun) \in Rows /\ Waits(s, nextRun)["nextRun"] = nextRun
         /\ \A q \in Lines \ {"nextRun"} :
              Waits(s, nextRun)[q] = IF s.kind = "run" THEN s[q] ELSE <<>>
<1>1. s.kind = "run" => /\ s.steer \in Seq(Id) /\ s.followUp \in Seq(Id)
                        /\ s.writes \in Seq(Id) /\ s.drained \in Seq(Id)
  BY StateShape DEF Run, NoOperation
<1>2. <<>> \in Seq(Id)
  OBVIOUS
<1> QED
  BY <1>1, <1>2 DEF Waits, Rows, Lines

\* A queue loses its head, and its ids their seats.
LEMMA SeatsDrained ==
  ASSUME NEW w \in Rows, NEW v \in Rows, NEW ids, Seats(w, ids), NEW q \in Lines,
         NEW n \in 1 .. Len(w[q]), v[q] = SubSeq(w[q], n + 1, Len(w[q])),
         \A o \in Lines \ {q} : v[o] = w[o]
  PROVE  Seats(v, ids \ {w[q][j] : j \in 1 .. n})
<1> DEFINE gone == {w[q][j] : j \in 1 .. n}
<1>0. ASSUME NEW p \in Lines, NEW o \in Lines, NEW i \in DOMAIN w[p], NEW j \in DOMAIN w[o],
             w[p][i] = w[o][j]
      PROVE  p = o /\ i = j
  BY <1>0 DEF Seats
<1>1. w[q] \in Seq(Id) /\ v[q] \in Seq(Id) /\ Len(w[q]) \in Nat /\ n \in Nat
  BY DEF Rows
<1>2. /\ DOMAIN w[q] = 1 .. Len(w[q])
      /\ \A i \in DOMAIN v[q] : i + n \in DOMAIN w[q] /\ v[q][i] = w[q][i + n] /\ i \in Nat /\ i >= 1
      /\ \A i \in DOMAIN w[q] : i > n => i - n \in DOMAIN v[q] /\ v[q][i - n] = w[q][i] /\ i \in Nat
  BY <1>1
<1>3. ASSUME NEW id \in ids \ gone
      PROVE  \E p \in Lines : \E i \in DOMAIN v[p] : v[p][i] = id
  <2>0. PICK p \in Lines : \E i \in DOMAIN w[p] : w[p][i] = id
    BY DEF Seats
  <2>1. PICK i \in DOMAIN w[p] : w[p][i] = id
    BY <2>0
  <2>2. CASE p = q
    <3>1. i \in Nat /\ i >= 1 /\ ~(i \in 1 .. n)
      BY <1>1, <1>2, <1>3, <2>1, <2>2
    <3>2. i > n
      BY <1>1, <3>1
    <3>3. i - n \in DOMAIN v[q] /\ v[q][i - n] = w[q][i]
      BY <1>2, <2>1, <2>2, <3>2
    <3>4. v[q][i - n] = id
      BY <2>1, <2>2, <3>3
    <3> QED
      BY <3>3, <3>4
  <2> QED
    BY <2>1, <2>2
<1>4. ASSUME NEW p \in Lines, NEW i \in DOMAIN v[p]
      PROVE  /\ v[p][i] \in ids \ gone
             /\ p # q => i \in DOMAIN w[p] /\ v[p][i] = w[p][i]
  <2>1. CASE p = q
    <3>1. i + n \in DOMAIN w[q] /\ v[q][i] = w[q][i + n] /\ v[q][i] \in ids
      BY <1>2, <1>4, <2>1 DEF Seats
    <3>2. \A j \in 1 .. n : j \in DOMAIN w[q] /\ j # i + n
      BY <1>1, <1>2, <1>4, <2>1
    <3>3. ASSUME NEW j \in 1 .. n, w[q][j] = v[q][i]
          PROVE  FALSE
      <4>1. j \in DOMAIN w[q] /\ w[q][j] = w[q][i + n] /\ j # i + n
        BY <3>1, <3>2, <3>3
      <4> QED
        BY <1>0, <3>1, <4>1
    <3> QED
      BY <2>1, <3>1, <3>3
  <2>2. CASE p # q
    <3>1. v[p] = w[p] /\ w[p][i] \in ids
      BY <1>4, <2>2 DEF Seats
    <3>2. \A j \in 1 .. n : j \in DOMAIN w[q]
      BY <1>1
    <3> QED
      BY <1>0, <1>4, <2>2, <3>1, <3>2
  <2> QED
    BY <2>1, <2>2
<1>5. ASSUME NEW p \in Lines, NEW o \in Lines, NEW i \in DOMAIN v[p], NEW j \in DOMAIN v[o],
             v[p][i] = v[o][j]
      PROVE  p = o /\ i = j
  <2>1. CASE p = q /\ o = q
    <3>1. /\ i + n \in DOMAIN w[q] /\ j + n \in DOMAIN w[q] /\ i \in Nat /\ j \in Nat
          /\ w[q][i + n] = w[q][j + n]
      BY <1>2, <1>5, <2>1
    <3>2. i + n = j + n
      BY <1>0, <3>1
    <3> QED
      BY <1>1, <2>1, <3>1, <3>2
  <2>2. CASE p # q /\ o # q
    BY <1>0, <1>4, <1>5, <2>2
  <2>3. CASE p = q /\ o # q
    <3>1. /\ i + n \in DOMAIN w[q] /\ j \in DOMAIN w[o] /\ w[q][i + n] = w[o][j]
      BY <1>2, <1>4, <1>5, <2>3
    <3> QED
      BY <1>0, <2>3, <3>1
  <2>4. CASE p # q /\ o = q
    <3>1. /\ j + n \in DOMAIN w[q] /\ i \in DOMAIN w[p] /\ w[q][j + n] = w[p][i]
      BY <1>2, <1>4, <1>5, <2>4
    <3> QED
      BY <1>0, <2>4, <3>1
  <2> QED
    BY <2>1, <2>2, <2>3, <2>4
<1> HIDE DEF gone
<1>6. Seats(v, ids \ gone)
  BY <1>3, <1>4, <1>5 DEF Seats
<1> QED
  BY <1>6 DEF gone

\* A new id takes the last seat of a queue.
LEMMA SeatsAppended ==
  ASSUME NEW w \in Rows, NEW v \in Rows, NEW ids, Seats(w, ids), NEW q \in Lines,
         NEW id \in Id \ ids, v[q] = Append(w[q], id), \A o \in Lines \ {q} : v[o] = w[o]
  PROVE  Seats(v, ids \cup {id})
<1>1. w[q] \in Seq(Id) /\ Len(w[q]) \in Nat
  BY DEF Rows
<1> DEFINE last == Len(w[q]) + 1
<1>2. /\ DOMAIN v[q] = DOMAIN w[q] \cup {last} /\ v[q][last] = id /\ last \notin DOMAIN w[q]
      /\ \A i \in DOMAIN w[q] : v[q][i] = w[q][i]
  BY <1>1
<1> HIDE DEF last
<1>3. \A p \in Lines : \A i \in DOMAIN w[p] : i \in DOMAIN v[p] /\ v[p][i] = w[p][i]
  BY <1>2
<1>4. \A p \in Lines : \A i \in DOMAIN v[p] :
        \/ i \in DOMAIN w[p] /\ v[p][i] = w[p][i] /\ w[p][i] \in ids
        \/ p = q /\ i = last /\ v[p][i] = id
  BY <1>2 DEF Seats
<1>5. \A x \in ids \cup {id} : \E p \in Lines : \E i \in DOMAIN v[p] : v[p][i] = x
  BY <1>2, <1>3 DEF Seats
<1>6. ASSUME NEW p \in Lines, NEW o \in Lines, NEW i \in DOMAIN v[p], NEW j \in DOMAIN v[o],
             v[p][i] = v[o][j]
      PROVE  p = o /\ i = j
  <2>1. CASE i \in DOMAIN w[p] /\ v[p][i] = w[p][i] /\ j \in DOMAIN w[o] /\ v[o][j] = w[o][j]
    <3>1. w[p][i] = w[o][j]
      BY <1>6, <2>1
    <3> QED
      BY <2>1, <3>1 DEF Seats
  <2> QED
    BY <1>4, <1>6, <2>1
<1> QED
  BY <1>4, <1>5, <1>6 DEF Seats

\* m is s with t behind it, from n on.
Joined(m, s, t, n) ==
  /\ \A i \in DOMAIN s : i \in DOMAIN m /\ m[i] = s[i]
  /\ \A i \in DOMAIN t : n + i \in DOMAIN m /\ m[n + i] = t[i]
  /\ \A i \in DOMAIN m : i \in DOMAIN s \/ \E j \in DOMAIN t : i = n + j

\* The seats of a concatenation.
LEMMA ConcatSeats ==
  ASSUME NEW s \in Seq(Id), NEW t \in Seq(Id)
  PROVE  Joined(s \o t, s, t, Len(s))
<1>1. Len(s \o t) = Len(s) + Len(t) /\ Len(s) \in Nat /\ Len(t) \in Nat
  OBVIOUS
<1>2. DOMAIN (s \o t) = 1 .. Len(s) + Len(t) /\ DOMAIN s = 1 .. Len(s) /\ DOMAIN t = 1 .. Len(t)
  BY <1>1
<1>3. ASSUME NEW i \in DOMAIN (s \o t), i \notin DOMAIN s
      PROVE  \E j \in DOMAIN t : i = Len(s) + j
  <2>1. i - Len(s) \in DOMAIN t /\ i = Len(s) + (i - Len(s))
    BY <1>1, <1>2, <1>3
  <2> QED
    BY <2>1
<1>4. /\ \A i \in DOMAIN s : i \in DOMAIN (s \o t) /\ (s \o t)[i] = s[i]
      /\ \A i \in DOMAIN t : Len(s) + i \in DOMAIN (s \o t) /\ (s \o t)[Len(s) + i] = t[i]
  OBVIOUS
<1> QED
  BY <1>3, <1>4 DEF Joined

\* v has in c what w had in a and in b, from n on.
Merges(w, v, a, b, c, n) ==
  /\ a \in Lines /\ b \in Lines /\ c \in Lines /\ a # b
  /\ w[c] = <<>> \/ c \in {a, b}
  /\ Joined(v[c], w[a], w[b], n)
  /\ \A o \in {a, b} \ {c} : v[o] = <<>>
  /\ \A o \in Lines \ {a, b, c} : v[o] = w[o]

\* Two queues become one.
LEMMA SeatsJoined ==
  ASSUME NEW w \in Rows, NEW v \in Rows, NEW ids, Seats(w, ids),
         NEW a, NEW b, NEW c, NEW n, Merges(w, v, a, b, c, n)
  PROVE  Seats(v, ids)
<1> USE DEF Merges
<1> DEFINE m == v[c]
<1>0. ASSUME NEW p \in Lines, NEW o \in Lines, NEW i \in DOMAIN w[p], NEW j \in DOMAIN w[o],
             w[p][i] = w[o][j]
      PROVE  p = o /\ i = j
  BY <1>0 DEF Seats
<1>1. Joined(m, w[a], w[b], n)
  OBVIOUS
<1>2. DOMAIN <<>> = {}
  OBVIOUS
<1> HIDE DEF m
<1>3. ASSUME NEW id \in ids
      PROVE  \E p \in Lines : \E i \in DOMAIN v[p] : v[p][i] = id
  <2>1. PICK p \in Lines : \E i \in DOMAIN w[p] : w[p][i] = id
    BY DEF Seats
  <2>2. PICK i \in DOMAIN w[p] : w[p][i] = id
    BY <2>1
  <2>3. CASE p = a
    BY <1>1, <2>2, <2>3 DEF m, Joined
  <2>4. CASE p = b
    BY <1>1, <2>2, <2>4 DEF m, Joined
  <2>5. CASE p \notin {a, b}
    <3>1. p # c
      BY <1>2, <2>2, <2>5
    <3> QED
      BY <2>2, <2>5, <3>1
  <2> QED
    BY <2>3, <2>4, <2>5
\* Where a seat was before.
<1>4. ASSUME NEW p \in Lines, NEW i \in DOMAIN v[p]
      PROVE  \/ p = c /\ i \in DOMAIN w[a] /\ v[p][i] = w[a][i]
             \/ p = c /\ \E j \in DOMAIN w[b] : i = n + j /\ v[p][i] = w[b][j]
             \/ p \notin {a, b, c} /\ i \in DOMAIN w[p] /\ v[p][i] = w[p][i]
  <2>1. CASE p = c
    <3>1. i \in DOMAIN m /\ v[p][i] = m[i]
      BY <1>4, <2>1 DEF m
    <3>2. CASE i \in DOMAIN w[a]
      BY <1>1, <2>1, <3>1, <3>2 DEF Joined
    <3>3. ASSUME NEW j \in DOMAIN w[b], i = n + j
          PROVE  v[p][i] = w[b][j]
      BY <1>1, <3>1, <3>3 DEF Joined
    <3>4. i \in DOMAIN w[a] \/ \E j \in DOMAIN w[b] : i = n + j
      BY <1>1, <3>1 DEF Joined
    <3> QED
      BY <2>1, <3>2, <3>3, <3>4
  <2>2. CASE p # c
    BY <1>2, <1>4, <2>2
  <2> QED
    BY <2>1, <2>2
<1>5. \A p \in Lines : \A i \in DOMAIN v[p] : v[p][i] \in ids
  BY <1>4 DEF Seats
<1>6. ASSUME NEW p \in Lines, NEW o \in Lines, NEW i \in DOMAIN v[p], NEW j \in DOMAIN v[o],
             v[p][i] = v[o][j]
      PROVE  p = o /\ i = j
  <2>1. PICK q, k : /\ q \in Lines /\ k \in DOMAIN w[q] /\ v[p][i] = w[q][k]
                    /\ \/ q = a /\ p = c /\ i = k
                       \/ q = b /\ p = c /\ i = n + k
                       \/ q \notin {a, b, c} /\ p = q /\ i = k
    BY <1>4
  <2>2. PICK r, l : /\ r \in Lines /\ l \in DOMAIN w[r] /\ v[o][j] = w[r][l]
                    /\ \/ r = a /\ o = c /\ j = l
                       \/ r = b /\ o = c /\ j = n + l
                       \/ r \notin {a, b, c} /\ o = r /\ j = l
    BY <1>4
  <2>3. q = r /\ k = l
    <3>1. w[q][k] = w[r][l]
      BY <1>6, <2>1, <2>2
    <3> QED
      BY <1>0, <2>1, <2>2, <3>1
  <2> QED
    BY <2>1, <2>2, <2>3
<1> QED
  BY <1>3, <1>5, <1>6 DEF Seats

\* Queues that are appended merge.
LEMMA AppendMerges ==
  ASSUME NEW w \in Rows, NEW v, NEW a \in Lines, NEW b \in Lines, NEW c \in Lines, a # b,
         w[c] = <<>> \/ c \in {a, b}, v[c] = w[a] \o w[b],
         \A o \in {a, b} \ {c} : v[o] = <<>>, \A o \in Lines \ {a, b, c} : v[o] = w[o]
  PROVE  Merges(w, v, a, b, c, Len(w[a]))
<1>1. w[a] \in Seq(Id) /\ w[b] \in Seq(Id)
  BY DEF Rows
<1>2. Joined(w[a] \o w[b], w[a], w[b], Len(w[a]))
  BY <1>1, ConcatSeats
<1>3. Joined(v[c], w[a], w[b], Len(w[a]))
  BY <1>2
<1> QED
  BY <1>3 DEF Merges

\* Queues are emptied, and their ids lose their seats.
LEMMA SeatsReleased ==
  ASSUME NEW w \in Rows, NEW v \in Rows, NEW ids, Seats(w, ids), NEW out \in SUBSET Lines,
         \A o \in out : v[o] = <<>>, \A o \in Lines \ out : v[o] = w[o]
  PROVE  Seats(v, ids \ UNION {Range(w[o]) : o \in out})
<1> DEFINE gone == UNION {Range(w[o]) : o \in out}
<1>0. ASSUME NEW p \in Lines, NEW o \in Lines, NEW i \in DOMAIN w[p], NEW j \in DOMAIN w[o],
             w[p][i] = w[o][j]
      PROVE  p = o /\ i = j
  BY <1>0 DEF Seats
<1>1. \A x : x \in gone <=> \E o \in out : \E i \in DOMAIN w[o] : w[o][i] = x
  BY DEF Range
<1>2. \A o \in out : DOMAIN v[o] = {}
  OBVIOUS
<1> HIDE DEF gone
<1>3. ASSUME NEW id \in ids \ gone
      PROVE  \E p \in Lines : \E i \in DOMAIN v[p] : v[p][i] = id
  <2>1. PICK p \in Lines : \E i \in DOMAIN w[p] : w[p][i] = id
    BY DEF Seats
  <2>2. p \notin out
    BY <1>1, <1>3, <2>1
  <2> QED
    BY <2>1, <2>2
<1>4. ASSUME NEW p \in Lines, NEW i \in DOMAIN v[p]
      PROVE  p \notin out /\ v[p] = w[p] /\ v[p][i] \in ids \ gone
  <2>1. p \notin out /\ v[p] = w[p] /\ i \in DOMAIN w[p] /\ w[p][i] \in ids
    BY <1>2, <1>4 DEF Seats
  <2>2. ASSUME w[p][i] \in gone
        PROVE  FALSE
    <3>1. PICK o \in out : \E j \in DOMAIN w[o] : w[o][j] = w[p][i]
      BY <1>1, <2>2
    <3>2. PICK j \in DOMAIN w[o] : w[o][j] = w[p][i]
      BY <3>1
    <3> QED
      BY <1>0, <2>1, <3>2
  <2> QED
    BY <2>1, <2>2
<1>5. ASSUME NEW p \in Lines, NEW o \in Lines, NEW i \in DOMAIN v[p], NEW j \in DOMAIN v[o],
             v[p][i] = v[o][j]
      PROVE  p = o /\ i = j
  BY <1>0, <1>4, <1>5
<1>6. Seats(v, ids \ gone)
  BY <1>3, <1>4, <1>5 DEF Seats
<1> QED
  BY <1>6 DEF gone

\* New ids fill an empty queue.
LEMMA SeatsFilled ==
  ASSUME NEW w \in Rows, NEW v \in Rows, NEW ids, Seats(w, ids), NEW q \in Lines, w[q] = <<>>,
         \A i, j \in DOMAIN v[q] : v[q][i] = v[q][j] => i = j, Range(v[q]) \cap ids = {},
         \A o \in Lines \ {q} : v[o] = w[o]
  PROVE  Seats(v, ids \cup Range(v[q]))
<1>1. /\ \A x : x \in Range(v[q]) <=> \E i \in DOMAIN v[q] : v[q][i] = x
      /\ DOMAIN w[q] = {}
  BY DEF Range
<1>2. ASSUME NEW id \in ids
      PROVE  \E p \in Lines : \E i \in DOMAIN v[p] : v[p][i] = id
  <2>1. PICK p \in Lines : \E i \in DOMAIN w[p] : w[p][i] = id
    BY DEF Seats
  <2> QED
    BY <1>1, <2>1
<1>3. \A p \in Lines : \A i \in DOMAIN v[p] :
        \/ p = q /\ v[p][i] \in Range(v[q])
        \/ p # q /\ i \in DOMAIN w[p] /\ v[p][i] = w[p][i] /\ v[p][i] \in ids
  BY <1>1 DEF Seats
<1>4. ASSUME NEW p \in Lines, NEW o \in Lines, NEW i \in DOMAIN v[p], NEW j \in DOMAIN v[o],
             v[p][i] = v[o][j]
      PROVE  p = o /\ i = j
  <2>1. CASE p = q /\ o = q
    BY <1>4, <2>1
  <2>2. CASE p # q /\ o # q
    <3>1. i \in DOMAIN w[p] /\ j \in DOMAIN w[o] /\ w[p][i] = w[o][j]
      BY <1>3, <1>4, <2>2
    <3> QED
      BY <3>1 DEF Seats
  <2> QED
    BY <1>3, <1>4, <2>1, <2>2
<1> QED
  BY <1>1, <1>2, <1>3, <1>4 DEF Seats

(***************************************************************************)
(* Every id has its place.                                                 *)
(***************************************************************************)
\* A batch that goes on promises what it did before, but for what it placed.
LEMMA BatchesReserve ==
  ASSUME NEW r \in Run, NEW n \in Run, r.phase.p = "tools", n.phase.p = "tools", NEW tx, NEW effect,
         Batches(r.phase, n.phase, tx, effect),
         \A i, j \in DOMAIN r.phase.calls :
           r.phase.calls[i].result = r.phase.calls[j].result => i = j
  PROVE  Reserved(n) \subseteq Reserved(r) \ DOMAIN tx.entries
<1> DEFINE before == r.phase.calls
           calls == n.phase.calls
<1>1. before \in Seq(ToolCall) /\ r.kind = "run" /\ n.kind = "run"
  BY PhaseShape DEF Run, Tools
<1>2. PICK k \in DOMAIN before, c \in ToolCall :
        /\ calls = [before EXCEPT ![k] = c] /\ c.result = before[k].result
        /\ \/ before[k].status = "planned" /\ DOMAIN tx.entries = {}
           \/ /\ before[k].status # "completed" /\ c.status = "completed"
              /\ DOMAIN tx.entries = {c.result}
  BY DEF Batches
<1>3. /\ DOMAIN calls = DOMAIN before /\ calls[k] = c
      /\ \A j \in DOMAIN before : j # k => calls[j] = before[j]
  BY <1>1, <1>2
<1>4. /\ Reserved(r) = {before[i].result : i \in {j \in DOMAIN before : before[j].status # "completed"}}
      /\ Reserved(n) = {calls[i].result : i \in {j \in DOMAIN calls : calls[j].status # "completed"}}
  BY <1>1 DEF Reserved
<1>5. ASSUME NEW i \in DOMAIN calls, calls[i].status # "completed"
      PROVE  /\ calls[i].result = before[i].result /\ before[i].status # "completed"
             /\ calls[i].result \notin DOMAIN tx.entries
  <2>1. CASE i = k
    BY <1>2, <1>3, <1>5, <2>1
  <2>2. CASE i # k
    <3>1. calls[i] = before[i] /\ before[i].result # before[k].result
      BY <1>3, <1>5, <2>2
    <3> QED
      BY <1>2, <1>5, <3>1
  <2> QED
    BY <2>1, <2>2
<1> HIDE DEF calls, before
<1> QED
  BY <1>3, <1>4, <1>5

\* What the driver promises is new, or was promised before and not placed.
LEMMA LegalReserves ==
  ASSUME Base, Guarded, pc \in Settled, run = state, NEW next, NEW tx, NEW effect,
         Legal(next, tx, effect)
  PROVE  Reserved(next) \subseteq (Reserved(state) \ DOMAIN tx.entries) \cup Minted(tx)
<1>1. state \in OperationState /\ next \in OperationState /\ next.kind = state.kind
  BY WorkingIsBusy DEF Legal, Settled
<1>2. CASE state.kind = "run" /\ state.phase.p = "tools" /\ next.phase.p = "tools"
  <2>1. state \in Run /\ next \in Run /\ Batches(state.phase, next.phase, tx, effect)
    BY <1>1, <1>2, StateShape DEF Legal
  <2>2. \A i, j \in DOMAIN state.phase.calls :
          state.phase.calls[i].result = state.phase.calls[j].result => i = j
    BY <1>2 DEF Guarded, Ran
  <2> QED
    BY <1>2, <2>1, <2>2, BatchesReserve
<1>3. CASE state.kind = "run" /\ state.phase.p = "tools" /\ next.phase.p # "tools"
  <2>1. Reserves(next, tx)
    BY DEF Legal
  <2>2. CASE Reserved(next) = {}
    BY <2>2
  <2>3. CASE Reserved(next) # {}
    <3> QED
      BY <1>3, <2>1, <2>3 DEF Reserves
  <2> QED
    BY <2>2, <2>3
<1>4. CASE ~(state.kind = "run" /\ state.phase.p = "tools")
  BY <1>4 DEF Legal, Reserves
<1> QED
  BY <1>2, <1>3, <1>4

\* A commit of the driver.
LEMMA CommitHouses ==
  ASSUME Driven, Housed, Guarded, pc \in Settled, run = state, NEW tx,
         CommitTransition(state', tx), Legal(state', tx, then'), lane' = lane
  PROVE  Housed'
<1> USE DEF Driven
<1>1. /\ state \in OperationState /\ state' \in OperationState /\ state'.kind = state.kind /\ Busy /\ Busy'
      /\ lane.nextRun \in Seq(Id) /\ fresh \in Nat /\ fresh # 0 /\ tx.minted \in Nat /\ fresh' = fresh + tx.minted
  <2>1. state \in OperationState /\ Busy
    BY WorkingIsBusy DEF Settled
  <2> QED
    BY <2>1 DEF Base, Control, Legal, CommitTransition, Write, Sound, Busy
<1>2. /\ DOMAIN pending' = DOMAIN pending \ tx.consumed
      /\ DOMAIN entries' = DOMAIN entries \cup DOMAIN tx.entries
  BY DEF CommitTransition, Write, Without, Extend
<1>3. /\ Reserved(state') \subseteq (Reserved(state) \ DOMAIN tx.entries) \cup Minted(tx)
      /\ \A id \in DOMAIN tx.entries : id \in Reserved(state) \cup tx.consumed \cup Minted(tx)
      /\ tx.consumed \subseteq DOMAIN tx.entries
      /\ Reserved(state') = {} \/ DOMAIN tx.entries \subseteq Reserved(state)
  BY LegalReserves DEF Legal, Reserves
<1>4. \A id \in Minted(tx) : id \in Nat /\ fresh <= id /\ id < fresh'
  BY <1>1 DEF Minted
<1> DEFINE w == Waits(state, lane.nextRun)
           v == Waits(state', lane.nextRun)
<1>5. /\ w \in Rows /\ v \in Rows /\ w["nextRun"] = lane.nextRun /\ v["nextRun"] = lane.nextRun
      /\ \A q \in Lines \ {"nextRun"} : /\ w[q] = IF state.kind = "run" THEN state[q] ELSE <<>>
                                        /\ v[q] = IF state.kind = "run" THEN state'[q] ELSE <<>>
  BY <1>1, WaitsShape
<1> HIDE DEF w, v
<1>6. Seats(v, DOMAIN pending')
  <2>1. CASE tx.consumed = {} /\ (state.kind = "run" =>
               \A q \in QueueNames \cup {"drained"} : state'[q] = state[q])
    <3>1. \A q \in Lines : v[q] = w[q]
      BY <1>5, <2>1 DEF Lines, QueueNames
    <3>2. v = w
      BY <1>5, <3>1 DEF Rows
    <3> QED
      BY <1>2, <2>1, <3>2 DEF Housed, w
  <2>2. CASE /\ state.kind = "run" /\ state'.drained = state.drained
             /\ \E q \in QueueNames : \E n \in 1 .. Len(state[q]) :
                  /\ state'[q] = SubSeq(state[q], n + 1, Len(state[q]))
                  /\ tx.consumed = {state[q][j] : j \in 1 .. n}
                  /\ \A o \in QueueNames \ {q} : state'[o] = state[o]
    <3>1. PICK q \in QueueNames : \E n \in 1 .. Len(state[q]) :
                  /\ state'[q] = SubSeq(state[q], n + 1, Len(state[q]))
                  /\ tx.consumed = {state[q][j] : j \in 1 .. n}
                  /\ \A o \in QueueNames \ {q} : state'[o] = state[o]
      BY <2>2
    <3>2. PICK n \in 1 .. Len(state[q]) :
                  /\ state'[q] = SubSeq(state[q], n + 1, Len(state[q]))
                  /\ tx.consumed = {state[q][j] : j \in 1 .. n}
                  /\ \A o \in QueueNames \ {q} : state'[o] = state[o]
      BY <3>1
    <3>3. w[q] = state[q] /\ v[q] = state'[q] /\ q \in Lines /\ q # "nextRun"
      BY <1>5, <2>2 DEF Lines, QueueNames
    <3>4. \A o \in Lines \ {q} : v[o] = w[o]
      BY <1>5, <2>2, <3>2 DEF Lines, QueueNames
    <3>5. Seats(w, DOMAIN pending)
      BY DEF Housed, w
    <3>6. /\ n \in 1 .. Len(w[q]) /\ v[q] = SubSeq(w[q], n + 1, Len(w[q]))
          /\ tx.consumed = {w[q][j] : j \in 1 .. n}
      BY <3>2, <3>3
    <3>7. Seats(v, DOMAIN pending \ {w[q][j] : j \in 1 .. n})
      BY SMTT(60), <1>5, <3>3, <3>4, <3>5, <3>6, SeatsDrained
    <3> QED
      BY <1>2, <3>6, <3>7
  <2>3. IF state.kind = "run" THEN Drains(state', tx) ELSE tx.consumed = {}
    BY DEF Legal
  <2> QED
    BY <2>1, <2>2, <2>3 DEF Drains
<1>7. state'.kind = "run" /\ ~IsCancelled(state') => state'.drained = <<>>
  BY <1>1 DEF Housed, Legal, Drains, IsCancelled
<1>8. /\ \A id \in DOMAIN entries' \cup DOMAIN pending' \cup Reserved(state') : id \in Nat /\ 0 < id /\ id < fresh'
      /\ DOMAIN pending' \cap DOMAIN entries' = {}
      /\ Reserved(state') \cap (DOMAIN entries' \cup DOMAIN pending') = {}
  <2>1. /\ \A id \in DOMAIN entries \cup DOMAIN pending \cup Reserved(state) : id \in Nat /\ 0 < id /\ id < fresh
        /\ DOMAIN pending \cap DOMAIN entries = {}
        /\ Reserved(state) \cap (DOMAIN entries \cup DOMAIN pending) = {}
    BY DEF Housed
  <2>3. tx.consumed \subseteq DOMAIN pending
    <3>1. CASE tx.consumed = {}
      BY <3>1
    <3>2. CASE state.kind = "run" /\ Drains(state', tx) /\ tx.consumed # {}
      <4>1. PICK q \in QueueNames : \E n \in 1 .. Len(state[q]) : tx.consumed = {state[q][j] : j \in 1 .. n}
        BY <3>2 DEF Drains
      <4>2. PICK n \in 1 .. Len(state[q]) : tx.consumed = {state[q][j] : j \in 1 .. n}
        BY <4>1
      <4>3. w[q] = state[q] /\ q \in Lines /\ w[q] \in Seq(Id)
        BY <1>5, <3>2 DEF Lines, QueueNames, Rows
      <4>4. \A j \in 1 .. n : j \in DOMAIN w[q]
        BY <4>2, <4>3
      <4>5. \A j \in 1 .. n : w[q][j] \in DOMAIN pending
        BY <4>3, <4>4 DEF Housed, Seats, w
      <4> QED
        BY <4>2, <4>3, <4>5
    <3> QED
      BY <3>1, <3>2 DEF Legal
  <2>4. \A id \in Minted(tx) :
          /\ id \in Nat /\ 0 < id /\ id < fresh'
          /\ id \notin DOMAIN entries \cup DOMAIN pending \cup Reserved(state)
    BY <1>1, <1>4, <2>1
  <2>5. \A id \in DOMAIN entries \cup DOMAIN pending \cup Reserved(state) : id \in Nat /\ 0 < id /\ id < fresh'
    BY <1>1, <2>1
  <2>6. \A id \in DOMAIN entries' \cup DOMAIN pending' \cup Reserved(state') : id \in Nat /\ 0 < id /\ id < fresh'
    BY <1>2, <1>3, <2>3, <2>4, <2>5
  <2>7. DOMAIN pending' \cap DOMAIN entries' = {}
    BY <1>2, <1>3, <2>1, <2>3, <2>4
  <2>8. Reserved(state') \cap (DOMAIN entries' \cup DOMAIN pending') = {}
    <3>1. ASSUME NEW id \in Reserved(state'), id \in DOMAIN entries' \cup DOMAIN pending'
          PROVE  FALSE
      <4>1. CASE id \in Reserved(state) \ DOMAIN tx.entries
        BY <1>2, <2>1, <3>1, <4>1
      <4>2. CASE id \in Minted(tx)
        BY <1>2, <1>3, <2>4, <3>1, <4>2
      <4> QED
        BY <1>3, <3>1, <4>1, <4>2
    <3> QED
      BY <3>1
  <2> QED
    BY <2>6, <2>7, <2>8
<1> QED
  BY <1>1, <1>6, <1>7, <1>8 DEF Housed, v

\* The end of an operation.
LEMMA EndHouses ==
  ASSUME Driven, Housed, pc \in Settled, run = state, cur.nextRun = lane.nextRun,
         NEW outcome, NEW tx, NEW label,
         CommitTerminal(cur, outcome, tx, label), LegalEnd(outcome, tx)
  PROVE  Housed'
<1> USE DEF Driven
<1>1. /\ state \in OperationState /\ lane.nextRun \in Seq(Id) /\ fresh \in Nat /\ fresh # 0 /\ tx.minted \in Nat
      /\ fresh' = fresh + tx.minted /\ state' = NoOperation /\ lane'.nextRun = lane.nextRun
      /\ meta' = NoMeta /\ toolArgs' = {} /\ prep' = <<>>
  <2>1. state \in OperationState /\ Busy
    BY WorkingIsBusy DEF Settled
  <2> QED
    BY <2>1 DEF Base, Control, LegalEnd, CommitTerminal, Write, Sound
<1>2. /\ DOMAIN pending' = DOMAIN pending \ Owned(state)
      /\ DOMAIN entries' = DOMAIN entries \cup DOMAIN tx.entries
      /\ \A id \in DOMAIN tx.entries : id \in Reserved(state) \cup Minted(tx)
  BY DEF CommitTerminal, Write, Without, Extend, LegalEnd, run
<1>3. Reserved(state') = {}
  BY <1>1 DEF Reserved, NoOperation
<1>4. \A id \in Minted(tx) : id \in Nat /\ fresh <= id /\ id < fresh'
  BY <1>1 DEF Minted
<1>5. /\ \A id \in DOMAIN entries \cup DOMAIN pending \cup Reserved(state) : id \in Nat /\ 0 < id /\ id < fresh
      /\ DOMAIN pending \cap DOMAIN entries = {}
      /\ Reserved(state) \cap (DOMAIN entries \cup DOMAIN pending) = {}
  BY DEF Housed
<1>6. \A id \in Minted(tx) :
        /\ id \in Nat /\ 0 < id /\ id < fresh'
        /\ id \notin DOMAIN entries \cup DOMAIN pending \cup Reserved(state)
  BY <1>1, <1>4, <1>5
<1>7. \A id \in DOMAIN entries \cup DOMAIN pending \cup Reserved(state) : id \in Nat /\ 0 < id /\ id < fresh'
  BY <1>1, <1>5
<1>8. /\ \A id \in DOMAIN entries' \cup DOMAIN pending' \cup Reserved(state') : id \in Nat /\ 0 < id /\ id < fresh'
      /\ DOMAIN pending' \cap DOMAIN entries' = {}
  BY <1>2, <1>3, <1>5, <1>6, <1>7
<1> DEFINE w == Waits(state, lane.nextRun)
           v == Waits(NoOperation, lane.nextRun)
           out == Lines \ {"nextRun"}
<1>9. /\ w \in Rows /\ v \in Rows /\ w["nextRun"] = lane.nextRun /\ v["nextRun"] = lane.nextRun
      /\ \A q \in Lines \ {"nextRun"} : /\ w[q] = IF state.kind = "run" THEN state[q] ELSE <<>>
                                        /\ v[q] = <<>>
  <2>1. NoOperation.kind # "run"
    BY DEF NoOperation
  <2> QED
    BY <1>1, <2>1, WaitsShape
<1> HIDE DEF w, v
<1>10. Seats(w, DOMAIN pending)
  BY DEF Housed, w
<1>11. Owned(state) = UNION {Range(w[o]) : o \in out}
  <2>1. CASE state.kind = "run"
    <3>1. /\ w["steer"] = state.steer /\ w["followUp"] = state.followUp
          /\ w["writes"] = state.writes /\ w["drained"] = state.drained
      BY <1>9, <2>1 DEF Lines
    <3>2. UNION {Range(w[o]) : o \in out}
            = Range(w["steer"]) \cup Range(w["followUp"]) \cup Range(w["writes"]) \cup Range(w["drained"])
      BY DEF Lines
    <3> QED
      BY <2>1, <3>1, <3>2 DEF Owned
  <2>2. CASE state.kind # "run"
    <3>1. \A o \in out : Range(w[o]) = {}
      BY <1>9, <2>2 DEF Range
    <3> QED
      BY <2>2, <3>1 DEF Owned
  <2> QED
    BY <2>1, <2>2
<1>12. Seats(v, DOMAIN pending')
  <2>1. Seats(v, DOMAIN pending \ UNION {Range(w[o]) : o \in out})
    <3>1. out \in SUBSET Lines /\ (\A o \in out : v[o] = <<>>) /\ \A o \in Lines \ out : v[o] = w[o]
      BY <1>9
    <3> HIDE DEF out
    <3> QED
      BY <1>9, <1>10, <3>1, SeatsReleased
  <2> QED
    BY <1>2, <1>11, <2>1
<1>13. Waits(state', lane'.nextRun) = v
  BY <1>1 DEF v
<1> QED
  BY <1>1, <1>3, <1>8, <1>12, <1>13 DEF Housed, NoOperation

\* The same work promises the same ids.
LEMMA SameReserves ==
  ASSUME NEW s, NEW t, SameWork(s, t)
  PROVE  Reserved(s) = Reserved(t)
BY DEF SameWork, Reserved

\* Callers amend an operation: new ids, and a queue one longer, or none.
LEMMA AmendHouses ==
  ASSUME Driven, Housed,
         \/ \E q \in QueueKinds : \E kind \in KindsOf(q) : Enqueue(q, kind)
         \/ NextRun \/ Abort
  PROVE  Housed'
<1> USE DEF Driven
<1>1. /\ lane.nextRun \in Seq(Id) /\ fresh \in Nat /\ fresh # 0 /\ fresh \in Id
      /\ (state \in OperationState \/ state = NoOperation)
      /\ (Busy <=> state # NoOperation)
  BY DEF Base, Control, OneOperation, Id
<1> DEFINE w == Waits(state, lane.nextRun)
<1>2. /\ \A id \in DOMAIN entries \cup DOMAIN pending \cup Reserved(state) : id \in Nat /\ 0 < id /\ id < fresh
      /\ DOMAIN pending \cap DOMAIN entries = {}
      /\ Reserved(state) \cap (DOMAIN entries \cup DOMAIN pending) = {}
      /\ fresh \notin DOMAIN entries \cup DOMAIN pending \cup Reserved(state)
      /\ Seats(w, DOMAIN pending)
      /\ state.kind = "run" /\ ~IsCancelled(state) => state.drained = <<>>
      /\ ~Busy => meta = NoMeta /\ toolArgs = {} /\ prep = <<>>
  BY <1>1 DEF Housed
<1>3. /\ w \in Rows /\ w["nextRun"] = lane.nextRun
      /\ \A q \in Lines \ {"nextRun"} : w[q] = IF state.kind = "run" THEN state[q] ELSE <<>>
  BY <1>1, WaitsShape
<1> HIDE DEF w
<1>4. ASSUME NEW q \in QueueKinds, NEW kind, Enqueue(q, kind)
      PROVE  Housed'
  <2>1. state \in Run /\ q \in QueueNames /\ state.kind = "run" /\ state \in OperationState
    BY <1>1, <1>4, StateShape, CallersAssumption DEF Enqueue, QueueNames, NoOperation
  <2>2. /\ state' \in OperationState /\ SameWork(state, state') /\ state'.kind = "run"
        /\ state'.control = state.control /\ state'.drained = state.drained
        /\ state'[q] = Append(state[q], fresh) /\ \A o \in QueueNames : o # q => state'[o] = state[o]
    BY <1>1, <1>4, <2>1, EnqueueUpdate DEF Enqueue
  <2>3. /\ fresh' = fresh + 1 /\ DOMAIN pending' = DOMAIN pending \cup {fresh}
        /\ UNCHANGED <<entries, lane, meta, toolArgs, prep>>
    BY <1>4 DEF Enqueue, Extend
  <2> DEFINE v == Waits(state', lane.nextRun)
  <2>4. /\ v \in Rows /\ v["nextRun"] = lane.nextRun
        /\ \A o \in Lines \ {"nextRun"} : v[o] = state'[o]
    BY <1>1, <2>2, WaitsShape
  <2> HIDE DEF v
  <2>5. q \in Lines /\ v[q] = Append(w[q], fresh) /\ \A o \in Lines \ {q} : v[o] = w[o]
    BY SMTT(60), <1>3, <2>1, <2>2, <2>4 DEF Lines, QueueNames
  <2>6. Seats(v, DOMAIN pending')
    BY <1>1, <1>2, <1>3, <2>3, <2>4, <2>5, SeatsAppended
  <2>7. Reserved(state') = Reserved(state)
    BY <2>2, SameReserves
  <2>8. \A id \in DOMAIN entries' \cup DOMAIN pending' \cup Reserved(state') : id \in Nat /\ 0 < id /\ id < fresh'
    BY <1>1, <1>2, <2>3, <2>7
  <2> QED
    BY <1>2, <2>1, <2>2, <2>3, <2>6, <2>7, <2>8 DEF Housed, v, IsCancelled, Busy
<1>5. CASE NextRun
  <2>1. /\ fresh' = fresh + 1 /\ DOMAIN pending' = DOMAIN pending \cup {fresh}
        /\ UNCHANGED <<entries, state, meta, toolArgs, prep>>
        /\ lane'.nextRun = Append(lane.nextRun, fresh) /\ lane'.op = lane.op
    BY <1>5 DEF NextRun, Extend, Base, Control
  <2> DEFINE v == Waits(state', lane'.nextRun)
  <2>2. Append(lane.nextRun, fresh) \in Seq(Id)
    BY <1>1
  <2>3. /\ v \in Rows /\ v["nextRun"] = Append(lane.nextRun, fresh)
        /\ \A o \in Lines \ {"nextRun"} : v[o] = IF state.kind = "run" THEN state[o] ELSE <<>>
    <3> DEFINE queue == Append(lane.nextRun, fresh)
    <3>1. queue \in Seq(Id) /\ v = Waits(state, queue)
      BY <2>1, <2>2
    <3> HIDE DEF queue, v
    <3>2. /\ v \in Rows /\ v["nextRun"] = queue
          /\ \A o \in Lines \ {"nextRun"} : v[o] = IF state.kind = "run" THEN state[o] ELSE <<>>
      BY <1>1, <3>1, WaitsShape
    <3> QED
      BY <3>2 DEF queue
  <2> HIDE DEF v
  <2>4. "nextRun" \in Lines /\ v["nextRun"] = Append(w["nextRun"], fresh)
        /\ \A o \in Lines \ {"nextRun"} : v[o] = w[o]
    BY <1>3, <2>3 DEF Lines
  <2>5. Seats(v, DOMAIN pending')
    BY <1>1, <1>2, <1>3, <2>1, <2>3, <2>4, SeatsAppended
  <2>6. \A id \in DOMAIN entries' \cup DOMAIN pending' \cup Reserved(state') : id \in Nat /\ 0 < id /\ id < fresh'
    BY <1>1, <1>2, <2>1
  <2> QED
    BY <1>2, <2>1, <2>5, <2>6 DEF Housed, v, Busy
<1>6. CASE Abort
  <2>1. /\ Busy /\ state \in OperationState
        /\ UNCHANGED <<fresh, entries, lane, meta, pending, toolArgs, prep>>
        /\ state' = state \/ (~IsCancelled(state) /\ state' = Cancel(state))
    BY <1>1, <1>6 DEF Abort
  <2>2. CASE state' = state
    BY <2>1, <2>2 DEF Housed, Busy
  <2>3. CASE ~IsCancelled(state) /\ state' = Cancel(state)
    <3>1. /\ state' \in OperationState /\ SameWork(state, state') /\ IsCancelled(state')
          /\ state.kind = "run" => /\ state'.steer = <<>> /\ state'.followUp = <<>>
                                   /\ state'.writes = state.writes
                                   /\ state'.drained = state.steer \o state.followUp
      BY <2>1, <2>3, CancelUpdate
    <3>2. state'.kind = state.kind
      BY <3>1 DEF SameWork
    <3> DEFINE v == Waits(state', lane.nextRun)
    <3>3. /\ v \in Rows /\ v["nextRun"] = lane.nextRun
          /\ \A o \in Lines \ {"nextRun"} : v[o] = IF state.kind = "run" THEN state'[o] ELSE <<>>
      BY <1>1, <3>1, <3>2, WaitsShape
    <3> HIDE DEF v
    <3>4. Seats(v, DOMAIN pending)
      <4>1. CASE state.kind = "run"
        <5>1. /\ v["drained"] = w["steer"] \o w["followUp"] /\ w["drained"] = <<>>
              /\ v["steer"] = <<>> /\ v["followUp"] = <<>> /\ v["writes"] = w["writes"]
              /\ v["nextRun"] = w["nextRun"]
          BY <1>2, <1>3, <2>3, <3>1, <3>3, <4>1 DEF Lines
        <5> DEFINE a == "steer" b == "followUp" c == "drained"
        <5>2. /\ a \in Lines /\ b \in Lines /\ c \in Lines /\ a # b /\ w[c] = <<>>
              /\ v[c] = w[a] \o w[b] /\ (\A o \in {a, b} \ {c} : v[o] = <<>>)
              /\ \A o \in Lines \ {a, b, c} : v[o] = w[o]
          BY <5>1 DEF Lines
        <5>3. Merges(w, v, a, b, c, Len(w[a]))
          <6> HIDE DEF a, b, c
          <6> QED
            BY <1>3, <5>2, AppendMerges
        <5> QED
          BY <1>2, <1>3, <3>3, <5>3, SeatsJoined
      <4>2. CASE state.kind # "run"
        <5>1. \A q \in Lines : v[q] = w[q]
          BY <1>3, <3>3, <4>2
        <5>2. v = w
          BY <1>3, <3>3, <5>1 DEF Rows
        <5> QED
          BY <1>2, <5>2
      <4> QED
        BY <4>1, <4>2
    <3>5. Reserved(state') = Reserved(state)
      BY <3>1, SameReserves
    <3> QED
      BY <1>2, <2>1, <3>1, <3>4, <3>5 DEF Housed, v, Busy
  <2> QED
    BY <2>1, <2>2, <2>3
<1> QED
  BY <1>4, <1>5, <1>6

\* A claim opens an operation; its prompts are new and wait with what it adopts.
LEMMA ClaimHouses ==
  ASSUME Driven, Housed, NEW next \in OperationState,
         next.kind = "run" => /\ next.phase.p = "checkpoint" /\ next.steer = <<>>
                              /\ next.followUp = <<>> /\ next.drained = <<>>,
         next.kind = "compaction" => next.structural.status = "deciding",
         NEW source, NEW target, NEW minted \in Nat, minted # 0, NEW preparation,
         NEW prompts, NEW payloads,
         Claim(fresh, next, source, target, prompts, minted, payloads, preparation),
         next.kind # "run" => DOMAIN payloads = {},
         next.kind = "run" =>
           /\ DOMAIN payloads = Range(next.writes)
           /\ \A i, j \in DOMAIN next.writes : next.writes[i] = next.writes[j] => i = j,
         \A id \in DOMAIN payloads : id \in Nat /\ fresh <= id /\ id < fresh + minted
  PROVE  Housed'
<1> USE DEF Driven
<1>1. /\ lane.nextRun \in Seq(Id) /\ fresh \in Nat /\ fresh # 0 /\ ~Busy /\ state = NoOperation
      /\ fresh' = fresh + minted /\ entries' = entries /\ lane'.op = fresh
      /\ DOMAIN pending' = DOMAIN pending \cup DOMAIN payloads
  BY DEF Base, Control, OneOperation, Claim, Extend
<1> DEFINE w == Waits(NoOperation, lane.nextRun)
<1>2. /\ \A id \in DOMAIN entries \cup DOMAIN pending : id \in Nat /\ 0 < id /\ id < fresh
      /\ DOMAIN pending \cap DOMAIN entries = {}
      /\ Seats(w, DOMAIN pending)
  BY <1>1 DEF Housed
<1>3. /\ w \in Rows /\ w["nextRun"] = lane.nextRun /\ \A q \in Lines \ {"nextRun"} : w[q] = <<>>
  <2>1. NoOperation.kind # "run"
    BY DEF NoOperation
  <2> QED
    BY <1>1, <2>1, WaitsShape
<1> HIDE DEF w
<1>4. Busy'
  BY <1>1 DEF Busy, NoId
<1>5. /\ DOMAIN pending' \cap DOMAIN entries' = {}
      /\ \A id \in DOMAIN entries' \cup DOMAIN pending' : id \in Nat /\ 0 < id /\ id < fresh'
      /\ DOMAIN payloads \cap DOMAIN pending = {}
  BY <1>1, <1>2
<1>6. CASE next.kind = "run"
  <2> DEFINE ids == next.writes
             writes == lane.nextRun \o ids
  <2>1. next \in Run /\ state' = [next EXCEPT !.writes = writes] /\ lane'.nextRun = <<>>
    BY <1>6, StateShape DEF Claim
  <2>2. ids \in Seq(Id) /\ <<>> \in Seq(Id)
    BY <2>1 DEF Run
  <2>3. writes \in Seq(Id)
    BY <1>1, <2>2
  <2>4. /\ state' \in Run /\ state'.kind = "run" /\ state'.phase = next.phase
        /\ state'.writes = writes /\ state'.steer = <<>> /\ state'.followUp = <<>>
        /\ state'.drained = <<>>
    <3> HIDE DEF writes
    <3> QED
      BY <1>6, <2>1, <2>3 DEF Run
  <2> DEFINE u == [w EXCEPT !["writes"] = ids]
             v == Waits(state', <<>>)
  <2>5. /\ v \in Rows /\ v["nextRun"] = <<>> /\ \A q \in Lines \ {"nextRun"} : v[q] = state'[q]
    <3>1. state' \in OperationState
      BY <2>4 DEF OperationState
    <3> QED
      BY ZenonT(60), <2>2, <2>4, <3>1, WaitsShape
  <2>6. /\ u \in Rows /\ u["writes"] = ids /\ \A q \in Lines \ {"writes"} : u[q] = w[q]
    BY <1>3, <2>2 DEF Rows, Lines
  <2> HIDE DEF u, v
  <2>7. Seats(u, DOMAIN pending \cup Range(u["writes"]))
    <3> DEFINE q == "writes"
    <3>1. /\ q \in Lines /\ w[q] = <<>> /\ (\A o \in Lines \ {q} : u[o] = w[o])
          /\ (\A i, j \in DOMAIN u[q] : u[q][i] = u[q][j] => i = j)
          /\ Range(u[q]) \cap DOMAIN pending = {}
      BY <1>3, <1>5, <1>6, <2>6 DEF Lines
    <3>2. Seats(u, DOMAIN pending \cup Range(u[q]))
      <4> HIDE DEF q
      <4> QED
        BY <1>2, <1>3, <2>6, <3>1, SeatsFilled
    <3> QED
      BY <3>2
  <2>8. Seats(u, DOMAIN pending')
    BY <1>1, <1>6, <2>6, <2>7
  <2>9. Seats(v, DOMAIN pending')
    <3> DEFINE a == "nextRun" b == "writes"
    <3>1. /\ a \in Lines /\ b \in Lines /\ a # b /\ b \in {a, b}
          /\ v[b] = u[a] \o u[b] /\ (\A o \in {a, b} \ {b} : v[o] = <<>>)
          /\ \A o \in Lines \ {a, b, b} : v[o] = u[o]
      BY <1>3, <2>4, <2>5, <2>6 DEF Lines
    <3>2. Merges(u, v, a, b, b, Len(u[a]))
      <4> HIDE DEF a, b, ids
      <4> QED
        BY <2>6, <3>1, AppendMerges
    <3> QED
      BY <2>5, <2>6, <2>8, <3>2, SeatsJoined
  <2>10. Reserved(state') = {}
    BY <1>6, <2>4 DEF Reserved
  <2> QED
    BY <1>4, <1>5, <2>1, <2>4, <2>9, <2>10 DEF Housed, v
<1>7. CASE next.kind # "run"
  <2>1. state' = next /\ lane'.nextRun = lane.nextRun
    BY <1>7 DEF Claim
  <2> DEFINE v == Waits(state', lane.nextRun)
  <2>2. /\ v \in Rows /\ v["nextRun"] = lane.nextRun /\ \A q \in Lines \ {"nextRun"} : v[q] = <<>>
    BY <1>1, <1>7, <2>1, WaitsShape
  <2> HIDE DEF v
  <2>3. v = w
    BY <1>3, <2>2 DEF Rows
  <2>4. Reserved(state') = {}
    BY <1>7, <2>1 DEF Reserved, StructuralIds
  <2> QED
    BY <1>1, <1>2, <1>4, <1>5, <1>7, <2>1, <2>3, <2>4 DEF Housed, v
<1> QED
  BY <1>6, <1>7

\* Opening an operation.
LEMMA StartHouses ==
  ASSUME Driven, Housed, Claims
  PROVE  Housed'
<1>1. fresh \in Id /\ fresh \in Nat
  BY DEF Driven, Base, Control, Id
<1>2. ASSUME NEW n \in PromptCounts, StartRun(n)
      PROVE  Housed'
  <2> DEFINE ids == [i \in 1 .. n |-> fresh + i]
             next == [kind |-> "run", control |-> "running", phase |-> NeedAssistant(fresh + n),
                      latest |-> NoId, steer |-> <<>>, followUp |-> <<>>, writes |-> ids,
                      drained |-> <<>>]
             payloads == [id \in Range(ids) |-> "message"]
  <2>1. n \in Nat \ {0} /\ fresh + n \in Id /\ n + 1 \in Nat /\ n + 1 # 0
    BY <1>1, CallersAssumption DEF Id
  <2>2. ids \in Seq(Id) /\ DOMAIN ids = 1 .. n /\ \A i \in 1 .. n : ids[i] = fresh + i /\ i \in Nat
    BY <1>1, <2>1 DEF Id
  <2>3. Claim(fresh, next, leaf, NoId, ids, n + 1, payloads, <<>>)
    BY <1>2 DEF StartRun
  <2>4. NeedAssistant(fresh + n) \in Phase /\ NeedAssistant(fresh + n).p = "checkpoint"
    BY <2>1 DEF NeedAssistant, Phase, Checkpoint, Continuations, Id, NoId
  <2>5. DOMAIN payloads = Range(ids)
    OBVIOUS
  <2>6. \A i, j \in DOMAIN ids : ids[i] = ids[j] => i = j
    BY <1>1, <2>2
  <2>7. \A id \in Range(ids) : id \in Nat /\ fresh <= id /\ id < fresh + (n + 1)
    <3>1. ASSUME NEW i \in 1 .. n
          PROVE  ids[i] \in Nat /\ fresh <= ids[i] /\ ids[i] < fresh + (n + 1)
      BY <1>1, <2>1, <2>2
    <3> QED
      BY <2>2, <3>1 DEF Range
  <2> HIDE DEF ids, payloads
  <2>8. next \in OperationState
    BY <2>2, <2>4 DEF OperationState, Run, Controls, Id, NoId
  <2>9. /\ next.kind = "run" /\ next.phase.p = "checkpoint" /\ next.steer = <<>>
        /\ next.followUp = <<>> /\ next.drained = <<>> /\ next.writes = ids
    BY <2>4
  <2> HIDE DEF next
  <2> QED
    BY <2>1, <2>3, <2>5, <2>6, <2>7, <2>8, <2>9, ClaimHouses
<1>3. CASE CompactClaim
  <2> DEFINE next == [kind |-> "compaction", control |-> "running", structural |-> Deciding(fresh + 1)]
             none == <<>>
  <2>1. Claim(fresh, next, leaf, NoId, <<>>, 2, none, [t \in {fresh + 1} |-> compacting])
    BY <1>3 DEF CompactClaim
  <2>2. Deciding(fresh + 1) \in Structural
    BY <1>1 DEF Deciding, Structural, Id, NoId
  <2>3. /\ next \in OperationState /\ next.kind = "compaction"
        /\ next.structural.status = "deciding"
    BY <2>2 DEF OperationState, Compaction, Controls, Deciding
  <2>4. DOMAIN none = {}
    OBVIOUS
  <2> HIDE DEF next, none
  <2> QED
    BY <2>1, <2>3, <2>4, ClaimHouses
<1>4. CASE NavigateSomewhere
  <2>1. PICK target \in DOMAIN entries \cup {NoId}, label \in BOOLEAN : Navigate(target, label)
    BY <1>4 DEF NavigateSomewhere
  <2> DEFINE next == [kind |-> "navigation", control |-> "running",
                      target |-> target, label |-> label]
             none == <<>>
  <2>2. Claim(fresh, next, leaf, target, <<>>, 1, none, <<>>)
    BY <2>1 DEF Navigate
  <2>3. target \in Id
    BY DEF Driven, Base, Control, Id, NoId
  <2>4. next \in OperationState /\ next.kind = "navigation"
    BY <2>3 DEF OperationState, Navigation, Controls
  <2>5. DOMAIN none = {}
    OBVIOUS
  <2> HIDE DEF next, none
  <2> QED
    BY <2>2, <2>4, <2>5, ClaimHouses
<1> QED
  BY <1>2, <1>3, <1>4 DEF Claims

\* Every id stays where it is, moves on, or becomes an entry.
LEMMA HousedNext ==
  ASSUME Driven, Guarded, Housed, [Next]_<<vars, scenario>>
  PROVE  Housed'
<1>1. CASE pc \in Settled /\ Commits
  <2>1. CASE UNCHANGED durable
    BY <2>1 DEF Housed, durable, Busy
  <2>2. ASSUME run = state, UNCHANGED lane,
               NEW tx, CommitTransition(state', tx), Legal(state', tx, then')
        PROVE  Housed'
    BY <1>1, <2>2, CommitHouses
  <2> QED
    BY <1>1, <2>1, <2>2, CommitFacts
<1>2. CASE pc \in Settled /\ Ends
  <2>1. CASE UNCHANGED durable
    BY <2>1 DEF Housed, durable, Busy
  <2>2. ASSUME run = state, cur.nextRun = lane.nextRun, NEW outcome, NEW tx, NEW label,
               CommitTerminal(cur, outcome, tx, label), LegalEnd(outcome, tx)
        PROVE  Housed'
    BY <1>2, <2>2, EndHouses
  <2> QED
    BY <1>2, <2>1, <2>2, EndFacts
<1>3. CASE Observes
  BY <1>3 DEF Observes, Housed, durable, Busy
<1> QED
  BY <1>1, <1>2, <1>3, AmendHouses, StartHouses, NextCases

\* Where an id waits.
LEMMA HomesOfSeats ==
  ASSUME NEW id \in DOMAIN pending, Seats(Waits(state, lane.nextRun), DOMAIN pending)
  PROVE  \E home \in Homes(id) : Homes(id) = {home}
<1> DEFINE w == Waits(state, lane.nextRun)
           name == [q \in 1 .. 5 |-> IF q = 1 THEN "nextRun" ELSE IF q = 2 THEN "steer"
                                     ELSE IF q = 3 THEN "followUp" ELSE IF q = 4 THEN "writes"
                                     ELSE "drained"]
<1>1. /\ DOMAIN Queues \subseteq 1 .. 5
      /\ \A q \in DOMAIN Queues : name[q] \in Lines /\ Queues[q] = w[name[q]]
      /\ \A l \in Lines : w[l] = <<>> \/ \E q \in DOMAIN Queues : name[q] = l
      /\ \A q, p \in DOMAIN Queues : name[q] = name[p] => q = p
  <2>1. CASE state.kind = "run"
    <3>1. /\ DOMAIN Queues = 1 .. 5 /\ Queues[1] = lane.nextRun /\ Queues[2] = state.steer
          /\ Queues[3] = state.followUp /\ Queues[4] = state.writes /\ Queues[5] = state.drained
      BY <2>1 DEF Queues
    <3>2. /\ w["nextRun"] = lane.nextRun /\ w["steer"] = state.steer /\ w["followUp"] = state.followUp
          /\ w["writes"] = state.writes /\ w["drained"] = state.drained
      BY <2>1 DEF Waits, Lines
    <3>3. /\ name[1] = "nextRun" /\ name[2] = "steer" /\ name[3] = "followUp"
          /\ name[4] = "writes" /\ name[5] = "drained"
      OBVIOUS
    <3> HIDE DEF w, name
    <3>4. ASSUME NEW q \in 1 .. 5
          PROVE  name[q] \in Lines /\ Queues[q] = w[name[q]]
      BY <3>1, <3>2, <3>3 DEF Lines
    <3>5. \A l \in Lines : \E q \in 1 .. 5 : name[q] = l
      BY <3>3 DEF Lines
    <3>6. ASSUME NEW q \in 1 .. 5, NEW p \in 1 .. 5, name[q] = name[p]
          PROVE  q = p
      BY <3>3, <3>6
    <3> QED
      BY <3>1, <3>4, <3>5, <3>6
  <2>2. CASE state.kind # "run"
    <3>1. Queues = <<lane.nextRun>>
      BY <2>2 DEF Queues
    <3> QED
      BY <2>2, <3>1 DEF Waits, Lines
  <2> QED
    BY <2>1, <2>2
<1> HIDE DEF w, name
<1>2. PICK l \in Lines : \E i \in DOMAIN w[l] : w[l][i] = id
  BY DEF Seats, w
<1>3. PICK i \in DOMAIN w[l] : w[l][i] = id
  BY <1>2
<1>4. PICK q \in DOMAIN Queues : name[q] = l
  BY <1>1, <1>3
<1>5. <<q, i>> \in Homes(id)
  BY <1>1, <1>3, <1>4 DEF Homes
<1>6. ASSUME NEW home \in Homes(id)
      PROVE  home = <<q, i>>
  <2>1. PICK p \in DOMAIN Queues : home \in {<<p, k>> : k \in {j \in DOMAIN Queues[p] : Queues[p][j] = id}}
    BY <1>6 DEF Homes
  <2>2. PICK j \in DOMAIN Queues[p] : home = <<p, j>> /\ Queues[p][j] = id
    BY <2>1
  <2>3. name[p] = l /\ j = i
    BY <1>1, <1>3, <2>2 DEF Seats, w
  <2> QED
    BY <1>1, <1>4, <2>2, <2>3
<1> QED
  BY <1>5, <1>6

\* A lane as it is seeded guards its tools and holds nothing.
LEMMA GuardedInit == Init => Guarded /\ Housed
<1>1. Init => Guarded
  BY DEF Init, StoreInit, DriverInit, Guarded, Once, Ran, NoOperation
<1>2. ASSUME Init
      PROVE  Housed
  <2>1. /\ DOMAIN entries = {} /\ DOMAIN pending = {} /\ state = NoOperation /\ lane.nextRun = <<>>
        /\ ~Busy /\ meta = NoMeta /\ toolArgs = {} /\ prep = <<>>
    BY <1>2 DEF Init, StoreInit, Busy
  <2>2. Reserved(state) = {} /\ state.kind # "run"
    BY <2>1 DEF Reserved, StructuralIds, NoOperation
  <2>3. \A q \in Lines : Waits(state, lane.nextRun)[q] = <<>>
    BY <2>1, <2>2 DEF Waits
  <2>4. Seats(Waits(state, lane.nextRun), {})
    BY <2>3 DEF Seats
  <2> QED
    BY <2>1, <2>2, <2>4 DEF Housed
<1> QED
  BY <1>1, <1>2

\* Every input waits in one queue or is an entry, and an idle lane holds no
\* register of an operation.
THEOREM InputsHaveOneHome == Spec => []OneHome
<1>1. Init => Guarded /\ Housed
  BY GuardedInit
<1>2. Driven /\ Driven' /\ Guarded /\ Housed /\ [Next]_<<vars, scenario>> => Guarded' /\ Housed'
  BY GuardedNext, HousedNext
<1>3. Driven /\ Housed => OneHome
  <2>1. Driven => (Busy <=> state # NoOperation)
    BY DEF Driven, Base, OneOperation
  <2> QED
    BY <2>1, HomesOfSeats DEF Housed, OneHome
<1> QED
  BY <1>1, <1>2, <1>3, Steering, PTL DEF Spec
===============================================================================
