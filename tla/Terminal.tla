------------------------------- MODULE Terminal -------------------------------
(***************************************************************************)
(* The terminal user interface: the event loop of src/src/tui/run.rs with  *)
(* the part of src/src/tui/app.rs that decides what a key means, and the   *)
(* worker task of src/src/tui/session.rs between it and the harness.       *)
(*                                                                         *)
(* Three queues connect them.  actions carries what the user asked for to  *)
(* the worker, updates carries what to show back; a sender waits for room  *)
(* in either.  events is the harness's broadcast channel, which never      *)
(* waits: when it is full the oldest event is lost.                        *)
(*                                                                         *)
(* The lane is as coarse as its callers see it: idle, or in a run or a     *)
(* compaction, which may be cancelled.  Texts are numbered.                *)
(***************************************************************************)
EXTENDS Naturals, Sequences, FiniteSets

CONSTANTS
  Kinds,        \* of texts the user enters, a subset of AllKinds
  ActionCap,    \* capacity of actions, 64 in the code
  UpdateCap,    \* capacity of updates, 256 in the code
  EventCap,     \* capacity of events, 1024 in the code
  MaxTexts,     \* bound: texts entered
  MaxKeys,      \* bound: interrupting keys pressed
  MaxNoise      \* bound: other events of running operations

\* A message, one to pick up after the run, a command the worker awaits (`!`, a
\* tool, or another slash command), /compact and /quit.
AllKinds == {"say", "followUp", "side", "compact", "quit"}

ASSUME TerminalAssumption ==
  /\ Kinds \subseteq AllKinds
  /\ {ActionCap, UpdateCap, EventCap} \subseteq Nat \ {0}
  /\ {MaxTexts, MaxKeys, MaxNoise} \subseteq Nat

VARIABLES
  app,          \* the event loop: "loop", "sending" an action, or "gone"
  held,         \* the action it is sending
  working,      \* App.working is Some: the indicator
  armed,        \* App.interrupt_armed
  actions, updates, events,
  forward,      \* forward_events(): the updates it has yet to send
  worker,       \* what the worker is doing
  hand,         \* the action it is doing it for
  lane,         \* "idle", "run" or "compaction"
  cancelled,    \* the operation of the lane is cancelled
  drive,        \* where the operation a text started is; 0 is the one resumed
  fate,         \* history: each text is "none" yet, "sent" or "answered"
  catalogue,    \* the providers were asked what they serve, and have answered
  keys, noise   \* bounds

screen == <<app, held, working, armed>>
task == <<worker, hand>>
op == <<lane, cancelled, drive>>
vars == <<screen, actions, updates, events, forward, task, op, fate, catalogue, keys, noise>>

Texts == 1 .. MaxTexts
Ops == 0 .. MaxTexts
Action == [kind: AllKinds \cup {"interrupt", "none"}, text: Ops]
NoAction == [kind |-> "none", text |-> 0]
Interrupt == [kind |-> "interrupt", text |-> 0]

\* An update raises or clears the indicator, or is an item, perhaps the answer
\* to a text.
Raise == [show |-> "up", text |-> 0]
Clear == [show |-> "down", text |-> 0]
Item(n) == [show |-> "item", text |-> n]
Update == [show: {"up", "down", "item"}, text: Ops]

\* The banner is to be shown; the lane is idle, or has an operation left open by an earlier process,
\* which resume_all() drives before the worker takes any action.
Init ==
  /\ app = "loop" /\ held = NoAction /\ working = FALSE /\ armed = FALSE
  /\ actions = <<>> /\ updates = <<Item(0)>> /\ events = <<>> /\ forward = <<>>
  /\ worker = "open" /\ hand = NoAction
  /\ lane \in {"idle", "run", "compaction"} /\ cancelled = FALSE
  /\ drive = [n \in Ops |-> IF n = 0 /\ lane # "idle" THEN "start" ELSE "none"]
  /\ fate = [n \in Texts |-> "none"]
  /\ catalogue = FALSE
  /\ keys = 0 /\ noise = 0

(***************************************************************************)
(* The event loop.  It sends an action and waits while the queue is full;  *)
(* it leaves when nobody is left to receive.  Keys are drained without     *)
(* looking at updates in between.                                          *)
(***************************************************************************)
Offer(action) ==
  \/ worker = "gone" /\ app' = "gone" /\ UNCHANGED <<held, actions>>
  \/ /\ worker # "gone" /\ Len(actions) < ActionCap
     /\ actions' = Append(actions, action) /\ UNCHANGED <<app, held>>
  \/ /\ worker # "gone" /\ Len(actions) >= ActionCap
     /\ app' = "sending" /\ held' = action /\ UNCHANGED actions

Unblock ==
  /\ app = "sending"
  /\ IF worker = "gone"
     THEN app' = "gone" /\ UNCHANGED actions
     ELSE /\ Len(actions) < ActionCap
          /\ actions' = Append(actions, held)
          /\ app' = "loop"
  /\ held' = NoAction
  /\ UNCHANGED <<working, armed, updates, events, forward, task, op, fate, catalogue,
                 keys, noise>>

Enter(n, k) ==
  /\ app = "loop"
  /\ fate[n] = "none" /\ (n > 1 => fate[n - 1] # "none")
  /\ fate' = [fate EXCEPT ![n] = "sent"]
  /\ Offer([kind |-> k, text |-> n])
  /\ UNCHANGED <<working, armed, updates, events, forward, task, op, catalogue, keys,
                 noise>>

\* The first ctrl-c while the indicator is up, or any Esc, interrupts.
InterruptKey(esc) ==
  /\ app = "loop" /\ keys < MaxKeys
  /\ working /\ (esc \/ ~armed)
  /\ keys' = keys + 1
  /\ armed' = TRUE
  /\ Offer(Interrupt)
  /\ UNCHANGED <<working, updates, events, forward, task, op, fate, catalogue, noise>>

\* Any other ctrl-c leaves, and ctrl-d always: the loop returns and the worker
\* is aborted.
Quit(ctrlD) ==
  /\ app = "loop" /\ keys < MaxKeys
  /\ ctrlD \/ ~working \/ armed
  /\ keys' = keys + 1
  /\ app' = "gone"
  /\ worker' = "gone"
  /\ UNCHANGED <<held, working, armed, actions, updates, events, forward, hand, op,
                 fate, catalogue, noise>>

ApplyUpdate ==
  LET u == Head(updates) IN
  /\ app = "loop" /\ updates # <<>>
  /\ updates' = Tail(updates)
  /\ working' = IF u.show = "up" THEN TRUE ELSE IF u.show = "down" THEN FALSE ELSE working
  /\ armed' = (armed /\ u.show # "down")
  /\ fate' = IF u.text # 0 /\ fate[u.text] = "sent" THEN [fate EXCEPT ![u.text] = "answered"]
             ELSE fate
  /\ UNCHANGED <<app, held, actions, events, forward, task, op, catalogue, keys, noise>>

(***************************************************************************)
(* Events, and forward_events(), which turns them into updates.            *)
(***************************************************************************)

Emit(u) ==
  events' = IF Len(events) < EventCap THEN Append(events, u) ELSE Append(Tail(events), u)

\* The indicator goes down before the notice that says why.
Forward ==
  /\ forward = <<>> /\ events # <<>>
  /\ \/ forward' = <<Head(events)>>
     \/ Head(events) = Clear /\ forward' = <<Clear, Item(0)>>
  /\ events' = Tail(events)
  /\ UNCHANGED <<screen, actions, updates, task, op, fate, catalogue, keys, noise>>

ForwardSend ==
  /\ forward # <<>> /\ Len(updates) < UpdateCap
  /\ updates' = Append(updates, Head(forward))
  /\ forward' = Tail(forward)
  /\ UNCHANGED <<screen, actions, events, task, op, fate, catalogue, keys, noise>>

\* The task spawned at launch offers new completions once.
Discover ==
  /\ ~catalogue /\ Len(updates) < UpdateCap
  /\ updates' = Append(updates, Item(0))
  /\ catalogue' = TRUE
  /\ UNCHANGED <<screen, actions, events, forward, task, op, fate, keys, noise>>

(***************************************************************************)
(* An operation: claimed, announced, driven, committed as ended, announced *)
(* again.  Each commit comes before its event.                             *)
(***************************************************************************)
\* The worker drives a compaction itself; a run has a task of its own.
Inline(n) == worker = "waiting" /\ hand.text = n

At(n, place) == drive' = [drive EXCEPT ![n] = place]

Claim(n) ==
  /\ drive[n] = "claim"
  /\ IF lane = "idle"
     THEN /\ lane' = IF Inline(n) THEN "compaction" ELSE "run"
          /\ cancelled' = FALSE
          /\ fate' = [fate EXCEPT ![n] = "answered"]
          /\ At(n, "start")
     ELSE At(n, "busy") /\ UNCHANGED <<lane, cancelled, fate>>
  /\ UNCHANGED <<screen, actions, updates, events, forward, task, catalogue, keys,
                 noise>>

\* RunStart, RunResume, CompactionStart.
Announce(n) ==
  /\ drive[n] = "start"
  /\ At(n, "drive")
  /\ Emit(Raise)
  /\ UNCHANGED <<screen, actions, updates, forward, task, lane, cancelled, fate,
                 catalogue, keys, noise>>

\* The end of a compaction inside a run, the start of a tool, or a delta.
Progress(n, u) ==
  /\ drive[n] = "drive"
  /\ u = Clear => lane = "run"
  /\ noise < MaxNoise
  /\ noise' = noise + 1
  /\ Emit(u)
  /\ UNCHANGED <<screen, actions, updates, forward, task, op, fate, catalogue, keys>>

Ends(n) ==
  /\ drive[n] = "drive"
  /\ lane' = "idle"
  /\ At(n, "end")
  /\ UNCHANGED <<screen, actions, updates, events, forward, task, cancelled, fate,
                 catalogue, keys, noise>>

\* Mutant: an operation that was cancelled ends without its event.
AnnounceEndQuiet(n) ==
  /\ drive[n] = "end"
  /\ At(n, "done")
  /\ IF cancelled THEN UNCHANGED events ELSE Emit(Clear)
  /\ UNCHANGED <<screen, actions, updates, forward, task, lane, cancelled, fate,
                 catalogue, keys, noise>>

\* RunEnd, CompactionEnd.
AnnounceEnd(n) ==
  /\ drive[n] = "end"
  /\ At(n, "done")
  /\ Emit(Clear)
  /\ UNCHANGED <<screen, actions, updates, forward, task, lane, cancelled, fate,
                 catalogue, keys, noise>>

\* The spawned task shows why its prompt was refused.
ShowBusy(n) ==
  /\ drive[n] = "busy" /\ ~Inline(n)
  /\ Len(updates) < UpdateCap
  /\ updates' = Append(updates, Item(n))
  /\ At(n, "done")
  /\ UNCHANGED <<screen, actions, events, forward, task, lane, cancelled, fate,
                 catalogue, keys, noise>>

(***************************************************************************)
(* The worker.                                                             *)
(***************************************************************************)
\* Storage::open; when it fails the worker says so and returns.
Open(ok) ==
  /\ worker = "open"
  /\ IF ok THEN worker' = "resume" /\ UNCHANGED updates
     ELSE /\ Len(updates) < UpdateCap
          /\ updates' = Append(updates, Item(0))
          /\ worker' = "gone"
  /\ UNCHANGED <<screen, actions, events, forward, hand, op, fate, catalogue, keys,
                 noise>>

\* resume_all() has returned; what it resumed is worth a notice.
Resumed ==
  /\ worker = "resume"
  /\ \/ drive[0] = "none" /\ UNCHANGED <<updates, drive>>
     \/ /\ drive[0] = "done" /\ Len(updates) < UpdateCap
        /\ updates' = Append(updates, Item(0))
        /\ At(0, "none")
  /\ worker' = "loop"
  /\ UNCHANGED <<screen, actions, events, forward, hand, lane, cancelled, fate,
                 catalogue, keys, noise>>

Receive ==
  /\ worker = "loop" /\ actions # <<>>
  /\ hand' = Head(actions)
  /\ actions' = Tail(actions)
  /\ worker' = IF hand'.kind = "interrupt" THEN "abort" ELSE "echo"
  /\ UNCHANGED <<screen, updates, events, forward, op, fate, catalogue, keys, noise>>

\* The end of a spawned task; after the last one the files are listed again.
Finished(n) ==
  /\ worker = "loop" /\ drive[n] = "done"
  /\ At(n, "none")
  /\ worker' = IF \E m \in Texts \ {n} : drive[m] # "none" THEN "loop" ELSE "files"
  /\ UNCHANGED <<screen, actions, updates, events, forward, hand, lane, cancelled, fate,
                 catalogue, keys, noise>>

ListFiles ==
  /\ worker = "files" /\ Len(updates) < UpdateCap
  /\ updates' = Append(updates, Item(0))
  /\ worker' = "loop"
  /\ UNCHANGED <<screen, actions, events, forward, hand, op, fate, catalogue, keys,
                 noise>>

\* abort() of the lane, then of a side command: but those run in this task.
AbortLane ==
  /\ worker = "abort"
  /\ cancelled' = (cancelled \/ lane # "idle")
  /\ worker' = "loop" /\ hand' = NoAction
  /\ UNCHANGED <<screen, actions, updates, events, forward, lane, drive, fate,
                 catalogue, keys, noise>>

\* The text is shown before it is acted on.
Echo ==
  /\ worker = "echo" /\ Len(updates) < UpdateCap
  /\ updates' = Append(updates, Item(0))
  /\ worker' = CASE hand.kind \in {"say", "followUp"} -> "steer"
                 [] hand.kind = "side" -> "side"
                 [] hand.kind = "compact" -> "compact"
                 [] hand.kind = "quit" -> "quit"
  /\ UNCHANGED <<screen, actions, events, forward, hand, op, fate, catalogue, keys,
                 noise>>

\* Mutant: the error of steer() is dropped.
SteerSilent ==
  /\ worker = "steer"
  /\ IF lane = "idle" THEN At(hand.text, "claim") /\ UNCHANGED fate
     ELSE /\ fate' = IF lane = "run" /\ ~cancelled
                    THEN [fate EXCEPT ![hand.text] = "answered"] ELSE fate
          /\ UNCHANGED drive
  /\ worker' = "loop" /\ hand' = NoAction
  /\ UNCHANGED <<screen, actions, updates, events, forward, lane, cancelled, catalogue,
                 keys, noise>>

\* steer() if a run takes it; a run of its own, in a task of its own, if the
\* lane is idle; else the error is shown.
Steer ==
  /\ worker = "steer"
  /\ IF lane = "idle"
     THEN At(hand.text, "claim") /\ worker' = "loop" /\ hand' = NoAction /\ UNCHANGED fate
     ELSE /\ IF lane = "run" /\ ~cancelled
             THEN /\ fate' = [fate EXCEPT ![hand.text] = "answered"]
                  /\ worker' = "loop" /\ hand' = NoAction
             ELSE worker' = "show" /\ UNCHANGED <<fate, hand>>
          /\ UNCHANGED drive
  /\ UNCHANGED <<screen, actions, updates, events, forward, lane, cancelled, catalogue,
                 keys, noise>>

\* A command in the micro-VM, or one answered from the project's files or by
\* queueing for the next run: the worker waits for it, as long as it takes.
SideEnds ==
  /\ worker = "side"
  /\ fate' = [fate EXCEPT ![hand.text] = "answered"]
  /\ worker' = "show"
  /\ UNCHANGED <<screen, actions, updates, events, forward, hand, op, catalogue, keys,
                 noise>>

\* compact() is driven here; there may be nothing to compact.
Compact(some) ==
  /\ worker = "compact" /\ drive[hand.text] = "none"
  /\ IF some THEN At(hand.text, "claim") /\ worker' = "waiting"
     ELSE worker' = "show" /\ UNCHANGED drive
  /\ UNCHANGED <<screen, actions, updates, events, forward, hand, lane, cancelled, fate,
                 catalogue, keys, noise>>

\* Mutant: a compaction that was refused is waited for.
CompactedDone ==
  /\ worker = "waiting" /\ drive[hand.text] = "done"
  /\ At(hand.text, "none")
  /\ worker' = "show"
  /\ UNCHANGED <<screen, actions, updates, events, forward, hand, lane, cancelled, fate,
                 catalogue, keys, noise>>

Compacted ==
  /\ worker = "waiting" /\ drive[hand.text] \in {"done", "busy"}
  /\ At(hand.text, "none")
  /\ worker' = "show"
  /\ UNCHANGED <<screen, actions, updates, events, forward, hand, lane, cancelled, fate,
                 catalogue, keys, noise>>

\* dispatch() has no item to show for /quit, and nobody is told to leave.
QuitCommand ==
  /\ worker = "quit"
  /\ worker' = "loop" /\ hand' = NoAction
  /\ UNCHANGED <<screen, actions, updates, events, forward, op, fate, catalogue, keys,
                 noise>>

\* The answer, or the error, is shown.
Show ==
  /\ worker = "show" /\ Len(updates) < UpdateCap
  /\ updates' = Append(updates, Item(hand.text))
  /\ worker' = "loop" /\ hand' = NoAction
  /\ UNCHANGED <<screen, actions, events, forward, op, fate, catalogue, keys, noise>>

WorkerStep ==
  \/ \E ok \in BOOLEAN : Open(ok)
  \/ Resumed \/ Receive \/ AbortLane \/ Echo \/ Steer \/ Compacted \/ QuitCommand
  \/ Show \/ ListFiles
  \/ \E some \in BOOLEAN : Compact(some)
  \/ \E n \in Texts : Finished(n)

OpStep(n) == Claim(n) \/ Announce(n) \/ AnnounceEnd(n) \/ ShowBusy(n)

\* The process does not outlive the event loop.
Next ==
  /\ app # "gone"
  /\ \/ \E n \in Texts, k \in Kinds : Enter(n, k)
     \/ (\E esc \in BOOLEAN : InterruptKey(esc)) \/ (\E ctrlD \in BOOLEAN : Quit(ctrlD))
     \/ Unblock \/ ApplyUpdate \/ Forward \/ ForwardSend \/ Discover
     \/ \E n \in Ops : OpStep(n) \/ Ends(n) \/ \E u \in {Raise, Clear, Item(0)} : Progress(n, u)
     \/ WorkerStep \/ SideEnds

Spec == Init /\ [][Next]_vars

\* Every task is scheduled again, and what the lane or the micro-VM was asked
\* to do comes to an end.
FairSpec ==
  /\ Spec
  /\ WF_vars(Unblock) /\ WF_vars(ApplyUpdate) /\ WF_vars(Forward) /\ WF_vars(ForwardSend)
  /\ WF_vars(WorkerStep) /\ WF_vars(SideEnds)
  /\ \A n \in Ops : WF_vars(OpStep(n)) /\ WF_vars(Ends(n))

(***************************************************************************)
(* Properties.                                                             *)
(***************************************************************************)
Occurs(x, seq) == \E i \in 1 .. Len(seq) : seq[i] = x

\* Every variable has its type, and no queue outgrows its capacity: the event
\* channel makes room by dropping what is oldest (HarnessConfig.event_capacity).
TypeOK ==
  /\ app \in {"loop", "sending", "gone"} /\ held \in Action
  /\ {working, armed, cancelled} \subseteq BOOLEAN
  /\ actions \in Seq(Action) /\ Len(actions) <= ActionCap
  /\ updates \in Seq(Update) /\ Len(updates) <= UpdateCap
  /\ events \in Seq(Update) /\ Len(events) <= EventCap
  /\ forward \in Seq(Update) /\ Len(forward) <= 2
  /\ worker \in {"open", "resume", "loop", "abort", "echo", "steer", "side", "compact",
                "quit", "waiting", "show", "files", "gone"}
  /\ hand \in Action
  /\ lane \in {"idle", "run", "compaction"}
  /\ drive \in [Ops -> {"none", "claim", "busy", "start", "drive", "end", "done"}]
  /\ fate \in [Texts -> {"none", "sent", "answered"}]
  /\ catalogue \in BOOLEAN
  /\ keys \in 0 .. MaxKeys /\ noise \in 0 .. MaxNoise

\* A text the user entered and nothing has come of yet is in exactly one place
\* on its way: with the event loop, in the queue, with the worker, with the task
\* spawned for it, or answered by an update still to be shown.  No error path of
\* the worker loses one, none is handled twice, and no queue outgrows its bound.
TextAccounted ==
  /\ TypeOK
  /\ \A n \in Texts : fate[n] = "sent" /\ worker # "gone" =>
       LET places == {"held", "queue", "hand", "task", "answer"}
           in(place) ==
             CASE place = "held" -> held.text = n
               [] place = "queue" -> \E i \in 1 .. Len(actions) : actions[i].text = n
               [] place = "hand" -> hand.text = n /\ drive[n] = "none"
               [] place = "task" -> drive[n] \in {"claim", "busy"}
               [] place = "answer" -> Occurs(Item(n), updates)
       IN  \E place \in places : in(place) /\ \A other \in places \ {place} : ~in(other)

\* Once nothing runs and everything announced has been shown, the indicator is
\* down, whatever the event channel dropped: the last event of an operation is
\* the one that clears it (forward_events: "a stuck spinner turns ctrl-c into an
\* interrupt that never becomes a quit").
IndicatorClears ==
  /\ lane = "idle" /\ \A n \in Ops : drive[n] \notin {"start", "drive", "end"}
  /\ events = <<>> /\ forward = <<>>
  /\ ~Occurs(Raise, updates) /\ ~Occurs(Clear, updates)
  => ~working

\* The event loop waits for room among the actions and the worker for room
\* among the updates.
Standoff ==
  /\ app = "sending" /\ Len(actions) = ActionCap
  /\ Len(updates) = UpdateCap
  /\ \/ worker \in {"echo", "show", "files"}
     \/ worker = "resume" /\ drive[0] = "done"

\* Whatever the user enters is run, queued, given to the run in flight, or the
\* user is told why not: a standoff of the event loop and the worker, or the end
\* of the worker, is the only thing that can prevent it.
TextAnswered ==
  \A n \in Texts : fate[n] = "sent" ~> fate[n] # "sent" \/ worker = "gone" \/ Standoff

\* "Neither side blocks the other" (run.rs): the event loop and the worker never
\* wait for each other.
NoStandoff == ~Standoff

\* An interrupt the user asked for is not left behind a command of the micro-VM:
\* side commands "keep their own cancellation" (session.rs).
SideInterruptible ==
  ~ (worker = "side" /\ Occurs(Interrupt, actions))

\* "A prompt while the lane is busy is a steer" (session.rs): none is refused
\* because of a run that would have taken it.
SteerWhileBusy ==
  \A n \in Texts : drive[n] = "busy" /\ ~Inline(n) => lane # "run" \/ cancelled

\* While a run is driven and everything announced has been shown, the indicator
\* is up, so that ctrl-c interrupts it instead of leaving (app.rs).
IndicatorShowsRun ==
  /\ lane = "run" /\ \E n \in Ops : drive[n] = "drive"
  /\ events = <<>> /\ forward = <<>>
  /\ ~Occurs(Raise, updates) /\ ~Occurs(Clear, updates)
  => working
=============================================================================
