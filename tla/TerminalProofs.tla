---------------------------- MODULE TerminalProofs ----------------------------
(***************************************************************************)
(* Proofs about the terminal, for queues of any capacity, any number of    *)
(* texts and keys, and any other traffic of events: no text the user       *)
(* entered is lost or handled twice, and the indicator goes down.          *)
(***************************************************************************)
EXTENDS Terminal, TLAPS

(***************************************************************************)
(* Queues.                                                                 *)
(***************************************************************************)
\* Adding one at the end keeps the others where they are.
LEMMA Pushed ==
  ASSUME NEW S, NEW s \in Seq(S), NEW e \in S
  PROVE  /\ Append(s, e) \in Seq(S) /\ Len(Append(s, e)) = Len(s) + 1
         /\ Append(s, e)[Len(s) + 1] = e /\ \A i \in 1 .. Len(s) : Append(s, e)[i] = s[i]
OBVIOUS

\* Taking one leaves the rest, each one place ahead.
LEMMA Popped ==
  ASSUME NEW S, NEW s \in Seq(S), s # <<>>
  PROVE  /\ Len(s) \in Nat \ {0} /\ Head(s) \in S /\ Head(s) = s[1]
         /\ Tail(s) \in Seq(S) /\ Len(Tail(s)) = Len(s) - 1
         /\ \A i \in 1 .. Len(s) - 1 : Tail(s)[i] = s[i + 1]
OBVIOUS

(***************************************************************************)
(* What the variables hold.                                                *)
(***************************************************************************)
Entered == [kind : Kinds, text : Texts]
Requests == Entered \cup {Interrupt}
Signals == {Raise, Clear, Item(0)}
Shown == {Raise, Clear} \cup {Item(n) : n \in Ops}

\* The worker is busy with a text.
Serving == {"echo", "steer", "side", "compact", "waiting", "show", "quit"}

\* What the user asked for is an interrupt or a text, only the worker's answers
\* are about a text, and the worker holds a text exactly while it serves one.
Screen ==
  /\ app \in {"loop", "sending", "gone"}
  /\ IF app = "sending" THEN held \in Requests ELSE held = NoAction
  /\ working \in BOOLEAN /\ armed \in BOOLEAN

Queues ==
  /\ actions \in Seq(Requests) /\ Len(actions) <= ActionCap
  /\ updates \in Seq(Shown) /\ Len(updates) <= UpdateCap
  /\ events \in Seq(Signals) /\ Len(events) <= EventCap
  /\ forward \in Seq(Signals) /\ Len(forward) <= 2

Worker ==
  /\ worker \in {"open", "resume", "loop", "abort", "files", "gone"} \cup Serving
  /\ hand \in Action
  /\ worker \in Serving => hand \in Entered
  /\ worker \notin Serving \cup {"gone"} => hand.text = 0
  /\ worker = "quit" => hand.kind = "quit"

Places == {"none", "claim", "busy", "start", "drive", "end", "done"}
Fates == {"none", "sent", "answered"}

Lane ==
  /\ lane \in {"idle", "run", "compaction"} /\ cancelled \in BOOLEAN
  /\ drive \in [Ops -> Places] /\ fate \in [Texts -> Fates]

Counts == catalogue \in BOOLEAN /\ keys \in 0 .. MaxKeys /\ noise \in 0 .. MaxNoise

Typed == Screen /\ Queues /\ Worker /\ Lane /\ Counts

\* How these sets lie in each other.
LEMMA Collections ==
  /\ Requests \subseteq Action /\ Entered \subseteq Requests /\ Interrupt \in Requests
  /\ Interrupt \in Action /\ NoAction \in Action
  /\ Signals \subseteq Shown /\ Shown \subseteq Update
  /\ \A n \in Ops : Item(n) \in Shown
  /\ Texts \subseteq Ops /\ 0 \in Ops /\ 0 \notin Texts
  /\ \A s \in Requests : s.text \in Ops
  /\ \A u \in Shown : u.text # 0 => u = Item(u.text)
<1>1. Texts \subseteq Ops /\ 0 \in Ops /\ 0 \notin Texts
  BY TerminalAssumption DEF Texts, Ops
<1>2. Entered \subseteq Action /\ Interrupt \in Action /\ NoAction \in Action
  <2>1. Kinds \subseteq AllKinds
    BY TerminalAssumption
  <2>2. Entered \subseteq Action
    BY <1>1, <2>1 DEF Entered, Action
  <2>3. Interrupt \in Action /\ NoAction \in Action
    BY <1>1 DEF Action, Interrupt, NoAction
  <2> QED
    BY <2>2, <2>3
<1>3. Shown \subseteq Update /\ Signals \subseteq Shown /\ \A n \in Ops : Item(n) \in Shown
  <2>1. Raise \in Update /\ Clear \in Update
    BY <1>1 DEF Update, Raise, Clear
  <2>2. \A n \in Ops : Item(n) \in Update
    BY DEF Update, Item
  <2> QED
    BY <1>1, <2>1, <2>2 DEF Shown, Signals
<1>4. \A s \in Requests : s.text \in Ops
  BY <1>1 DEF Requests, Entered, Interrupt
<1>5. \A u \in Shown : u.text # 0 => u = Item(u.text)
  BY DEF Shown, Raise, Clear, Item
<1> QED
  BY <1>1, <1>2, <1>3, <1>4, <1>5 DEF Requests

\* So every variable has its type.
LEMMA TypedOK ==
  ASSUME Typed
  PROVE  TypeOK
<1>1. /\ actions \in Seq(Action) /\ updates \in Seq(Update)
      /\ events \in Seq(Update) /\ forward \in Seq(Update)
  BY Collections DEF Typed, Queues
<1>2. held \in Action
  BY Collections DEF Typed, Screen
<1> QED
  BY <1>1, <1>2 DEF Typed, Screen, Queues, Worker, Lane, Counts, TypeOK, Serving, Places, Fates

\* They hold it at launch.
LEMMA TypedInit ==
  ASSUME Init
  PROVE  Typed
<1>1. Screen
  BY DEF Init, Screen
<1>5. Counts
  <2>1. MaxKeys \in Nat /\ MaxNoise \in Nat
    BY TerminalAssumption
  <2>2. keys = 0 /\ noise = 0
    BY DEF Init
  <2>3. catalogue \in BOOLEAN
    BY DEF Init
  <2>4. keys \in 0 .. MaxKeys /\ noise \in 0 .. MaxNoise
    BY <2>1, <2>2
  <2> QED
    BY <2>3, <2>4 DEF Counts
<1>2. updates \in Seq(Shown) /\ Len(updates) = 1
  BY Collections DEF Init
<1>3. Queues
  BY <1>2, TerminalAssumption DEF Init, Queues
<1>4. Worker
  BY Collections DEF Init, Worker, Serving, NoAction
<1>6. Lane
  BY DEF Init, Lane, Places, Fates
<1> QED
  BY <1>1, <1>3, <1>4, <1>5, <1>6 DEF Typed

\* What an event, a request and an update do to their queues.
LEMMA Emitted ==
  ASSUME Typed, NEW u \in Signals, Emit(u)
  PROVE  /\ events' \in Seq(Signals) /\ Len(events') <= EventCap
         /\ Len(events') > 0 /\ events'[Len(events')] = u
<1>1. events \in Seq(Signals) /\ Len(events) <= EventCap /\ EventCap \in Nat \ {0}
  BY TerminalAssumption DEF Typed, Queues
<1>2. CASE Len(events) < EventCap
  BY <1>1, <1>2, Pushed DEF Emit
<1>3. CASE ~ (Len(events) < EventCap)
  <2>1. Tail(events) \in Seq(Signals) /\ Len(Tail(events)) = Len(events) - 1 /\ Len(events) \in Nat
    BY <1>1, <1>3
  <2> QED
    BY <1>1, <1>3, <2>1, Pushed DEF Emit
<1> QED
  BY <1>2, <1>3

\* An update for which there is room.
LEMMA Told ==
  ASSUME Typed, NEW u \in Shown, Len(updates) < UpdateCap, updates' = Append(updates, u)
  PROVE  updates' \in Seq(Shown) /\ Len(updates') <= UpdateCap
<1>1. updates \in Seq(Shown) /\ UpdateCap \in Nat
  BY TerminalAssumption DEF Typed, Queues
<1> QED
  BY <1>1, Pushed

\* An action is offered, whether it fits, has to wait or finds nobody left.
LEMMA Offered ==
  ASSUME Typed, app = "loop", NEW a \in Requests, Offer(a)
  PROVE  /\ actions' \in Seq(Requests) /\ Len(actions') <= ActionCap
         /\ app' \in {"loop", "sending", "gone"}
         /\ IF app' = "sending" THEN held' \in Requests ELSE held' = NoAction
<1>1. actions \in Seq(Requests) /\ ActionCap \in Nat /\ Len(actions) <= ActionCap /\ held = NoAction
  BY TerminalAssumption DEF Typed, Queues, Screen
<1>2. CASE worker = "gone"
  BY <1>1, <1>2 DEF Offer
<1>3. CASE worker # "gone" /\ Len(actions) < ActionCap
  BY <1>1, <1>3, Pushed DEF Offer
<1>4. CASE worker # "gone" /\ ~ (Len(actions) < ActionCap)
  BY <1>1, <1>4 DEF Offer
<1> QED
  BY <1>2, <1>3, <1>4

\* The event loop's steps keep the types.
LEMMA TypedScreen ==
  ASSUME Typed,
         \/ \E n \in Texts, k \in Kinds : Enter(n, k)
         \/ \E esc \in BOOLEAN : InterruptKey(esc)
         \/ \E ctrlD \in BOOLEAN : Quit(ctrlD)
         \/ Unblock \/ ApplyUpdate
  PROVE  Typed'
<1>1. ASSUME NEW n \in Texts, NEW k \in Kinds, Enter(n, k)
      PROVE  Typed'
  <2>1. [kind |-> k, text |-> n] \in Requests
    BY DEF Requests, Entered
  <2>2. app = "loop" /\ Offer([kind |-> k, text |-> n])
    BY <1>1 DEF Enter
  <2>3. /\ Queues' /\ Screen'
    BY <1>1, <2>1, <2>2, Offered DEF Enter, Typed, Queues, Screen
  <2>4. Worker' /\ Lane' /\ Counts'
    BY <1>1 DEF Enter, Typed, Worker, Lane, Counts, Fates, task, op
  <2> QED
    BY <2>3, <2>4 DEF Typed
<1>2. ASSUME NEW esc \in BOOLEAN, InterruptKey(esc)
      PROVE  Typed'
  <2>1. app = "loop" /\ Offer(Interrupt) /\ Interrupt \in Requests
    BY <1>2, Collections DEF InterruptKey
  <2>2. Queues' /\ Screen'
    BY <1>2, <2>1, Offered DEF InterruptKey, Typed, Queues, Screen
  <2>3. Worker' /\ Lane'
    BY <1>2 DEF InterruptKey, Typed, Worker, Lane, task, op
  <2>5. Counts'
    <3>1. MaxKeys \in Nat
      BY TerminalAssumption
    <3> QED
      BY <1>2, <3>1 DEF InterruptKey, Typed, Counts
  <2> QED
    BY <2>2, <2>3, <2>5 DEF Typed
<1>3. ASSUME NEW ctrlD \in BOOLEAN, Quit(ctrlD)
      PROVE  Typed'
  <2>1. Queues' /\ Screen'
    BY <1>3 DEF Quit, Typed, Queues, Screen
  <2>2. Worker' /\ Lane'
    BY <1>3 DEF Quit, Typed, Worker, Lane, op, Serving
  <2>5. Counts'
    <3>1. MaxKeys \in Nat
      BY TerminalAssumption
    <3> QED
      BY <1>3, <3>1 DEF Quit, Typed, Counts
  <2> QED
    BY <2>1, <2>2, <2>5 DEF Typed
<1>4. CASE Unblock
  <2>1. held \in Requests /\ actions \in Seq(Requests) /\ Len(actions) <= ActionCap /\ ActionCap \in Nat
    BY <1>4, TerminalAssumption DEF Unblock, Typed, Screen, Queues
  <2>2. actions' \in Seq(Requests) /\ Len(actions') <= ActionCap
    BY <1>4, <2>1, Pushed DEF Unblock
  <2>3. Queues' /\ Screen'
    BY <1>4, <2>2 DEF Unblock, Typed, Queues, Screen
  <2>4. Worker' /\ Lane' /\ Counts'
    BY <1>4 DEF Unblock, Typed, Worker, Lane, Counts, task, op
  <2> QED
    BY <2>3, <2>4 DEF Typed
<1>5. CASE ApplyUpdate
  <2>1. updates' \in Seq(Shown) /\ Len(updates') <= UpdateCap
    <3>1. updates \in Seq(Shown) /\ updates # <<>> /\ updates' = Tail(updates)
          /\ Len(updates) <= UpdateCap /\ UpdateCap \in Nat
      BY <1>5, TerminalAssumption DEF ApplyUpdate, Typed, Queues
    <3> QED
      BY <3>1, Popped
  <2>2. Queues' /\ Screen'
    BY <1>5, <2>1 DEF ApplyUpdate, Typed, Queues, Screen
  <2>3. Worker' /\ Lane' /\ Counts'
    BY <1>5 DEF ApplyUpdate, Typed, Worker, Lane, Counts, Fates, task, op
  <2> QED
    BY <2>2, <2>3 DEF Typed
<1> QED
  BY <1>1, <1>2, <1>3, <1>4, <1>5

\* So do those of the tasks between the harness and it.
LEMMA TypedEvents ==
  ASSUME Typed,
         \/ Forward \/ ForwardSend \/ Discover
         \/ \E n \in Ops : OpStep(n) \/ Ends(n) \/ \E u \in {Raise, Clear, Item(0)} : Progress(n, u)
  PROVE  Typed'
<1>1. CASE Forward
  <2>1. events \in Seq(Signals) /\ events # <<>> /\ Len(events) <= EventCap /\ EventCap \in Nat
    BY <1>1, TerminalAssumption DEF Forward, Typed, Queues
  <2>2. events' \in Seq(Signals) /\ Len(events') <= EventCap /\ Head(events) \in Signals
    BY <1>1, <2>1, Popped DEF Forward
  <2>3. forward' \in Seq(Signals) /\ Len(forward') <= 2
    <3>1. /\ Head(events) \in Signals /\ Clear \in Signals /\ Item(0) \in Signals
          /\ forward' = <<Head(events)>> \/ forward' = <<Clear, Item(0)>>
      BY <1>1, <2>2 DEF Forward, Signals
    <3>2. CASE forward' = <<Head(events)>>
      BY <3>1, <3>2
    <3>3. CASE forward' = <<Clear, Item(0)>>
      BY <3>1, <3>3
    <3> QED
      BY <3>1, <3>2, <3>3
  <2> QED
    BY <1>1, <2>2, <2>3 DEF Forward, Typed, Screen, Queues, Worker, Lane, Counts, screen, task, op
<1>2. CASE ForwardSend
  <2>1. forward \in Seq(Signals) /\ forward # <<>> /\ Len(forward) <= 2
    BY <1>2 DEF ForwardSend, Typed, Queues
  <2>2. forward' \in Seq(Signals) /\ Len(forward') <= 2 /\ Head(forward) \in Shown
    BY <1>2, <2>1, Popped, Collections DEF ForwardSend
  <2>3. updates' \in Seq(Shown) /\ Len(updates') <= UpdateCap
    BY <1>2, <2>2, Told DEF ForwardSend
  <2> QED
    BY <1>2, <2>2, <2>3 DEF ForwardSend, Typed, Screen, Queues, Worker, Lane, Counts, screen, task, op
<1>3. CASE Discover
  <2>1. updates' \in Seq(Shown) /\ Len(updates') <= UpdateCap
    BY <1>3, Told, Collections DEF Discover
  <2> QED
    BY <1>3, <2>1 DEF Discover, Typed, Screen, Queues, Worker, Lane, Counts, screen, task, op
<1>4. ASSUME NEW n \in Ops, Claim(n) \/ Ends(n)
      PROVE  Typed'
  <2>1. Screen' /\ Queues' /\ Worker' /\ Counts'
    BY <1>4 DEF Claim, Ends, Typed, Screen, Queues, Worker, Counts, screen, task
  <2>2. Lane'
    BY <1>4 DEF Claim, Ends, At, Typed, Lane, Places, Fates
  <2> QED
    BY <2>1, <2>2 DEF Typed
<1>5. ASSUME NEW n \in Ops, Announce(n) \/ AnnounceEnd(n)
      PROVE  Typed'
  <2>1. events' \in Seq(Signals) /\ Len(events') <= EventCap
    BY <1>5, Emitted DEF Announce, AnnounceEnd, Signals
  <2>2. Screen' /\ Queues' /\ Worker' /\ Counts'
    BY <1>5, <2>1 DEF Announce, AnnounceEnd, Typed, Screen, Queues, Worker, Counts, screen, task
  <2>3. Lane'
    BY <1>5 DEF Announce, AnnounceEnd, At, Typed, Lane, Places
  <2> QED
    BY <2>2, <2>3 DEF Typed
<1>6. ASSUME NEW n \in Ops, ShowBusy(n)
      PROVE  Typed'
  <2>1. updates' \in Seq(Shown) /\ Len(updates') <= UpdateCap
    BY <1>6, Told, Collections DEF ShowBusy
  <2>2. Screen' /\ Queues' /\ Worker' /\ Counts'
    BY <1>6, <2>1 DEF ShowBusy, Typed, Screen, Queues, Worker, Counts, screen, task
  <2>3. Lane'
    BY <1>6 DEF ShowBusy, At, Typed, Lane, Places
  <2> QED
    BY <2>2, <2>3 DEF Typed
<1>7. ASSUME NEW n \in Ops, NEW u \in {Raise, Clear, Item(0)}, Progress(n, u)
      PROVE  Typed'
  <2>1. events' \in Seq(Signals) /\ Len(events') <= EventCap
    BY <1>7, Emitted DEF Progress, Signals
  <2>2. Counts'
    <3>1. MaxNoise \in Nat
      BY TerminalAssumption
    <3> QED
      BY <1>7, <3>1 DEF Progress, Typed, Counts
  <2> QED
    BY <1>7, <2>1, <2>2 DEF Progress, Typed, Screen, Queues, Worker, Lane, screen, task, op
<1> QED
  BY <1>1, <1>2, <1>3, <1>4, <1>5, <1>6, <1>7 DEF OpStep

\* And those of the worker.
LEMMA TypedWorker ==
  ASSUME Typed, WorkerStep \/ SideEnds
  PROVE  Typed'
<1> Texts \subseteq Ops /\ 0 \in Ops /\ \A n \in Ops : Item(n) \in Shown
  BY Collections
<1>1. ASSUME NEW ok \in BOOLEAN, Open(ok)
      PROVE  Typed'
  <2>1. updates' \in Seq(Shown) /\ Len(updates') <= UpdateCap
    BY <1>1, Told DEF Open, Typed, Queues
  <2>2. Screen' /\ Queues' /\ Worker'
    BY <1>1, <2>1 DEF Open, Typed, Screen, Queues, Worker, screen, Serving
  <2>3. Lane' /\ Counts'
    BY <1>1 DEF Open, Typed, Lane, Counts, op
  <2> QED
    BY <2>2, <2>3 DEF Typed
<1>2. CASE Resumed
  <2>1. updates' \in Seq(Shown) /\ Len(updates') <= UpdateCap
    BY <1>2, Told DEF Resumed, Typed, Queues
  <2>2. Screen' /\ Queues' /\ Worker'
    BY <1>2, <2>1 DEF Resumed, Typed, Screen, Queues, Worker, screen, Serving
  <2>3. Lane' /\ Counts'
    BY <1>2 DEF Resumed, At, Typed, Lane, Counts, Places
  <2> QED
    BY <2>2, <2>3 DEF Typed
<1>3. CASE Receive
  <2>1. /\ actions \in Seq(Requests) /\ actions # <<>> /\ actions' = Tail(actions)
        /\ hand' = Head(actions) /\ Len(actions) <= ActionCap /\ ActionCap \in Nat
    BY <1>3, TerminalAssumption DEF Receive, Typed, Queues
  <2>2. hand' \in Requests /\ actions' \in Seq(Requests) /\ Len(actions') <= ActionCap
    BY <2>1, Popped
  <2>3. Screen' /\ Queues' /\ Lane' /\ Counts'
    BY <1>3, <2>2 DEF Receive, Typed, Screen, Queues, Lane, Counts, screen, op
  <2>4. Worker'
    <3>1. "interrupt" \notin Kinds
      BY TerminalAssumption DEF AllKinds
    <3>2. hand' \in Action /\ (hand' \in Entered \/ hand' = Interrupt)
      BY <2>2, Collections DEF Requests
    <3>3. CASE hand' = Interrupt
      BY <1>3, <3>2, <3>3 DEF Receive, Worker, Serving, Interrupt
    <3>4. CASE hand' \in Entered
      <4>1. hand'.kind # "interrupt"
        BY <3>1, <3>4 DEF Entered
      <4> QED
        BY <1>3, <3>2, <3>4, <4>1 DEF Receive, Worker, Serving
    <3> QED
      BY <3>2, <3>3, <3>4
  <2> QED
    BY <2>3, <2>4 DEF Typed
<1>4. CASE Echo
  <2>1. updates' \in Seq(Shown) /\ Len(updates') <= UpdateCap
    BY <1>4, Told DEF Echo
  <2>2. Screen' /\ Queues' /\ Lane' /\ Counts'
    BY <1>4, <2>1 DEF Echo, Typed, Screen, Queues, Lane, Counts, screen, op
  <2>3. worker = "echo" /\ hand \in Entered /\ hand \in Action /\ hand' = hand /\ hand.kind \in AllKinds
    BY <1>4, TerminalAssumption DEF Echo, Typed, Worker, Serving, Entered
  <2>4. worker' \in Serving /\ (worker' = "quit" => hand.kind = "quit")
    BY <1>4, <2>3 DEF Echo, Serving, AllKinds
  <2>5. Worker'
    BY <2>3, <2>4 DEF Worker
  <2> QED
    BY <2>2, <2>5 DEF Typed
<1>5. CASE Steer \/ AbortLane \/ QuitCommand \/ SideEnds
  <2>1. Screen' /\ Queues' /\ Counts'
    BY <1>5 DEF Steer, AbortLane, QuitCommand, SideEnds, Typed, Screen, Queues, Counts, screen
  <2>2. Worker'
    BY <1>5, Collections DEF Steer, AbortLane, QuitCommand, SideEnds, Typed, Worker, Serving, NoAction
  <2>3. Lane'
    BY <1>5 DEF Steer, At, AbortLane, QuitCommand, SideEnds, Typed, Lane, Places, Fates, op
  <2> QED
    BY <2>1, <2>2, <2>3 DEF Typed
<1>6. CASE Show
  <2>1. hand.text \in Ops
    BY <1>6 DEF Show, Typed, Worker, Action
  <2>2. updates' \in Seq(Shown) /\ Len(updates') <= UpdateCap
    BY <1>6, <2>1, Told DEF Show
  <2>3. Screen' /\ Queues' /\ Lane' /\ Counts'
    BY <1>6, <2>2 DEF Show, Typed, Screen, Queues, Lane, Counts, screen, op
  <2>4. Worker'
    BY <1>6, Collections DEF Show, Typed, Worker, Serving, NoAction
  <2> QED
    BY <2>3, <2>4 DEF Typed
<1>7. CASE ListFiles
  <2>1. updates' \in Seq(Shown) /\ Len(updates') <= UpdateCap
    BY <1>7, Told DEF ListFiles
  <2>2. Screen' /\ Queues' /\ Lane' /\ Counts' /\ Worker'
    BY <1>7, <2>1 DEF ListFiles, Typed, Screen, Queues, Lane, Counts, Worker, Serving, screen, op
  <2> QED
    BY <2>2 DEF Typed
<1>8. CASE Compacted \/ (\E some \in BOOLEAN : Compact(some)) \/ \E n \in Texts : Finished(n)
  <2>1. Screen' /\ Queues' /\ Counts'
    BY <1>8 DEF Compacted, Compact, Finished, Typed, Screen, Queues, Counts, screen
  <2>2. Worker'
    BY <1>8 DEF Compacted, Compact, Finished, Typed, Worker, Serving
  <2>3. Lane'
    BY <1>8 DEF Compacted, Compact, Finished, At, Typed, Lane, Places
  <2> QED
    BY <2>1, <2>2, <2>3 DEF Typed
<1> QED
  BY <1>1, <1>2, <1>3, <1>4, <1>5, <1>6, <1>7, <1>8 DEF WorkerStep

\* No step of anybody breaks the types.
LEMMA TypedNext ==
  ASSUME Typed, [Next]_vars
  PROVE  Typed'
<1>1. CASE Next
  BY <1>1, TypedScreen, TypedEvents, TypedWorker DEF Next
<1>2. CASE UNCHANGED vars
  BY <1>2 DEF vars, screen, task, op, Typed, Screen, Queues, Worker, Lane, Counts
<1> QED
  BY <1>1, <1>2

\* Every variable has its type in every reachable state, and no queue outgrows
\* its capacity, whatever the capacities are (HarnessConfig.event_capacity, the
\* channels of run.rs).
THEOREM TerminalTypes == Spec => []TypeOK
<1>1. Init => Typed
  BY TypedInit
<1>2. Typed /\ [Next]_vars => Typed'
  BY TypedNext
<1>3. Typed => TypeOK
  BY TypedOK
<1> QED
  BY <1>1, <1>2, <1>3, PTL DEF Spec

(***************************************************************************)
(* The indicator.  What the screen will show once everything on its way    *)
(* has arrived: the last update that raises or clears it decides.          *)
(***************************************************************************)
\* Nothing in seq raises it; something does clear it, after anything that raises it.
Still(seq) == \A i \in 1 .. Len(seq) : seq[i].show = "item"
Cleared(seq) ==
  \E i \in 1 .. Len(seq) : seq[i].show = "down" /\ \A j \in i + 1 .. Len(seq) : seq[j].show # "up"

\* It is down in the end if it is before.
Settles(seq, down) == Cleared(seq) \/ (Still(seq) /\ down)

Settling == Settles(events, Settles(forward, Settles(updates, ~working)))

\* An operation that was announced, or is about to be, announces its end.
Announced == \E n \in Ops : drive[n] \in {"start", "drive", "end"}

Quiet == ~Announced => Settling

\* An update raises, clears or is an item.
LEMMA StillShown ==
  ASSUME NEW u \in Shown
  PROVE  u.show \in {"up", "down", "item"}
BY DEF Shown, Raise, Clear, Item

\* One more at the end of a queue.
LEMMA SettlesPushed ==
  ASSUME NEW s \in Seq(Shown), NEW u \in Shown, NEW down \in BOOLEAN
  PROVE  /\ u.show = "item" => (Settles(Append(s, u), down) <=> Settles(s, down))
         /\ u.show = "down" => Settles(Append(s, u), down)
<1> DEFINE t == Append(s, u)
           n == Len(s)
<1>1. n \in Nat /\ Len(t) = n + 1 /\ t[n + 1] = u /\ \A i \in 1 .. n : t[i] = s[i]
  BY Pushed
<1> HIDE DEF t, n
<1>2. ASSUME u.show = "item"
      PROVE  Settles(t, down) <=> Settles(s, down)
  <2>1. Still(t) <=> Still(s)
    BY <1>1, <1>2 DEF Still, n
  <2>2. ASSUME Cleared(s)
        PROVE  Cleared(t)
    BY <1>1, <1>2, <2>2 DEF Cleared, n
  <2>3. ASSUME Cleared(t)
        PROVE  Cleared(s)
    BY <1>1, <1>2, <2>3 DEF Cleared, n
  <2> QED
    BY <2>1, <2>2, <2>3 DEF Settles
<1>3. ASSUME u.show = "down"
      PROVE  Settles(t, down)
  <2>1. n + 1 \in 1 .. Len(t) /\ t[n + 1].show = "down" /\ \A j \in n + 1 + 1 .. Len(t) : t[j].show # "up"
    BY <1>1, <1>3
  <2> QED
    BY <2>1 DEF Settles, Cleared
<1> QED
  BY <1>2, <1>3 DEF t

\* The first of a queue is applied to what is before it.
Applied(u, down) == IF u.show = "item" THEN down ELSE u.show = "down"

\* What it settles is settled by the rest from what the first leaves.
LEMMA SettlesPopped ==
  ASSUME NEW s \in Seq(Shown), s # <<>>, NEW down \in BOOLEAN
  PROVE  Settles(s, down) => Settles(Tail(s), Applied(Head(s), down))
<1> DEFINE t == Tail(s)
           n == Len(s)
           u == Head(s)
<1>1. /\ n \in Nat \ {0} /\ u \in Shown /\ u = s[1] /\ Len(t) = n - 1
      /\ \A i \in 1 .. n - 1 : t[i] = s[i + 1]
  BY Popped
<1>2. u.show \in {"up", "down", "item"}
  BY <1>1, StillShown
<1> HIDE DEF t, n, u
<1>3. ASSUME Still(s)
      PROVE  Still(t) /\ u.show = "item"
  BY <1>1, <1>3 DEF Still, n
<1>4. ASSUME Cleared(s)
      PROVE  Cleared(t) \/ (Still(t) /\ u.show = "down")
  <2>1. PICK i \in 1 .. n : s[i].show = "down" /\ \A j \in i + 1 .. n : s[j].show # "up"
    BY <1>4 DEF Cleared, n
  <2>2. CASE i # 1
    <3>1. i - 1 \in 1 .. Len(t) /\ t[i - 1].show = "down"
      BY <1>1, <2>1, <2>2
    <3>2. \A j \in i - 1 + 1 .. Len(t) : t[j].show # "up"
      BY <1>1, <2>1, <2>2
    <3> QED
      BY <3>1, <3>2 DEF Cleared
  <2>3. CASE i = 1 /\ ~Still(t)
    <3>1. PICK k \in 1 .. Len(t) : t[k].show # "item"
      BY <2>3 DEF Still
    <3>2. t[k] = s[k + 1] /\ k + 1 \in 1 .. n
      BY <1>1, <3>1
    <3>3. t[k].show = "down"
      <4>1. s[k + 1] \in Shown
        BY <3>2 DEF n
      <4>2. k + 1 \in i + 1 .. n
        BY <1>1, <2>3, <3>2
      <4>3. s[k + 1].show # "up"
        BY <2>1, <4>2
      <4>4. s[k + 1].show \in {"up", "down", "item"}
        BY <4>1, StillShown
      <4> QED
        BY <3>1, <3>2, <4>3, <4>4
    <3>4. ASSUME NEW j \in k + 1 .. Len(t)
          PROVE  t[j].show # "up"
      <4>1. j \in 1 .. n - 1 /\ j + 1 \in i + 1 .. n
        BY <1>1, <2>3, <3>1
      <4>2. t[j] = s[j + 1]
        BY <1>1, <4>1
      <4> QED
        BY <2>1, <4>1, <4>2
    <3> QED
      BY <3>1, <3>3, <3>4 DEF Cleared
  <2>4. CASE i = 1 /\ Still(t)
    BY <1>1, <2>1, <2>4
  <2> QED
    BY <2>2, <2>3, <2>4
<1> QED
  BY <1>2, <1>3, <1>4 DEF Settles, Applied, t, u

(***************************************************************************)
(* Where the texts are.                                                    *)
(***************************************************************************)
Carried(n, seq) == \E i \in 1 .. Len(seq) : seq[i].text = n

\* No text is in the queue twice.
Once(seq) == \A i, j \in 1 .. Len(seq) : seq[i].text # 0 /\ seq[i].text = seq[j].text => i = j

\* A queue after one more has what it had, and that one.
LEMMA OccursPushed ==
  ASSUME NEW s \in Seq(Shown), NEW u \in Shown, NEW x
  PROVE  Occurs(x, Append(s, u)) <=> Occurs(x, s) \/ u = x
<1> DEFINE t == Append(s, u)
<1>1. Len(s) \in Nat /\ Len(t) = Len(s) + 1 /\ t[Len(s) + 1] = u /\ \A i \in 1 .. Len(s) : t[i] = s[i]
  BY Pushed
<1> HIDE DEF t
<1>2. Occurs(x, t) <=> Occurs(x, s) \/ u = x
  BY <1>1 DEF Occurs
<1> QED
  BY <1>2 DEF t

\* A queue has its head and what follows it.
LEMMA OccursPopped ==
  ASSUME NEW s \in Seq(Shown), s # <<>>, NEW x
  PROVE  Occurs(x, s) <=> Head(s) = x \/ Occurs(x, Tail(s))
<1> DEFINE t == Tail(s)
           n == Len(s)
<1>1. n \in Nat \ {0} /\ Head(s) = s[1] /\ Len(t) = n - 1 /\ \A i \in 1 .. n - 1 : t[i] = s[i + 1]
  BY Popped
<1> HIDE DEF t, n
<1>2. ASSUME Occurs(x, s)
      PROVE  Head(s) = x \/ Occurs(x, t)
  <2>1. PICK i \in 1 .. n : s[i] = x
    BY <1>2 DEF Occurs, n
  <2>2. i = 1 \/ (i - 1 \in 1 .. Len(t) /\ t[i - 1] = x)
    BY <1>1, <2>1
  <2> QED
    BY <1>1, <2>1, <2>2 DEF Occurs
<1>3. ASSUME Head(s) = x \/ Occurs(x, t)
      PROVE  Occurs(x, s)
  BY <1>1, <1>3 DEF Occurs, n
<1> QED
  BY <1>2, <1>3 DEF t

\* The same of texts; and a new one is in the queue once.
LEMMA CarriedPushed ==
  ASSUME NEW s \in Seq(Requests), NEW a \in Requests
  PROVE  /\ \A n : Carried(n, Append(s, a)) <=> Carried(n, s) \/ a.text = n
         /\ Once(s) /\ (a.text # 0 => ~Carried(a.text, s)) => Once(Append(s, a))
<1> DEFINE t == Append(s, a)
<1>1. Len(s) \in Nat /\ Len(t) = Len(s) + 1 /\ t[Len(s) + 1] = a /\ \A i \in 1 .. Len(s) : t[i] = s[i]
  BY Pushed
<1> HIDE DEF t
<1>2. ASSUME NEW n
      PROVE  Carried(n, t) <=> Carried(n, s) \/ a.text = n
  BY <1>1 DEF Carried
<1>3. ASSUME Once(s), a.text # 0 => ~Carried(a.text, s)
      PROVE  Once(t)
  BY <1>1, <1>3 DEF Once, Carried
<1> QED
  BY <1>2, <1>3 DEF t

\* The one taken is not in the queue any more.
LEMMA CarriedPopped ==
  ASSUME NEW s \in Seq(Requests), s # <<>>
  PROVE  /\ \A n : Carried(n, s) <=> Head(s).text = n \/ Carried(n, Tail(s))
         /\ Once(s) => Once(Tail(s)) /\ (Head(s).text # 0 => ~Carried(Head(s).text, Tail(s)))
<1> DEFINE t == Tail(s)
           k == Len(s)
           h == Head(s)
<1>1. k \in Nat \ {0} /\ h = s[1] /\ Len(t) = k - 1 /\ \A i \in 1 .. k - 1 : t[i] = s[i + 1]
  BY Popped
<1> HIDE DEF t, k, h
<1>2. ASSUME NEW n, Carried(n, s)
      PROVE  h.text = n \/ Carried(n, t)
  <2>1. PICK i \in 1 .. k : s[i].text = n
    BY <1>2 DEF Carried, k
  <2>2. i = 1 \/ (i - 1 \in 1 .. Len(t) /\ t[i - 1].text = n)
    BY <1>1, <2>1
  <2> QED
    BY <1>1, <2>1, <2>2 DEF Carried
<1>3. ASSUME NEW n, h.text = n \/ Carried(n, t)
      PROVE  Carried(n, s)
  BY <1>1, <1>3 DEF Carried, k
<1>4. ASSUME Once(s)
      PROVE  Once(t)
  <2>1. ASSUME NEW i \in 1 .. Len(t), NEW j \in 1 .. Len(t), t[i].text # 0, t[i].text = t[j].text
        PROVE  i = j
    <3>1. i + 1 \in 1 .. k /\ j + 1 \in 1 .. k /\ t[i] = s[i + 1] /\ t[j] = s[j + 1]
      BY <1>1
    <3>2. i + 1 = j + 1
      BY <1>4, <2>1, <3>1 DEF Once, k
    <3> QED
      BY <1>1, <3>2
  <2> QED
    BY <2>1 DEF Once
<1>5. ASSUME Once(s), h.text # 0, Carried(h.text, t)
      PROVE  FALSE
  <2>1. PICK i \in 1 .. Len(t) : t[i].text = h.text
    BY <1>5 DEF Carried
  <2>2. i + 1 \in 1 .. k /\ 1 \in 1 .. k /\ s[i + 1].text = s[1].text
    BY <1>1, <2>1
  <2>3. i + 1 = 1
    BY <1>1, <1>5, <2>2 DEF Once, k
  <2> QED
    BY <1>1, <2>1, <2>3
<1> QED
  BY <1>2, <1>3, <1>4, <1>5 DEF t, h

\* A text on its way has been handled by nobody; the worker holds one that has
\* no task, unless it waits for the task; only a text nothing has come of has a
\* task still to be claimed or refused; and an answer is to a text.
Placed(n) ==
  /\ held.text = n \/ Carried(n, actions) =>
       /\ fate[n] = "sent" /\ drive[n] = "none" /\ hand.text # n
       /\ ~Occurs(Item(n), updates)
  /\ ~ (held.text = n /\ Carried(n, actions))
  /\ hand.text = n =>
       /\ fate[n] # "none" /\ ~Occurs(Item(n), updates)
       /\ worker # "waiting" => drive[n] = "none"
       /\ worker \notin {"waiting", "show"} => fate[n] = "sent"
  /\ drive[n] \in {"claim", "busy"} => fate[n] = "sent" /\ ~Occurs(Item(n), updates)
  /\ drive[n] \in {"start", "drive", "end"} => fate[n] = "answered"
  /\ drive[n] = "done" /\ fate[n] # "answered" => fate[n] = "sent" /\ Occurs(Item(n), updates)
  /\ Occurs(Item(n), updates) => fate[n] # "none"

\* It has not vanished.
Somewhere(n) ==
  fate[n] = "sent" =>
    \/ held.text = n \/ Carried(n, actions) \/ hand.text = n
    \/ drive[n] \in {"claim", "busy"} \/ Occurs(Item(n), updates)

AllPlaced == worker # "gone" => Once(actions) /\ \A n \in Texts : Placed(n)
AllSomewhere == worker # "gone" => \A n \in Texts : Somewhere(n)

\* What a step does to one text.
Follows(n) == Placed(n)' /\ (Somewhere(n) => Somewhere(n)')

\* Answers to two texts are two updates, and neither is a signal.
LEMMA ItemsDiffer ==
  /\ \A n, m : Item(n) = Item(m) => n = m
  /\ \A n : Item(n) # Raise /\ Item(n) # Clear
BY DEF Item, Raise, Clear

\* A worker that returned or was aborted does not come back.
LEMMA GoneStays ==
  ASSUME [Next]_vars, worker = "gone"
  PROVE  worker' = "gone"
BY DEF Next, vars, Enter, InterruptKey, Quit, Unblock, ApplyUpdate, Forward, ForwardSend, Discover,
  OpStep, Claim, Announce, AnnounceEnd, ShowBusy, Ends, Progress, WorkerStep, SideEnds, Open, Resumed,
  Receive, AbortLane, Echo, Steer, Compacted, QuitCommand, Show, ListFiles, Compact, Finished, task

\* The event loop passes on what is entered.
LEMMA PlacedOffered ==
  ASSUME Typed, Once(actions), worker # "gone", app = "loop",
         NEW a \in Requests, Offer(a), a.text # 0 => ~Carried(a.text, actions),
         NEW n \in Texts
  PROVE  /\ Once(actions')
         /\ (held'.text = n \/ Carried(n, actions')) <=> (Carried(n, actions) \/ a.text = n)
         /\ ~Carried(n, actions) => ~ (held'.text = n /\ Carried(n, actions'))
         /\ Carried(n, actions) => Carried(n, actions') /\ held'.text # n
<1>1. actions \in Seq(Requests) /\ held.text = 0 /\ n # 0
  BY Collections DEF Typed, Queues, Screen, NoAction
<1>2. \/ actions' = Append(actions, a) /\ held' = held
      \/ actions' = actions /\ held' = a
  BY DEF Offer
<1>3. CASE actions' = Append(actions, a) /\ held' = held
  BY <1>1, <1>3, CarriedPushed
<1>4. CASE actions' = actions /\ held' = a
  BY <1>1, <1>4
<1> QED
  BY <1>2, <1>3, <1>4

\* Entering, interrupting, retrying a send and showing an update keep every text
\* in its place or move it to one.
LEMMA PlacedScreen ==
  ASSUME Typed, AllPlaced, worker' # "gone", worker # "gone", NEW n \in Texts,
         \/ \E m \in Texts, k \in Kinds : Enter(m, k)
         \/ \E esc \in BOOLEAN : InterruptKey(esc)
         \/ \E ctrlD \in BOOLEAN : Quit(ctrlD)
         \/ Unblock \/ ApplyUpdate
  PROVE  Once(actions') /\ Follows(n)
<1>1. Placed(n) /\ Once(actions) /\ n # 0
  BY Collections DEF AllPlaced
<1>2. ASSUME NEW m \in Texts, NEW k \in Kinds, Enter(m, k)
      PROVE  Once(actions') /\ Follows(n)
  <2> DEFINE a == [kind |-> k, text |-> m]
  <2>1. a \in Requests /\ a.text = m /\ app = "loop" /\ Offer(a) /\ fate[m] = "none" /\ held.text = 0
    BY <1>2, Collections DEF Enter, Requests, Entered, Typed, Screen, NoAction
  <2>2. ~Carried(m, actions) /\ Placed(m)
    BY <2>1 DEF AllPlaced, Placed
  <2>3. /\ UNCHANGED <<hand, worker, drive, updates>> /\ fate' = [fate EXCEPT ![m] = "sent"]
        /\ fate \in [Texts -> Fates]
    BY <1>2 DEF Enter, task, op, Typed, Lane
  <2> HIDE DEF a
  <2>4. /\ Once(actions')
        /\ (held'.text = n \/ Carried(n, actions')) <=> (Carried(n, actions) \/ m = n)
        /\ ~Carried(n, actions) => ~ (held'.text = n /\ Carried(n, actions'))
        /\ Carried(n, actions) => Carried(n, actions') /\ held'.text # n
    BY <1>1, <2>1, <2>2, PlacedOffered
  <2>5. Placed(n)'
    <3>1. CASE m = n
      <4>1. fate'[n] = "sent" /\ drive[n] = "none" /\ hand.text # n /\ ~Occurs(Item(n), updates)
        <5>1. drive[n] \in Places
          BY <1>2, Collections DEF Typed, Lane
        <5> QED
          BY <1>1, <2>1, <2>3, <3>1, <5>1 DEF Placed, Places
      <4>2. ~Carried(n, actions)
        BY <2>2, <3>1
      <4> QED
        BY <2>3, <2>4, <4>1, <4>2 DEF Placed
    <3>2. CASE m # n
      <4>1. fate'[n] = fate[n]
        BY <2>3, <3>2
      <4> QED
        BY <1>1, <2>1, <2>3, <2>4, <3>2, <4>1 DEF Placed
    <3> QED
      BY <3>1, <3>2
  <2>6. Somewhere(n) => Somewhere(n)'
    BY <1>1, <2>1, <2>3, <2>4 DEF Somewhere
  <2> QED
    BY <2>4, <2>5, <2>6 DEF Follows
<1>3. ASSUME NEW esc \in BOOLEAN, InterruptKey(esc)
      PROVE  Once(actions') /\ Follows(n)
  <2>1. Interrupt \in Requests /\ Interrupt.text = 0 /\ app = "loop" /\ Offer(Interrupt) /\ held.text = 0
    BY <1>3, Collections DEF InterruptKey, Interrupt, Typed, Screen, NoAction
  <2>2. UNCHANGED <<hand, worker, drive, updates, fate>>
    BY <1>3 DEF InterruptKey, task, op
  <2>3. /\ Once(actions')
        /\ (held'.text = n \/ Carried(n, actions')) <=> Carried(n, actions)
        /\ ~Carried(n, actions) => ~ (held'.text = n /\ Carried(n, actions'))
        /\ Carried(n, actions) => Carried(n, actions') /\ held'.text # n
    BY <1>1, <2>1, PlacedOffered
  <2> QED
    BY <1>1, <2>1, <2>2, <2>3 DEF Follows, Placed, Somewhere
<1>4. ASSUME NEW ctrlD \in BOOLEAN, Quit(ctrlD)
      PROVE  FALSE
  BY <1>4 DEF Quit
<1>5. CASE Unblock
  <2>1. /\ actions \in Seq(Requests) /\ held \in Requests /\ actions' = Append(actions, held)
        /\ held'.text = 0 /\ UNCHANGED <<hand, worker, drive, updates, fate>>
    BY <1>5 DEF Unblock, Typed, Queues, Screen, NoAction, task, op
  <2>2. held.text # 0 => held.text \in Texts
    BY <2>1 DEF Requests, Entered, Interrupt
  <2>3. held.text # 0 => ~Carried(held.text, actions)
    BY <2>2 DEF AllPlaced, Placed
  <2>4. Once(actions') /\ (Carried(n, actions') <=> Carried(n, actions) \/ held.text = n)
    BY <1>1, <2>1, <2>3, CarriedPushed
  <2> QED
    BY <1>1, <2>1, <2>4 DEF Follows, Placed, Somewhere
<1>6. CASE ApplyUpdate
  <2> DEFINE u == Head(updates)
  <2>1. /\ updates \in Seq(Shown) /\ updates # <<>> /\ updates' = Tail(updates)
        /\ fate' = (IF u.text # 0 /\ fate[u.text] = "sent" THEN [fate EXCEPT ![u.text] = "answered"]
                    ELSE fate)
        /\ fate \in [Texts -> Fates]
        /\ UNCHANGED <<hand, worker, drive, actions, held>>
    BY <1>6 DEF ApplyUpdate, Typed, Queues, Lane, task, op
  <2>2. u \in Shown /\ (u.text # 0 => u = Item(u.text))
    BY <2>1, Popped, Collections
  <2> HIDE DEF u
  <2>3. Occurs(Item(n), updates) <=> u = Item(n) \/ Occurs(Item(n), updates')
    BY <2>1, OccursPopped DEF u
  <2>4. Item(n).text = n
    BY DEF Item
  <2>5. fate'[n] = IF u = Item(n) /\ fate[n] = "sent" THEN "answered" ELSE fate[n]
    BY <1>1, <2>1, <2>2, <2>4
  <2> QED
    BY <1>1, <2>1, <2>3, <2>5 DEF Follows, Placed, Somewhere
<1> QED
  BY <1>2, <1>3, <1>4, <1>5, <1>6

\* An update that answers no text.
LEMMA PlacedTold ==
  ASSUME Typed, NEW u \in Signals, NEW n \in Texts, updates' = Append(updates, u)
  PROVE  Occurs(Item(n), updates') <=> Occurs(Item(n), updates)
<1>1. updates \in Seq(Shown) /\ u \in Shown /\ n # 0
  BY Collections DEF Typed, Queues
<1>2. u # Item(n)
  BY <1>1, ItemsDiffer DEF Signals
<1> QED
  BY <1>1, <1>2, OccursPushed

\* So do events and the operations: a claim answers a text, a refusal is an answer.
LEMMA PlacedEvents ==
  ASSUME Typed, AllPlaced, worker # "gone", NEW n \in Texts,
         \/ Forward \/ ForwardSend \/ Discover
         \/ \E m \in Ops : OpStep(m) \/ Ends(m) \/ \E u \in {Raise, Clear, Item(0)} : Progress(m, u)
  PROVE  Once(actions') /\ Follows(n)
<1>1. Placed(n) /\ Once(actions) /\ n # 0 /\ n \in Ops
  BY Collections DEF AllPlaced
<1>2. fate \in [Texts -> Fates] /\ drive \in [Ops -> Places]
  BY DEF Typed, Lane
<1>3. UNCHANGED <<held, actions, hand, worker>>
  BY DEF Forward, ForwardSend, Discover, OpStep, Claim, Announce, AnnounceEnd, ShowBusy, Ends, Progress,
    screen, task
<1>4. CASE Forward \/ \E m \in Ops : \E u \in {Raise, Clear, Item(0)} : Progress(m, u)
  <2>1. UNCHANGED <<fate, drive, updates>>
    BY <1>4 DEF Forward, Progress, op
  <2> QED
    BY <1>1, <1>3, <2>1 DEF Follows, Placed, Somewhere
<1>5. CASE ForwardSend \/ Discover
  <2>1. PICK u \in Signals : updates' = Append(updates, u)
    <3>1. CASE ForwardSend
      BY <3>1, Popped DEF ForwardSend, Typed, Queues
    <3>2. CASE Discover
      BY <3>2 DEF Discover, Signals
    <3> QED
      BY <1>5, <3>1, <3>2
  <2>2. Occurs(Item(n), updates') <=> Occurs(Item(n), updates)
    BY <2>1, PlacedTold
  <2>3. UNCHANGED <<fate, drive>>
    BY <1>5 DEF ForwardSend, Discover, op
  <2> QED
    BY <1>1, <1>3, <2>2, <2>3 DEF Follows, Placed, Somewhere
<1>6. ASSUME NEW m \in Ops, Claim(m) \/ Announce(m) \/ AnnounceEnd(m) \/ Ends(m)
      PROVE  Once(actions') /\ Follows(n)
  <2>1. UNCHANGED updates
    BY <1>6 DEF Claim, Announce, AnnounceEnd, Ends
  <2>2. CASE m # n
    <3>1. drive'[n] = drive[n] /\ fate'[n] = fate[n]
      BY <1>1, <1>2, <1>6, <2>2 DEF Claim, Announce, AnnounceEnd, Ends, At
    <3> QED
      BY <1>1, <1>3, <2>1, <3>1 DEF Follows, Placed, Somewhere
  <2>3. CASE m = n
    <3>1. \/ drive[n] = "claim" /\ drive'[n] = "start" /\ fate'[n] = "answered"
          \/ drive[n] = "claim" /\ drive'[n] = "busy" /\ fate'[n] = fate[n]
          \/ drive[n] = "start" /\ drive'[n] = "drive" /\ fate'[n] = fate[n]
          \/ drive[n] = "drive" /\ drive'[n] = "end" /\ fate'[n] = fate[n]
          \/ drive[n] = "end" /\ drive'[n] = "done" /\ fate'[n] = fate[n]
      BY <1>1, <1>2, <1>6, <2>3 DEF Claim, Announce, AnnounceEnd, Ends, At
    <3>2. Once(actions')
      BY <1>1, <1>3
    <3>3. CASE drive[n] = "claim"
      BY <1>1, <1>3, <2>1, <3>1, <3>2, <3>3 DEF Follows, Placed, Somewhere
    <3>4. CASE drive[n] # "claim"
      BY <1>1, <1>3, <2>1, <3>1, <3>2, <3>4 DEF Follows, Placed, Somewhere
    <3> QED
      BY <3>3, <3>4
  <2> QED
    BY <2>2, <2>3
<1>7. ASSUME NEW m \in Ops, ShowBusy(m)
      PROVE  Once(actions') /\ Follows(n)
  <2>1. /\ updates \in Seq(Shown) /\ Item(m) \in Shown /\ updates' = Append(updates, Item(m))
        /\ drive[m] = "busy" /\ drive' = [drive EXCEPT ![m] = "done"] /\ fate' = fate /\ ~Inline(m)
    BY <1>7, Collections DEF ShowBusy, At, Typed, Queues
  <2>2. Occurs(Item(n), updates') <=> Occurs(Item(n), updates) \/ m = n
    BY <2>1, OccursPushed, ItemsDiffer
  <2>3. CASE m # n
    <3>1. drive'[n] = drive[n]
      BY <1>1, <1>2, <2>1, <2>3
    <3> QED
      BY <1>1, <1>3, <2>1, <2>2, <2>3, <3>1 DEF Follows, Placed, Somewhere
  <2>4. CASE m = n
    <3>1. drive'[n] = "done" /\ drive[n] = "busy"
      BY <1>1, <1>2, <2>1, <2>4
    <3>2. fate[n] = "sent" /\ hand.text # n /\ ~Carried(n, actions) /\ held.text # n
      BY <1>1, <2>1, <2>4, <3>1 DEF Placed, Inline
    <3> QED
      BY <1>1, <1>3, <2>1, <2>2, <2>4, <3>1, <3>2 DEF Follows, Placed, Somewhere
  <2> QED
    BY <2>3, <2>4
<1> QED
  BY <1>4, <1>5, <1>6, <1>7 DEF OpStep

\* The worker passes a text on, answers it or says what became of it.
LEMMA PlacedWorker ==
  ASSUME Typed, AllPlaced, worker # "gone", worker' # "gone", NEW n \in Texts,
         WorkerStep \/ SideEnds, ~QuitCommand
  PROVE  Once(actions') /\ Follows(n)
<1>1. Placed(n) /\ Once(actions) /\ n # 0 /\ n \in Ops
  BY Collections DEF AllPlaced
<1>2. fate \in [Texts -> Fates] /\ drive \in [Ops -> Places] /\ drive[n] \in Places
  BY <1>1 DEF Typed, Lane
<1>3. UNCHANGED held
  BY DEF WorkerStep, SideEnds, Open, Resumed, Receive, AbortLane, Echo, Steer, Compacted, QuitCommand,
    Show, ListFiles, Compact, Finished, screen
<1>4. CASE (\E ok \in BOOLEAN : Open(ok)) \/ Resumed \/ ListFiles \/ Echo
  <2>1. UNCHANGED <<actions, fate, hand>> /\ drive'[n] = drive[n]
    BY <1>1, <1>2, <1>4 DEF Open, Resumed, ListFiles, Echo, At, task, op
  <2>2. Occurs(Item(n), updates') <=> Occurs(Item(n), updates)
    <3>1. updates' = updates \/ (Item(0) \in Signals /\ updates' = Append(updates, Item(0)))
      BY <1>4 DEF Open, Resumed, ListFiles, Echo, Signals
    <3> QED
      BY <3>1, PlacedTold
  <2>3. hand.text = n => Echo
    BY <1>1, <1>4 DEF Open, Resumed, ListFiles, Typed, Worker, Serving
  <2>4. hand.text = n => fate[n] = "sent" /\ drive[n] = "none"
    <3>1. ASSUME hand.text = n
          PROVE  worker = "echo"
      BY <2>3, <3>1 DEF Echo
    <3> QED
      BY <1>1, <3>1 DEF Placed
  <2> QED
    BY <1>1, <1>3, <2>1, <2>2, <2>4 DEF Follows, Placed, Somewhere
<1>5. CASE Receive
  <2>1. /\ actions \in Seq(Requests) /\ actions # <<>> /\ actions' = Tail(actions) /\ hand' = Head(actions)
        /\ UNCHANGED <<fate, drive, updates>> /\ hand.text = 0 /\ worker' \in {"abort", "echo"}
    BY <1>5 DEF Receive, Typed, Queues, Worker, Serving, op
  <2>2. /\ Once(actions') /\ (Carried(n, actions) <=> hand'.text = n \/ Carried(n, actions'))
        /\ hand'.text = n => ~Carried(n, actions')
    BY <1>1, <2>1, CarriedPopped
  <2> QED
    BY <1>1, <1>3, <2>1, <2>2 DEF Follows, Placed, Somewhere
<1>6. CASE AbortLane
  <2>1. hand.text = 0 /\ hand'.text = 0 /\ UNCHANGED <<fate, drive, updates, actions>>
    BY <1>6 DEF AbortLane, Typed, Worker, Serving, NoAction
  <2> QED
    BY <1>1, <1>3, <2>1 DEF Follows, Placed, Somewhere
<1>7. CASE Steer
  <2>1. worker = "steer" /\ hand.text \in Texts /\ UNCHANGED <<actions, updates>>
    BY <1>7 DEF Steer, Typed, Worker, Serving, Entered
  <2>2. CASE hand.text # n
    <3>1. fate'[n] = fate[n] /\ drive'[n] = drive[n] /\ hand'.text # n
      BY <1>1, <1>2, <1>7, <2>1, <2>2 DEF Steer, At, NoAction
    <3> QED
      BY <1>1, <1>3, <2>1, <2>2, <3>1 DEF Follows, Placed, Somewhere
  <2>3. CASE hand.text = n
    <3>1. fate[n] = "sent" /\ drive[n] = "none" /\ ~Occurs(Item(n), updates)
      BY <1>1, <2>1, <2>3 DEF Placed
    <3>2. \/ drive'[n] = "claim" /\ fate'[n] = "sent" /\ hand'.text = 0
          \/ drive'[n] = "none" /\ fate'[n] = "answered" /\ hand'.text = 0
          \/ drive'[n] = "none" /\ fate'[n] = "sent" /\ hand' = hand /\ worker' = "show"
      BY <1>1, <1>2, <1>7, <2>3, <3>1 DEF Steer, At, NoAction
    <3> QED
      BY <1>1, <1>3, <2>1, <2>3, <3>1, <3>2 DEF Follows, Placed, Somewhere
  <2> QED
    BY <2>2, <2>3
<1>8. CASE SideEnds
  <2>1. worker = "side" /\ worker' = "show" /\ hand.text \in Texts /\ UNCHANGED <<actions, updates, hand, drive>>
        /\ fate' = [fate EXCEPT ![hand.text] = "answered"]
    BY <1>8 DEF SideEnds, Typed, Worker, Serving, Entered, op
  <2>2. fate'[n] = IF hand.text = n THEN "answered" ELSE fate[n]
    BY <1>2, <2>1
  <2> QED
    BY <1>1, <1>2, <1>3, <2>1, <2>2 DEF Follows, Placed, Somewhere
<1>9. CASE (\E some \in BOOLEAN : Compact(some)) \/ Compacted
  <2>1. /\ hand.text \in Texts /\ UNCHANGED <<actions, updates, hand, fate>>
        /\ \/ /\ worker = "compact" /\ drive[hand.text] = "none" /\ worker' = "waiting"
              /\ drive' = [drive EXCEPT ![hand.text] = "claim"]
           \/ worker = "compact" /\ drive[hand.text] = "none" /\ worker' = "show" /\ drive' = drive
           \/ /\ worker = "waiting" /\ drive[hand.text] \in {"done", "busy"} /\ worker' = "show"
              /\ drive' = [drive EXCEPT ![hand.text] = "none"]
    BY <1>9 DEF Compact, Compacted, At, Typed, Worker, Serving, Entered
  <2>2. CASE hand.text # n
    <3>1. drive'[n] = drive[n]
      BY <1>1, <1>2, <2>1, <2>2
    <3> QED
      BY <1>1, <1>3, <2>1, <2>2, <3>1 DEF Follows, Placed, Somewhere
  <2>3. CASE hand.text = n
    <3>1. \/ worker = "compact" /\ drive[n] = "none" /\ worker' = "waiting" /\ drive'[n] = "claim"
          \/ worker = "compact" /\ drive[n] = "none" /\ worker' = "show" /\ drive'[n] = "none"
          \/ worker = "waiting" /\ drive[n] \in {"done", "busy"} /\ worker' = "show" /\ drive'[n] = "none"
      BY <1>1, <1>2, <2>1, <2>3
    <3> QED
      BY <1>1, <1>3, <2>1, <2>3, <3>1 DEF Follows, Placed, Somewhere
  <2> QED
    BY <2>2, <2>3
<1>10. CASE Show
  <2>1. /\ worker = "show" /\ hand.text \in Texts /\ updates \in Seq(Shown) /\ Item(hand.text) \in Shown
        /\ updates' = Append(updates, Item(hand.text)) /\ hand'.text = 0
        /\ UNCHANGED <<actions, fate, drive>>
    BY <1>10, Collections DEF Show, Typed, Worker, Queues, Serving, Entered, NoAction, op
  <2>2. Occurs(Item(n), updates') <=> Occurs(Item(n), updates) \/ hand.text = n
    BY <2>1, OccursPushed, ItemsDiffer
  <2>3. hand.text = n => drive[n] = "none" /\ fate[n] # "none" /\ ~Carried(n, actions) /\ held.text # n
    BY <1>1, <2>1 DEF Placed
  <2> QED
    BY <1>1, <1>3, <2>1, <2>2, <2>3 DEF Follows, Placed, Somewhere
<1>11. ASSUME NEW m \in Texts, Finished(m)
       PROVE  Once(actions') /\ Follows(n)
  <2>1. /\ hand.text = 0 /\ drive[m] = "done" /\ drive' = [drive EXCEPT ![m] = "none"]
        /\ UNCHANGED <<actions, updates, fate, hand>>
    BY <1>11 DEF Finished, At, Typed, Worker, Serving
  <2>2. \/ m = n /\ drive[n] = "done" /\ drive'[n] = "none"
        \/ m # n /\ drive'[n] = drive[n]
    BY <1>1, <1>2, <2>1
  <2> QED
    BY <1>1, <1>3, <2>1, <2>2 DEF Follows, Placed, Somewhere
<1> QED
  BY <1>4, <1>5, <1>6, <1>7, <1>8, <1>9, <1>10, <1>11 DEF WorkerStep

\* A /quit that is dropped was in one place.
LEMMA PlacedQuit ==
  ASSUME Typed, AllPlaced, QuitCommand, NEW n \in Texts
  PROVE  Once(actions') /\ Placed(n)'
<1>1. Placed(n) /\ Once(actions) /\ n # 0
  BY Collections DEF AllPlaced, QuitCommand
<1>2. hand'.text = 0 /\ UNCHANGED <<held, actions, updates, fate, drive>>
  BY DEF QuitCommand, NoAction, screen, op
<1> QED
  BY <1>1, <1>2 DEF Placed

\* At launch nothing was entered.
LEMMA PlacedInit ==
  ASSUME Init
  PROVE  AllPlaced /\ AllSomewhere
<1>1. held.text = 0 /\ hand.text = 0 /\ actions = <<>> /\ updates = <<Item(0)>>
  BY DEF Init, NoAction
<1>2. Once(actions) /\ \A n : ~Carried(n, actions)
  BY <1>1 DEF Once, Carried
<1>3. ASSUME NEW n \in Texts
      PROVE  Placed(n) /\ Somewhere(n)
  <2>1. n # 0 /\ n \in Ops
    BY Collections
  <2>2. fate[n] = "none" /\ drive[n] = "none"
    BY <2>1 DEF Init
  <2>3. ~Occurs(Item(n), updates)
    BY <1>1, <2>1, ItemsDiffer DEF Occurs
  <2> QED
    BY <1>1, <1>2, <2>1, <2>2, <2>3 DEF Placed, Somewhere
<1> QED
  BY <1>2, <1>3 DEF AllPlaced, AllSomewhere

\* A step leaves every text where it may be ...
LEMMA PlacedStep ==
  ASSUME Typed, AllPlaced, [Next]_vars, worker' # "gone", NEW n \in Texts
  PROVE  Once(actions') /\ Placed(n)' /\ (~QuitCommand \/ UNCHANGED vars => (Somewhere(n) => Somewhere(n)'))
<1>1. worker # "gone"
  BY GoneStays
<1>2. CASE UNCHANGED vars
  <2>1. UNCHANGED <<held, actions, updates, fate, drive, hand, worker>>
    BY <1>2 DEF vars, screen, task, op
  <2> QED
    BY <1>1, <2>1 DEF AllPlaced, Placed, Somewhere
<1>3. CASE Next /\ QuitCommand /\ ~UNCHANGED vars
  BY <1>3, PlacedQuit
<1>4. CASE Next /\ ~QuitCommand
  BY <1>1, <1>4, PlacedScreen, PlacedEvents, PlacedWorker DEF Next, Follows
<1> QED
  BY <1>2, <1>3, <1>4

\* So every text stays in at most one place.
LEMMA PlacedNext ==
  ASSUME Typed, AllPlaced, [Next]_vars
  PROVE  AllPlaced'
<1>1. ASSUME worker' # "gone", NEW n \in Texts
      PROVE  Placed(n)'
  BY <1>1, PlacedStep
<1>2. ASSUME worker' # "gone"
      PROVE  Once(actions')
  <2>1. CASE Texts = {}
    <3>1. \A s \in Requests : s.text = 0
      BY <2>1 DEF Requests, Entered, Interrupt
    <3>2. actions' \in Seq(Requests)
      BY TypedNext DEF Typed, Queues
    <3> QED
      BY <3>1, <3>2 DEF Once
  <2>2. CASE Texts # {}
    BY <1>2, <2>2, PlacedStep
  <2> QED
    BY <2>1, <2>2
<1> QED
  BY <1>1, <1>2 DEF AllPlaced

\* ... and loses none, unless it is the one that drops a /quit.
LEMMA SomewhereNext ==
  ASSUME Typed, AllPlaced, AllSomewhere, [Next]_vars, ~QuitCommand \/ UNCHANGED vars
  PROVE  AllSomewhere'
<1>1. ASSUME worker' # "gone", NEW n \in Texts
      PROVE  Somewhere(n)'
  BY <1>1, PlacedStep, GoneStays DEF AllSomewhere
<1> QED
  BY <1>1 DEF AllSomewhere

\* A text in one of these places is in no other.
LEMMA OnePlace ==
  ASSUME Typed, AllPlaced, AllSomewhere
  PROVE  TextAccounted
<1>1. ASSUME NEW n \in Texts, fate[n] = "sent", worker # "gone"
      PROVE  LET places == {"held", "queue", "hand", "task", "answer"}
                 in(place) ==
                   CASE place = "held" -> held.text = n
                     [] place = "queue" -> \E i \in 1 .. Len(actions) : actions[i].text = n
                     [] place = "hand" -> hand.text = n /\ drive[n] = "none"
                     [] place = "task" -> drive[n] \in {"claim", "busy"}
                     [] place = "answer" -> Occurs(Item(n), updates)
             IN  \E place \in places : in(place) /\ \A other \in places \ {place} : ~in(other)
  <2> DEFINE in(place) ==
               CASE place = "held" -> held.text = n
                 [] place = "queue" -> \E i \in 1 .. Len(actions) : actions[i].text = n
                 [] place = "hand" -> hand.text = n /\ drive[n] = "none"
                 [] place = "task" -> drive[n] \in {"claim", "busy"}
                 [] place = "answer" -> Occurs(Item(n), updates)
  <2>1. /\ in("held") <=> held.text = n
        /\ in("queue") <=> Carried(n, actions)
        /\ in("hand") <=> hand.text = n /\ drive[n] = "none"
        /\ in("task") <=> drive[n] \in {"claim", "busy"}
        /\ in("answer") <=> Occurs(Item(n), updates)
    BY DEF Carried
  <2> HIDE DEF in
  <2>2. Placed(n) /\ Somewhere(n) /\ n \in Ops /\ drive[n] \in Places
    BY <1>1, Collections DEF AllPlaced, AllSomewhere, Typed, Lane
  <2>3. \E place \in {"held", "queue", "hand", "task", "answer"} :
          in(place) /\ \A other \in {"held", "queue", "hand", "task", "answer"} \ {place} : ~in(other)
    <3>1. CASE held.text = n
      BY <1>1, <2>1, <2>2, <3>1 DEF Placed
    <3>2. CASE Carried(n, actions)
      BY <1>1, <2>1, <2>2, <3>2 DEF Placed
    <3>3. CASE hand.text = n
      <4>1. drive[n] \in {"none", "claim", "busy"}
        BY <1>1, <2>2, <3>3 DEF Placed, Places
      <4> QED
        BY <1>1, <2>1, <2>2, <3>3, <4>1 DEF Placed
    <3>4. CASE drive[n] \in {"claim", "busy"}
      BY <1>1, <2>1, <2>2, <3>4 DEF Placed
    <3>5. CASE Occurs(Item(n), updates)
      BY <1>1, <2>1, <2>2, <3>5 DEF Placed
    <3> QED
      BY <1>1, <2>2, <3>1, <3>2, <3>3, <3>4, <3>5 DEF Somewhere
  <2> QED
    BY <2>3 DEF in
<1> QED
  BY <1>1, TypedOK DEF TextAccounted

(***************************************************************************)
(* The indicator, step by step.                                            *)
(***************************************************************************)
LEMMA SettlesShort ==
  ASSUME NEW u \in Shown, NEW down \in BOOLEAN
  PROVE  /\ Settles(<<>>, down) <=> down
         /\ Settles(<<u>>, down) <=> Applied(u, down)
         /\ Settles(<<Clear, Item(0)>>, down)
<1>1. Settles(<<>>, down) <=> down
  BY DEF Settles, Cleared, Still
<1>2. Still(<<u>>) <=> u.show = "item"
  BY DEF Still
<1>3. Cleared(<<u>>) <=> u.show = "down"
  <2>1. ASSUME u.show = "down"
        PROVE  1 \in 1 .. Len(<<u>>) /\ <<u>>[1].show = "down" /\ \A j \in 1 + 1 .. Len(<<u>>) : <<u>>[j].show # "up"
    BY <2>1
  <2> QED
    BY <2>1 DEF Cleared
<1>4. Cleared(<<Clear, Item(0)>>)
  <2> DEFINE s == <<Clear, Item(0)>>
  <2>1. Len(s) = 2 /\ s[1].show = "down" /\ s[2].show = "item"
    BY DEF Clear, Item
  <2> HIDE DEF s
  <2>2. 1 \in 1 .. Len(s) /\ \A j \in 1 + 1 .. Len(s) : s[j].show # "up"
    BY <2>1
  <2>3. Cleared(s)
    BY <2>1, <2>2 DEF Cleared
  <2> QED
    BY <2>3 DEF s
<1> QED
  BY <1>1, <1>2, <1>3, <1>4 DEF Settles, Applied

\* What settles does so the more if what is before it did.
LEMMA SettlesMore ==
  ASSUME NEW s, NEW down \in BOOLEAN, NEW lower \in BOOLEAN, down => lower, Settles(s, down)
  PROVE  Settles(s, lower)
BY DEF Settles

\* Which operations are announced changes only with an announcement, a claim or an end.
LEMMA AnnouncedStays ==
  ASSUME Typed, AllPlaced, Next,
         \A n \in Ops : ~Claim(n) /\ ~Announce(n) /\ ~Ends(n) /\ ~AnnounceEnd(n)
  PROVE  Announced' <=> Announced
<1> DEFINE Active == {"start", "drive", "end"}
<1>1. drive \in [Ops -> Places] /\ Texts \subseteq Ops /\ 0 \in Ops
  BY Collections DEF Typed, Lane
<1>2. \/ drive' = drive
      \/ \E n \in Ops, p \in Places :
           drive[n] \notin Active /\ p \notin Active /\ drive' = [drive EXCEPT ![n] = p]
  <2>1. CASE Steer
    <3>1. worker = "steer" /\ hand.text \in Texts
      BY <2>1 DEF Steer, Typed, Worker, Serving, Entered
    <3>2. drive[hand.text] = "none"
      BY <3>1 DEF AllPlaced, Placed
    <3>3. drive' = drive \/ drive' = [drive EXCEPT ![hand.text] = "claim"]
      BY <2>1 DEF Steer, At
    <3> QED
      BY <1>1, <3>1, <3>2, <3>3 DEF Places
  <2>2. CASE Compacted \/ \E some \in BOOLEAN : Compact(some)
    <3>1. hand.text \in Texts
      BY <2>2 DEF Compacted, Compact, Typed, Worker, Serving, Entered
    <3>2. \/ drive' = drive
          \/ drive[hand.text] = "none" /\ drive' = [drive EXCEPT ![hand.text] = "claim"]
          \/ drive[hand.text] \in {"done", "busy"} /\ drive' = [drive EXCEPT ![hand.text] = "none"]
      BY <2>2 DEF Compacted, Compact, At
    <3> QED
      BY <1>1, <3>1, <3>2 DEF Places
  <2>3. CASE Resumed
    <3>1. drive' = drive \/ (drive[0] = "done" /\ drive' = [drive EXCEPT ![0] = "none"])
      BY <2>3 DEF Resumed, At
    <3> QED
      BY <1>1, <3>1 DEF Places
  <2>4. ASSUME NEW n \in Texts, Finished(n)
        PROVE  drive[n] = "done" /\ drive' = [drive EXCEPT ![n] = "none"]
    BY <2>4 DEF Finished, At
  <2>5. ASSUME NEW n \in Ops, ShowBusy(n)
        PROVE  drive[n] = "busy" /\ drive' = [drive EXCEPT ![n] = "done"]
    BY <2>5 DEF ShowBusy, At
  <2>6. \/ drive' = drive \/ Steer \/ Compacted \/ (\E some \in BOOLEAN : Compact(some)) \/ Resumed
        \/ (\E n \in Texts : Finished(n)) \/ \E n \in Ops : ShowBusy(n)
    BY DEF Next, Enter, InterruptKey, Quit, Unblock, ApplyUpdate, Forward, ForwardSend, Discover, OpStep,
      Progress, WorkerStep, SideEnds, Open, Receive, AbortLane, Echo, QuitCommand, Show, ListFiles, op
  <2> QED
    BY <1>1, <2>1, <2>2, <2>3, <2>4, <2>5, <2>6 DEF Places
<1>3. ASSUME NEW n \in Ops, NEW p \in Places, drive[n] \notin Active, p \notin Active,
             drive' = [drive EXCEPT ![n] = p]
      PROVE  Announced' <=> Announced
  <2>1. \A m \in Ops : drive'[m] \in Active <=> drive[m] \in Active
    BY <1>1, <1>3
  <2> QED
    BY <2>1 DEF Announced
<1>4. drive' = drive => (Announced' <=> Announced)
  BY DEF Announced
<1> QED
  BY <1>2, <1>3, <1>4

\* The event that ends an operation settles what was announced before it.
LEMMA SettlesEnd ==
  ASSUME NEW s \in Seq(Shown), Len(s) > 0, s[Len(s)] = Clear, NEW down
  PROVE  Settles(s, down)
<1> DEFINE k == Len(s)
<1>1. k \in Nat /\ k \in 1 .. Len(s) /\ s[k].show = "down"
  BY DEF Clear
<1>2. \A j \in k + 1 .. Len(s) : s[j].show # "up"
  BY <1>1
<1> QED
  BY <1>1, <1>2 DEF Settles, Cleared

\* A note among the updates settles nothing and unsettles nothing.
LEMMA SettlesNote ==
  ASSUME Typed, NEW n \in Ops, updates' = Append(updates, Item(n)), Settling,
         UNCHANGED <<events, forward, working>>
  PROVE  Settling'
<1>1. updates \in Seq(Shown) /\ Item(n) \in Shown /\ Item(n).show = "item" /\ (~working) \in BOOLEAN
  BY Collections DEF Typed, Queues, Screen, Item
<1>2. Settles(updates', ~working) <=> Settles(updates, ~working)
  BY <1>1, SettlesPushed
<1>3. Settles(updates, ~working) => Settles(updates', ~working')
  BY <1>2
<1>4. Settles(forward, Settles(updates, ~working)) => Settles(forward, Settles(updates', ~working'))
  BY <1>3 DEF Settles
<1> QED
  BY <1>4 DEF Settling, Settles

\* Forwarding and showing an event leave what is to come as it is.
LEMMA SettlesMoved ==
  ASSUME Typed, Settling, Forward \/ ForwardSend \/ ApplyUpdate
  PROVE  Settling'
<1>1. /\ updates \in Seq(Shown) /\ events \in Seq(Signals) /\ forward \in Seq(Signals)
      /\ events \in Seq(Shown) /\ forward \in Seq(Shown) /\ working \in BOOLEAN
  BY Collections DEF Typed, Queues, Screen
<1> DEFINE Below == Settles(updates, ~working)
<1>2. Below \in BOOLEAN /\ (~working) \in BOOLEAN /\ Settles(forward, Below) \in BOOLEAN
  BY DEF Settles, Cleared, Still
<1>3. Settles(events, Settles(forward, Below))
  BY DEF Settling
<1> HIDE DEF Below
<1>4. CASE Forward
  <2> DEFINE u == Head(events)
  <2>1. /\ forward = <<>> /\ events # <<>> /\ events' = Tail(events) /\ UNCHANGED <<updates, working>>
        /\ forward' = <<u>> \/ (u = Clear /\ forward' = <<Clear, Item(0)>>)
    BY <1>4 DEF Forward, screen
  <2>2. u \in Shown
    BY <1>1, <2>1, Popped
  <2> HIDE DEF u
  <2>3. Settles(forward, Below) <=> Below
    BY <1>2, <2>1, <2>2, SettlesShort
  <2>4. Settles(events, Below)
    BY <1>3, <2>3 DEF Settles
  <2>5. Settles(events', Applied(u, Below))
    BY <1>1, <1>2, <2>1, <2>4, SettlesPopped DEF u
  <2>6. Applied(u, Below) => Settles(forward', Below)
    BY <1>2, <2>1, <2>2, SettlesShort
  <2>7. Settles(events', Settles(forward', Below))
    BY <2>5, <2>6 DEF Settles
  <2> QED
    BY <2>1, <2>7 DEF Settling, Below
<1>5. CASE ForwardSend
  <2> DEFINE u == Head(forward)
  <2>1. /\ forward # <<>> /\ forward' = Tail(forward) /\ updates' = Append(updates, u)
        /\ UNCHANGED <<events, working>>
    BY <1>5 DEF ForwardSend, screen
  <2>2. u \in Shown
    BY <1>1, <2>1, Popped
  <2>3. Settles(forward, Below) => Settles(forward', Applied(u, Below))
    BY <1>1, <1>2, <2>1, SettlesPopped
  <2> HIDE DEF u
  <2>4. Applied(u, Below) => Settles(updates', ~working')
    <3>1. CASE u.show = "item"
      BY <1>1, <1>2, <2>1, <2>2, <3>1, SettlesPushed DEF Applied, Below
    <3>2. CASE u.show = "down"
      BY <1>1, <1>2, <2>1, <2>2, <3>2, SettlesPushed
    <3> QED
      BY <3>1, <3>2 DEF Applied
  <2>5. Settles(forward, Below) => Settles(forward', Settles(updates', ~working'))
    BY <2>3, <2>4 DEF Settles
  <2>6. Settles(events, Settles(forward', Settles(updates', ~working')))
    BY <1>3, <2>5 DEF Settles
  <2> QED
    BY <2>1, <2>6 DEF Settling
<1>6. CASE ApplyUpdate
  <2> DEFINE u == Head(updates)
  <2>1. /\ updates # <<>> /\ updates' = Tail(updates) /\ UNCHANGED <<events, forward>>
        /\ working' = IF u.show = "up" THEN TRUE ELSE IF u.show = "down" THEN FALSE ELSE working
    BY <1>6 DEF ApplyUpdate
  <2>2. u \in Shown
    BY <1>1, <2>1, Popped
  <2>3. Below => Settles(updates', Applied(u, ~working))
    BY <1>1, <1>2, <2>1, SettlesPopped DEF Below
  <2> HIDE DEF u
  <2>4. Applied(u, ~working) => ~working'
    BY <2>1, <2>2, StillShown DEF Applied
  <2>5. Below => Settles(updates', ~working')
    BY <2>3, <2>4 DEF Settles
  <2>6. Settles(forward, Below) => Settles(forward, Settles(updates', ~working'))
    BY <2>5 DEF Settles
  <2>7. Settles(events, Settles(forward, Settles(updates', ~working')))
    BY <1>3, <2>6 DEF Settles
  <2> QED
    BY <2>1, <2>7 DEF Settling
<1> QED
  BY <1>4, <1>5, <1>6

\* Nothing unsettles the indicator but an operation that will announce its end.
LEMMA QuietNext ==
  ASSUME Typed, AllPlaced, Quiet, [Next]_vars
  PROVE  Quiet'
<1>1. SUFFICES ASSUME ~Announced'
               PROVE  Settling'
  BY DEF Quiet
<1>2. drive \in [Ops -> Places]
  BY DEF Typed, Lane
<1>3. CASE UNCHANGED vars
  <2>1. UNCHANGED <<drive, events, forward, updates, working>>
    BY <1>3 DEF vars, screen, op
  <2>2. ~Announced
    BY <1>1, <2>1 DEF Announced
  <2> QED
    BY <2>1, <2>2 DEF Quiet, Settling
<1>4. ASSUME NEW n \in Ops, Announce(n) \/ Ends(n) \/ \E u \in {Raise, Clear, Item(0)} : Progress(n, u)
      PROVE  FALSE
  <2>1. drive'[n] \in {"drive", "end"}
    BY <1>2, <1>4 DEF Announce, Ends, Progress, At, op
  <2> QED
    BY <1>1, <2>1 DEF Announced
<1>5. ASSUME NEW n \in Ops, Claim(n)
      PROVE  Settling'
  <2>1. UNCHANGED <<events, forward, updates, working>>
    BY <1>5 DEF Claim, screen
  <2>2. drive[n] = "claim" /\ drive'[n] \in {"start", "busy"} /\ \A m \in Ops \ {n} : drive'[m] = drive[m]
    BY <1>2, <1>5 DEF Claim, At
  <2>3. ~Announced
    BY <1>1, <2>2 DEF Announced
  <2> QED
    BY <2>1, <2>3 DEF Quiet, Settling
<1>6. ASSUME NEW n \in Ops, AnnounceEnd(n)
      PROVE  Settling'
  <2>1. events' \in Seq(Signals) /\ Len(events') > 0 /\ events'[Len(events')] = Clear
    BY <1>6, Emitted DEF AnnounceEnd, Signals
  <2>2. events' \in Seq(Shown)
    BY <2>1, Collections
  <2>3. \A down : Settles(events', down)
    BY <2>1, <2>2, SettlesEnd
  <2> QED
    BY <2>3 DEF Settling
<1>7. CASE Next /\ \A n \in Ops : ~Claim(n) /\ ~Announce(n) /\ ~Ends(n) /\ ~AnnounceEnd(n)
               /\ \A u \in {Raise, Clear, Item(0)} : ~Progress(n, u)
  <2>1. Settling
    BY <1>1, <1>7, AnnouncedStays DEF Quiet
  <2>2. CASE Forward \/ ForwardSend \/ ApplyUpdate
    BY <2>1, <2>2, SettlesMoved
  <2>3. CASE ~ (Forward \/ ForwardSend \/ ApplyUpdate)
    <3>1. UNCHANGED <<events, forward, working>>
      BY <1>7, <2>3 DEF Next, Enter, InterruptKey, Quit, Unblock, Discover, OpStep, ShowBusy, WorkerStep,
        SideEnds, Open, Resumed, Receive, AbortLane, Echo, Steer, Compacted, QuitCommand, Show, ListFiles,
        Compact, Finished, screen
    <3>2. hand.text \in Ops /\ 0 \in Ops
      BY Collections DEF Typed, Worker, Action
    <3>3. updates' = updates \/ \E n \in Ops : updates' = Append(updates, Item(n))
      BY <1>7, <2>3, <3>2 DEF Next, Enter, InterruptKey, Quit, Unblock, Discover, OpStep, ShowBusy,
        WorkerStep, SideEnds, Open, Resumed, Receive, AbortLane, Echo, Steer, Compacted, QuitCommand, Show,
        ListFiles, Compact, Finished
    <3>4. updates' = updates => Settling'
      BY <2>1, <3>1 DEF Settling
    <3> QED
      BY <2>1, <3>1, <3>3, <3>4, SettlesNote
  <2> QED
    BY <2>2, <2>3
<1> QED
  BY <1>3, <1>4, <1>5, <1>6, <1>7

\* At launch it is down.
LEMMA QuietInit ==
  ASSUME Init
  PROVE  Quiet
<1>1. updates = <<Item(0)>> /\ events = <<>> /\ forward = <<>> /\ working = FALSE
  BY DEF Init
<1>2. Item(0) \in Shown /\ Item(0).show = "item"
  BY Collections DEF Item
<1>3. Settles(updates, ~working)
  BY <1>1, <1>2, SettlesShort DEF Applied
<1>4. Settles(forward, TRUE) /\ Settles(events, TRUE)
  BY <1>1, <1>2, SettlesShort
<1>5. Settling
  BY <1>3, <1>4 DEF Settling, Settles
<1> QED
  BY <1>5 DEF Quiet

\* Settled, with nothing on its way, is down.
LEMMA QuietClears ==
  ASSUME Typed, Quiet
  PROVE  IndicatorClears
<1>1. SUFFICES ASSUME \A n \in Ops : drive[n] \notin {"start", "drive", "end"},
                      events = <<>>, forward = <<>>, ~Occurs(Raise, updates), ~Occurs(Clear, updates)
               PROVE  ~working
  BY DEF IndicatorClears
<1>2. Settling /\ working \in BOOLEAN /\ updates \in Seq(Shown) /\ Raise \in Shown
  BY <1>1 DEF Quiet, Announced, Typed, Queues, Screen, Shown
<1>3. Settles(updates, ~working)
  <2>1. Settles(updates, ~working) \in BOOLEAN
    BY DEF Settles, Cleared, Still
  <2>2. Settles(forward, Settles(updates, ~working)) \in BOOLEAN
    BY DEF Settles, Cleared, Still
  <2> QED
    BY <1>1, <1>2, <2>1, <2>2, SettlesShort DEF Settling
<1>4. ~Cleared(updates)
  <2>1. ASSUME NEW i \in 1 .. Len(updates), updates[i].show = "down"
        PROVE  FALSE
    <3>1. updates[i] \in Shown
      BY <1>2
    <3>2. updates[i] = Clear
      BY <2>1, <3>1 DEF Shown, Raise, Clear, Item
    <3> QED
      BY <1>1, <3>2 DEF Occurs
  <2> QED
    BY <2>1 DEF Cleared
<1> QED
  BY <1>3, <1>4 DEF Settles

(***************************************************************************)
(* The theorems.                                                           *)
(***************************************************************************)
\* No error path of the worker and no full queue loses a text, puts it in two
\* places or has it handled twice, as long as no /quit is dropped: dispatch()
\* has nothing to show for that one (session.rs).
THEOREM NothingElseIsLost == Spec /\ [][~QuitCommand]_vars => []TextAccounted
<1> DEFINE Inv == Typed /\ AllPlaced /\ AllSomewhere
<1>1. Init => Inv
  BY TypedInit, PlacedInit
<1>2. Inv /\ [Next]_vars /\ [~QuitCommand]_vars => Inv'
  BY TypedNext, PlacedNext, SomewhereNext
<1>3. Inv => TextAccounted
  BY OnePlace
<1> HIDE DEF Inv
<1> QED
  BY <1>1, <1>2, <1>3, PTL DEF Spec

NoQuit == "quit" \notin Kinds

\* So none is lost where no text is a /quit, as in the run that checks it.
THEOREM TextsAccounted == NoQuit => (Spec => []TextAccounted)
<1> DEFINE Inv == Typed /\ AllPlaced /\ AllSomewhere
<1> SUFFICES ASSUME NoQuit
             PROVE  Spec => []TextAccounted
  OBVIOUS
<1>1. Init => Inv
  BY TypedInit, PlacedInit
<1>2. Inv /\ [Next]_vars => Inv'
  <2>1. Typed => ~QuitCommand
    BY DEF NoQuit, QuitCommand, Typed, Worker, Serving, Entered
  <2> QED
    BY <2>1, TypedNext, PlacedNext, SomewhereNext
<1>3. Inv => TextAccounted
  BY OnePlace
<1> HIDE DEF Inv
<1> QED
  BY <1>1, <1>2, <1>3, PTL DEF Spec

\* However many events the broadcast channel dropped, the indicator is down once
\* nothing runs and everything announced has been shown: a channel that keeps
\* one event keeps the end of the last operation (forward_events()).
THEOREM IndicatorGoesDown == Spec => []IndicatorClears
<1> DEFINE Inv == Typed /\ AllPlaced /\ Quiet
<1>1. Init => Inv
  BY TypedInit, PlacedInit, QuietInit
<1>2. Inv /\ [Next]_vars => Inv'
  BY TypedNext, PlacedNext, QuietNext
<1>3. Inv => IndicatorClears
  BY QuietClears
<1> HIDE DEF Inv
<1> QED
  BY <1>1, <1>2, <1>3, PTL DEF Spec

===============================================================================
