---------------------------- MODULE SandboxProofs ----------------------------
(***************************************************************************)
(* The micro-VM pool of src/src/sandbox.rs for any number of effects, any  *)
(* number of secret changes, restarts and uses: the count of VmState is    *)
(* exact, so that nobody stops the machine under an effect, and the        *)
(* generation tells a timer whether it was overtaken.                      *)
(***************************************************************************)
EXTENDS Sandbox, FiniteSetTheorems, TLAPS

Users == {e \in Tasks : InUse(e)}

Calling(e) == effect[e] \in {"starting", "rotating"}

\* start() has returned from its call, and has not read the digests yet.
Between == proc \in {"restarted", "built"}

\* Until start() has shared the handle, and after the process ended, nobody
\* uses the machine; one that was just started runs.  start() runs commands
\* until it returns, the effects come after that.
QuietOutside ==
  /\ proc \in {"down", "booting"} \/ Between =>
       /\ lock = "free" /\ ~handle /\ timers = {}
       /\ \A e \in Tasks : effect[e] = "idle"
  /\ Between => machine = "running"
  /\ proc \notin {"up", "exiting"} => \A e \in Effects : effect[e] = "idle"
  /\ proc \notin {"provision", "credentials"} => effect["start"] = "idle"

\* The mutex: an effect inside a call to the machine holds it.
CallerHoldsLock ==
  /\ \A e \in Tasks : Calling(e) => lock = e
  /\ lock # "free" => ~handle

\* VmState.active counts the effects between begin() and finish(), until
\* stop() forgets them because the process leaves.
CountExact == proc # "exiting" => active = Cardinality(Users)

\* A shared handle is the handle of a running machine.
HandleRuns == handle => machine = "running"

\* start() has shared the machine.
Started == proc \in {"provision", "credentials", "ready", "up", "exiting"}

\* Without a handle, and with nobody working on it, the machine is stopped.
NoHandleStopped ==
  Started /\ ~handle =>
    \/ machine = "stopped" \/ stopFailed
    \/ lock \in {"timer", "stop"}
    \/ \E e \in Tasks : effect[e] = "rotating"

\* Generations only grow, and begin() leaves every sleeping timer behind.
TimersBehind ==
  \A t \in timers : t.gen <= generation /\ (t.used => t.gen < generation)

\* Digests are never newer than the secrets the machine resolved, but for the
\* change that start() missed: unless there was one, the secrets of now are still
\* the ones the machine resolved when start() comes to read the digests.
DigestsTrail ==
  /\ missed \/ digests <= resolved
  /\ Between /\ ~missed => resolved = env
  /\ digests <= env /\ resolved <= env /\ desired <= env

IInv ==
  /\ TypeOK
  /\ QuietOutside
  /\ CallerHoldsLock
  /\ CountExact
  /\ NotStoppedUnderEffect
  /\ HandleRuns
  /\ NoHandleStopped
  /\ TimersBehind
  /\ DigestsTrail

(***************************************************************************)
(* Counting.                                                               *)
(***************************************************************************)
\* The users are a finite set, and their number is a natural number.
LEMMA UsersFinite == IsFiniteSet(Users) /\ Cardinality(Users) \in Nat
<1>1. Users \subseteq Tasks
  BY DEF Users
<1>2. IsFiniteSet(Tasks)
  BY FS_AddElement, SandboxAssumption DEF Tasks
<1>3. IsFiniteSet(Users)
  BY <1>1, <1>2, FS_Subset
<1> QED
  BY <1>3, FS_CardinalityType

\* begin() for an effect that is not counted yet adds one user.
LEMMA OneMore ==
  ASSUME TypeOK, NEW e \in Tasks, ~InUse(e), effect' = [effect EXCEPT ![e] = "running"]
  PROVE  Cardinality(Users') = Cardinality(Users) + 1
<1>1. Users' = Users \cup {e} /\ e \notin Users
  BY DEF Users, InUse, TypeOK
<1> QED
  BY <1>1, UsersFinite, FS_AddElement

\* finish() takes one away.
LEMMA OneLess ==
  ASSUME TypeOK, NEW e \in Tasks, InUse(e), effect' = [effect EXCEPT ![e] = "idle"]
  PROVE  Cardinality(Users') = Cardinality(Users) - 1 /\ Cardinality(Users) > 0
<1>1. Users' = Users \ {e} /\ e \in Users
  BY DEF Users, InUse, TypeOK
<1>2. Cardinality(Users') = Cardinality(Users) - 1
  BY <1>1, UsersFinite, FS_RemoveElement
<1>3. Cardinality(Users) # 0
  BY <1>1, UsersFinite, FS_EmptySet
<1> QED
  BY <1>2, <1>3, UsersFinite

\* Any other step of an effect leaves the number as it is.
LEMMA AsMany ==
  ASSUME TypeOK, \A e \in Tasks : InUse(e)' <=> InUse(e)
  PROVE  Users' = Users
BY DEF Users

\* A count of zero means that no effect uses the machine.
LEMMA NoneCounted ==
  ASSUME CountExact, proc # "exiting", active = 0, NEW e \in Tasks
  PROVE  ~InUse(e)
<1>1. Users = {}
  BY UsersFinite, FS_EmptySet DEF CountExact
<1> QED
  BY <1>1 DEF Users

\* No effect, no user.
LEMMA NoUsers ==
  ASSUME \A e \in Tasks : effect[e] = "idle"
  PROVE  Cardinality(Users) = 0
<1>1. Users = {}
  BY DEF Users, InUse
<1> QED
  BY <1>1, FS_EmptySet

\* A step of whoever is not idle: start() has shared the machine, and those who
\* must be idle stay so.
LEMMA StaysQuiet ==
  ASSUME TypeOK, QuietOutside, NEW e \in Tasks, effect[e] # "idle"
  PROVE  /\ Started
         /\ (proc' = proc /\ \A f \in Tasks : f # e => effect'[f] = effect[f]) => QuietOutside'
<1>1. e = "start" \/ e \in Effects
  BY DEF Tasks
<1>2. Started /\ ~Between /\ proc \notin {"down", "booting"}
  BY <1>1 DEF QuietOutside, Started, Between, TypeOK
<1>3. ASSUME proc' = proc, \A f \in Tasks : f # e => effect'[f] = effect[f]
      PROVE  QuietOutside'
  <2>1. ~Between' /\ proc' \notin {"down", "booting"}
    BY <1>2, <1>3 DEF Between
  <2>2. CASE e = "start"
    <3>1. proc \in {"provision", "credentials"}
      BY <2>2 DEF QuietOutside
    <3>2. \A f \in Effects : f # e /\ f \in Tasks
      BY <2>2, SandboxAssumption DEF Tasks
    <3>3. \A f \in Effects : effect'[f] = "idle"
      BY <1>3, <3>1, <3>2 DEF QuietOutside
    <3> QED
      BY <1>3, <2>1, <3>1, <3>3 DEF QuietOutside
  <2>3. CASE e \in Effects
    <3>1. proc \in {"up", "exiting"}
      BY <2>3 DEF QuietOutside
    <3>2. effect["start"] = "idle" /\ effect'["start"] = effect["start"]
      BY <1>3, <2>3, <3>1, SandboxAssumption DEF QuietOutside, Tasks
    <3> QED
      BY <1>3, <2>1, <3>1, <3>2 DEF QuietOutside
  <2> QED
    BY <1>1, <2>2, <2>3
<1> QED
  BY <1>2, <1>3

(***************************************************************************)
(* Every step keeps the invariant.                                         *)
(***************************************************************************)
\* The process starts with nothing running.
LEMMA InitIInv == Init => IInv
<1> SUFFICES ASSUME Init PROVE IInv
  OBVIOUS
<1>1. TypeOK
  BY SandboxAssumption DEF Init, TypeOK
<1>2. QuietOutside /\ CallerHoldsLock /\ HandleRuns /\ TimersBehind /\ DigestsTrail
  BY SandboxAssumption
  DEF Init, QuietOutside, CallerHoldsLock, HandleRuns, TimersBehind, DigestsTrail, Calling,
    Between, Tasks
<1>3. CountExact
  BY NoUsers DEF Init, CountExact
<1>4. NotStoppedUnderEffect /\ NoHandleStopped
  BY DEF Init, NotStoppedUnderEffect, NoHandleStopped, Started, InUse
<1> QED
  BY <1>1, <1>2, <1>3, <1>4 DEF IInv

\* start() up to the machine, the return of start(), and the end of the process.
LEMMA BootStep ==
  ASSUME IInv,
         (\E p \in Policies : Boot(p)) \/ BootRestart \/ BootBuild \/ BootReady \/ Serve \/ Down
  PROVE  IInv'
<1> USE DEF IInv
<1>1. CASE \E p \in Policies : Boot(p)
  BY <1>1 DEF Boot, TypeOK, QuietOutside, CallerHoldsLock, CountExact, HandleRuns, Between, Users,
    InUse, NotStoppedUnderEffect, NoHandleStopped, Started, TimersBehind, DigestsTrail, vmState,
    tasks, Calling
<1>2. CASE BootRestart \/ BootBuild
  <2>1. /\ UNCHANGED <<policy, fingerprint, boots, env, lock, handle, active, generation, digests,
                       desired, timers, effect, cancelled, uses, stopFailed>>
        /\ proc = "booting" /\ Between' /\ proc' \in {"restarted", "built"}
        /\ machine' = "running" /\ resolved' = env /\ missed' = FALSE
        /\ disk' \in {disk, policy}
    BY <1>2 DEF BootRestart, BootBuild, vmState, tasks, Between
  <2>2. TypeOK'
    BY <2>1 DEF TypeOK
  <2>3. QuietOutside' /\ CallerHoldsLock' /\ HandleRuns' /\ NoHandleStopped' /\ TimersBehind'
    BY <2>1 DEF QuietOutside, CallerHoldsLock, HandleRuns, NoHandleStopped, Started,
      TimersBehind, Calling
  <2>4. CountExact' /\ NotStoppedUnderEffect'
    BY <2>1 DEF CountExact, NotStoppedUnderEffect, Users, InUse
  <2>5. DigestsTrail'
    BY <2>1 DEF DigestsTrail, TypeOK
  <2> QED
    BY <2>2, <2>3, <2>4, <2>5
<1>3. CASE Down
  <2>1. TypeOK'
    BY <1>3 DEF Down, TypeOK
  <2>2. QuietOutside' /\ CallerHoldsLock'
    BY <1>3 DEF Down, QuietOutside, CallerHoldsLock, Calling, Between, Tasks
  <2>3. \A e \in Tasks : effect'[e] = "idle"
    BY <1>3 DEF Down
  <2>4. CountExact'
    <3>1. Users' = {}
      BY <2>3 DEF Users, InUse
    <3>2. Cardinality(Users') = 0
      BY <3>1, FS_EmptySet
    <3> QED
      BY <1>3, <3>2 DEF Down, CountExact
  <2>5. NotStoppedUnderEffect' /\ HandleRuns' /\ NoHandleStopped'
    BY <1>3, <2>3 DEF Down, NotStoppedUnderEffect, HandleRuns, NoHandleStopped, Started, InUse
  <2>6. TimersBehind' /\ DigestsTrail'
    BY <1>3 DEF Down, TypeOK, TimersBehind, DigestsTrail, Between
  <2> QED
    BY <2>1, <2>2, <2>4, <2>5, <2>6
<1>4. CASE BootReady \/ Serve
  <2>1. /\ UNCHANGED <<policy, disk, fingerprint, boots, handle, active, generation, digests,
                       desired, timers, effect, cancelled, uses, machine, env, resolved, missed,
                       lock, stopFailed>>
        /\ proc \in {"credentials", "ready"} /\ proc' \in {"ready", "up"}
        /\ effect["start"] = "idle"
    BY <1>4 DEF BootReady, Serve, vmState, tasks, QuietOutside
  <2>2. TypeOK'
    BY <2>1 DEF TypeOK
  <2>3. QuietOutside' /\ CallerHoldsLock' /\ HandleRuns' /\ NoHandleStopped' /\ TimersBehind'
    BY <2>1 DEF QuietOutside, CallerHoldsLock, HandleRuns, NoHandleStopped, Started,
      TimersBehind, Calling, Between
  <2>4. CountExact' /\ NotStoppedUnderEffect' /\ DigestsTrail'
    BY <2>1 DEF CountExact, NotStoppedUnderEffect, Users, InUse, DigestsTrail, Between
  <2> QED
    BY <2>2, <2>3, <2>4
<1> QED
  BY <1>1, <1>2, <1>3, <1>4

\* start() shares the machine and asks for it itself, once for the provisioning
\* and once for the credentials.
LEMMA CommandStep ==
  ASSUME IInv, BootShare \/ \E ok \in BOOLEAN : BootProvision(ok)
  PROVE  IInv'
<1> USE DEF IInv
<1>1. /\ UNCHANGED <<policy, disk, boots, desired, timers, cancelled, uses, machine, env, resolved,
                     missed, lock, stopFailed>>
      /\ effect["start"] = "idle" /\ (Command \/ UNCHANGED effect)
      /\ proc' \in {"provision", "credentials"} /\ fingerprint' \in {fingerprint, policy}
      /\ \/ Between /\ digests' = env /\ handle' = TRUE /\ active' = 0 /\ generation' = 0
         \/ proc = "provision" /\ UNCHANGED <<digests, handle, active, generation>>
  BY DEF BootShare, BootProvision, vmState, Between, QuietOutside
<1>2. "start" \in Tasks /\ \A e \in Effects : e # "start" /\ e \in Tasks
  BY SandboxAssumption DEF Tasks
<1>3. TypeOK'
  <2>1. effect' \in [Tasks -> {"idle", "wanting", "starting", "rotating", "running", "done"}]
    BY <1>1, <1>2 DEF TypeOK, Command
  <2>2. digests' \in Nat /\ active' \in Nat /\ generation' \in Nat /\ handle' \in BOOLEAN
    <3>1. CASE digests' = env /\ handle' = TRUE /\ active' = 0 /\ generation' = 0
      BY <3>1 DEF TypeOK
    <3>2. CASE UNCHANGED <<digests, handle, active, generation>>
      BY <3>2 DEF TypeOK
    <3> QED
      BY <1>1, <3>1, <3>2
  <2> QED
    BY <1>1, <2>1, <2>2 DEF TypeOK
<1>4. \A e \in Tasks : /\ InUse(e)' <=> InUse(e)
                       /\ Calling(e)' <=> Calling(e)
                       /\ effect'[e] = "rotating" <=> effect[e] = "rotating"
  BY <1>1 DEF InUse, Calling, Command, TypeOK
<1>5. Between => active = 0
  <2>1. ASSUME Between PROVE Cardinality(Users) = 0
    BY <2>1, NoUsers DEF QuietOutside
  <2> QED
    BY <2>1 DEF CountExact, Between
<1>6. CountExact'
  <2>1. Users' = Users
    BY <1>4, AsMany
  <2> QED
    BY <1>1, <1>5, <2>1 DEF CountExact, Between
<1>7. QuietOutside'
  <2>1. \A e \in Effects : effect[e] = "idle"
    BY <1>1 DEF QuietOutside, Between
  <2>2. \A e \in Effects : effect'[e] = effect[e]
    BY <1>1, <1>2 DEF Command, TypeOK
  <2> QED
    BY <1>1, <2>1, <2>2 DEF QuietOutside, Between
<1>8. CallerHoldsLock' /\ HandleRuns'
  BY <1>1, <1>4 DEF CallerHoldsLock, HandleRuns, QuietOutside
<1>9. NoHandleStopped'
  BY <1>1, <1>4 DEF NoHandleStopped, Started
<1>10. NotStoppedUnderEffect'
  BY <1>1, <1>4 DEF NotStoppedUnderEffect, Between, QuietOutside
<1>11. TimersBehind'
  BY <1>1 DEF TimersBehind, QuietOutside
<1>12. DigestsTrail'
  BY <1>1 DEF DigestsTrail, Between, TypeOK
<1> QED
  BY <1>3, <1>6, <1>7, <1>8, <1>9, <1>10, <1>11, <1>12

\* A task that asks for an effect, or is cancelled, touches only itself.
LEMMA AskStep ==
  ASSUME IInv, NEW e \in Tasks, (e \in Effects /\ (Want(e) \/ Cancel(e))) \/ Finishes(e)
  PROVE  IInv'
<1> USE DEF IInv
<1>1. /\ UNCHANGED <<boot, vmState, machine, env, resolved, missed, lock, stopFailed>>
      /\ uses' \in Nat /\ cancelled' \subseteq Effects
      /\ \/ effect' = effect
         \/ e \in Effects /\ Live /\ effect[e] = "idle" /\ effect' = [effect EXCEPT ![e] = "wanting"]
         \/ effect[e] = "running" /\ effect' = [effect EXCEPT ![e] = "done"]
  BY DEF Want, Finishes, Cancel, TypeOK
<1>2. /\ UNCHANGED <<proc, policy, disk, fingerprint, boots, handle, active, generation,
                     digests, desired, timers, machine, env, resolved, missed, lock, stopFailed>>
  BY <1>1 DEF boot, vmState
<1>3. TypeOK'
  BY <1>1, <1>2 DEF TypeOK
<1>4. \A f \in Tasks : (InUse(f)' <=> InUse(f)) /\ (Calling(f)' <=> Calling(f))
                         /\ (effect'[f] = "rotating" <=> effect[f] = "rotating")
  BY <1>1 DEF InUse, Calling, TypeOK
<1>5. CountExact'
  <2>1. Users' = Users
    BY <1>4, AsMany
  <2> QED
    BY <1>2, <2>1 DEF CountExact
<1>6. QuietOutside'
  <2>1. CASE effect' = effect
    BY <1>2, <2>1 DEF QuietOutside, Between
  <2>2. CASE e \in Effects /\ Live /\ effect' = [effect EXCEPT ![e] = "wanting"]
    <3>1. e # "start" /\ "start" \in Tasks
      BY <2>2, SandboxAssumption DEF Tasks
    <3>2. effect'["start"] = effect["start"]
      BY <2>2, <3>1 DEF TypeOK
    <3> QED
      BY <1>2, <2>2, <3>2 DEF QuietOutside, Between, Live
  <2>3. CASE effect[e] = "running" /\ effect' = [effect EXCEPT ![e] = "done"]
    <3>1. \A f \in Tasks : f # e => effect'[f] = effect[f]
      BY <2>3 DEF TypeOK
    <3> QED
      BY <1>2, <2>3, <3>1, StaysQuiet
  <2> QED
    BY <1>1, <2>1, <2>2, <2>3
<1>7. CallerHoldsLock' /\ HandleRuns' /\ NoHandleStopped' /\ NotStoppedUnderEffect'
  BY <1>2, <1>4 DEF CallerHoldsLock, HandleRuns, NoHandleStopped, Started, NotStoppedUnderEffect
<1>8. TimersBehind' /\ DigestsTrail'
  BY <1>2 DEF TimersBehind, DigestsTrail, Between
<1> QED
  BY <1>3, <1>5, <1>6, <1>7, <1>8

\* begin(): one more user, and every timer is overtaken.
LEMMA BeginStep ==
  ASSUME IInv, NEW e \in Tasks, VmBegin(e), ~InUse(e)
  PROVE  /\ active' \in Nat /\ generation' \in Nat
         /\ timers' \subseteq [gen: Nat, used: BOOLEAN]
         /\ effect' \in [Tasks ->
                          {"idle", "wanting", "starting", "rotating", "running", "done"}]
         /\ proc' = proc => CountExact'
         /\ TimersBehind'
<1> USE DEF IInv
<1>1. active' \in Nat /\ generation' \in Nat
      /\ effect' \in [Tasks ->
                       {"idle", "wanting", "starting", "rotating", "running", "done"}]
  BY DEF VmBegin, TypeOK
<1>2. \A u \in timers' : u \in [gen: Nat, used: BOOLEAN] /\ u.gen < generation'
  <2> SUFFICES ASSUME NEW u \in timers'
               PROVE  u \in [gen: Nat, used: BOOLEAN] /\ u.gen < generation'
    OBVIOUS
  <2>1. PICK t \in timers : u = [gen |-> t.gen, used |-> TRUE]
    BY DEF VmBegin
  <2>2. t.gen \in Nat /\ t.gen <= generation /\ generation \in Nat
    BY DEF TypeOK, TimersBehind
  <2>3. generation' = generation + 1
    BY DEF VmBegin
  <2> QED
    BY <2>1, <2>2, <2>3
<1>3. TimersBehind'
  BY <1>1, <1>2 DEF TimersBehind
<1>4. proc' = proc => CountExact'
  <2>1. Cardinality(Users') = Cardinality(Users) + 1
    BY OneMore DEF VmBegin
  <2> QED
    BY <2>1 DEF CountExact, VmBegin
<1> QED
  BY <1>1, <1>2, <1>3, <1>4

\* acquire(), up to the call to the machine it may need.
LEMMA AcquireStep ==
  ASSUME IInv, NEW e \in Tasks, AcquireShared(e) \/ AcquireStopped(e) \/ AcquireRotated(e)
  PROVE  IInv'
<1> USE DEF IInv
<1>1. effect[e] = "wanting" /\ lock = "free"
  BY DEF AcquireShared, AcquireStopped, AcquireRotated
<1>2. Started /\ ~InUse(e) /\ \A f \in Tasks : ~Calling(f)
  BY <1>1, StaysQuiet, SandboxAssumption DEF Tasks, TypeOK, InUse, CallerHoldsLock
<1>3. CASE AcquireShared(e)
  <2>1. /\ UNCHANGED <<proc, policy, disk, fingerprint, boots, handle, digests, desired, cancelled,
                       uses, machine, env, resolved, missed, lock, stopFailed>>
        /\ handle /\ VmBegin(e)
    BY <1>3 DEF AcquireShared, boot
  <2>2. TypeOK' /\ CountExact' /\ TimersBehind'
    BY <2>1, <1>2, BeginStep DEF TypeOK
  <2>3. /\ \A f \in Tasks : ~Calling(f)'
        /\ \A f \in Tasks : f # e => effect'[f] = effect[f]
    BY <2>1, <1>2 DEF VmBegin, Calling, TypeOK
  <2>5. QuietOutside'
    BY <2>1, <2>3, <1>1, StaysQuiet
  <2>4. CallerHoldsLock' /\ HandleRuns' /\ NoHandleStopped' /\ NotStoppedUnderEffect'
        /\ DigestsTrail'
    BY <2>1, <2>3, <1>1, <1>2 DEF CallerHoldsLock, HandleRuns, NoHandleStopped, Started,
      NotStoppedUnderEffect, DigestsTrail, Between
  <2> QED
    BY <2>2, <2>4, <2>5
<1>4. CASE AcquireStopped(e) \/ AcquireRotated(e)
  <2> DEFINE status == IF handle THEN "rotating" ELSE "starting"
  <2>1. /\ UNCHANGED <<proc, policy, disk, fingerprint, boots, active, generation, digests, timers,
                       cancelled, uses, machine, env, resolved, missed, stopFailed>>
        /\ lock' = e /\ desired' = env /\ handle' = FALSE
        /\ effect' = [effect EXCEPT ![e] = status]
        /\ handle => active = 0
    BY <1>4 DEF AcquireStopped, AcquireRotated, boot, TypeOK
  <2>2. status \in {"rotating", "starting"} /\ (status = "rotating" <=> handle)
    OBVIOUS
  <2> HIDE DEF status
  <2>3. TypeOK'
    BY <2>1, <2>2 DEF TypeOK
  <2>4. \A f \in Tasks : InUse(f)' <=> InUse(f)
    BY <1>1, <2>1, <2>2 DEF InUse, TypeOK
  <2>5. CountExact'
    BY <2>1, <2>4, AsMany DEF CountExact
  <2>6. proc # "exiting" => \A f \in Tasks : ~InUse(f)
    BY <2>1, NoneCounted DEF NotStoppedUnderEffect
  <2>7. CallerHoldsLock' /\ HandleRuns' /\ NotStoppedUnderEffect'
    BY <1>2, <2>1, <2>2, <2>4, <2>6 DEF CallerHoldsLock, HandleRuns,
      NotStoppedUnderEffect, Calling, TypeOK
  <2>10. QuietOutside'
    <3>1. \A f \in Tasks : f # e => effect'[f] = effect[f]
      BY <2>1 DEF TypeOK
    <3> QED
      BY <1>1, <2>1, <3>1, StaysQuiet
  <2>8. NoHandleStopped'
    <3>1. CASE handle
      <4>1. effect'[e] = "rotating"
        BY <2>1, <2>2, <3>1 DEF TypeOK
      <4> QED
        BY <4>1 DEF NoHandleStopped
    <3>2. CASE ~handle
      <4>1. machine = "stopped" \/ stopFailed
        BY <1>1, <1>2, <3>2 DEF NoHandleStopped, Started, Calling
      <4> QED
        BY <2>1, <4>1 DEF NoHandleStopped
    <3> QED
      BY <3>1, <3>2
  <2>9. TimersBehind' /\ DigestsTrail'
    BY <2>1 DEF TimersBehind, DigestsTrail, Between, TypeOK
  <2> QED
    BY <2>3, <2>5, <2>7, <2>8, <2>9, <2>10
<1> QED
  BY <1>3, <1>4

\* The calls to the machine that acquire() makes, and how they end.
LEMMA CallStep ==
  ASSUME IInv, NEW e \in Tasks, RotateStops(e) \/ Starts(e) \/ AcquireFails(e)
  PROVE  IInv'
<1> USE DEF IInv
<1>1. /\ Calling(e) /\ ~InUse(e) /\ lock = e /\ lock \notin {"free", "timer", "stop"} /\ ~handle
      /\ \A f \in Tasks : f # e => ~Calling(f)
  BY SandboxAssumption DEF RotateStops, Starts, AcquireFails, Calling, InUse, CallerHoldsLock,
    Tasks
<1>2. /\ Started
      /\ (proc' = proc /\ \A f \in Tasks : f # e => effect'[f] = effect[f]) => QuietOutside'
  BY <1>1, StaysQuiet DEF Calling
<1>3. proc # "exiting" => \A f \in Tasks : ~InUse(f)
  BY <1>1 DEF NotStoppedUnderEffect
<1>4. CASE RotateStops(e)
  <2>1. /\ UNCHANGED <<proc, policy, disk, fingerprint, boots, handle, active, generation, digests,
                       desired, timers, cancelled, uses, env, resolved, missed, lock, stopFailed>>
        /\ machine' = "stopped" /\ effect' = [effect EXCEPT ![e] = "starting"]
    BY <1>4 DEF RotateStops, boot, vmState
  <2>2. TypeOK'
    BY <2>1 DEF TypeOK
  <2>3. \A f \in Tasks : InUse(f)' <=> InUse(f)
    BY <1>1, <2>1 DEF InUse, TypeOK
  <2>4. CountExact'
    BY <2>1, <2>3, AsMany DEF CountExact
  <2>7. QuietOutside'
    BY <1>2, <2>1 DEF TypeOK
  <2>5. CallerHoldsLock' /\ HandleRuns' /\ NoHandleStopped' /\ NotStoppedUnderEffect'
    BY <1>1, <1>2, <1>3, <2>1, <2>3 DEF CallerHoldsLock, HandleRuns,
      NoHandleStopped, Started, NotStoppedUnderEffect, Calling, TypeOK
  <2>6. TimersBehind' /\ DigestsTrail'
    BY <2>1 DEF TimersBehind, DigestsTrail, Between
  <2> QED
    BY <2>2, <2>4, <2>5, <2>6, <2>7
<1>5. CASE Starts(e)
  <2>1. /\ UNCHANGED <<proc, policy, disk, fingerprint, boots, desired, cancelled, uses, env,
                       stopFailed>>
        /\ machine' = "running" /\ resolved' = env /\ missed' = FALSE /\ handle' = TRUE
        /\ digests' = desired /\ lock' = "free" /\ VmBegin(e)
    BY <1>5 DEF Starts, boot
  <2>2. TypeOK' /\ CountExact' /\ TimersBehind'
    BY <1>1, <2>1, BeginStep DEF TypeOK
  <2>3. \A f \in Tasks : ~Calling(f)'
    BY <2>1, <1>1 DEF VmBegin, Calling, TypeOK
  <2>4. CallerHoldsLock' /\ HandleRuns' /\ NoHandleStopped' /\ NotStoppedUnderEffect'
    BY <1>2, <2>1, <2>3 DEF CallerHoldsLock, HandleRuns, NoHandleStopped, NotStoppedUnderEffect
  <2>5. DigestsTrail'
    BY <1>2, <2>1 DEF DigestsTrail, Started, Between, TypeOK
  <2>6. QuietOutside'
    BY <1>2, <2>1 DEF VmBegin, TypeOK
  <2> QED
    BY <2>2, <2>4, <2>5, <2>6
<1>6. CASE AcquireFails(e)
  <2>1. /\ UNCHANGED <<proc, policy, disk, fingerprint, boots, handle, active, generation, digests,
                       desired, timers, cancelled, uses, machine, env, resolved, missed>>
        /\ lock' = "free" /\ effect' = [effect EXCEPT ![e] = "idle"]
        /\ stopFailed' = (stopFailed \/ effect[e] = "rotating")
    BY <1>6 DEF AcquireFails, boot, vmState
  <2>2. TypeOK'
    BY <2>1 DEF TypeOK
  <2>3. \A f \in Tasks : (InUse(f)' <=> InUse(f)) /\ ~Calling(f)'
    BY <1>1, <2>1 DEF InUse, Calling, TypeOK
  <2>4. CountExact'
    BY <2>1, <2>3, AsMany DEF CountExact
  <2>5. CallerHoldsLock' /\ HandleRuns' /\ NotStoppedUnderEffect'
    BY <1>1, <1>2, <2>1, <2>3 DEF CallerHoldsLock, HandleRuns, NotStoppedUnderEffect
  <2>6. NoHandleStopped'
    <3>1. machine = "stopped" \/ stopFailed \/ effect[e] = "rotating"
      BY <1>1, <1>2 DEF NoHandleStopped, Calling
    <3> QED
      BY <2>1, <3>1 DEF NoHandleStopped
  <2>7. TimersBehind' /\ DigestsTrail'
    BY <2>1 DEF TimersBehind, DigestsTrail, Between
  <2>8. QuietOutside'
    BY <1>2, <2>1 DEF TypeOK
  <2> QED
    BY <2>2, <2>4, <2>5, <2>6, <2>7, <2>8
<1> QED
  BY <1>4, <1>5, <1>6

\* release(): finish() takes the user off the count and sets the timer.
LEMMA ReleaseStep ==
  ASSUME IInv, NEW e \in Tasks, Release(e)
  PROVE  IInv'
<1> USE DEF IInv
<1>1. /\ UNCHANGED <<proc, policy, disk, fingerprint, boots, handle, digests, desired, cancelled,
                     uses, machine, env, resolved, missed, lock, stopFailed>>
      /\ effect[e] = "done" /\ lock = "free" /\ VmFinish
      /\ effect' = [effect EXCEPT ![e] = "idle"]
  BY DEF Release, boot
<1>2. active' \in Nat /\ generation' = generation + 1 /\ generation' \in Nat
  BY <1>1 DEF VmFinish, TypeOK
<1>3. timers' \in {timers, timers \cup {[gen |-> generation', used |-> FALSE]}}
  BY <1>1 DEF VmFinish
<1>4. timers' \subseteq [gen: Nat, used: BOOLEAN]
  <2>1. [gen |-> generation', used |-> FALSE] \in [gen: Nat, used: BOOLEAN]
    BY <1>2
  <2>2. timers \subseteq [gen: Nat, used: BOOLEAN]
    BY DEF TypeOK
  <2> QED
    BY <1>3, <2>1, <2>2
<1>5. TypeOK'
  BY <1>1, <1>2, <1>4 DEF TypeOK
<1>6. TimersBehind'
  <2> SUFFICES ASSUME NEW t \in timers'
               PROVE  t.gen <= generation' /\ (t.used => t.gen < generation')
    BY DEF TimersBehind
  <2>1. CASE t \in timers
    <3>1. t.gen \in Nat /\ t.gen <= generation /\ generation \in Nat
      BY <2>1 DEF TypeOK, TimersBehind
    <3> QED
      BY <1>2, <3>1
  <2>2. CASE t = [gen |-> generation', used |-> FALSE]
    BY <1>2, <2>2
  <2> QED
    BY <1>3, <2>1, <2>2
<1>7. CountExact'
  <2>1. Cardinality(Users') = Cardinality(Users) - 1 /\ Cardinality(Users) > 0
    BY <1>1, OneLess DEF InUse
  <2> QED
    BY <1>1, <2>1, UsersFinite DEF CountExact, VmFinish
<1>8. \A f \in Tasks : (InUse(f)' => InUse(f)) /\ (Calling(f)' <=> Calling(f))
                         /\ (effect'[f] = "rotating" <=> effect[f] = "rotating")
  BY <1>1 DEF InUse, Calling, TypeOK
<1>9. QuietOutside'
  <2>1. \A f \in Tasks : f # e => effect'[f] = effect[f]
    BY <1>1 DEF TypeOK
  <2> QED
    BY <1>1, <2>1, StaysQuiet
<1>10. CallerHoldsLock' /\ HandleRuns' /\ NoHandleStopped' /\ NotStoppedUnderEffect'
  BY <1>1, <1>8 DEF CallerHoldsLock, HandleRuns, NoHandleStopped, Started, NotStoppedUnderEffect
<1>11. DigestsTrail'
  BY <1>1 DEF DigestsTrail, Between
<1> QED
  BY <1>5, <1>6, <1>7, <1>9, <1>10, <1>11

\* A timer or stop() that finds the machine with a handle takes it away, and
\* does so only when no effect of a process that stays up uses it.
LEMMA StopStep ==
  ASSUME IInv, (\E t \in timers : TimerFires(t)) \/ Stop
  PROVE  IInv'
<1> USE DEF IInv
<1>1. /\ UNCHANGED <<policy, disk, fingerprint, boots, desired, effect, cancelled, uses, machine,
                     env, resolved, missed, stopFailed>>
      /\ lock = "free" /\ Started
      /\ \/ proc' = proc
         \/ proc = "ready" /\ proc' = "up"
         \/ proc = "up" /\ proc' = "exiting"
  BY DEF TimerFires, Stop, boot, tasks, Started, QuietOutside, Between, TypeOK
<1>2. /\ active' \in Nat /\ generation' \in Nat /\ timers' \subseteq timers
      /\ generation <= generation'
  BY DEF TimerFires, Stop, TypeOK
<1>3. \/ /\ handle' = FALSE /\ digests' = 0
         /\ \/ handle /\ lock' \in {"timer", "stop"}
            \/ ~handle /\ lock' = "free"
         /\ proc' # "exiting" => \A e \in Tasks : ~InUse(e)
      \/ UNCHANGED <<proc, handle, digests, lock>>
  <2>1. ASSUME NEW t \in timers, TimerFires(t), MayStop(t), proc # "exiting", NEW e \in Tasks
        PROVE  ~InUse(e)
    BY <2>1, NoneCounted DEF MayStop
  <2>2. ASSUME NEW t \in timers, TimerFires(t)
        PROVE  \/ /\ handle' = FALSE /\ digests' = 0
                  /\ \/ handle /\ lock' \in {"timer", "stop"}
                     \/ ~handle /\ lock' = "free"
                  /\ MayStop(t) /\ proc' = proc
               \/ UNCHANGED <<proc, handle, digests, lock>>
    BY <2>2 DEF TimerFires, boot, TypeOK
  <2>3. ASSUME Stop
        PROVE  /\ handle' = FALSE /\ digests' = 0
               /\ \/ handle /\ lock' \in {"timer", "stop"}
                  \/ ~handle /\ lock' = "free"
               /\ proc' # "exiting" => \A e \in Tasks : ~InUse(e)
    BY <2>3 DEF Stop, InUse, QuietOutside, Tasks
  <2> QED
    BY <2>1, <2>2, <2>3
<1>4. TypeOK'
  <2>1. proc' \in {"provision", "credentials", "ready", "up", "exiting"} /\ handle' \in BOOLEAN
        /\ lock' \in Tasks \cup {"free", "timer", "stop"} /\ digests' \in Nat
    <3>1. proc' \in {"provision", "credentials", "ready", "up", "exiting"}
      BY <1>1 DEF Started
    <3>2. (handle' = FALSE \/ handle' = handle) /\ (digests' = 0 \/ digests' = digests)
      BY <1>3
    <3>3. handle' \in BOOLEAN /\ digests' \in Nat
      <4>1. handle' \in BOOLEAN
        BY <3>2 DEF TypeOK
      <4>2. digests' \in Nat
        BY <3>2 DEF TypeOK
      <4> QED
        BY <4>1, <4>2
    <3>4. lock' \in Tasks \cup {"free", "timer", "stop"}
      BY <1>3 DEF TypeOK
    <3> QED
      BY <3>1, <3>3, <3>4
  <2>2. timers' \subseteq [gen: Nat, used: BOOLEAN]
    BY <1>2 DEF TypeOK
  <2> QED
    BY <1>1, <1>2, <2>1, <2>2 DEF TypeOK
<1>5. QuietOutside'
  BY <1>1 DEF QuietOutside, Started, Between
<1>6. CallerHoldsLock' /\ HandleRuns' /\ NoHandleStopped'
  <2>1. \A e \in Tasks : ~Calling(e) /\ ~Calling(e)'
    BY <1>1, SandboxAssumption DEF CallerHoldsLock, Calling, Tasks
  <2>2. CASE UNCHANGED <<proc, handle, digests, lock>>
    BY <1>1, <2>1, <2>2 DEF CallerHoldsLock, HandleRuns, NoHandleStopped, Started, Calling
  <2>3. CASE handle' = FALSE /\ handle /\ lock' \in {"timer", "stop"}
    BY <2>1, <2>3 DEF CallerHoldsLock, HandleRuns, NoHandleStopped
  <2>4. CASE handle' = FALSE /\ ~handle /\ lock' = "free"
    BY <1>1, <2>1, <2>4 DEF CallerHoldsLock, HandleRuns, NoHandleStopped, Calling
  <2> QED
    BY <1>3, <2>2, <2>3, <2>4
<1>7. NotStoppedUnderEffect'
  BY <1>1, <1>3 DEF NotStoppedUnderEffect, InUse
<1>8. CountExact'
  <2>1. \A e \in Tasks : InUse(e)' <=> InUse(e)
    BY <1>1 DEF InUse
  <2>2. Users' = Users
    BY <2>1, AsMany
  <2>3. CASE \E t \in timers : TimerFires(t)
    BY <2>2, <2>3 DEF TimerFires, boot, CountExact
  <2>4. CASE Stop
    <3>1. proc = "ready" => Cardinality(Users) = 0
      BY NoUsers DEF QuietOutside, Tasks
    <3> QED
      BY <2>2, <2>4, <3>1 DEF Stop, CountExact
  <2> QED
    BY <2>3, <2>4
<1>9. TimersBehind'
  <2> SUFFICES ASSUME NEW t \in timers
               PROVE  t.gen <= generation' /\ (t.used => t.gen < generation')
    BY <1>2 DEF TimersBehind
  <2>1. t.gen \in Nat /\ generation \in Nat /\ generation' \in Nat
    BY <1>2 DEF TypeOK
  <2> QED
    BY <1>2, <2>1 DEF TimersBehind
<1>10. DigestsTrail'
  BY <1>1, <1>3 DEF DigestsTrail, Started, Between, TypeOK
<1> QED
  BY <1>4, <1>5, <1>6, <1>7, <1>8, <1>9, <1>10

\* The machine stops, or does not; a secret changes.
LEMMA OutsideStep ==
  ASSUME IInv, (\E ok \in BOOLEAN : Stopped(ok)) \/ RotateSecret \/ UNCHANGED vars
  PROVE  IInv'
<1> USE DEF IInv
<1>1. UNCHANGED <<proc, policy, disk, fingerprint, boots, handle, active, generation, digests,
                  desired, timers, effect, cancelled, uses, resolved>>
  BY DEF Stopped, RotateSecret, vars, boot, vmState, tasks
<1>2. /\ \/ UNCHANGED <<machine, lock, stopFailed>>
         \/ /\ lock \in {"timer", "stop"} /\ lock' = "free"
            /\ \/ machine' = "stopped" /\ stopFailed' = stopFailed
               \/ machine' = machine /\ stopFailed' = TRUE
      /\ \/ UNCHANGED <<env, missed>>
         \/ env' = env + 1 /\ missed' = (missed \/ Between)
  BY DEF Stopped, RotateSecret, vars, Between, TypeOK
<1>3. TypeOK'
  <2>1. env' \in Nat /\ env <= env'
    BY <1>2 DEF TypeOK
  <2>3. missed' \in BOOLEAN
    BY <1>2, Zenon DEF TypeOK
  <2>2. machine' \in {"stopped", "running"} /\ stopFailed' \in BOOLEAN
        /\ lock' \in Tasks \cup {"free", "timer", "stop"}
    BY <1>2 DEF TypeOK
  <2> QED
    BY <1>1, <2>1, <2>2, <2>3 DEF TypeOK
<1>4. CountExact'
  <2>1. \A e \in Tasks : InUse(e)' <=> InUse(e)
    BY <1>1 DEF InUse
  <2> QED
    BY <1>1, <2>1, AsMany DEF CountExact
<1>5. QuietOutside' /\ CallerHoldsLock' /\ HandleRuns' /\ NoHandleStopped'
      /\ NotStoppedUnderEffect'
  <2>1. CASE UNCHANGED <<machine, lock, stopFailed>>
    BY <1>1, <2>1 DEF QuietOutside, Between, CallerHoldsLock, HandleRuns, NoHandleStopped, Started,
      NotStoppedUnderEffect, InUse, Calling
  <2>2. CASE lock \in {"timer", "stop"} /\ lock' = "free"
    <3>1. ~handle /\ \A e \in Tasks : ~Calling(e)
      BY <2>2, SandboxAssumption DEF CallerHoldsLock, Tasks
    <3>2. proc # "exiting" => \A e \in Tasks : ~InUse(e)
      BY <3>1 DEF NotStoppedUnderEffect
    <3>3. ~Between /\ proc \notin {"down", "booting"}
      BY <2>2 DEF QuietOutside
    <3> QED
      BY <1>1, <1>2, <2>2, <3>1, <3>2, <3>3 DEF QuietOutside, Between, CallerHoldsLock, HandleRuns,
        NoHandleStopped, NotStoppedUnderEffect, InUse, Calling
  <2> QED
    BY <1>2, <2>1, <2>2
<1>6. TimersBehind'
  BY <1>1 DEF TimersBehind
<1>7. DigestsTrail'
  <2>1. Between' <=> Between
    BY <1>1 DEF Between
  <2>2. CASE UNCHANGED <<env, missed>>
    BY <1>1, <2>1, <2>2 DEF DigestsTrail
  <2>3. CASE env' = env + 1 /\ missed' = (missed \/ Between)
    <3>1. digests' <= env' /\ resolved' <= env' /\ desired' <= env'
      BY <1>1, <2>3 DEF DigestsTrail, TypeOK
    <3>2. (missed' \/ digests' <= resolved') /\ (Between' => missed')
      BY <1>1, <2>1, <2>3, Zenon DEF DigestsTrail
    <3> QED
      BY <3>1, <3>2 DEF DigestsTrail
  <2> QED
    BY <1>2, <2>2, <2>3
<1> QED
  BY <1>3, <1>4, <1>5, <1>6, <1>7

\* Every step of the process, the effects, the timers and the environment.
LEMMA NextIInv == IInv /\ [Next]_vars => IInv'
<1> SUFFICES ASSUME IInv, [Next]_vars PROVE IInv'
  OBVIOUS
<1>1. ASSUME NEW e \in Tasks, EffectStep(e) PROVE IInv'
  BY <1>1, AcquireStep, CallStep, ReleaseStep, AskStep DEF EffectStep, Killed
<1>2. ASSUME NEW e \in Effects, Want(e) \/ Cancel(e) PROVE IInv'
  BY <1>2, AskStep DEF Tasks
<1>3. ASSUME NEW e \in Tasks, Finishes(e) PROVE IInv'
  BY <1>3, AskStep
<1> QED
  BY <1>1, <1>2, <1>3, BootStep, CommandStep, StopStep, OutsideStep DEF Next

\* The inductive invariant holds in every reachable state.
THEOREM Invariance == Spec => []IInv
<1> QED
  BY InitIInv, NextIInv, PTL DEF Spec

(***************************************************************************)
(* What it means for the effects.                                          *)
(***************************************************************************)
\* However many effects share the machine, no idle timer and no changed secret
\* stops it under one of them (may_stop(), acquire()).
THEOREM EffectsKeepMachine == Spec => []NotStoppedUnderEffect
<1>1. IInv => NotStoppedUnderEffect
  BY DEF IInv
<1> QED
  BY <1>1, Invariance, PTL

\* Whoever finds the lock free and no handle finds a machine it can start,
\* unless stopping it has failed.
THEOREM NoMachineOrphaned == Spec => []NoOrphan
<1>1. IInv => NoOrphan
  BY SandboxAssumption DEF IInv, NoOrphan, NoHandleStopped, Started, CallerHoldsLock, Calling,
    Tasks
<1> QED
  BY <1>1, Invariance, PTL

\* A timer that was overtaken by an effect takes no machine away: a whole
\* idle window passes after the last use (generation).
THEOREM OvertakenTimersHarmless == Spec => IdleWindowKept
<1> DEFINE Kept == \A t \in timers \ timers' :
             t.used /\ [t EXCEPT !.used = FALSE] \notin timers => handle' = handle \/ proc' = "down"
<1>1. IInv /\ [Next]_vars => [Kept]_vars
  <2> SUFFICES ASSUME IInv, Next, NEW t \in timers \ timers', t.used, proc' # "down"
               PROVE  handle' = handle
    BY DEF Kept
  <2>1. ~MayStop(t)
    BY DEF MayStop, IInv, TimersBehind, TypeOK
  <2>2. ASSUME NEW e \in Tasks, VmBegin(e) PROVE FALSE
    <3>1. t \in [gen: Nat, used: BOOLEAN]
      BY DEF IInv, TypeOK
    <3>2. [gen |-> t.gen, used |-> TRUE] = t
      BY <3>1
    <3> QED
      BY <2>2, <3>2 DEF VmBegin
  <2>3. ASSUME VmFinish PROVE FALSE
    BY <2>3 DEF VmFinish
  <2>4. ASSUME NEW u \in timers, TimerFires(u) PROVE handle' = handle
    BY <2>1, <2>4 DEF TimerFires
  <2>5. ASSUME \/ BootRestart \/ BootBuild \/ BootShare \/ (\E ok \in BOOLEAN : BootProvision(ok))
               \/ BootReady \/ Serve
        PROVE  FALSE
    BY <2>5 DEF BootRestart, BootBuild, BootShare, BootProvision, BootReady, Serve, vmState
  <2>6. ASSUME NEW e \in Tasks, EffectStep(e) PROVE FALSE
    BY <2>2, <2>3, <2>6 DEF EffectStep, AcquireShared, AcquireStopped, AcquireRotated, RotateStops,
      Starts, AcquireFails, Killed, Finishes, Release, vmState
  <2>7. ASSUME \/ \E p \in Policies : Boot(p)
               \/ RotateSecret
               \/ \E e \in Effects : Want(e) \/ Cancel(e)
               \/ \E e \in Tasks : Finishes(e)
               \/ \E ok \in BOOLEAN : Stopped(ok)
               \/ Stop
        PROVE  FALSE
    BY <2>7 DEF Boot, RotateSecret, Want, Finishes, Cancel, Stopped, Stop, vmState
  <2> QED
    BY <2>4, <2>5, <2>6, <2>7 DEF Next, Down
<1>2. [][Kept]_vars => IdleWindowKept
  BY DEF IdleWindowKept
<1> QED
  BY <1>1, <1>2, Invariance, PTL DEF Spec

\* acquire() hands an unused machine out only if it resolved the secrets the
\* environment has now, whatever number of times they changed, in use or not.
\* The digests do not tell of one change, between the two steps of start(), and
\* only until the machine is started again (acquire(), start()).
THEOREM SecretsFreshAlways == Spec => SecretsFresh
<1> DEFINE Fresh == \A e \in Tasks :
             effect[e] = "wanting" /\ effect'[e] = "running" /\ active = 0
               => resolved = env \/ missed
<1>1. IInv /\ [Next]_vars => [Fresh]_vars
  <2> SUFFICES ASSUME IInv, Next, NEW e \in Tasks, effect[e] = "wanting",
                      effect'[e] = "running", active = 0
               PROVE  resolved = env \/ missed
    OBVIOUS
  <2>1. AcquireShared(e)
    <3>1. ASSUME NEW f \in Tasks, EffectStep(f) PROVE f = e /\ AcquireShared(f)
      BY <3>1 DEF EffectStep, AcquireShared, AcquireStopped, AcquireRotated, RotateStops, Starts,
        AcquireFails, Killed, Finishes, Release, VmBegin, IInv, TypeOK
    <3>2. ASSUME NEW f \in Effects, Want(f) \/ Cancel(f) PROVE FALSE
      BY <3>2 DEF Want, Cancel, IInv, TypeOK
    <3>4. ASSUME NEW f \in Tasks, Finishes(f) PROVE FALSE
      BY <3>4 DEF Finishes, IInv, TypeOK
    <3>5. ASSUME BootShare \/ \E ok \in BOOLEAN : BootProvision(ok) PROVE FALSE
      BY <3>5 DEF BootShare, BootProvision, Command, IInv, TypeOK
    <3>3. ASSUME \/ \E p \in Policies : Boot(p)
                 \/ BootRestart \/ BootBuild \/ BootReady \/ Serve \/ Down
                 \/ \E t \in timers : TimerFires(t)
                 \/ Stop
                 \/ \E ok \in BOOLEAN : Stopped(ok)
                 \/ RotateSecret
          PROVE  FALSE
      BY <3>3 DEF Boot, BootRestart, BootBuild, BootReady, Serve, Down, TimerFires, Stop,
        Stopped, RotateSecret, tasks
    <3> QED
      BY <3>1, <3>2, <3>3, <3>4, <3>5 DEF Next
  <2>2. digests = env
    BY <2>1 DEF AcquireShared, IInv, TypeOK
  <2> QED
    BY <2>2 DEF IInv, TypeOK, DigestsTrail
<1>2. [][Fresh]_vars => SecretsFresh
  BY DEF SecretsFresh
<1> QED
  BY <1>1, <1>2, Invariance, PTL DEF Spec
=============================================================================
