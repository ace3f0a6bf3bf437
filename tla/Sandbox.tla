------------------------------- MODULE Sandbox -------------------------------
(***************************************************************************)
(* The micro-VM of src/src/sandbox.rs: one machine with a persistent disk, *)
(* booted by start(), shared by concurrent effects (exec, read_file,       *)
(* write_file), stopped after an idle window, and restarted on demand.     *)
(*                                                                         *)
(* VmState sits behind a tokio mutex that is held across the calls that    *)
(* start and stop the machine: lock names who holds it meanwhile.  A       *)
(* critical section without such a call is one step.                       *)
(***************************************************************************)
EXTENDS Integers, FiniteSets

CONSTANTS
  Effects,       \* tasks that run effects, one at a time each
  Policies,      \* what sandbox.lua may say
  NoPolicy,
  MaxUses,       \* bound: effects ever begun
  MaxRotations,  \* bound: changes of a secret in the host environment
  MaxBoots       \* bound: processes ever started

ASSUME SandboxAssumption ==
  /\ NoPolicy \notin Policies
  /\ MaxUses \in Nat /\ MaxRotations \in Nat /\ MaxBoots \in Nat
  /\ IsFiniteSet(Effects)
  /\ Effects \cap {"free", "timer", "stop", "start"} = {}

VARIABLES
  proc,          \* "down", then what start() is at: "booting", "restarted" or
                 \* "built", "provision", "credentials", "ready"; "up", "exiting"
  policy,        \* of the running process
  disk,          \* the policy the machine's disk was built for
  fingerprint,   \* the file sandbox-fingerprint: a policy
  machine,       \* "stopped" or "running"
  env,           \* how often the secret changed in the host environment
  resolved,      \* the env the machine resolved when it started
  missed,        \* history: the machine is the one start() started, and the
                 \* secret changed before start() read the digests
  lock,          \* who holds the mutex of VmState across a call
  handle,        \* VmState.vm is Some
  active,        \* VmState.active
  generation,    \* VmState.generation
  digests,       \* VmState.secret_digests: an env, 0 when cleared
  desired,       \* what the acquire() that holds the lock wants them to be
  timers,        \* sleeping idle timers: the generation each may stop,
                 \* and (history) whether an effect began since
  effect,        \* what each task is doing
  cancelled,     \* tasks whose cancel flag is set
  uses, boots,   \* bounds
  stopFailed     \* history: stopping the machine has failed

boot == <<proc, policy, disk, fingerprint, boots>>
vmState == <<handle, active, generation, digests, desired, timers>>
tasks == <<effect, cancelled, uses>>
vars == <<boot, vmState, tasks, machine, env, resolved, missed, lock, stopFailed>>

\* Whoever uses the machine: start() runs commands of its own.
Tasks == Effects \cup {"start"}

\* Nothing was built yet, or an earlier process built and provisioned a disk.
Init ==
  /\ proc = "down" /\ policy = NoPolicy
  /\ disk \in Policies \cup {NoPolicy} /\ fingerprint = disk
  /\ machine = "stopped"
  /\ env = 1 /\ resolved = 0 /\ missed = FALSE
  /\ lock = "free" /\ handle = FALSE /\ active = 0 /\ generation = 0
  /\ digests = 0 /\ desired = 0 /\ timers = {}
  /\ effect = [e \in Tasks |-> "idle"] /\ cancelled = {}
  /\ uses = 0 /\ boots = 0 /\ stopFailed = FALSE

(***************************************************************************)
(* start(): the persisted machine is restarted if the policy has not       *)
(* changed, else a new one is built and provisioned.                       *)
(***************************************************************************)
\* A machine that runs belongs to another process, and start() refuses.
Boot(p) ==
  /\ proc = "down"
  /\ boots < MaxBoots
  /\ machine = "stopped"
  /\ boots' = boots + 1
  /\ policy' = p
  /\ proc' = "booting"
  /\ UNCHANGED <<disk, fingerprint, machine, env, resolved, missed, lock, vmState, tasks,
                 stopFailed>>

\* The fingerprint names this policy, and there is a machine to restart.  The
\* call resolves the secrets.
BootRestart ==
  /\ proc = "booting"
  /\ fingerprint = policy
  /\ disk # NoPolicy
  /\ proc' = "restarted"
  /\ machine' = "running"
  /\ resolved' = env /\ missed' = FALSE
  /\ UNCHANGED <<policy, disk, fingerprint, boots, env, lock, vmState, tasks, stopFailed>>

\* It does not, or the restart failed: machine and disk are replaced.
BootBuild ==
  /\ proc = "booting"
  /\ proc' = "built"
  /\ disk' = policy
  /\ machine' = "running"
  /\ resolved' = env /\ missed' = FALSE
  /\ UNCHANGED <<policy, fingerprint, boots, env, lock, vmState, tasks, stopFailed>>

\* A command of start() takes a lease like any other effect.
Command == effect' = [effect EXCEPT !["start"] = "wanting"]

\* The call has returned: the digests are those of now, and VmState is made.
\* A new disk is provisioned, unless the policy asks for nothing.
BootShare ==
  /\ \/ proc = "restarted" /\ proc' = "credentials" /\ Command
     \/ proc = "built" /\ proc' = "provision" /\ (Command \/ UNCHANGED effect)
  /\ digests' = env
  /\ handle' = TRUE /\ active' = 0 /\ generation' = 0
  /\ UNCHANGED <<policy, disk, fingerprint, boots, desired, timers, cancelled, uses, machine,
                 env, resolved, missed, lock, stopFailed>>

\* Provisioning and bootstrap are over (one lease stands for those of all their
\* commands); the fingerprint is written if they succeeded, which they did not
\* if they got no machine.  The credentials of git are next.
BootProvision(ok) ==
  /\ proc = "provision" /\ effect["start"] = "idle"
  /\ ok => handle
  /\ fingerprint' = IF ok THEN policy ELSE fingerprint
  /\ proc' = "credentials" /\ Command
  /\ UNCHANGED <<policy, disk, boots, vmState, cancelled, uses, machine, env, resolved, missed,
                 lock, stopFailed>>

\* start() returns, whatever came of its last command.
BootReady ==
  /\ proc = "credentials" /\ effect["start"] = "idle"
  /\ proc' = "ready"
  /\ UNCHANGED <<policy, disk, fingerprint, boots, vmState, tasks, machine, env, resolved, missed,
                 lock, stopFailed>>

\* main.rs goes on to use the machine at once, for exec and tool.
Serve ==
  /\ proc = "ready"
  /\ proc' = "up"
  /\ UNCHANGED <<policy, disk, fingerprint, boots, vmState, tasks, machine, env, resolved, missed,
                 lock, stopFailed>>

\* start() gives up, the user leaves, or the process dies, at any moment.
\* The machine need not die with it.
Down ==
  /\ proc # "down"
  /\ proc' = "down"
  /\ machine' \in {"stopped", machine}
  /\ lock' = "free" /\ handle' = FALSE /\ active' = 0 /\ generation' = 0
  /\ digests' = 0 /\ desired' = 0 /\ timers' = {}
  /\ effect' = [e \in Tasks |-> "idle"] /\ cancelled' = {}
  /\ stopFailed' = FALSE
  /\ UNCHANGED <<policy, disk, fingerprint, boots, env, resolved, missed, uses>>

(***************************************************************************)
(* VmState.                                                                *)
(***************************************************************************)
VmBegin(e) ==
  /\ active' = active + 1
  /\ generation' = generation + 1
  /\ timers' = {[gen |-> t.gen, used |-> TRUE] : t \in timers}
  /\ effect' = [effect EXCEPT ![e] = "running"]

\* Mutant of VmFinish: the timer is set by the count before this effect ended.
VmFinishLate ==
  /\ active' = IF active = 0 THEN 0 ELSE active - 1
  /\ generation' = generation + 1
  /\ timers' = IF active = 0 THEN timers \cup {[gen |-> generation', used |-> FALSE]}
               ELSE timers

VmFinish ==
  /\ active' = IF active = 0 THEN 0 ELSE active - 1
  /\ generation' = generation + 1
  /\ timers' = IF active' = 0 THEN timers \cup {[gen |-> generation', used |-> FALSE]}
               ELSE timers

\* Mutant of MayStop: only the count decides.
MayStopIdle(t) == active = 0

MayStop(t) == active = 0 /\ generation = t.gen

(***************************************************************************)
(* One effect: acquire(), the command, release().                          *)
(***************************************************************************)
Live == proc \in {"up", "exiting"}

Want(e) ==
  /\ Live
  /\ effect[e] = "idle"
  /\ uses < MaxUses
  /\ uses' = uses + 1
  /\ effect' = [effect EXCEPT ![e] = "wanting"]
  /\ cancelled' = cancelled \ {e}
  /\ UNCHANGED <<boot, vmState, machine, env, resolved, missed, lock, stopFailed>>

\* Mutant of AcquireShared: any running machine will do.
AcquireSharedStale(e) ==
  /\ effect[e] = "wanting" /\ lock = "free"
  /\ handle
  /\ VmBegin(e)
  /\ UNCHANGED <<boot, handle, digests, desired, cancelled, uses, machine, env, resolved, missed,
                 lock, stopFailed>>

\* The machine runs and is in use, or was started with the secrets of now.
AcquireShared(e) ==
  /\ effect[e] = "wanting" /\ lock = "free"
  /\ handle
  /\ active > 0 \/ digests = env
  /\ VmBegin(e)
  /\ UNCHANGED <<boot, handle, digests, desired, cancelled, uses, machine, env, resolved, missed,
                 lock, stopFailed>>

AcquireStopped(e) ==
  /\ effect[e] = "wanting" /\ lock = "free"
  /\ ~handle
  /\ lock' = e
  /\ desired' = env
  /\ effect' = [effect EXCEPT ![e] = "starting"]
  /\ UNCHANGED <<boot, handle, active, generation, digests, timers, cancelled, uses,
                 machine, env, resolved, missed, stopFailed>>

\* Mutant of AcquireRotated: also while other effects run.
AcquireRotatedInUse(e) ==
  /\ effect[e] = "wanting" /\ lock = "free"
  /\ handle /\ digests # env
  /\ lock' = e
  /\ desired' = env
  /\ handle' = FALSE
  /\ effect' = [effect EXCEPT ![e] = "rotating"]
  /\ UNCHANGED <<boot, active, generation, digests, timers, cancelled, uses, machine, env,
                 resolved, missed, stopFailed>>

\* Idle, but with secrets that have changed: the machine is cycled.
AcquireRotated(e) ==
  /\ effect[e] = "wanting" /\ lock = "free"
  /\ handle /\ active = 0 /\ digests # env
  /\ lock' = e
  /\ desired' = env
  /\ handle' = FALSE
  /\ effect' = [effect EXCEPT ![e] = "rotating"]
  /\ UNCHANGED <<boot, active, generation, digests, timers, cancelled, uses, machine, env,
                 resolved, missed, stopFailed>>

\* Mutant of RotateStops: the machine is not stopped first.
RotateStopsSkipped(e) ==
  /\ effect[e] = "rotating"
  /\ effect' = [effect EXCEPT ![e] = "starting"]
  /\ UNCHANGED <<boot, vmState, cancelled, uses, machine, env, resolved, missed, lock, stopFailed>>

RotateStops(e) ==
  /\ effect[e] = "rotating"
  /\ machine' = "stopped"
  /\ effect' = [effect EXCEPT ![e] = "starting"]
  /\ UNCHANGED <<boot, vmState, cancelled, uses, env, resolved, missed, lock, stopFailed>>

\* The machine starts and resolves the secrets of that moment.
Starts(e) ==
  /\ effect[e] = "starting"
  /\ machine = "stopped"
  /\ machine' = "running"
  /\ resolved' = env /\ missed' = FALSE
  /\ handle' = TRUE
  /\ digests' = desired
  /\ lock' = "free"
  /\ VmBegin(e)
  /\ UNCHANGED <<boot, desired, cancelled, uses, env, stopFailed>>

\* A call fails: the effect does too, and there is no handle.
AcquireFails(e) ==
  /\ effect[e] \in {"starting", "rotating"}
  /\ lock' = "free"
  /\ effect' = [effect EXCEPT ![e] = "idle"]
  /\ stopFailed' = (stopFailed \/ effect[e] = "rotating")
  /\ UNCHANGED <<boot, vmState, cancelled, uses, machine, env, resolved, missed>>

\* The command ends, fails or times out ...
Finishes(e) ==
  /\ effect[e] = "running"
  /\ effect' = [effect EXCEPT ![e] = "done"]
  /\ UNCHANGED <<boot, vmState, cancelled, uses, machine, env, resolved, missed, lock, stopFailed>>

\* ... or hangs until the flag is set, which kills it.
Cancel(e) ==
  /\ effect[e] # "idle"
  /\ e \notin cancelled
  /\ cancelled' = cancelled \cup {e}
  /\ UNCHANGED <<boot, vmState, effect, uses, machine, env, resolved, missed, lock, stopFailed>>

\* Mutant of Killed: the command is not given the flag.
KilledIgnored(e) ==
  /\ e \notin cancelled
  /\ Finishes(e)

Killed(e) ==
  /\ e \in cancelled
  /\ Finishes(e)

Release(e) ==
  /\ effect[e] = "done" /\ lock = "free"
  /\ VmFinish
  /\ effect' = [effect EXCEPT ![e] = "idle"]
  /\ UNCHANGED <<boot, handle, digests, desired, cancelled, uses, machine, env, resolved, missed,
                 lock, stopFailed>>

(***************************************************************************)
(* Stopping: an idle timer, or stop() when the process leaves.             *)
(***************************************************************************)
TimerFires(t) ==
  /\ lock = "free"
  /\ timers' = timers \ {t}
  /\ IF MayStop(t)
     THEN /\ digests' = 0
          /\ handle' = FALSE
          /\ lock' = IF handle THEN "timer" ELSE "free"
     ELSE UNCHANGED <<digests, handle, lock>>
  /\ UNCHANGED <<boot, active, generation, desired, tasks, machine, env, resolved, missed,
                 stopFailed>>

\* main.rs: right after start(), before the terminal, and when the user leaves.
Stop ==
  /\ lock = "free"
  /\ \/ proc = "ready" /\ proc' = "up"
     \/ proc = "up" /\ proc' = "exiting"
  /\ active' = 0
  /\ generation' = generation + 1
  /\ digests' = 0
  /\ handle' = FALSE
  /\ lock' = IF handle THEN "stop" ELSE "free"
  /\ UNCHANGED <<policy, disk, fingerprint, boots, desired, timers, tasks, machine, env,
                 resolved, missed, stopFailed>>

\* The call to stop the machine returns, perhaps with an error.
Stopped(ok) ==
  /\ lock \in {"timer", "stop"}
  /\ lock' = "free"
  /\ machine' = IF ok THEN "stopped" ELSE machine
  /\ stopFailed' = (stopFailed \/ ~ok)
  /\ UNCHANGED <<boot, vmState, tasks, env, resolved, missed>>

RotateSecret ==
  /\ env <= MaxRotations
  /\ env' = env + 1
  /\ missed' = (missed \/ proc \in {"restarted", "built"})
  /\ UNCHANGED <<boot, vmState, tasks, machine, resolved, lock, stopFailed>>

EffectStep(e) ==
  \/ AcquireShared(e) \/ AcquireStopped(e) \/ AcquireRotated(e)
  \/ RotateStops(e) \/ Starts(e) \/ AcquireFails(e)
  \/ Killed(e) \/ Release(e)

Next ==
  \/ \E p \in Policies : Boot(p)
  \/ BootRestart \/ BootBuild \/ BootShare \/ (\E ok \in BOOLEAN : BootProvision(ok))
  \/ BootReady \/ Serve \/ Down
  \/ \E e \in Effects : Want(e) \/ Cancel(e)
  \/ \E e \in Tasks : EffectStep(e) \/ Finishes(e)
  \/ \E t \in timers : TimerFires(t)
  \/ Stop
  \/ \E ok \in BOOLEAN : Stopped(ok)
  \/ RotateSecret

Spec == Init /\ [][Next]_vars

(***************************************************************************)
(* The mutex is first come, first served, calls to the machine return, and *)
(* timers ring; a command ends for certain only when it is killed.         *)
(***************************************************************************)
FairSpec ==
  /\ Spec
  /\ \A e \in Effects : SF_vars(EffectStep(e))
  /\ SF_vars(\E t \in timers : TimerFires(t))
  /\ WF_vars(\E ok \in BOOLEAN : Stopped(ok))

(***************************************************************************)
(* Properties.                                                             *)
(***************************************************************************)
InUse(e) == effect[e] \in {"running", "done"}

\* VmState, the tasks and the machine are in states the code has.
TypeOK ==
  /\ proc \in {"down", "booting", "restarted", "built", "provision", "credentials", "ready",
              "up", "exiting"}
  /\ policy \in Policies \cup {NoPolicy}
  /\ disk \in Policies \cup {NoPolicy} /\ fingerprint \in Policies \cup {NoPolicy}
  /\ machine \in {"stopped", "running"}
  /\ env \in Nat /\ resolved \in Nat /\ digests \in Nat /\ desired \in Nat
  /\ active \in Nat /\ generation \in Nat /\ uses \in Nat /\ boots \in Nat
  /\ lock \in Tasks \cup {"free", "timer", "stop"}
  /\ handle \in BOOLEAN /\ stopFailed \in BOOLEAN /\ missed \in BOOLEAN
  /\ timers \subseteq [gen: Nat, used: BOOLEAN]
  /\ effect \in [Tasks -> {"idle", "wanting", "starting", "rotating", "running", "done"}]
  /\ cancelled \subseteq Effects

\* The machine is never stopped under an effect or a command of start(),
\* neither by an idle timer nor for a changed secret; only the end of the process
\* does that (may_stop(), acquire(), the count in VmState).
NotStoppedUnderEffect ==
  proc # "exiting" => \A e \in Tasks : InUse(e) => machine = "running" /\ handle

\* A timer that an effect has overtaken does nothing: the machine stays up
\* for a whole idle window after its last use (generation).
IdleWindowKept ==
  [][\A t \in timers \ timers' :
       t.used /\ [t EXCEPT !.used = FALSE] \notin timers => handle' = handle \/ proc' = "down"]_vars

\* An effect that finds the machine unused and keeps it gets the secrets of the
\* time it asks, however often they changed and whoever started the machine
\* (secret_digests).  The one exception is the machine of start(), until it is
\* started again, if the secret changed between the call that started it and the
\* digests that start() read after it.
SecretsFresh ==
  [][\A e \in Tasks :
       effect[e] = "wanting" /\ effect'[e] = "running" /\ active = 0
         => resolved = env \/ missed]_vars

\* What README.md says of a changed secret, without that exception.
SecretsCurrent ==
  [][\A e \in Effects :
       effect[e] = "wanting" /\ effect'[e] = "running" /\ active = 0 => resolved = env]_vars

\* The pool knows its machine: whoever waits for the lock finds a machine with
\* a handle, or one it can start; none runs without a handle unless stopping it
\* failed, and the count of users never falls below zero (acquire, finish).
NoOrphan ==
  /\ TypeOK
  /\ proc \in {"provision", "credentials", "ready", "up"} /\ lock = "free" /\ ~handle
       => machine = "stopped" \/ stopFailed

\* A machine nobody uses is stopped in the end (the timer of release()).
IdleMachineStops ==
  (proc = "up" /\ machine = "running" /\ \A e \in Effects : effect[e] = "idle")
    ~> (machine = "stopped" \/ stopFailed \/ proc # "up" \/ \E e \in Effects : effect[e] # "idle")

\* A cancelled effect ends even if its command hangs (exec()).
CancelReleases ==
  \A e \in Effects : (e \in cancelled) ~> (effect[e] = "idle")

\* A machine that start() says is ready has the disk of its policy.
DiskMatches == proc = "up" => disk = policy
=============================================================================
