------------------------------- MODULE MCLane -------------------------------
(***************************************************************************)
(* Small instances of a lane for TLC.                                      *)
(***************************************************************************)
EXTENDS LaneProperties, TLC

Says == [stop |-> "stop", calls |-> <<>>, error |-> "none"]
Calls(names) == [stop |-> "tool_use", calls |-> names, error |-> "none"]
Truncated(names) == [stop |-> "length", calls |-> names, error |-> "none"]
Fails(error) == [stop |-> "error", calls |-> <<>>, error |-> error]

NoChoices == [runs |-> 0, compacts |-> 0, navigations |-> 0, steer |-> 0, followUp |-> 0,
              writes |-> 0, nextRun |-> 0, aborts |-> 0, crashes |-> 0, hooks |-> 0,
              turns |-> 0]

OnePrompt == {1}
AllQueues == {"steer", "followUp", "writes"}
NoTools == {[x \in {} |-> "none"]}

\* One run, no tools, whole queues at a time, no compaction.
Plain(bounds) ==
  [responses |-> {Says}, registries |-> NoTools, compaction |-> FALSE,
   steering |-> "all", followUp |-> "all", bounds |-> bounds]
WithTool(replay, bounds) ==
  LET name == IF replay = "safe" THEN "read" ELSE "bash" IN
  [Plain(bounds) EXCEPT !.responses = {Says, Calls(<<name>>)},
                        !.registries = {name :> replay}]

\* A scenario with every choice but those of one kind: three or four kinds meet, in every
\* way there is to leave one of them out.
Lacking(full, kind) == [full EXCEPT !.bounds[kind] = 0]

\* A batch of a replayable and an unsafe call, under crashes and aborts.
Batch ==
  [Plain([NoChoices EXCEPT !.runs = 1, !.steer = 1, !.aborts = 1, !.crashes = 1,
                           !.hooks = 1, !.turns = 1])
     EXCEPT !.responses = {Says, Calls(<<"read", "bash">>), Truncated(<<"bash">>)},
            !.registries = {[read |-> "safe", bash |-> "never"],
                            [read |-> "never", bash |-> "safe"],
                            [read |-> "safe"]}]
ToolTurns ==
  [hookless |-> Lacking(Batch, "hooks"), unsteered |-> Lacking(Batch, "steer"),
   uncrashed |-> Lacking(Batch, "crashes")]

\* Input of every kind around a run that may fail.
Inputs ==
  [Plain([NoChoices EXCEPT !.runs = 1, !.steer = 1, !.followUp = 1, !.writes = 1,
                           !.hooks = 1])
     EXCEPT !.responses = {Says, Fails("fatal")}, !.steering = "one"]
\* A run that compacts, is aborted, or dies and is resumed.
Aborts ==
  [Plain([NoChoices EXCEPT !.runs = 1, !.hooks = 1, !.aborts = 1, !.crashes = 1])
     EXCEPT !.responses = {Says, Fails("overflow")}, !.compaction = TRUE,
            !.followUp = "one"]
\* A compaction, a navigation and input for the next run around a run.
Around ==
  Plain([NoChoices EXCEPT !.runs = 1, !.compacts = 1, !.hooks = 1, !.crashes = 1,
                          !.navigations = 1, !.nextRun = 1])
Turns ==
  [inputs |-> Lacking(Inputs, "hooks"), noSteer |-> Lacking(Inputs, "steer"),
   noFollowUp |-> Lacking(Inputs, "followUp"), noWrites |-> Lacking(Inputs, "writes"),
   aborts |-> Aborts,
   diesTwice |-> [Lacking(Aborts, "hooks") EXCEPT !.bounds.crashes = 2],
   hookless |-> Lacking(Around, "hooks"), uncrashed |-> Lacking(Around, "crashes")]

\* Liveness.
Ends == [ends |->
  [WithTool("never", [NoChoices EXCEPT !.runs = 1, !.steer = 1, !.turns = 1, !.crashes = 1,
                                       !.aborts = 1])
     EXCEPT !.responses = {Says, Fails("retryable"), Calls(<<"bash">>)}]]

\* The disagreements, each within the fewest choices that show it.
Steered == [s |-> WithTool("never", [NoChoices EXCEPT !.runs = 1, !.steer = 1, !.turns = 1])]
Written == [s |-> Plain([NoChoices EXCEPT !.runs = 1, !.writes = 1, !.steer = 1])]
AbortOfTwo == [s |-> Plain([NoChoices EXCEPT !.runs = 2, !.aborts = 1])]
CompactRace == [s |-> Plain([NoChoices EXCEPT !.runs = 2, !.compacts = 1])]
CompactAbort == [s |-> Plain([NoChoices EXCEPT !.runs = 1, !.compacts = 1, !.aborts = 1])]
Replayed == [s |-> WithTool("safe", [NoChoices EXCEPT !.runs = 1, !.aborts = 1, !.crashes = 1,
                                                      !.turns = 1])]
Navigated == [s |-> WithTool("never", [NoChoices EXCEPT !.runs = 2, !.navigations = 1, !.turns = 1])]
=============================================================================
