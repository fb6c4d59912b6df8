----------------------------- MODULE QualityGate -----------------------------
(***************************************************************************)
(* The quality gate (qualitygate/gate.go): a repository's commands, one    *)
(* after the other, each a shell in a process group of its own, under a    *)
(* timer of its own.                                                       *)
(*                                                                         *)
(* A command may start helpers.  A "piped" one stays in the group and      *)
(* holds the command's output, a "quiet" one stays in the group with its   *)
(* output redirected, an "escaped" one has left the group and holds the    *)
(* output.  cmd.Wait returns when the shell has exited and the last holder *)
(* has closed the output; nothing obliges a process to obey SIGTERM.       *)
(***************************************************************************)
EXTENDS Naturals, FiniteSets

CONSTANTS Commands,     \* number of commands configured, 0 for no gate
          HelperKinds   \* what a command may start

ASSUME GateAssumption ==
  /\ Commands \in Nat
  /\ HelperKinds \subseteq {"piped", "quiet", "escaped"}

VARIABLES
  gate,      \* where Gate.Run is
  cmd,       \* the command it is at
  leader,    \* the shell of that command
  helpers,   \* <<kind, i>>: a live helper that command i started
  expired,   \* the command's timer has fired
  stopped,   \* the worker's context is done
  signalled  \* history: commands whose group was sent a signal

gateVars == <<gate, cmd, leader, helpers, expired, stopped, signalled>>

Helpers == HelperKinds \X (1..Commands)

GateTypeOK ==
  /\ gate \in {"next", "wait", "grace", "killed", "passed", "failed"}
  /\ cmd \in 0..Commands
  /\ leader \in {"none", "running", "zero", "nonzero"}
  /\ helpers \subseteq Helpers
  /\ expired \in BOOLEAN /\ stopped \in BOOLEAN
  /\ signalled \subseteq 1..Commands

GateInit ==
  /\ gate = "next"
  /\ cmd = 0
  /\ leader = "none"
  /\ helpers = {}
  /\ expired = FALSE
  /\ stopped = FALSE
  /\ signalled = {}

InGroup(h) == h[2] = cmd /\ h[1] # "escaped"
HoldsOutput(h) == h[2] = cmd /\ h[1] # "quiet"

\* cmd.Wait has returned, so that done can be received from.
WaitReturned ==
  /\ leader \in {"zero", "nonzero"}
  /\ \A h \in helpers : ~HoldsOutput(h)

-----------------------------------------------------------------------------
(* The command's processes *)

\* A child gets of its parent's group and output what the parent has.
Fork(kind) ==
  /\ \/ leader = "running"
     \/ \E h \in helpers :
          /\ kind # "escaped" => InGroup(h)
          /\ kind # "quiet" => HoldsOutput(h)
  /\ helpers' = helpers \cup {<<kind, cmd>>}
  /\ UNCHANGED <<gate, cmd, leader, expired, stopped, signalled>>

\* Of its own accord, or obeying SIGTERM; a shell may trap it and exit 0.
LeaderExits ==
  /\ leader = "running"
  /\ leader' \in {"zero", "nonzero"}
  /\ UNCHANGED <<gate, cmd, helpers, expired, stopped, signalled>>

HelperExits(h) ==
  /\ h \in helpers
  /\ helpers' = helpers \ {h}
  /\ UNCHANGED <<gate, cmd, leader, expired, stopped, signalled>>

-----------------------------------------------------------------------------
(* Gate.Run and ShellRunner.Run *)

\* The next command, with a fresh timeout and without a look at the context.
StartCommand ==
  /\ gate = "next"
  /\ cmd < Commands
  /\ cmd' = cmd + 1
  /\ leader' = "running"
  /\ expired' = FALSE
  /\ gate' = "wait"
  /\ UNCHANGED <<helpers, stopped, signalled>>

SpawnFails ==
  /\ gate = "next"
  /\ cmd < Commands
  /\ gate' = "failed"
  /\ UNCHANGED <<cmd, leader, helpers, expired, stopped, signalled>>

TimerFires ==
  /\ gate = "wait"
  /\ ~expired
  /\ expired' = TRUE
  /\ UNCHANGED <<gate, cmd, leader, helpers, stopped, signalled>>

\* The select, when both of its channels are ready, takes either.
CommandEnds ==
  /\ gate = "wait"
  /\ WaitReturned
  /\ gate' = IF leader = "zero" THEN "next" ELSE "failed"
  /\ UNCHANGED <<cmd, leader, helpers, expired, stopped, signalled>>

ContextEnds ==
  /\ gate = "wait"
  /\ expired \/ stopped
  /\ gate' = "grace"
  /\ signalled' = signalled \cup {cmd}
  /\ UNCHANGED <<cmd, leader, helpers, expired, stopped>>

\* Mutant: the exit status counts although the command was signalled.
EndsInGraceByStatus ==
  /\ gate = "grace"
  /\ WaitReturned
  /\ gate' = IF leader = "zero" THEN "next" ELSE "failed"
  /\ UNCHANGED <<cmd, leader, helpers, expired, stopped, signalled>>

EndsInGrace ==
  /\ gate = "grace"
  /\ WaitReturned
  /\ gate' = "failed"
  /\ UNCHANGED <<cmd, leader, helpers, expired, stopped, signalled>>

\* Mutants: SIGKILL for the shell only; no receive from done afterwards.
KillLeader ==
  /\ gate = "grace"
  /\ gate' = "killed"
  /\ leader' = IF leader = "running" THEN "nonzero" ELSE leader
  /\ UNCHANGED <<cmd, helpers, expired, stopped, signalled>>
KillAndReturn ==
  /\ gate = "grace"
  /\ gate' = "failed"
  /\ leader' = IF leader = "running" THEN "nonzero" ELSE leader
  /\ helpers' = {h \in helpers : ~InGroup(h)}
  /\ UNCHANGED <<cmd, expired, stopped, signalled>>

\* The grace period is over: SIGKILL to the group.
KillGroup ==
  /\ gate = "grace"
  /\ gate' = "killed"
  /\ leader' = IF leader = "running" THEN "nonzero" ELSE leader
  /\ helpers' = {h \in helpers : ~InGroup(h)}
  /\ UNCHANGED <<cmd, expired, stopped, signalled>>

EndsKilled ==
  /\ gate = "killed"
  /\ WaitReturned
  /\ gate' = "failed"
  /\ UNCHANGED <<cmd, leader, helpers, expired, stopped, signalled>>

Pass ==
  /\ gate = "next"
  /\ cmd = Commands
  /\ gate' = "passed"
  /\ UNCHANGED <<cmd, leader, helpers, expired, stopped, signalled>>

\* A stop, or the shutdown of the service.
Stop ==
  /\ ~stopped
  /\ stopped' = TRUE
  /\ UNCHANGED <<gate, cmd, leader, helpers, expired, signalled>>

RunGate ==
  \/ StartCommand \/ SpawnFails \/ CommandEnds \/ ContextEnds
  \/ EndsInGrace \/ KillGroup \/ EndsKilled \/ Pass

Processes ==
  \/ \E kind \in HelperKinds : Fork(kind)
  \/ LeaderExits
  \/ \E h \in helpers : HelperExits(h)
  \/ TimerFires

GateNext == RunGate \/ Processes \/ Stop

-----------------------------------------------------------------------------
\* A command that was told to end, because its time was up or its task was
\* stopped, never counts as passed, whatever status it then exits with
\* (gate.go Run: the ctx.Done branch returns -1 and an error).
SignalledNeverPasses == gate = "passed" => signalled = {}

\* When Run has returned, nobody is left who writes to the command's output:
\* the buffer is read for the report only then (gate.go: every branch receives
\* from done, the one after SIGKILL too).
OutputSettled ==
  gate \in {"next", "passed", "failed"} =>
    leader # "running" /\ \A h \in helpers : ~HoldsOutput(h)
=============================================================================
