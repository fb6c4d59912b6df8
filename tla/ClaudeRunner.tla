----------------------------- MODULE ClaudeRunner -----------------------------
(***************************************************************************)
(* One run of the claude CLI: the process and a child of it, the two pipes, *)
(* the goroutines that parse stdout, collect signals and drain stderr, and  *)
(* Run, which waits for them one after the other (claude/runner.go,         *)
(* claude/stream/parser.go).                                                *)
(***************************************************************************)
EXTENDS Naturals, Sequences

CONSTANTS
  MaxEvents, \* bound: lines claude writes to stdout
  PipeCap,   \* lines that fit into a pipe
  ChanCap,   \* signals that fit into signalCh
  WithChild  \* TRUE: claude may start a process that outlives it

ASSUME ClaudeRunnerAssumption ==
  /\ MaxEvents \in Nat /\ PipeCap \in Nat \ {0} /\ ChanCap \in Nat \ {0}
  /\ WithChild \in BOOLEAN

\* Lines by what ParseStream does with them.
Results == {"success", "rate_limit_result", "login_result", "error_result"}
Events == {"other", "oversized", "text", "allowed", "limited", "api_key"} \cup Results
Signals == {"text", "allowed"} \cup Results
Errors == {"limited", "login", "result", "scan", "context"}
None == "none"

VARIABLES
  claude,    \* alive, or its exit: zero, nonzero, killed
  child,     \* a process that holds stdout and stderr open
  emitted,   \* lines begun so far
  writing,   \* the line claude is writing, or None
  stdout,    \* the pipe
  complains, \* stderr says "please login"
  cancelled, \* the context
  main,      \* Run: gate, parse, collect, stderr, wait, returned
  parser,    \* reading, sending, returned
  sending,   \* the line it holds, or None
  parseErr,
  signalCh,
  closed,
  collector, \* reading, done
  collected, \* textParts, usage and result
  drained,   \* stderr was read to its end
  outcome,   \* what Run returned: an error or "ok", "exit", "window", None
  parsed,    \* history: signals the parser sent
  limitSeen  \* history: the parser met a rate limit

process == <<claude, child, emitted, writing, complains, cancelled>>
parsing == <<parser, sending, parseErr, limitSeen>>
signals == <<signalCh, closed, collector, collected, parsed>>
running == <<main, drained, outcome>>
vars == <<process, stdout, parsing, signals, running>>

TypeOK ==
  /\ claude \in {"alive", "zero", "nonzero", "killed"}
  /\ child \in BOOLEAN /\ complains \in BOOLEAN /\ cancelled \in BOOLEAN
  /\ closed \in BOOLEAN /\ drained \in BOOLEAN
  /\ emitted \in 0..MaxEvents
  /\ writing \in Events \cup {None} /\ (writing # None => claude = "alive")
  /\ stdout \in Seq(Events) /\ Len(stdout) =< PipeCap
  /\ main \in {"gate", "parse", "collect", "stderr", "wait", "returned"}
  /\ parser \in {"reading", "sending", "returned"}
  /\ sending \in Signals \cup {None} /\ (sending # None <=> parser = "sending")
  /\ parseErr \in Errors \cup {None}
  /\ signalCh \in Seq(Signals) /\ Len(signalCh) =< ChanCap
  /\ closed => parser = "returned"     \* nobody sends on a closed channel
  /\ collector \in {"reading", "done"}
  /\ collected \in Seq(Signals) /\ parsed \in Seq(Signals)
  /\ outcome \in Errors \cup {None, "ok", "exit", "window"}
  /\ limitSeen \in BOOLEAN
  /\ outcome # None <=> main = "returned"

Init ==
  /\ claude = "alive" /\ child = FALSE /\ emitted = 0 /\ writing = None
  /\ complains = FALSE
  /\ stdout = <<>>
  /\ cancelled = FALSE
  /\ main = "gate"
  /\ parser = "reading" /\ sending = None /\ parseErr = None
  /\ signalCh = <<>> /\ closed = FALSE
  /\ collector = "reading" /\ collected = <<>>
  /\ drained = FALSE
  /\ outcome = None
  /\ parsed = <<>> /\ limitSeen = FALSE

Started == main \notin {"gate", "returned"}

-----------------------------------------------------------------------------
(* The processes                                                            *)

\* claude has a line to say; a result need not be the last.
Say(e) ==
  /\ Started /\ claude = "alive" /\ writing = None /\ emitted < MaxEvents
  /\ writing' = e /\ emitted' = emitted + 1
  /\ UNCHANGED <<claude, child, complains, cancelled, stdout, parsing, signals, running>>

\* The write returns once the line fits into the pipe.
Write ==
  /\ writing # None /\ Len(stdout) < PipeCap
  /\ stdout' = Append(stdout, writing)
  /\ writing' = None
  /\ UNCHANGED <<claude, child, emitted, complains, cancelled, parsing, signals, running>>

Exit(code) ==
  /\ Started /\ claude = "alive" /\ writing = None
  /\ claude' = code
  /\ complains' \in BOOLEAN
  /\ UNCHANGED <<child, emitted, writing, cancelled, stdout, parsing, signals, running>>

SpawnChild ==
  /\ WithChild /\ Started /\ claude = "alive" /\ ~child
  /\ child' = TRUE
  /\ UNCHANGED <<claude, emitted, writing, complains, cancelled, stdout, parsing, signals, running>>

ChildExits ==
  /\ child
  /\ child' = FALSE
  /\ UNCHANGED <<claude, emitted, writing, complains, cancelled, stdout, parsing, signals, running>>

\* A stop request or a shutdown.
Cancel ==
  /\ ~cancelled
  /\ cancelled' = TRUE
  /\ UNCHANGED <<claude, child, emitted, writing, complains, stdout, parsing, signals, running>>

\* Mutant: only a parse that noticed the cancellation leads to a kill.
KillOnContext ==
  /\ Started /\ cancelled /\ claude = "alive" /\ parseErr = "context"
  /\ claude' = "killed" /\ writing' = None
  /\ UNCHANGED <<child, emitted, complains, cancelled, stdout, parsing, signals, running>>

\* exec.CommandContext kills the process it started, and no other.
Kill ==
  /\ Started /\ cancelled /\ claude = "alive"
  /\ claude' = "killed" /\ writing' = None
  /\ UNCHANGED <<child, emitted, complains, cancelled, stdout, parsing, signals, running>>

AtEOF == claude # "alive" /\ ~child

-----------------------------------------------------------------------------
(* ParseStream                                                              *)

ParseReturns(err) ==
  /\ parser' = "returned" /\ sending' = None
  /\ parseErr' = err /\ limitSeen' = (err = "limited")

ErrorOf(e) ==
  CASE e = "oversized" -> "scan"
    [] e \in {"limited", "rate_limit_result"} -> "limited"
    [] e \in {"api_key", "login_result"} -> "login"
    [] e = "error_result" -> "result"
    [] OTHER -> None

\* The next line; one of more than a megabyte ends the scan.
Parse ==
  LET e == Head(stdout) IN
  /\ Started /\ parser = "reading" /\ stdout # <<>>
  /\ stdout' = Tail(stdout)
  /\ IF e = "oversized" THEN ParseReturns(ErrorOf(e))
     ELSE IF cancelled THEN ParseReturns("context")
     ELSE IF e \in Signals THEN parser' = "sending" /\ sending' = e /\ UNCHANGED <<parseErr, limitSeen>>
     ELSE IF e \in {"limited", "api_key"} THEN ParseReturns(ErrorOf(e))
     ELSE UNCHANGED parsing
  /\ UNCHANGED <<process, signals, running>>

\* ch <- signal, or ctx.Done(); a result ends the parse.
Send ==
  /\ parser = "sending"
  /\ \/ /\ Len(signalCh) < ChanCap
        /\ signalCh' = Append(signalCh, sending)
        /\ parsed' = Append(parsed, sending)
        /\ IF sending \in Results THEN ParseReturns(ErrorOf(sending))
           ELSE parser' = "reading" /\ sending' = None /\ UNCHANGED <<parseErr, limitSeen>>
     \/ /\ cancelled
        /\ ParseReturns("context")
        /\ UNCHANGED <<signalCh, parsed>>
  /\ UNCHANGED <<process, stdout, closed, collector, collected, running>>

\* The end of stdout, with no result seen.
ParseEOF ==
  /\ Started /\ parser = "reading" /\ stdout = <<>> /\ AtEOF
  /\ ParseReturns(None)
  /\ UNCHANGED <<process, stdout, signals, running>>

-----------------------------------------------------------------------------
(* Run                                                                      *)

\* for sig := range signalCh.
Collect ==
  /\ collector = "reading"
  /\ \/ /\ signalCh # <<>>
        /\ collected' = Append(collected, Head(signalCh))
        /\ signalCh' = Tail(signalCh)
        /\ UNCHANGED collector
     \/ /\ signalCh = <<>> /\ closed
        /\ collector' = "done"
        /\ UNCHANGED <<collected, signalCh>>
  /\ UNCHANGED <<process, stdout, parsing, closed, parsed, running>>

\* io.ReadAll(stderr).
Drain ==
  /\ Started /\ ~drained /\ AtEOF
  /\ drained' = TRUE
  /\ UNCHANGED <<process, stdout, parsing, signals, main, outcome>>

Return(result) == main' = "returned" /\ outcome' = result

\* The window gate, the pipes and cmd.Start.
Gate ==
  /\ main = "gate"
  /\ \/ main' = "parse" /\ UNCHANGED outcome
     \/ \E failure \in {"window", "exit"} : Return(failure)
  /\ UNCHANGED <<process, stdout, parsing, signals, drained>>

\* Mutant: the channel is never closed.
AwaitParseOpen ==
  /\ main = "parse" /\ parser = "returned"
  /\ main' = "collect"
  /\ UNCHANGED <<process, stdout, parsing, signals, drained, outcome>>

\* <-parseErrCh, close(signalCh).
AwaitParse ==
  /\ main = "parse" /\ parser = "returned"
  /\ closed' = TRUE
  /\ main' = "collect"
  /\ UNCHANGED <<process, stdout, parsing, signalCh, collector, collected, parsed, drained, outcome>>

\* Mutant: the collector is not waited for.
AwaitCollectNot ==
  /\ main = "collect"
  /\ main' = "stderr"
  /\ UNCHANGED <<process, stdout, parsing, signals, drained, outcome>>

\* <-collectDone.
AwaitCollect ==
  /\ main = "collect" /\ collector = "done"
  /\ main' = "stderr"
  /\ UNCHANGED <<process, stdout, parsing, signals, drained, outcome>>

\* Mutant: what stderr says goes first.
AwaitStderrFirst ==
  /\ main = "stderr" /\ drained
  /\ parseErr' = IF complains THEN "login" ELSE parseErr
  /\ main' = "wait"
  /\ UNCHANGED <<process, stdout, parser, sending, limitSeen, signals, drained, outcome>>

\* <-stderrCh; its text decides only when the parse found no error.
AwaitStderr ==
  /\ main = "stderr" /\ drained
  /\ parseErr' = IF parseErr = None /\ complains THEN "login" ELSE parseErr
  /\ main' = "wait"
  /\ UNCHANGED <<process, stdout, parser, sending, limitSeen, signals, drained, outcome>>

\* cmd.Wait and the result.
Wait ==
  /\ main = "wait" /\ claude # "alive"
  /\ Return(IF parseErr # None THEN parseErr ELSE IF claude # "zero" THEN "exit" ELSE "ok")
  /\ UNCHANGED <<process, stdout, parsing, signals, drained>>

-----------------------------------------------------------------------------
Next ==
  \/ \E e \in Events : Say(e)
  \/ \E code \in {"zero", "nonzero"} : Exit(code)
  \/ Write \/ SpawnChild \/ ChildExits \/ Cancel \/ Kill
  \/ Parse \/ Send \/ ParseEOF \/ Collect \/ Drain
  \/ Gate \/ AwaitParse \/ AwaitCollect \/ AwaitStderr \/ Wait

Spec == Init /\ [][Next]_vars

\* Every goroutine goes on; a write that can return does; claude comes to an
\* end, and a cancelled context kills it.
Fairness ==
  /\ WF_vars(Write) /\ WF_vars(\E code \in {"zero", "nonzero"} : Exit(code)) /\ WF_vars(Kill)
  /\ WF_vars(Parse) /\ WF_vars(Send) /\ WF_vars(ParseEOF) /\ WF_vars(Collect) /\ WF_vars(Drain)
  /\ WF_vars(Gate \/ AwaitParse \/ AwaitCollect \/ AwaitStderr \/ Wait)

\* What claude started may run on for as long as it likes.
DaemonSpec == Spec /\ Fairness

FairSpec == DaemonSpec /\ WF_vars(ChildExits)

-----------------------------------------------------------------------------
\* A run that is reported as a success carries every signal the parser sent, in
\* order, the result with its cost the last: the parser, the channel and the
\* collector are through before the result is read (Run).
ResultCollected == outcome = "ok" => collected = parsed

\* claude-ops.md:94: a limit the parser has seen is what Run reports, whatever
\* stderr says and however the process ended, so that the block is recorded.
LimitReported == outcome # None => (outcome = "limited" <=> limitSeen)

\* claude-ops.md:62: Run returns after a stop, whether claude is silent, talking
\* or blocked in a write that nobody reads.
StopReturns == cancelled /\ main # "gate" ~> main = "returned"

\* Run returns by itself, except when the parser left early and claude has more
\* to say than fits into the pipe.
Abandoned == parser = "returned" /\ writing # None /\ Len(stdout) = PipeCap
RunReturns == main = "parse" ~> (main = "returned" \/ Abandoned)

-----------------------------------------------------------------------------
(* What the documentation says and the code does not do                     *)

\* claude-ops.md:94: a rate limit ends the run, and the block is recorded.
LimitEndsRun == limitSeen ~> main = "returned"

\* usage-dashboard.md:24, G1: the cost of every run whose result was received
\* is kept, also when the run fails.
UsageKept ==
  outcome # None /\ (\E i \in 1..Len(parsed) : parsed[i] \in Results) => outcome = "ok"
=============================================================================
