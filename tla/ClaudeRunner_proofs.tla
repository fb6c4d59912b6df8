------------------------- MODULE ClaudeRunner_proofs -------------------------
(***************************************************************************)
(* What a run of claude promises, for every number of lines, every size of *)
(* the pipes and of the channel, with and without a process that outlives  *)
(* it: a success carries every signal the parser sent, and a limit the     *)
(* parser met is what Run reports.                                         *)
(***************************************************************************)
EXTENDS ClaudeRunner, SequenceTheorems, TLAPS

USE DEF process, parsing, signals, running

-----------------------------------------------------------------------------
(* Who writes what                                                          *)

\* Only the parser, the collector and Run touch what Run waits for.
Quiet == UNCHANGED <<parser, sending, parseErr, limitSeen, signals, main, outcome>>

LEMMA StepKinds ==
  ASSUME [Next]_vars
  PROVE  \/ Quiet
         \/ Parse \/ Send \/ ParseEOF \/ Collect
         \/ Gate \/ AwaitParse \/ AwaitCollect \/ AwaitStderr \/ Wait
<1>1. CASE \E e \in Events : Say(e)
  BY <1>1 DEF Quiet, Say
<1>2. CASE \E code \in {"zero", "nonzero"} : Exit(code)
  BY <1>2 DEF Quiet, Exit
<1>3. CASE Write \/ SpawnChild \/ ChildExits \/ Cancel \/ Kill \/ Drain \/ UNCHANGED vars
  BY <1>3 DEF vars, Quiet, Write, SpawnChild, ChildExits, Cancel, Kill, Drain
<1> QED
  BY <1>1, <1>2, <1>3 DEF Next

-----------------------------------------------------------------------------
(* The parser holds a line exactly while it sends, and ends in a known way   *)

ParserTyped ==
  /\ sending \in Signals \cup {None} /\ (sending # None <=> parser = "sending")
  /\ parseErr \in Errors \cup {None}

LEMMA ErrorOfTyped == \A e : ErrorOf(e) \in Errors \cup {None}
  BY DEF ErrorOf, Errors, None

LEMMA ParserTypedNext == ParserTyped /\ [Next]_vars => ParserTyped'
<1> SUFFICES ASSUME ParserTyped, [Next]_vars
             PROVE  ParserTyped'
  OBVIOUS
<1>1. CASE Quiet \/ Collect \/ Gate \/ AwaitParse \/ AwaitCollect \/ Wait
  BY <1>1 DEF ParserTyped, Quiet, Collect, Gate, AwaitParse, AwaitCollect, Wait
<1>2. ASSUME NEW err \in Errors \cup {None}, ParseReturns(err)
      PROVE  ParserTyped'
  BY <1>2 DEF ParserTyped, ParseReturns
<1>3. CASE Parse
  <2>1. CASE \E err \in Errors \cup {None} : ParseReturns(err)
    BY <1>2, <2>1
  <2>2. CASE UNCHANGED parsing
    BY <2>2 DEF ParserTyped
  <2>3. CASE /\ Head(stdout) \in Signals /\ sending' = Head(stdout)
             /\ parser' = "sending" /\ UNCHANGED parseErr
    BY <2>3 DEF ParserTyped, Signals, Results, None
  <2> QED
    BY <1>3, <2>1, <2>2, <2>3, ErrorOfTyped DEF Parse, Errors
<1>4. CASE Send
  <2>1. CASE \E err \in Errors \cup {None} : ParseReturns(err)
    BY <1>2, <2>1
  <2>2. CASE parser' = "reading" /\ sending' = None /\ UNCHANGED parseErr
    BY <2>2 DEF ParserTyped
  <2> QED
    BY <1>4, <2>1, <2>2, ErrorOfTyped DEF Send, Errors
<1>5. CASE ParseEOF
  BY <1>2, <1>5 DEF ParseEOF
<1>6. CASE AwaitStderr
  BY <1>6 DEF AwaitStderr, ParserTyped, Errors
<1> QED
  BY <1>1, <1>3, <1>4, <1>5, <1>6, StepKinds

-----------------------------------------------------------------------------
(* Nothing is lost between the parser and the result                        *)

SignalsTyped == signalCh \in Seq(Signals) /\ collected \in Seq(Signals)

\* What was sent is what was collected and what is in the channel.
Channelled == parsed = collected \o signalCh

\* The order in which Run waits: parser, channel, collector.
InOrder ==
  /\ closed => parser = "returned"
  /\ collector = "done" => closed /\ signalCh = <<>>
  /\ main \in {"stderr", "wait"} => collector = "done"
  /\ outcome = "ok" => collector = "done"
  /\ main \in {"collect", "stderr", "wait"} => closed

Collecting == SignalsTyped /\ Channelled /\ InOrder

\* Sent at one end, or received at the other: the whole is the same.
LEMMA AppendMoves ==
  ASSUME NEW c \in Seq(Signals), NEW q \in Seq(Signals), NEW s \in Signals
  PROVE  Append(c \o q, s) = c \o Append(q, s)
<1>1. Append(c \o q, s) = (c \o q) \o <<s>> /\ Append(q, s) = q \o <<s>>
  BY ConcatProperties, AppendIsConcat
<1>2. <<s>> \in Seq(Signals)
  OBVIOUS
<1> QED
  BY <1>1, <1>2, ConcatAssociative

LEMMA HeadMoves ==
  ASSUME NEW c \in Seq(Signals), NEW q \in Seq(Signals), q # <<>>
  PROVE  Append(c, Head(q)) \o Tail(q) = c \o q
<1>1. Head(q) \in Signals /\ Tail(q) \in Seq(Signals) /\ <<Head(q)>> \in Seq(Signals)
  BY HeadTailProperties
<1>2. q = <<Head(q)>> \o Tail(q)
  BY <1>1, HeadTailProperties, ConcatProperties, SeqEqual
<1>3. Append(c, Head(q)) = c \o <<Head(q)>>
  BY <1>1, AppendIsConcat
<1> QED
  BY <1>1, <1>2, <1>3, ConcatAssociative

LEMMA CollectingNext == ParserTyped /\ Collecting /\ [Next]_vars => Collecting'
<1> SUFFICES ASSUME ParserTyped, Collecting, [Next]_vars
             PROVE  Collecting'
  OBVIOUS
<1> USE DEF Collecting, SignalsTyped, Channelled, InOrder
<1>1. CASE Quiet
  BY <1>1 DEF Quiet
<1>2. CASE Parse
  BY <1>2 DEF Parse
<1>3. CASE Send
  <2>1. sending \in Signals /\ parser = "sending" /\ ~closed /\ collector # "done"
    BY <1>3 DEF Send, ParserTyped
  <2>2. UNCHANGED <<closed, collector, collected, main, outcome>>
    BY <1>3 DEF Send
  <2>3. \/ UNCHANGED <<signalCh, parsed>>
        \/ signalCh' = Append(signalCh, sending) /\ parsed' = Append(parsed, sending)
    BY <1>3 DEF Send
  <2>4. Append(collected \o signalCh, sending) = collected \o Append(signalCh, sending)
    BY <2>1, AppendMoves
  <2>5. Channelled'
    BY <2>2, <2>3, <2>4
  <2>6. signalCh' \in Seq(Signals)
    <3>1. Append(signalCh, sending) \in Seq(Signals)
      BY <2>1, AppendProperties
    <3> QED
      BY <2>3, <3>1
  <2> QED
    BY <2>1, <2>2, <2>5, <2>6
<1>4. CASE ParseEOF
  BY <1>4 DEF ParseEOF, ParseReturns
<1>5. CASE Collect
  <2>1. CASE signalCh # <<>>
    <3>1. Head(signalCh) \in Signals /\ Tail(signalCh) \in Seq(Signals)
      BY <2>1, HeadTailProperties
    <3>2. Append(collected, Head(signalCh)) \o Tail(signalCh) = collected \o signalCh
      BY <2>1, HeadMoves
    <3>3. /\ collected' = Append(collected, Head(signalCh))
          /\ signalCh' = Tail(signalCh)
          /\ UNCHANGED <<parser, closed, collector, main, parsed, outcome>>
      BY <1>5, <2>1 DEF Collect
    <3>4. collected' \in Seq(Signals)
      BY <3>1, <3>3, AppendProperties
    <3>5. collector # "done"
      BY <1>5 DEF Collect
    <3> QED
      BY <3>1, <3>2, <3>3, <3>4, <3>5
  <2>2. CASE signalCh = <<>>
    BY <1>5, <2>2 DEF Collect
  <2> QED
    BY <2>1, <2>2
<1>6. CASE Gate \/ Wait
  <2>1. UNCHANGED <<parser, signalCh, closed, collector, collected, parsed>>
    BY <1>6 DEF Gate, Wait
  <2>2. main' \in {"parse", "returned"}
    BY <1>6 DEF Gate, Wait, Return
  <2>3. outcome' = "ok" => collector = "done"
    BY <1>6 DEF Gate, Wait, Return
  <2> QED
    BY <2>1, <2>2, <2>3
<1>7. CASE AwaitParse \/ AwaitCollect \/ AwaitStderr
  BY <1>7 DEF AwaitParse, AwaitCollect, AwaitStderr
<1> QED
  BY <1>1, <1>2, <1>3, <1>4, <1>5, <1>6, <1>7, StepKinds

LEMMA ParserTypedAlways == Spec => []ParserTyped
<1>1. Init => ParserTyped
  BY DEF Init, ParserTyped, None
<1> QED
  BY <1>1, ParserTypedNext, PTL DEF Spec

LEMMA CollectingAlways == Spec => []Collecting
<1>1. Init => Collecting
  <2>1. <<>> \in Seq(Signals) /\ <<>> \o <<>> = <<>>
    BY EmptySeq, ConcatEmptySeq
  <2> QED
    BY <2>1 DEF Init, Collecting, SignalsTyped, Channelled, InOrder, None
<1> QED
  BY <1>1, CollectingNext, ParserTypedAlways, PTL DEF Spec

\* A run that Run reports as a success carries every signal the parser sent, in
\* order (runner.go Run: <-parseErrCh, close(signalCh), <-collectDone, and only
\* then the result).
THEOREM ResultIsCollected == Spec => []ResultCollected
<1>1. Collecting => ResultCollected
  <2> SUFFICES ASSUME Collecting, outcome = "ok"
               PROVE  collected = parsed
    BY DEF ResultCollected
  <2>1. signalCh = <<>> /\ parsed = collected \o signalCh /\ collected \in Seq(Signals)
    BY DEF Collecting, SignalsTyped, Channelled, InOrder
  <2> QED
    BY <2>1, ConcatEmptySeq
<1> QED
  BY <1>1, CollectingAlways, PTL

-----------------------------------------------------------------------------
(* A limit that was met is what Run reports                                 *)

\* Before the parse is over nothing was met; afterwards only an error of the
\* parse that says nothing can be replaced. A run the gate refused has parsed
\* nothing, and what was returned is not parsed again.
Reporting ==
  /\ parser # "returned" => parseErr = None /\ ~limitSeen
  /\ limitSeen <=> parseErr = "limited"
  /\ main = "gate" => parser = "reading"
  /\ main = "returned" => parser # "sending"
  /\ outcome # None => main = "returned" /\ (outcome = "limited" <=> limitSeen)

LEMMA ReportingNext ==
  ParserTyped /\ Collecting /\ Reporting /\ [Next]_vars => Reporting'
<1> SUFFICES ASSUME ParserTyped, Collecting, Reporting, [Next]_vars
             PROVE  Reporting'
  OBVIOUS
<1> USE DEF Reporting
<1>1. CASE Quiet \/ Collect
  BY <1>1 DEF Quiet, Collect
<1>2. CASE Parse
  BY <1>2 DEF Parse, ParseReturns, Started
<1>3. CASE Send
  BY <1>3 DEF Send, ParseReturns
<1>4. CASE ParseEOF
  BY <1>4 DEF ParseEOF, ParseReturns, Started, None
<1>5. CASE Gate
  BY <1>5 DEF Gate, Return, None
<1>6. CASE AwaitParse \/ AwaitCollect
  BY <1>6 DEF AwaitParse, AwaitCollect
<1>7. CASE AwaitStderr
  <2>1. parser = "returned"
    BY <1>7 DEF AwaitStderr, Collecting, InOrder
  <2> QED
    BY <1>7, <2>1 DEF AwaitStderr, None
<1>8. CASE Wait
  <2>1. parser = "returned"
    BY <1>8 DEF Wait, Collecting, InOrder
  <2> QED
    BY <1>8, <2>1 DEF Wait, Return, None
<1> QED
  BY <1>1, <1>2, <1>3, <1>4, <1>5, <1>6, <1>7, <1>8, StepKinds

\* Run reports a rate limit exactly when the parser met one, whatever stderr
\* says and however the process ended (runner.go Run: parseErr first, stderr
\* only when it is nil, the exit code last).
THEOREM LimitIsReported == Spec => []LimitReported
<1>1. Init => Reporting
  BY DEF Init, Reporting, None
<1>2. Spec => []Reporting
  BY <1>1, ReportingNext, ParserTypedAlways, CollectingAlways, PTL DEF Spec
<1>3. Reporting => LimitReported
  BY DEF Reporting, LimitReported
<1> QED
  BY <1>2, <1>3, PTL
=============================================================================
