-------------------------- MODULE StreamConsumers --------------------------
(***************************************************************************)
(* The consumers of the event stream of a run: the OpenTelemetry bridge,   *)
(* the terminal, the registry sink, the error log and the summary of a     *)
(* log.  Each is a fold over the events it is handed, in their order, and  *)
(* each keeps state of its own to tell a step it has seen begin from one   *)
(* it has not, or a failure it has already reported.  A timed-out step or  *)
(* run, "timeout" in the model, is an "error" with timed_out set in the    *)
(* source: consumers take whatever is neither ok nor interrupted as error. *)
(***************************************************************************)
EXTENDS WorkflowRun

IsError(outcome) == outcome \notin {"ok", "interrupted"}

(* isFailureEvent: what the error log receives. *)
IsFailure(e) ==
  \/ e.event = "bootstrap.error"
  \/ e.event \in {"step.end", "run.end"} /\ IsError(e.outcome)

Logged(log, e) == IF IsFailure(e) THEN Append(log, e) ELSE log

ErrorLog == FoldLeft(Logged, <<>>, stream)

-----------------------------------------------------------------------------
(* createOtelSink: one root span, one child per execution.                 *)

NoBridge == [root |-> "none", status |-> "UNSET", open |-> {},
             ended |-> [s \in {} |-> "UNSET"], records |-> 0, runs |-> 0]

SpanStatus(outcome) ==
  CASE outcome = "ok" -> "OK" [] outcome = "interrupted" -> "UNSET" [] OTHER -> "ERROR"

EndSpan(b, s, status) ==
  [b EXCEPT !.open = @ \ {s},
            !.ended = [t \in DOMAIN @ \cup {s} |-> IF t = s THEN status ELSE @[t]]]

(* endDanglingStepSpans *)
EndDangling(b, status) ==
  [b EXCEPT !.open = {},
            !.ended = [t \in DOMAIN @ \cup b.open |-> IF t \in b.open THEN status ELSE @[t]]]

OnRunStart(b) == [b EXCEPT !.root = "open"]

(* Takes the step an interruption abandoned for a failed one. *)
OnRunEndMarking(b, e) ==
  LET counted == [b EXCEPT !.runs = @ + 1]
  IN IF b.root # "open" THEN counted
     ELSE [EndDangling(counted, "ERROR") EXCEPT
             !.root = "ended", !.status = IF e.outcome = "interrupted" THEN @ ELSE SpanStatus(e.outcome)]

OnRunEnd(b, e) ==
  LET counted == [b EXCEPT !.runs = @ + 1]
      dangling == IF e.outcome = "interrupted" THEN "UNSET" ELSE "ERROR"
  IN IF b.root # "open" THEN counted
     ELSE [EndDangling(counted, dangling) EXCEPT
             !.root = "ended", !.status = IF e.outcome = "interrupted" THEN @ ELSE SpanStatus(e.outcome)]

OnStepStart(b, e) == [b EXCEPT !.open = @ \cup {e.step}]
OnStepEnd(b, e) == IF e.step \in b.open THEN EndSpan(b, e.step, SpanStatus(e.outcome)) ELSE b

(* Without a root span, the stages before run.start, a log record. *)
OnBootstrapError(b) ==
  IF b.root = "open" THEN [b EXCEPT !.status = "ERROR"] ELSE [b EXCEPT !.records = @ + 1]

Bridged(b, e) ==
  CASE e.event = "run.start" -> OnRunStart(b)
    [] e.event = "run.end" -> OnRunEnd(b, e)
    [] e.event = "step.start" -> OnStepStart(b, e)
    [] e.event = "step.end" -> OnStepEnd(b, e)
    [] e.event = "bootstrap.error" -> OnBootstrapError(b)
    [] OTHER -> b

Bridge == FoldLeft(Bridged, NoBridge, stream)

(* close: whatever the stream left open ends as an error. *)
BridgeClosed ==
  LET b == EndDangling(Bridge, "ERROR")
  IN IF b.root = "open" THEN [b EXCEPT !.root = "ended", !.status = "ERROR"] ELSE b

(* A heartbeat, a log and a report of progress name the step in flight,    *)
(* whoever emits them; the last two also come when there is none.          *)
StepNamed == inFlight

(* The span such an event would be attached to now. *)
Correlated ==
  IF StepNamed # None /\ StepNamed \in Bridge.open THEN StepNamed
  ELSE IF Bridge.root = "open" THEN "root" ELSE None

-----------------------------------------------------------------------------
(* createTerminalSink, in its two modes of prose.                          *)

Mode == {"pretty", "quiet"}

NoTerminal == [started |-> FALSE, bootstrapFailed |-> FALSE, pending |-> {},
               shown |-> {}, reasons |-> 0, errorPaths |-> 0, recaps |-> 0]

Rendered(mode, t, e) ==
  CASE e.event = "run.start" -> [t EXCEPT !.started = TRUE]
    [] e.event = "step.start" -> [t EXCEPT !.pending = @ \cup {e.step}]
    [] e.event = "step.end" ->
         [t EXCEPT !.pending = @ \ {e.step},
                   !.shown = IF mode = "pretty" \/ IsError(e.outcome) THEN @ \cup {e.step} ELSE @]
    [] e.event = "bootstrap.error" ->
         [t EXCEPT !.bootstrapFailed = TRUE, !.reasons = @ + 1,
                   !.errorPaths = IF t.started THEN @ ELSE @ + 1]
    [] e.event = "run.end" ->
         [t EXCEPT !.recaps = @ + 1,
                   !.reasons = IF IsError(e.outcome) /\ ~t.bootstrapFailed THEN @ + 1 ELSE @,
                   !.errorPaths = IF e.stepsFailed > 0 \/ IsError(e.outcome) THEN @ + 1 ELSE @]
    [] OTHER -> t

Terminal(mode) == FoldLeft(LAMBDA t, e : Rendered(mode, t, e), NoTerminal, stream)

-----------------------------------------------------------------------------
(* createRunRegistrySink: the entry, and its latch.                        *)

NoEntry == [status |-> "bootstrapping", stepsTotal |-> None, stepsFailed |-> None]

Registered(r, e) ==
  CASE e.event = "run.start" -> [r EXCEPT !.status = "running"]
    [] e.event = "bootstrap.error" -> [r EXCEPT !.status = "bootstrap-failed"]
    [] e.event = "run.end" /\ r.status # "bootstrap-failed" ->
         [status |-> IF IsError(e.outcome) THEN "error" ELSE e.outcome,
          stepsTotal |-> e.stepsTotal, stepsFailed |-> e.stepsFailed]
    [] OTHER -> r

RegistryEntry == FoldLeft(Registered, NoEntry, stream)

(* The exit code of workflow run, from what the supervisor returns, or 1   *)
(* for an exception nobody catches.                                        *)
ResultCode ==
  IF Emitted("bootstrap.error") \/ progress = "rejected" THEN 1
  ELSE IF interrupted \/ (aborted /\ phase = "idle") THEN 143
  ELSE IF error # None THEN 1
  ELSE 0

-----------------------------------------------------------------------------
(* summarizeRunLog, on a log that has not been rotated.                    *)

Counted(s, e) ==
  IF e.event # "step.end" THEN s
  ELSE IF e.outcome = "ok" THEN [s EXCEPT !.ok = @ + 1] ELSE [s EXCEPT !.failed = @ + 1]

CountedSteps == FoldLeft(Counted, [ok |-> 0, failed |-> 0], stream)

Summary ==
  IF ~Emitted("run.end") THEN CountedSteps
  ELSE LET e == stream[Max(Indices("run.end"))]
       IN [ok |-> e.stepsTotal - e.stepsFailed, failed |-> e.stepsFailed]

-----------------------------------------------------------------------------

FailureEmitted == \E i \in DOMAIN stream : IsFailure(stream[i]) /\ stream[i].event # "step.end"

(* SpansFaithful: at any moment the bridge has a span open for the step in *)
(* flight and no other, so that logs and heartbeats find theirs; once the  *)
(* run has concluded every span is ended, each with the outcome its        *)
(* step.end says, and UNSET only for a step that an interruption left      *)
(* without one; close has nothing left to mark as an error.                *)
SpansFaithful ==
  LET b == Bridge
      ends == Indices("step.end")
  IN /\ ~interrupted /\ ~Over => b.open = {inFlight} \ {None}
     /\ inFlight # None => Correlated = inFlight
     /\ progress = "concluded" =>
          /\ BridgeClosed = b /\ b.root # "open"
          /\ b.runs = Cardinality(Indices("run.end"))
          /\ DOMAIN b.ended = {stream[i].step : i \in Indices("step.start")}
          /\ \A s \in DOMAIN b.ended :
               IF \E i \in ends : stream[i].step = s
               THEN \E i \in ends : stream[i].step = s /\ b.ended[s] = SpanStatus(stream[i].outcome)
               ELSE interrupted /\ b.ended[s] = "UNSET"

(* FailureToldOnce: whoever watches the terminal, in either mode, is told  *)
(* the reason of a failed run and where its error log is once each, and of *)
(* one that did not fail no reason; every step that failed is shown.       *)
FailureToldOnce ==
  progress = "concluded" => \A mode \in Mode :
    LET t == Terminal(mode)
        failedSteps == {stream[i].step : i \in {j \in Indices("step.end") : IsFailure(stream[j])}}
    IN /\ t.reasons = IF FailureEmitted THEN 1 ELSE 0
       /\ t.errorPaths = IF ErrorLog # <<>> THEN 1 ELSE 0
       /\ failedSteps \subseteq t.shown
       /\ Cardinality(t.pending) <= IF interrupted THEN 1 ELSE 0

(* OutcomesAgree: of a concluded run the trace, the registry and the exit  *)
(* code give the same outcome, and the registry the numbers of the log.    *)
OutcomesAgree ==
  progress = "concluded" =>
    /\ RegistryEntry.status =
         CASE Emitted("bootstrap.error") -> "bootstrap-failed"
           [] ResultCode = 0 -> "ok" [] ResultCode = 143 -> "interrupted" [] OTHER -> "error"
    /\ Emitted("run.start") =>
         Bridge.status = CASE ResultCode = 0 -> "OK" [] ResultCode = 143 -> "UNSET" [] OTHER -> "ERROR"
    /\ ~Emitted("run.start") => Bridge.records = 1
    /\ RegistryEntry.stepsTotal # None =>
         /\ RegistryEntry.stepsFailed = Summary.failed
         /\ RegistryEntry.stepsTotal = Summary.ok + Summary.failed
    /\ ResultCode = 1 => IsFailure(Last(stream))

(* RejectionUntold: of a run whose store could not be opened the process   *)
(* exits with an error and, at its close, the trace has one; the terminal  *)
(* and the error log are told nothing, and the entry stays "running".      *)
RejectionUntold ==
  progress = "rejected" =>
    /\ ResultCode = 1
    /\ BridgeClosed.root = "ended" /\ BridgeClosed.status = "ERROR" /\ BridgeClosed.runs = 0
    /\ RegistryEntry.status = "running"
    /\ ErrorLog = <<>>
    /\ \A mode \in Mode : Terminal(mode).reasons = 0

(* ConsumersAgree: the trace, the terminal, the registry, the error log,   *)
(* the summary and the exit code tell of one and the same run: the same    *)
(* outcome, and the same numbers of steps that succeeded and failed, which *)
(* the summary may take from run.end or count itself.  They disagree only  *)
(* on a run whose store could not be opened, and then as RejectionUntold   *)
(* says.                                                                   *)
ConsumersAgree ==
  /\ SpansFaithful
  /\ FailureToldOnce
  /\ Summary = CountedSteps
  /\ OutcomesAgree
  /\ RejectionUntold
=============================================================================
