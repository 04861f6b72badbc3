-------------------------- MODULE TracedOperations --------------------------
(***************************************************************************)
(* The A2A adapter's traced operations over OpenTelemetry's context         *)
(* variable: `_run_traced` (one awaited call) and `_stream_traced` (an      *)
(* async generator) of adapters/a2a.py, as TracingClient and                *)
(* TracingRequestHandler call them.                                         *)
(*                                                                         *)
(* An operation is one call of a wrapped method.  It starts a span, makes   *)
(* it current in the context of the asyncio task that runs it, reports      *)
(* "started", runs the wrapped code, reports one terminal event, and puts   *)
(* the context back.  A stream does this across suspensions: an async       *)
(* generator has no context of its own, so between two items its span       *)
(* stays current in the consumer's task, and whoever resumes or closes it   *)
(* runs its body in THAT task's context.                                    *)
(*                                                                         *)
(* A step of this specification is what a task does between two awaits.     *)
(***************************************************************************)
EXTENDS Naturals, Sequences

CONSTANTS
  Ops,             \* calls of wrapped methods; each has one span, named by it
  StreamOps,       \* those made through _stream_traced
  ServerOps,       \* those of TracingRequestHandler: they continue a carrier
  Closable,        \* the streams whose inner iterator has an aclose()
  Tasks,           \* asyncio tasks, each with a context of its own
  NoTask,          \* the owner of an operation that has not begun
  Remotes,         \* span contexts a carrier may hold
  NoSpan,          \* a context in which no valid span is current
  Disciplined,     \* do programs end the operations of a task in LIFO order?
  InvokeMayRaise   \* may the wrapped streaming method raise when called?

ASSUME OpsAssumption ==
  /\ StreamOps \subseteq Ops
  /\ ServerOps \subseteq Ops
  /\ Closable \subseteq StreamOps
  /\ Ops \cap Remotes = {}
  /\ NoSpan \notin Ops \cup Remotes
  /\ NoTask \notin Tasks
  /\ Disciplined \in BOOLEAN
  /\ InvokeMayRaise \in BOOLEAN

VARIABLES
  ctx,      \* ctx[t]: the span that is current in the context of task t
  base,     \* base[t]: the one that was current when t was created
  calls,    \* calls[t]: the operations whose bodies t is inside, innermost first
  pc,       \* pc[o]: where the body of o is
  owner,    \* owner[o]: the task in whose context o attached its span
  old,      \* old[o]: what the token of o restores
  parent,   \* parent[o]: the parent of o's span
  status,   \* status[o]: the status of o's span
  events,   \* events[o]: the structured events o emitted
  iter,     \* iter[o]: the inner iterator of a stream
  cause,    \* cause[o]: how the wrapped code ended
  result    \* result[o]: what the caller of o got

vars == <<ctx, base, calls, pc, owner, old, parent, status, events, iter,
          cause, result>>

Contexts == Ops \cup Remotes \cup {NoSpan}

\* "error" is any exception, CancelledError included; "exit" is the
\* GeneratorExit of aclose(); "close_error" comes from the iterator's aclose().
Causes == {"finished", "error", "exit"}

Event == [outcome : {"STARTED", "SUCCESS", "ERROR"}, span : Contexts]

TypeOK ==
  /\ ctx \in [Tasks -> Contexts]
  /\ base \in [Tasks -> Contexts]
  /\ calls \in [Tasks -> Seq(Ops)]
  /\ pc \in [Ops -> {"idle", "running", "yielded", "abandoned", "closing", "done"}]
  /\ owner \in [Ops -> Tasks \cup {NoTask}]
  /\ old \in [Ops -> Contexts]
  /\ parent \in [Ops -> Contexts]
  /\ status \in [Ops -> {"UNSET", "ERROR"}]
  /\ events \in [Ops -> Seq(Event)]
  /\ iter \in [Ops -> {"none", "open", "closed"}]
  /\ cause \in [Ops -> Causes \cup {"none"}]
  /\ result \in [Ops -> Causes \cup {"none", "close_error"}]

Init ==
  /\ ctx = [t \in Tasks |-> NoSpan]
  /\ base = [t \in Tasks |-> NoSpan]
  /\ calls = [t \in Tasks |-> <<>>]
  /\ pc = [o \in Ops |-> "idle"]
  /\ owner = [o \in Ops |-> NoTask]
  /\ old = [o \in Ops |-> NoSpan]
  /\ parent = [o \in Ops |-> NoSpan]
  /\ status = [o \in Ops |-> "UNSET"]
  /\ events = [o \in Ops |-> <<>>]
  /\ iter = [o \in Ops |-> "none"]
  /\ cause = [o \in Ops |-> "none"]
  /\ result = [o \in Ops |-> "none"]

-----------------------------------------------------------------------------
(***************************************************************************)
(* Vocabulary.                                                              *)
(***************************************************************************)

\* The operations whose `with ... start_span(...)` block has been entered and
\* not left: their spans have started and not ended.
Open(o) == pc[o] \notin {"idle", "done"}

\* Task t is awaiting the wrapped code of o, and nothing further in.
Innermost(o, t) == calls[t] # <<>> /\ Head(calls[t]) = o

\* No operation that was begun while o's span was current in t is still open.
Settled(o, t) ==
  t = owner[o] /\ \A p \in Ops \ {o} : Open(p) /\ owner[p] = t => old[p] # o

\* Mutant of Detached: putting back the span's parent, which on the server side is the caller's.
DetachedToParent(o, t) == IF t = owner[o] THEN [ctx EXCEPT ![t] = parent[o]] ELSE ctx

\* Mutant of Detached: leaving the operation's context attached.
NotDetached(o, t) == ctx

\* A token puts back the context it was made in, and only from within it: in
\* another task's context detach() logs an error and changes nothing.
Detached(o, t) == IF t = owner[o] THEN [ctx EXCEPT ![t] = old[o]] ELSE ctx

\* emit_event: the logging processor adds the ids of the current span.
Emit(o, outcome, span) ==
  events' = [events EXCEPT ![o] = Append(@, [outcome |-> outcome, span |-> span])]

\* Mutant of TerminalOutcome: a policy that counts a consumer's early aclose() as success.
LenientOutcome(c) == IF c \in {"finished", "exit"} THEN "SUCCESS" ELSE "ERROR"

\* The terminal-outcome policy: only a full run is completed / SUCCESS.
TerminalOutcome(c) == IF c = "finished" THEN "SUCCESS" ELSE "ERROR"

-----------------------------------------------------------------------------
(***************************************************************************)
(* Steps of an operation.                                                   *)
(***************************************************************************)

\* continue_trace on the server side, start_span, and "started" inside it.
\* The span's parent is the carrier's context there, the current span here.
Enter(o, t, carrier) ==
  /\ pc[o] = "idle"
  /\ owner' = [owner EXCEPT ![o] = t]
  /\ old' = [old EXCEPT ![o] = ctx[t]]
  /\ parent' = [parent EXCEPT ![o] = IF o \in ServerOps THEN carrier ELSE ctx[t]]
  /\ Emit(o, "STARTED", o)
  /\ UNCHANGED <<base, status>>

\* The call up to its first await: a stream has obtained its inner iterator.
Begin(o, t, carrier) ==
  /\ Enter(o, t, carrier)
  /\ ctx' = [ctx EXCEPT ![t] = o]
  /\ calls' = [calls EXCEPT ![t] = <<o>> \o @]
  /\ pc' = [pc EXCEPT ![o] = "running"]
  /\ iter' = [iter EXCEPT ![o] = IF o \in StreamOps THEN "open" ELSE @]
  /\ UNCHANGED <<cause, result>>

\* invoke() itself raises.  It is called before the try statement of
\* _stream_traced, so only the span's `with` block handles the exception.
InvokeRaises(o, t, carrier) ==
  /\ InvokeMayRaise
  /\ o \in StreamOps
  /\ Enter(o, t, carrier)
  /\ pc' = [pc EXCEPT ![o] = "done"]
  /\ cause' = [cause EXCEPT ![o] = "error"]
  /\ result' = [result EXCEPT ![o] = "error"]
  /\ UNCHANGED <<ctx, calls, iter>>

\* Mutant of Leave: leaving that only the task that entered it may do.
LeaveInOwnTask(o, t, r) ==
  /\ t = owner[o]
  /\ pc' = [pc EXCEPT ![o] = "done"]
  /\ ctx' = Detached(o, t)
  /\ result' = [result EXCEPT ![o] = r]

\* Leaving the span's `with` block (and the carrier's): the caller gets r.
Leave(o, t, r) ==
  /\ pc' = [pc EXCEPT ![o] = "done"]
  /\ ctx' = Detached(o, t)
  /\ result' = [result EXCEPT ![o] = r]

\* Mutant of MustClose: closing the iterator only when it was left early.
MustCloseEarly(o, c) == o \in Closable /\ c # "finished"

\* Does `finally` await the iterator's aclose() after the stream ended by c?
MustClose(o, c) == o \in Closable

\* Mutant of Report: reporting once the span's block has been left.
ReportOutside(o, t, c) ==
  /\ Emit(o, TerminalOutcome(c), old[o])
  /\ status' = [status EXCEPT ![o] = IF c = "finished" THEN @ ELSE "ERROR"]

\* Mutant of Report: `except Exception` for `except BaseException`: GeneratorExit passes by.
ReportExceptions(o, t, c) ==
  IF c = "exit" THEN UNCHANGED <<events, status>>
  ELSE /\ Emit(o, TerminalOutcome(c), ctx[t])
       /\ status' = [status EXCEPT ![o] = IF c = "finished" THEN @ ELSE "ERROR"]

\* Mutant of Report: "completed" emitted after the try statement on every path.
ReportCompletedToo(o, t, c) ==
  /\ events' = [events EXCEPT ![o] =
       @ \o (IF c = "finished" THEN <<>> ELSE <<[outcome |-> "ERROR", span |-> ctx[t]]>>)
         \o <<[outcome |-> "SUCCESS", span |-> ctx[t]]>>]
  /\ status' = [status EXCEPT ![o] = IF c = "finished" THEN @ ELSE "ERROR"]

\* The except and else clauses: one terminal event, and ERROR on failure.
Report(o, t, c) ==
  /\ Emit(o, TerminalOutcome(c), ctx[t])
  /\ status' = [status EXCEPT ![o] = IF c = "finished" THEN @ ELSE "ERROR"]

\* The wrapped code of o ended by c; frames is what t is inside otherwise.
Terminate(o, t, c, frames) ==
  /\ Disciplined => Settled(o, t)
  /\ Report(o, t, c)
  /\ cause' = [cause EXCEPT ![o] = c]
  /\ IF MustClose(o, c)
     THEN /\ pc' = [pc EXCEPT ![o] = "closing"]
          /\ calls' = [calls EXCEPT ![t] = <<o>> \o frames]
          /\ UNCHANGED <<ctx, result>>
     ELSE /\ calls' = [calls EXCEPT ![t] = frames]
          /\ Leave(o, t, c)
  /\ UNCHANGED <<base, owner, old, parent, iter>>

\* The awaited wrapped code returns or is exhausted ("finished"), or it
\* raises or is cancelled ("error").
End(o, t, c) ==
  /\ Innermost(o, t)
  /\ pc[o] = "running"
  /\ Terminate(o, t, c, Tail(calls[t]))

\* The stream hands an item to its consumer; its span stays current in t.
Yield(o, t) ==
  /\ Innermost(o, t)
  /\ o \in StreamOps
  /\ pc[o] = "running"
  /\ pc' = [pc EXCEPT ![o] = "yielded"]
  /\ calls' = [calls EXCEPT ![t] = Tail(@)]
  /\ UNCHANGED <<ctx, base, owner, old, parent, status, events, iter, cause, result>>

\* A consumer, in any task, asks for the next item.
Resume(o, t) ==
  /\ pc[o] = "yielded"
  /\ pc' = [pc EXCEPT ![o] = "running"]
  /\ calls' = [calls EXCEPT ![t] = <<o>> \o @]
  /\ UNCHANGED <<ctx, base, owner, old, parent, status, events, iter, cause, result>>

\* A consumer, in any task, closes the stream between two items.
AClose(o, t) ==
  /\ pc[o] = "yielded"
  /\ Terminate(o, t, "exit", calls[t])

\* The consumer stops between two items without closing the stream: it is
\* cancelled there, or leaves its `async for` by break or by an exception.
Abandon(o) ==
  /\ ~Disciplined
  /\ pc[o] = "yielded"
  /\ pc' = [pc EXCEPT ![o] = "abandoned"]
  /\ UNCHANGED <<ctx, base, calls, owner, old, parent, status, events, iter,
                 cause, result>>

\* Task t runs nothing and nothing was left open in its context.
Fresh(t) == calls[t] = <<>> /\ \A o \in Ops : Open(o) => owner[o] # t

\* The event loop's hook for collected generators closes it in a new task.
Finalize(o, t) ==
  /\ pc[o] = "abandoned"
  /\ Fresh(t)
  /\ Terminate(o, t, "exit", <<>>)

\* The iterator's aclose() returns, and the caller gets what ended the
\* stream; or it raises, or is cancelled, and the caller gets that instead.
Closed(o, t, r) ==
  /\ Innermost(o, t)
  /\ pc[o] = "closing"
  /\ Disciplined => Settled(o, t)
  /\ r \in {cause[o], "close_error"}
  /\ iter' = [iter EXCEPT ![o] = "closed"]
  /\ calls' = [calls EXCEPT ![t] = Tail(@)]
  /\ Leave(o, t, r)
  /\ UNCHANGED <<base, owner, old, parent, status, events, cause>>

\* A new task t starts with a copy of the context of the task u that made it.
Spawn(t, u) ==
  /\ t # u
  /\ Fresh(t)
  /\ ctx' = [ctx EXCEPT ![t] = ctx[u]]
  /\ base' = [base EXCEPT ![t] = ctx[u]]
  /\ UNCHANGED <<calls, pc, owner, old, parent, status, events, iter, cause, result>>

Step(o, t) ==
  \/ \E carrier \in Remotes \cup {NoSpan} : Begin(o, t, carrier)
  \/ \E carrier \in Remotes \cup {NoSpan} : InvokeRaises(o, t, carrier)
  \/ \E c \in {"finished", "error"} : End(o, t, c)
  \/ Yield(o, t)
  \/ Resume(o, t)
  \/ AClose(o, t)
  \/ Finalize(o, t)
  \/ \E r \in Causes \cup {"close_error"} : Closed(o, t, r)

Next ==
  \/ \E o \in Ops, t \in Tasks : Step(o, t)
  \/ \E o \in Ops : Abandon(o)
  \/ \E t, u \in Tasks : Spawn(t, u)

Spec == Init /\ [][Next]_vars

(***************************************************************************)
(* Fairness.  Awaited code, a stream asked for item after item included,    *)
(* ends or is cancelled in the end, and the event loop runs what is ready   *)
(* (Progress).  That a stream nobody closes is collected, its hook finding  *)
(* a new task to run in, is the interpreter's doing, assumed apart          *)
(* (Collected).                                                             *)
(***************************************************************************)
Progress ==
  /\ \A o \in Ops : SF_vars(\E t \in Tasks, c \in {"finished", "error"} : End(o, t, c))
  /\ \A o \in Ops : WF_vars(\E t \in Tasks, r \in Causes : Closed(o, t, r))

Collected == \A o \in Ops : SF_vars(\E t \in Tasks : Finalize(o, t))

LoopSpec == Spec /\ Progress
FairSpec == Spec /\ Progress /\ Collected

-----------------------------------------------------------------------------
(***************************************************************************)
(* Properties of every program, disciplined or not.                         *)
(***************************************************************************)

Started(o) == pc[o] # "idle"

Reported(o) == cause[o] # "none"

\* Every operation that started has emitted "started" first, and once its
\* wrapped code has ended exactly one terminal event, never none or two
\* (_run_traced and _stream_traced; module documentation of adapters/a2a.py).
OneTerminal ==
  \A o \in Ops :
    /\ Len(events[o]) = (IF ~Started(o) THEN 0 ELSE IF ~Reported(o) THEN 1 ELSE 2)
    /\ Started(o) => events[o][1].outcome = "STARTED"
    /\ Reported(o) => events[o][2].outcome # "STARTED"

\* The span, the terminal event and the caller agree on how the operation
\* ended: ERROR status goes with a failed event, and a caller that saw a
\* normal end has a completed one, whoever closed the stream and wherever.
OutcomesAgree ==
  \A o \in Ops :
    LET failed == \E i \in 1 .. Len(events[o]) : events[o][i].outcome = "ERROR"
    IN  /\ status[o] = "ERROR" <=> failed
        /\ Reported(o) /\ cause[o] # "finished" => failed
        /\ result[o] = "finished" => ~failed

\* No span ends before the iterator its stream obtained was closed: the
\* `finally` of _stream_traced runs on every way out, inside the span.
IteratorClosed == \A o \in Closable : pc[o] = "done" => iter[o] # "open"

\* A stream its consumer leaves between two items is closed, and reports.
AbandonedEnds == \A o \in Ops : pc[o] = "abandoned" ~> pc[o] = "done"

-----------------------------------------------------------------------------
(***************************************************************************)
(* Properties of programs that end the operations of a task in LIFO order.  *)
(***************************************************************************)

\* All events of an operation carry the id of its own span, although a
\* stream emits them in whatever context its body is resumed or closed in.
Correlated ==
  \A o \in Ops : \A i \in 1 .. Len(events[o]) : events[o][i].span = o

\* When all operations begun in a task have ended, the span that is current
\* there is the one that was when the task was created: nothing leaks into
\* what the task does next.
ContextRestored ==
  \A t \in Tasks : (\A o \in Ops : Open(o) => owner[o] # t) => ctx[t] = base[t]

\* A span begun under another one of the same task ends before it does, and
\* none is begun under a span that has ended.  (What a task inherits from its
\* creator may end at any time.)
SpansNest ==
  \A o \in Ops :
    Open(o) /\ parent[o] \in Ops /\ parent[o] # base[owner[o]]
      => Open(parent[o]) /\ owner[parent[o]] = owner[o]

-----------------------------------------------------------------------------
(***************************************************************************)
(* The operations implement OperationReports.                               *)
(***************************************************************************)

\* What the events of one operation amount to; any other sequence of events
\* is no report.
ReportOf(es) ==
  CASE Len(es) = 0 -> "none"
    [] Len(es) = 1 /\ es[1].outcome = "STARTED" -> "started"
    [] Len(es) = 2 /\ es[1].outcome = "STARTED" /\ es[2].outcome = "SUCCESS" -> "completed"
    [] Len(es) = 2 /\ es[1].outcome = "STARTED" /\ es[2].outcome = "ERROR" -> "failed"
    [] OTHER -> "corrupt"

Reports == INSTANCE OperationReports WITH
  report <- [o \in Ops |-> ReportOf(events[o])],
  released <- [o \in Ops |-> pc[o] = "done"]

\* Whatever the program does, each operation is reported as started, then as
\* completed or failed once, before its caller is released.
ImplementsReports == Reports!Spec

=============================================================================
