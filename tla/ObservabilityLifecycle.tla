----------------------- MODULE ObservabilityLifecycle -----------------------
(***************************************************************************)
(* The lifecycle of Observability instances (entrypoints/observability.py): *)
(* configure(), the spans an instance records, flush() and shutdown(), as   *)
(* several threads of a process call them, a signal handler being one of    *)
(* them.  An instance that is enabled owns a tracer backend                 *)
(* (adapters/tracing.py), of which only what application/ports.py says is   *)
(* assumed.                                                                 *)
(***************************************************************************)
EXTENDS Naturals, FiniteSets

CONSTANTS
  Threads,
  Instances,       \* instances of Observability
  Enabled,         \* those with settings.enabled
  Spans,           \* spans recorded
  InstanceOf,      \* InstanceOf[s]: the instance that records s
  MaxQueue,        \* spans that wait in a backend at most
  MaxCalls,        \* bound: calls of flush() and shutdown() in one thread
  TakingTurns,     \* instances that one thread at a time shuts down
  Failing          \* instances whose backend's shutdown may raise

ASSUME LifecycleAssumption ==
  /\ Enabled \subseteq Instances
  /\ InstanceOf \in [Spans -> Instances]
  /\ MaxQueue \in Nat \ {0}
  /\ MaxCalls \in Nat
  /\ TakingTurns \cup Failing \subseteq Instances

VARIABLES
  configured,   \* the instances that configure() has returned
  isShutDown,   \* isShutDown[i]: _is_shut_down
  backend,      \* backend[i]: _lifecycle
  shutdowns,    \* shutdowns[i]: how often its shutdown() was called
  span,         \* span[s]: what became of a span
  at,           \* at[t]: how far the last call in t is, or how it ended
  on,           \* on[t]: the instance it is a call of
  due,          \* due[t]: the spans that were pending when it began
  timedOut,     \* timedOut[t]: one of them still was when its flush ended
  calls         \* calls[t]

vars == <<configured, isShutDown, backend, shutdowns, span, at, on, due, timedOut, calls>>

TypeOK ==
  /\ configured \subseteq Instances
  /\ isShutDown \in [Instances -> BOOLEAN]
  /\ backend \in [Instances -> {"none", "up", "stopping", "failed", "down"}]
  /\ shutdowns \in [Instances -> Nat]
  /\ span \in [Spans -> {"idle", "open", "pending", "exported", "failed", "dropped",
                         "abandoned", "late", "unrecorded"}]
  /\ at \in [Threads -> {"idle", "flushing", "flushed", "draining", "releasing", "stopping",
                         "returned", "raised"}]
  /\ on \in [Threads -> Instances]
  /\ due \in [Threads -> SUBSET Spans]
  /\ timedOut \in [Threads -> BOOLEAN]
  /\ calls \in [Threads -> 0 .. MaxCalls]

Init ==
  /\ configured = {}
  /\ isShutDown = [i \in Instances |-> FALSE]
  /\ backend = [i \in Instances |-> "none"]
  /\ shutdowns = [i \in Instances |-> 0]
  /\ span = [s \in Spans |-> "idle"]
  /\ at = [t \in Threads |-> "idle"]
  /\ on \in [Threads -> Instances]
  /\ due = [t \in Threads |-> {}]
  /\ timedOut = [t \in Threads |-> FALSE]
  /\ calls = [t \in Threads |-> 0]

Pending(i) == {s \in Spans : InstanceOf[s] = i /\ span[s] = "pending"}

-----------------------------------------------------------------------------
(***************************************************************************)
(* An instance, its spans, and its backend.                                 *)
(***************************************************************************)

\* build_tracer_provider: a disabled instance has no lifecycle handle.
Handle(i) == IF i \in Enabled THEN "up" ELSE "none"

Configure(i) ==
  /\ i \notin configured
  /\ configured' = configured \cup {i}
  /\ backend' = [backend EXCEPT ![i] = Handle(i)]
  /\ UNCHANGED <<isShutDown, shutdowns, span, at, on, due, timedOut, calls>>

StartSpan(s) ==
  /\ InstanceOf[s] \in configured
  /\ span[s] = "idle"
  /\ span' = [span EXCEPT ![s] = "open"]
  /\ UNCHANGED <<configured, isShutDown, backend, shutdowns, at, on, due, timedOut, calls>>

\* The batch processor queues the span; a full queue drops one that waits.
EndSpan(s) ==
  LET i == InstanceOf[s]
  IN  /\ span[s] = "open"
      /\ \/ /\ backend[i] = "none"
            /\ span' = [span EXCEPT ![s] = "unrecorded"]
         \/ /\ backend[i] \in {"stopping", "failed", "down"}
            /\ span' = [span EXCEPT ![s] = "late"]
         \/ /\ backend[i] = "up"
            /\ Cardinality(Pending(i)) < MaxQueue
            /\ span' = [span EXCEPT ![s] = "pending"]
         \/ /\ backend[i] = "up"
            /\ Cardinality(Pending(i)) = MaxQueue
            /\ \E v \in Pending(i) : span' = [span EXCEPT ![s] = "pending", ![v] = "dropped"]
      /\ UNCHANGED <<configured, isShutDown, backend, shutdowns, at, on, due, timedOut, calls>>

\* The exporter sends a span, or gives up on it.
Export(s) ==
  /\ span[s] = "pending"
  /\ \E result \in {"exported", "failed"} : span' = [span EXCEPT ![s] = result]
  /\ UNCHANGED <<configured, isShutDown, backend, shutdowns, at, on, due, timedOut, calls>>

-----------------------------------------------------------------------------
(***************************************************************************)
(* flush() and shutdown().  A step is what a thread does between two        *)
(* points at which another one may run.                                     *)
(***************************************************************************)

Free(t) == at[t] \in {"idle", "flushed", "returned", "raised"}

\* A call on instance i that begins by waiting at p for what is pending.
Call(t, i, p) ==
  /\ Free(t)
  /\ i \in configured
  /\ calls[t] < MaxCalls
  /\ calls' = [calls EXCEPT ![t] = @ + 1]
  /\ on' = [on EXCEPT ![t] = i]
  /\ at' = [at EXCEPT ![t] = p]
  /\ due' = [due EXCEPT ![t] = Pending(i)]
  /\ timedOut' = [timedOut EXCEPT ![t] = FALSE]
  /\ UNCHANGED <<configured, backend, shutdowns, span>>

Flush(t, i) ==
  /\ Call(t, i, IF backend[i] = "none" THEN "flushed" ELSE "flushing")
  /\ UNCHANGED isShutDown

\* force_flush ends when what was pending is exported, or in its own time.
Flushed(t, p) ==
  /\ at' = [at EXCEPT ![t] = p]
  /\ timedOut' = [timedOut EXCEPT ![t] = due[t] \cap Pending(on[t]) # {}]
  /\ UNCHANGED <<configured, isShutDown, backend, shutdowns, span, on, due, calls>>

FlushReturns(t) == at[t] = "flushing" /\ Flushed(t, "flushed")

\* Mutant of FirstStep: releasing the backend without a flush.
ReleaseFirst(i) == "releasing"

\* What shutdown() does first when there is a backend to shut down.
FirstStep(i) == "draining"

ShuttingDown == {"draining", "releasing", "stopping"}

\* No other thread is shutting i down, where threads take turns.
MayShutDown(i) ==
  i \in TakingTurns => \A u \in Threads : on[u] = i => at[u] \notin ShuttingDown

\* Mutant of ShutdownCall: setting the flag at once, so that no other thread gets past the test.
ShutdownCallFlagged(t, i) ==
  /\ MayShutDown(i)
  /\ Call(t, i, IF isShutDown[i] \/ backend[i] = "none" THEN "returned" ELSE FirstStep(i))
  /\ isShutDown' = [isShutDown EXCEPT ![i] = TRUE]

\* `if self._is_shut_down`, and the case of no lifecycle handle.
ShutdownCall(t, i) ==
  /\ MayShutDown(i)
  /\ Call(t, i, IF isShutDown[i] \/ backend[i] = "none" THEN "returned" ELSE FirstStep(i))
  /\ isShutDown' = [isShutDown EXCEPT ![i] = @ \/ backend[i] = "none"]

Drained(t) == at[t] = "draining" /\ Flushed(t, "releasing")

\* The backend's shutdown is called, and is at work until it returns or raises; it
\* may export what is still pending.
Release(t) ==
  LET i == on[t]
  IN  /\ at[t] = "releasing"
      /\ at' = [at EXCEPT ![t] = "stopping"]
      /\ backend' = [backend EXCEPT ![i] = "stopping"]
      /\ shutdowns' = [shutdowns EXCEPT ![i] = @ + 1]
      /\ \E lost \in SUBSET Pending(i) :
           span' = [s \in Spans |-> IF s \in lost THEN "abandoned"
                                    ELSE IF s \in Pending(i) THEN "exported" ELSE span[s]]
      /\ UNCHANGED <<configured, isShutDown, on, due, timedOut, calls>>

\* Mutant of FlagAfter: never setting it.
FlagForgotten(i) == isShutDown[i]

\* What the flag is after the backend's shutdown returned.
FlagAfter(i) == TRUE

\* What a call that ends so makes of a backend; while another thread is in a call
\* of it, as where threads race, it is still at work.
Ended(t, i, end) ==
  IF \E u \in Threads \ {t} : on[u] = i /\ at[u] = "stopping" THEN backend[i] ELSE end

\* Mutant of Released: setting the flag in a finally clause, whatever became of the backend.
ReleasedFinally(t) ==
  LET i == on[t]
  IN  /\ at[t] = "stopping"
      /\ isShutDown' = [isShutDown EXCEPT ![i] = TRUE]
      /\ \/ /\ at' = [at EXCEPT ![t] = "returned"]
            /\ backend' = [backend EXCEPT ![i] = Ended(t, i, "down")]
         \/ /\ i \in Failing
            /\ at' = [at EXCEPT ![t] = "raised"]
            /\ backend' = [backend EXCEPT ![i] = Ended(t, i, "failed")]
      /\ UNCHANGED <<configured, shutdowns, span, on, due, timedOut, calls>>

\* It returns, and shutdown() sets its flag last; or it raises.
Released(t) ==
  LET i == on[t]
  IN  /\ at[t] = "stopping"
      /\ \/ /\ isShutDown' = [isShutDown EXCEPT ![i] = FlagAfter(i)]
            /\ at' = [at EXCEPT ![t] = "returned"]
            /\ backend' = [backend EXCEPT ![i] = Ended(t, i, "down")]
         \/ /\ i \in Failing
            /\ at' = [at EXCEPT ![t] = "raised"]
            /\ backend' = [backend EXCEPT ![i] = Ended(t, i, "failed")]
            /\ UNCHANGED isShutDown
      /\ UNCHANGED <<configured, shutdowns, span, on, due, timedOut, calls>>

Next ==
  \/ \E i \in Instances : Configure(i)
  \/ \E s \in Spans : StartSpan(s) \/ EndSpan(s) \/ Export(s)
  \/ \E t \in Threads, i \in Instances : Flush(t, i) \/ ShutdownCall(t, i)
  \/ \E t \in Threads : FlushReturns(t) \/ Drained(t) \/ Release(t) \/ Released(t)

Spec == Init /\ [][Next]_vars

-----------------------------------------------------------------------------
(***************************************************************************)
(* Properties.                                                              *)
(***************************************************************************)

\* The backend of an instance is shut down once, however often shutdown() is
\* called and by whichever threads, if they take turns and it does not raise
\* ("Safe to call at most once per backend instance", application/ports.py).
ShutOnce == \A i \in TakingTurns \ Failing : shutdowns[i] <= 1

\* Where threads take turns, whoever returns from shutdown() finds the backend
\* down: a call of its own shutdown has returned and none is at work, also when an
\* earlier one of another thread raised ("Flush and release exporter resources").
\* Where they race, one may return while the other is still at work on the backend,
\* but not before the backend's shutdown was called.
ReturnedIsReleased ==
  \A t \in Threads : at[t] = "returned" =>
    /\ backend[on[t]] # "up"
    /\ on[t] \in TakingTurns => backend[on[t]] \in {"none", "down"}

\* A shutdown abandons no span that had ended when it was called, unless its
\* flush ran out of time ("Flush and release exporter resources").
PendingIsFlushed ==
  [][\A t \in Threads :
       at[t] = "releasing" /\ at'[t] = "stopping" /\ ~timedOut[t] =>
         \A s \in due[t] : span[s] # "abandoned" => span'[s] # "abandoned"]_vars

=============================================================================
