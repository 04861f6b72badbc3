--------------------------- MODULE LoggingContext ---------------------------
(***************************************************************************)
(* Structured logging (entrypoints/logging.py) across tasks and threads.    *)
(* The service fields and the correlation id are context variables: a task  *)
(* starts with a copy of its creator's, a thread with none, and what is     *)
(* bound in one is not seen in another.                                     *)
(***************************************************************************)
EXTENDS Naturals

CONSTANTS
  Tasks,         \* asyncio tasks and threads, each with a context of its own
  Main,          \* the one that runs when the process starts
  Services,      \* services the process configures an instance for
  Requests,      \* requests, each with a correlation id, named by it
  None,
  MaxConfigures  \* bound: calls of configure()

ASSUME LoggingAssumption ==
  /\ Main \in Tasks
  /\ None \notin Services \cup Requests
  /\ MaxConfigures \in Nat

VARIABLES
  instances,    \* the services that configure() has returned an instance for
  configures,   \* how often configure() was called
  running,      \* the tasks and threads that were started
  service,      \* service[t]: the service fields bound in t's context
  correlation,  \* correlation[t]: the correlation id bound there
  serving,      \* serving[t]: the request that t works for
  heir,         \* heir[t]: t's context descends from one that was configured
  event         \* the last event that was logged

vars == <<instances, configures, running, service, correlation, serving, heir, event>>

Events ==
  [emitter : Services, service : Services \cup {None}, correlation : Requests \cup {None},
   serving : Requests \cup {None}, heir : BOOLEAN]

NoEvent == [emitter |-> None]

TypeOK ==
  /\ instances \subseteq Services
  /\ configures \in 0 .. MaxConfigures
  /\ running \subseteq Tasks
  /\ service \in [Tasks -> Services \cup {None}]
  /\ correlation \in [Tasks -> Requests \cup {None}]
  /\ serving \in [Tasks -> Requests \cup {None}]
  /\ heir \in [Tasks -> BOOLEAN]
  /\ event \in Events \cup {NoEvent}

Init ==
  /\ instances = {}
  /\ configures = 0
  /\ running = {Main}
  /\ service = [t \in Tasks |-> None]
  /\ correlation = [t \in Tasks |-> None]
  /\ serving = [t \in Tasks |-> None]
  /\ heir = [t \in Tasks |-> FALSE]
  /\ event = NoEvent

-----------------------------------------------------------------------------
(***************************************************************************)
(* configure(), in the task or thread t.                                    *)
(***************************************************************************)

\* configure_logging: the context of t is cleared and bound to the service.
ConfigureLogging(t, s) ==
  /\ service' = [service EXCEPT ![t] = s]
  /\ correlation' = [correlation EXCEPT ![t] = None]
  /\ heir' = [heir EXCEPT ![t] = TRUE]

\* It comes first in configure(), which fails if the headers provider does.
Configure(t, s) ==
  /\ t \in running
  /\ configures < MaxConfigures
  /\ configures' = configures + 1
  /\ ConfigureLogging(t, s)
  /\ instances' \in {instances, instances \cup {s}}
  /\ UNCHANGED <<running, serving, event>>

-----------------------------------------------------------------------------
(***************************************************************************)
(* Tasks, threads and requests.                                             *)
(***************************************************************************)

\* asyncio.create_task, asyncio.to_thread: a copy of the creator's context.
Copied(t, u) ==
  /\ service' = [service EXCEPT ![t] = service[u]]
  /\ correlation' = [correlation EXCEPT ![t] = correlation[u]]
  /\ heir' = [heir EXCEPT ![t] = heir[u]]

\* threading.Thread, an executor's thread: an empty context.
Empty(t) ==
  /\ service' = [service EXCEPT ![t] = None]
  /\ correlation' = [correlation EXCEPT ![t] = None]
  /\ heir' = [heir EXCEPT ![t] = FALSE]

\* A new task or thread, under a name that may have been used before, works
\* for what its creator works for.
Spawn(t, u) ==
  /\ t # u /\ t # Main
  /\ u \in running
  /\ running' = running \cup {t}
  /\ serving' = [serving EXCEPT ![t] = serving[u]]
  /\ Copied(t, u) \/ Empty(t)
  /\ UNCHANGED <<instances, configures, event>>

\* Mutant of Bind: a correlation id of the process, not of the context.
BindEverywhere(t, r) ==
  /\ t \in running
  /\ instances # {}
  /\ serving' = [serving EXCEPT ![t] = r]
  /\ correlation' = [u \in Tasks |-> r]
  /\ UNCHANGED <<instances, configures, running, service, heir, event>>

\* bind_correlation_id, as a task takes up a request.
Bind(t, r) ==
  /\ t \in running
  /\ instances # {}
  /\ serving' = [serving EXCEPT ![t] = r]
  /\ correlation' = [correlation EXCEPT ![t] = r]
  /\ UNCHANGED <<instances, configures, running, service, heir, event>>

\* Mutant of Unbind: clear_contextvars in its place.
UnbindAll(t) ==
  /\ correlation' = [correlation EXCEPT ![t] = None]
  /\ service' = [service EXCEPT ![t] = None]

\* clear_request_context: "correlation_id" is unbound, and nothing else.
Unbind(t) ==
  /\ correlation' = [correlation EXCEPT ![t] = None]
  /\ UNCHANGED service

Clear(t) ==
  /\ t \in running
  /\ serving' = [serving EXCEPT ![t] = None]
  /\ Unbind(t)
  /\ UNCHANGED <<instances, configures, running, heir, event>>

\* emit_event of the instance of service s, called in t.
Emit(t, s) ==
  /\ t \in running
  /\ s \in instances
  /\ event' = [emitter |-> s, service |-> service[t], correlation |-> correlation[t],
               serving |-> serving[t], heir |-> heir[t]]
  /\ UNCHANGED <<instances, configures, running, service, correlation, serving, heir>>

Next ==
  \/ \E t \in Tasks, s \in Services : Configure(t, s) \/ Emit(t, s)
  \/ \E t, u \in Tasks : Spawn(t, u)
  \/ \E t \in Tasks, r \in Requests : Bind(t, r)
  \/ \E t \in Tasks : Clear(t)

Spec == Init /\ [][Next]_vars

-----------------------------------------------------------------------------
(***************************************************************************)
(* Properties.                                                              *)
(***************************************************************************)

\* An event never carries the correlation id of another request than the one
\* it was logged for, however tasks are shared, copied and reused.
CorrelationIsOwn ==
  event # NoEvent => event.correlation \in {None, event.serving}

\* Clearing the context of a request keeps the service fields, in the tasks
\* that work in or descend from the context that was configured ("silently
\* dropping them from every log line for the rest of the process").
ServiceSurvivesRequests ==
  event # NoEvent /\ event.heir => event.service # None

=============================================================================
