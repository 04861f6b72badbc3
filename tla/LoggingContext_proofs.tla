------------------------ MODULE LoggingContext_proofs ------------------------
(***************************************************************************)
(* Theorems about LoggingContext, for all sets of tasks, services, requests *)
(* and any number of calls of configure().                                  *)
(***************************************************************************)
EXTENDS LoggingContext, TLAPS

\* The id bound in a context is that of the request worked for there, and a
\* context that descends from a configured one has service fields.
ContextInv ==
  \A t \in Tasks :
    /\ correlation[t] \in {None, serving[t]}
    /\ heir[t] => service[t] # None

IInv == TypeOK /\ ContextInv /\ CorrelationIsOwn /\ ServiceSurvivesRequests

\* The inductive invariant holds when the process starts.
LEMMA InitIInv == Init => IInv
  BY LoggingAssumption DEF Init, IInv, TypeOK, ContextInv, CorrelationIsOwn,
     ServiceSurvivesRequests, NoEvent

\* What is emitted is what is bound in the emitter's context.
LEMMA EmitKeeps ==
  ASSUME IInv, NEW t \in Tasks, NEW s \in Services, Emit(t, s)
  PROVE  IInv'
<1> USE LoggingAssumption DEF IInv
<1>1. TypeOK'
  BY DEF TypeOK, Emit, Events
<1>2. ContextInv'
  BY DEF ContextInv, Emit
<1>3. event'.correlation = correlation[t] /\ event'.serving = serving[t]
      /\ event'.heir = heir[t] /\ event'.service = service[t]
  BY DEF Emit
<1>4. CorrelationIsOwn' /\ ServiceSurvivesRequests'
  BY <1>3 DEF ContextInv, CorrelationIsOwn, ServiceSurvivesRequests
<1> QED
  BY <1>1, <1>2, <1>4

\* The other steps change contexts, and no event.
LEMMA NextIInv == IInv /\ [Next]_vars => IInv'
<1> SUFFICES ASSUME IInv, [Next]_vars PROVE IInv'
  OBVIOUS
<1> USE LoggingAssumption DEF IInv
<1>a. ASSUME UNCHANGED event, TypeOK', ContextInv' PROVE IInv'
  BY <1>a DEF CorrelationIsOwn, ServiceSurvivesRequests
<1>1. CASE UNCHANGED vars
  BY <1>1, <1>a DEF vars, TypeOK, ContextInv
<1>2. ASSUME NEW t \in Tasks, NEW s \in Services, Configure(t, s) PROVE IInv'
  <2>1. TypeOK'
    BY <1>2 DEF TypeOK, Configure, ConfigureLogging
  <2>2. ContextInv'
    BY <1>2 DEF TypeOK, ContextInv, Configure, ConfigureLogging
  <2> QED BY <1>a, <1>2, <2>1, <2>2 DEF Configure
<1>3. ASSUME NEW t \in Tasks, NEW u \in Tasks, Spawn(t, u) PROVE IInv'
  <2>1. TypeOK'
    BY <1>3 DEF TypeOK, Spawn, Copied, Empty
  <2>2. ContextInv'
    BY <1>3 DEF TypeOK, ContextInv, Spawn, Copied, Empty
  <2> QED BY <1>a, <1>3, <2>1, <2>2 DEF Spawn
<1>4. ASSUME NEW t \in Tasks, NEW r \in Requests, Bind(t, r) PROVE IInv'
  <2>1. TypeOK'
    BY <1>4 DEF TypeOK, Bind
  <2>2. ContextInv'
    BY <1>4 DEF TypeOK, ContextInv, Bind
  <2> QED BY <1>a, <1>4, <2>1, <2>2 DEF Bind
<1>5. ASSUME NEW t \in Tasks, Clear(t) PROVE IInv'
  <2>1. TypeOK'
    BY <1>5 DEF TypeOK, Clear, Unbind
  <2>2. ContextInv'
    BY <1>5 DEF TypeOK, ContextInv, Clear, Unbind
  <2> QED BY <1>a, <1>5, <2>1, <2>2 DEF Clear
<1> QED
  BY <1>1, <1>2, <1>3, <1>4, <1>5, EmitKeeps DEF Next

\* The inductive invariant holds.
THEOREM Invariance == Spec => []IInv
  BY InitIInv, NextIInv, PTL DEF Spec

\* The type invariant.
THEOREM LoggingTyped == Spec => []TypeOK
  BY Invariance, PTL DEF IInv

\* No event carries the correlation id of another request.
THEOREM EventsAreOwn == Spec => []CorrelationIsOwn
  BY Invariance, PTL DEF IInv

\* Clearing a request's context never drops the service fields.
THEOREM ServiceSurvives == Spec => []ServiceSurvivesRequests
  BY Invariance, PTL DEF IInv
=============================================================================
