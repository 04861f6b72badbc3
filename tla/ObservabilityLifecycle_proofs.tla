-------------------- MODULE ObservabilityLifecycle_proofs --------------------
(***************************************************************************)
(* Theorems about ObservabilityLifecycle, for all sets of threads,          *)
(* instances and spans, any queue and any number of calls.                  *)
(***************************************************************************)
EXTENDS ObservabilityLifecycle, TLAPS

\* A backend whose shutdown was called does not come up again; it is at work while a
\* thread is in that call, and whoever returned has seen the flag or set it.
DownInv ==
  /\ \A i \in Instances : isShutDown[i] => i \in configured /\ backend[i] # "up"
  /\ \A t \in Threads :
       /\ at[t] # "idle" => on[t] \in configured
       /\ at[t] = "stopping" => backend[on[t]] = "stopping"
       /\ at[t] = "returned" => isShutDown[on[t]]

\* Where threads take turns, one at a time is in shutdown(), and when the flag is
\* set none is and the backend is down.
ReleasedInv ==
  \A i \in TakingTurns :
    /\ \A t, u \in Threads :
         at[t] \in ShuttingDown /\ at[u] \in ShuttingDown /\ on[t] = i /\ on[u] = i => t = u
    /\ isShutDown[i] =>
         /\ backend[i] \in {"none", "down"}
         /\ \A t \in Threads : on[t] = i => at[t] \notin ShuttingDown

\* If moreover the backend does not raise, who is before its shutdown finds it not
\* called yet, and nobody comes back to it.
TurnInv ==
  \A i \in TakingTurns \ Failing :
    /\ shutdowns[i] \in {0, 1}
    /\ \A t \in Threads : at[t] \in {"draining", "releasing"} /\ on[t] = i => shutdowns[i] = 0
    /\ shutdowns[i] = 1 =>
         isShutDown[i] \/ \E t \in Threads : at[t] = "stopping" /\ on[t] = i

\* What a call has to flush had ended, and is not pending any more when its
\* flush ended in time.
DueInv ==
  \A t \in Threads :
    /\ \A s \in due[t] : span[s] \notin {"idle", "open"}
    /\ at[t] = "releasing" /\ ~timedOut[t] =>
         \A s \in due[t] : ~(InstanceOf[s] = on[t] /\ span[s] = "pending")

IInv == TypeOK /\ DownInv /\ ReleasedInv /\ TurnInv /\ DueInv

\* The inductive invariant holds before anything is configured.
LEMMA InitIInv == Init => IInv
<1> SUFFICES ASSUME Init PROVE IInv
  OBVIOUS
<1> USE LifecycleAssumption DEF Init
<1>1. TypeOK
  BY DEF TypeOK
<1>2. DownInv
  BY DEF DownInv
<1>3. TurnInv
  BY DEF TurnInv, ShuttingDown
<1>4. DueInv
  BY DEF DueInv
<1>5. ReleasedInv
  BY DEF ReleasedInv, ShuttingDown
<1> QED
  BY <1>1, <1>2, <1>3, <1>4, <1>5 DEF IInv

-----------------------------------------------------------------------------
(***************************************************************************)
(* Instances and spans.                                                     *)
(***************************************************************************)

\* configure() brings up the backend of an instance that has had none.
LEMMA ConfigureKeeps == ASSUME IInv, NEW i \in Instances, Configure(i) PROVE IInv'
<1> USE LifecycleAssumption DEF IInv, Configure
<1>1. TypeOK'
  BY DEF TypeOK, Handle
<1>2. DownInv'
  BY DEF TypeOK, DownInv
<1>3. TurnInv'
  BY DEF TypeOK, TurnInv
<1>4. DueInv'
  BY DEF TypeOK, DueInv
<1>5. ReleasedInv'
  BY DEF TypeOK, DownInv, ReleasedInv, ShuttingDown
<1> QED
  BY <1>1, <1>2, <1>3, <1>4, <1>5

\* A step of the spans makes none pending that was not open.
LEMMA SpansKeep ==
  ASSUME IInv, NEW s \in Spans, StartSpan(s) \/ EndSpan(s) \/ Export(s)
  PROVE  IInv'
<1> USE LifecycleAssumption DEF IInv
<1>1. TypeOK'
  <2>1. CASE StartSpan(s)
    BY <2>1 DEF TypeOK, StartSpan
  <2>2. CASE EndSpan(s)
    BY <2>2 DEF TypeOK, EndSpan, Pending
  <2>3. CASE Export(s)
    BY <2>3 DEF TypeOK, Export
  <2> QED BY <2>1, <2>2, <2>3
<1>2. UNCHANGED <<configured, isShutDown, backend, shutdowns, at, on, due, timedOut>>
  BY DEF StartSpan, EndSpan, Export
<1>3. DownInv'
  BY <1>2 DEF DownInv
<1>4. TurnInv'
  BY <1>2 DEF TurnInv, ShuttingDown
<1>5. \A v \in Spans :
        /\ span[v] \notin {"idle", "open"} => span'[v] \notin {"idle", "open"}
        /\ span[v] \notin {"idle", "open", "pending"} => span'[v] # "pending"
  <2>1. CASE StartSpan(s)
    BY <2>1 DEF TypeOK, StartSpan
  <2>2. CASE EndSpan(s)
    BY <2>2 DEF TypeOK, EndSpan, Pending
  <2>3. CASE Export(s)
    BY <2>3 DEF TypeOK, Export
  <2> QED BY <2>1, <2>2, <2>3
<1>6. DueInv'
  BY <1>2, <1>5 DEF TypeOK, DueInv
<1>7. ReleasedInv'
  BY <1>2 DEF ReleasedInv, ShuttingDown
<1> QED
  BY <1>1, <1>3, <1>4, <1>6, <1>7

-----------------------------------------------------------------------------
(***************************************************************************)
(* Calls of flush() and shutdown().                                         *)
(***************************************************************************)

\* What a call does whichever it is.
LEMMA CallKeeps ==
  ASSUME IInv, NEW t \in Threads, NEW i \in Instances,
         NEW p \in {"flushing", "flushed", "draining", "returned"}, Call(t, i, p),
         isShutDown' \in [Instances -> BOOLEAN]
  PROVE  TypeOK' /\ DueInv'
<1> USE LifecycleAssumption DEF IInv, Call
<1>1. TypeOK'
  <2>1. Pending(i) \subseteq Spans
    BY DEF Pending
  <2>2. calls' \in [Threads -> 0 .. MaxCalls]
    BY DEF TypeOK
  <2>3. at' \in [Threads -> {"idle", "flushing", "flushed", "draining", "releasing",
                             "stopping", "returned", "raised"}]
    BY DEF TypeOK
  <2> QED BY <2>1, <2>2, <2>3 DEF TypeOK
<1>2. DueInv'
  <2> SUFFICES ASSUME NEW u \in Threads
               PROVE  /\ \A s \in due'[u] : span[s] \notin {"idle", "open"}
                      /\ at'[u] = "releasing" /\ ~timedOut'[u] =>
                           \A s \in due'[u] : ~(InstanceOf[s] = on'[u] /\ span[s] = "pending")
    BY DEF DueInv
  <2>1. CASE u = t
    BY <2>1 DEF TypeOK, Pending
  <2>2. CASE u # t
    <3>1. due'[u] = due[u] /\ at'[u] = at[u] /\ timedOut'[u] = timedOut[u] /\ on'[u] = on[u]
      BY <2>2 DEF TypeOK
    <3> QED BY <3>1 DEF DueInv
  <2> QED BY <2>1, <2>2
<1> QED
  BY <1>1, <1>2

\* flush() touches nothing that shutdown() relies on.
LEMMA FlushKeeps ==
  ASSUME IInv, NEW t \in Threads, NEW i \in Instances, Flush(t, i)
  PROVE  IInv'
<1> DEFINE p == IF backend[i] = "none" THEN "flushed" ELSE "flushing"
<1>1. Call(t, i, p) /\ UNCHANGED isShutDown
  BY DEF Flush
<1>2. TypeOK' /\ DueInv'
  BY <1>1, CallKeeps DEF IInv, TypeOK
<1>3. \A u \in Threads : u # t => at'[u] = at[u] /\ on'[u] = on[u]
  BY <1>1 DEF Call, IInv, TypeOK
<1>4. at[t] \notin ShuttingDown /\ at'[t] \in {"flushed", "flushing"} /\ on'[t] = i
  BY <1>1 DEF Call, Free, ShuttingDown, IInv, TypeOK
<1>5. i \in configured /\ UNCHANGED <<configured, backend, shutdowns, isShutDown>>
  BY <1>1 DEF Call
<1>6. DownInv'
  BY <1>3, <1>4, <1>5 DEF IInv, DownInv
<1>7. TurnInv'
  BY <1>3, <1>4, <1>5 DEF IInv, TurnInv, ShuttingDown
<1>8. ReleasedInv'
  BY <1>3, <1>4, <1>5 DEF IInv, ReleasedInv, ShuttingDown
<1> QED
  BY <1>2, <1>6, <1>7, <1>8 DEF IInv

\* shutdown() begins: with the flag set, or nothing to shut down, it returns.
LEMMA ShutdownCallKeeps ==
  ASSUME IInv, NEW t \in Threads, NEW i \in Instances, ShutdownCall(t, i)
  PROVE  IInv'
<1> USE LifecycleAssumption
<1> DEFINE p == IF isShutDown[i] \/ backend[i] = "none" THEN "returned" ELSE "draining"
<1>1. Call(t, i, p)
  BY DEF ShutdownCall, FirstStep
<1>2. isShutDown' = [isShutDown EXCEPT ![i] = @ \/ backend[i] = "none"]
  BY DEF ShutdownCall
<1>3. TypeOK' /\ DueInv'
  BY <1>1, <1>2, CallKeeps DEF IInv, TypeOK
<1>4. \A u \in Threads : u # t => at'[u] = at[u] /\ on'[u] = on[u]
  BY <1>1 DEF Call, IInv, TypeOK
<1>5. at[t] \notin ShuttingDown /\ at'[t] = p /\ on'[t] = i
  BY <1>1 DEF Call, Free, ShuttingDown, IInv, TypeOK
<1>6. i \in configured /\ UNCHANGED <<configured, backend, shutdowns>>
  BY <1>1 DEF Call
<1>7. \A j \in Instances : isShutDown'[j] = (isShutDown[j] \/ (j = i /\ backend[i] = "none"))
  <2> SUFFICES ASSUME NEW j \in Instances
               PROVE  isShutDown'[j] = (isShutDown[j] \/ (j = i /\ backend[i] = "none"))
    OBVIOUS
  <2>0. isShutDown \in [Instances -> BOOLEAN]
    BY DEF IInv, TypeOK
  <2>1. CASE j = i
    <3>1. isShutDown'[i] = (isShutDown[i] \/ backend[i] = "none")
      BY <1>2, <2>0, Zenon
    <3> QED BY <2>1, <3>1, Zenon
  <2>2. CASE j # i
    <3>1. isShutDown'[j] = isShutDown[j]
      BY <1>2, <2>0, <2>2, Zenon
    <3> QED BY <2>0, <2>2, <3>1, Zenon
  <2> QED BY <2>1, <2>2
<1>8. DownInv'
  <2>1. \A j \in Instances : isShutDown'[j] => j \in configured /\ backend[j] # "up"
    BY <1>6, <1>7 DEF IInv, DownInv
  <2>2. p = "returned" => isShutDown'[i]
    BY <1>7
  <2>3. \A j \in Instances : isShutDown[j] => isShutDown'[j]
    BY <1>7
  <2>4. \A u \in Threads : on[u] \in Instances
    BY DEF IInv, TypeOK
  <2>5. p \in {"returned", "draining"}
    OBVIOUS
  <2> HIDE DEF p
  <2>6. \A u \in Threads :
          /\ at'[u] # "idle" => on'[u] \in configured
          /\ at'[u] = "stopping" => backend[on'[u]] = "stopping"
          /\ at'[u] = "returned" => isShutDown'[on'[u]]
    BY <1>4, <1>5, <1>6, <2>2, <2>3, <2>4, <2>5 DEF IInv, DownInv
  <2> QED BY <1>6, <2>1, <2>6 DEF DownInv
<1>9. ReleasedInv'
  <2> SUFFICES ASSUME NEW j \in TakingTurns
               PROVE  /\ \A v, u \in Threads :
                           at'[v] \in ShuttingDown /\ at'[u] \in ShuttingDown
                             /\ on'[v] = j /\ on'[u] = j => v = u
                      /\ isShutDown'[j] =>
                           /\ backend[j] \in {"none", "down"}
                           /\ \A u \in Threads : on'[u] = j => at'[u] \notin ShuttingDown
    BY <1>6 DEF ReleasedInv, ShuttingDown
  <2>0. j \in Instances
    OBVIOUS
  <2>1. CASE j = i /\ p = "draining"
    <3>1. \A u \in Threads : on[u] = i => at[u] \notin ShuttingDown
      BY <2>1 DEF ShutdownCall, MayShutDown
    <3>2. ~isShutDown'[i]
      BY <1>7, <2>1
    <3> QED BY <1>4, <1>5, <2>1, <3>1, <3>2
  <2>2. CASE ~(j = i /\ p = "draining")
    <3>1. ~(at'[t] \in ShuttingDown /\ on'[t] = j)
      BY <1>5, <2>2 DEF ShuttingDown
    <3>2. \A u \in Threads : at'[u] \in ShuttingDown /\ on'[u] = j =>
            at[u] \in ShuttingDown /\ on[u] = j
      BY <1>4, <3>1
    <3>3. isShutDown'[j] => isShutDown[j] \/ (j = i /\ backend[i] = "none")
      BY <1>7, <2>0
    <3>4. CASE isShutDown[j]
      <4> HIDE DEF p
      <4> QED BY <3>2, <3>4 DEF IInv, ReleasedInv
    <3>5. CASE ~isShutDown[j] /\ ~(j = i /\ backend[i] = "none")
      <4> HIDE DEF p
      <4> QED BY <3>2, <3>3, <3>5 DEF IInv, ReleasedInv
    <3>6. CASE j = i /\ backend[i] = "none"
      <4>1. \A u \in Threads : on[u] = i => at[u] \notin ShuttingDown
        BY <3>6 DEF ShutdownCall, MayShutDown
      <4> HIDE DEF p
      <4> QED BY <3>2, <3>6, <4>1
    <3> QED BY <3>4, <3>5, <3>6
  <2> QED BY <2>1, <2>2
<1>10. TurnInv'
  <2> SUFFICES ASSUME NEW j \in TakingTurns \ Failing
               PROVE  /\ shutdowns[j] \in {0, 1}
                      /\ \A v \in Threads :
                           at'[v] \in {"draining", "releasing"} /\ on'[v] = j => shutdowns[j] = 0
                      /\ shutdowns[j] = 1 =>
                           isShutDown'[j] \/ \E v \in Threads : at'[v] = "stopping" /\ on'[v] = j
    BY <1>6 DEF TurnInv
  <2>1. CASE j = i /\ p = "draining"
    <3>1. \A u \in Threads : on[u] = i => at[u] \notin ShuttingDown
      BY <2>1 DEF ShutdownCall, MayShutDown
    <3>2. ~isShutDown[i]
      BY <2>1
    <3>3. shutdowns[i] = 0
      BY <2>1, <3>1, <3>2 DEF IInv, TurnInv, ShuttingDown
    <3> QED BY <1>4, <1>5, <2>1, <3>1, <3>3 DEF ShuttingDown
  <2>2. CASE ~(j = i /\ p = "draining")
    <3>1. ~(at'[t] \in ShuttingDown /\ on'[t] = j)
      BY <1>5, <2>2 DEF ShuttingDown
    <3>2. j \in Instances
      BY DEF IInv
    <3>3. isShutDown[j] => isShutDown'[j]
      BY <1>7, <3>2
    <3>4. at[t] \notin ShuttingDown
      BY <1>5
    <3>5. \A u \in Threads : at'[u] \in ShuttingDown /\ on'[u] = j =>
            u # t /\ at'[u] = at[u] /\ on'[u] = on[u]
      BY <1>4, <3>1
    <3>6. \A u \in Threads : at[u] \in ShuttingDown => at'[u] = at[u] /\ on'[u] = on[u]
      BY <1>4, <3>4
    <3> HIDE DEF p
    <3> QED BY <3>3, <3>5, <3>6 DEF IInv, TurnInv, ShuttingDown
  <2> QED BY <2>1, <2>2
<1> QED
  BY <1>3, <1>8, <1>9, <1>10 DEF IInv

\* A flush ends, that of flush() or that of shutdown().
LEMMA FlushedKeeps ==
  ASSUME IInv, NEW t \in Threads, FlushReturns(t) \/ Drained(t)
  PROVE  IInv'
<1> USE LifecycleAssumption
<1>1. PICK p \in {"flushed", "releasing"} :
        /\ Flushed(t, p)
        /\ at[t] = IF p = "flushed" THEN "flushing" ELSE "draining"
  BY DEF FlushReturns, Drained
<1>2. \A u \in Threads : u # t => at'[u] = at[u] /\ timedOut'[u] = timedOut[u]
  BY <1>1 DEF Flushed, IInv, TypeOK
<1>3. at'[t] = p /\ timedOut'[t] = (due[t] \cap Pending(on[t]) # {})
  BY <1>1 DEF Flushed, IInv, TypeOK
<1>4. UNCHANGED <<configured, isShutDown, backend, shutdowns, span, on, due, calls>>
  BY <1>1 DEF Flushed
<1>5. TypeOK'
  BY <1>1 DEF Flushed, IInv, TypeOK
<1>6. DownInv'
  BY <1>1, <1>2, <1>3, <1>4 DEF IInv, DownInv
<1>7. TurnInv'
  BY <1>1, <1>2, <1>3, <1>4 DEF IInv, TurnInv, ShuttingDown
<1>8. DueInv'
  <2>1. ~timedOut'[t] => \A s \in due[t] : ~(InstanceOf[s] = on[t] /\ span[s] = "pending")
    BY <1>3 DEF Pending, IInv, TypeOK
  <2> QED BY <1>1, <1>2, <1>4, <2>1 DEF IInv, DueInv
<1>9. ReleasedInv'
  BY <1>1, <1>2, <1>3, <1>4 DEF IInv, ReleasedInv, ShuttingDown
<1> QED
  BY <1>5, <1>6, <1>7, <1>8, <1>9 DEF IInv

\* The backend's shutdown is called.
LEMMA ReleaseKeeps == ASSUME IInv, NEW t \in Threads, Release(t) PROVE IInv'
<1> USE LifecycleAssumption
<1> DEFINE i == on[t]
<1>0. i \in Instances
  BY DEF IInv, TypeOK
<1>1. at[t] = "releasing" /\ at' = [at EXCEPT ![t] = "stopping"]
  BY DEF Release
<1>2. backend' = [backend EXCEPT ![i] = "stopping"] /\ shutdowns' = [shutdowns EXCEPT ![i] = @ + 1]
  BY DEF Release
<1>3. UNCHANGED <<configured, isShutDown, on, due, timedOut, calls>>
  BY DEF Release
<1>4. PICK lost \in SUBSET Pending(i) :
        span' = [s \in Spans |-> IF s \in lost THEN "abandoned"
                                 ELSE IF s \in Pending(i) THEN "exported" ELSE span[s]]
  BY DEF Release
<1>5. \A s \in Spans : span'[s] = span[s] \/ span'[s] \in {"abandoned", "exported"}
  BY <1>4
<1>6. TypeOK'
  <2>1. span' \in [Spans -> {"idle", "open", "pending", "exported", "failed", "dropped",
                             "abandoned", "late", "unrecorded"}]
    BY <1>4 DEF IInv, TypeOK
  <2> QED BY <1>0, <1>1, <1>2, <1>3, <2>1 DEF IInv, TypeOK
<1>7. DownInv'
  BY <1>0, <1>1, <1>2, <1>3 DEF IInv, TypeOK, DownInv
<1>8. TurnInv'
  BY <1>0, <1>1, <1>2, <1>3 DEF IInv, TypeOK, ReleasedInv, TurnInv, ShuttingDown
<1>10. ReleasedInv'
  BY <1>0, <1>1, <1>2, <1>3 DEF IInv, TypeOK, ReleasedInv, ShuttingDown
<1>9. DueInv'
  BY <1>1, <1>3, <1>5 DEF IInv, TypeOK, DueInv
<1> QED
  BY <1>6, <1>7, <1>8, <1>9, <1>10 DEF IInv

\* It returns or raises: the backend is at work until nobody is in a call of it.
LEMMA ReleasedKeeps == ASSUME IInv, NEW t \in Threads, Released(t) PROVE IInv'
<1> USE LifecycleAssumption
<1> DEFINE i == on[t]
<1>0. i \in Instances /\ at[t] = "stopping" /\ backend[i] = "stopping"
  BY DEF IInv, TypeOK, DownInv, Released
<1>1. UNCHANGED <<configured, shutdowns, span, on, due, timedOut, calls>>
  BY DEF Released
<1>2. PICK end \in {"down", "failed"} :
        /\ backend' = [backend EXCEPT ![i] = Ended(t, i, end)]
        /\ \/ /\ end = "down" /\ isShutDown' = [isShutDown EXCEPT ![i] = TRUE]
              /\ at' = [at EXCEPT ![t] = "returned"]
           \/ /\ end = "failed" /\ i \in Failing /\ UNCHANGED isShutDown
              /\ at' = [at EXCEPT ![t] = "raised"]
  BY DEF Released, FlagAfter
<1>3. /\ \A j \in Instances \ {i} : backend'[j] = backend[j] /\ isShutDown'[j] = isShutDown[j]
      /\ \A u \in Threads \ {t} : at'[u] = at[u]
      /\ at'[t] \in {"returned", "raised"}
      /\ at'[t] = "returned" => end = "down" /\ isShutDown'[i]
  BY <1>0, <1>2 DEF IInv, TypeOK
<1>4. backend'[i] = Ended(t, i, end) /\ backend'[i] \in {"stopping", "down", "failed"}
  BY <1>0, <1>2 DEF Ended, IInv, TypeOK
<1>5. \A u \in Threads \ {t} : at[u] = "stopping" /\ on[u] = i => backend'[i] = "stopping"
  BY <1>0, <1>4 DEF Ended
<1>6. TypeOK'
  <2>1. backend' \in [Instances -> {"none", "up", "stopping", "failed", "down"}]
    BY <1>2, <1>4 DEF IInv, TypeOK
  <2>2. isShutDown' \in [Instances -> BOOLEAN]
    BY <1>2 DEF IInv, TypeOK
  <2>3. at' \in [Threads -> {"idle", "flushing", "flushed", "draining", "releasing",
                             "stopping", "returned", "raised"}]
    BY <1>2 DEF IInv, TypeOK
  <2> QED BY <1>1, <2>1, <2>2, <2>3 DEF IInv, TypeOK
<1>7. DownInv'
  <2>1. ASSUME NEW j \in Instances, isShutDown'[j]
        PROVE  j \in configured /\ backend'[j] # "up"
    BY <1>0, <1>3, <1>4, <2>1 DEF IInv, DownInv
  <2>2. ASSUME NEW u \in Threads
        PROVE  /\ at'[u] # "idle" => on[u] \in configured
               /\ at'[u] = "stopping" => backend'[on[u]] = "stopping"
               /\ at'[u] = "returned" => isShutDown'[on[u]]
    <3>1. on[u] \in Instances
      BY DEF IInv, TypeOK
    <3>2. CASE u = t
      BY <1>0, <1>3, <3>2 DEF IInv, DownInv
    <3>3. CASE u # t /\ on[u] # i
      BY <1>3, <3>1, <3>3 DEF IInv, DownInv
    <3>4. CASE u # t /\ on[u] = i
      <4>1. isShutDown[i] => isShutDown'[i]
        BY <1>0, <1>2 DEF IInv, TypeOK
      <4> QED BY <1>3, <1>5, <3>4, <4>1 DEF IInv, DownInv
    <3> QED BY <3>2, <3>3, <3>4
  <2> QED BY <1>1, <2>1, <2>2 DEF DownInv
<1>8. ReleasedInv'
  <2> SUFFICES ASSUME NEW j \in TakingTurns
               PROVE  /\ \A v, u \in Threads :
                           at'[v] \in ShuttingDown /\ at'[u] \in ShuttingDown
                             /\ on[v] = j /\ on[u] = j => v = u
                      /\ isShutDown'[j] =>
                           /\ backend'[j] \in {"none", "down"}
                           /\ \A u \in Threads : on[u] = j => at'[u] \notin ShuttingDown
    BY <1>1 DEF ReleasedInv, ShuttingDown
  <2>0. j \in Instances
    OBVIOUS
  <2>1. \A u \in Threads : at'[u] \in ShuttingDown => u # t /\ at[u] \in ShuttingDown
    BY <1>3 DEF ShuttingDown
  <2>2. \A v, u \in Threads :
          at'[v] \in ShuttingDown /\ at'[u] \in ShuttingDown /\ on[v] = j /\ on[u] = j => v = u
    BY <2>1 DEF IInv, ReleasedInv
  <2>3. CASE j # i
    BY <1>3, <2>0, <2>1, <2>2, <2>3 DEF IInv, ReleasedInv
  <2>4. CASE j = i
    <3>1. \A u \in Threads \ {t} : on[u] = i => at[u] \notin ShuttingDown
      BY <1>0, <2>4 DEF IInv, ReleasedInv, ShuttingDown
    <3>2. ~isShutDown[i]
      BY <1>0, <2>4 DEF IInv, ReleasedInv, ShuttingDown
    <3>3. isShutDown'[i] => end = "down"
      BY <1>2, <3>2
    <3>4. backend'[i] = end
      BY <1>4, <3>1 DEF Ended, ShuttingDown
    <3> QED BY <2>1, <2>2, <2>4, <3>1, <3>3, <3>4
  <2> QED BY <2>3, <2>4
<1>9. TurnInv'
  <2>1. \A u \in Threads : at'[u] \in {"draining", "releasing"} => at'[u] = at[u]
    BY <1>3
  <2>2. \A j \in TakingTurns \ Failing : isShutDown[j] => isShutDown'[j]
    BY <1>0, <1>2, <1>3 DEF IInv, TypeOK
  <2>3. i \in TakingTurns \ Failing => isShutDown'[i]
    BY <1>0, <1>2 DEF IInv, TypeOK
  <2>4. \A u \in Threads : at[u] = "stopping" /\ on[u] # i => at'[u] = "stopping"
    BY <1>3
  <2> QED BY <1>1, <2>1, <2>2, <2>3, <2>4 DEF IInv, TurnInv
<1>10. DueInv'
  BY <1>1, <1>3 DEF IInv, TypeOK, DueInv
<1> QED
  BY <1>6, <1>7, <1>8, <1>9, <1>10 DEF IInv

\* Every step keeps the inductive invariant.
LEMMA NextIInv == IInv /\ [Next]_vars => IInv'
<1> SUFFICES ASSUME IInv, [Next]_vars PROVE IInv'
  OBVIOUS
<1>1. CASE UNCHANGED vars
  BY <1>1 DEF vars, IInv, TypeOK, DownInv, ReleasedInv, TurnInv, DueInv, ShuttingDown
<1>2. CASE Next
  BY <1>2, ConfigureKeeps, SpansKeep, FlushKeeps, ShutdownCallKeeps, FlushedKeeps,
     ReleaseKeeps, ReleasedKeeps DEF Next
<1> QED
  BY <1>1, <1>2

\* The inductive invariant holds.
THEOREM Invariance == Spec => []IInv
  BY InitIInv, NextIInv, PTL DEF Spec

-----------------------------------------------------------------------------
(***************************************************************************)
(* The theorems.                                                            *)
(***************************************************************************)

\* The type invariant.
THEOREM LifecycleTyped == Spec => []TypeOK
  BY Invariance, PTL DEF IInv

\* Where threads take turns, whoever returns from shutdown() finds the backend down
\* and nobody at work on it, although calls of others may have raised before; where
\* they race, nobody returns before its shutdown was called (shutdown in
\* entrypoints/observability.py).
THEOREM ReleasedOnReturn == Spec => []ReturnedIsReleased
<1>1. IInv => ReturnedIsReleased
  BY LifecycleAssumption DEF IInv, TypeOK, DownInv, ReleasedInv, ReturnedIsReleased
<1> QED
  BY <1>1, Invariance, PTL

\* Threads that take turns shut a backend down once.
THEOREM ShutDownOnce == Spec => []ShutOnce
<1>1. IInv => ShutOnce
  BY DEF IInv, TurnInv, ShutOnce
<1> QED
  BY <1>1, Invariance, PTL

\* A shutdown whose flush ended in time abandons nothing that had ended before.
THEOREM FlushedIsKept == Spec => PendingIsFlushed
<1> DEFINE Kept ==
      \A t \in Threads :
        at[t] = "releasing" /\ at'[t] = "stopping" /\ ~timedOut[t] =>
          \A s \in due[t] : span[s] # "abandoned" => span'[s] # "abandoned"
<1>1. IInv /\ [Next]_vars => [Kept]_vars
  <2> SUFFICES ASSUME IInv, Next PROVE Kept
    OBVIOUS
  <2>1. ASSUME NEW t \in Threads, at[t] = "releasing", at'[t] = "stopping", ~timedOut[t],
               NEW s \in due[t], span[s] # "abandoned"
        PROVE  span'[s] # "abandoned"
    <3>1. Release(t)
      <4>1. CASE \E i \in Instances : Configure(i)
        BY <2>1, <4>1 DEF Configure
      <4>2. CASE \E v \in Spans : StartSpan(v) \/ EndSpan(v) \/ Export(v)
        BY <2>1, <4>2 DEF StartSpan, EndSpan, Export
      <4>3. CASE \E u \in Threads, i \in Instances : Flush(u, i) \/ ShutdownCall(u, i)
        BY <2>1, <4>3 DEF Flush, ShutdownCall, Call, Free, FirstStep, IInv, TypeOK
      <4>4. CASE \E u \in Threads : FlushReturns(u) \/ Drained(u) \/ Released(u)
        <5>1. PICK u \in Threads : FlushReturns(u) \/ Drained(u) \/ Released(u)
          BY <4>4
        <5>2. at' = [at EXCEPT ![u] = "flushed"] \/ at' = [at EXCEPT ![u] = "releasing"]
              \/ at' = [at EXCEPT ![u] = "returned"] \/ at' = [at EXCEPT ![u] = "raised"]
          BY <5>1 DEF FlushReturns, Drained, Flushed, Released
        <5>3. at'[t] \in {at[t], "flushed", "releasing", "returned", "raised"}
          BY <5>2 DEF IInv, TypeOK
        <5> QED BY <2>1, <5>3
      <4>5. CASE \E u \in Threads : Release(u)
        <5>1. PICK u \in Threads : Release(u)
          BY <4>5
        <5>2. at' = [at EXCEPT ![u] = "stopping"]
          BY <5>1 DEF Release
        <5>3. u = t
          BY <2>1, <5>2 DEF IInv, TypeOK
        <5> QED BY <5>1, <5>3
      <4> QED BY <4>1, <4>2, <4>3, <4>4, <4>5 DEF Next
    <3>2. s \in Spans /\ s \notin Pending(on[t])
      BY <2>1 DEF IInv, TypeOK, DueInv, Pending
    <3> QED BY <2>1, <3>1, <3>2 DEF Release
  <2> QED BY <2>1
<1> QED
  BY <1>1, Invariance, PTL DEF Spec, PendingIsFlushed
=============================================================================
