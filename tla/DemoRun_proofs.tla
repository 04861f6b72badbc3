--------------------------- MODULE DemoRun_proofs ---------------------------
(***************************************************************************)
(* Theorems about DemoRun, for any set of runs.                             *)
(***************************************************************************)
EXTENDS DemoRun, TLAPS

\* A run that is stopping its services has decided; one past the risk service's
\* end, or past both, has none left.
StopInv ==
  \A r \in Runs :
    /\ pc[r] \in {"stopRisk", "reapRisk", "stopMcp", "reapMcp"} => result[r] # "none"
    /\ pc[r] \in {"stopMcp", "reapMcp", "done"} => child["risk"][r] = "dead"
    /\ pc[r] = "done" => child["mcp"][r] = "dead"

\* A request is made once, is worked on only between its beginning and its end,
\* and the file names a run whose request was answered.
RequestInv ==
  /\ \A r \in Runs :
       /\ request[r] \in {"none", "answered"} => served["risk"][r] = NoRun
       /\ pc[r] \in {"idle", "startMcp", "startRisk", "waitMcp", "waitRisk", "request"} =>
            request[r] = "none"
  /\ last # NoRun => request[last] = "answered"

IInv == TypeOK /\ PassedIsEvident /\ StopInv /\ RequestInv

\* It holds before anything has run.
LEMMA InitIInv == Init => IInv
  BY RunAssumption DEF Init, IInv, TypeOK, PassedIsEvident, StopInv, RequestInv, Active,
     Spans, Services

\* The receipt only grows, and so does what is found in it.
LEMMA FoundGrows ==
  ASSUME NEW r \in Runs, receipt \subseteq receipt', Required \subseteq Found(r)
  PROVE  Required \subseteq Found(r)'
  BY DEF Found

-----------------------------------------------------------------------------
(***************************************************************************)
(* The type invariant.                                                      *)
(***************************************************************************)

\* The run's own steps ...
LEMMA MainTyped == ASSUME TypeOK, NEW r \in Runs, Main(r) PROVE TypeOK'
<1> USE RunAssumption DEF TypeOK, Goto, Move, Fail, Active, Spans, Services, Required
<1>1. CASE Begin(r)
  BY <1>1 DEF Begin, Kept
<1>2. CASE Start(r, "mcp", "startMcp", "startRisk") \/ Start(r, "risk", "startRisk", "waitMcp")
  BY <1>2 DEF Start
<1>3. CASE WaitForTcp(r, "mcp", "waitMcp", "waitRisk") \/ WaitForTcp(r, "risk", "waitRisk", "request")
  BY <1>3 DEF WaitForTcp
<1>4. CASE Request(r)
  BY <1>4 DEF Request, Listening
<1>5. CASE Await(r)
  BY <1>5 DEF Await
<1>6. CASE Poll(r)
  BY <1>6 DEF Poll
<1>7. CASE Signal(r, "risk", "stopRisk", "reapRisk") \/ Signal(r, "mcp", "stopMcp", "reapMcp")
  BY <1>7 DEF Signal
<1>8. CASE Reap(r, "risk", "reapRisk", "stopMcp") \/ Reap(r, "mcp", "reapMcp", "done")
  BY <1>8 DEF Reap
<1> QED
  BY <1>1, <1>2, <1>3, <1>4, <1>5, <1>6, <1>7, <1>8 DEF Main

\* ... those of its request ...
LEMMA RequestTyped ==
  ASSUME TypeOK, NEW r \in Runs, Killed(r) \/ Lookup(r) \/ ServeTool(r) \/ EndLookup(r)
  PROVE  TypeOK'
<1> USE RunAssumption DEF TypeOK, Goto, Active, Spans, Services, Required, runner
<1>1. CASE Killed(r)
  BY <1>1 DEF Killed
<1>2. CASE Lookup(r)
  BY <1>2 DEF Lookup, Listening
<1>3. CASE ServeTool(r)
  BY <1>3 DEF ServeTool, Records, Works
<1>4. CASE EndLookup(r)
  BY <1>4 DEF EndLookup, Records, Works
<1> QED
  BY <1>1, <1>2, <1>3, <1>4

\* ... and those of a service.
LEMMA ServiceTyped ==
  ASSUME TypeOK, NEW s \in Services, NEW c \in Runs, Bind(s, c) \/ Exit(s, c) \/ Export(s, c)
  PROVE  TypeOK'
<1> USE RunAssumption DEF TypeOK, Spans, Services, runner
<1>1. CASE Bind(s, c)
  BY <1>1 DEF Bind
<1>2. CASE Exit(s, c)
  BY <1>2 DEF Exit
<1>3. CASE Export(s, c)
  BY <1>3 DEF Export
<1> QED
  BY <1>1, <1>2, <1>3

-----------------------------------------------------------------------------
(***************************************************************************)
(* What the runs' steps keep.                                               *)
(***************************************************************************)

\* A step of the runner ...
LEMMA MainKeeps ==
  ASSUME IInv, NEW r \in Runs, Main(r)
  PROVE  PassedIsEvident' /\ StopInv' /\ RequestInv'
<1> USE RunAssumption DEF IInv, TypeOK, Goto, Move, Fail, Services
<1>a. receipt \subseteq receipt'
  BY DEF Main, Begin, Kept, Start, WaitForTcp, Request, Await, Poll, Signal, Reap
<1>b. ASSUME \A q \in Runs : result'[q] = "passed" => result[q] = "passed"
      PROVE  PassedIsEvident'
  BY <1>a, <1>b, FoundGrows DEF PassedIsEvident
<1>1. CASE Begin(r)
  <2>1. PassedIsEvident'
    BY <1>1, <1>b DEF Begin
  <2>2. StopInv' /\ RequestInv'
    BY <1>1 DEF Begin, StopInv, RequestInv
  <2> QED BY <2>1, <2>2
<1>2. CASE Start(r, "mcp", "startMcp", "startRisk") \/ Start(r, "risk", "startRisk", "waitMcp")
  <2>1. PassedIsEvident'
    BY <1>2, <1>b DEF Start
  <2>2. StopInv' /\ RequestInv'
    BY <1>2 DEF Start, StopInv, RequestInv
  <2> QED BY <2>1, <2>2
<1>3. CASE WaitForTcp(r, "mcp", "waitMcp", "waitRisk") \/ WaitForTcp(r, "risk", "waitRisk", "request")
  <2>1. PassedIsEvident'
    BY <1>3, <1>b DEF WaitForTcp
  <2>2. StopInv' /\ RequestInv'
    BY <1>3 DEF WaitForTcp, StopInv, RequestInv
  <2> QED BY <2>1, <2>2
<1>4. CASE Request(r)
  <2>1. PassedIsEvident'
    BY <1>4, <1>b DEF Request
  <2>2. StopInv'
    BY <1>4 DEF Request, StopInv
  <2>3. last # r
    BY <1>4 DEF Request, RequestInv
  <2>4. RequestInv'
    BY <1>4, <2>3 DEF Request, RequestInv
  <2> QED BY <2>1, <2>2, <2>4
<1>5. CASE Await(r)
  <2>1. PassedIsEvident'
    BY <1>5, <1>b DEF Await
  <2>2. StopInv' /\ RequestInv'
    BY <1>5 DEF Await, Answered, StopInv, RequestInv
  <2> QED BY <2>1, <2>2
<1>6. CASE Poll(r)
  <2>1. Required \subseteq Found(r) \/ result'[r] = "failed"
    BY <1>6 DEF Poll
  <2>2. Found(r)' = Found(r) /\ \A q \in Runs : Found(q)' = Found(q)
    BY <1>6 DEF Poll, Found
  <2>3. PassedIsEvident'
    BY <1>6, <2>1, <2>2 DEF Poll, PassedIsEvident
  <2>4. StopInv' /\ RequestInv'
    BY <1>6 DEF Poll, StopInv, RequestInv
  <2> QED BY <2>3, <2>4
<1>7. CASE Signal(r, "risk", "stopRisk", "reapRisk") \/ Signal(r, "mcp", "stopMcp", "reapMcp")
  <2>1. PassedIsEvident'
    BY <1>7, <1>b DEF Signal
  <2>2. StopInv' /\ RequestInv'
    BY <1>7 DEF Signal, StopInv, RequestInv
  <2> QED BY <2>1, <2>2
<1>8. CASE Reap(r, "risk", "reapRisk", "stopMcp") \/ Reap(r, "mcp", "reapMcp", "done")
  <2>1. PassedIsEvident'
    BY <1>8, <1>b DEF Reap
  <2>2. StopInv' /\ RequestInv'
    BY <1>8 DEF Reap, StopInv, RequestInv
  <2> QED BY <2>1, <2>2
<1> QED
  BY <1>1, <1>2, <1>3, <1>4, <1>5, <1>6, <1>7, <1>8 DEF Main

\* ... of its request ...
LEMMA RequestKeeps ==
  ASSUME IInv, NEW r \in Runs, Killed(r) \/ Lookup(r) \/ ServeTool(r) \/ EndLookup(r)
  PROVE  PassedIsEvident' /\ StopInv' /\ RequestInv'
<1> USE RunAssumption DEF IInv, TypeOK, Goto, Services
<1>a. PassedIsEvident'
  BY DEF Killed, Lookup, ServeTool, EndLookup, runner, PassedIsEvident, Found
<1>1. CASE Killed(r)
  BY <1>a, <1>1 DEF Killed, StopInv, RequestInv
<1>b. ASSUME UNCHANGED <<runner, child>> PROVE StopInv'
  BY <1>b DEF runner, StopInv
<1>2. CASE Lookup(r)
  <2>1. request[r] = "risk" /\ last # r
    BY <1>2 DEF Lookup, RequestInv
  <2>2. RequestInv'
    BY <1>2, <2>1 DEF Lookup, runner, RequestInv
  <2> QED BY <1>a, <1>b, <1>2, <2>2 DEF Lookup
<1>3. CASE ServeTool(r)
  <2>1. request'[r] = request[r] \/ (request[r] = "mcp" /\ request'[r] = "tool")
    BY <1>3 DEF ServeTool
  <2>2. RequestInv'
    BY <1>3, <2>1 DEF ServeTool, Records, runner, RequestInv
  <2> QED BY <1>a, <1>b, <1>3, <2>2 DEF ServeTool
<1>4. CASE EndLookup(r)
  <2>1. request[r] \notin {"none", "answered"} /\ last # r
    BY <1>4 DEF EndLookup, Works, RequestInv
  <2>2. RequestInv'
    BY <1>4, <2>1 DEF EndLookup, Records, runner, RequestInv
  <2> QED BY <1>a, <1>b, <1>4, <2>2 DEF EndLookup
<1> QED
  BY <1>1, <1>2, <1>3, <1>4

\* ... and of a service, which disturbs none of this.
LEMMA ServiceKeeps ==
  ASSUME IInv, NEW s \in Services, NEW c \in Runs, Bind(s, c) \/ Exit(s, c) \/ Export(s, c)
  PROVE  PassedIsEvident' /\ StopInv' /\ RequestInv'
<1> USE DEF IInv, TypeOK, Services, runner
<1>1. receipt \subseteq receipt'
  BY DEF Bind, Exit, Export
<1>2. PassedIsEvident'
  BY <1>1, FoundGrows DEF Bind, Exit, Export, PassedIsEvident
<1>3. \A t \in Services, r \in Runs : child[t][r] = "dead" => child'[t][r] = "dead"
  BY DEF Bind, Exit, Export, Alive
<1>4. StopInv'
  BY <1>3 DEF Bind, Exit, Export, StopInv
<1>5. RequestInv'
  BY DEF Bind, Exit, Export, RequestInv
<1> QED
  BY <1>2, <1>4, <1>5

\* Every step keeps the inductive invariant.
LEMMA NextIInv == IInv /\ [Next]_vars => IInv'
<1> SUFFICES ASSUME IInv, [Next]_vars PROVE IInv'
  OBVIOUS
<1>1. CASE UNCHANGED vars
  BY <1>1 DEF vars, runner, IInv, TypeOK, PassedIsEvident, Found, StopInv, RequestInv
<1>2. CASE \E r \in Runs : Main(r)
  BY <1>2, MainTyped, MainKeeps DEF IInv
<1>3. CASE \E r \in Runs : Killed(r) \/ Lookup(r) \/ ServeTool(r) \/ EndLookup(r)
  BY <1>3, RequestTyped, RequestKeeps DEF IInv
<1>4. CASE \E s \in Services, c \in Runs : Bind(s, c) \/ Exit(s, c) \/ Export(s, c)
  BY <1>4, ServiceTyped, ServiceKeeps DEF IInv
<1> QED
  BY <1>1, <1>2, <1>3, <1>4 DEF Next

\* The inductive invariant holds.
THEOREM Invariance == Spec => []IInv
  BY InitIInv, NextIInv, PTL DEF Spec

-----------------------------------------------------------------------------
(***************************************************************************)
(* The theorems.                                                            *)
(***************************************************************************)

\* The type invariant.
THEOREM DemoTyped == Spec => []TypeOK
  BY Invariance, PTL DEF IInv

\* The receipt keeps the evidence of every run that passed.
THEOREM EvidenceIsKept == Spec => []PassedIsEvident
  BY Invariance, PTL DEF IInv

\* The verifier passes only the trace of a request that was answered.
THEOREM VerifiedHappened == Spec => []VerifiedWasAnswered
<1>1. IInv => VerifiedWasAnswered
  BY DEF IInv, RequestInv, VerifiedWasAnswered, VerifierPasses
<1> QED
  BY <1>1, Invariance, PTL

\* A run that got to its end leaves no service behind.
THEOREM NoneIsLeft == Spec => []DoneLeavesNone
<1>1. IInv => DoneLeavesNone
  BY DEF IInv, StopInv, DoneLeavesNone, Services
<1> QED
  BY <1>1, Invariance, PTL

\* Services are signalled after the receipt, or after a failure.
THEOREM ReceiptComesFirst == Spec => ReceiptBeforeStop
<1> DEFINE Signalled ==
      \A s \in Services, r \in Runs :
        child[s][r] \in {"starting", "serving"} /\ child'[s][r] = "stopping" =>
          Required \subseteq Found(r) \/ result[r] = "failed"
<1>1. IInv /\ [Next]_vars => [Signalled]_vars
  <2> SUFFICES ASSUME IInv, Next PROVE Signalled
    OBVIOUS
  <2>1. ASSUME NEW s \in Services, NEW r \in Runs,
               child[s][r] \in {"starting", "serving"}, child'[s][r] = "stopping"
        PROVE  Required \subseteq Found(r) \/ result[r] = "failed"
    <3>1. pc[r] \in {"stopRisk", "stopMcp"}
      <4>1. CASE \E q \in Runs : Main(q)
        BY <2>1, <4>1 DEF IInv, TypeOK, Services, Main, Begin, Start, WaitForTcp, Request,
           Await, Poll, Signal, Reap, Move
      <4>2. CASE \E q \in Runs : Killed(q) \/ Lookup(q) \/ ServeTool(q) \/ EndLookup(q)
        BY <2>1, <4>2 DEF Killed, Lookup, ServeTool, EndLookup
      <4>3. CASE \E t \in Services, c \in Runs : Bind(t, c) \/ Exit(t, c) \/ Export(t, c)
        BY <2>1, <4>3 DEF IInv, TypeOK, Services, Bind, Exit, Export
      <4> QED BY <4>1, <4>2, <4>3 DEF Next
    <3> QED BY <3>1 DEF IInv, TypeOK, StopInv, PassedIsEvident
  <2> QED BY <2>1
<1> QED
  BY <1>1, Invariance, PTL DEF Spec, ReceiptBeforeStop
=============================================================================
