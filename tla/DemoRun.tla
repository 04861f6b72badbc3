------------------------------ MODULE DemoRun ------------------------------
(***************************************************************************)
(* The end-to-end demonstration (examples/end_to_end).  A run of            *)
(* run_demo.py starts the two services, has the orchestrator make one       *)
(* traced request, waits until the Collector's receipt holds the spans of   *)
(* all parties, and stops the services; verify_trace.py reads the receipt   *)
(* afterwards.                                                              *)
(*                                                                         *)
(* Runs share what outlives them: the services' ports, which the service of *)
(* a run that was killed may still hold, the receipt, to which the          *)
(* Collector only appends, and the file that names the last trace.  Spans   *)
(* are exported some time after they end, and may be lost.                  *)
(***************************************************************************)
EXTENDS FiniteSets

CONSTANTS
  Runs,      \* runs of run_demo.py; a run's name is also its trace's
  NoRun

ASSUME RunAssumption == NoRun \notin Runs

VARIABLES
  pc,        \* pc[r]: where main() of run r is, or how the process ended
  result,    \* result[r]: "none", "passed" or "failed"
  child,     \* child[s][r]: the process of service s that run r started
  request,   \* request[r]: how far the A2A request of run r is
  served,    \* served[s][r]: the run whose service s works for the request
  buffer,    \* buffer[s][r]: the spans that process has not exported yet
  receipt,   \* traces.jsonl, as spans
  last       \* last_trace_id.txt

runner == <<pc, result>>

vars == <<runner, child, request, served, buffer, receipt, last>>

Services == {"mcp", "risk"}

\* REQUIRED_SPANS, by the process that records them.
Required == {"a2a.client", "a2a.server", "mcp.client", "mcp.server"}

Spans == Runs \X Required

Active ==
  {"startMcp", "startRisk", "waitMcp", "waitRisk", "request", "await", "poll",
   "stopRisk", "reapRisk", "stopMcp", "reapMcp"}

TypeOK ==
  /\ pc \in [Runs -> {"idle", "done", "aborted"} \cup Active]
  /\ result \in [Runs -> {"none", "passed", "failed"}]
  /\ child \in [Services -> [Runs -> {"none", "starting", "serving", "stopping", "dead"}]]
  /\ request \in [Runs -> {"none", "risk", "mcp", "tool", "answered", "broken"}]
  /\ served \in [Services -> [Runs -> Runs \cup {NoRun}]]
  /\ buffer \in [Services -> [Runs -> SUBSET Spans]]
  /\ receipt \subseteq Spans
  /\ last \in Runs \cup {NoRun}

Init ==
  /\ pc = [r \in Runs |-> "idle"]
  /\ result = [r \in Runs |-> "none"]
  /\ child = [s \in Services |-> [r \in Runs |-> "none"]]
  /\ request = [r \in Runs |-> "none"]
  /\ served = [s \in Services |-> [r \in Runs |-> NoRun]]
  /\ buffer = [s \in Services |-> [r \in Runs |-> {}]]
  /\ receipt = {}
  /\ last = NoRun

-----------------------------------------------------------------------------
(***************************************************************************)
(* main() of run_demo.py.                                                   *)
(***************************************************************************)

Goto(r, p) == pc' = [pc EXCEPT ![r] = p]

Move(r, p, q) == pc[r] = p /\ Goto(r, q)

\* An exception within the try statement: its finally clause comes next.
Fail(r) ==
  /\ Goto(r, "stopRisk")
  /\ result' = [result EXCEPT ![r] = "failed"]

\* Mutant of Kept: truncating the receipt.
Truncated == {}

\* What a new run leaves of the receipt.
Kept == receipt

Begin(r) ==
  /\ Move(r, "idle", "startMcp")
  /\ last' = NoRun
  /\ receipt' = Kept
  /\ UNCHANGED <<result, child, request, served, buffer>>

\* Popen, before the try statement: a failure leaves what was started before.
Start(r, s, p, q) ==
  /\ \/ /\ Move(r, p, q)
        /\ child' = [child EXCEPT ![s][r] = "starting"]
        /\ UNCHANGED result
     \/ /\ Move(r, p, "aborted")
        /\ result' = [result EXCEPT ![r] = "failed"]
        /\ UNCHANGED child
  /\ UNCHANGED <<request, served, buffer, receipt, last>>

\* The processes of service s that accept connections: one, or none.
Listening(s) == {r \in Runs : child[s][r] = "serving"}

\* wait_for_tcp: any listener will do; a while later it gives up.
WaitForTcp(r, s, p, q) ==
  /\ pc[r] = p
  /\ \/ Listening(s) # {} /\ Goto(r, q) /\ UNCHANGED result
     \/ Fail(r)
  /\ UNCHANGED <<child, request, served, buffer, receipt, last>>

\* run() of orchestrator.py, up to the answer; without a connection it raises.
Request(r) ==
  /\ pc[r] = "request"
  /\ \/ \E c \in Listening("risk") :
          /\ Goto(r, "await")
          /\ request' = [request EXCEPT ![r] = "risk"]
          /\ served' = [served EXCEPT !["risk"][r] = c]
          /\ UNCHANGED result
     \/ /\ Listening("risk") = {}
        /\ Fail(r)
        /\ UNCHANGED <<request, served>>
  /\ UNCHANGED <<child, buffer, receipt, last>>

\* Mutant of Answered: not looking at whether the response is an error.
AnsweredAnyhow(r) == request[r] \in {"answered", "broken"}

Answered(r) == request[r] = "answered"

\* The answer, whose trace is then written to the file, or an error or a timeout.
\* Either way the client's span ends, and the orchestrator flushes and shuts down.
Await(r) ==
  /\ pc[r] = "await"
  /\ \/ Answered(r) /\ Goto(r, "poll") /\ last' = r /\ UNCHANGED result
     \/ Fail(r) /\ UNCHANGED last
  /\ receipt' \in {receipt, receipt \cup {<<r, "a2a.client">>}}
  /\ UNCHANGED <<child, request, served, buffer>>

\* Mutant of Found: not filtering the receipt by the run's own trace.
FoundAny(r) == {span[2] : span \in receipt}

\* observed_names: the names of the spans of one trace.
Found(r) == {span[2] : span \in {x \in receipt : x[1] = r}}

\* verify_trace.py passes the trace that the file names.
VerifierPasses == last # NoRun /\ Required \subseteq Found(last)

\* wait_for_required_spans: the deadline is looked at before the receipt, which
\* may by then hold what was missing at the last look.
Poll(r) ==
  /\ pc[r] = "poll"
  /\ \/ /\ Required \subseteq Found(r)
        /\ Goto(r, "stopRisk")
        /\ result' = [result EXCEPT ![r] = "passed"]
     \/ Fail(r)
  /\ UNCHANGED <<child, request, served, buffer, receipt, last>>

\* Mutant of Signal: stopping the services while the receipt is waited for.
SignalEarly(r, s, p, q) ==
  /\ Move(r, p, q) \/ (pc[r] = "poll" /\ s = "mcp" /\ UNCHANGED pc)
  /\ child' = [child EXCEPT ![s][r] = IF @ = "dead" THEN @ ELSE "stopping"]
  /\ UNCHANGED <<result, request, served, buffer, receipt, last>>

\* stop: SIGTERM, unless the process has ended ...
Signal(r, s, p, q) ==
  /\ Move(r, p, q)
  /\ child' = [child EXCEPT ![s][r] = IF @ = "dead" THEN @ ELSE "stopping"]
  /\ UNCHANGED <<result, request, served, buffer, receipt, last>>

\* Mutant of Reap: giving up on a process that does not end in time.
ReapOrLeave(r, s, p, q) ==
  /\ Move(r, p, q)
  /\ UNCHANGED <<result, child, request, served, buffer, receipt, last>>

\* ... then the process has ended, or is killed.
Reap(r, s, p, q) ==
  /\ Move(r, p, q)
  /\ child' = [child EXCEPT ![s][r] = "dead"]
  /\ buffer' = [buffer EXCEPT ![s][r] = {}]
  /\ UNCHANGED <<result, request, served, receipt, last>>

\* The process of the runner is killed; those it started go on.
Killed(r) ==
  /\ pc[r] \in Active
  /\ Goto(r, "aborted")
  /\ UNCHANGED <<result, child, request, served, buffer, receipt, last>>

Main(r) ==
  \/ Begin(r)
  \/ Start(r, "mcp", "startMcp", "startRisk")
  \/ Start(r, "risk", "startRisk", "waitMcp")
  \/ WaitForTcp(r, "mcp", "waitMcp", "waitRisk")
  \/ WaitForTcp(r, "risk", "waitRisk", "request")
  \/ Request(r)
  \/ Await(r)
  \/ Poll(r)
  \/ Signal(r, "risk", "stopRisk", "reapRisk")
  \/ Reap(r, "risk", "reapRisk", "stopMcp")
  \/ Signal(r, "mcp", "stopMcp", "reapMcp")
  \/ Reap(r, "mcp", "reapMcp", "done")

-----------------------------------------------------------------------------
(***************************************************************************)
(* The services, risk_agent.py and customer_data_mcp.py.                    *)
(***************************************************************************)

\* uvicorn.run binds the port; where that is taken, the process ends.
Bind(s, c) ==
  /\ child[s][c] = "starting"
  /\ \/ Listening(s) = {} /\ child' = [child EXCEPT ![s][c] = "serving"]
     \/ Listening(s) # {} /\ child' = [child EXCEPT ![s][c] = "dead"]
  /\ UNCHANGED <<runner, request, served, buffer, receipt, last>>

\* The processes that hold spans, until they are exported or the process ends.
Alive(s, c) == child[s][c] \in {"serving", "stopping"}

\* BatchSpanProcessor exports what has ended of a trace; a span whose export
\* fails is one that stays behind when the process ends.
Export(s, c) ==
  /\ Alive(s, c)
  /\ \E r \in Runs :
       LET batch == {span \in buffer[s][c] : span[1] = r} IN
         /\ batch # {}
         /\ receipt' = receipt \cup batch
         /\ buffer' = [buffer EXCEPT ![s][c] = @ \ batch]
  /\ UNCHANGED <<runner, child, request, served, last>>

\* A process ends, on SIGTERM or otherwise; what it still held is lost.
Exit(s, c) ==
  /\ Alive(s, c)
  /\ child' = [child EXCEPT ![s][c] = "dead"]
  /\ buffer' = [buffer EXCEPT ![s][c] = {}]
  /\ UNCHANGED <<runner, request, served, receipt, last>>

\* A process of service s that is alive works for the request of r.
Works(s, r) == served[s][r] # NoRun /\ Alive(s, served[s][r])

\* It records spans of the request, and has then done its part.
Records(s, r, names) ==
  /\ buffer' = [buffer EXCEPT ![s][served[s][r]] = @ \cup ({r} \X names)]
  /\ served' = [served EXCEPT ![s][r] = NoRun]

\* on_get_task calls the tool, in a session whose requests are one here ...
Lookup(r) ==
  /\ request[r] = "risk"
  /\ Works("risk", r)
  /\ \E c \in Listening("mcp") : served' = [served EXCEPT !["mcp"][r] = c]
  /\ request' = [request EXCEPT ![r] = "mcp"]
  /\ UNCHANGED <<runner, child, buffer, receipt, last>>

\* ... get_customer_risk_score answers, though perhaps too late ...
ServeTool(r) ==
  /\ Works("mcp", r)
  /\ request' = [request EXCEPT ![r] = IF @ = "mcp" THEN "tool" ELSE @]
  /\ Records("mcp", r, {"mcp.server"})
  /\ UNCHANGED <<runner, child, receipt, last>>

\* ... and the request is answered; or the call has failed or timed out.
EndLookup(r) ==
  /\ Works("risk", r)
  /\ \/ request[r] = "tool" /\ request' = [request EXCEPT ![r] = "answered"]
     \/ request' = [request EXCEPT ![r] = "broken"]
  /\ Records("risk", r, {"mcp.client", "a2a.server"})
  /\ UNCHANGED <<runner, child, receipt, last>>

Next ==
  \/ \E r \in Runs : Main(r) \/ Killed(r) \/ Lookup(r) \/ ServeTool(r) \/ EndLookup(r)
  \/ \E s \in Services, c \in Runs : Bind(s, c) \/ Exit(s, c) \/ Export(s, c)

Spec == Init /\ [][Next]_vars

-----------------------------------------------------------------------------
(***************************************************************************)
(* Properties.                                                              *)
(***************************************************************************)

\* The receipt holds the evidence of every run that passed, though later runs
\* begin while the Collector writes, and whichever run's services did the work
\* ("Never truncate traces.jsonl", run_demo.py).
PassedIsEvident == \A r \in Runs : result[r] = "passed" => Required \subseteq Found(r)

\* verify_trace.py passes only the trace of a request that was answered by the
\* services, whoever's they were, though the run itself may have failed or been
\* killed since and another run may be under way.
VerifiedWasAnswered == VerifierPasses => request[last] = "answered"

\* A run signals its services only when the receipt holds the spans of all
\* parties or the run has failed ("Critical ordering", run_demo.py).
ReceiptBeforeStop ==
  [][\A s \in Services, r \in Runs :
       child[s][r] \in {"starting", "serving"} /\ child'[s][r] = "stopping" =>
         Required \subseteq Found(r) \/ result[r] = "failed"]_vars

\* A run that got to the end of its finally clause leaves no service behind.
DoneLeavesNone ==
  \A r \in Runs, s \in Services : pc[r] = "done" => child[s][r] = "dead"

=============================================================================
