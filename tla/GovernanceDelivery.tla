------------------------- MODULE GovernanceDelivery -------------------------
(***************************************************************************)
(* GovernanceRuntimeTelemetrySink.deliver (adapters/governance.py): one     *)
(* envelope is POSTed to the Governance service from a worker thread, again *)
(* after transient failures, with a growing pause, at most MaxAttempts      *)
(* times.                                                                   *)
(*                                                                         *)
(* Three parties act: the event loop, which awaits the worker and decides   *)
(* what its answer means; the pool's workers, which a cancelled delivery    *)
(* does not stop; and the service, which may record an event although its   *)
(* answer is late or lost.  An application may deliver the same envelope    *)
(* again, concurrently too, and holds the mapping that is its payload.      *)
(***************************************************************************)
EXTENDS Integers, FiniteSets

CONSTANTS
  Deliveries,    \* calls of deliver()
  Envelopes,     \* prepared envelopes, each with an event_id of its own
  MaxAttempts,   \* settings.max_attempts
  Workers,       \* threads of the event loop's default executor
  Statuses,      \* HTTP statuses the service answers with
  MaxVersion     \* bound: changes the application makes to a payload

ASSUME DeliveryAssumption ==
  /\ MaxAttempts \in 1 .. 5
  /\ Workers \in Nat \ {0}
  /\ Statuses \subseteq 100 .. 999
  /\ MaxVersion \in Nat

VARIABLES
  version,    \* version[v]: how often the payload of envelope v was changed
  ledger,     \* the envelopes the service has recorded
  pc,         \* pc[d]: where deliver() is, or how it ended
  envelope,   \* envelope[d]: what d delivers
  body,       \* body[d]: the version of the payload that d encoded
  attempt,    \* attempt[d]: the number of the last POST submitted
  waited,     \* waited[d]: the pauses so far, in units of backoff_base_seconds
  posts,      \* posts[d][a]: the worker's side of the a-th POST
  sent,       \* sent[d][a]: the version of the payload it carries
  wire,       \* wire[d][a]: the service's side of it: 0, or what it answered
  seen        \* seen[d][a]: what the event loop made of it

vars == <<version, ledger, pc, envelope, body, attempt, waited, posts, sent, wire, seen>>

Attempts == 1 .. MaxAttempts

Accepted == 202
RetryableStatusCodes == {408, 425, 429, 500, 502, 503, 504}

Unsent == 0      \* on the wire: not there yet
Sent == 1        \* on the wire: there, not answered
Unseen == 0      \* by the event loop: nothing yet
NoStatus == 1    \* by the event loop: OSError or TimeoutError
Broke == 2       \* by the event loop: another exception of the transport

Waiting == {"posting", "sleeping"}
Ended == {"refused", "receipt", "rejected", "exhausted", "broken", "cancelled"}

\* What waited holds, BackoffBounded says.
TypeOK ==
  /\ version \in [Envelopes -> 0 .. MaxVersion]
  /\ ledger \subseteq Envelopes
  /\ pc \in [Deliveries -> {"idle"} \cup Waiting \cup Ended]
  /\ envelope \in [Deliveries -> Envelopes]
  /\ body \in [Deliveries -> 0 .. MaxVersion]
  /\ attempt \in [Deliveries -> 0 .. MaxAttempts]
  /\ posts \in [Deliveries -> [Attempts -> {"none", "queued", "running", "dropped", "over"}]]
  /\ sent \in [Deliveries -> [Attempts -> 0 .. MaxVersion]]
  /\ wire \in [Deliveries -> [Attempts -> {Unsent, Sent} \cup Statuses]]
  /\ seen \in [Deliveries -> [Attempts -> {Unseen, NoStatus, Broke} \cup Statuses]]

Init ==
  /\ version = [v \in Envelopes |-> 0]
  /\ ledger = {}
  /\ pc = [d \in Deliveries |-> "idle"]
  /\ envelope \in [Deliveries -> Envelopes]
  /\ body = [d \in Deliveries |-> 0]
  /\ attempt = [d \in Deliveries |-> 0]
  /\ waited = [d \in Deliveries |-> 0]
  /\ posts = [d \in Deliveries |-> [a \in Attempts |-> "none"]]
  /\ sent = [d \in Deliveries |-> [a \in Attempts |-> 0]]
  /\ wire = [d \in Deliveries |-> [a \in Attempts |-> Unsent]]
  /\ seen = [d \in Deliveries |-> [a \in Attempts |-> Unseen]]

-----------------------------------------------------------------------------
(***************************************************************************)
(* The event loop.                                                          *)
(***************************************************************************)

\* Mutant of Payload: encoding the payload for each attempt.
FreshPayload(d) == version[envelope[d]]

\* What the next POST of d carries: the body encoded before the first one.
Payload(d) == body'[d]

\* asyncio.to_thread: the a-th POST waits for a worker.
Submit(d, a) ==
  /\ attempt' = [attempt EXCEPT ![d] = a]
  /\ posts' = [posts EXCEPT ![d][a] = "queued"]
  /\ sent' = [sent EXCEPT ![d][a] = Payload(d)]
  /\ pc' = [pc EXCEPT ![d] = "posting"]

\* The credential is missing or unsafe, or the payload is not JSON-safe.
Refuse(d) ==
  /\ pc[d] = "idle"
  /\ pc' = [pc EXCEPT ![d] = "refused"]
  /\ UNCHANGED <<version, ledger, envelope, body, attempt, waited, posts, sent, wire, seen>>

Deliver(d) ==
  /\ pc[d] = "idle"
  /\ body' = [body EXCEPT ![d] = version[envelope[d]]]
  /\ Submit(d, 1)
  /\ UNCHANGED <<version, ledger, envelope, waited, wire, seen>>

TransientOutcomes == {NoStatus} \cup RetryableStatusCodes

\* Mutant of Transient: retrying whatever is not an acceptance.
AnyFailure(s) == s # Accepted

Transient(s) == s \in TransientOutcomes

\* Mutant of Pause: a pause before every attempt and one more after the last.
LongPause(a) == 2 ^ a

Pause(a) == 2 ^ (a - 1)

MayRetry(a) == a < MaxAttempts

\* What the loop does with s, the outcome of the a-th POST.
Handle(d, a, s) ==
  /\ seen' = [seen EXCEPT ![d][a] = s]
  /\ \/ /\ s = Accepted
        /\ pc' = [pc EXCEPT ![d] = "receipt"]
        /\ UNCHANGED waited
     \/ /\ s = Broke
        /\ pc' = [pc EXCEPT ![d] = "broken"]
        /\ UNCHANGED waited
     \/ /\ s \notin {Accepted, Broke}
        /\ ~Transient(s)
        /\ pc' = [pc EXCEPT ![d] = "rejected"]
        /\ UNCHANGED waited
     \/ /\ s \notin {Accepted, Broke}
        /\ Transient(s)
        /\ MayRetry(a)
        /\ pc' = [pc EXCEPT ![d] = "sleeping"]
        /\ waited' = [waited EXCEPT ![d] = @ + Pause(a)]
     \/ /\ s \notin {Accepted, Broke}
        /\ Transient(s)
        /\ ~MayRetry(a)
        /\ pc' = [pc EXCEPT ![d] = "exhausted"]
        /\ UNCHANGED waited

Wake(d) ==
  /\ pc[d] = "sleeping"
  /\ UNCHANGED body
  /\ Submit(d, attempt[d] + 1)
  /\ UNCHANGED <<version, ledger, envelope, waited, wire, seen>>

\* Mutant of Dropped: shielding the POST from the cancellation.
Shielded(d) == posts[d]

\* Cancelling the await cancels a POST no worker has taken up.
Dropped(d) ==
  [a \in Attempts |-> IF posts[d][a] = "queued" THEN "dropped" ELSE posts[d][a]]

\* The task awaiting deliver() is cancelled; a worker at work goes on.
Cancel(d) ==
  /\ pc[d] \in Waiting
  /\ pc' = [pc EXCEPT ![d] = "cancelled"]
  /\ posts' = [posts EXCEPT ![d] = Dropped(d)]
  /\ UNCHANGED <<version, ledger, envelope, body, attempt, waited, sent, wire, seen>>

-----------------------------------------------------------------------------
(***************************************************************************)
(* Workers, the service and the application.                                *)
(***************************************************************************)

Busy == {p \in Deliveries \X Attempts : posts[p[1]][p[2]] = "running"}

\* A worker takes up a POST: _post connects and sends the request.
Take(d, a) ==
  /\ posts[d][a] = "queued"
  /\ Cardinality(Busy) < Workers
  /\ posts' = [posts EXCEPT ![d][a] = "running"]
  /\ wire' = [wire EXCEPT ![d][a] = Sent]
  /\ UNCHANGED <<version, ledger, pc, envelope, body, attempt, waited, sent, seen>>

\* The service answers s, having recorded the event if it accepts it.  It may
\* do so after the worker has given up, when only an acceptance makes a
\* difference, or never.
Serve(d, a, s) ==
  /\ wire[d][a] = Sent
  /\ s = Accepted \/ posts[d][a] = "running"
  /\ wire' = [wire EXCEPT ![d][a] = s]
  /\ ledger' = IF s = Accepted THEN ledger \cup {envelope[d]} ELSE ledger
  /\ UNCHANGED <<version, pc, envelope, body, attempt, waited, posts, sent, seen>>

\* Mutant of Outcomes: taking a request that was sent for one that was accepted.
OptimisticOutcomes(d, a) ==
  {NoStatus, Broke} \cup {IF wire[d][a] = Sent THEN Accepted ELSE wire[d][a]}

\* Mutant of Outcomes: a worker that waits for the answer however long it takes.
PatientOutcomes(d, a) == {wire[d][a]} \ {Unsent, Sent}

\* What a worker may bring back: the answer, or an exception at any point.
Outcomes(d, a) == {NoStatus, Broke} \cup ({wire[d][a]} \ {Unsent, Sent})

\* Mutant of Finish: handling the answer to a delivery that was cancelled, too.
FinishLate(d, a, s) ==
  /\ posts[d][a] = "running"
  /\ s \in Outcomes(d, a)
  /\ posts' = [posts EXCEPT ![d][a] = "over"]
  /\ Handle(d, a, s)
  /\ UNCHANGED <<version, ledger, envelope, body, attempt, sent, wire>>

\* The worker is done; the loop learns of it if deliver() still waits.
Finish(d, a, s) ==
  /\ posts[d][a] = "running"
  /\ s \in Outcomes(d, a)
  /\ posts' = [posts EXCEPT ![d][a] = "over"]
  /\ IF pc[d] = "posting" THEN Handle(d, a, s) ELSE UNCHANGED <<pc, seen, waited>>
  /\ UNCHANGED <<version, ledger, envelope, body, attempt, sent, wire>>

\* The application changes the mapping an envelope holds.
Touch(v) ==
  /\ version[v] < MaxVersion
  /\ version' = [version EXCEPT ![v] = @ + 1]
  /\ UNCHANGED <<ledger, pc, envelope, body, attempt, waited, posts, sent, wire, seen>>

Next ==
  \/ \E d \in Deliveries : Refuse(d) \/ Deliver(d) \/ Wake(d) \/ Cancel(d)
  \/ \E d \in Deliveries, a \in Attempts : Take(d, a)
  \/ \E d \in Deliveries, a \in Attempts, s \in Statuses : Serve(d, a, s)
  \/ \E d \in Deliveries, a \in Attempts, s \in Statuses \cup {NoStatus, Broke} :
       Finish(d, a, s)
  \/ \E v \in Envelopes : Touch(v)

Spec == Init /\ [][Next]_vars

\* Timers fire, the pool takes up what is queued, and _post ends, by the
\* timeout of its socket operations at the latest.  The service need not answer.
Fairness ==
  /\ \A d \in Deliveries : WF_vars(Wake(d))
  /\ \A d \in Deliveries, a \in Attempts :
       /\ WF_vars(Take(d, a))
       /\ WF_vars(\E s \in Statuses \cup {NoStatus, Broke} : Finish(d, a, s))

FairSpec == Spec /\ Fairness

-----------------------------------------------------------------------------
(***************************************************************************)
(* Properties.                                                              *)
(***************************************************************************)

\* A receipt is only given for an event the service has recorded, whatever
\* was lost, late or cancelled on the way.
ReceiptRecorded == \A d \in Deliveries : pc[d] = "receipt" => envelope[d] \in ledger

\* All POSTs of a delivery carry the same body, also when the application
\* changes the envelope's payload while deliver() waits ("Internal retries
\* reuse the same event identifier and serialized body").
StableBody ==
  \A d \in Deliveries : \A a \in 1 .. attempt[d] : sent[d][a] = body[d]

\* A further POST is only made after transient failures, each of which the
\* loop has seen, one POST at a time, and never after a definitive answer
\* ("retries only bounded transient transport/status failures").
RetriesJustified ==
  \A d \in Deliveries :
    \A a \in Attempts :
      /\ a < attempt[d] => /\ seen[d][a] \in TransientOutcomes
                           /\ posts[d][a] = "over"
      /\ a > attempt[d] => posts[d][a] = "none"

\* The pauses double from one to the next and none follows the last attempt,
\* so they stay below base * (2 ^ (max_attempts - 1)) in all.
BackoffBounded ==
  \A d \in Deliveries :
    LET paused == {a \in Attempts : a < MaxAttempts /\ seen[d][a] \in TransientOutcomes}
    IN  waited[d] = 2 ^ Cardinality(paused) - 1

\* Once deliver() has ended, cancelled or not, no POST of it begins: only
\* what a worker had taken up before may still reach the service.
EndedSendsNothing ==
  [][\A d \in Deliveries, a \in Attempts :
       wire[d][a] = Unsent /\ wire'[d][a] # Unsent => pc[d] = "posting"]_vars

\* What a delivery at p looks like to its caller.
PhaseOf(p) ==
  IF p \in {"idle", "refused", "receipt"} THEN p
  ELSE IF p \in Waiting THEN "open" ELSE "failed"

EventDeliveries == INSTANCE EventDelivery WITH
  Events <- Envelopes,
  phase <- [d \in Deliveries |-> PhaseOf(pc[d])],
  event <- envelope,
  recorded <- ledger

\* deliver() keeps the sink's promise: to a receipt corresponds a recorded
\* event, a refused envelope never reaches the service, and what has ended
\* stays as it ended.
ImplementsDelivery == EventDeliveries!Spec

\* Every delivery ends, though the service may never answer and the workers
\* are shared with deliveries that were cancelled.
EveryDeliveryEnds == \A d \in Deliveries : pc[d] \in Waiting ~> pc[d] \in Ended

=============================================================================
