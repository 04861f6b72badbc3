---------------------- MODULE GovernanceDelivery_proofs ----------------------
(***************************************************************************)
(* Theorems about GovernanceDelivery, for any number of deliveries,         *)
(* envelopes, attempts, workers and statuses.                               *)
(***************************************************************************)
EXTENDS GovernanceDelivery, FiniteSetTheorems, TLAPS

\* The types, but for the arithmetic of the pauses.
DeliveryTypes ==
  /\ pc \in [Deliveries -> {"idle"} \cup Waiting \cup Ended]
  /\ attempt \in [Deliveries -> 0 .. MaxAttempts]
  /\ body \in [Deliveries -> 0 .. MaxVersion]
  /\ version \in [Envelopes -> 0 .. MaxVersion]
  /\ envelope \in [Deliveries -> Envelopes]
  /\ posts \in [Deliveries -> [Attempts -> {"none", "queued", "running", "dropped", "over"}]]
  /\ sent \in [Deliveries -> [Attempts -> 0 .. MaxVersion]]
  /\ wire \in [Deliveries -> [Attempts -> {Unsent, Sent} \cup Statuses]]
  /\ seen \in [Deliveries -> [Attempts -> {Unseen, NoStatus, Broke} \cup Statuses]]

\* How far a delivery is goes with its attempts and with what became of them.
Stages ==
  \A d \in Deliveries :
    /\ pc[d] = "idle" => attempt[d] = 0
    /\ pc[d] \in Waiting => attempt[d] \in Attempts
    /\ pc[d] = "sleeping" => /\ attempt[d] < MaxAttempts
                             /\ seen[d][attempt[d]] \in TransientOutcomes
                             /\ posts[d][attempt[d]] = "over"
    /\ \A a \in Attempts : posts[d][a] = "queued" => pc[d] = "posting"

\* The service has recorded what it has accepted.
AcceptedRecorded ==
  \A d \in Deliveries, a \in Attempts : wire[d][a] = Accepted => envelope[d] \in ledger

DeliveryInv ==
  /\ DeliveryTypes
  /\ Stages
  /\ AcceptedRecorded
  /\ ReceiptRecorded
  /\ StableBody
  /\ RetriesJustified

LEMMA AttemptsType == Attempts \subseteq Nat /\ MaxAttempts \in Nat \ {0} /\ 1 \in Attempts
  BY DeliveryAssumption DEF Attempts

LEMMA DeliveryInit == Init => DeliveryInv
  <1> SUFFICES ASSUME Init PROVE DeliveryInv
    OBVIOUS
  <1>1. DeliveryTypes
    BY DeliveryAssumption, AttemptsType DEF Init, DeliveryTypes
  <1>2. Stages /\ RetriesJustified
    BY AttemptsType DEF Init, Stages, RetriesJustified, Waiting, Attempts
  <1>3. AcceptedRecorded /\ ReceiptRecorded
    BY DEF Init, AcceptedRecorded, ReceiptRecorded, Accepted, Unsent
  <1>4. StableBody
    BY DEF Init, StableBody
  <1> QED
    BY <1>1, <1>2, <1>3, <1>4 DEF DeliveryInv

\* The next POST of a delivery is queued, and carries the encoded body.
LEMMA SubmitStep ==
  ASSUME DeliveryInv, NEW d \in Deliveries, NEW a \in Attempts,
         a = attempt[d] + 1, pc[d] \in {"idle", "sleeping"},
         \/ pc[d] = "idle" /\ body' = [body EXCEPT ![d] = version[envelope[d]]]
         \/ pc[d] = "sleeping" /\ UNCHANGED body,
         Submit(d, a), UNCHANGED <<version, ledger, envelope, wire, seen>>
  PROVE  DeliveryInv'
  <1>1. /\ attempt' = [attempt EXCEPT ![d] = a]
        /\ posts' = [posts EXCEPT ![d][a] = "queued"]
        /\ sent' = [sent EXCEPT ![d][a] = body'[d]]
        /\ pc' = [pc EXCEPT ![d] = "posting"]
    BY DEF Submit, Payload
  <1>2. /\ body'[d] \in 0 .. MaxVersion
        /\ body' \in [Deliveries -> 0 .. MaxVersion]
        /\ \A e \in Deliveries : e # d => body'[e] = body[e]
        /\ pc[d] = "sleeping" => body'[d] = body[d]
    BY DEF DeliveryInv, DeliveryTypes
  <1>3. /\ \A e \in Deliveries : attempt'[e] = IF e = d THEN a ELSE attempt[e]
        /\ \A e \in Deliveries : pc'[e] = IF e = d THEN "posting" ELSE pc[e]
        /\ \A e \in Deliveries, b \in Attempts :
             /\ posts'[e][b] = IF e = d /\ b = a THEN "queued" ELSE posts[e][b]
             /\ sent'[e][b] = IF e = d /\ b = a THEN body'[d] ELSE sent[e][b]
    BY <1>1 DEF DeliveryInv, DeliveryTypes
  <1>4. DeliveryTypes'
    <2>1. pc' \in [Deliveries -> {"idle"} \cup Waiting \cup Ended]
      BY <1>1 DEF DeliveryInv, DeliveryTypes, Waiting
    <2>2. attempt' \in [Deliveries -> 0 .. MaxAttempts]
      BY <1>1, AttemptsType DEF DeliveryInv, DeliveryTypes, Attempts
    <2>3. posts' \in [Deliveries -> [Attempts -> {"none", "queued", "running", "dropped", "over"}]]
      BY <1>1 DEF DeliveryInv, DeliveryTypes
    <2>4. sent' \in [Deliveries -> [Attempts -> 0 .. MaxVersion]]
      BY <1>1, <1>2 DEF DeliveryInv, DeliveryTypes
    <2> QED
      BY <1>2, <2>1, <2>2, <2>3, <2>4 DEF DeliveryInv, DeliveryTypes
  <1>5. Stages'
    <2> SUFFICES ASSUME NEW e \in Deliveries
                 PROVE  /\ pc'[e] = "idle" => attempt'[e] = 0
                        /\ pc'[e] \in Waiting => attempt'[e] \in Attempts
                        /\ pc'[e] = "sleeping" =>
                              /\ attempt'[e] < MaxAttempts
                              /\ seen'[e][attempt'[e]] \in TransientOutcomes
                              /\ posts'[e][attempt'[e]] = "over"
                        /\ \A b \in Attempts : posts'[e][b] = "queued" => pc'[e] = "posting"
      BY DEF Stages
    <2>1. CASE e = d
      BY <1>3, <2>1 DEF DeliveryInv, Stages, Waiting
    <2>2. CASE e # d
      <3>1. attempt'[e] = attempt[e] /\ pc'[e] = pc[e]
        BY <1>3, <2>2
      <3>2. \A b \in Attempts : posts'[e][b] = posts[e][b]
        BY <1>3, <2>2
      <3> QED
        BY <3>1, <3>2 DEF DeliveryInv, Stages, Waiting
    <2> QED
      BY <2>1, <2>2
  <1>6. AcceptedRecorded' /\ ReceiptRecorded'
    BY <1>3 DEF DeliveryInv, AcceptedRecorded, ReceiptRecorded
  <1>7. StableBody'
    <2> SUFFICES ASSUME NEW e \in Deliveries, NEW b \in 1 .. attempt'[e]
                 PROVE  sent'[e][b] = body'[e]
      BY DEF StableBody
    <2>1. attempt'[e] \in 0 .. MaxAttempts /\ b \in Attempts
      BY <1>4, AttemptsType DEF DeliveryTypes, Attempts
    <2>2. CASE e = d /\ b = a
      BY <1>3, <2>1, <2>2
    <2>3. CASE e = d /\ b # a
      <3>1. attempt[d] \in 0 .. MaxAttempts
        BY DEF DeliveryInv, DeliveryTypes
      <3>2. b \in 1 .. attempt[d]
        BY <1>3, <2>3, <3>1
      <3>3. pc[d] # "idle"
        BY <3>1, <3>2 DEF DeliveryInv, Stages
      <3>4. sent[d][b] = body[d]
        BY <3>2 DEF DeliveryInv, StableBody
      <3> QED
        BY <1>2, <1>3, <2>1, <2>3, <3>3, <3>4
    <2>4. CASE e # d
      <3>1. sent'[e][b] = sent[e][b] /\ body'[e] = body[e] /\ attempt'[e] = attempt[e]
        BY <1>2, <1>3, <2>1, <2>4
      <3> QED
        BY <3>1 DEF DeliveryInv, StableBody
    <2> QED
      BY <2>2, <2>3, <2>4
  <1>8. RetriesJustified'
    <2> SUFFICES ASSUME NEW e \in Deliveries, NEW b \in Attempts
                 PROVE  /\ b < attempt'[e] => /\ seen[e][b] \in TransientOutcomes
                                             /\ posts'[e][b] = "over"
                        /\ b > attempt'[e] => posts'[e][b] = "none"
      BY DEF RetriesJustified
    <2>1. /\ b < attempt[e] => seen[e][b] \in TransientOutcomes /\ posts[e][b] = "over"
          /\ b > attempt[e] => posts[e][b] = "none"
      BY DEF DeliveryInv, RetriesJustified
    <2>2. CASE e = d
      <3>1. attempt[d] \in Nat /\ b \in Nat
        BY AttemptsType DEF DeliveryInv, DeliveryTypes
      <3>2. attempt'[d] = attempt[d] + 1 /\ (b # a => posts'[d][b] = posts[d][b])
        BY <1>3, <2>2
      <3>3. b = attempt[d] =>
              /\ seen[d][b] \in TransientOutcomes
              /\ posts[d][b] = "over"
        BY <3>1, AttemptsType DEF DeliveryInv, Stages, Attempts
      <3> QED
        BY <2>1, <2>2, <3>1, <3>2, <3>3
    <2>3. CASE e # d
      BY <1>3, <2>1, <2>3
    <2> QED
      BY <2>2, <2>3
  <1> QED
    BY <1>4, <1>5, <1>6, <1>7, <1>8 DEF DeliveryInv

\* Of a delivery's POSTs, only the last one can be in a worker's hands.
LEMMA RunningIsLast ==
  ASSUME DeliveryInv, NEW d \in Deliveries, NEW a \in Attempts,
         posts[d][a] \in {"queued", "running"}
  PROVE  a = attempt[d]
  <1>1. attempt[d] \in Nat /\ a \in Nat
    BY AttemptsType DEF DeliveryInv, DeliveryTypes
  <1>2. /\ a < attempt[d] => posts[d][a] = "over"
        /\ a > attempt[d] => posts[d][a] = "none"
    BY DEF DeliveryInv, RetriesJustified
  <1> QED
    BY <1>1, <1>2

\* What deliver() makes of the outcome of its last POST.
LEMMA HandleStep ==
  ASSUME DeliveryInv, NEW d \in Deliveries, NEW a \in Attempts,
         NEW s \in Statuses \cup {NoStatus, Broke},
         posts[d][a] = "running", pc[d] = "posting",
         s = Accepted => envelope[d] \in ledger,
         posts' = [posts EXCEPT ![d][a] = "over"], Handle(d, a, s),
         UNCHANGED <<version, ledger, envelope, body, attempt, sent, wire>>
  PROVE  DeliveryInv'
  <1>1. a = attempt[d]
    BY RunningIsLast
  <1>2. PICK p \in {"receipt", "broken", "rejected", "sleeping", "exhausted"} :
          /\ pc' = [pc EXCEPT ![d] = p]
          /\ p = "receipt" => s = Accepted
          /\ p = "sleeping" => s \in TransientOutcomes /\ a < MaxAttempts
    BY DEF Handle, Transient, MayRetry
  <1>3. /\ \A e \in Deliveries : pc'[e] = IF e = d THEN p ELSE pc[e]
        /\ \A e \in Deliveries, b \in Attempts :
             /\ posts'[e][b] = IF e = d /\ b = a THEN "over" ELSE posts[e][b]
             /\ seen'[e][b] = IF e = d /\ b = a THEN s ELSE seen[e][b]
    BY <1>2 DEF Handle, DeliveryInv, DeliveryTypes
  <1>4. DeliveryTypes'
    <2>1. pc' \in [Deliveries -> {"idle"} \cup Waiting \cup Ended]
      BY <1>2 DEF DeliveryInv, DeliveryTypes, Waiting, Ended
    <2>2. posts' \in [Deliveries -> [Attempts -> {"none", "queued", "running", "dropped", "over"}]]
      BY DEF DeliveryInv, DeliveryTypes
    <2>3. seen' \in [Deliveries -> [Attempts -> {Unseen, NoStatus, Broke} \cup Statuses]]
      BY DEF Handle, DeliveryInv, DeliveryTypes
    <2> QED
      BY <2>1, <2>2, <2>3 DEF DeliveryInv, DeliveryTypes
  <1>5. Stages'
    <2> SUFFICES ASSUME NEW e \in Deliveries
                 PROVE  /\ pc'[e] = "idle" => attempt[e] = 0
                        /\ pc'[e] \in Waiting => attempt[e] \in Attempts
                        /\ pc'[e] = "sleeping" =>
                              /\ attempt[e] < MaxAttempts
                              /\ seen'[e][attempt[e]] \in TransientOutcomes
                              /\ posts'[e][attempt[e]] = "over"
                        /\ \A b \in Attempts : posts'[e][b] = "queued" => pc'[e] = "posting"
      BY DEF Stages
    <2>1. CASE e = d
      <3>1. \A b \in Attempts : posts'[d][b] # "queued"
        BY <1>1, <1>3, RunningIsLast
      <3> QED
        BY <1>1, <1>2, <1>3, <2>1, <3>1 DEF Waiting
    <2>2. CASE e # d
      <3>1. pc'[e] = pc[e]
        BY <1>3, <2>2
      <3>2. \A b \in Attempts : posts'[e][b] = posts[e][b] /\ seen'[e][b] = seen[e][b]
        BY <1>3, <2>2
      <3> QED
        BY <3>1, <3>2 DEF DeliveryInv, Stages, Waiting
    <2> QED
      BY <2>1, <2>2
  <1>6. AcceptedRecorded' /\ ReceiptRecorded' /\ StableBody'
    BY <1>2, <1>3 DEF DeliveryInv, AcceptedRecorded, ReceiptRecorded, StableBody
  <1>7. RetriesJustified'
    <2> SUFFICES ASSUME NEW e \in Deliveries, NEW b \in Attempts
                 PROVE  /\ b < attempt[e] => /\ seen'[e][b] \in TransientOutcomes
                                            /\ posts'[e][b] = "over"
                        /\ b > attempt[e] => posts'[e][b] = "none"
      BY DEF RetriesJustified
    <2>1. /\ b < attempt[e] => seen[e][b] \in TransientOutcomes /\ posts[e][b] = "over"
          /\ b > attempt[e] => posts[e][b] = "none"
      BY DEF DeliveryInv, RetriesJustified
    <2>2. attempt[d] \in Nat
      BY DEF DeliveryInv, DeliveryTypes
    <2> QED
      BY <1>1, <1>3, <2>1, <2>2
  <1> QED
    BY <1>4, <1>5, <1>6, <1>7 DEF DeliveryInv

\* Steps that leave what the loop waits for alone, or end the delivery.
LEMMA PostsStep ==
  ASSUME DeliveryInv,
         UNCHANGED <<version, ledger, envelope, body, attempt, sent, wire, seen>>,
         DeliveryTypes',
         \A e \in Deliveries : pc'[e] = pc[e] \/ pc'[e] \in Ended \ {"receipt"},
         \A e \in Deliveries, b \in Attempts :
           \/ posts'[e][b] = posts[e][b]
                /\ (posts[e][b] = "queued" => pc'[e] = pc[e])
           \/ posts[e][b] \in {"queued", "running"} /\ posts'[e][b] \in {"dropped", "over"}
  PROVE  DeliveryInv'
  <1>1. Stages'
    <2> SUFFICES ASSUME NEW e \in Deliveries
                 PROVE  /\ pc'[e] = "idle" => attempt[e] = 0
                        /\ pc'[e] \in Waiting => attempt[e] \in Attempts
                        /\ pc'[e] = "sleeping" =>
                              /\ attempt[e] < MaxAttempts
                              /\ seen[e][attempt[e]] \in TransientOutcomes
                              /\ posts'[e][attempt[e]] = "over"
                        /\ \A b \in Attempts : posts'[e][b] = "queued" => pc'[e] = "posting"
      BY DEF Stages
    <2>1. \A b \in Attempts : /\ posts'[e][b] = "queued" => pc'[e] = "posting"
                              /\ posts[e][b] = "over" => posts'[e][b] = "over"
      BY DEF DeliveryInv, Stages
    <2>2. /\ pc[e] = "idle" => attempt[e] = 0
          /\ pc[e] \in Waiting => attempt[e] \in Attempts
          /\ pc[e] = "sleeping" => /\ attempt[e] < MaxAttempts
                                   /\ seen[e][attempt[e]] \in TransientOutcomes
                                   /\ posts[e][attempt[e]] = "over"
      BY DEF DeliveryInv, Stages
    <2>3. pc'[e] = pc[e] \/ pc'[e] \notin {"idle", "posting", "sleeping"}
      BY DEF Ended
    <2> QED
      BY <2>1, <2>2, <2>3 DEF Waiting
  <1>2. AcceptedRecorded' /\ ReceiptRecorded' /\ StableBody'
    BY DEF DeliveryInv, AcceptedRecorded, ReceiptRecorded, StableBody
  <1>3. RetriesJustified'
    BY DEF DeliveryInv, RetriesJustified
  <1> QED
    BY <1>1, <1>2, <1>3 DEF DeliveryInv

\* A worker takes up a POST, which thereby reaches the service.
LEMMA TakeStep ==
  ASSUME DeliveryInv, NEW d \in Deliveries, NEW a \in Attempts, Take(d, a)
  PROVE  DeliveryInv'
  <1>1. /\ posts[d][a] = "queued"
        /\ posts' = [posts EXCEPT ![d][a] = "running"]
        /\ wire' = [wire EXCEPT ![d][a] = Sent]
        /\ UNCHANGED <<version, ledger, pc, envelope, body, attempt, sent, seen>>
    BY DEF Take
  <1>2. \A e \in Deliveries, b \in Attempts :
          /\ posts'[e][b] = IF e = d /\ b = a THEN "running" ELSE posts[e][b]
          /\ wire'[e][b] = IF e = d /\ b = a THEN Sent ELSE wire[e][b]
    BY <1>1 DEF DeliveryInv, DeliveryTypes
  <1>3. DeliveryTypes'
    <2>1. posts' \in [Deliveries -> [Attempts -> {"none", "queued", "running", "dropped", "over"}]]
      BY <1>1 DEF DeliveryInv, DeliveryTypes
    <2>2. wire' \in [Deliveries -> [Attempts -> {Unsent, Sent} \cup Statuses]]
      BY <1>1 DEF DeliveryInv, DeliveryTypes
    <2> QED
      BY <1>1, <2>1, <2>2 DEF DeliveryInv, DeliveryTypes
  <1>4. Stages'
    BY <1>1, <1>2 DEF DeliveryInv, Stages, Waiting
  <1>5. AcceptedRecorded'
    BY <1>1, <1>2 DEF DeliveryInv, AcceptedRecorded, Accepted, Sent
  <1>6. ReceiptRecorded' /\ StableBody'
    BY <1>1 DEF DeliveryInv, ReceiptRecorded, StableBody
  <1>7. RetriesJustified'
    BY <1>1, <1>2 DEF DeliveryInv, RetriesJustified
  <1> QED
    BY <1>3, <1>4, <1>5, <1>6, <1>7 DEF DeliveryInv

\* The service answers, and has recorded what it accepts.
LEMMA ServeStep ==
  ASSUME DeliveryInv, NEW d \in Deliveries, NEW a \in Attempts, NEW s \in Statuses,
         Serve(d, a, s)
  PROVE  DeliveryInv'
  <1>1. /\ wire' = [wire EXCEPT ![d][a] = s]
        /\ ledger \subseteq ledger' /\ (s = Accepted => envelope[d] \in ledger')
        /\ UNCHANGED <<version, pc, envelope, body, attempt, posts, sent, seen>>
    BY DEF Serve
  <1>2. DeliveryTypes'
    <2>1. wire' \in [Deliveries -> [Attempts -> {Unsent, Sent} \cup Statuses]]
      BY <1>1 DEF DeliveryInv, DeliveryTypes
    <2> QED
      BY <1>1, <2>1 DEF DeliveryInv, DeliveryTypes
  <1>3. AcceptedRecorded'
    BY <1>1 DEF DeliveryInv, DeliveryTypes, AcceptedRecorded
  <1>4. Stages' /\ ReceiptRecorded' /\ StableBody' /\ RetriesJustified'
    BY <1>1 DEF DeliveryInv, Stages, ReceiptRecorded, StableBody, RetriesJustified
  <1> QED
    BY <1>2, <1>3, <1>4 DEF DeliveryInv

\* DeliveryInv is inductive.
LEMMA DeliveryStep == DeliveryInv /\ [Next]_vars => DeliveryInv'
  <1> SUFFICES ASSUME DeliveryInv, [Next]_vars PROVE DeliveryInv'
    OBVIOUS
  <1>1. ASSUME NEW d \in Deliveries, Refuse(d)
        PROVE  DeliveryInv'
    <2>1. DeliveryTypes'
      BY <1>1 DEF Refuse, DeliveryInv, DeliveryTypes, Ended
    <2>2. \A a \in Attempts : posts[d][a] # "queued"
      BY <1>1 DEF Refuse, DeliveryInv, Stages
    <2> QED
      BY <1>1, <2>1, <2>2, PostsStep DEF Refuse, Ended, DeliveryInv, DeliveryTypes
  <1>2. ASSUME NEW d \in Deliveries, Deliver(d)
        PROVE  DeliveryInv'
    <2>1. pc[d] = "idle" /\ attempt[d] = 0
      BY <1>2 DEF Deliver, DeliveryInv, Stages
    <2>2. 1 = attempt[d] + 1 /\ 1 \in Attempts
      BY <2>1, AttemptsType
    <2>3. /\ body' = [body EXCEPT ![d] = version[envelope[d]]]
          /\ Submit(d, 1)
          /\ UNCHANGED <<version, ledger, envelope, wire, seen>>
      BY <1>2 DEF Deliver
    <2> QED
      BY <2>1, <2>2, <2>3, SubmitStep
  <1>3. ASSUME NEW d \in Deliveries, Wake(d)
        PROVE  DeliveryInv'
    <2>1. pc[d] = "sleeping" /\ attempt[d] \in 0 .. MaxAttempts /\ attempt[d] < MaxAttempts
      BY <1>3 DEF Wake, DeliveryInv, DeliveryTypes, Stages
    <2>2. attempt[d] + 1 \in Attempts
      BY <2>1, AttemptsType DEF Attempts
    <2> QED
      BY <1>3, <2>1, <2>2, SubmitStep DEF Wake
  <1>4. ASSUME NEW d \in Deliveries, Cancel(d)
        PROVE  DeliveryInv'
    <2>1. /\ pc' = [pc EXCEPT ![d] = "cancelled"]
          /\ posts' = [posts EXCEPT ![d] =
               [a \in Attempts |-> IF posts[d][a] = "queued" THEN "dropped" ELSE posts[d][a]]]
          /\ UNCHANGED <<version, ledger, envelope, body, attempt, sent, wire, seen>>
      BY <1>4 DEF Cancel, Dropped
    <2>2. posts' \in [Deliveries -> [Attempts -> {"none", "queued", "running", "dropped", "over"}]]
      BY <2>1 DEF DeliveryInv, DeliveryTypes
    <2>3. DeliveryTypes'
      BY <2>1, <2>2 DEF DeliveryInv, DeliveryTypes, Ended
    <2>4. \A e \in Deliveries : pc'[e] = IF e = d THEN "cancelled" ELSE pc[e]
      BY <2>1 DEF DeliveryInv, DeliveryTypes
    <2>5. \A e \in Deliveries, b \in Attempts :
            posts'[e][b] = IF e = d /\ posts[e][b] = "queued" THEN "dropped" ELSE posts[e][b]
      BY <2>1 DEF DeliveryInv, DeliveryTypes
    <2> QED
      BY <2>1, <2>3, <2>4, <2>5, PostsStep DEF Ended
  <1>5. ASSUME NEW d \in Deliveries, NEW a \in Attempts, Take(d, a)
        PROVE  DeliveryInv'
    BY <1>5, TakeStep
  <1>6. ASSUME NEW d \in Deliveries, NEW a \in Attempts, NEW s \in Statuses, Serve(d, a, s)
        PROVE  DeliveryInv'
    BY <1>6, ServeStep
  <1>7. ASSUME NEW d \in Deliveries, NEW a \in Attempts,
               NEW s \in Statuses \cup {NoStatus, Broke}, Finish(d, a, s)
        PROVE  DeliveryInv'
    <2>1. /\ posts[d][a] = "running"
          /\ posts' = [posts EXCEPT ![d][a] = "over"]
          /\ UNCHANGED <<version, ledger, envelope, body, attempt, sent, wire>>
      BY <1>7 DEF Finish
    <2>2. CASE pc[d] = "posting"
      <3>1. s = Accepted => wire[d][a] = Accepted
        BY <1>7 DEF Finish, Outcomes, Accepted, NoStatus, Broke
      <3>2. s = Accepted => envelope[d] \in ledger
        BY <3>1 DEF DeliveryInv, AcceptedRecorded
      <3>3. Handle(d, a, s)
        BY <1>7, <2>2 DEF Finish
      <3> QED
        BY <2>1, <2>2, <3>2, <3>3, HandleStep
    <2>3. CASE pc[d] # "posting"
      <3>1. UNCHANGED <<pc, seen>>
        BY <1>7, <2>3 DEF Finish
      <3>2. DeliveryTypes'
        <4>1. posts' \in [Deliveries -> [Attempts -> {"none", "queued", "running", "dropped", "over"}]]
          BY <2>1 DEF DeliveryInv, DeliveryTypes
        <4> QED
          BY <2>1, <3>1, <4>1 DEF DeliveryInv, DeliveryTypes
      <3>3. \A e \in Deliveries, b \in Attempts :
              posts'[e][b] = IF e = d /\ b = a THEN "over" ELSE posts[e][b]
        BY <2>1 DEF DeliveryInv, DeliveryTypes
      <3> QED
        BY <2>1, <3>1, <3>2, <3>3, PostsStep
    <2> QED
      BY <2>2, <2>3
  <1>8. ASSUME NEW v \in Envelopes, Touch(v)
        PROVE  DeliveryInv'
    <2>1. DeliveryTypes'
      BY <1>8, DeliveryAssumption DEF Touch, DeliveryInv, DeliveryTypes
    <2>2. UNCHANGED <<ledger, pc, envelope, body, attempt, posts, sent, wire, seen>>
      BY <1>8 DEF Touch
    <2>3. Stages' /\ AcceptedRecorded' /\ ReceiptRecorded' /\ StableBody' /\ RetriesJustified'
      BY <2>2 DEF DeliveryInv, Stages, AcceptedRecorded, ReceiptRecorded, StableBody,
                  RetriesJustified
    <2> QED
      BY <2>1, <2>3 DEF DeliveryInv
  <1>9. CASE UNCHANGED vars
    BY <1>9 DEF vars, DeliveryInv, DeliveryTypes, Stages, AcceptedRecorded, ReceiptRecorded,
                StableBody, RetriesJustified
  <1> QED
    BY <1>1, <1>2, <1>3, <1>4, <1>5, <1>6, <1>7, <1>8, <1>9 DEF Next

LEMMA DeliveryHolds == Spec => []DeliveryInv
  BY DeliveryInit, DeliveryStep, PTL DEF Spec

\* The types of a delivery's state.
THEOREM DeliveryTyped == Spec => []TypeOK
  <1>1. Init => ledger \subseteq Envelopes
    BY DEF Init
  <1>2. ledger \subseteq Envelopes /\ DeliveryInv /\ [Next]_vars => (ledger \subseteq Envelopes)'
    <2> SUFFICES ASSUME ledger \subseteq Envelopes, DeliveryInv, [Next]_vars
                 PROVE  ledger' \subseteq Envelopes
      OBVIOUS
    <2>1. ASSUME NEW d \in Deliveries, NEW a \in Attempts, NEW s \in Statuses, Serve(d, a, s)
          PROVE  ledger' \subseteq Envelopes
      BY <2>1 DEF Serve, DeliveryInv, DeliveryTypes
    <2> QED
      BY <2>1 DEF Next, Refuse, Deliver, Wake, Cancel, Take, Finish, Touch, vars
  <1>3. ledger \subseteq Envelopes /\ DeliveryInv => TypeOK
    BY DEF DeliveryInv, DeliveryTypes, TypeOK
  <1> QED
    BY <1>1, <1>2, <1>3, DeliveryHolds, PTL DEF Spec

\* A caller that gets a receipt can rely on the service having the event.
THEOREM ReceiptsAreOfRecordedEvents == Spec => []ReceiptRecorded
  BY DeliveryHolds, PTL DEF DeliveryInv

\* The service sees one body per delivery, so it can recognise its copies.
THEOREM RetriesCarryOneBody == Spec => []StableBody
  BY DeliveryHolds, PTL DEF DeliveryInv

\* Nothing is sent again but after a transient failure of all that was sent.
THEOREM RetriesFollowTransientFailures == Spec => []RetriesJustified
  BY DeliveryHolds, PTL DEF DeliveryInv

-----------------------------------------------------------------------------
(***************************************************************************)
(* The pauses.  What is slept of them is known from the number of the last  *)
(* attempt alone: all attempts before it were followed by one, and it is    *)
(* itself once the loop has seen it fail and may retry.                     *)
(***************************************************************************)

\* The number of the last attempt that a pause followed.
Pauses(d) ==
  IF attempt[d] \in Attempts /\ ~ (attempt[d] < MaxAttempts /\ seen[d][attempt[d]] \in TransientOutcomes)
  THEN attempt[d] - 1 ELSE attempt[d]

\* The loop has seen nothing of the POSTs to come and of one that it awaits.
SeenInOrder ==
  \A d \in Deliveries, a \in Attempts :
    a > attempt[d] \/ (a = attempt[d] /\ pc[d] = "posting") => seen[d][a] = Unseen

PauseInv == SeenInOrder /\ waited = [d \in Deliveries |-> 2 ^ Pauses(d) - 1]

\* The powers of two of as many pauses as the settings allow.
LEMMA Powers ==
  /\ 2 ^ 0 = 1
  /\ \A n \in 0 .. 4 : 2 ^ n \in Nat /\ 2 ^ (n + 1) = 2 ^ n + 2 ^ n
  <1>1. 2 ^ 0 = 1 /\ 2 ^ 1 = 2 /\ 2 ^ 2 = 4 /\ 2 ^ 3 = 8 /\ 2 ^ 4 = 16 /\ 2 ^ 5 = 32
    OBVIOUS
  <1>2. ASSUME NEW n \in 0 .. 4
        PROVE  2 ^ n \in Nat /\ 2 ^ (n + 1) = 2 ^ n + 2 ^ n
    <2>1. CASE n = 0
      BY <1>1, <2>1
    <2>2. CASE n = 1
      BY <1>1, <2>2
    <2>3. CASE n = 2
      BY <1>1, <2>3
    <2>4. CASE n = 3
      BY <1>1, <2>4
    <2>5. CASE n = 4
      BY <1>1, <2>5
    <2> QED
      BY <2>1, <2>2, <2>3, <2>4, <2>5
  <1> QED
    BY <1>1, <1>2

LEMMA PauseInit == Init => PauseInv
  <1> SUFFICES ASSUME Init PROVE PauseInv
    OBVIOUS
  <1>1. \A d \in Deliveries : attempt[d] = 0 /\ 0 \notin Attempts
    BY DEF Init, Attempts
  <1>2. \A d \in Deliveries : Pauses(d) = 0
    BY <1>1 DEF Pauses
  <1>3. SeenInOrder
    BY DEF Init, SeenInOrder
  <1>4. 2 ^ 0 - 1 = 0
    BY Powers
  <1>5. \A d \in Deliveries : 2 ^ Pauses(d) - 1 = 0
    BY <1>2, <1>4
  <1> QED
    BY <1>3, <1>5 DEF Init, PauseInv

\* A step that leaves what was seen alone, but for one attempt that becomes the
\* last, changes nothing about the pauses.
LEMMA PausesKept ==
  ASSUME DeliveryInv, PauseInv, UNCHANGED <<seen, waited>>, NEW d \in Deliveries,
         \A e \in Deliveries : e # d => UNCHANGED <<pc[e], attempt[e]>>,
         \/ UNCHANGED attempt[d] /\ pc'[d] # "posting"
         \/ /\ attempt'[d] = attempt[d] + 1
            /\ attempt'[d] \in Attempts
            /\ pc[d] \in {"idle", "sleeping"}
  PROVE  PauseInv'
  <1>1. /\ attempt \in [Deliveries -> 0 .. MaxAttempts]
        /\ MaxAttempts \in Nat
        /\ Unseen \notin TransientOutcomes
    BY AttemptsType DEF DeliveryInv, DeliveryTypes, Unseen, TransientOutcomes, NoStatus,
                        RetryableStatusCodes
  <1>2. SeenInOrder'
    <2> SUFFICES ASSUME NEW e \in Deliveries, NEW a \in Attempts,
                        a > attempt'[e] \/ (a = attempt'[e] /\ pc'[e] = "posting")
                 PROVE  seen'[e][a] = Unseen
      BY DEF SeenInOrder
    <2>1. a > attempt[e] \/ (a = attempt[e] /\ pc[e] = "posting") => seen[e][a] = Unseen
      BY DEF PauseInv, SeenInOrder
    <2>2. a \in Nat /\ attempt[e] \in Nat /\ attempt[d] \in Nat
      BY <1>1, AttemptsType
    <2>3. CASE e # d
      BY <2>1, <2>3
    <2>4. CASE e = d
      BY <2>1, <2>2, <2>4
    <2> QED
      BY <2>3, <2>4
  <1>3. \A e \in Deliveries : e # d => UNCHANGED Pauses(e)
    BY DEF Pauses
  <1>4. UNCHANGED Pauses(d)
    <2>1. CASE UNCHANGED attempt[d]
      BY <2>1 DEF Pauses
    <2>2. CASE attempt'[d] = attempt[d] + 1 /\ attempt'[d] \in Attempts /\ pc[d] \in {"idle", "sleeping"}
      <3>1. seen[d][attempt'[d]] = Unseen
        <4>1. attempt'[d] > attempt[d]
          BY <1>1, <2>2
        <4> QED
          BY <2>2, <4>1 DEF PauseInv, SeenInOrder
      <3>2. Pauses(d)' = attempt[d]
        BY <1>1, <2>2, <3>1 DEF Pauses
      <3>3. pc[d] = "idle" => attempt[d] \notin Attempts
        BY DEF DeliveryInv, Stages, Attempts
      <3>4. Pauses(d) = attempt[d]
        BY <2>2, <3>3 DEF DeliveryInv, Stages, Pauses
      <3> QED
        BY <3>2, <3>4
    <2> QED
      BY <2>1, <2>2
  <1> QED
    BY <1>2, <1>3, <1>4 DEF PauseInv

\* The loop pauses after a transient failure unless it was the last attempt's.
LEMMA PausesGrow ==
  ASSUME DeliveryInv, PauseInv, NEW d \in Deliveries, NEW a \in Attempts,
         NEW s \in Statuses \cup {NoStatus, Broke},
         posts[d][a] = "running", pc[d] = "posting", Handle(d, a, s), UNCHANGED attempt
  PROVE  PauseInv'
  <1>1. /\ a = attempt[d] /\ a \in 1 .. 5 /\ MaxAttempts \in 1 .. 5
        /\ \A e \in Deliveries : attempt[e] \in Nat
        /\ Attempts \subseteq Nat
    BY RunningIsLast, AttemptsType, DeliveryAssumption DEF Attempts, DeliveryInv, DeliveryTypes
  <1>2. /\ seen[d][a] = Unseen
        /\ Unseen \notin TransientOutcomes
        /\ Accepted \notin TransientOutcomes /\ Broke \notin TransientOutcomes
    BY <1>1 DEF PauseInv, SeenInOrder, Unseen, Accepted, Broke, TransientOutcomes, NoStatus,
                RetryableStatusCodes
  <1>3. Pauses(d) = a - 1
    BY <1>1, <1>2 DEF Pauses
  <1>4. /\ \A e \in Deliveries : \A b \in Attempts :
             seen'[e][b] = IF e = d /\ b = a THEN s ELSE seen[e][b]
        /\ \A e \in Deliveries : pc'[e] = IF e = d THEN pc'[d] ELSE pc[e]
        /\ pc'[d] # "posting"
    BY DEF Handle, DeliveryInv, DeliveryTypes
  <1>5. SeenInOrder'
    <2> SUFFICES ASSUME NEW e \in Deliveries, NEW b \in Attempts,
                        b > attempt[e] \/ (b = attempt[e] /\ pc'[e] = "posting")
                 PROVE  seen'[e][b] = Unseen
      BY DEF SeenInOrder
    <2>1. b > attempt[e] \/ (b = attempt[e] /\ pc[e] = "posting") => seen[e][b] = Unseen
      BY DEF PauseInv, SeenInOrder
    <2>2. e = d => b # a
      BY <1>1, <1>4
    <2> QED
      BY <1>4, <2>1, <2>2
  <1>6. \A e \in Deliveries : e # d => UNCHANGED Pauses(e)
    BY <1>4 DEF Pauses
  <1>7. CASE s \in TransientOutcomes /\ a < MaxAttempts
    <2>1. waited' = [waited EXCEPT ![d] = @ + Pause(a)]
      BY <1>2, <1>7 DEF Handle, Transient, MayRetry
    <2>2. Pauses(d)' = a
      BY <1>1, <1>4, <1>7 DEF Pauses
    <2>3. /\ a - 1 \in 0 .. 4
          /\ a = (a - 1) + 1
      BY <1>1
    <2>4. 2 ^ (a - 1) \in Nat /\ 2 ^ a = 2 ^ (a - 1) + 2 ^ (a - 1)
      BY <2>3, Powers
    <2>5. waited[d] = 2 ^ (a - 1) - 1
      BY <1>3 DEF PauseInv
    <2>6. waited'[d] = 2 ^ Pauses(d)' - 1
      BY <2>1, <2>2, <2>4, <2>5 DEF PauseInv, Pause
    <2>7. \A e \in Deliveries : e # d => waited'[e] = 2 ^ Pauses(e)' - 1
      BY <1>6, <2>1 DEF PauseInv
    <2>8. waited' = [e \in Deliveries |-> 2 ^ Pauses(e)' - 1]
      BY <2>1, <2>6, <2>7 DEF PauseInv
    <2> QED
      BY <1>5, <2>8 DEF PauseInv
  <1>8. CASE ~ (s \in TransientOutcomes /\ a < MaxAttempts)
    <2>1. UNCHANGED waited
      BY <1>8 DEF Handle, Transient, MayRetry
    <2>2. UNCHANGED Pauses(d)
      BY <1>1, <1>3, <1>4, <1>8 DEF Pauses
    <2> QED
      BY <1>5, <1>6, <2>1, <2>2 DEF PauseInv
  <1> QED
    BY <1>7, <1>8

LEMMA PauseStep == DeliveryInv /\ PauseInv /\ [Next]_vars => PauseInv'
  <1> SUFFICES ASSUME DeliveryInv, PauseInv, [Next]_vars PROVE PauseInv'
    OBVIOUS
  <1>1. ASSUME NEW d \in Deliveries, Refuse(d) \/ Cancel(d)
        PROVE  PauseInv'
    <2>1. /\ UNCHANGED <<seen, waited, attempt>>
          /\ pc'[d] # "posting"
          /\ \A e \in Deliveries : e # d => UNCHANGED pc[e]
      BY <1>1 DEF Refuse, Cancel, DeliveryInv, DeliveryTypes
    <2> QED
      BY <2>1, PausesKept
  <1>2. ASSUME NEW d \in Deliveries, Deliver(d) \/ Wake(d)
        PROVE  PauseInv'
    <2>1. pc[d] = "idle" => attempt[d] = 0
      BY DEF DeliveryInv, Stages
    <2>2. pc[d] = "sleeping" => attempt[d] < MaxAttempts
      BY DEF DeliveryInv, Stages
    <2>3. attempt[d] \in 0 .. MaxAttempts /\ MaxAttempts \in Nat \ {0}
      BY AttemptsType DEF DeliveryInv, DeliveryTypes
    <2>4. attempt[d] + 1 \in Attempts /\ pc[d] \in {"idle", "sleeping"}
      BY <1>2, <2>1, <2>2, <2>3 DEF Deliver, Wake, Attempts
    <2>5. /\ UNCHANGED <<seen, waited>>
          /\ attempt' = [attempt EXCEPT ![d] = attempt[d] + 1]
          /\ pc' = [pc EXCEPT ![d] = "posting"]
      BY <1>2, <2>1 DEF Deliver, Wake, Submit
    <2>6. /\ attempt'[d] = attempt[d] + 1
          /\ \A e \in Deliveries : e # d => UNCHANGED <<pc[e], attempt[e]>>
      BY <2>5 DEF DeliveryInv, DeliveryTypes
    <2> QED
      BY <2>4, <2>5, <2>6, PausesKept
  <1>3. ASSUME NEW d \in Deliveries, NEW a \in Attempts,
               NEW s \in Statuses \cup {NoStatus, Broke}, Finish(d, a, s)
        PROVE  PauseInv'
    <2>1. CASE pc[d] = "posting"
      BY <1>3, <2>1, PausesGrow DEF Finish
    <2>2. CASE pc[d] # "posting"
      BY <1>3, <2>2 DEF Finish, PauseInv, SeenInOrder, Pauses
    <2> QED
      BY <2>1, <2>2
  <1>4. ASSUME UNCHANGED <<pc, attempt, waited, seen>>
        PROVE  PauseInv'
    BY <1>4 DEF PauseInv, SeenInOrder, Pauses
  <1> QED
    BY <1>1, <1>2, <1>3, <1>4 DEF Next, Take, Serve, Touch, vars

\* Whatever fails in whichever order, the time spent pausing is that of doubling
\* pauses, one for each failure that was retried.
THEOREM PausesAreBounded == Spec => []BackoffBounded
  <1>1. DeliveryInv /\ PauseInv => BackoffBounded
    <2> SUFFICES ASSUME DeliveryInv, PauseInv, NEW d \in Deliveries
                 PROVE  LET paused == {a \in Attempts : /\ a < MaxAttempts
                                                        /\ seen[d][a] \in TransientOutcomes}
                        IN  waited[d] = 2 ^ Cardinality(paused) - 1
      BY DEF BackoffBounded
    <2> DEFINE paused == {a \in Attempts : a < MaxAttempts /\ seen[d][a] \in TransientOutcomes}
    <2>1. /\ attempt[d] \in 0 .. MaxAttempts /\ MaxAttempts \in Nat \ {0}
          /\ Unseen \notin TransientOutcomes
      BY AttemptsType DEF DeliveryInv, DeliveryTypes, Unseen, TransientOutcomes, NoStatus,
                          RetryableStatusCodes
    <2>2. ASSUME NEW a \in Attempts
          PROVE  /\ a < attempt[d] => seen[d][a] \in TransientOutcomes
                 /\ a > attempt[d] => seen[d][a] \notin TransientOutcomes
      BY <2>1 DEF DeliveryInv, RetriesJustified, PauseInv, SeenInOrder
    <2>3. Pauses(d) \in 0 .. MaxAttempts
      BY <2>1 DEF Pauses, Attempts
    <2>4. paused = 1 .. Pauses(d)
      BY <2>1, <2>2 DEF Pauses, Attempts
    <2>5. Cardinality(1 .. Pauses(d)) = Pauses(d)
      BY <2>3, FS_Interval
    <2> QED
      BY <2>4, <2>5 DEF PauseInv
  <1> QED
    BY <1>1, PauseInit, PauseStep, DeliveryHolds, PTL DEF Spec

\* A delivery that has ended puts nothing more on the wire.
THEOREM EndedDeliveriesAreSilent == Spec => EndedSendsNothing
  <1>1. DeliveryInv /\ [Next]_vars =>
          [\A d \in Deliveries, a \in Attempts :
             wire[d][a] = Unsent /\ wire'[d][a] # Unsent => pc[d] = "posting"]_vars
    <2> SUFFICES ASSUME DeliveryInv, Next, NEW d \in Deliveries, NEW a \in Attempts,
                        wire[d][a] = Unsent, wire'[d][a] # Unsent
                 PROVE  pc[d] = "posting"
      OBVIOUS
    <2>1. ASSUME NEW e \in Deliveries, NEW b \in Attempts, Take(e, b)
          PROVE  pc[d] = "posting"
      <3>1. wire' = [wire EXCEPT ![e][b] = Sent] /\ pc[e] = "posting"
        BY <2>1 DEF Take, DeliveryInv, Stages
      <3> QED
        BY <3>1 DEF DeliveryInv, DeliveryTypes
    <2>2. ASSUME NEW e \in Deliveries, NEW b \in Attempts, NEW s \in Statuses, Serve(e, b, s)
          PROVE  FALSE
      <3>1. wire[e][b] = Sent /\ wire' = [wire EXCEPT ![e][b] = s]
        BY <2>2 DEF Serve
      <3> QED
        BY <3>1 DEF DeliveryInv, DeliveryTypes, Sent, Unsent
    <2>3. CASE UNCHANGED wire
      BY <2>3
    <2> QED
      BY <2>1, <2>2, <2>3 DEF Next, Refuse, Deliver, Wake, Cancel, Finish, Touch
  <1> QED
    BY <1>1, DeliveryHolds, PTL DEF Spec, EndedSendsNothing

-----------------------------------------------------------------------------
(***************************************************************************)
(* What EveryDeliveryEnds rests on besides fairness.                        *)
(***************************************************************************)

\* A delivery that waits for a POST has one that waits for a worker or is in the
\* hands of one: no outcome gets lost between the pool and the loop.
Attended ==
  \A d \in Deliveries : pc[d] = "posting" => posts[d][attempt[d]] \in {"queued", "running"}

\* How many steps there are at most until a delivery that waits has ended: three
\* for each attempt to come, and those of the current one.
Left(d) ==
  3 * (MaxAttempts - attempt[d])
    + IF pc[d] # "posting" THEN 0 ELSE IF posts[d][attempt[d]] = "queued" THEN 2 ELSE 1

\* A step that touches a delivery which waits ends it or brings its end nearer.
Advances(d) ==
  pc[d] \in Waiting =>
    \/ pc'[d] \in Ended
    \/ pc'[d] \in Waiting /\ Left(d)' \in Nat /\ Left(d)' < Left(d)
    \/ UNCHANGED <<pc[d], attempt[d], posts[d]>>

\* Everything else leaves a delivery where it is.
LEMMA Untouched ==
  ASSUME DeliveryInv, Attended, NEW d \in Deliveries,
         UNCHANGED <<pc[d], attempt[d], posts[d]>>
  PROVE  Advances(d) /\ (pc'[d] = "posting" => posts'[d][attempt'[d]] \in {"queued", "running"})
  BY DEF Advances, Attended

\* The next POST takes the place of the pause before it.
LEMMA SubmitAdvances ==
  ASSUME DeliveryInv, NEW d \in Deliveries, NEW a \in Attempts,
         a = attempt[d] + 1, pc[d] \in {"idle", "sleeping"}, Submit(d, a)
  PROVE  Advances(d) /\ posts'[d][attempt'[d]] = "queued"
  <1>1. attempt[d] \in Nat /\ MaxAttempts \in Nat /\ a <= MaxAttempts
    BY AttemptsType DEF DeliveryInv, DeliveryTypes, Attempts
  <1>2. attempt'[d] = a /\ posts'[d][a] = "queued" /\ pc'[d] = "posting"
    BY DEF Submit, DeliveryInv, DeliveryTypes
  <1>3. Left(d) = 3 * (MaxAttempts - attempt[d])
    <2>1. Left(d) = 3 * (MaxAttempts - attempt[d]) + 0
      BY DEF Left
    <2> QED
      BY <1>1, <2>1
  <1>4. Left(d)' = 3 * (MaxAttempts - a) + 2
    BY <1>2 DEF Left
  <1>5. pc[d] \in Waiting => Left(d)' \in Nat /\ Left(d)' < Left(d)
    BY <1>1, <1>3, <1>4
  <1> QED
    BY <1>2, <1>5 DEF Advances, Waiting

\* A worker takes up the POST.
LEMMA TakeAdvances ==
  ASSUME DeliveryInv, NEW d \in Deliveries, NEW a \in Attempts, Take(d, a)
  PROVE  Advances(d) /\ posts'[d][attempt'[d]] = "running"
  <1>1. posts[d][a] = "queued" /\ posts' = [posts EXCEPT ![d][a] = "running"]
        /\ UNCHANGED <<pc, attempt>>
    BY DEF Take
  <1>2. a = attempt[d] /\ pc[d] = "posting"
    BY <1>1, RunningIsLast DEF DeliveryInv, Stages
  <1>3. attempt[d] \in Nat /\ MaxAttempts \in Nat /\ attempt[d] <= MaxAttempts
    BY AttemptsType DEF DeliveryInv, DeliveryTypes
  <1>4. posts'[d][attempt'[d]] = "running"
    BY <1>1, <1>2 DEF DeliveryInv, DeliveryTypes
  <1>5. Left(d) = 3 * (MaxAttempts - attempt[d]) + 2
    BY <1>1, <1>2 DEF Left
  <1>6. Left(d)' = 3 * (MaxAttempts - attempt[d]) + 1
    BY <1>1, <1>2, <1>4 DEF Left
  <1>7. Left(d)' \in Nat /\ Left(d)' < Left(d)
    BY <1>3, <1>5, <1>6
  <1> QED
    BY <1>1, <1>2, <1>4, <1>7 DEF Advances, Waiting

\* The worker is done, and deliver() pauses or ends.
LEMMA FinishAdvances ==
  ASSUME DeliveryInv, NEW d \in Deliveries, NEW a \in Attempts,
         NEW s \in Statuses \cup {NoStatus, Broke}, Finish(d, a, s)
  PROVE  Advances(d) /\ pc'[d] # "posting"
  <1>1. posts[d][a] = "running" /\ UNCHANGED attempt
    BY DEF Finish
  <1>2. a = attempt[d]
    BY <1>1, RunningIsLast
  <1>3. attempt[d] \in Nat /\ MaxAttempts \in Nat /\ attempt[d] <= MaxAttempts
    BY AttemptsType DEF DeliveryInv, DeliveryTypes
  <1>4. CASE pc[d] # "posting"
    <2>1. pc[d] # "sleeping"
      BY <1>1, <1>2 DEF DeliveryInv, Stages
    <2>2. UNCHANGED pc
      BY <1>4 DEF Finish
    <2> QED
      BY <1>4, <2>1, <2>2 DEF Advances, Waiting
  <1>5. CASE pc[d] = "posting"
    <2>1. Handle(d, a, s)
      BY <1>5 DEF Finish
    <2>2. pc'[d] \in {"receipt", "broken", "rejected", "sleeping", "exhausted"}
      BY <2>1 DEF Handle, DeliveryInv, DeliveryTypes
    <2>3. CASE pc'[d] = "sleeping"
      <3>1. Left(d) = 3 * (MaxAttempts - attempt[d]) + 1
        BY <1>1, <1>2, <1>5 DEF Left
      <3>2. Left(d)' = 3 * (MaxAttempts - attempt[d])
        <4>1. Left(d)' = 3 * (MaxAttempts - attempt[d]) + 0
          BY <1>1, <2>3 DEF Left
        <4> QED
          BY <1>3, <4>1
      <3>3. Left(d)' \in Nat /\ Left(d)' < Left(d)
        BY <1>3, <3>1, <3>2
      <3> QED
        BY <2>3, <3>3 DEF Advances, Waiting
    <2>4. CASE pc'[d] \in {"receipt", "broken", "rejected", "exhausted"}
      BY <2>4 DEF Advances, Ended
    <2> QED
      BY <2>2, <2>3, <2>4
  <1> QED
    BY <1>4, <1>5

LEMMA AdvanceStep ==
  ASSUME DeliveryInv, Attended, [Next]_vars, NEW d \in Deliveries
  PROVE  Advances(d) /\ (pc'[d] = "posting" => posts'[d][attempt'[d]] \in {"queued", "running"})
  <1>1. ASSUME NEW e \in Deliveries, Refuse(e) \/ Cancel(e)
        PROVE  Advances(d) /\ (pc'[d] = "posting" => posts'[d][attempt'[d]] \in {"queued", "running"})
    <2>1. CASE e = d
      <3>1. pc'[d] \in {"refused", "cancelled"}
        BY <1>1, <2>1 DEF Refuse, Cancel, DeliveryInv, DeliveryTypes
      <3> QED
        BY <3>1 DEF Advances, Ended
    <2>2. CASE e # d
      <3>1. UNCHANGED <<pc[d], attempt[d], posts[d]>>
        BY <1>1, <2>2 DEF Refuse, Cancel, DeliveryInv, DeliveryTypes
      <3> QED
        BY <3>1, Untouched
    <2> QED
      BY <2>1, <2>2
  <1>2. ASSUME NEW e \in Deliveries, Deliver(e) \/ Wake(e)
        PROVE  Advances(d) /\ (pc'[d] = "posting" => posts'[d][attempt'[d]] \in {"queued", "running"})
    <2>1. pc[e] = "idle" => attempt[e] = 0
      BY DEF DeliveryInv, Stages
    <2>2. pc[e] = "sleeping" => attempt[e] < MaxAttempts
      BY DEF DeliveryInv, Stages
    <2>3. attempt[e] \in 0 .. MaxAttempts /\ MaxAttempts \in Nat \ {0}
      BY AttemptsType DEF DeliveryInv, DeliveryTypes
    <2>4. /\ attempt[e] + 1 \in Attempts /\ pc[e] \in {"idle", "sleeping"}
          /\ Submit(e, attempt[e] + 1)
      BY <1>2, <2>1, <2>2, <2>3 DEF Deliver, Wake, Attempts
    <2>5. CASE e = d
      BY <2>4, <2>5, SubmitAdvances
    <2>6. CASE e # d
      <3>1. UNCHANGED <<pc[d], attempt[d], posts[d]>>
        BY <2>4, <2>6 DEF Submit, DeliveryInv, DeliveryTypes
      <3> QED
        BY <3>1, Untouched
    <2> QED
      BY <2>5, <2>6
  <1>3. ASSUME NEW e \in Deliveries, NEW a \in Attempts, Take(e, a)
        PROVE  Advances(d) /\ (pc'[d] = "posting" => posts'[d][attempt'[d]] \in {"queued", "running"})
    <2>1. CASE e = d
      BY <1>3, <2>1, TakeAdvances
    <2>2. CASE e # d
      <3>1. UNCHANGED <<pc[d], attempt[d], posts[d]>>
        BY <1>3, <2>2 DEF Take, DeliveryInv, DeliveryTypes
      <3> QED
        BY <3>1, Untouched
    <2> QED
      BY <2>1, <2>2
  <1>4. ASSUME NEW e \in Deliveries, NEW a \in Attempts,
               NEW s \in Statuses \cup {NoStatus, Broke}, Finish(e, a, s)
        PROVE  Advances(d) /\ (pc'[d] = "posting" => posts'[d][attempt'[d]] \in {"queued", "running"})
    <2>1. CASE e = d
      BY <1>4, <2>1, FinishAdvances
    <2>2. CASE e # d
      <3>1. UNCHANGED <<pc[d], attempt[d], posts[d]>>
        BY <1>4, <2>2 DEF Finish, Handle, DeliveryInv, DeliveryTypes
      <3> QED
        BY <3>1, Untouched
    <2> QED
      BY <2>1, <2>2
  <1>5. CASE UNCHANGED <<pc, attempt, posts>>
    BY <1>5, Untouched
  <1> QED
    BY <1>1, <1>2, <1>3, <1>4, <1>5 DEF Next, Serve, Touch, vars

\* A delivery that waits for a POST always has one under way, and each
\* step that concerns it ends it or brings its end nearer, so that no delivery
\* retries for ever (deliver in adapters/governance.py).  Fairness of the timers,
\* the pool and the workers then ends every delivery.
THEOREM DeliveriesAdvance == Spec => []Attended /\ [][\A d \in Deliveries : Advances(d)]_vars
  <1>1. Init => Attended
    BY DEF Init, Attended
  <1>2. DeliveryInv /\ Attended /\ [Next]_vars => Attended'
    BY AdvanceStep DEF Attended
  <1>3. DeliveryInv /\ Attended /\ [Next]_vars => [\A d \in Deliveries : Advances(d)]_vars
    BY AdvanceStep
  <1> QED
    BY <1>1, <1>2, <1>3, DeliveryHolds, PTL DEF Spec

-----------------------------------------------------------------------------
(***************************************************************************)
(* The refinement of EventDelivery.                                         *)
(***************************************************************************)

\* What is on the wire was submitted, and nothing is of a refused delivery.
WireInv ==
  \A d \in Deliveries, a \in Attempts :
    /\ posts[d][a] # "none" => pc[d] \notin {"idle", "refused"}
    /\ wire[d][a] # Unsent => posts[d][a] # "none"

LEMMA WireInit == Init => WireInv
  BY DEF Init, WireInv

LEMMA WireStep == DeliveryInv /\ WireInv /\ [Next]_vars => WireInv'
  <1> SUFFICES ASSUME DeliveryInv, WireInv, [Next]_vars,
                      NEW e \in Deliveries, NEW b \in Attempts
               PROVE  /\ posts'[e][b] # "none" => pc'[e] \notin {"idle", "refused"}
                      /\ wire'[e][b] # Unsent => posts'[e][b] # "none"
    BY DEF WireInv
  <1>0. /\ posts[e][b] # "none" => pc[e] \notin {"idle", "refused"}
        /\ wire[e][b] # Unsent => posts[e][b] # "none"
        /\ DeliveryTypes
    BY DEF WireInv, DeliveryInv
  <1>1. ASSUME NEW d \in Deliveries, Refuse(d)
        PROVE  posts[e][b] # "none" => pc'[e] \notin {"idle", "refused"}
    BY <1>0, <1>1 DEF Refuse, DeliveryTypes
  <1>2. ASSUME NEW d \in Deliveries, NEW a, Submit(d, a), UNCHANGED wire
        PROVE  /\ posts'[e][b] # "none" => pc'[e] \notin {"idle", "refused"}
               /\ wire'[e][b] # Unsent => posts'[e][b] # "none"
    BY <1>0, <1>2 DEF Submit, DeliveryTypes
  <1>3. ASSUME NEW d \in Deliveries, Cancel(d)
        PROVE  /\ posts'[e][b] # "none" => pc'[e] \notin {"idle", "refused"}
               /\ wire'[e][b] # Unsent => posts'[e][b] # "none"
    BY <1>0, <1>3 DEF Cancel, Dropped, DeliveryTypes
  <1>4. ASSUME NEW d \in Deliveries, NEW a \in Attempts, Take(d, a)
        PROVE  /\ posts'[e][b] # "none" => pc'[e] \notin {"idle", "refused"}
               /\ wire'[e][b] # Unsent => posts'[e][b] # "none"
    BY <1>0, <1>4 DEF Take, DeliveryTypes
  <1>5. ASSUME NEW d \in Deliveries, NEW a \in Attempts, NEW s \in Statuses, Serve(d, a, s)
        PROVE  wire'[e][b] # Unsent => posts[e][b] # "none"
    BY <1>0, <1>5 DEF Serve, DeliveryTypes, Sent, Unsent
  <1>6. ASSUME NEW d \in Deliveries, NEW a \in Attempts,
               NEW s \in Statuses \cup {NoStatus, Broke}, Finish(d, a, s)
        PROVE  /\ posts'[e][b] # "none" => pc'[e] \notin {"idle", "refused"}
               /\ wire'[e][b] # Unsent => posts'[e][b] # "none"
    <2>1. \A f \in Deliveries : pc'[f] = pc[f] \/ (f = d /\ pc'[f] \notin {"idle", "refused"})
      BY <1>0, <1>6 DEF Finish, Handle, DeliveryTypes
    <2>2. posts[d][a] = "running" /\ posts' = [posts EXCEPT ![d][a] = "over"] /\ wire' = wire
      BY <1>6 DEF Finish
    <2> QED
      BY <1>0, <2>1, <2>2 DEF DeliveryTypes
  <1>7. CASE UNCHANGED <<pc, posts, wire>>
    BY <1>0, <1>7
  <1> QED
    BY <1>0, <1>1, <1>2, <1>3, <1>4, <1>5, <1>6, <1>7
       DEF Next, Deliver, Wake, Refuse, Serve, Touch, vars

phase == [d \in Deliveries |-> PhaseOf(pc[d])]

\* A step of a delivery's own is its opening or its end, as its caller sees it.
LEMMA PhaseStep ==
  ASSUME DeliveryTypes, NEW d \in Deliveries, NEW p, pc' = [pc EXCEPT ![d] = p]
  PROVE  phase' = [phase EXCEPT ![d] = PhaseOf(p)]
  BY DEF DeliveryTypes, phase

LEMMA StepDelivers ==
  DeliveryInv /\ DeliveryInv' /\ WireInv /\ [Next]_vars
    => [EventDeliveries!Next]_(EventDeliveries!vars)
  <1> SUFFICES ASSUME DeliveryInv, DeliveryInv', WireInv, [Next]_vars
               PROVE  EventDeliveries!Next \/ UNCHANGED <<phase, envelope, ledger>>
    BY DEF EventDeliveries!vars, phase
  <1>0. DeliveryTypes
    BY DEF DeliveryInv
  <1>1. ASSUME NEW d \in Deliveries, Refuse(d) \/ Deliver(d)
        PROVE  EventDeliveries!Next
    <2>1. PICK p \in {"refused", "posting"} :
            /\ pc[d] = "idle" /\ pc' = [pc EXCEPT ![d] = p]
            /\ UNCHANGED <<envelope, ledger>>
      BY <1>1 DEF Refuse, Deliver, Submit
    <2>2. phase[d] = "idle" /\ phase' = [phase EXCEPT ![d] = PhaseOf(p)]
      BY <1>0, <2>1, PhaseStep DEF phase, PhaseOf
    <2>3. PhaseOf(p) \in {"open", "refused"}
      BY DEF PhaseOf, Waiting
    <2>4. EventDeliveries!Open(d)
      BY <2>1, <2>2, <2>3 DEF EventDeliveries!Open, phase
    <2> QED
      BY <2>4 DEF EventDeliveries!Next
  <1>2. ASSUME NEW d \in Deliveries, Wake(d)
        PROVE  UNCHANGED <<phase, envelope, ledger>>
    <2>1. /\ pc[d] = "sleeping" /\ pc' = [pc EXCEPT ![d] = "posting"]
          /\ UNCHANGED <<envelope, ledger>>
      BY <1>2 DEF Wake, Submit
    <2>2. phase' = [phase EXCEPT ![d] = PhaseOf("posting")]
      BY <1>0, <2>1, PhaseStep
    <2>3. phase[d] = PhaseOf("posting")
      BY <2>1 DEF phase, PhaseOf, Waiting
    <2> QED
      BY <2>1, <2>2, <2>3 DEF phase
  <1>3. ASSUME NEW d \in Deliveries, NEW p \in Ended \ {"refused"},
               pc[d] \in Waiting, pc' = [pc EXCEPT ![d] = p],
               p = "receipt" => envelope[d] \in ledger,
               UNCHANGED <<envelope, ledger>>
        PROVE  EventDeliveries!Next
    <2>1. phase[d] = "open" /\ phase' = [phase EXCEPT ![d] = PhaseOf(p)]
      BY <1>0, <1>3, PhaseStep DEF phase, PhaseOf, Waiting
    <2>2. PhaseOf(p) = "failed" \/ (PhaseOf(p) = "receipt" /\ envelope[d] \in ledger)
      BY <1>3 DEF PhaseOf, Ended, Waiting
    <2>3. EventDeliveries!Conclude(d)
      BY <1>3, <2>1, <2>2 DEF EventDeliveries!Conclude, phase
    <2> QED
      BY <2>3 DEF EventDeliveries!Next
  <1>4. ASSUME NEW d \in Deliveries, Cancel(d)
        PROVE  EventDeliveries!Next
    BY <1>3, <1>4 DEF Cancel, Ended
  <1>5. ASSUME NEW d \in Deliveries, NEW a \in Attempts, NEW s \in Statuses, Serve(d, a, s)
        PROVE  EventDeliveries!Next \/ UNCHANGED <<phase, envelope, ledger>>
    <2>1. CASE s = Accepted
      <3>1. pc[d] \notin {"idle", "refused"}
        BY <1>5 DEF Serve, WireInv, Sent, Unsent
      <3>2. phase[d] \in {"open", "receipt", "failed"}
        BY <1>0, <3>1 DEF DeliveryTypes, phase, PhaseOf, Waiting, Ended
      <3>3. ledger' = ledger \cup {envelope[d]} /\ UNCHANGED <<pc, envelope>>
        BY <1>5, <2>1 DEF Serve
      <3>4. EventDeliveries!Record(d)
        BY <3>2, <3>3 DEF EventDeliveries!Record, phase
      <3> QED
        BY <3>4 DEF EventDeliveries!Next
    <2>2. CASE s # Accepted
      BY <1>5, <2>2 DEF Serve, phase
    <2> QED
      BY <2>1, <2>2
  <1>6. ASSUME NEW d \in Deliveries, NEW a \in Attempts,
               NEW s \in Statuses \cup {NoStatus, Broke}, Finish(d, a, s)
        PROVE  EventDeliveries!Next \/ UNCHANGED <<phase, envelope, ledger>>
    <2>1. UNCHANGED <<envelope, ledger>>
      BY <1>6 DEF Finish
    <2>2. CASE pc[d] = "posting"
      <3>1. PICK p \in {"receipt", "broken", "rejected", "sleeping", "exhausted"} :
              pc' = [pc EXCEPT ![d] = p]
        BY <1>6, <2>2 DEF Finish, Handle
      <3>2. CASE p = "sleeping"
        <4>1. phase' = [phase EXCEPT ![d] = PhaseOf("sleeping")]
          BY <1>0, <3>1, <3>2, PhaseStep
        <4>2. phase[d] = PhaseOf("sleeping")
          BY <2>2 DEF phase, PhaseOf, Waiting
        <4> QED
          BY <2>1, <4>1, <4>2 DEF phase
      <3>3. CASE p # "sleeping"
        <4>1. p = "receipt" => envelope[d] \in ledger
          BY <1>0, <2>1, <3>1 DEF DeliveryInv, ReceiptRecorded, DeliveryTypes
        <4> QED
          BY <1>3, <2>1, <2>2, <3>1, <3>3, <4>1 DEF Waiting, Ended
      <3> QED
        BY <3>2, <3>3
    <2>3. CASE pc[d] # "posting"
      BY <1>6, <2>1, <2>3 DEF Finish, phase
    <2> QED
      BY <2>2, <2>3
  <1>7. ASSUME NEW v \in Envelopes, Touch(v)
        PROVE  UNCHANGED <<phase, envelope, ledger>>
    BY <1>7 DEF Touch, phase
  <1>8. CASE UNCHANGED vars
    BY <1>8 DEF vars, phase
  <1>9. CASE \E d \in Deliveries : Refuse(d) \/ Deliver(d) \/ Wake(d) \/ Cancel(d)
    BY <1>1, <1>2, <1>4, <1>9
  <1>10. CASE \E d \in Deliveries, a \in Attempts : Take(d, a)
    BY <1>10 DEF Take, phase
  <1>11. CASE Next
    BY <1>5, <1>6, <1>7, <1>9, <1>10, <1>11 DEF Next
  <1> QED
    BY <1>8, <1>11

\* deliver() implements EventDelivery: receipts are of recorded events, what
\* was refused is never recorded, and what has ended stays as it ended.
THEOREM DeliveriesImplementPromise == Spec => ImplementsDelivery
  <1>1. Init => EventDeliveries!Init
    BY DEF Init, EventDeliveries!Init, PhaseOf
  <1> QED
    BY <1>1, DeliveryHolds, WireInit, WireStep, StepDelivers, PTL
       DEF Spec, ImplementsDelivery, EventDeliveries!Spec

=============================================================================
