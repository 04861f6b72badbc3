----------------------- MODULE TracePropagation_proofs -----------------------
(***************************************************************************)
(* Theorems about StreamableHttp, for all sets of requests, contexts and    *)
(* statuses, and any number of sends, and about TracePropagation, which     *)
(* extends it, for all sets of calls and stale pairs, whichever processes   *)
(* have tracing enabled.                                                    *)
(***************************************************************************)
EXTENDS TracePropagation, SequenceTheorems, TLAPS


-----------------------------------------------------------------------------
(***************************************************************************)
(* The context of the client reaches the server.                            *)
(***************************************************************************)

\* The types on which the trace depends.
TraceTypes ==
  /\ headers \in [Requests -> Pair]
  /\ sends \in [Requests -> Nat]
  /\ current \in [Sends -> Pair]
  /\ wire \in [Sends -> Pair]
  /\ client \in [Sends -> {"idle", "waiting", "answered", "broken"}]
  /\ server \in [Sends -> {"idle", "handling", "returned", "raised"}]
  /\ heard \in [Sends -> Pair]

\* What a send carries is the client's context, which is a context.
Carried ==
  \A a \in Sends : client[a] # "idle" =>
    wire[a] = current[a] /\ Extracted(current[a]) = current[a]

\* The sends of a request that are still to come have not left.
Ahead ==
  \A r \in Requests, n \in 1 .. MaxSends : n > sends[r] => client[<<r, n>>] = "idle"

Reached == \A a \in Sends : server[a] # "idle" => client[a] # "idle"

TraceInv == TraceTypes /\ Carried /\ Ahead /\ Reached /\ ServerContinuesClient

LEMMA NoContextType == NoContext \in Pair
  BY DEF NoContext, Pair

\* A client's context is one: it has a span whenever it has a tracestate.
LEMMA ContextIsOne ==
  ASSUME NEW a \in Sends, NEW c \in AppContexts
  PROVE  /\ ClientContext(a, c) \in Pair
         /\ Extracted(ClientContext(a, c)) = ClientContext(a, c)
  <1>1. c \in Pair /\ (c.span = NoSpan => c = NoContext)
    BY HttpAssumption DEF AppContexts, NoContext, Pair
  <1>2. CASE ClientEnabled
    <2>1. <<"client", a>> \in Ops
      BY DEF Ops
    <2>2. [c EXCEPT !.span = <<"client", a>>] \in Pair
      BY <1>1, <2>1 DEF Pair
    <2>3. [c EXCEPT !.span = <<"client", a>>].span = <<"client", a>>
      BY <1>1 DEF Pair
    <2>4. <<"client", a>> # NoSpan
      BY <2>1, HttpAssumption
    <2> QED
      BY <1>2, <2>2, <2>3, <2>4 DEF ClientContext, Extracted
  <1>3. CASE ~ClientEnabled
    BY <1>1, <1>3 DEF ClientContext, Extracted
  <1> QED
    BY <1>2, <1>3

LEMMA TraceInit == Init => TraceInv
  <1> SUFFICES ASSUME Init PROVE TraceInv
    OBVIOUS
  <1>1. headers \in [Requests -> Pair]
    BY DEF Init, Pair
  <1>2. TraceTypes
    BY <1>1, NoContextType DEF Init, TraceTypes
  <1>3. Carried /\ Reached /\ ServerContinuesClient
    BY DEF Init, Carried, Reached, ServerContinuesClient
  <1>4. Ahead
    BY DEF Init, Ahead, Sends
  <1> QED
    BY <1>2, <1>3, <1>4 DEF TraceInv

\* A send is the first to use its number, and carries its client's context.
LEMMA SendTraces ==
  ASSUME TraceInv, NEW r \in Requests, NEW c \in AppContexts, Send(r, c)
  PROVE  TraceInv'
  <1> DEFINE a == <<r, sends[r] + 1>>
  <1> DEFINE x == ClientContext(a, c)
  <1>1. sends[r] \in Nat /\ sends[r] < MaxSends /\ MaxSends \in Nat
    BY HttpAssumption DEF Send, TraceInv, TraceTypes
  <1>2. a \in Sends
    BY <1>1 DEF Sends
  <1>3. x \in Pair /\ Extracted(x) = x
    BY <1>2, ContextIsOne
  <1>4. /\ sends' = [sends EXCEPT ![r] = @ + 1]
        /\ current' = [current EXCEPT ![a] = x]
        /\ headers' = [headers EXCEPT ![r] = x]
        /\ wire' = [wire EXCEPT ![a] = headers'[r]]
        /\ client' = [client EXCEPT ![a] = "waiting"]
        /\ UNCHANGED <<server, heard>>
    BY DEF Send, Injected
  <1> HIDE DEF x
  <1>5. client[a] = "idle" /\ server[a] = "idle"
    BY <1>1, <1>2 DEF TraceInv, Ahead, Reached
  <1>6. wire' = [wire EXCEPT ![a] = x]
    BY <1>4 DEF TraceInv, TraceTypes
  <1>7. TraceTypes'
    BY <1>1, <1>2, <1>3, <1>4, <1>6 DEF TraceInv, TraceTypes
  <1>8. Carried'
    BY <1>2, <1>3, <1>4, <1>6 DEF TraceInv, TraceTypes, Carried, Extracted
  <1>9. Ahead'
    <2> SUFFICES ASSUME NEW q \in Requests, NEW n \in 1 .. MaxSends, n > sends'[q]
                 PROVE  client'[<<q, n>>] = "idle"
      BY DEF Ahead
    <2>1. n > sends[q] /\ <<q, n>> # a
      BY <1>1, <1>4 DEF TraceInv, TraceTypes
    <2>2. client[<<q, n>>] = "idle"
      BY <2>1 DEF TraceInv, Ahead
    <2> QED
      BY <2>1, <2>2, <1>4, <1>2 DEF TraceInv, TraceTypes
  <1>10. Reached' /\ ServerContinuesClient'
    BY <1>2, <1>4, <1>5 DEF TraceInv, TraceTypes, Reached, ServerContinuesClient
  <1> QED
    BY <1>7, <1>8, <1>9, <1>10 DEF TraceInv

LEMMA TraceStep == TraceInv /\ [Next]_vars => TraceInv'
  <1> SUFFICES ASSUME TraceInv, [Next]_vars PROVE TraceInv'
    OBVIOUS
  <1>1. ASSUME NEW r \in Requests, NEW c \in AppContexts, Send(r, c)
        PROVE  TraceInv'
    BY <1>1, SendTraces
  <1>2. ASSUME NEW a \in Sends, Answer(a) \/ Break(a)
        PROVE  TraceInv'
    <2>1. \E p \in {"answered", "broken"} : client' = [client EXCEPT ![a] = p]
      BY <1>2 DEF Answer, Break
    <2>2. client[a] = "waiting" /\ UNCHANGED <<headers, sends, current, wire, server, heard>>
      BY <1>2 DEF Answer, Break
    <2> QED
      BY <2>1, <2>2 DEF TraceInv, TraceTypes, Carried, Ahead, Reached, ServerContinuesClient, Sends
  <1>3. ASSUME NEW a \in Sends, Handle(a)
        PROVE  TraceInv'
    <2>1. /\ client[a] # "idle"
          /\ server' = [server EXCEPT ![a] = "handling"]
          /\ heard' = [heard EXCEPT ![a] = Extracted(wire[a])]
          /\ UNCHANGED <<headers, sends, current, wire, client>>
      BY <1>3 DEF Handle
    <2>2. Extracted(wire[a]) = current[a]
      BY <2>1 DEF TraceInv, Carried
    <2>3. heard' = [heard EXCEPT ![a] = current[a]]
      BY <2>1, <2>2
    <2> QED
      BY <2>1, <2>3 DEF TraceInv, TraceTypes, Carried, Ahead, Reached, ServerContinuesClient, Extracted
  <1>4. ASSUME NEW a \in Sends, Return(a) \/ Raise(a)
        PROVE  TraceInv'
    <2>1. \E p \in {"returned", "raised"} : server' = [server EXCEPT ![a] = p]
      BY <1>4 DEF Return, Raise
    <2>2. server[a] = "handling" /\ UNCHANGED <<headers, sends, current, wire, client, heard>>
      BY <1>4 DEF Return, Raise
    <2> QED
      BY <2>1, <2>2 DEF TraceInv, TraceTypes, Carried, Ahead, Reached, ServerContinuesClient, Extracted
  <1>5. ASSUME UNCHANGED <<headers, sends, current, wire, client, server, heard>>
        PROVE  TraceInv'
    BY <1>5 DEF TraceInv, TraceTypes, Carried, Ahead, Reached, ServerContinuesClient, Extracted
  <1>6. ASSUME NEW a \in Sends, Gateway(a)
        PROVE  TraceInv'
    BY <1>5, <1>6 DEF Gateway
  <1>7. ASSUME NEW a \in Sends, NEW s \in Statuses, Respond(a, s)
        PROVE  TraceInv'
    BY <1>5, <1>7 DEF Respond
  <1>8. CASE UNCHANGED vars
    BY <1>5, <1>8 DEF vars
  <1> QED
    BY <1>1, <1>2, <1>3, <1>4, <1>6, <1>7, <1>8 DEF Next

\* Behind the middleware the application works in the context its request was
\* sent from, whatever the request's headers held before.
THEOREM TraceIsContinued == Spec => []ServerContinuesClient
  <1>1. TraceInv => ServerContinuesClient
    BY DEF TraceInv
  <1> QED
    BY <1>1, TraceInit, TraceStep, PTL DEF Spec

-----------------------------------------------------------------------------
(***************************************************************************)
(* Type correctness.                                                        *)
(***************************************************************************)

LEMMA EmitTyped ==
  ASSUME TypeOK, NEW o \in Ops, NEW outcome \in {"STARTED", "SUCCESS", "ERROR"},
         Emit(o, outcome)
  PROVE  events' \in [Ops -> Seq({"STARTED", "SUCCESS", "ERROR"})]
  <1>1. Append(events[o], outcome) \in Seq({"STARTED", "SUCCESS", "ERROR"})
    BY AppendProperties DEF TypeOK
  <1> QED
    BY <1>1 DEF Emit, TypeOK

LEMMA HttpTypeStep == TypeOK /\ [Next]_vars => TypeOK'
  <1> SUFFICES ASSUME TypeOK, [Next]_vars PROVE TypeOK'
    OBVIOUS
  <1>0. \A s : Outcome(s) \in {"STARTED", "SUCCESS", "ERROR"}
    BY DEF Outcome
  <1>1. ASSUME NEW r \in Requests, NEW c \in AppContexts, Send(r, c)
        PROVE  TypeOK'
    <2> DEFINE a == <<r, sends[r] + 1>>
    <2>1. /\ sends[r] \in 0 .. MaxSends /\ sends[r] < MaxSends /\ MaxSends \in Nat
      BY <1>1, HttpAssumption DEF Send, TypeOK
    <2>2. a \in Sends /\ <<"client", a>> \in Ops
      BY <2>1 DEF Sends, Ops
    <2>3. ClientContext(a, c) \in Pair
      BY <2>2, ContextIsOne
    <2>4. events' \in [Ops -> Seq({"STARTED", "SUCCESS", "ERROR"})]
      BY <1>1, <2>2, EmitTyped DEF Send
    <2>5. headers' \in [Requests -> Pair] /\ wire' \in [Sends -> Pair]
      BY <1>1, <2>2, <2>3 DEF Send, Injected, TypeOK
    <2>6. sends' \in [Requests -> 0 .. MaxSends]
      BY <1>1, <2>1 DEF Send, TypeOK
    <2>7. /\ current' \in [Sends -> Pair]
          /\ client' \in [Sends -> {"idle", "waiting", "answered", "broken"}]
          /\ UNCHANGED <<server, heard, status, reply>>
      BY <1>1, <2>2, <2>3 DEF Send, TypeOK
    <2> QED
      BY <2>4, <2>5, <2>6, <2>7 DEF TypeOK
  <1>2. ASSUME NEW a \in Sends, Answer(a) \/ Break(a)
        PROVE  TypeOK'
    <2>1. events' \in [Ops -> Seq({"STARTED", "SUCCESS", "ERROR"})]
      BY <1>0, <1>2, EmitTyped DEF Answer, Break, Ops
    <2> QED
      BY <1>2, <2>1 DEF Answer, Break, TypeOK
  <1>3. ASSUME NEW a \in Sends, Handle(a)
        PROVE  TypeOK'
    <2>1. events' \in [Ops -> Seq({"STARTED", "SUCCESS", "ERROR"})]
      BY <1>3, EmitTyped DEF Handle, Ops
    <2>2. Extracted(wire[a]) \in Pair
      BY NoContextType DEF Extracted, TypeOK
    <2> QED
      BY <1>3, <2>1, <2>2 DEF Handle, TypeOK
  <1>4. ASSUME NEW a \in Sends, Return(a) \/ Raise(a)
        PROVE  TypeOK'
    <2>1. events' \in [Ops -> Seq({"STARTED", "SUCCESS", "ERROR"})]
      BY <1>0, <1>4, EmitTyped DEF Return, Raise, Ops
    <2>2. reply' \in [Sends -> Replies]
      BY <1>4 DEF Return, Raise, ServerAnswers, Deliver, Replies, TypeOK
    <2> QED
      BY <1>4, <2>1, <2>2 DEF Return, Raise, TypeOK
  <1>5. ASSUME NEW a \in Sends, Gateway(a)
        PROVE  TypeOK'
    BY <1>5 DEF Gateway, Replies, TypeOK
  <1>6. ASSUME NEW a \in Sends, NEW s \in Statuses, Respond(a, s)
        PROVE  TypeOK'
    BY <1>6 DEF Respond, Deliver, Replies, TypeOK
  <1>7. CASE UNCHANGED vars
    BY <1>7 DEF vars, TypeOK
  <1> QED
    BY <1>1, <1>2, <1>3, <1>4, <1>5, <1>6, <1>7 DEF Next

\* The state of both ends of every exchange keeps its types.
THEOREM HttpTyped == Spec => []TypeOK
  <1>1. Init => TypeOK
    <2>1. Init => headers \in [Requests -> Pair]
      BY DEF Init, Pair
    <2> QED
      BY <2>1, NoContextType, HttpAssumption DEF Init, TypeOK, Replies
  <1> QED
    BY <1>1, HttpTypeStep, PTL DEF Spec

-----------------------------------------------------------------------------
(***************************************************************************)
(* The events of the two sides.                                             *)
(***************************************************************************)

\* The types on which the events depend.
EventTypes ==
  /\ status \in [Sends -> Statuses \cup {NoStatus}]
  /\ reply \in [Sends -> Replies]
  /\ events \in [Ops -> Seq({"STARTED", "SUCCESS", "ERROR"})]

ClientLog(a) ==
  CASE client[a] = "idle" -> <<>>
    [] client[a] = "waiting" -> <<"STARTED">>
    [] client[a] = "answered" -> <<"STARTED", Outcome(reply[a])>>
    [] client[a] = "broken" -> <<"STARTED", "ERROR">>

ServerLog(a) ==
  CASE server[a] = "idle" -> <<>>
    [] server[a] = "handling" -> <<"STARTED">>
    [] server[a] = "returned" -> <<"STARTED", Outcome(status[a])>>
    [] server[a] = "raised" -> <<"STARTED", "ERROR">>

\* The events of each side follow from where it is and what it observed.
Logged ==
  \A a \in Sends :
    events[<<"client", a>>] = ClientLog(a) /\ events[<<"server", a>>] = ServerLog(a)

\* An answer is the application's, or tells of a failure.
Answered ==
  \A a \in Sends :
    /\ client[a] = "answered" => reply[a] # NoStatus
    /\ reply[a] # NoStatus => reply[a] = status[a] \/ reply[a] \in {ServerError, BadGateway}

EventInv == TraceInv /\ EventTypes /\ Logged /\ Answered

LEMMA OutcomeType == \A s : Outcome(s) \in {"SUCCESS", "ERROR"}
  BY DEF Outcome

\* Emitting an event appends to the log of one operation and no other.
LEMMA EmitLogs ==
  ASSUME EventInv, NEW o \in Ops, NEW outcome \in {"STARTED", "SUCCESS", "ERROR"},
         Emit(o, outcome)
  PROVE  /\ events' \in [Ops -> Seq({"STARTED", "SUCCESS", "ERROR"})]
         /\ events'[o] = Append(events[o], outcome)
         /\ \A p \in Ops : p # o => events'[p] = events[p]
  <1>1. Append(events[o], outcome) \in Seq({"STARTED", "SUCCESS", "ERROR"})
    BY AppendProperties DEF EventInv, EventTypes
  <1> QED
    BY <1>1 DEF Emit, EventInv, EventTypes

LEMMA OpNames ==
  ASSUME NEW a \in Sends
  PROVE  /\ <<"client", a>> \in Ops /\ <<"server", a>> \in Ops
         /\ \A b \in Sends : /\ <<"client", a>> # <<"server", b>>
                            /\ b # a => /\ <<"client", b>> # <<"client", a>>
                                        /\ <<"server", b>> # <<"server", a>>
  BY DEF Ops

\* A step of the client of one send.
LEMMA ClientStep ==
  ASSUME EventInv, NEW a \in Sends, NEW p \in {"waiting", "answered", "broken"},
         NEW outcome \in {"STARTED", "SUCCESS", "ERROR"},
         Emit(<<"client", a>>, outcome), client' = [client EXCEPT ![a] = p],
         UNCHANGED <<server, status, reply>>,
         p = "answered" => reply[a] # NoStatus,
         ClientLog(a)' = Append(ClientLog(a), outcome)
  PROVE  EventTypes' /\ Logged' /\ Answered'
  <1>1. EventTypes'
    BY OpNames, EmitLogs DEF EventInv, EventTypes
  <1>2. Answered'
    BY DEF EventInv, Answered, TraceInv, TraceTypes
  <1>3. ASSUME NEW b \in Sends
        PROVE  events'[<<"client", b>>] = ClientLog(b)'
    <2>1. CASE b = a
      BY <2>1, OpNames, EmitLogs DEF EventInv, Logged
    <2>2. CASE b # a
      <3>1. ClientLog(b)' = ClientLog(b)
        BY <2>2 DEF ClientLog, EventInv, TraceInv, TraceTypes, Outcome, Failed
      <3> QED
        BY <2>2, <3>1, OpNames, EmitLogs DEF EventInv, Logged
    <2> QED
      BY <2>1, <2>2
  <1>4. ASSUME NEW b \in Sends
        PROVE  events'[<<"server", b>>] = ServerLog(b)'
    <2>1. ServerLog(b)' = ServerLog(b)
      BY DEF ServerLog, Outcome, Failed
    <2> QED
      BY <2>1, OpNames, EmitLogs DEF EventInv, Logged
  <1> QED
    BY <1>1, <1>2, <1>3, <1>4 DEF Logged

\* A step of the middleware of one send.
LEMMA ServerStep ==
  ASSUME EventInv, NEW a \in Sends, NEW p \in {"handling", "returned", "raised"},
         NEW outcome \in {"STARTED", "SUCCESS", "ERROR"},
         Emit(<<"server", a>>, outcome), server' = [server EXCEPT ![a] = p],
         UNCHANGED <<client, status>>,
         UNCHANGED reply \/ Deliver(a, ServerError),
         ServerLog(a)' = Append(ServerLog(a), outcome)
  PROVE  EventTypes' /\ Logged' /\ Answered'
  <1>0. /\ reply' \in [Sends -> Replies]
        /\ \A b \in Sends : reply[b] # NoStatus => reply'[b] = reply[b]
        /\ \A b \in Sends : reply'[b] = reply[b] \/ reply'[b] = ServerError
    BY DEF EventInv, EventTypes, Deliver, Replies
  <1>1. EventTypes'
    BY <1>0, OpNames, EmitLogs DEF EventInv, EventTypes
  <1>2. Answered'
    BY <1>0 DEF EventInv, Answered
  <1>3. ASSUME NEW b \in Sends
        PROVE  events'[<<"server", b>>] = ServerLog(b)'
    <2>1. CASE b = a
      BY <2>1, OpNames, EmitLogs DEF EventInv, Logged
    <2>2. CASE b # a
      <3>1. ServerLog(b)' = ServerLog(b)
        BY <2>2 DEF ServerLog, EventInv, TraceInv, TraceTypes, Outcome, Failed
      <3> QED
        BY <2>2, <3>1, OpNames, EmitLogs DEF EventInv, Logged
    <2> QED
      BY <2>1, <2>2
  <1>4. ASSUME NEW b \in Sends
        PROVE  events'[<<"client", b>>] = ClientLog(b)'
    <2>1. ClientLog(b)' = ClientLog(b)
      BY <1>0 DEF ClientLog, Outcome, Failed, EventInv, Answered
    <2> QED
      BY <2>1, OpNames, EmitLogs DEF EventInv, Logged
  <1> QED
    BY <1>1, <1>2, <1>3, <1>4 DEF Logged

\* What each step does to the events, by what it leaves alone.
LEMMA EventInit == Init => EventInv
  <1> SUFFICES ASSUME Init PROVE EventInv
    OBVIOUS
  <1>1. EventTypes
    BY DEF Init, EventTypes, Replies
  <1>2. Logged
    BY OpNames DEF Init, Logged, ClientLog, ServerLog
  <1>3. Answered
    BY DEF Init, Answered
  <1> QED
    BY <1>1, <1>2, <1>3, TraceInit DEF EventInv

LEMMA EventStep == EventInv /\ [Next]_vars => EventInv'
  <1> SUFFICES ASSUME EventInv, [Next]_vars PROVE EventInv'
    OBVIOUS
  <1>0. TraceInv'
    BY TraceStep DEF EventInv
  <1>1. ASSUME NEW r \in Requests, NEW c \in AppContexts, Send(r, c)
        PROVE  EventTypes' /\ Logged' /\ Answered'
    <2>0. <<r, sends[r] + 1>> \in Sends /\ client[<<r, sends[r] + 1>>] = "idle"
      BY <1>1, HttpAssumption DEF Send, Sends, EventInv, TraceInv, TraceTypes, Ahead
    <2> PICK a \in Sends : a = <<r, sends[r] + 1>>
      BY <2>0
    <2>1. client[a] = "idle"
      BY <2>0
    <2>2. /\ Emit(<<"client", a>>, "STARTED")
          /\ client' = [client EXCEPT ![a] = "waiting"]
          /\ UNCHANGED <<server, status, reply>>
      BY <1>1 DEF Send
    <2>3. client'[a] = "waiting"
      BY <2>1, <2>2 DEF EventInv, TraceInv, TraceTypes
    <2>4. ClientLog(a) = <<>> /\ ClientLog(a)' = <<"STARTED">>
      BY <2>1, <2>3 DEF ClientLog
    <2>5. ClientLog(a)' = Append(ClientLog(a), "STARTED")
      BY <2>4
    <2> QED
      BY <2>1, <2>2, <2>5, ClientStep
  <1>2. ASSUME NEW a \in Sends, Answer(a)
        PROVE  EventTypes' /\ Logged' /\ Answered'
    <2>1. /\ client[a] = "waiting"
          /\ reply[a] # NoStatus
          /\ Emit(<<"client", a>>, Outcome(reply[a]))
          /\ client' = [client EXCEPT ![a] = "answered"]
          /\ UNCHANGED <<server, status, reply>>
      BY <1>2 DEF Answer
    <2>2. Outcome(reply[a])' = Outcome(reply[a])
      BY <2>1 DEF Outcome, Failed
    <2>3. ClientLog(a) = <<"STARTED">> /\ ClientLog(a)' = <<"STARTED", Outcome(reply[a])>>
      BY <2>1, <2>2 DEF ClientLog, EventInv, TraceInv, TraceTypes
    <2>4. ClientLog(a)' = Append(ClientLog(a), Outcome(reply[a]))
      BY <2>3
    <2>5. Outcome(reply[a]) \in {"STARTED", "SUCCESS", "ERROR"}
      BY OutcomeType
    <2> QED
      BY <2>1, <2>4, <2>5, ClientStep
  <1>3. ASSUME NEW a \in Sends, Break(a)
        PROVE  EventTypes' /\ Logged' /\ Answered'
    <2>1. /\ client[a] = "waiting"
          /\ Emit(<<"client", a>>, "ERROR")
          /\ client' = [client EXCEPT ![a] = "broken"]
          /\ UNCHANGED <<server, status, reply>>
      BY <1>3 DEF Break
    <2>2. ClientLog(a) = <<"STARTED">> /\ ClientLog(a)' = <<"STARTED", "ERROR">>
      BY <2>1 DEF ClientLog, EventInv, TraceInv, TraceTypes
    <2>3. ClientLog(a)' = Append(ClientLog(a), "ERROR")
      BY <2>2
    <2> QED
      BY <2>1, <2>3, ClientStep
  <1>4. ASSUME NEW a \in Sends, Handle(a)
        PROVE  EventTypes' /\ Logged' /\ Answered'
    <2>1. /\ server[a] = "idle"
          /\ Emit(<<"server", a>>, "STARTED")
          /\ server' = [server EXCEPT ![a] = "handling"]
          /\ UNCHANGED <<client, status, reply>>
      BY <1>4 DEF Handle
    <2>2. ServerLog(a) = <<>> /\ ServerLog(a)' = <<"STARTED">>
      BY <2>1 DEF ServerLog, EventInv, TraceInv, TraceTypes
    <2>3. ServerLog(a)' = Append(ServerLog(a), "STARTED")
      BY <2>2
    <2> QED
      BY <2>1, <2>3, ServerStep
  <1>5. ASSUME NEW a \in Sends, Return(a)
        PROVE  EventTypes' /\ Logged' /\ Answered'
    <2>1. /\ server[a] = "handling"
          /\ Emit(<<"server", a>>, Outcome(status[a]))
          /\ server' = [server EXCEPT ![a] = "returned"]
          /\ UNCHANGED <<client, status>>
          /\ UNCHANGED reply \/ Deliver(a, ServerError)
      BY <1>5 DEF Return, ServerAnswers
    <2>2. Outcome(status[a])' = Outcome(status[a])
      BY <2>1 DEF Outcome, Failed
    <2>3. ServerLog(a) = <<"STARTED">> /\ ServerLog(a)' = <<"STARTED", Outcome(status[a])>>
      BY <2>1, <2>2 DEF ServerLog, EventInv, TraceInv, TraceTypes
    <2>4. ServerLog(a)' = Append(ServerLog(a), Outcome(status[a]))
      BY <2>3
    <2>5. Outcome(status[a]) \in {"STARTED", "SUCCESS", "ERROR"}
      BY OutcomeType
    <2> QED
      BY <2>1, <2>4, <2>5, ServerStep
  <1>6. ASSUME NEW a \in Sends, Raise(a)
        PROVE  EventTypes' /\ Logged' /\ Answered'
    <2>1. /\ server[a] = "handling"
          /\ Emit(<<"server", a>>, "ERROR")
          /\ server' = [server EXCEPT ![a] = "raised"]
          /\ UNCHANGED <<client, status>>
          /\ UNCHANGED reply \/ Deliver(a, ServerError)
      BY <1>6 DEF Raise, ServerAnswers
    <2>2. ServerLog(a) = <<"STARTED">> /\ ServerLog(a)' = <<"STARTED", "ERROR">>
      BY <2>1 DEF ServerLog, EventInv, TraceInv, TraceTypes
    <2>3. ServerLog(a)' = Append(ServerLog(a), "ERROR")
      BY <2>2
    <2> QED
      BY <2>1, <2>3, ServerStep
  <1>7. ASSUME UNCHANGED <<client, server, events>>,
               status' \in [Sends -> Statuses \cup {NoStatus}], reply' \in [Sends -> Replies],
               \A b \in Sends : /\ reply[b] # NoStatus => reply'[b] = reply[b]
                                /\ reply'[b] # reply[b] =>
                                      reply'[b] \in {status'[b], BadGateway}
                                /\ status[b] # NoStatus \/ server[b] # "handling"
                                      => status'[b] = status[b]
        PROVE  EventTypes' /\ Logged' /\ Answered'
    <2>1. \A b \in Sends : ClientLog(b)' = ClientLog(b)
      BY <1>7 DEF ClientLog, Outcome, Failed, EventInv, Answered
    <2>2. \A b \in Sends : ServerLog(b)' = ServerLog(b)
      BY <1>7 DEF ServerLog, Outcome, Failed
    <2>3. Answered'
      BY <1>7, HttpAssumption DEF EventInv, EventTypes, Answered
    <2> QED
      BY <1>7, <2>1, <2>2, <2>3 DEF EventInv, EventTypes, Logged
  <1>8. ASSUME NEW a \in Sends, NEW s \in Statuses, Respond(a, s)
        PROVE  EventTypes' /\ Logged' /\ Answered'
    BY <1>7, <1>8 DEF Respond, Deliver, EventInv, EventTypes, Replies
  <1>9. ASSUME NEW a \in Sends, Gateway(a)
        PROVE  EventTypes' /\ Logged' /\ Answered'
    BY <1>7, <1>9 DEF Gateway, EventInv, EventTypes, Replies
  <1>10. ASSUME UNCHANGED vars
         PROVE  EventTypes' /\ Logged' /\ Answered'
    BY <1>7, <1>10 DEF vars, EventInv, EventTypes
  <1>11. EventTypes' /\ Logged' /\ Answered'
    BY <1>1, <1>2, <1>3, <1>4, <1>5, <1>6, <1>8, <1>9, <1>10 DEF Next
  <1> QED
    BY <1>0, <1>11 DEF EventInv

-----------------------------------------------------------------------------
(***************************************************************************)
(* What the events of the two sides amount to.                              *)
(***************************************************************************)

LEMMA ReportValues ==
  /\ ReportOf(<<>>) = "none"
  /\ ReportOf(<<"STARTED">>) = "started"
  /\ ReportOf(<<"STARTED", "SUCCESS">>) = "completed"
  /\ ReportOf(<<"STARTED", "ERROR">>) = "failed"
  BY DEF ReportOf

ClientReport(a) ==
  CASE client[a] = "idle" -> "none"
    [] client[a] = "waiting" -> "started"
    [] client[a] = "answered" -> IF Failed(reply[a]) THEN "failed" ELSE "completed"
    [] client[a] = "broken" -> "failed"

ServerReport(a) ==
  CASE server[a] = "idle" -> "none"
    [] server[a] = "handling" -> "started"
    [] server[a] = "returned" -> IF Failed(status[a]) THEN "failed" ELSE "completed"
    [] server[a] = "raised" -> "failed"

\* The report of each side follows from where it is and what it observed.
LEMMA ReportsFollow ==
  ASSUME EventInv, NEW a \in Sends
  PROVE  Report("client", a) = ClientReport(a) /\ Report("server", a) = ServerReport(a)
  <1>1. events[<<"client", a>>] = ClientLog(a) /\ events[<<"server", a>>] = ServerLog(a)
    BY DEF EventInv, Logged
  <1>2. ReportOf(ClientLog(a)) = ClientReport(a)
    <2>1. client[a] \in {"idle", "waiting", "answered", "broken"}
      BY DEF EventInv, TraceInv, TraceTypes
    <2> QED
      BY <2>1, ReportValues DEF ClientLog, ClientReport, Outcome
  <1>3. ReportOf(ServerLog(a)) = ServerReport(a)
    <2>1. server[a] \in {"idle", "handling", "returned", "raised"}
      BY DEF EventInv, TraceInv, TraceTypes
    <2> QED
      BY <2>1, ReportValues DEF ServerLog, ServerReport, Outcome
  <1> QED
    BY <1>1, <1>2, <1>3 DEF Report

\* A client that reports success was answered by the application behind the
\* middleware, and both report the same unless the application failed after it.
THEOREM SuccessIsTheApplications == Spec => []SuccessIsShared
  <1>1. ASSUME EventInv, NEW a \in Sends, Report("client", a) = "completed"
        PROVE  /\ status[a] # NoStatus /\ status[a] < 400
               /\ Report("server", a) = "failed" => server[a] = "raised"
    <2>1. client[a] = "answered" /\ ~Failed(reply[a])
      BY <1>1, ReportsFollow DEF ClientReport, EventInv, TraceInv, TraceTypes
    <2>2. reply[a] # NoStatus /\ reply[a] \in Replies
      BY <1>1, <2>1 DEF EventInv, EventTypes, Answered
    <2>3. reply[a] \in Nat /\ reply[a] < 400
      BY <2>1, <2>2, HttpAssumption DEF Replies, ServerError, BadGateway, Failed
    <2>4. reply[a] = status[a]
      BY <1>1, <2>2, <2>3 DEF EventInv, Answered, ServerError, BadGateway
    <2>5. ~Failed(status[a])
      BY <2>1, <2>4
    <2>6. ServerReport(a) = "failed" => server[a] = "raised"
      BY <1>1, <2>5 DEF ServerReport, EventInv, TraceInv, TraceTypes
    <2> QED
      BY <1>1, <2>2, <2>3, <2>4, <2>6, ReportsFollow
  <1>2. EventInv => SuccessIsShared
    BY <1>1 DEF SuccessIsShared
  <1> QED
    BY <1>2, EventInit, EventStep, PTL DEF Spec

-----------------------------------------------------------------------------
(***************************************************************************)
(* Both sides implement OperationReports.                                   *)
(***************************************************************************)

report == [o \in Ops |-> ReportOf(events[o])]

Ended(o) ==
  IF o[1] = "client" THEN client[o[2]] \in {"answered", "broken"}
                     ELSE server[o[2]] \in {"returned", "raised"}

released == [o \in Ops |-> Ended(o)]

\* The first event of an operation starts its report.
LEMMA StartReports ==
  ASSUME EventInv, NEW o \in Ops, events[o] = <<>>, Emit(o, "STARTED"),
         \A p \in Ops : Ended(p)' = Ended(p)
  PROVE  Reports!Next
  <1>1. events'[o] = <<"STARTED">> /\ \A p \in Ops : p # o => events'[p] = events[p]
    <2>1. Append(events[o], "STARTED") = <<"STARTED">>
      OBVIOUS
    <2> QED
      BY <2>1, EmitLogs
  <1>2. report[o] = "none" /\ report' = [report EXCEPT ![o] = "started"]
    BY <1>1, ReportValues DEF report
  <1>3. UNCHANGED released
    BY DEF released
  <1>4. Reports!Start(o)
    BY <1>2, <1>3 DEF Reports!Start, report, released, Ended
  <1> QED
    BY <1>4 DEF Reports!Next

\* Its second event settles the report, and its caller goes on.
LEMMA SettleReports ==
  ASSUME EventInv, NEW o \in Ops, events[o] = <<"STARTED">>,
         NEW outcome \in {"SUCCESS", "ERROR"}, Emit(o, outcome),
         Ended(o)' = TRUE, \A p \in Ops : p # o => Ended(p)' = Ended(p)
  PROVE  Reports!Next
  <1> DEFINE r == IF outcome = "SUCCESS" THEN "completed" ELSE "failed"
  <1>1. events'[o] = <<"STARTED", outcome>> /\ \A p \in Ops : p # o => events'[p] = events[p]
    <2>1. <<"STARTED", outcome>> = Append(events[o], outcome)
      OBVIOUS
    <2> QED
      BY <2>1, EmitLogs
  <1>2. ReportOf(events'[o]) = r
    BY <1>1, ReportValues
  <1>3. report[o] = "started" /\ report' = [report EXCEPT ![o] = r]
    BY <1>1, <1>2, ReportValues DEF report
  <1>4. released' = [released EXCEPT ![o] = TRUE]
    BY Zenon DEF released
  <1>5. Reports!Settle(o, r)
    BY <1>3, <1>4 DEF Reports!Settle, report, released, Ended
  <1> QED
    BY <1>5 DEF Reports!Next

\* What is over for a side follows from where it is.
LEMMA EndedSides ==
  /\ \A a \in Sends : Ended(<<"client", a>>) <=> client[a] \in {"answered", "broken"}
  /\ \A a \in Sends : Ended(<<"server", a>>) <=> server[a] \in {"returned", "raised"}
  /\ \A o \in Ops : \E a \in Sends : o \in {<<"client", a>>, <<"server", a>>}
  BY DEF Ended, Ops

\* A step that leaves both sides and their events alone.
LEMMA ReportsKept == UNCHANGED <<events, client, server>> => UNCHANGED Reports!vars
  BY DEF Reports!vars

\* A step of a client's side leaves every other operation's caller where it was.
LEMMA ClientMoves ==
  ASSUME EventInv, NEW a \in Sends, NEW p \in {"waiting", "answered", "broken"},
         client' = [client EXCEPT ![a] = p], UNCHANGED server
  PROVE  /\ Ended(<<"client", a>>)' = (p # "waiting")
         /\ \A o \in Ops : o # <<"client", a>> => Ended(o)' = Ended(o)
  <1>1. client'[a] = p /\ \A b \in Sends : b # a => client'[b] = client[b]
    BY DEF EventInv, TraceInv, TraceTypes
  <1> QED
    BY <1>1 DEF Ended, Ops

\* A step of a server's side likewise.
LEMMA ServerMoves ==
  ASSUME EventInv, NEW a \in Sends, NEW p \in {"handling", "returned", "raised"},
         server' = [server EXCEPT ![a] = p], UNCHANGED client
  PROVE  /\ Ended(<<"server", a>>)' = (p # "handling")
         /\ \A o \in Ops : o # <<"server", a>> => Ended(o)' = Ended(o)
  <1>1. server'[a] = p /\ \A b \in Sends : b # a => server'[b] = server[b]
    BY DEF EventInv, TraceInv, TraceTypes
  <1> QED
    BY <1>1 DEF Ended, Ops

LEMMA StepReports == EventInv /\ [Next]_vars => [Reports!Next]_(Reports!vars)
  <1> SUFFICES ASSUME EventInv, [Next]_vars
               PROVE  Reports!Next \/ UNCHANGED Reports!vars
    OBVIOUS
  <1>1. ASSUME NEW r \in Requests, NEW c \in AppContexts, Send(r, c)
        PROVE  Reports!Next
    <2>0. <<r, sends[r] + 1>> \in Sends /\ client[<<r, sends[r] + 1>>] = "idle"
      BY <1>1, HttpAssumption DEF Send, Sends, EventInv, TraceInv, TraceTypes, Ahead
    <2> PICK a \in Sends : a = <<r, sends[r] + 1>>
      BY <2>0
    <2>1. /\ Emit(<<"client", a>>, "STARTED")
          /\ client' = [client EXCEPT ![a] = "waiting"]
          /\ UNCHANGED server
      BY <1>1 DEF Send
    <2>2. events[<<"client", a>>] = <<>> /\ ~Ended(<<"client", a>>)
      BY <2>0, EndedSides DEF EventInv, Logged, ClientLog
    <2>3. \A o \in Ops : Ended(o)' = Ended(o)
      BY <2>1, <2>2, ClientMoves, OpNames DEF Ended
    <2> QED
      BY <2>1, <2>2, <2>3, StartReports, OpNames
  <1>2. ASSUME NEW a \in Sends, Answer(a)
        PROVE  Reports!Next
    <2>1. /\ Emit(<<"client", a>>, Outcome(reply[a]))
          /\ client' = [client EXCEPT ![a] = "answered"]
          /\ UNCHANGED server
      BY <1>2 DEF Answer
    <2>2. events[<<"client", a>>] = <<"STARTED">>
      BY <1>2 DEF Answer, EventInv, Logged, ClientLog
    <2> QED
      BY <2>1, <2>2, SettleReports, ClientMoves, OutcomeType, OpNames
  <1>3. ASSUME NEW a \in Sends, Break(a)
        PROVE  Reports!Next
    <2>1. /\ Emit(<<"client", a>>, "ERROR")
          /\ client' = [client EXCEPT ![a] = "broken"]
          /\ UNCHANGED server
      BY <1>3 DEF Break
    <2>2. events[<<"client", a>>] = <<"STARTED">>
      BY <1>3 DEF Break, EventInv, Logged, ClientLog
    <2> QED
      BY <2>1, <2>2, SettleReports, ClientMoves, OpNames
  <1>4. ASSUME NEW a \in Sends, Handle(a)
        PROVE  Reports!Next
    <2>1. /\ Emit(<<"server", a>>, "STARTED")
          /\ server' = [server EXCEPT ![a] = "handling"]
          /\ UNCHANGED client
      BY <1>4 DEF Handle
    <2>2. events[<<"server", a>>] = <<>> /\ ~Ended(<<"server", a>>)
      BY <1>4, EndedSides DEF Handle, EventInv, Logged, ServerLog
    <2>3. \A o \in Ops : Ended(o)' = Ended(o)
      BY <2>1, <2>2, ServerMoves, OpNames DEF Ended
    <2> QED
      BY <2>1, <2>2, <2>3, StartReports, OpNames
  <1>5. ASSUME NEW a \in Sends, Return(a)
        PROVE  Reports!Next
    <2>1. /\ Emit(<<"server", a>>, Outcome(status[a]))
          /\ server' = [server EXCEPT ![a] = "returned"]
          /\ UNCHANGED client
      BY <1>5 DEF Return
    <2>2. events[<<"server", a>>] = <<"STARTED">>
      BY <1>5 DEF Return, EventInv, Logged, ServerLog
    <2> QED
      BY <2>1, <2>2, SettleReports, ServerMoves, OutcomeType, OpNames
  <1>6. ASSUME NEW a \in Sends, Raise(a)
        PROVE  Reports!Next
    <2>1. /\ Emit(<<"server", a>>, "ERROR")
          /\ server' = [server EXCEPT ![a] = "raised"]
          /\ UNCHANGED client
      BY <1>6 DEF Raise
    <2>2. events[<<"server", a>>] = <<"STARTED">>
      BY <1>6 DEF Raise, EventInv, Logged, ServerLog
    <2> QED
      BY <2>1, <2>2, SettleReports, ServerMoves, OpNames
  <1>7. ASSUME NEW a \in Sends, NEW s \in Statuses, Respond(a, s)
        PROVE  UNCHANGED Reports!vars
    BY <1>7, ReportsKept DEF Respond
  <1>8. ASSUME NEW a \in Sends, Gateway(a)
        PROVE  UNCHANGED Reports!vars
    BY <1>8, ReportsKept DEF Gateway
  <1>9. CASE UNCHANGED vars
    BY <1>9, ReportsKept DEF vars
  <1> QED
    BY <1>1, <1>2, <1>3, <1>4, <1>5, <1>6, <1>7, <1>8, <1>9 DEF Next

\* Read through their events, both sides of every send behave as
\* OperationReports: started once, settled once, before their caller goes on.
THEOREM SidesImplementReports == Spec => ImplementsReports
  <1>1. Init => Reports!Init
    <2> SUFFICES ASSUME Init PROVE Reports!Init
      OBVIOUS
    <2>1. report = [o \in Ops |-> "none"]
      BY ReportValues DEF Init, report
    <2>2. \A o \in Ops : Ended(o) = FALSE
      BY EndedSides DEF Init
    <2>3. released = [o \in Ops |-> FALSE]
      BY <2>2, Zenon DEF released
    <2> QED
      BY <2>1, <2>3 DEF Reports!Init, report, released, Ended
  <1> QED
    BY <1>1, EventInit, EventStep, StepReports, PTL DEF Spec, ImplementsReports, Reports!Spec

-----------------------------------------------------------------------------
(***************************************************************************)
(* The A2A call, whose handler sends the requests.                          *)
(***************************************************************************)


\* The types of the A2A hop.
CallTypes ==
  /\ tracing \subseteq {"caller", "handler"}
  /\ plain \in [Calls -> Stale]
  /\ other \in [Calls -> Stale]
  /\ called \in [Calls -> AppContexts]
  /\ relayed \in [Calls -> [span : AppSpans \cup {NoSpan}, state : AppStates \cup {NoState}]]
  /\ stage \in [Calls -> {"idle", "sent", "handling"}]
  /\ working \in [Calls -> AppContexts]
  /\ origin \in [Sends -> Calls \cup {NoCall}]
  /\ parent \in [Children -> AppSpans \cup {NoSpan}]

\* What arrived of the headers of a call with no variants is what it prepared.
Arrived ==
  \A k \in Calls : stage[k] # "idle" /\ Clean(k) /\ called[k].span # NoSpan =>
    /\ relayed[k].span = called[k].span
    /\ \/ relayed[k].state = called[k].state
       \/ called[k].state = NoState /\ relayed[k].state = plain[k].state

\* The wrapped handler works in its operation within the context it continues.
Working ==
  \A k \in Calls : stage[k] = "handling" =>
    /\ working[k] = Operation("handler", k, Continued(k))
    /\ "handler" \in tracing => parent[<<"handler", k>>] = Continued(k).span

\* A request sent for a call is sent in the context of the call's handler.
SentFor ==
  \A a \in Sends, k \in Calls : client[a] # "idle" /\ origin[a] = k =>
    /\ stage[k] = "handling"
    /\ current[a] = ClientContext(a, working[k])
    /\ ClientEnabled => parent[<<"client", a>>] = working[k].span

ChainInv == CallTypes /\ Arrived /\ Working /\ SentFor

LEMMA ContextTypes ==
  /\ NoContext \in AppContexts
  /\ \A c \in AppContexts : c.span \in AppSpans \cup {NoSpan} /\ c.state \in AppStates \cup {NoState}
  /\ \A c \in AppContexts : \A s \in AppSpans : [c EXCEPT !.span = s] \in AppContexts
  /\ \A c \in AppContexts : c.span # NoSpan =>
       c \in [span : AppSpans, state : AppStates \cup {NoState}]
  <1>1. NoContext \in AppContexts
    BY DEF AppContexts
  <1>2. ASSUME NEW c \in AppContexts
        PROVE  c = NoContext \/ c \in [span : AppSpans, state : AppStates \cup {NoState}]
    BY <1>2 DEF AppContexts
  <1>3. ASSUME NEW c \in AppContexts, NEW s \in AppSpans
        PROVE  [c EXCEPT !.span = s] \in AppContexts
    <2>1. CASE c = NoContext
      <3>1. [c EXCEPT !.span = s] = [span |-> s, state |-> NoState]
        BY <2>1 DEF NoContext
      <3> QED
        BY <3>1 DEF AppContexts
    <2>2. CASE c \in [span : AppSpans, state : AppStates \cup {NoState}]
      BY <2>2 DEF AppContexts
    <2> QED
      BY <1>2, <1>3, <2>1, <2>2
  <1> QED
    BY <1>1, <1>2, <1>3 DEF NoContext

LEMMA SpansOfCalls ==
  ASSUME NEW k \in Calls, NEW side \in {"caller", "handler"}
  PROVE  /\ <<side, k>> \in CallSpans /\ <<side, k>> \in AppSpans
         /\ <<side, k>> \in Children /\ <<side, k>> # NoSpan
  BY CallAssumption, HttpAssumption DEF CallSpans, Children

LEMMA OperationType ==
  ASSUME NEW k \in Calls, NEW side \in {"caller", "handler"}, NEW c \in AppContexts
  PROVE  Operation(side, k, c) \in AppContexts
  BY SpansOfCalls, ContextTypes DEF Operation

LEMMA ExtractedType ==
  ASSUME NEW p \in [span : AppSpans \cup {NoSpan}, state : AppStates \cup {NoState}]
  PROVE  Extracted(p) \in AppContexts
  BY DEF Extracted, AppContexts

LEMMA ChainInitially == ChainInit => ChainInv
  <1> SUFFICES ASSUME ChainInit PROVE ChainInv
    OBVIOUS
  <1>1. CallTypes
    <2>1. NoContext \in [span : AppSpans \cup {NoSpan}, state : AppStates \cup {NoState}]
      BY DEF NoContext
    <2> QED
      BY <2>1, ContextTypes, CallAssumption DEF ChainInit, CallTypes
  <1>2. Arrived /\ Working
    BY <1>1 DEF ChainInit, CallTypes, Arrived, Working
  <1>3. SentFor
    BY DEF ChainInit, Init, SentFor
  <1> QED
    BY <1>1, <1>2, <1>3 DEF ChainInv

\* What is received of a pair that has no variants is the pair.
LEMMA ReceivedAlone ==
  ASSUME NEW p, p \in [span : AppSpans \cup {NoSpan}, state : AppStates \cup {NoState}],
         NEW q \in Received(p, NoContext)
  PROVE  q.span = p.span /\ q.state = p.state
  BY DEF Received, OneOf, NoContext

LEMMA ReceivedType ==
  ASSUME NEW p, p \in [span : AppSpans \cup {NoSpan}, state : AppStates \cup {NoState}],
         NEW v \in Stale, NEW q \in Received(p, v)
  PROVE  q \in [span : AppSpans \cup {NoSpan}, state : AppStates \cup {NoState}]
  <1>1. v.span \in AppSpans \cup {NoSpan} /\ v.state \in AppStates \cup {NoState}
    BY CallAssumption
  <1>2. /\ OneOf(p.span, v.span, NoSpan) \subseteq AppSpans \cup {NoSpan}
        /\ OneOf(p.state, v.state, NoState) \subseteq AppStates \cup {NoState}
    BY <1>1 DEF OneOf
  <1> QED
    BY <1>2 DEF Received

LEMMA CallStep ==
  ASSUME ChainInv, NEW k \in Calls, NEW c \in Ambient, NEW pair \in Stale,
         NEW variant \in Stale, Call(k, c, pair, variant)
  PROVE  ChainInv'
  <1> DEFINE o == Operation("caller", k, c)
  <1> DEFINE prepared == Prepared(pair, c, o)
  <1> DEFINE Pairs == [span : AppSpans \cup {NoSpan}, state : AppStates \cup {NoState}]
  <1>1. c \in AppContexts /\ o \in AppContexts
    BY CallAssumption, OperationType
  <1>2. prepared \in Pairs
    BY <1>1, ContextTypes, CallAssumption DEF Prepared, InjectedOver
  <1>3. PICK p \in Received(prepared, variant) \cup {NoHeaders} :
          relayed' = [relayed EXCEPT ![k] = p]
    BY DEF Call
  <1>4. /\ stage[k] = "idle"
        /\ stage' = [stage EXCEPT ![k] = "sent"]
        /\ plain' = [plain EXCEPT ![k] = pair]
        /\ other' = [other EXCEPT ![k] = variant]
        /\ called' = [called EXCEPT ![k] = o]
        /\ parent' = IF "caller" \in tracing THEN [parent EXCEPT ![<<"caller", k>>] = c.span]
                     ELSE parent
        /\ UNCHANGED <<vars, tracing, working, origin>>
    BY DEF Call, Started
  <1>5. p \in Pairs
    BY <1>2, ReceivedType DEF NoHeaders, NoContext
  <1>6. p = NoHeaders \/ (variant = NoContext => p.span = prepared.span /\ p.state = prepared.state)
    BY <1>2, <1>3, ReceivedAlone
  <1>7. o.span # NoSpan =>
          /\ prepared.span = o.span
          /\ prepared.state = IF o.state = NoState THEN pair.state ELSE o.state
    BY DEF Prepared, InjectedOver
  <1> HIDE DEF o, prepared
  <1>8. CallTypes'
    <2>1. parent' \in [Children -> AppSpans \cup {NoSpan}]
      BY <1>1, <1>4, ContextTypes DEF ChainInv, CallTypes
    <2> QED
      BY <1>1, <1>3, <1>4, <1>5, <2>1 DEF ChainInv, CallTypes
  <1>9. Arrived'
    <2> SUFFICES ASSUME NEW j \in Calls, stage'[j] # "idle", Clean(j)', called'[j].span # NoSpan
                 PROVE  /\ relayed'[j].span = called'[j].span
                        /\ \/ relayed'[j].state = called'[j].state
                           \/ called'[j].state = NoState /\ relayed'[j].state = plain'[j].state
      BY DEF Arrived
    <2>1. CASE j = k
      <3>1. /\ relayed'[j] = p /\ called'[j] = o /\ plain'[j] = pair /\ other'[j] = variant
        BY <1>3, <1>4, <2>1 DEF ChainInv, CallTypes
      <3> QED
        BY <1>6, <1>7, <3>1 DEF Clean
    <2>2. CASE j # k
      <3>1. /\ relayed'[j] = relayed[j] /\ called'[j] = called[j] /\ plain'[j] = plain[j]
            /\ other'[j] = other[j] /\ stage'[j] = stage[j]
        BY <1>3, <1>4, <2>2 DEF ChainInv, CallTypes
      <3> QED
        BY <3>1 DEF ChainInv, Arrived, Clean
    <2> QED
      BY <2>1, <2>2
  <1>10. \A s \in Children : s # <<"caller", k>> => parent'[s] = parent[s]
    BY <1>4 DEF ChainInv, CallTypes
  <1>11. \A j \in Calls : stage'[j] = "handling" =>
           j # k /\ stage[j] = "handling" /\ relayed'[j] = relayed[j]
    BY <1>3, <1>4 DEF ChainInv, CallTypes
  <1>12. Working'
    <2> SUFFICES ASSUME NEW j \in Calls, stage'[j] = "handling"
                 PROVE  /\ working'[j] = Operation("handler", j, Extracted(relayed[j]))'
                        /\ "handler" \in tracing' =>
                             parent'[<<"handler", j>>] = Extracted(relayed'[j]).span
      BY DEF Working, Continued
    <2>1. <<"handler", j>> \in Children /\ <<"handler", j>> # <<"caller", k>>
      BY SpansOfCalls
    <2> QED
      BY <1>4, <1>10, <1>11, <2>1 DEF ChainInv, Working, Continued, Operation
  <1>13. SentFor'
    <2> SUFFICES ASSUME NEW a \in Sends, NEW j \in Calls, client[a] # "idle", origin[a] = j
                 PROVE  /\ stage'[j] = "handling"
                        /\ current[a] = ClientContext(a, working[j])
                        /\ ClientEnabled => parent'[<<"client", a>>] = working[j].span
      BY <1>4 DEF SentFor, vars, ClientContext
    <2>1. <<"client", a>> \in Children /\ <<"client", a>> # <<"caller", k>>
      BY DEF Children
    <2>2. stage[j] = "handling" /\ j # k
      BY <1>4 DEF ChainInv, SentFor
    <2> QED
      BY <1>4, <1>10, <2>1, <2>2 DEF ChainInv, SentFor, CallTypes
  <1> QED
    BY <1>8, <1>9, <1>12, <1>13 DEF ChainInv

LEMMA HandleCallStep ==
  ASSUME ChainInv, NEW k \in Calls, HandleCall(k)
  PROVE  ChainInv'
  <1> DEFINE c == Extracted(relayed[k])
  <1>1. c \in AppContexts /\ Operation("handler", k, c) \in AppContexts
    BY ExtractedType, OperationType DEF ChainInv, CallTypes
  <1>2. /\ stage[k] = "sent"
        /\ stage' = [stage EXCEPT ![k] = "handling"]
        /\ working' = [working EXCEPT ![k] = Operation("handler", k, c)]
        /\ parent' = IF "handler" \in tracing THEN [parent EXCEPT ![<<"handler", k>>] = c.span]
                     ELSE parent
        /\ UNCHANGED <<vars, tracing, plain, other, called, relayed, origin>>
    BY DEF HandleCall, Started
  <1> HIDE DEF c
  <1>3. CallTypes'
    <2>1. parent' \in [Children -> AppSpans \cup {NoSpan}]
      BY <1>1, <1>2, ContextTypes DEF ChainInv, CallTypes
    <2> QED
      BY <1>1, <1>2, <2>1 DEF ChainInv, CallTypes
  <1>4. Arrived'
    BY <1>2 DEF ChainInv, CallTypes, Arrived, Clean
  <1>5. \A s \in Children : s # <<"handler", k>> => parent'[s] = parent[s]
    BY <1>2 DEF ChainInv, CallTypes
  <1>6. Working'
    <2> SUFFICES ASSUME NEW j \in Calls, stage'[j] = "handling"
                 PROVE  /\ working'[j] = Operation("handler", j, Extracted(relayed[j]))
                        /\ "handler" \in tracing =>
                             parent'[<<"handler", j>>] = Extracted(relayed[j]).span
      BY <1>2 DEF Working, Continued, Operation
    <2>0. <<"handler", j>> \in Children
      BY SpansOfCalls
    <2>1. CASE j = k
      BY <1>2, <2>0, <2>1 DEF ChainInv, CallTypes, c
    <2>2. CASE j # k
      BY <1>2, <1>5, <2>0, <2>2 DEF ChainInv, CallTypes, Working, Continued
    <2> QED
      BY <2>1, <2>2
  <1>7. SentFor'
    <2> SUFFICES ASSUME NEW a \in Sends, NEW j \in Calls, client[a] # "idle", origin[a] = j
                 PROVE  /\ stage'[j] = "handling"
                        /\ current[a] = ClientContext(a, working'[j])
                        /\ ClientEnabled => parent'[<<"client", a>>] = working'[j].span
      BY <1>2 DEF SentFor, vars, ClientContext
    <2>1. <<"client", a>> \in Children /\ <<"client", a>> # <<"handler", k>>
      BY DEF Children
    <2>2. stage[j] = "handling" /\ j # k
      BY <1>2 DEF ChainInv, SentFor
    <2> QED
      BY <1>2, <1>5, <2>1, <2>2 DEF ChainInv, SentFor, CallTypes
  <1> QED
    BY <1>3, <1>4, <1>6, <1>7 DEF ChainInv

\* A send for a call happens in its handler's context, one for none in any.
LEMMA SendStep ==
  ASSUME TraceInv, ChainInv, NEW r \in Requests, NEW c \in AppContexts,
         NEW k \in Calls \cup {NoCall},
         k \in Calls => stage[k] = "handling" /\ c = working[k],
         TracedSend(r, c, k)
  PROVE  ChainInv'
  <1> DEFINE a == <<r, sends[r] + 1>>
  <1>1. a \in Sends
    BY HttpAssumption DEF TracedSend, Send, TraceInv, TraceTypes, Sends
  <1>2. /\ origin' = [origin EXCEPT ![a] = k]
        /\ parent' = IF ClientEnabled THEN [parent EXCEPT ![<<"client", a>>] = c.span] ELSE parent
        /\ current' = [current EXCEPT ![a] = ClientContext(a, c)]
        /\ client' = [client EXCEPT ![a] = "waiting"]
        /\ UNCHANGED callVars
    BY DEF TracedSend, Send
  <1> HIDE DEF a
  <1>3. CallTypes'
    <2>1. parent' \in [Children -> AppSpans \cup {NoSpan}]
      BY <1>2, ContextTypes DEF ChainInv, CallTypes
    <2> QED
      BY <1>1, <1>2, <2>1 DEF ChainInv, CallTypes, callVars
  <1>4. Arrived'
    BY <1>2 DEF ChainInv, Arrived, Clean, callVars
  <1>5. \A s \in Children : s # <<"client", a>> => parent'[s] = parent[s]
    BY <1>2 DEF ChainInv, CallTypes
  <1>6. Working'
    <2> SUFFICES ASSUME NEW j \in Calls, stage[j] = "handling"
                 PROVE  /\ working[j] = Operation("handler", j, Extracted(relayed[j]))
                        /\ "handler" \in tracing =>
                             parent'[<<"handler", j>>] = Extracted(relayed[j]).span
      BY <1>2 DEF Working, Continued, Operation, callVars
    <2>1. <<"handler", j>> \in Children /\ <<"handler", j>> # <<"client", a>>
      BY SpansOfCalls
    <2> QED
      BY <1>5, <2>1 DEF ChainInv, Working, Continued
  <1>7. SentFor'
    <2> SUFFICES ASSUME NEW b \in Sends, NEW j \in Calls, client'[b] # "idle", origin'[b] = j
                 PROVE  /\ stage[j] = "handling"
                        /\ current'[b] = ClientContext(b, working[j])
                        /\ ClientEnabled => parent'[<<"client", b>>] = working[j].span
      BY <1>2 DEF SentFor, callVars, ClientContext
    <2>0. <<"client", b>> \in Children
      BY DEF Children
    <2>1. CASE b = a
      <3>1. origin'[a] = k /\ current'[a] = ClientContext(a, c)
        BY <1>1, <1>2 DEF ChainInv, CallTypes, TraceInv, TraceTypes
      <3>2. k \in Calls /\ j = k
        BY <2>1, <3>1, CallAssumption
      <3>3. ClientEnabled => parent'[<<"client", b>>] = c.span
        BY <1>2, <2>0, <2>1 DEF ChainInv, CallTypes
      <3> QED
        BY <2>1, <3>1, <3>2, <3>3
    <2>2. CASE b # a
      <3>1. origin'[b] = origin[b] /\ current'[b] = current[b] /\ client'[b] = client[b]
        BY <1>2, <2>2 DEF ChainInv, CallTypes, TraceInv, TraceTypes
      <3>2. parent'[<<"client", b>>] = parent[<<"client", b>>]
        BY <1>5, <2>0, <2>2
      <3> QED
        BY <3>1, <3>2 DEF ChainInv, SentFor
    <2> QED
      BY <2>1, <2>2
  <1> QED
    BY <1>3, <1>4, <1>6, <1>7 DEF ChainInv

\* The rest of an exchange starts no span this model follows.
LEMMA ExchangeStep ==
  ASSUME TraceInv, ChainInv, UNCHANGED <<callVars, origin, parent, current>>,
         \A a \in Sends : client'[a] # "idle" => client[a] # "idle"
  PROVE  ChainInv'
  <1>1. CallTypes' /\ Arrived'
    BY DEF ChainInv, CallTypes, Arrived, Clean, callVars
  <1>2. Working'
    BY DEF ChainInv, Working, Continued, Operation, callVars
  <1>3. SentFor'
    BY DEF ChainInv, SentFor, ClientContext, callVars
  <1> QED
    BY <1>1, <1>2, <1>3 DEF ChainInv

LEMMA ExchangeKeeps ==
  ASSUME TraceInv, Exchange
  PROVE  /\ [Next]_vars
         /\ UNCHANGED <<callVars, origin, parent, current>>
         /\ \A a \in Sends : client'[a] # "idle" => client[a] # "idle"
  <1>1. PICK a \in Sends :
          \/ Answer(a) \/ Break(a) \/ Handle(a) \/ Return(a) \/ Raise(a) \/ Gateway(a)
          \/ \E s \in Statuses : Respond(a, s)
    BY DEF Exchange
  <1>2. CASE Answer(a) \/ Break(a)
    <2>1. /\ client[a] = "waiting" /\ UNCHANGED current
          /\ \E p \in {"answered", "broken"} : client' = [client EXCEPT ![a] = p]
      BY <1>2 DEF Answer, Break
    <2> QED
      BY <1>2, <2>1 DEF Exchange, Next, TraceInv, TraceTypes
  <1>3. CASE \/ Handle(a) \/ Return(a) \/ Raise(a) \/ Gateway(a)
             \/ \E s \in Statuses : Respond(a, s)
    <2>1. UNCHANGED <<client, current>>
      BY <1>3 DEF Handle, Return, Raise, Gateway, Respond
    <2> QED
      BY <1>3, <2>1 DEF Exchange, Next
  <1> QED
    BY <1>1, <1>2, <1>3

\* Every step is one of StreamableHttp, or none of its business.
LEMMA ChainRefines == TraceInv /\ ChainInv /\ [ChainNext]_chainVars => [Next]_vars
  <1> SUFFICES ASSUME TraceInv, ChainInv, [ChainNext]_chainVars PROVE [Next]_vars
    OBVIOUS
  <1>1. ASSUME NEW r \in Requests, NEW k \in Calls, Lookup(r, k)
        PROVE  Next
    BY <1>1 DEF Lookup, TracedSend, Next, ChainInv, CallTypes
  <1>2. ASSUME NEW r \in Requests, NEW c \in Ambient, SendOther(r, c)
        PROVE  Next
    BY <1>2, CallAssumption DEF SendOther, TracedSend, Next
  <1>3. ASSUME NEW k \in Calls, HandleCall(k) \/
                 \E c \in Ambient, pair \in Stale, variant \in Stale : Call(k, c, pair, variant)
        PROVE  UNCHANGED vars
    BY <1>3 DEF HandleCall, Call
  <1>4. CASE UNCHANGED chainVars
    BY <1>4 DEF chainVars
  <1> QED
    BY <1>1, <1>2, <1>3, <1>4, ExchangeKeeps DEF ChainNext

LEMMA ChainStep == TraceInv /\ ChainInv /\ [ChainNext]_chainVars => ChainInv'
  <1> SUFFICES ASSUME TraceInv, ChainInv, [ChainNext]_chainVars PROVE ChainInv'
    OBVIOUS
  <1>1. ASSUME NEW k \in Calls, NEW c \in Ambient, NEW pair \in Stale, NEW variant \in Stale,
               Call(k, c, pair, variant)
        PROVE  ChainInv'
    BY <1>1, CallStep
  <1>2. ASSUME NEW k \in Calls, HandleCall(k)
        PROVE  ChainInv'
    BY <1>2, HandleCallStep
  <1>3. ASSUME NEW r \in Requests, NEW k \in Calls, Lookup(r, k)
        PROVE  ChainInv'
    BY <1>3, SendStep DEF Lookup, ChainInv, CallTypes
  <1>4. ASSUME NEW r \in Requests, NEW c \in Ambient, SendOther(r, c)
        PROVE  ChainInv'
    BY <1>4, SendStep, CallAssumption DEF SendOther
  <1>5. CASE Exchange
    BY <1>5, ExchangeKeeps, ExchangeStep
  <1>6. CASE UNCHANGED chainVars
    BY <1>6, ExchangeStep DEF chainVars, vars
  <1> QED
    BY <1>1, <1>2, <1>3, <1>4, <1>5, <1>6 DEF ChainNext

LEMMA ChainHolds == ChainSpec => [](TraceInv /\ ChainInv)
  <1>1. ChainInit => TraceInv /\ ChainInv
    BY TraceInit, ChainInitially DEF ChainInit
  <1>2. TraceInv /\ ChainInv /\ [ChainNext]_chainVars => TraceInv' /\ ChainInv'
    BY ChainRefines, ChainStep, TraceStep
  <1> QED
    BY <1>1, <1>2, PTL DEF ChainSpec

\* With the A2A hop before it the MCP hop is still StreamableHttp, so that all
\* of its theorems hold of the chain.
THEOREM ChainIsStreamableHttp == ChainSpec => Spec
  <1>1. ChainInit => Init
    BY DEF ChainInit
  <1> QED
    BY <1>1, ChainHolds, ChainRefines, PTL DEF ChainSpec, Spec

\* The state of both hops keeps its types.
THEOREM ChainTyped == ChainSpec => []ChainTypeOK
  <1>1. ChainInit => tracing \in Deployments
    BY DEF ChainInit
  <1>2. tracing \in Deployments /\ [ChainNext]_chainVars => (tracing \in Deployments)'
    <2> SUFFICES ASSUME tracing \in Deployments, [ChainNext]_chainVars PROVE tracing' = tracing
      OBVIOUS
    <2> QED
      BY DEF ChainNext, chainVars, callVars, Call, HandleCall, Lookup, SendOther, TracedSend, Exchange
  <1>3. TypeOK /\ ChainInv /\ tracing \in Deployments => ChainTypeOK
    BY DEF ChainTypeOK, ChainInv, CallTypes
  <1> QED
    BY <1>1, <1>2, <1>3, HttpTyped, ChainIsStreamableHttp, ChainHolds, PTL DEF ChainSpec

\* The handler of a call continues the client's operation, whatever pair was
\* left in the call's service parameters.
THEOREM CallsAreContinued == ChainSpec => []HandlerContinuesCaller
  <1>1. ChainInv => HandlerContinuesCaller
    <2> SUFFICES ASSUME ChainInv, NEW k \in Calls, stage[k] = "handling", Clean(k),
                        called[k].span # NoSpan
                 PROVE  /\ Continued(k).span = called[k].span
                        /\ \/ Continued(k).state = called[k].state
                           \/ called[k].state = NoState /\ Continued(k).state = plain[k].state
      BY DEF HandlerContinuesCaller
    <2>1. /\ relayed[k].span = called[k].span
          /\ \/ relayed[k].state = called[k].state
             \/ called[k].state = NoState /\ relayed[k].state = plain[k].state
      BY DEF ChainInv, Arrived
    <2> QED
      BY <2>1 DEF Continued, Extracted
  <1> QED
    BY <1>1, ChainHolds, PTL

\* The spans of a tool descend from those of the A2A call it is used for.
THEOREM ToolsWorkInTheCallsTrace == ChainSpec => []ToolServesCall
  <1>1. TraceInv /\ ChainInv => ToolServesCall
    <2> SUFFICES ASSUME TraceInv, ChainInv, NEW a \in Sends, NEW k \in Calls,
                        server[a] # "idle", origin[a] = k, Clean(k), called[k].span # NoSpan
                 PROVE  called[k].span \in Lineage(heard[a].span)
      BY DEF ToolServesCall
    <2>1. client[a] # "idle" /\ heard[a] = current[a]
      BY DEF TraceInv, Reached, ServerContinuesClient
    <2>2. /\ stage[k] = "handling"
          /\ current[a] = ClientContext(a, working[k])
          /\ ClientEnabled => parent[<<"client", a>>] = working[k].span
      BY <2>1 DEF ChainInv, SentFor
    <2>3. Continued(k).span = called[k].span
      BY <2>2 DEF ChainInv, Arrived, Continued, Extracted
    <2>4. /\ working[k] = Operation("handler", k, Continued(k))
          /\ "handler" \in tracing => parent[<<"handler", k>>] = called[k].span
      BY <2>2, <2>3 DEF ChainInv, Working
    <2>5. Continued(k) \in AppContexts /\ working[k] \in AppContexts
      BY ExtractedType DEF ChainInv, CallTypes, Continued
    <2>6. called[k].span \in {working[k].span, Up(working[k].span)}
      <3>1. CASE "handler" \in tracing
        <4>1. working[k].span = <<"handler", k>>
          BY <2>4, <2>5, <3>1 DEF Operation, AppContexts, NoContext
        <4> QED
          BY <2>4, <3>1, <4>1, SpansOfCalls DEF Up
      <3>2. CASE "handler" \notin tracing
        BY <2>3, <2>4, <3>2 DEF Operation
      <3> QED
        BY <3>1, <3>2
    <2>7. CASE ClientEnabled
      <3>1. heard[a].span = <<"client", a>>
        BY <2>1, <2>2, <2>5, <2>7 DEF ClientContext, AppContexts, NoContext
      <3>2. Up(heard[a].span) = working[k].span
        BY <2>2, <2>7, <3>1 DEF Up, Children
      <3> QED
        BY <2>6, <3>2 DEF Lineage
    <2>8. CASE ~ClientEnabled
      <3>1. heard[a].span = working[k].span
        BY <2>1, <2>2, <2>8 DEF ClientContext
      <3> QED
        BY <2>6, <3>1 DEF Lineage
    <2> QED
      BY <2>7, <2>8
  <1> QED
    BY <1>1, ChainHolds, PTL

=============================================================================
