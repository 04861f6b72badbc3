----------------------- MODULE TracedOperations_proofs -----------------------
(***************************************************************************)
(* Theorems about TracedOperations, for all sets of operations and tasks.   *)
(***************************************************************************)
EXTENDS TracedOperations, SequenceTheorems, TLAPS

-----------------------------------------------------------------------------
(***************************************************************************)
(* Type correctness.                                                        *)
(***************************************************************************)

\* Entering and leaving a body keeps calls[t] a sequence of operations.
LEMMA FrameTypes ==
  ASSUME NEW o \in Ops, NEW s \in Seq(Ops)
  PROVE  /\ <<o>> \o s \in Seq(Ops)
         /\ s # <<>> => Tail(s) \in Seq(Ops)
  <1>1. <<o>> \in Seq(Ops)
    OBVIOUS
  <1>2. <<o>> \o s \in Seq(Ops)
    BY <1>1, ConcatProperties
  <1>3. s # <<>> => Tail(s) \in Seq(Ops)
    BY HeadTailProperties
  <1> QED
    BY <1>2, <1>3

\* An emitted event keeps events[o] a sequence of events.
LEMMA EmitType ==
  ASSUME TypeOK, NEW o \in Ops, NEW span \in Contexts,
         NEW outcome \in {"STARTED", "SUCCESS", "ERROR"},
         Emit(o, outcome, span)
  PROVE  events' \in [Ops -> Seq(Event)]
  <1>1. [outcome |-> outcome, span |-> span] \in Event
    BY DEF Event
  <1>2. events[o] \in Seq(Event)
    BY DEF TypeOK
  <1>3. Append(events[o], [outcome |-> outcome, span |-> span]) \in Seq(Event)
    BY <1>1, <1>2, AppendProperties
  <1> QED
    BY <1>3 DEF TypeOK, Emit

\* Leaving the span's block is well typed.
LEMMA LeaveType ==
  ASSUME TypeOK, NEW o \in Ops, NEW t \in Tasks,
         NEW r \in Causes \cup {"close_error"}, Leave(o, t, r)
  PROVE  /\ ctx' \in [Tasks -> Contexts]
         /\ pc' \in [Ops -> {"idle", "running", "yielded", "abandoned", "closing", "done"}]
         /\ result' \in [Ops -> Causes \cup {"none", "close_error"}]
  BY DEF TypeOK, Leave, Detached

\* The end of the wrapped code is well typed.
LEMMA TerminateType ==
  ASSUME TypeOK, NEW o \in Ops, NEW t \in Tasks, NEW c \in Causes,
         NEW frames \in Seq(Ops), Terminate(o, t, c, frames)
  PROVE  TypeOK'
  <1>1. events' \in [Ops -> Seq(Event)]
    <2>1. ctx[t] \in Contexts /\ TerminalOutcome(c) \in {"STARTED", "SUCCESS", "ERROR"}
      BY DEF TypeOK, TerminalOutcome
    <2> QED
      BY <2>1, EmitType DEF Terminate, Report
  <1>2. status' \in [Ops -> {"UNSET", "ERROR"}] /\ cause' \in [Ops -> Causes \cup {"none"}]
    BY DEF TypeOK, Terminate, Report
  <1>3. calls' \in [Tasks -> Seq(Ops)]
    <2>1. <<o>> \o frames \in Seq(Ops)
      BY FrameTypes
    <2> QED
      BY <2>1 DEF TypeOK, Terminate
  <1>4. /\ ctx' \in [Tasks -> Contexts]
        /\ pc' \in [Ops -> {"idle", "running", "yielded", "abandoned", "closing", "done"}]
        /\ result' \in [Ops -> Causes \cup {"none", "close_error"}]
    <2>1. CASE MustClose(o, c)
      BY <2>1 DEF TypeOK, Terminate
    <2>2. CASE ~MustClose(o, c)
      BY <2>2, LeaveType DEF Terminate
    <2> QED
      BY <2>1, <2>2
  <1> QED
    BY <1>1, <1>2, <1>3, <1>4 DEF TypeOK, Terminate

\* Every step is well typed.
LEMMA TypeStep == TypeOK /\ [Next]_vars => TypeOK'
  <1> SUFFICES ASSUME TypeOK, [Next]_vars
               PROVE  TypeOK'
    OBVIOUS
  <1>enter. ASSUME NEW o \in Ops, NEW t \in Tasks, NEW carrier \in Remotes \cup {NoSpan},
                   Enter(o, t, carrier)
            PROVE  /\ owner' \in [Ops -> Tasks \cup {NoTask}]
                   /\ old' \in [Ops -> Contexts]
                   /\ parent' \in [Ops -> Contexts]
                   /\ events' \in [Ops -> Seq(Event)]
                   /\ base' \in [Tasks -> Contexts]
                   /\ status' \in [Ops -> {"UNSET", "ERROR"}]
    <2>1. o \in Contexts /\ carrier \in Contexts /\ ctx[t] \in Contexts
      BY DEF Contexts, TypeOK
    <2>2. events' \in [Ops -> Seq(Event)]
      BY <2>1, <1>enter, EmitType DEF Enter
    <2> QED
      BY <2>1, <2>2, <1>enter DEF Enter, TypeOK
  <1>1. ASSUME NEW o \in Ops, NEW t \in Tasks, NEW carrier \in Remotes \cup {NoSpan},
               Begin(o, t, carrier)
        PROVE  TypeOK'
    <2>1. o \in Contexts /\ <<o>> \o calls[t] \in Seq(Ops)
      BY FrameTypes DEF Contexts, TypeOK
    <2> QED
      BY <2>1, <1>1, <1>enter DEF Begin, TypeOK
  <1>2. ASSUME NEW o \in Ops, NEW t \in Tasks, NEW carrier \in Remotes \cup {NoSpan},
               InvokeRaises(o, t, carrier)
        PROVE  TypeOK'
    BY <1>2, <1>enter DEF InvokeRaises, TypeOK, Causes
  <1>3. ASSUME NEW o \in Ops, NEW t \in Tasks, NEW c \in {"finished", "error"}, End(o, t, c)
        PROVE  TypeOK'
    <2>1. c \in Causes /\ Tail(calls[t]) \in Seq(Ops)
      BY <1>3, FrameTypes DEF End, Innermost, Causes, TypeOK
    <2> QED
      BY <2>1, <1>3, TerminateType DEF End
  <1>4. ASSUME NEW o \in Ops, NEW t \in Tasks, Yield(o, t)
        PROVE  TypeOK'
    <2>1. Tail(calls[t]) \in Seq(Ops)
      BY <1>4, FrameTypes DEF Yield, Innermost, TypeOK
    <2> QED
      BY <2>1, <1>4 DEF Yield, TypeOK
  <1>5. ASSUME NEW o \in Ops, NEW t \in Tasks, Resume(o, t)
        PROVE  TypeOK'
    <2>1. <<o>> \o calls[t] \in Seq(Ops)
      BY FrameTypes DEF TypeOK
    <2> QED
      BY <2>1, <1>5 DEF Resume, TypeOK
  <1>6. ASSUME NEW o \in Ops, NEW t \in Tasks, AClose(o, t)
        PROVE  TypeOK'
    <2>1. "exit" \in Causes /\ calls[t] \in Seq(Ops)
      BY DEF Causes, TypeOK
    <2> QED
      BY <2>1, <1>6, TerminateType DEF AClose
  <1>7. ASSUME NEW o \in Ops, Abandon(o)
        PROVE  TypeOK'
    BY <1>7 DEF Abandon, TypeOK
  <1>8. ASSUME NEW o \in Ops, NEW t \in Tasks, Finalize(o, t)
        PROVE  TypeOK'
    <2>1. "exit" \in Causes /\ <<>> \in Seq(Ops)
      BY DEF Causes
    <2> QED
      BY <2>1, <1>8, TerminateType DEF Finalize
  <1>9. ASSUME NEW o \in Ops, NEW t \in Tasks, NEW r \in Causes \cup {"close_error"},
               Closed(o, t, r)
        PROVE  TypeOK'
    <2>1. Tail(calls[t]) \in Seq(Ops)
      BY <1>9, FrameTypes DEF Closed, Innermost, TypeOK
    <2> QED
      BY <2>1, <1>9, LeaveType DEF Closed, TypeOK
  <1>10. ASSUME NEW t \in Tasks, NEW u \in Tasks, Spawn(t, u)
         PROVE  TypeOK'
    BY <1>10 DEF Spawn, TypeOK
  <1>11. CASE UNCHANGED vars
    BY <1>11 DEF vars, TypeOK
  <1> QED
    BY <1>1, <1>2, <1>3, <1>4, <1>5, <1>6, <1>7, <1>8, <1>9, <1>10, <1>11 DEF Next, Step

\* The state of every program has the types its variables are declared with.
THEOREM TypeCorrect == Spec => []TypeOK
  <1>1. Init => TypeOK
    BY DEF Init, TypeOK, Contexts
  <1> QED
    BY <1>1, TypeStep, PTL DEF Spec

-----------------------------------------------------------------------------
(***************************************************************************)
(* One terminal event.                                                      *)
(***************************************************************************)

\* The body of an operation has reported exactly when it is past its try.
Phases ==
  \A o \in Ops :
    Reported(o) <=> pc[o] \in {"closing", "done"}

ReportInv == TypeOK /\ Phases /\ OneTerminal

\* Appending to a sequence of one element.
LEMMA AppendToOne ==
  ASSUME NEW S, NEW s \in Seq(S), NEW e \in S, Len(s) = 1
  PROVE  Len(Append(s, e)) = 2 /\ Append(s, e)[1] = s[1] /\ Append(s, e)[2] = e
  <1>1. Len(Append(s, e)) = 2
    OBVIOUS
  <1>2. Append(s, e)[1] = s[1]
    OBVIOUS
  <1>3. Append(s, e)[2] = e
    <2>1. Append(s, e)[Len(s) + 1] = e
      BY AppendProperties
    <2> QED
      BY <2>1
  <1> QED
    BY <1>1, <1>2, <1>3

\* What ending the wrapped code does to the events of the operations.
LEMMA TerminateEvents ==
  ASSUME ReportInv, NEW o \in Ops, NEW t \in Tasks, NEW c \in Causes,
         NEW frames, Terminate(o, t, c, frames),
         pc[o] \in {"running", "yielded", "abandoned"}
  PROVE  /\ Len(events[o]) = 1 /\ events[o][1].outcome = "STARTED"
         /\ \A p \in Ops : p # o => events'[p] = events[p]
         /\ Len(events'[o]) = 2
         /\ events'[o][1].outcome = "STARTED"
         /\ events'[o][2].outcome = TerminalOutcome(c)
  <1> DEFINE e == [outcome |-> TerminalOutcome(c), span |-> ctx[t]]
  <1>1. Len(events[o]) = 1 /\ events[o][1].outcome = "STARTED"
    <2>1. ~Reported(o) /\ Started(o)
      BY DEF ReportInv, Phases, Started
    <2> QED
      BY <2>1 DEF ReportInv, OneTerminal
  <1>2. /\ events \in [Ops -> Seq(Event)]
        /\ e \in Event
        /\ e.outcome = TerminalOutcome(c)
    BY DEF ReportInv, TypeOK, Event, TerminalOutcome
  <1>3. events' = [events EXCEPT ![o] = Append(events[o], e)]
    BY DEF Terminate, Report, Emit
  <1> HIDE DEF e
  <1>4. Len(Append(events[o], e)) = 2 /\ Append(events[o], e)[1] = events[o][1]
        /\ Append(events[o], e)[2] = e
    BY <1>1, <1>2, AppendToOne
  <1> QED
    BY <1>1, <1>2, <1>3, <1>4

\* Ending the wrapped code of an operation that has not reported.
LEMMA TerminateReports ==
  ASSUME ReportInv, NEW o \in Ops, NEW t \in Tasks, NEW c \in Causes,
         NEW frames, Terminate(o, t, c, frames),
         pc[o] \in {"running", "yielded", "abandoned"}
  PROVE  Phases' /\ OneTerminal'
  <1>1. /\ pc'[o] \in {"closing", "done"} /\ cause'[o] = c /\ c # "none"
        /\ \A p \in Ops \ {o} : pc'[p] = pc[p] /\ cause'[p] = cause[p]
    BY DEF Terminate, Leave, ReportInv, TypeOK, Causes
  <1>2. Phases'
    BY <1>1 DEF ReportInv, Phases, Reported
  <1>3. OneTerminal'
    <2> SUFFICES ASSUME NEW p \in Ops
                 PROVE  /\ Len(events'[p]) = (IF ~Started(p)' THEN 0 ELSE IF ~Reported(p)' THEN 1 ELSE 2)
                        /\ Started(p)' => events'[p][1].outcome = "STARTED"
                        /\ Reported(p)' => events'[p][2].outcome # "STARTED"
      BY DEF OneTerminal
    <2>1. CASE p = o
      BY <2>1, <1>1, TerminateEvents DEF Reported, Started, TerminalOutcome
    <2>2. CASE p # o
      BY <2>2, <1>1, TerminateEvents DEF ReportInv, OneTerminal, Reported, Started
    <2> QED
      BY <2>1, <2>2
  <1> QED
    BY <1>2, <1>3

\* What beginning an operation does to the events of the operations.
LEMMA BeginEvents ==
  ASSUME ReportInv, NEW o \in Ops, NEW t \in Tasks, NEW carrier \in Remotes \cup {NoSpan},
         Begin(o, t, carrier)
  PROVE  /\ Len(events[o]) = 0
         /\ \A p \in Ops : p # o => events'[p] = events[p]
         /\ Len(events'[o]) = 1
         /\ events'[o][1].outcome = "STARTED"
  <1>1. Len(events[o]) = 0
    BY DEF Begin, Enter, ReportInv, OneTerminal, Phases, Started
  <1>2. TypeOK /\ Emit(o, "STARTED", o)
    BY DEF Begin, Enter, ReportInv
  <1> QED
    BY <1>1, <1>2 DEF TypeOK, Emit

\* Steps of an operation's body that emit nothing.
LEMMA SilentReports ==
  ASSUME ReportInv, UNCHANGED <<events, cause>>,
         \A p \in Ops : /\ pc'[p] \in {"closing", "done"} <=> pc[p] \in {"closing", "done"}
                        /\ pc'[p] = "idle" <=> pc[p] = "idle"
  PROVE  Phases' /\ OneTerminal'
  BY DEF ReportInv, Phases, OneTerminal, Reported, Started

LEMMA ReportInit == Init => ReportInv
  BY DEF Init, ReportInv, TypeOK, Contexts, Phases, OneTerminal, Reported, Started

\* ReportInv is inductive when calling the wrapped streaming method cannot raise.
LEMMA ReportStep == ~InvokeMayRaise /\ ReportInv /\ [Next]_vars => ReportInv'
  <1> SUFFICES ASSUME ~InvokeMayRaise, ReportInv, [Next]_vars
               PROVE  Phases' /\ OneTerminal'
    BY TypeStep DEF ReportInv
  <1>1. ASSUME NEW o \in Ops, NEW t \in Tasks, NEW carrier \in Remotes \cup {NoSpan},
               Begin(o, t, carrier)
        PROVE  Phases' /\ OneTerminal'
    <2>1. ~Started(o) /\ ~Reported(o)
      BY <1>1 DEF Begin, Enter, ReportInv, Phases, Started
    <2>2. /\ \A p \in Ops : p # o => events'[p] = events[p]
          /\ Len(events'[o]) = 1
          /\ events'[o][1].outcome = "STARTED"
      BY <1>1, BeginEvents
    <2>3. /\ pc'[o] = "running" /\ UNCHANGED cause
          /\ \A p \in Ops \ {o} : pc'[p] = pc[p]
      BY <1>1 DEF Begin, ReportInv, TypeOK
    <2> QED
      BY <2>1, <2>2, <2>3 DEF ReportInv, Phases, OneTerminal, Reported, Started
  <1>2. ASSUME NEW o \in Ops, NEW t \in Tasks, NEW carrier \in Remotes \cup {NoSpan},
               InvokeRaises(o, t, carrier)
        PROVE  FALSE
    BY <1>2 DEF InvokeRaises
  <1>3. ASSUME NEW o \in Ops, NEW t \in Tasks, NEW c \in {"finished", "error"}, End(o, t, c)
        PROVE  Phases' /\ OneTerminal'
    BY <1>3, TerminateReports DEF End, Causes
  <1>4. ASSUME NEW o \in Ops, NEW t \in Tasks, Yield(o, t) \/ Resume(o, t)
        PROVE  Phases' /\ OneTerminal'
    BY <1>4, SilentReports DEF Yield, Resume, ReportInv, TypeOK
  <1>5. ASSUME NEW o \in Ops, NEW t \in Tasks, AClose(o, t)
        PROVE  Phases' /\ OneTerminal'
    BY <1>5, TerminateReports DEF AClose, Causes
  <1>6. ASSUME NEW o \in Ops, Abandon(o)
        PROVE  Phases' /\ OneTerminal'
    BY <1>6, SilentReports DEF Abandon, ReportInv, TypeOK
  <1>7. ASSUME NEW o \in Ops, NEW t \in Tasks, Finalize(o, t)
        PROVE  Phases' /\ OneTerminal'
    BY <1>7, TerminateReports DEF Finalize, Causes
  <1>8. ASSUME NEW o \in Ops, NEW t \in Tasks, NEW r \in Causes \cup {"close_error"},
               Closed(o, t, r)
        PROVE  Phases' /\ OneTerminal'
    BY <1>8, SilentReports DEF Closed, Leave, ReportInv, TypeOK
  <1>9. ASSUME NEW t \in Tasks, NEW u \in Tasks, Spawn(t, u)
        PROVE  Phases' /\ OneTerminal'
    BY <1>9 DEF Spawn, ReportInv, Phases, OneTerminal, Reported, Started
  <1>10. CASE UNCHANGED vars
    BY <1>10 DEF vars, ReportInv, Phases, OneTerminal, Reported, Started
  <1> QED
    BY <1>1, <1>2, <1>3, <1>4, <1>5, <1>6, <1>7, <1>8, <1>9, <1>10 DEF Next, Step

\* Every operation is reported as started, and by exactly one terminal event
\* once its wrapped code has ended: however tasks interleave, whoever closes
\* a stream, and whatever the iterator's aclose() does, as long as calling
\* the wrapped streaming method does not itself raise.
THEOREM EveryOperationReportsOnce == ~InvokeMayRaise => (Spec => []OneTerminal)
  <1> SUFFICES ASSUME ~InvokeMayRaise PROVE Spec => []OneTerminal
    OBVIOUS
  <1>1. ReportInv => OneTerminal
    BY DEF ReportInv
  <1> QED
    BY <1>1, ReportInit, ReportStep, PTL DEF Spec

-----------------------------------------------------------------------------
(***************************************************************************)
(* What the span, the events and the caller say of an operation's end.      *)
(***************************************************************************)

\* The terminal event and the status are those of the cause, and nothing but
\* a full run gives the caller a normal end.
Verdicts ==
  \A o \in Ops :
    /\ status[o] = "ERROR" <=> Reported(o) /\ cause[o] # "finished"
    /\ Reported(o) => events[o][2].outcome = TerminalOutcome(cause[o])
    /\ result[o] = "finished" => cause[o] = "finished"

OutcomeInv == ReportInv /\ Verdicts

\* With OneTerminal, the verdicts say where an ERROR event can be.
LEMMA VerdictsAgree == OutcomeInv => OutcomesAgree
  <1> SUFFICES ASSUME OutcomeInv, NEW o \in Ops
               PROVE  LET failed == \E i \in 1 .. Len(events[o]) : events[o][i].outcome = "ERROR"
                      IN  /\ status[o] = "ERROR" <=> failed
                          /\ Reported(o) /\ cause[o] # "finished" => failed
                          /\ result[o] = "finished" => ~failed
    BY DEF OutcomesAgree
  <1> DEFINE failed == \E i \in 1 .. Len(events[o]) : events[o][i].outcome = "ERROR"
  <1>1. failed <=> Reported(o) /\ cause[o] # "finished"
    <2>1. CASE ~Started(o)
      <3>1. Len(events[o]) = 0 /\ ~Reported(o)
        BY <2>1 DEF OutcomeInv, ReportInv, OneTerminal, Phases, Started
      <3> QED
        BY <3>1
    <2>2. CASE Started(o) /\ ~Reported(o)
      <3>1. Len(events[o]) = 1 /\ events[o][1].outcome = "STARTED"
        BY <2>2 DEF OutcomeInv, ReportInv, OneTerminal
      <3> QED
        BY <3>1, <2>2
    <2>3. CASE Reported(o)
      <3>1. Started(o)
        BY <2>3 DEF OutcomeInv, ReportInv, Phases, Started
      <3>2. /\ Len(events[o]) = 2 /\ events[o][1].outcome = "STARTED"
            /\ events[o][2].outcome = TerminalOutcome(cause[o])
        BY <2>3, <3>1 DEF OutcomeInv, ReportInv, OneTerminal, Verdicts
      <3> QED
        BY <2>3, <3>2 DEF TerminalOutcome
    <2> QED
      BY <2>1, <2>2, <2>3
  <1>2. /\ status[o] = "ERROR" <=> Reported(o) /\ cause[o] # "finished"
        /\ result[o] = "finished" => cause[o] = "finished"
    BY DEF OutcomeInv, Verdicts
  <1> HIDE DEF failed
  <1>3. /\ status[o] = "ERROR" <=> failed
        /\ Reported(o) /\ cause[o] # "finished" => failed
        /\ result[o] = "finished" => ~failed
    BY <1>1, <1>2
  <1> QED
    BY <1>3 DEF failed

\* Ending the wrapped code gives every verdict at once.
LEMMA TerminateVerdicts ==
  ASSUME OutcomeInv, NEW o \in Ops, NEW t \in Tasks, NEW c \in Causes,
         NEW frames, Terminate(o, t, c, frames),
         pc[o] \in {"running", "yielded", "abandoned"}
  PROVE  Verdicts'
  <1>1. /\ cause' = [cause EXCEPT ![o] = c] /\ c # "none"
        /\ status' = [status EXCEPT ![o] = IF c = "finished" THEN @ ELSE "ERROR"]
        /\ result' \in {result, [result EXCEPT ![o] = c]}
    BY DEF Terminate, Report, Leave, Causes
  <1>2. ~Reported(o) /\ status[o] # "ERROR" /\ result[o] # "finished"
    BY DEF OutcomeInv, ReportInv, Phases, Verdicts, Reported
  <1>3. /\ \A p \in Ops : p # o => events'[p] = events[p]
        /\ events'[o][2].outcome = TerminalOutcome(c)
    BY TerminateEvents DEF OutcomeInv
  <1>4. /\ cause'[o] = c
        /\ status'[o] = "ERROR" <=> c # "finished"
        /\ result'[o] = "finished" => c = "finished"
    BY <1>1, <1>2 DEF OutcomeInv, ReportInv, TypeOK
  <1>5. \A p \in Ops \ {o} : /\ cause'[p] = cause[p]
                             /\ status'[p] = status[p]
                             /\ result'[p] = result[p]
    BY <1>1 DEF OutcomeInv, ReportInv, TypeOK
  <1> SUFFICES ASSUME NEW p \in Ops
               PROVE  /\ status'[p] = "ERROR" <=> Reported(p)' /\ cause'[p] # "finished"
                      /\ Reported(p)' => events'[p][2].outcome = TerminalOutcome(cause'[p])
                      /\ result'[p] = "finished" => cause'[p] = "finished"
    BY DEF Verdicts, TerminalOutcome
  <1>6. CASE p = o
    BY <1>6, <1>1, <1>3, <1>4 DEF Reported
  <1>7. CASE p # o
    BY <1>7, <1>3, <1>5 DEF OutcomeInv, Verdicts, Reported
  <1> QED
    BY <1>6, <1>7

\* OutcomeInv is inductive when calling the wrapped streaming method cannot raise.
LEMMA OutcomeStep == ~InvokeMayRaise /\ OutcomeInv /\ [Next]_vars => OutcomeInv'
  <1> SUFFICES ASSUME ~InvokeMayRaise, OutcomeInv, [Next]_vars
               PROVE  Verdicts'
    BY ReportStep DEF OutcomeInv
  <1>1. ASSUME NEW o \in Ops, NEW t \in Tasks, NEW carrier \in Remotes \cup {NoSpan},
               Begin(o, t, carrier)
        PROVE  Verdicts'
    <2>1. /\ \A p \in Ops : p # o => events'[p] = events[p]
          /\ UNCHANGED <<status, cause, result>>
      BY <1>1, BeginEvents DEF Begin, Enter, OutcomeInv
    <2>2. ~Reported(o)
      BY <1>1 DEF Begin, Enter, OutcomeInv, ReportInv, Phases
    <2> QED
      BY <2>1, <2>2 DEF OutcomeInv, Verdicts, Reported, TerminalOutcome
  <1>2. ASSUME NEW o \in Ops, NEW t \in Tasks, NEW carrier \in Remotes \cup {NoSpan},
               InvokeRaises(o, t, carrier)
        PROVE  FALSE
    BY <1>2 DEF InvokeRaises
  <1>3. ASSUME NEW o \in Ops, NEW t \in Tasks, NEW c \in {"finished", "error"}, End(o, t, c)
        PROVE  Verdicts'
    BY <1>3, TerminateVerdicts DEF End, Causes
  <1>4. ASSUME NEW o \in Ops, NEW t \in Tasks, Yield(o, t) \/ Resume(o, t)
        PROVE  Verdicts'
    BY <1>4 DEF Yield, Resume, OutcomeInv, Verdicts, Reported, TerminalOutcome
  <1>5. ASSUME NEW o \in Ops, NEW t \in Tasks, AClose(o, t)
        PROVE  Verdicts'
    BY <1>5, TerminateVerdicts DEF AClose, Causes
  <1>6. ASSUME NEW o \in Ops, Abandon(o)
        PROVE  Verdicts'
    BY <1>6 DEF Abandon, OutcomeInv, Verdicts, Reported, TerminalOutcome
  <1>7. ASSUME NEW o \in Ops, NEW t \in Tasks, Finalize(o, t)
        PROVE  Verdicts'
    BY <1>7, TerminateVerdicts DEF Finalize, Causes
  <1>8. ASSUME NEW o \in Ops, NEW t \in Tasks, NEW r \in Causes \cup {"close_error"},
               Closed(o, t, r)
        PROVE  Verdicts'
    <2>1. /\ UNCHANGED <<status, events, cause>>
          /\ result' = [result EXCEPT ![o] = r]
          /\ r \in {cause[o], "close_error"}
      BY <1>8 DEF Closed, Leave
    <2>2. \A p \in Ops : result'[p] = "finished" => cause[p] = "finished"
      BY <2>1 DEF OutcomeInv, ReportInv, TypeOK, Verdicts
    <2> QED
      BY <2>1, <2>2 DEF OutcomeInv, Verdicts, Reported, TerminalOutcome
  <1>9. ASSUME NEW t \in Tasks, NEW u \in Tasks, Spawn(t, u)
        PROVE  Verdicts'
    BY <1>9 DEF Spawn, OutcomeInv, Verdicts, Reported, TerminalOutcome
  <1>10. CASE UNCHANGED vars
    BY <1>10 DEF vars, OutcomeInv, Verdicts, Reported, TerminalOutcome
  <1> QED
    BY <1>1, <1>2, <1>3, <1>4, <1>5, <1>6, <1>7, <1>8, <1>9, <1>10 DEF Next, Step

\* The span's status, the terminal event and what the caller got agree on how
\* an operation ended, whoever ended it, in whatever task, and whatever the
\* iterator's aclose() did, as long as calling the wrapped method cannot raise.
THEOREM VerdictsAreOne == ~InvokeMayRaise => (Spec => []OutcomesAgree)
  <1> SUFFICES ASSUME ~InvokeMayRaise PROVE Spec => []OutcomesAgree
    OBVIOUS
  <1>1. Init => OutcomeInv
    BY ReportInit DEF Init, OutcomeInv, Verdicts, Reported
  <1> QED
    BY <1>1, OutcomeStep, VerdictsAgree, PTL DEF Spec

\* A closable stream that is not begun has no iterator, and one that has ended
\* has none that is open.
IterInv ==
  /\ TypeOK
  /\ IteratorClosed
  /\ \A o \in Closable : pc[o] = "idle" => iter[o] # "open"

\* Ending the wrapped code of a closable stream leads into its `finally`.
LEMMA TerminateIter ==
  ASSUME IterInv, NEW o \in Ops, NEW t \in Tasks, NEW c, NEW frames,
         Terminate(o, t, c, frames)
  PROVE  \A p \in Closable : /\ iter'[p] = iter[p]
                             /\ pc'[p] = pc[p] \/ pc'[p] = "closing"
  BY OpsAssumption DEF Terminate, MustClose, Leave, IterInv, TypeOK

LEMMA IterStep == IterInv /\ [Next]_vars => IterInv'
  <1> SUFFICES ASSUME IterInv, [Next]_vars
               PROVE  \A p \in Closable : pc'[p] \in {"idle", "done"} => iter'[p] # "open"
    BY TypeStep DEF IterInv, IteratorClosed
  <1> USE OpsAssumption DEF IterInv, IteratorClosed
  <1>1. ASSUME NEW o \in Ops, NEW t \in Tasks, NEW carrier \in Remotes \cup {NoSpan},
               Begin(o, t, carrier) \/ InvokeRaises(o, t, carrier)
        PROVE  \A p \in Closable : pc'[p] \in {"idle", "done"} => iter'[p] # "open"
    BY <1>1 DEF Begin, InvokeRaises, Enter, TypeOK
  <1>2. ASSUME NEW o \in Ops, NEW t \in Tasks, NEW c, NEW frames, Terminate(o, t, c, frames)
        PROVE  \A p \in Closable : pc'[p] \in {"idle", "done"} => iter'[p] # "open"
    BY <1>2, TerminateIter
  <1>3. ASSUME NEW o \in Ops, NEW t \in Tasks, Yield(o, t) \/ Resume(o, t) \/ Abandon(o)
        PROVE  \A p \in Closable : pc'[p] \in {"idle", "done"} => iter'[p] # "open"
    BY <1>3 DEF Yield, Resume, Abandon, TypeOK
  <1>4. ASSUME NEW o \in Ops, NEW t \in Tasks, NEW r, Closed(o, t, r)
        PROVE  \A p \in Closable : pc'[p] \in {"idle", "done"} => iter'[p] # "open"
    BY <1>4 DEF Closed, Leave, TypeOK
  <1>5. ASSUME NEW t \in Tasks, NEW u \in Tasks, Spawn(t, u)
        PROVE  \A p \in Closable : pc'[p] \in {"idle", "done"} => iter'[p] # "open"
    BY <1>5 DEF Spawn
  <1>6. ASSUME NEW o \in Ops, Abandon(o)
        PROVE  \A p \in Closable : pc'[p] \in {"idle", "done"} => iter'[p] # "open"
    BY <1>6 DEF Abandon, TypeOK
  <1>7. CASE UNCHANGED vars
    BY <1>7 DEF vars
  <1> QED
    BY <1>1, <1>2, <1>3, <1>4, <1>5, <1>6, <1>7 DEF Next, Step, End, AClose, Finalize

\* No span of a stream ends before the iterator it obtained was closed, in
\* every program, also when the wrapped method may raise at the call.
THEOREM IteratorsAreClosed == Spec => []IteratorClosed
  <1>1. Init => IterInv
    BY OpsAssumption DEF Init, IterInv, TypeOK, Contexts, IteratorClosed
  <1>2. IterInv => IteratorClosed
    BY DEF IterInv
  <1> QED
    BY <1>1, <1>2, IterStep, PTL DEF Spec

-----------------------------------------------------------------------------
(***************************************************************************)
(* What AbandonedEnds rests on besides fairness.                            *)
(***************************************************************************)

\* The operations whose body some task is in.
Inside == {"running", "closing"}

\* The body of o is the i-th from within that t is in.
At(o, t, i) == i \in 1 .. Len(calls[t]) /\ calls[t][i] = o

\* A body that runs, or closes its iterator, is awaited by one task, once; and a
\* task is in no other body.
Awaited ==
  /\ \A o \in Ops : pc[o] \in Inside => \E t \in Tasks, i \in Nat : At(o, t, i)
  /\ \A o \in Ops, t \in Tasks, i \in Nat : At(o, t, i) => pc[o] \in Inside
  /\ \A o \in Ops, t, u \in Tasks, i, j \in Nat : At(o, t, i) /\ At(o, u, j) => t = u /\ i = j

\* An operation that its consumer has left, or that has ended, does not go back.
NoReturn(o) ==
  /\ pc[o] = "abandoned" => pc'[o] \in {"abandoned", "closing", "done"}
  /\ pc[o] = "closing" => pc'[o] \in {"closing", "done"}
  /\ pc[o] = "done" => pc'[o] = "done"

AwaitedInv == TypeOK /\ Awaited

\* A step which enters and leaves no body.
LEMMA AwaitedKept ==
  ASSUME AwaitedInv, UNCHANGED calls, \A o \in Ops : pc'[o] \in Inside <=> pc[o] \in Inside
  PROVE  Awaited'
  BY DEF AwaitedInv, Awaited, At

\* A task enters the body of o.
LEMMA AwaitedPushed ==
  ASSUME AwaitedInv, NEW o \in Ops, NEW t \in Tasks, NEW s \in Inside,
         pc[o] \notin Inside, pc' = [pc EXCEPT ![o] = s],
         calls' = [calls EXCEPT ![t] = <<o>> \o @]
  PROVE  Awaited'
  <1>1. calls[t] \in Seq(Ops) /\ Len(calls[t]) \in Nat
    BY DEF AwaitedInv, TypeOK
  <1>2. calls'[t] = <<o>> \o calls[t] /\ \A u \in Tasks \ {t} : calls'[u] = calls[u]
    BY DEF AwaitedInv, TypeOK
  <1>3. Len(calls'[t]) = Len(calls[t]) + 1 /\ calls'[t][1] = o
    BY <1>1, <1>2
  <1>4. \A i \in 1 .. Len(calls[t]) : calls'[t][i + 1] = calls[t][i]
    BY <1>1, <1>2
  <1>5. pc'[o] \in Inside /\ \A p \in Ops \ {o} : pc'[p] = pc[p]
    BY DEF AwaitedInv, TypeOK
  <1>6. ASSUME NEW p \in Ops, NEW u \in Tasks \ {t}, NEW i \in Nat
        PROVE  At(p, u, i)' <=> At(p, u, i)
    BY <1>2 DEF At
  <1>7. ASSUME NEW p \in Ops, NEW i \in Nat
        PROVE  At(p, t, i)' <=> (i = 1 /\ p = o) \/ (i > 1 /\ At(p, t, i - 1))
    <2>1. CASE i = 0
      BY <2>1 DEF At
    <2>2. CASE i = 1
      BY <1>1, <1>3, <2>2 DEF At
    <2>3. CASE i > 1
      <3>1. i - 1 \in Nat /\ i = (i - 1) + 1 /\ i # 1
        BY <2>3
      <3>2. i \in 1 .. Len(calls'[t]) <=> i - 1 \in 1 .. Len(calls[t])
        BY <1>1, <1>3, <2>3
      <3>3. i - 1 \in 1 .. Len(calls[t]) => calls'[t][i] = calls[t][i - 1]
        BY <1>4, <3>1
      <3> QED
        BY <2>3, <3>1, <3>2, <3>3 DEF At
    <2> QED
      BY <2>1, <2>2, <2>3
  <1>8. \A u \in Tasks, i \in Nat : ~At(o, u, i)
    BY DEF AwaitedInv, Awaited
  <1>9. ASSUME NEW p \in Ops, pc'[p] \in Inside
        PROVE  \E u \in Tasks, i \in Nat : At(p, u, i)'
    <2>1. CASE p = o
      BY <1>7, <2>1
    <2>2. CASE p # o
      <3>1. PICK u \in Tasks, i \in Nat : At(p, u, i)
        BY <1>5, <1>9, <2>2 DEF AwaitedInv, Awaited
      <3>2. CASE u = t
        <4>1. i + 1 \in Nat /\ i + 1 > 1 /\ (i + 1) - 1 = i
          BY <3>1 DEF At
        <4>2. At(p, t, i + 1)'
          BY <1>7, <3>1, <3>2, <4>1
        <4> QED
          BY <4>1, <4>2
      <3>3. CASE u # t
        BY <1>6, <3>1, <3>3
      <3> QED
        BY <3>2, <3>3
    <2> QED
      BY <2>1, <2>2
  <1>10. ASSUME NEW p \in Ops, NEW u \in Tasks, NEW i \in Nat, At(p, u, i)'
         PROVE  p # o => \E j \in Nat : At(p, u, j)
    <2>1. CASE u = t
      <3>1. p # o => i > 1 /\ At(p, t, i - 1)
        BY <1>7, <1>10, <2>1
      <3> QED
        BY <2>1, <3>1
    <2>2. CASE u # t
      BY <1>6, <1>10, <2>2
    <2> QED
      BY <2>1, <2>2
  <1>11. \A p \in Ops, u \in Tasks, i \in Nat : At(p, u, i)' => pc'[p] \in Inside
    BY <1>5, <1>10 DEF AwaitedInv, Awaited
  <1>12. ASSUME NEW p \in Ops, NEW u \in Tasks, NEW v \in Tasks, NEW i \in Nat, NEW j \in Nat,
                At(p, u, i)', At(p, v, j)'
         PROVE  u = v /\ i = j
    <2>1. CASE p = o
      BY <1>6, <1>7, <1>8, <1>12, <2>1
    <2>2. CASE p # o
      <3>1. PICK k \in Nat, l \in Nat : At(p, u, k) /\ At(p, v, l)
        BY <1>10, <1>12, <2>2
      <3>2. u = v
        BY <3>1 DEF AwaitedInv, Awaited
      <3>3. CASE u = t
        <4>1. i > 1 /\ At(p, t, i - 1) /\ j > 1 /\ At(p, t, j - 1)
          BY <1>7, <1>12, <2>2, <3>2, <3>3
        <4>2. i - 1 = j - 1
          BY <4>1 DEF AwaitedInv, Awaited
        <4> QED
          BY <3>2, <4>1, <4>2
      <3>4. CASE u # t
        BY <1>6, <1>12, <3>2, <3>4 DEF AwaitedInv, Awaited
      <3> QED
        BY <3>3, <3>4
    <2> QED
      BY <2>1, <2>2
  <1> QED
    BY <1>9, <1>11, <1>12 DEF Awaited

\* A task leaves the body of o.
LEMMA AwaitedPopped ==
  ASSUME AwaitedInv, NEW o \in Ops, NEW t \in Tasks, NEW s,
         Innermost(o, t), s \notin Inside, pc' = [pc EXCEPT ![o] = s],
         calls' = [calls EXCEPT ![t] = Tail(@)]
  PROVE  Awaited'
  <1>1. calls[t] \in Seq(Ops) /\ calls[t] # <<>> /\ calls[t][1] = o
    BY DEF AwaitedInv, TypeOK, Innermost
  <1>2. calls'[t] = Tail(calls[t]) /\ \A u \in Tasks \ {t} : calls'[u] = calls[u]
    BY DEF AwaitedInv, TypeOK
  <1>3. Len(calls[t]) \in Nat \ {0} /\ Len(calls'[t]) = Len(calls[t]) - 1
    <2>1. Len(Tail(calls[t])) = Len(calls[t]) - 1
      BY <1>1, HeadTailProperties
    <2>2. Len(calls[t]) \in Nat \ {0}
      BY <1>1, EmptySeq
    <2> QED
      BY <1>2, <2>1, <2>2
  <1>4. \A i \in 1 .. Len(calls'[t]) : calls'[t][i] = calls[t][i + 1]
    <2>1. \A i \in 1 .. Len(Tail(calls[t])) : Tail(calls[t])[i] = calls[t][i + 1]
      BY <1>1, HeadTailProperties
    <2> QED
      BY <1>2, <2>1
  <1>5. pc'[o] \notin Inside /\ \A p \in Ops \ {o} : pc'[p] = pc[p]
    BY DEF AwaitedInv, TypeOK
  <1>6. ASSUME NEW p \in Ops, NEW u \in Tasks \ {t}, NEW i \in Nat
        PROVE  At(p, u, i)' <=> At(p, u, i)
    BY <1>2 DEF At
  <1>7. ASSUME NEW p \in Ops, NEW i \in Nat
        PROVE  At(p, t, i)' <=> i >= 1 /\ At(p, t, i + 1)
    <2>1. i \in 1 .. Len(calls'[t]) <=> i >= 1 /\ i + 1 \in 1 .. Len(calls[t])
      BY <1>3
    <2> QED
      BY <1>4, <2>1 DEF At
  <1>8. At(o, t, 1)
    BY <1>1, <1>3 DEF At
  <1>9. \A u \in Tasks, i \in Nat : ~At(o, u, i)'
    <2> SUFFICES ASSUME NEW u \in Tasks, NEW i \in Nat, At(o, u, i)'
                 PROVE  FALSE
      OBVIOUS
    <2>1. CASE u = t
      <3>1. i >= 1 /\ At(o, t, i + 1)
        BY <1>7, <2>1
      <3>2. i + 1 = 1
        BY <1>8, <3>1 DEF AwaitedInv, Awaited
      <3> QED
        BY <3>1, <3>2
    <2>2. CASE u # t
      BY <1>6, <1>8, <2>2 DEF AwaitedInv, Awaited
    <2> QED
      BY <2>1, <2>2
  <1>10. ASSUME NEW p \in Ops, pc'[p] \in Inside
         PROVE  \E u \in Tasks, i \in Nat : At(p, u, i)'
    <2>1. p # o /\ pc[p] \in Inside
      BY <1>5, <1>10
    <2>2. PICK u \in Tasks, i \in Nat : At(p, u, i)
      BY <2>1 DEF AwaitedInv, Awaited
    <2>3. CASE u = t
      <3>1. i >= 1 /\ i # 1
        BY <1>1, <2>1, <2>2, <2>3 DEF At
      <3>2. i - 1 \in Nat /\ i - 1 >= 1 /\ (i - 1) + 1 = i
        BY <3>1
      <3>3. At(p, t, i - 1)'
        BY <1>7, <2>2, <2>3, <3>2
      <3> QED
        BY <3>2, <3>3
    <2>4. CASE u # t
      BY <1>6, <2>2, <2>4
    <2> QED
      BY <2>3, <2>4
  <1>11. ASSUME NEW p \in Ops, NEW u \in Tasks, NEW i \in Nat, At(p, u, i)'
         PROVE  pc'[p] \in Inside
    <2>1. p # o
      BY <1>9, <1>11
    <2>2. At(p, u, i) \/ At(p, u, i + 1)
      BY <1>6, <1>7, <1>11
    <2> QED
      BY <1>5, <2>1, <2>2 DEF AwaitedInv, Awaited
  <1>12. ASSUME NEW p \in Ops, NEW u \in Tasks, NEW v \in Tasks, NEW i \in Nat, NEW j \in Nat,
                At(p, u, i)', At(p, v, j)'
         PROVE  u = v /\ i = j
    <2>1. PICK k \in Nat, l \in Nat : At(p, u, k) /\ At(p, v, l)
      BY <1>6, <1>7, <1>12
    <2>2. u = v
      BY <2>1 DEF AwaitedInv, Awaited
    <2>3. CASE u = t
      <3>1. At(p, t, i + 1) /\ At(p, t, j + 1)
        BY <1>7, <1>12, <2>2, <2>3
      <3>2. i + 1 = j + 1
        BY <3>1 DEF AwaitedInv, Awaited
      <3> QED
        BY <2>2, <3>2
    <2>4. CASE u # t
      BY <1>6, <1>12, <2>2, <2>4 DEF AwaitedInv, Awaited
    <2> QED
      BY <2>3, <2>4
  <1> QED
    BY <1>10, <1>11, <1>12 DEF Awaited

\* A frame and those below it make up the call stack.
LEMMA FramesApart ==
  ASSUME NEW s \in Seq(Ops), s # <<>>
  PROVE  <<Head(s)>> \o Tail(s) = s
  BY HeadTailProperties, LenProperties, EmptySeq

\* The wrapped code of o ends while t is in it, or is closed by t between two
\* items: then t enters the body for it.
LEMMA TerminateAwaited ==
  ASSUME AwaitedInv, NEW o \in Ops, NEW t \in Tasks, NEW c \in Causes, NEW frames,
         Terminate(o, t, c, frames),
         (/\ Innermost(o, t) /\ pc[o] = "running" /\ frames = Tail(calls[t]))
         \/ (pc[o] \notin Inside \cup {"done"} /\ frames = calls[t])
  PROVE  Awaited' /\ pc' \in {[pc EXCEPT ![o] = s] : s \in {"closing", "done"}}
  <1>1. \/ pc' = [pc EXCEPT ![o] = "closing"] /\ calls' = [calls EXCEPT ![t] = <<o>> \o frames]
        \/ pc' = [pc EXCEPT ![o] = "done"] /\ calls' = [calls EXCEPT ![t] = frames]
    BY DEF Terminate, Leave
  <1>2. calls \in [Tasks -> Seq(Ops)] /\ pc = [p \in Ops |-> pc[p]]
    BY DEF AwaitedInv, TypeOK
  <1>3. CASE Innermost(o, t) /\ pc[o] = "running" /\ frames = Tail(calls[t])
    <2>1. CASE pc' = [pc EXCEPT ![o] = "closing"] /\ calls' = [calls EXCEPT ![t] = <<o>> \o frames]
      <3>1. <<Head(calls[t])>> \o Tail(calls[t]) = calls[t]
        BY <1>2, <1>3, FramesApart DEF Innermost
      <3>2. UNCHANGED calls
        BY <1>2, <1>3, <2>1, <3>1 DEF Innermost
      <3> QED
        BY <1>2, <1>3, <2>1, <3>2, AwaitedKept DEF Inside
    <2>2. CASE pc' = [pc EXCEPT ![o] = "done"] /\ calls' = [calls EXCEPT ![t] = frames]
      BY <1>3, <2>2, AwaitedPopped DEF Inside
    <2> QED
      BY <1>1, <2>1, <2>2
  <1>4. CASE pc[o] \notin Inside \cup {"done"} /\ frames = calls[t]
    <2>1. CASE pc' = [pc EXCEPT ![o] = "closing"] /\ calls' = [calls EXCEPT ![t] = <<o>> \o frames]
      BY <1>4, <2>1, AwaitedPushed DEF Inside
    <2>2. CASE pc' = [pc EXCEPT ![o] = "done"] /\ calls' = [calls EXCEPT ![t] = frames]
      <3>1. UNCHANGED calls
        BY <1>2, <1>4, <2>2
      <3> QED
        BY <1>2, <1>4, <2>2, <3>1, AwaitedKept DEF Inside
    <2> QED
      BY <1>1, <2>1, <2>2
  <1>5. Awaited'
    BY <1>3, <1>4
  <1> QED
    BY <1>1, <1>5

LEMMA AwaitedStep ==
  ASSUME AwaitedInv, [Next]_vars
  PROVE  Awaited' /\ \A o \in Ops : NoReturn(o)
  <1> DEFINE Kept == Awaited' /\ \A o \in Ops : NoReturn(o)
  <1>0. pc \in [Ops -> {"idle", "running", "yielded", "abandoned", "closing", "done"}]
        /\ calls \in [Tasks -> Seq(Ops)]
    BY DEF AwaitedInv, TypeOK
  <1>1. ASSUME NEW o \in Ops, NEW t \in Tasks, NEW carrier, Begin(o, t, carrier)
        PROVE  Kept
    <2>1. pc[o] = "idle" /\ pc' = [pc EXCEPT ![o] = "running"]
          /\ calls' = [calls EXCEPT ![t] = <<o>> \o @]
      BY <1>1 DEF Begin, Enter
    <2>2. Awaited'
      BY <2>1, AwaitedPushed DEF Inside
    <2> QED
      BY <1>0, <2>1, <2>2 DEF NoReturn
  <1>2. ASSUME NEW o \in Ops, NEW t \in Tasks, NEW carrier, InvokeRaises(o, t, carrier)
        PROVE  Kept
    <2>1. pc[o] = "idle" /\ pc' = [pc EXCEPT ![o] = "done"] /\ UNCHANGED calls
      BY <1>2 DEF InvokeRaises, Enter
    <2>2. Awaited'
      BY <1>0, <2>1, AwaitedKept DEF Inside
    <2> QED
      BY <1>0, <2>1, <2>2 DEF NoReturn
  <1>3. ASSUME NEW o \in Ops, NEW t \in Tasks, NEW c \in Causes, NEW frames,
               Terminate(o, t, c, frames),
               \/ Innermost(o, t) /\ pc[o] = "running" /\ frames = Tail(calls[t])
               \/ pc[o] \in {"yielded", "abandoned"} /\ frames = calls[t]
        PROVE  Kept
    <2>1. Awaited' /\ pc' \in {[pc EXCEPT ![o] = s] : s \in {"closing", "done"}}
      BY <1>3, TerminateAwaited DEF Inside
    <2> QED
      BY <1>0, <1>3, <2>1 DEF NoReturn
  <1>4. ASSUME NEW o \in Ops, NEW t \in Tasks, Yield(o, t)
        PROVE  Kept
    <2>1. Innermost(o, t) /\ pc[o] = "running" /\ pc' = [pc EXCEPT ![o] = "yielded"]
          /\ calls' = [calls EXCEPT ![t] = Tail(@)]
      BY <1>4 DEF Yield
    <2>2. Awaited'
      BY <2>1, AwaitedPopped DEF Inside
    <2> QED
      BY <1>0, <2>1, <2>2 DEF NoReturn
  <1>5. ASSUME NEW o \in Ops, NEW t \in Tasks, Resume(o, t)
        PROVE  Kept
    <2>1. pc[o] = "yielded" /\ pc' = [pc EXCEPT ![o] = "running"]
          /\ calls' = [calls EXCEPT ![t] = <<o>> \o @]
      BY <1>5 DEF Resume
    <2>2. Awaited'
      BY <2>1, AwaitedPushed DEF Inside
    <2> QED
      BY <1>0, <2>1, <2>2 DEF NoReturn
  <1>6. ASSUME NEW o \in Ops, Abandon(o)
        PROVE  Kept
    <2>1. pc[o] = "yielded" /\ pc' = [pc EXCEPT ![o] = "abandoned"] /\ UNCHANGED calls
      BY <1>6 DEF Abandon
    <2>2. Awaited'
      BY <1>0, <2>1, AwaitedKept DEF Inside
    <2> QED
      BY <1>0, <2>1, <2>2 DEF NoReturn
  <1>7. ASSUME NEW o \in Ops, NEW t \in Tasks, NEW r, Closed(o, t, r)
        PROVE  Kept
    <2>1. Innermost(o, t) /\ pc[o] = "closing" /\ pc' = [pc EXCEPT ![o] = "done"]
          /\ calls' = [calls EXCEPT ![t] = Tail(@)]
      BY <1>7 DEF Closed, Leave
    <2>2. Awaited'
      BY <2>1, AwaitedPopped DEF Inside
    <2> QED
      BY <1>0, <2>1, <2>2 DEF NoReturn
  <1>8. CASE UNCHANGED <<calls, pc>>
    BY <1>8, AwaitedKept DEF NoReturn
  <1>9. ASSUME NEW o \in Ops, NEW t \in Tasks, Step(o, t)
        PROVE  Kept
    <2>1. ASSUME NEW c \in {"finished", "error"}, End(o, t, c)
          PROVE  Kept
      BY <1>3, <2>1 DEF End, Causes
    <2>2. CASE AClose(o, t)
      BY <1>3, <2>2 DEF AClose, Causes
    <2>3. CASE Finalize(o, t)
      BY <1>3, <2>3 DEF Finalize, Fresh, Causes
    <2> QED
      BY <1>1, <1>2, <1>4, <1>5, <1>7, <1>9, <2>1, <2>2, <2>3 DEF Step
  <1> QED
    BY <1>6, <1>8, <1>9 DEF Next, Spawn, vars

\* The body of an operation that runs or closes its iterator is awaited
\* by one task, once, and what a consumer has left goes only towards its end
\* (_run_traced and _stream_traced in adapters/a2a.py).  So there is always a step
\* that ends an abandoned stream once it was taken up, and fairness takes it.
THEOREM BodiesAreAwaited == Spec => []Awaited /\ [][\A o \in Ops : NoReturn(o)]_vars
  <1>1. Init => Awaited
    BY EmptySeq DEF Init, Awaited, At, Inside
  <1>2. TypeOK /\ Awaited /\ [Next]_vars => Awaited'
    BY AwaitedStep DEF AwaitedInv
  <1>3. TypeOK /\ Awaited /\ [Next]_vars => [\A o \in Ops : NoReturn(o)]_vars
    BY AwaitedStep DEF AwaitedInv
  <1> QED
    BY <1>1, <1>2, <1>3, TypeCorrect, PTL DEF Spec

-----------------------------------------------------------------------------
(***************************************************************************)
(* The operations implement OperationReports.                               *)
(***************************************************************************)

report == [o \in Ops |-> ReportOf(events[o])]

released == [o \in Ops |-> pc[o] = "done"]

\* A step that keeps what the events amount to and who is released.
LEMMA ReportsKept ==
  ASSUME UNCHANGED events, \A p \in Ops : pc'[p] = "done" <=> pc[p] = "done"
  PROVE  UNCHANGED Reports!vars
  BY DEF Reports!vars

\* The end of the wrapped code settles the report.
LEMMA TerminateSettles ==
  ASSUME ReportInv, NEW o \in Ops, NEW t \in Tasks, NEW c \in Causes,
         NEW frames, Terminate(o, t, c, frames),
         pc[o] \in {"running", "yielded", "abandoned"}
  PROVE  Reports!Next
  <1> DEFINE r == IF c = "finished" THEN "completed" ELSE "failed"
  <1>1. report[o] = "started"
    BY TerminateEvents DEF report, ReportOf
  <1>2. report' = [report EXCEPT ![o] = r]
    <2>1. ReportOf(events'[o]) = r
      BY TerminateEvents DEF ReportOf, TerminalOutcome
    <2>2. \A p \in Ops : p # o => events'[p] = events[p]
      BY TerminateEvents
    <2> QED
      BY <2>1, <2>2 DEF report
  <1>3. released' \in {released, [released EXCEPT ![o] = TRUE]}
    <2>1. CASE pc' = [pc EXCEPT ![o] = "closing"]
      BY <2>1 DEF released, ReportInv, TypeOK
    <2>2. CASE pc' = [pc EXCEPT ![o] = "done"]
      BY <2>2 DEF released, ReportInv, TypeOK
    <2> QED
      BY <2>1, <2>2 DEF Terminate, Leave
  <1>4. Reports!Settle(o, r)
    BY <1>1, <1>2, <1>3 DEF Reports!Settle, report, released
  <1> QED
    BY <1>4 DEF Reports!Next

\* Every step is one of OperationReports or leaves its variables alone.
LEMMA StepReports ==
  ~InvokeMayRaise /\ ReportInv /\ [Next]_vars => [Reports!Next]_(Reports!vars)
  <1> SUFFICES ASSUME ~InvokeMayRaise, ReportInv, [Next]_vars
               PROVE  Reports!Next \/ UNCHANGED Reports!vars
    OBVIOUS
  <1>1. ASSUME NEW o \in Ops, NEW t \in Tasks, NEW carrier \in Remotes \cup {NoSpan},
               Begin(o, t, carrier)
        PROVE  Reports!Next
    <2>1. report[o] = "none"
      BY <1>1, BeginEvents DEF report, ReportOf
    <2>2. report' = [report EXCEPT ![o] = "started"]
      <3>1. ReportOf(events'[o]) = "started"
        BY <1>1, BeginEvents DEF ReportOf
      <3>2. \A p \in Ops : p # o => events'[p] = events[p]
        BY <1>1, BeginEvents
      <3> QED
        BY <3>1, <3>2 DEF report
    <2>3. UNCHANGED released
      BY <1>1 DEF Begin, Enter, released, ReportInv, TypeOK
    <2>4. Reports!Start(o)
      BY <2>1, <2>2, <2>3 DEF Reports!Start, report, released
    <2> QED
      BY <2>4 DEF Reports!Next
  <1>2. ASSUME NEW o \in Ops, NEW t \in Tasks, NEW carrier \in Remotes \cup {NoSpan},
               InvokeRaises(o, t, carrier)
        PROVE  FALSE
    BY <1>2 DEF InvokeRaises
  <1>3. ASSUME NEW o \in Ops, NEW t \in Tasks, NEW c \in {"finished", "error"}, End(o, t, c)
        PROVE  Reports!Next
    BY <1>3, TerminateSettles DEF End, Causes
  <1>4. ASSUME NEW o \in Ops, NEW t \in Tasks, Yield(o, t) \/ Resume(o, t)
        PROVE  UNCHANGED Reports!vars
    BY <1>4, ReportsKept DEF Yield, Resume, ReportInv, TypeOK
  <1>5. ASSUME NEW o \in Ops, NEW t \in Tasks, AClose(o, t)
        PROVE  Reports!Next
    BY <1>5, TerminateSettles DEF AClose, Causes
  <1>6. ASSUME NEW o \in Ops, Abandon(o)
        PROVE  UNCHANGED Reports!vars
    BY <1>6, ReportsKept DEF Abandon, ReportInv, TypeOK
  <1>7. ASSUME NEW o \in Ops, NEW t \in Tasks, Finalize(o, t)
        PROVE  Reports!Next
    BY <1>7, TerminateSettles DEF Finalize, Causes
  <1>8. ASSUME NEW o \in Ops, NEW t \in Tasks, NEW r \in Causes \cup {"close_error"},
               Closed(o, t, r)
        PROVE  Reports!Next
    <2>1. report[o] \in {"completed", "failed"}
      <3>1. Reported(o) /\ Started(o)
        BY <1>8 DEF Closed, ReportInv, Phases, Started
      <3>2. /\ Len(events[o]) = 2
            /\ events[o][1].outcome = "STARTED"
            /\ events[o][2].outcome # "STARTED"
        BY <3>1 DEF ReportInv, OneTerminal
      <3>3. events[o][2] \in Event
        <4>1. events[o] \in Seq(Event)
          BY DEF ReportInv, TypeOK
        <4> QED
          BY <3>2, <4>1
      <3>4. events[o][2].outcome \in {"SUCCESS", "ERROR"}
        BY <3>2, <3>3 DEF Event
      <3> QED
        BY <3>2, <3>4 DEF report, ReportOf
    <2>2. ~released[o] /\ released' = [released EXCEPT ![o] = TRUE]
      BY <1>8 DEF Closed, Leave, released, ReportInv, TypeOK
    <2>3. UNCHANGED report
      BY <1>8 DEF Closed, report
    <2>4. Reports!Release(o)
      BY <2>1, <2>2, <2>3 DEF Reports!Release, report, released
    <2> QED
      BY <2>4 DEF Reports!Next
  <1>9. ASSUME NEW t \in Tasks, NEW u \in Tasks, Spawn(t, u)
        PROVE  UNCHANGED Reports!vars
    BY <1>9, ReportsKept DEF Spawn
  <1>10. CASE UNCHANGED vars
    BY <1>10, ReportsKept DEF vars
  <1> QED
    BY <1>1, <1>2, <1>3, <1>4, <1>5, <1>6, <1>7, <1>8, <1>9, <1>10 DEF Next, Step

\* Read through their events, the operations behave as OperationReports: each
\* started once, settled once, and settled before its caller goes on.
THEOREM OperationsImplementReports == ~InvokeMayRaise => (Spec => ImplementsReports)
  <1> SUFFICES ASSUME ~InvokeMayRaise PROVE Spec => ImplementsReports
    OBVIOUS
  <1>1. Init => Reports!Init
    <2> SUFFICES ASSUME Init PROVE Reports!Init
      OBVIOUS
    <2>1. report = [o \in Ops |-> "none"]
      <3>1. \A o \in Ops : events[o] = <<>>
        BY DEF Init
      <3>2. ReportOf(<<>>) = "none"
        BY DEF ReportOf
      <3> QED
        BY <3>1, <3>2 DEF report
    <2>2. released = [o \in Ops |-> FALSE]
      <3>1. \A o \in Ops : (pc[o] = "done") = FALSE
        BY DEF Init
      <3> QED
        BY <3>1, Zenon DEF released
    <2> QED
      BY <2>1, <2>2 DEF Reports!Init, report, released
  <1> QED
    BY <1>1, ReportInit, ReportStep, StepReports, PTL DEF Spec, ImplementsReports, Reports!Spec

-----------------------------------------------------------------------------
(***************************************************************************)
(* Programs that end the operations of a task in LIFO order.                *)
(*                                                                         *)
(* The open operations of a task form a chain: each token restores the span *)
(* of another one of them or the task's first context, and each of them is  *)
(* current or is what another one's token restores.  So the one that        *)
(* nothing open was begun on is the current one.                            *)
(***************************************************************************)

OpenOps(t) == {o \in Ops : Open(o) /\ owner[o] = t}

\* What is current in a task is one of its open operations, or what was
\* current when the task was made; and that is none of its open operations.
CurrentOpen ==
  \A t \in Tasks :
    /\ ctx[t] \in OpenOps(t) \cup {base[t]}
    /\ base[t] \in Ops => Started(base[t]) /\ base[t] \notin OpenOps(t)

\* Every token restores an open operation of its task, or its first context.
TokensOpen ==
  \A t \in Tasks : \A o \in OpenOps(t) :
    /\ old[o] \in OpenOps(t) \cup {base[t]}
    /\ old[o] # o

\* Every open operation is current in its task or below another one.
NoneLost ==
  \A t \in Tasks : \A o \in OpenOps(t) : ctx[t] = o \/ \E p \in OpenOps(t) \ {o} : old[p] = o

\* A span's parent is what its token restores, unless it came in a carrier.
ParentsBelow ==
  \A o \in Ops : Open(o) => /\ owner[o] \in Tasks
                            /\ parent[o] = old[o] \/ parent[o] \in Remotes \cup {NoSpan}

ChainInv == CurrentOpen /\ TokensOpen /\ NoneLost /\ ParentsBelow

LifoInv == TypeOK /\ ChainInv /\ Correlated

\* The operation that may end is the one whose span is current.
LEMMA SettledIsCurrent ==
  ASSUME LifoInv, NEW o \in Ops, NEW t \in Tasks, Open(o), Settled(o, t)
  PROVE  o \in OpenOps(t) /\ ctx[t] = o
  BY DEF LifoInv, ChainInv, NoneLost, Settled, OpenOps

\* Steps that leave every context, token and open operation as it was.
LEMMA ChainKept ==
  ASSUME ChainInv, UNCHANGED <<ctx, base, owner, old, parent>>,
         \A p \in Ops : /\ pc'[p] \in {"idle", "done"} <=> pc[p] \in {"idle", "done"}
                        /\ pc'[p] = "idle" <=> pc[p] = "idle"
  PROVE  ChainInv'
  <1>1. \A t : OpenOps(t)' = OpenOps(t)
    BY DEF OpenOps, Open
  <1>2. \A p \in Ops : pc[p] # "idle" => pc'[p] # "idle"
    OBVIOUS
  <1>3. CurrentOpen'
    BY <1>1, <1>2 DEF ChainInv, CurrentOpen, Started
  <1>4. TokensOpen'
    BY <1>1 DEF ChainInv, TokensOpen
  <1>5. NoneLost'
    BY <1>1 DEF ChainInv, NoneLost
  <1>6. ParentsBelow'
    BY DEF ChainInv, ParentsBelow, Open
  <1> QED
    BY <1>3, <1>4, <1>5, <1>6 DEF ChainInv

\* Leaving the operation that nothing open was begun on uncovers the one below.
LEMMA ChainLeft ==
  ASSUME LifoInv, NEW o \in Ops, NEW t \in Tasks, NEW r, Open(o), Settled(o, t),
         Leave(o, t, r), UNCHANGED <<base, owner, old, parent>>
  PROVE  ChainInv'
  <1>1. o \in OpenOps(t) /\ ctx[t] = o /\ owner[o] = t
    BY SettledIsCurrent DEF Settled
  <1>2. /\ ctx' = [ctx EXCEPT ![t] = old[o]]
        /\ pc' = [pc EXCEPT ![o] = "done"]
    BY <1>1 DEF Leave, Detached
  <1>3. /\ OpenOps(t)' = OpenOps(t) \ {o}
        /\ \A u \in Tasks : u # t => OpenOps(u)' = OpenOps(u)
    BY <1>1, <1>2 DEF OpenOps, Open, LifoInv, TypeOK
  <1>4. \A p \in OpenOps(t) \ {o} : old[p] # o
    BY DEF Settled, OpenOps
  <1>5. /\ ctx'[t] = old[o]
        /\ \A u \in Tasks : u # t => ctx'[u] = ctx[u]
    BY <1>2 DEF LifoInv, TypeOK
  <1>6. CurrentOpen'
    <2> SUFFICES ASSUME NEW u \in Tasks
                 PROVE  /\ ctx'[u] \in OpenOps(u)' \cup {base[u]}
                        /\ base[u] \in Ops => Started(base[u])' /\ base[u] \notin OpenOps(u)'
      BY DEF CurrentOpen
    <2>1. base[u] \in Ops => Started(base[u])' /\ base[u] \notin OpenOps(u)'
      BY <1>2, <1>3 DEF LifoInv, TypeOK, ChainInv, CurrentOpen, Started
    <2>2. CASE u = t
      BY <2>1, <2>2, <1>1, <1>3, <1>5 DEF LifoInv, ChainInv, TokensOpen
    <2>3. CASE u # t
      BY <2>1, <2>3, <1>3, <1>5 DEF LifoInv, ChainInv, CurrentOpen
    <2> QED
      BY <2>2, <2>3
  <1>7. TokensOpen'
    BY <1>3, <1>4 DEF LifoInv, ChainInv, TokensOpen
  <1>8. NoneLost'
    <2> SUFFICES ASSUME NEW u \in Tasks, NEW p \in OpenOps(u)'
                 PROVE  ctx'[u] = p \/ \E q \in OpenOps(u)' \ {p} : old[q] = p
      BY DEF NoneLost
    <2>1. CASE u = t
      <3>1. p \in OpenOps(t) /\ p # o
        BY <2>1, <1>3
      <3>2. PICK q \in OpenOps(t) \ {p} : old[q] = p
        BY <3>1, <1>1 DEF LifoInv, ChainInv, NoneLost
      <3>3. CASE q = o
        BY <3>2, <3>3, <2>1, <1>5
      <3>4. CASE q # o
        BY <3>2, <3>4, <2>1, <1>3
      <3> QED
        BY <3>3, <3>4
    <2>2. CASE u # t
      BY <2>2, <1>3, <1>5 DEF LifoInv, ChainInv, NoneLost
    <2> QED
      BY <2>1, <2>2
  <1>9. ParentsBelow'
    BY <1>2 DEF LifoInv, TypeOK, ChainInv, ParentsBelow, Open
  <1> QED
    BY <1>6, <1>7, <1>8, <1>9 DEF ChainInv

\* Beginning an operation puts it on top of the chain of its task.
LEMMA ChainBegun ==
  ASSUME LifoInv, NEW o \in Ops, NEW t \in Tasks, NEW carrier \in Remotes \cup {NoSpan},
         Begin(o, t, carrier)
  PROVE  ChainInv'
  <1>1. /\ pc[o] = "idle"
        /\ pc' = [pc EXCEPT ![o] = "running"]
        /\ ctx' = [ctx EXCEPT ![t] = o]
        /\ owner' = [owner EXCEPT ![o] = t]
        /\ old' = [old EXCEPT ![o] = ctx[t]]
        /\ parent' = [parent EXCEPT ![o] = IF o \in ServerOps THEN carrier ELSE ctx[t]]
        /\ UNCHANGED base
    BY DEF Begin, Enter
  <1>2. /\ OpenOps(t)' = OpenOps(t) \cup {o}
        /\ o \notin OpenOps(t)
        /\ \A u \in Tasks : u # t => OpenOps(u)' = OpenOps(u) /\ o \notin OpenOps(u)
    BY <1>1 DEF OpenOps, Open, LifoInv, TypeOK
  <1>3. /\ ctx'[t] = o /\ old'[o] = ctx[t]
        /\ \A u \in Tasks : u # t => ctx'[u] = ctx[u]
        /\ \A p \in Ops : p # o => old'[p] = old[p]
    BY <1>1 DEF LifoInv, TypeOK
  <1>4. \A u \in Tasks : base[u] # o /\ ctx[u] # o
    BY <1>1, <1>2 DEF LifoInv, ChainInv, CurrentOpen, Started
  <1>5. CurrentOpen'
    <2>1. \A p \in Ops : Started(p) => pc'[p] # "idle"
      BY <1>1 DEF Started, LifoInv, TypeOK
    <2> QED
      BY <2>1, <1>1, <1>2, <1>3, <1>4 DEF LifoInv, ChainInv, CurrentOpen, Started
  <1>6. TokensOpen'
    <2> SUFFICES ASSUME NEW u \in Tasks, NEW p \in OpenOps(u)'
                 PROVE  old'[p] \in OpenOps(u)' \cup {base[u]} /\ old'[p] # p
      BY <1>1 DEF TokensOpen
    <2>1. CASE p = o
      <3>1. u = t
        BY <2>1, <1>2
      <3> QED
        BY <2>1, <3>1, <1>2, <1>3, <1>4 DEF LifoInv, ChainInv, CurrentOpen
    <2>2. CASE p # o
      <3>1. p \in OpenOps(u) /\ p \in Ops
        BY <2>2, <1>2 DEF OpenOps
      <3> QED
        BY <2>2, <3>1, <1>2, <1>3 DEF LifoInv, ChainInv, TokensOpen
    <2> QED
      BY <2>1, <2>2
  <1>7. NoneLost'
    <2> SUFFICES ASSUME NEW u \in Tasks, NEW p \in OpenOps(u)'
                 PROVE  ctx'[u] = p \/ \E q \in OpenOps(u)' \ {p} : old'[q] = p
      BY DEF NoneLost
    <2>1. CASE p = o
      BY <2>1, <1>2, <1>3
    <2>2. CASE p # o
      <3>1. p \in OpenOps(u)
        BY <2>2, <1>2
      <3>2. CASE ctx[u] = p
        BY <2>2, <3>2, <1>2, <1>3
      <3>3. CASE \E q \in OpenOps(u) \ {p} : old[q] = p
        <4>1. PICK q \in OpenOps(u) \ {p} : old[q] = p
          BY <3>3
        <4>2. q \in Ops /\ q # o /\ q \in OpenOps(u)'
          BY <1>2 DEF OpenOps
        <4> QED
          BY <4>1, <4>2, <1>3
      <3> QED
        BY <3>1, <3>2, <3>3 DEF LifoInv, ChainInv, NoneLost
    <2> QED
      BY <2>1, <2>2
  <1>8. ParentsBelow'
    BY <1>1 DEF LifoInv, TypeOK, ChainInv, ParentsBelow, Open
  <1> QED
    BY <1>5, <1>6, <1>7, <1>8 DEF ChainInv

\* An operation that ends as it begins touches no context.
LEMMA ChainSpared ==
  ASSUME LifoInv, NEW o \in Ops, NEW t \in Tasks, NEW carrier \in Remotes \cup {NoSpan},
         InvokeRaises(o, t, carrier)
  PROVE  ChainInv'
  <1>1. /\ pc[o] = "idle"
        /\ pc' = [pc EXCEPT ![o] = "done"]
        /\ owner' = [owner EXCEPT ![o] = t]
        /\ old' = [old EXCEPT ![o] = ctx[t]]
        /\ UNCHANGED <<ctx, base>>
        /\ \A p \in Ops : p # o => parent'[p] = parent[p]
    BY DEF InvokeRaises, Enter, LifoInv, TypeOK
  <1>2. \A u \in Tasks : OpenOps(u)' = OpenOps(u) /\ o \notin OpenOps(u)
    BY <1>1 DEF OpenOps, Open, LifoInv, TypeOK
  <1>3. \A p \in Ops : p # o => old'[p] = old[p] /\ owner'[p] = owner[p] /\ pc'[p] = pc[p]
    BY <1>1 DEF LifoInv, TypeOK
  <1>4. CurrentOpen'
    <2>1. \A p \in Ops : Started(p) => pc'[p] # "idle"
      BY <1>1 DEF Started, LifoInv, TypeOK
    <2> QED
      BY <2>1, <1>1, <1>2 DEF LifoInv, ChainInv, CurrentOpen, Started
  <1>5. TokensOpen'
    <2>1. \A u \in Tasks : \A p \in OpenOps(u) : old'[p] = old[p]
      BY <1>2, <1>3 DEF OpenOps
    <2> QED
      BY <2>1, <1>1, <1>2 DEF LifoInv, ChainInv, TokensOpen
  <1>6. NoneLost'
    <2>1. \A u \in Tasks : \A p \in OpenOps(u) : old'[p] = old[p]
      BY <1>2, <1>3 DEF OpenOps
    <2> QED
      BY <2>1, <1>1, <1>2 DEF LifoInv, ChainInv, NoneLost
  <1>7. ParentsBelow'
    BY <1>1, <1>3 DEF LifoInv, TypeOK, ChainInv, ParentsBelow, Open
  <1> QED
    BY <1>4, <1>5, <1>6, <1>7 DEF ChainInv

\* A new task starts with no open operation and the current span of another.
LEMMA ChainSpawned ==
  ASSUME LifoInv, NEW t \in Tasks, NEW u \in Tasks, Spawn(t, u)
  PROVE  ChainInv'
  <1>1. /\ t # u
        /\ ctx' = [ctx EXCEPT ![t] = ctx[u]]
        /\ base' = [base EXCEPT ![t] = ctx[u]]
        /\ UNCHANGED <<pc, owner, old, parent>>
    BY DEF Spawn
  <1>2. OpenOps(t) = {}
    BY DEF Spawn, Fresh, OpenOps
  <1>3. \A v \in Tasks : OpenOps(v)' = OpenOps(v)
    BY <1>1 DEF OpenOps, Open
  <1>4. /\ ctx'[t] = ctx[u] /\ base'[t] = ctx[u]
        /\ \A v \in Tasks : v # t => ctx'[v] = ctx[v] /\ base'[v] = base[v]
    BY <1>1 DEF LifoInv, TypeOK
  <1>5. ctx[u] \in Ops => Started(ctx[u])
    BY DEF LifoInv, ChainInv, CurrentOpen, OpenOps, Open, Started
  <1>6. CurrentOpen'
    BY <1>1, <1>2, <1>3, <1>4, <1>5 DEF LifoInv, ChainInv, CurrentOpen, Started
  <1>7. TokensOpen'
    BY <1>1, <1>2, <1>3, <1>4 DEF LifoInv, ChainInv, TokensOpen
  <1>8. NoneLost'
    BY <1>1, <1>2, <1>3, <1>4 DEF LifoInv, ChainInv, NoneLost
  <1>9. ParentsBelow'
    BY <1>1 DEF LifoInv, ChainInv, ParentsBelow, Open
  <1> QED
    BY <1>6, <1>7, <1>8, <1>9 DEF ChainInv

\* An event that names its operation's own span keeps events correlated.
LEMMA EmitCorrelated ==
  ASSUME TypeOK, Correlated, NEW o \in Ops, NEW outcome \in {"STARTED", "SUCCESS", "ERROR"},
         Emit(o, outcome, o)
  PROVE  Correlated'
  <1> DEFINE e == [outcome |-> outcome, span |-> o]
  <1>1. e \in Event /\ e.span = o
    BY DEF Event, Contexts
  <1>2. events \in [Ops -> Seq(Event)] /\ events' = [events EXCEPT ![o] = Append(events[o], e)]
    BY DEF TypeOK, Emit
  <1> HIDE DEF e
  <1>3. /\ Len(Append(events[o], e)) = Len(events[o]) + 1
        /\ \A i \in 1 .. Len(events[o]) : Append(events[o], e)[i] = events[o][i]
        /\ Append(events[o], e)[Len(events[o]) + 1] = e
    BY <1>1, <1>2, AppendProperties
  <1>4. \A i \in 1 .. Len(events'[o]) : events'[o][i].span = o
    <2> SUFFICES ASSUME NEW i \in 1 .. Len(events[o]) + 1
                 PROVE  Append(events[o], e)[i].span = o
      BY <1>2, <1>3
    <2>1. Len(events[o]) \in Nat
      BY <1>2
    <2>2. i \in 1 .. Len(events[o]) \/ i = Len(events[o]) + 1
      BY <2>1
    <2> QED
      BY <2>2, <1>1, <1>3 DEF Correlated
  <1>5. \A p \in Ops : p # o => events'[p] = events[p]
    BY <1>2
  <1> QED
    BY <1>4, <1>5 DEF Correlated

\* Ending the wrapped code in LIFO order.
LEMMA TerminateLifo ==
  ASSUME Disciplined, LifoInv, NEW o \in Ops, NEW t \in Tasks, NEW c \in Causes, NEW frames,
         Open(o), Terminate(o, t, c, frames)
  PROVE  ChainInv' /\ Correlated'
  <1>1. Settled(o, t) /\ ctx[t] = o
    BY SettledIsCurrent DEF Terminate
  <1>2. Correlated'
    <2>1. Emit(o, TerminalOutcome(c), o) /\ TerminalOutcome(c) \in {"STARTED", "SUCCESS", "ERROR"}
      BY <1>1 DEF Terminate, Report, TerminalOutcome
    <2> QED
      BY <2>1, EmitCorrelated DEF LifoInv
  <1>3. CASE MustClose(o, c)
    <2>1. UNCHANGED <<ctx, base, owner, old, parent>> /\ pc' = [pc EXCEPT ![o] = "closing"]
      BY <1>3 DEF Terminate
    <2> QED
      BY <2>1, <1>2, ChainKept DEF LifoInv, TypeOK, Open
  <1>4. CASE ~MustClose(o, c)
    <2>1. Leave(o, t, c) /\ UNCHANGED <<base, owner, old, parent>>
      BY <1>4 DEF Terminate
    <2> QED
      BY <2>1, <1>1, <1>2, ChainLeft
  <1> QED
    BY <1>3, <1>4

\* LifoInv is inductive for programs that end operations in LIFO order.
LEMMA LifoStep == Disciplined /\ LifoInv /\ [Next]_vars => LifoInv'
  <1> SUFFICES ASSUME Disciplined, LifoInv, [Next]_vars
               PROVE  ChainInv' /\ Correlated'
    BY TypeStep DEF LifoInv
  <1> USE DEF Open
  <1>1. ASSUME NEW o \in Ops, NEW t \in Tasks, NEW carrier \in Remotes \cup {NoSpan},
               Begin(o, t, carrier)
        PROVE  ChainInv' /\ Correlated'
    BY <1>1, ChainBegun, EmitCorrelated DEF Begin, Enter, LifoInv
  <1>2. ASSUME NEW o \in Ops, NEW t \in Tasks, NEW carrier \in Remotes \cup {NoSpan},
               InvokeRaises(o, t, carrier)
        PROVE  ChainInv' /\ Correlated'
    BY <1>2, ChainSpared, EmitCorrelated DEF InvokeRaises, Enter, LifoInv
  <1>3. ASSUME NEW o \in Ops, NEW t \in Tasks, NEW c \in {"finished", "error"}, End(o, t, c)
        PROVE  ChainInv' /\ Correlated'
    BY <1>3, TerminateLifo DEF End, Causes
  <1>4. ASSUME NEW o \in Ops, NEW t \in Tasks, Yield(o, t) \/ Resume(o, t)
        PROVE  ChainInv' /\ Correlated'
    <2>1. ChainInv'
      BY <1>4, ChainKept DEF Yield, Resume, LifoInv, TypeOK
    <2> QED
      BY <2>1, <1>4 DEF Yield, Resume, LifoInv, Correlated
  <1>5. ASSUME NEW o \in Ops, NEW t \in Tasks, AClose(o, t)
        PROVE  ChainInv' /\ Correlated'
    BY <1>5, TerminateLifo DEF AClose, Causes
  <1>6. ASSUME NEW o \in Ops, Abandon(o)
        PROVE  FALSE
    BY <1>6 DEF Abandon
  <1>7. ASSUME NEW o \in Ops, NEW t \in Tasks, Finalize(o, t)
        PROVE  ChainInv' /\ Correlated'
    BY <1>7, TerminateLifo DEF Finalize, Causes
  <1>8. ASSUME NEW o \in Ops, NEW t \in Tasks, NEW r \in Causes \cup {"close_error"},
               Closed(o, t, r)
        PROVE  ChainInv' /\ Correlated'
    <2>1. ChainInv'
      BY <1>8, ChainLeft DEF Closed
    <2> QED
      BY <2>1, <1>8 DEF Closed, LifoInv, Correlated
  <1>9. ASSUME NEW t \in Tasks, NEW u \in Tasks, Spawn(t, u)
        PROVE  ChainInv' /\ Correlated'
    <2>1. ChainInv'
      BY <1>9, ChainSpawned
    <2> QED
      BY <2>1, <1>9 DEF Spawn, LifoInv, Correlated
  <1>10. CASE UNCHANGED vars
    <2>1. ChainInv'
      BY <1>10, ChainKept DEF vars, LifoInv
    <2> QED
      BY <2>1, <1>10 DEF vars, LifoInv, Correlated
  <1> QED
    BY <1>1, <1>2, <1>3, <1>4, <1>5, <1>6, <1>7, <1>8, <1>9, <1>10 DEF Next, Step

LEMMA LifoInit == Init => LifoInv
  BY OpsAssumption
     DEF Init, LifoInv, TypeOK, Contexts, ChainInv, CurrentOpen, TokensOpen, NoneLost,
         ParentsBelow, OpenOps, Open, Started, Correlated

\* Every event of every operation names the operation's own span, in
\* programs that end the operations of each task in LIFO order; they may
\* otherwise suspend, resume and nest streams, and spawn tasks, as they like.
THEOREM EventsNameTheirSpan == Disciplined => (Spec => []Correlated)
  <1> SUFFICES ASSUME Disciplined PROVE Spec => []Correlated
    OBVIOUS
  <1>1. LifoInv => Correlated
    BY DEF LifoInv
  <1> QED
    BY <1>1, LifoInit, LifoStep, PTL DEF Spec

\* In such programs a task whose operations have all ended is back in the
\* context it was created with.
THEOREM ContextIsRestored == Disciplined => (Spec => []ContextRestored)
  <1> SUFFICES ASSUME Disciplined PROVE Spec => []ContextRestored
    OBVIOUS
  <1>1. LifoInv => ContextRestored
    BY DEF LifoInv, ChainInv, CurrentOpen, OpenOps, ContextRestored
  <1> QED
    BY <1>1, LifoInit, LifoStep, PTL DEF Spec

\* In such programs no span outlives the span of the same task it was begun
\* under, and none is begun under one that has ended.
THEOREM SpansAreNested == Disciplined => (Spec => []SpansNest)
  <1> SUFFICES ASSUME Disciplined PROVE Spec => []SpansNest
    OBVIOUS
  <1>1. LifoInv => SpansNest
    BY OpsAssumption DEF LifoInv, ChainInv, TokensOpen, ParentsBelow, OpenOps, SpansNest
  <1> QED
    BY <1>1, LifoInit, LifoStep, PTL DEF Spec

=============================================================================
