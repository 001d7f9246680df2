-------------------------- MODULE CallTraceProofs --------------------------
(***************************************************************************)
(* Proofs about CallTrace, for every set of rails that a 402 may offer.    *)
(***************************************************************************)
EXTENDS CallTrace, TLAPS

HasVerdict == \E i \in DOMAIN events : IsVerdict(i)

(***************************************************************************)
(* None of the four invariants is inductive alone: it needs to be known    *)
(* what has been traced, and what has been answered, wherever the call has *)
(* got to.                                                                 *)
(***************************************************************************)
Unanswered == {"sending", "routing", "gating", "paying", "persisting", "retrying",
               "reporting"}

Traced ==
  /\ pc \in Unanswered => events = <<>> /\ reply = None /\ recovered = None
  /\ pc = "recovering" => events = <<>> /\ recovered = None
  /\ pc \in {"recovering", "emitting"} => reply # None /\ reply.emitted /\ ~ HasVerdict
  /\ recovered # None => recovered.emitted /\ recovered.status = "served"
  /\ pc = "returning" =>
       /\ reply # None
       /\ Answer.emitted =>
            /\ missed \/ HasVerdict
            /\ \A i \in DOMAIN events :
                 events[i].kind = "paid" =>
                   (events[i].delivered <=> Answer.status = "served")
       /\ ~ Answer.emitted => events = <<>> /\ committed = {} /\ Answer.status # "lost"

(* Where the money is, and which rails have failed. *)
Spent ==
  /\ pc = "sending" => committed = {}
  /\ pc \in {"routing", "gating", "paying", "reporting"}
       => committed \subseteq AmbiguousRails \cup PostCommitRails
  /\ pc \in {"persisting", "retrying", "recovering", "emitting"} => rail \in committed
  /\ pc \in {"gating", "paying", "persisting", "retrying", "recovering", "emitting"}
       => rail \in Rails \ failed
  /\ pc = "reporting" => rail \notin failed
  /\ prior # None => prior \in failed

TraceInv ==
  /\ Traced
  /\ Spent
  /\ OneVerdict
  /\ EventsAreTrue
  /\ ServiceReachesCaller
  /\ UntracedCallsMissedOne

(* An event that is recorded is the last one, and the others stay. *)
LEMMA RecordedIsLast ==
  ASSUME events \in Seq(Event), NEW e \in Event, Recorded(e)
  PROVE  /\ events' \in Seq(Event)
         /\ Len(events) + 1 \notin DOMAIN events
         /\ DOMAIN events' = DOMAIN events \cup {Len(events) + 1}
         /\ events'[Len(events) + 1] = e
         /\ \A i \in DOMAIN events : events'[i] = events[i]
BY DEF Recorded

(* Whoever returns has an answer, and the flow has the same one.           *)
LEMMA AnswerIsResponse ==
  TypeOK /\ Traced /\ pc \in {"emitting", "returning"}
    => Answer \in Response /\ BudgetResponse = Answer
BY DEF TypeOK, Traced, Answer, BudgetResponse

-----------------------------------------------------------------------------
(* Every step keeps the types. *)
LEMMA TypeStep == TypeOK /\ Traced /\ Spent /\ [Next]_vars => TypeOK'
<1> SUFFICES ASSUME TypeOK, Traced, Spent, [Next]_vars
             PROVE  TypeOK'
  OBVIOUS
<1> USE DEF TypeOK, Places, Over
<1>1. CASE UNCHANGED vars
  BY <1>1 DEF vars
<1>2. CASE FreeReply \/ RetryReturns
  <2>1. \A status \in Statuses, b \in BOOLEAN : [status |-> status, emitted |-> b] \in Response
    BY DEF Response
  <2>2. reply' \in Response
    BY <1>2, <2>1 DEF FreeReply, RetryReturns, Statuses
  <2>3. QED BY <1>2, <2>2 DEF FreeReply, RetryReturns
<1>12. CASE SendFails \/ Challenged
  BY <1>12 DEF SendFails, Challenged
<1>3. CASE Choose \/ RouteFails \/ Reserve
  BY <1>3, OfferAssumption DEF Choose, RouteFails, Reserve
<1>4. CASE PayReturns \/ PayFailsPostCommit \/ PayFails \/ Cut
  <2>1. pc = "paying" => rail \in Rails
    BY DEF Spent
  <2>2. committed' \subseteq Rails /\ failed' \subseteq Rails
    BY <1>4, <2>1 DEF PayReturns, PayFailsPostCommit, PayFails, Cut, Advance
  <2>3. /\ prior' \in Rails \cup {None} /\ missed' \in BOOLEAN /\ pc' \in Places
        /\ UNCHANGED <<rail, tracked, reply, recovered, events>>
    BY <1>4, <2>1 DEF PayReturns, PayFailsPostCommit, PayFails, Cut, Advance
  <2>4. QED BY <2>2, <2>3
<1>11. CASE Persist
  BY <1>11 DEF Persist
<1>5. CASE RecoverySucceeds \/ RecoveryEnds
  <2>1. [status |-> "served", emitted |-> TRUE] \in Response
    BY DEF Response, Statuses
  <2>2. QED BY <1>5, <2>1 DEF RecoverySucceeds, RecoveryEnds
<1>6. CASE RecoveryHolds
  <2> DEFINE e == [kind |-> "hold", rail |-> rail, from |-> None, delivered |-> FALSE]
  <2>1. e \in Event
    BY DEF Event
  <2>2. events' \in Seq(Event) /\ missed' \in BOOLEAN
    BY <1>6, <2>1, RecordedIsLast DEF RecoveryHolds, Emitted, Missed, Recorded
  <2>3. QED BY <1>6, <2>2 DEF RecoveryHolds
<1>7. CASE EmitPaid
  <2> DEFINE e == [kind |-> "paid", rail |-> rail, from |-> prior,
                   delivered |-> BudgetResponse.status = "served"]
  <2>1. e \in Event
    BY DEF Event
  <2>2. events' \in Seq(Event) /\ missed' \in BOOLEAN
    BY <1>7, <2>1, RecordedIsLast DEF EmitPaid, Emitted, Missed, Recorded
  <2>3. QED BY <1>7, <2>2 DEF EmitPaid
<1>8. CASE Report
  <2> DEFINE e == [kind |-> "error", rail |-> rail, from |-> prior, delivered |-> FALSE]
  <2>1. e \in Event
    BY DEF Event
  <2>2. events' \in Seq(Event) /\ missed' \in BOOLEAN
    BY <1>8, <2>1, RecordedIsLast DEF Report, Emitted, Missed, Recorded
  <2>3. QED BY <1>8, <2>2 DEF Report
<1>9. CASE Return
  <2> DEFINE e == [kind |-> "free", rail |-> None, from |-> None,
                   delivered |-> Answer.status = "served"]
  <2>1. e \in Event
    BY DEF Event
  <2>2. events' \in Seq(Event) /\ missed' \in BOOLEAN
    BY <1>9, <2>1, RecordedIsLast DEF Return, Missed, Recorded
  <2>3. Answer.status # "lost" => Answer.status \in Places
    BY <1>9, AnswerIsResponse DEF Return, Response, Statuses
  <2>4. QED BY <1>9, <2>2, <2>3 DEF Return
<1>10. QED
  BY <1>1, <1>2, <1>3, <1>4, <1>5, <1>6, <1>7, <1>8, <1>9, <1>11, <1>12 DEF Next

-----------------------------------------------------------------------------
(* The steps that neither trace nor spend anything keep what was traced.   *)
LEMMA TracedStep == TypeOK /\ TraceInv /\ [Next]_vars => Traced' /\ Spent'
<1> SUFFICES ASSUME TypeOK, TraceInv, [Next]_vars
             PROVE  Traced' /\ Spent'
  OBVIOUS
<1> USE DEF TraceInv, Unanswered
<1>1. CASE UNCHANGED vars
  BY <1>1 DEF vars, Traced, Spent, Answer, HasVerdict, IsVerdict
<1>2. CASE FreeReply \/ SendFails \/ Challenged \/ Choose \/ RouteFails \/ Reserve
  <2>1. CASE FreeReply
    <3>1. PICK status \in {"served", "refused"} : reply' = [status |-> status, emitted |-> FALSE]
      BY <2>1 DEF FreeReply
    <3>2. reply' # None
      <4>1. [status |-> status, emitted |-> FALSE] \in Response
        BY DEF Response, Statuses
      <4>2. QED BY <3>1, <4>1, NoneAssumption
    <3>3. Answer' = reply' /\ ~ Answer'.emitted /\ Answer'.status # "lost"
      BY <2>1, <3>1 DEF FreeReply, Traced, Answer
    <3>4. QED BY <2>1, <3>2, <3>3 DEF FreeReply, Traced, Spent
  <2>2. CASE SendFails \/ Challenged \/ Choose \/ RouteFails \/ Reserve
    BY <2>2, NoneAssumption, OfferAssumption DEF TypeOK, SendFails, Challenged, Choose,
       RouteFails, Reserve, Traced, Spent
  <2>3. QED BY <1>2, <2>1, <2>2
<1>3. CASE PayReturns \/ PayFailsPostCommit \/ PayFails \/ Persist
  <2>1. /\ pc \in {"paying", "persisting"}
        /\ pc' \in {"persisting", "reporting", "routing", "retrying"}
        /\ UNCHANGED <<events, reply, recovered, rail>>
    BY <1>3 DEF PayReturns, PayFailsPostCommit, PayFails, Persist
  <2>2. Traced'
    BY <2>1 DEF Traced
  <2>3. Spent'
    <3>1. CASE PayReturns \/ PayFailsPostCommit
      BY <3>1 DEF PayReturns, PayFailsPostCommit, Spent
    <3>2. CASE PayFails
      BY <3>2, NoneAssumption DEF PayFails, Advance, Spent
    <3>3. CASE Persist
      BY <3>3 DEF Persist, Spent
    <3>4. QED BY <1>3, <3>1, <3>2, <3>3
  <2>4. QED BY <2>2, <2>3
<1>4. CASE RetryReturns
  <2>1. PICK status \in Statuses : reply' = [status |-> status, emitted |-> TRUE]
    BY <1>4 DEF RetryReturns
  <2>2. reply' # None /\ reply'.emitted
    <3>1. [status |-> status, emitted |-> TRUE] \in Response
      BY DEF Response
    <3>2. QED BY <2>1, <3>1, NoneAssumption
  <2>3. events' = <<>> /\ ~ HasVerdict'
    BY <1>4 DEF RetryReturns, Traced, HasVerdict, IsVerdict
  <2>4. QED BY <1>4, <2>2, <2>3 DEF RetryReturns, Traced, Spent
<1>5. CASE RecoverySucceeds \/ RecoveryEnds
  BY <1>5 DEF TypeOK, RecoverySucceeds, RecoveryEnds, Traced, Spent, HasVerdict, IsVerdict
<1>6. CASE RecoveryHolds
  <2> DEFINE e == [kind |-> "hold", rail |-> rail, from |-> None, delivered |-> FALSE]
  <2>1. e \in Event
    BY DEF TypeOK, Event
  <2>2. ~ HasVerdict'
    BY <1>6, <2>1, RecordedIsLast DEF RecoveryHolds, Emitted, Missed, TypeOK, HasVerdict,
                                      IsVerdict, Traced
  <2>3. QED BY <1>6, <2>2 DEF RecoveryHolds, Traced, Spent
<1>7. CASE EmitPaid
  <2> DEFINE e == [kind |-> "paid", rail |-> rail, from |-> prior,
                   delivered |-> BudgetResponse.status = "served"]
  <2>1. e \in Event
    BY DEF TypeOK, Event
  <2>2. Answer' = Answer /\ Answer.emitted /\ reply # None /\ BudgetResponse = Answer
    BY <1>7, AnswerIsResponse DEF EmitPaid, Answer, Traced
  <2>3. CASE Missed
    BY <1>7, <2>2, <2>3 DEF EmitPaid, Missed, Traced, Spent, HasVerdict, IsVerdict
  <2>4. CASE Recorded(e)
    <3>1. HasVerdict'
      BY <2>1, <2>4, RecordedIsLast DEF TypeOK, HasVerdict, IsVerdict
    <3>2. \A i \in DOMAIN events' :
            events'[i].kind = "paid" => (events'[i].delivered <=> Answer.status = "served")
      <4>1. \A i \in DOMAIN events : events[i].kind = "hold"
        BY <1>7 DEF EmitPaid, Traced, HasVerdict, IsVerdict
      <4>2. e.delivered <=> Answer.status = "served"
        BY <2>2
      <4>3. ASSUME NEW i \in DOMAIN events', events'[i].kind = "paid"
            PROVE  events'[i] = e
        <5> HIDE DEF e
        <5>1. i \in DOMAIN events => events'[i] = events[i]
          BY <2>1, <2>4, RecordedIsLast DEF TypeOK
        <5>2. i \notin DOMAIN events => events'[i] = e
          BY <2>1, <2>4, RecordedIsLast DEF TypeOK
        <5>3. QED BY <4>1, <4>3, <5>1, <5>2
      <4> HIDE DEF e
      <4>4. QED BY <4>2, <4>3
    <3>3. QED BY <1>7, <2>2, <3>1, <3>2 DEF EmitPaid, Traced, Spent
  <2>5. QED BY <1>7, <2>3, <2>4 DEF EmitPaid, Emitted
<1>8. CASE Report \/ Return \/ Cut
  BY <1>8 DEF Report, Return, Cut, Traced, Spent, TypeOK, Answer, Response, Statuses
<1>9. QED
  BY <1>1, <1>2, <1>3, <1>4, <1>5, <1>6, <1>7, <1>8 DEF Next

-----------------------------------------------------------------------------
(* A step that leaves the call without events breaks none of the four, if  *)
(* whatever it raises comes before any payment, or is known to be missed.  *)
LEMMA NothingTraced ==
  ASSUME events' = <<>>,
         pc' = "raised" => committed' = {},
         pc' \in Over => missed'
  PROVE  OneVerdict' /\ EventsAreTrue' /\ ServiceReachesCaller' /\ UntracedCallsMissedOne'
BY DEF OneVerdict, EventsAreTrue, ServiceReachesCaller, UntracedCallsMissedOne, IsVerdict

(* One more event, of a call that has not been judged.                     *)
LEMMA FirstVerdict ==
  ASSUME events \in Seq(Event), NEW e \in Event, Recorded(e), ~ HasVerdict
  PROVE  OneVerdict' /\ (e.kind # "hold" => HasVerdict')
<1> USE RecordedIsLast DEF IsVerdict, HasVerdict
<1>1. \A i \in DOMAIN events' : events'[i].kind # "hold" => i = Len(events) + 1
  OBVIOUS
<1>2. QED BY <1>1 DEF OneVerdict

(* The first event of a call is its only one. *)
LEMMA FirstEvent ==
  ASSUME events = <<>>, NEW e, Recorded(e)
  PROVE  \A i \in DOMAIN events' : events'[i] = e
BY DEF Recorded

(* The four invariants, one action at a time. *)
LEMMA TruthStep ==
  TypeOK /\ TraceInv /\ [Next]_vars
    => OneVerdict' /\ EventsAreTrue' /\ ServiceReachesCaller' /\ UntracedCallsMissedOne'
<1> DEFINE Truth == OneVerdict /\ EventsAreTrue /\ ServiceReachesCaller /\ UntracedCallsMissedOne
<1> SUFFICES ASSUME TypeOK, TraceInv, [Next]_vars
             PROVE  Truth'
  OBVIOUS
<1> USE DEF TraceInv, Over
<1>1. CASE UNCHANGED vars
  BY <1>1 DEF vars, OneVerdict, EventsAreTrue, ServiceReachesCaller, UntracedCallsMissedOne,
              IsVerdict
<1>2. CASE FreeReply \/ SendFails \/ Challenged \/ Choose \/ RouteFails \/ Reserve
  <2>1. events' = <<>>
    BY <1>2 DEF FreeReply, SendFails, Challenged, Choose, RouteFails, Reserve, Traced, Unanswered
  <2>2. (pc' = "raised" => committed' = {}) /\ (pc' \in Over => missed')
    BY <1>2 DEF FreeReply, SendFails, Challenged, Choose, RouteFails, Reserve, Spent
  <2>3. QED BY <2>1, <2>2, NothingTraced
<1>3. CASE \/ PayReturns \/ PayFailsPostCommit \/ PayFails \/ Persist
           \/ RetryReturns \/ RecoverySucceeds \/ RecoveryEnds
  <2>1. events' = <<>>
    BY <1>3 DEF PayReturns, PayFailsPostCommit, PayFails, Persist, RetryReturns,
                RecoverySucceeds, RecoveryEnds, Traced, Unanswered
  <2>2. pc' \notin Over
    BY <1>3 DEF PayReturns, PayFailsPostCommit, PayFails, Persist, RetryReturns,
                RecoverySucceeds, RecoveryEnds
  <2>3. QED BY <2>1, <2>2, NothingTraced
<1>4. CASE RecoveryHolds
  <2> DEFINE e == [kind |-> "hold", rail |-> rail, from |-> None, delivered |-> FALSE]
  <2>1. e \in Event /\ events = <<>> /\ ~ HasVerdict
    BY <1>4 DEF RecoveryHolds, TypeOK, Event, Traced, HasVerdict, IsVerdict
  <2>2. CASE Missed
    BY <1>4, <2>1, <2>2, NothingTraced DEF RecoveryHolds, Missed
  <2>3. CASE Recorded(e)
    <3>1. \A i \in DOMAIN events' : events'[i] = e
      BY <2>1, <2>3, FirstEvent
    <3>2. OneVerdict'
      BY <2>1, <2>3, FirstVerdict DEF TypeOK
    <3>3. EventsAreTrue'
      BY <3>1 DEF EventsAreTrue
    <3>4. QED BY <1>4, <3>2, <3>3 DEF RecoveryHolds, ServiceReachesCaller, UntracedCallsMissedOne
  <2>4. QED BY <1>4, <2>2, <2>3 DEF RecoveryHolds, Emitted
<1>5. CASE EmitPaid
  <2> DEFINE e == [kind |-> "paid", rail |-> rail, from |-> prior,
                   delivered |-> BudgetResponse.status = "served"]
  <2>1. e \in Event /\ ~ HasVerdict
    BY <1>5 DEF EmitPaid, TypeOK, Event, Traced
  <2>2. ServiceReachesCaller' /\ UntracedCallsMissedOne'
    BY <1>5 DEF EmitPaid, ServiceReachesCaller, UntracedCallsMissedOne
  <2>3. CASE Missed
    <3>1. pc' \notin Over /\ UNCHANGED <<events, committed, failed>>
      BY <1>5, <2>3 DEF EmitPaid, Missed
    <3>2. OneVerdict' /\ EventsAreTrue'
      BY <3>1 DEF OneVerdict, EventsAreTrue, IsVerdict
    <3>3. QED BY <2>2, <3>2
  <2>4. CASE Recorded(e)
    <3>1. OneVerdict'
      BY <2>1, <2>4, FirstVerdict DEF TypeOK
    <3>2. EventsAreTrue'
      <4>1. e.rail \in committed /\ (e.from # None => e.from \in failed \ {e.rail})
        BY <1>5 DEF EmitPaid, Spent
      <4>2. e.kind = "paid"
        OBVIOUS
      <4> HIDE DEF e
      <4>3. pc' \notin Over /\ UNCHANGED <<committed, failed>>
        BY <1>5 DEF EmitPaid
      <4>4. \A i \in DOMAIN events' :
              events'[i] = e \/ (i \in DOMAIN events /\ events'[i] = events[i])
        BY <2>1, <2>4, RecordedIsLast DEF TypeOK
      <4>5. QED BY <4>1, <4>2, <4>3, <4>4 DEF EventsAreTrue
    <3>3. QED BY <2>2, <3>1, <3>2
  <2>5. QED BY <1>5, <2>2, <2>3, <2>4 DEF EmitPaid, Emitted
<1>6. CASE Report
  <2> DEFINE e == [kind |-> "error", rail |-> rail, from |-> prior, delivered |-> FALSE]
  <2>1. e \in Event /\ events = <<>> /\ ~ HasVerdict
    BY <1>6 DEF Report, TypeOK, Event, Traced, Unanswered, HasVerdict, IsVerdict
  <2>2. ServiceReachesCaller'
    BY <1>6 DEF Report, ServiceReachesCaller, Traced, Unanswered
  <2>3. CASE Missed
    BY <1>6, <2>1, <2>2, <2>3 DEF Report, Missed, OneVerdict, EventsAreTrue,
                                  UntracedCallsMissedOne
  <2>4. CASE Recorded(e)
    <3>1. OneVerdict' /\ HasVerdict'
      BY <2>1, <2>4, FirstVerdict DEF TypeOK
    <3>2. EventsAreTrue'
      <4>1. \A i \in DOMAIN events' : events'[i] = e
        BY <2>1, <2>4, FirstEvent
      <4>2. prior # None => prior \in failed \ {rail}
        BY <1>6 DEF Report, Spent
      <4>3. QED BY <1>6, <4>1, <4>2 DEF EventsAreTrue, Report, Spent
    <3>3. QED BY <2>2, <3>1, <3>2 DEF UntracedCallsMissedOne, HasVerdict
  <2>5. QED BY <1>6, <2>3, <2>4 DEF Report, Emitted
<1>7. CASE Return
  <2>1. reply # None /\ Answer \in Response
    BY <1>7, AnswerIsResponse DEF Return, Traced
  <2>2. ServiceReachesCaller'
    <3>1. pc' = "raised" => Answer.status = "lost" \/ committed = {}
      BY <1>7, <2>1 DEF Return, Response, Statuses, Traced
    <3>2. Answer.status = "lost" => recovered = None /\ reply.status # "served"
      BY DEF Answer, Traced
    <3>3. QED BY <1>7, <3>1, <3>2 DEF Return, ServiceReachesCaller
  <2>3. CASE /\ Answer.status = "lost" \/ Answer.emitted
             /\ UNCHANGED <<events, missed>>
             /\ pc' = IF Answer.status = "lost" THEN "raised" ELSE Answer.status
    <3>1. Answer.emitted /\ (pc' = "served" <=> Answer.status = "served")
      BY <1>7, <2>3 DEF Return, Traced
    <3>2. OneVerdict'
      BY <2>3 DEF OneVerdict, IsVerdict
    <3>3. EventsAreTrue'
      BY <1>7, <2>3, <3>1 DEF Return, Traced, EventsAreTrue
    <3>4. UntracedCallsMissedOne'
      BY <1>7, <2>3, <3>1 DEF Return, Traced, UntracedCallsMissedOne, HasVerdict, IsVerdict
    <3>5. QED BY <2>2, <3>2, <3>3, <3>4
  <2>4. CASE ~ Answer.emitted /\ Missed /\ pc' = "raised"
    BY <1>7, <2>4, NothingTraced DEF Return, Traced, Missed
  <2> DEFINE e == [kind |-> "free", rail |-> None, from |-> None,
                   delivered |-> Answer.status = "served"]
  <2>5. CASE ~ Answer.emitted /\ Recorded(e)
    <3>1. e \in Event /\ events = <<>> /\ committed = {} /\ ~ HasVerdict
      BY <1>7, <2>5 DEF Return, Event, Traced, HasVerdict, IsVerdict
    <3>2. OneVerdict' /\ HasVerdict'
      BY <2>5, <3>1, FirstVerdict DEF TypeOK
    <3>3. \A i \in DOMAIN events' : events'[i] = e
      BY <2>5, <3>1, FirstEvent
    <3>4. EventsAreTrue'
      BY <1>7, <3>1, <3>3 DEF Return, EventsAreTrue
    <3>5. QED BY <2>2, <3>2, <3>4 DEF UntracedCallsMissedOne, HasVerdict
  <2>6. QED BY <1>7, <2>3, <2>4, <2>5 DEF Return
<1>8. CASE Cut
  <2>1. pc = "paying" => events = <<>>
    BY DEF Traced, Unanswered
  <2>2. OneVerdict' /\ ServiceReachesCaller' /\ UntracedCallsMissedOne'
    BY <1>8 DEF Cut, OneVerdict, IsVerdict, ServiceReachesCaller, UntracedCallsMissedOne
  <2>3. EventsAreTrue'
    BY <1>8, <2>1 DEF Cut, EventsAreTrue
  <2>4. QED BY <2>2, <2>3
<1>9. QED
  BY <1>1, <1>2, <1>3, <1>4, <1>5, <1>6, <1>7, <1>8 DEF Next

(* The invariants hold before the first request. *)
LEMMA TraceInit == Init => TypeOK /\ TraceInv
<1> SUFFICES ASSUME Init
             PROVE  TypeOK /\ TraceInv
  OBVIOUS
<1>1. TypeOK
  <2>1. events \in Seq(Event)
    BY DEF Init
  <2>2. QED BY <2>1 DEF Init, TypeOK, Places
<1>2. Traced /\ Spent
  BY DEF Init, Traced, Spent, Unanswered
<1>3. OneVerdict /\ EventsAreTrue /\ ServiceReachesCaller /\ UntracedCallsMissedOne
  BY DEF Init, OneVerdict, EventsAreTrue, ServiceReachesCaller, UntracedCallsMissedOne, Over
<1>4. QED BY <1>1, <1>2, <1>3 DEF TraceInv

LEMMA TraceInvariant == Spec => [](TypeOK /\ TraceInv)
<1>1. TypeOK /\ TraceInv /\ [Next]_vars => (TypeOK /\ TraceInv)'
  BY TypeStep, TracedStep, TruthStep DEF TraceInv
<1>2. QED BY TraceInit, <1>1, PTL DEF Spec

(* The locals of a call and its events keep their types. *)
THEOREM TraceTypeCorrect == Spec => []TypeOK
BY TraceInvariant, PTL

(* No call is judged twice, whatever is paid, recovered or given up in it  *)
(* (_auth.py, client.py: _traced).                                         *)
THEOREM CallsAreJudgedOnce == Spec => []OneVerdict
<1>1. TraceInv => OneVerdict
  BY DEF TraceInv
<1>2. QED BY <1>1, TraceInvariant, PTL

(* What an event says of payment, failover and delivery is so              *)
(* (trace/emitter.py as _auth.py calls it).                                *)
THEOREM TracesTellTheTruth == Spec => []EventsAreTrue
<1>1. TraceInv => EventsAreTrue
  BY DEF TraceInv
<1>2. QED BY <1>1, TraceInvariant, PTL

(* No bookkeeping after a payment costs the caller the response it bought  *)
(* (the guarded calls of _auth.py after the retry).                        *)
THEOREM PaidServiceArrives == Spec => []ServiceReachesCaller
<1>1. TraceInv => ServiceReachesCaller
  BY DEF TraceInv
<1>2. QED BY <1>1, TraceInvariant, PTL

(* A call without a verdict has lost one where the flow could not help it. *)
THEOREM SilenceIsExplained == Spec => []UntracedCallsMissedOne
<1>1. TraceInv => UntracedCallsMissedOne
  BY DEF TraceInv
<1>2. QED BY <1>1, TraceInvariant, PTL
=============================================================================
