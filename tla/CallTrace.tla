------------------------------ MODULE CallTrace ------------------------------
(***************************************************************************)
(* One call of a Routeweiler client and the trace events that it leaves:   *)
(* Routeweiler._traced (client.py) around the auth flow (_auth.py), the    *)
(* rails (rails/), the recoverer, and TraceEmitter with its sink (trace/). *)
(* Events are what an operator knows of the money; the writer of an event  *)
(* may fail wherever it is called, and so may everything around it.        *)
(***************************************************************************)
EXTENDS Naturals, Sequences

CONSTANTS
  Offered,   \* the rails that the 402 offers and some funding source can pay
  None       \* no rail, no response

Rails == {"x402", "l402", "mpp-tempo", "mpp-spt"}

\* x402 authorises one request and has nothing to persist.
CredentialRails == Rails \ {"x402"}

\* pay() checks the preimage after the invoice has been paid.
PostCommitRails == {"l402"}

\* pay() may raise although the node goes on paying (InvoicePaymentError).
AmbiguousRails == {"l402"}

\* confirm() reads a receipt from a header of the response, and may raise.
ReceiptRails == Rails \ {"l402"}

\* "lost" is the synthetic 502 that stands for a transport error.
Statuses == {"served", "refused", "lost"}

Response == [status : Statuses, emitted : BOOLEAN]

ASSUME OfferAssumption == Offered \subseteq Rails
ASSUME NoneAssumption == None \notin Rails \cup Response

VARIABLES
  pc,         \* where the call has got to
  rail,       \* the rail of the current attempt
  failed,     \* excluded_rails
  prior,      \* prior_rail, the rail that failed last
  tracked,    \* there is a credential_record
  reply,      \* the response of the server, tagged if the flow has traced it
  recovered,  \* the response stashed as routeweiler_recovered_response
  events,     \* the rows of trace_events that the call has left
  committed,  \* history: the rails on which funds have left the wallet
  missed      \* history: an event was due and was not recorded

vars == <<pc, rail, failed, prior, tracked, reply, recovered, events,
          committed, missed>>

\* "cut": the call was cancelled, or failed in httpx outside the auth flow.
Over == {"served", "refused", "raised", "cut"}

Places == {"sending", "routing", "gating", "paying", "persisting", "retrying",
           "recovering", "emitting", "reporting", "returning"} \cup Over

Event == [kind : {"paid", "free", "error", "hold"}, rail : Rails \cup {None},
          from : Rails \cup {None}, delivered : BOOLEAN]

Init ==
  /\ pc = "sending"
  /\ rail = None /\ failed = {} /\ prior = None
  /\ tracked = FALSE
  /\ reply = None /\ recovered = None
  /\ events = <<>>
  /\ committed = {} /\ missed = FALSE

-----------------------------------------------------------------------------
Recorded(e) == events' = Append(events, e) /\ UNCHANGED missed

Missed == missed' = TRUE /\ UNCHANGED events

(* The flow and the recoverer log a failing emission and go on. *)
Emitted(e) == Recorded(e) \/ Missed

(* Mutation: the rail that failed is not excluded. *)
AdvanceNowhere == UNCHANGED failed /\ prior' = rail

(* _FailoverState.advance *)
Advance == failed' = failed \cup {rail} /\ prior' = rail

(* The first response is not a 402: the flow leaves it to _traced. *)
FreeReply ==
  /\ pc = "sending"
  /\ \E status \in {"served", "refused"} :
       reply' = [status |-> status, emitted |-> FALSE]
  /\ pc' = "returning"
  /\ UNCHANGED <<rail, failed, prior, tracked, recovered, events, committed,
                 missed>>

(***************************************************************************)
(* The first request fails in the transport, or the body of the 402 or the *)
(* snapshot of the rates cannot be read.  Nobody emits anything.           *)
(***************************************************************************)
SendFails ==
  /\ pc = "sending"
  /\ pc' = "raised"
  /\ missed' = TRUE
  /\ UNCHANGED <<rail, failed, prior, tracked, reply, recovered, events,
                 committed>>

Challenged ==
  /\ pc = "sending"
  /\ pc' = "routing"
  /\ UNCHANGED <<rail, failed, prior, tracked, reply, recovered, events,
                 committed, missed>>

(* The router's choice among the rails that have not failed yet. *)
Choose ==
  /\ pc = "routing"
  /\ rail' \in Offered \ failed
  /\ pc' = "gating"
  /\ UNCHANGED <<failed, prior, tracked, reply, recovered, events, committed,
                 missed>>

(* Mutation: an error of the router is raised without an event. *)
RouteFailsSilently ==
  /\ pc = "routing"
  /\ pc' = "raised"
  /\ UNCHANGED <<rail, failed, prior, tracked, reply, recovered, events,
                 committed, missed>>

(* No adapter, all denied, or no rail left: there is no challenge to name. *)
RouteFails ==
  /\ pc = "routing"
  /\ rail' = None
  /\ pc' = "reporting"
  /\ UNCHANGED <<failed, prior, tracked, reply, recovered, events, committed,
                 missed>>

(* Within the limits and drawn, or in need of no draw; or refused by either. *)
Reserve ==
  /\ pc = "gating"
  /\ pc' \in {"paying", "reporting"}
  /\ UNCHANGED <<rail, failed, prior, tracked, reply, recovered, events,
                 committed, missed>>

-----------------------------------------------------------------------------
PayReturns ==
  /\ pc = "paying"
  /\ committed' = committed \cup {rail}
  /\ pc' = "persisting"
  /\ UNCHANGED <<rail, failed, prior, tracked, reply, recovered, events, missed>>

(* PostCommitPaymentError: settled, reported and raised. *)
PayFailsPostCommit ==
  /\ pc = "paying"
  /\ rail \in PostCommitRails
  /\ committed' = committed \cup {rail}
  /\ pc' = "reporting"
  /\ UNCHANGED <<rail, failed, prior, tracked, reply, recovered, events, missed>>

(* Any other error: the draw is rolled back and the next rail is tried. *)
PayFails ==
  /\ pc = "paying"
  /\ \/ UNCHANGED committed
     \/ rail \in AmbiguousRails /\ committed' = committed \cup {rail}
  /\ Advance
  /\ pc' = "routing"
  /\ UNCHANGED <<rail, tracked, reply, recovered, events, missed>>

(* A credential that cannot be persisted is not tracked. *)
Persist ==
  /\ pc = "persisting"
  /\ tracked' \in BOOLEAN /\ (tracked' => rail \in CredentialRails)
  /\ pc' = "retrying"
  /\ UNCHANGED <<rail, failed, prior, reply, recovered, events, committed,
                 missed>>

(***************************************************************************)
(* The answer to the retry, tagged as traced whatever it is.  A credential *)
(* that is refused goes to the recoverer; one that is served is marked     *)
(* redeemed, and no failure of that reaches the call.                      *)
(***************************************************************************)
RetryReturns ==
  /\ pc = "retrying"
  /\ \E status \in Statuses :
       /\ reply' = [status |-> status, emitted |-> TRUE]
       /\ pc' = IF tracked /\ status # "served" THEN "recovering" ELSE "emitting"
  /\ UNCHANGED <<rail, failed, prior, tracked, recovered, events, committed,
                 missed>>

-----------------------------------------------------------------------------
(* Mutation: the response of the recovery is not tagged. *)
RecoverySucceedsUntagged ==
  /\ pc = "recovering"
  /\ recovered' = [status |-> "served", emitted |-> FALSE]
  /\ pc' = "emitting"
  /\ UNCHANGED <<rail, failed, prior, tracked, reply, events, committed, missed>>

(* The strategy has got a 2xx, which replaces the reply. *)
RecoverySucceeds ==
  /\ pc = "recovering"
  /\ recovered' = [status |-> "served", emitted |-> TRUE]
  /\ pc' = "emitting"
  /\ UNCHANGED <<rail, failed, prior, tracked, reply, events, committed, missed>>

(* _terminal: the credential is put on hold, with an event of its own. *)
RecoveryHolds ==
  /\ pc = "recovering"
  /\ Emitted([kind |-> "hold", rail |-> rail, from |-> None, delivered |-> FALSE])
  /\ pc' = "emitting"
  /\ UNCHANGED <<rail, failed, prior, tracked, reply, recovered, committed>>

(* attempt_recovery finds the row gone or terminal, or raises. *)
RecoveryEnds ==
  /\ pc = "recovering"
  /\ pc' = "emitting"
  /\ UNCHANGED <<rail, failed, prior, tracked, reply, recovered, events,
                 committed, missed>>

(* Mutation: the event describes the retry. *)
BudgetResponseOfRetry == reply

(* The response that the payment has bought. *)
BudgetResponse == IF recovered = None THEN reply ELSE recovered

(* A receipt that cannot be read, or is of another charge or method. *)
ReceiptRefused == rail \in ReceiptRails /\ BudgetResponse.status # "lost"

(* Mutation: what adapter.confirm raises is not caught. *)
EmitPaidUnguarded ==
  /\ pc = "emitting"
  /\ \/ /\ Emitted([kind |-> "paid", rail |-> rail, from |-> prior,
                    delivered |-> BudgetResponse.status = "served"])
        /\ pc' = "returning"
     \/ ReceiptRefused /\ Missed /\ pc' = "raised"
  /\ UNCHANGED <<rail, failed, prior, tracked, reply, recovered, committed>>

(* adapter.confirm and emit_paid, whose failures are logged. *)
EmitPaid ==
  /\ pc = "emitting"
  /\ \/ Emitted([kind |-> "paid", rail |-> rail, from |-> prior,
                 delivered |-> BudgetResponse.status = "served"])
     \/ ReceiptRefused /\ Missed
  /\ pc' = "returning"
  /\ UNCHANGED <<rail, failed, prior, tracked, reply, recovered, committed>>

(* _safe_emit_error, after which the error is raised. *)
Report ==
  /\ pc = "reporting"
  /\ Emitted([kind |-> "error", rail |-> rail, from |-> prior, delivered |-> FALSE])
  /\ pc' = "raised"
  /\ UNCHANGED <<rail, failed, prior, tracked, reply, recovered, committed>>

(* What _traced returns, unless it raises. *)
Answer == IF recovered = None THEN reply ELSE recovered

(***************************************************************************)
(* _traced raises the transport error that the answer stands for; an       *)
(* untagged answer gets an event first, and what that raises is raised to  *)
(* the caller.                                                             *)
(***************************************************************************)
Return ==
  /\ pc = "returning"
  /\ \/ /\ Answer.status = "lost"
        /\ pc' = "raised"
        /\ UNCHANGED <<events, missed>>
     \/ /\ Answer.status # "lost" /\ Answer.emitted
        /\ pc' = Answer.status
        /\ UNCHANGED <<events, missed>>
     \/ /\ Answer.status # "lost" /\ ~ Answer.emitted
        /\ \/ /\ Recorded([kind |-> "free", rail |-> None, from |-> None,
                           delivered |-> Answer.status = "served"])
              /\ pc' = Answer.status
           \/ Missed /\ pc' = "raised"
  /\ UNCHANGED <<rail, failed, prior, tracked, reply, recovered, committed>>

(***************************************************************************)
(* The task is cancelled at whatever it awaits, perhaps while it pays; or  *)
(* httpx fails outside the flow: in a redirect of the retry, or when it    *)
(* reads the body of the reply, after the flow has returned.               *)
(***************************************************************************)
Cut ==
  /\ pc \notin Over
  /\ pc' = "cut" /\ missed' = TRUE
  /\ \/ UNCHANGED committed
     \/ pc = "paying" /\ committed' = committed \cup {rail}
  /\ UNCHANGED <<rail, failed, prior, tracked, reply, recovered, events>>

Next ==
  \/ FreeReply \/ SendFails \/ Challenged
  \/ Choose \/ RouteFails \/ Reserve
  \/ PayReturns \/ PayFailsPostCommit \/ PayFails \/ Persist
  \/ RetryReturns \/ RecoverySucceeds \/ RecoveryHolds \/ RecoveryEnds
  \/ EmitPaid \/ Report \/ Return \/ Cut

Spec == Init /\ [][Next]_vars

(* Everything the call awaits returns or raises, having a timeout. *)
FairSpec == Spec /\ WF_vars(Next)

-----------------------------------------------------------------------------
(* Type invariant: the locals of the call and its events have their types. *)
TypeOK ==
  /\ pc \in Places
  /\ rail \in Rails \cup {None} /\ prior \in Rails \cup {None}
  /\ failed \subseteq Rails /\ committed \subseteq Rails
  /\ tracked \in BOOLEAN /\ missed \in BOOLEAN
  /\ reply \in Response \cup {None} /\ recovered \in Response \cup {None}
  /\ events \in Seq(Event)

IsVerdict(i) == i \in DOMAIN events /\ events[i].kind # "hold"

(***************************************************************************)
(* A call is judged at most once: whichever way payment, recovery and      *)
(* failover take, no event of the flow is followed by another of the flow, *)
(* or by one of _traced, on the same call.  A hold is no verdict.          *)
(***************************************************************************)
OneVerdict == \A i, j \in DOMAIN events : IsVerdict(i) /\ IsVerdict(j) => i = j

(***************************************************************************)
(* Events tell the truth about money and service: a paid event names a     *)
(* rail whose funds have left, and says "delivered" exactly if the caller  *)
(* is then given a response that serves it, unless httpx cuts it off; a    *)
(* free call has paid nothing; an error event hides no payment but an      *)
(* ambiguous or post-commit one; and a fallback comes from a rail that     *)
(* failed, never from the rail used.                                       *)
(***************************************************************************)
EventsAreTrue ==
  \A i \in DOMAIN events :
    LET e == events[i]
    IN /\ e.kind = "paid" => /\ e.rail \in committed
                             /\ pc \in Over \ {"cut"} => (e.delivered <=> pc = "served")
       /\ e.kind = "free" => committed = {}
       /\ e.kind = "error" => committed \subseteq AmbiguousRails \cup PostCommitRails
       /\ e.from # None => e.from \in failed \ {e.rail}

(***************************************************************************)
(* A call that was served after paying is never turned into an exception:  *)
(* not by the credential store, the recovery, the receipt or the trace.    *)
(* (httpx can, where it cuts the call off.)                                *)
(***************************************************************************)
ServiceReachesCaller ==
  pc = "raised" /\ committed # {} =>
    \A response \in {reply, recovered} \ {None} : response.status # "served"

(***************************************************************************)
(* A call that has left no verdict has lost one to the sink, to a receipt  *)
(* that was refused, or to a failure outside the reach of the flow.         *)
(***************************************************************************)
UntracedCallsMissedOne ==
  pc \in Over /\ ~ missed => \E i \in DOMAIN events : IsVerdict(i)

(* Every call returns or raises: failover does not go round for ever. *)
CallsReturn == <>(pc \in Over)
=============================================================================
