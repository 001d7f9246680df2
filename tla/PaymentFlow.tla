---------------------------- MODULE PaymentFlow ----------------------------
(***************************************************************************)
(* RouteweilerAuth.async_auth_flow (_auth.py) for several concurrent       *)
(* requests that have been answered with 402 and share one envelope.  The  *)
(* flow of a request is a loop: choose a rail, reserve its quote in the    *)
(* ledger, pay, retry the request with the credential, settle the draw; a  *)
(* payment that fails releases the draw and tries another rail.  Every     *)
(* await is a point where other requests, the reaper, the clock and a      *)
(* cancellation can intervene, so each stretch between two awaits is one   *)
(* action.                                                                 *)
(***************************************************************************)
EXTENDS BudgetLedger

CONSTANTS
  Requests,        \* the requests, one request_id each
  Rails,           \* rails the 402 offers and the client has funding for
  AllowedRails,    \* envelopes.allowed_rails
  AmbiguousRails,  \* rails whose pay() can fail after the funds have left
  MaxPerCall,      \* max_per_call_minor_units of the policy, by rail
  None             \* no limit, no quote (the FMV conversion failed), no receipt

Attempts == 0 .. Cardinality(Rails) - 1

ASSUME RailsAssumption == /\ IsFiniteSet(Rails)
                          /\ AllowedRails \subseteq Rails
                          /\ AmbiguousRails \subseteq Rails
ASSUME KeysAreAttempts == Keys = Requests \X Attempts
ASSUME NoneAssumption == None \notin Nat \cup Rails \cup Receipt
ASSUME MaxPerCallAssumption == MaxPerCall \in [Rails -> Nat \cup {None}]

VARIABLES
  flow,   \* the local variables of each request's async_auth_flow
  paid    \* history: the payments whose funds have left the wallet

flowVars == <<now, status, draws, receipts, late, flow, paid>>

Finals == {"done", "unconfirmed", "refused", "cancelled"}

Places == {"routing", "drawing", "paying", "committed", "retrying",
           "confirming", "rolling_back"} \cup Finals

(* The draw's idempotency key: _make_idempotency_key(request_id, attempt). *)
KeyOf(r) == <<r, flow[r].attempt>>

Ended(r) == flow[r].pc \in Finals

At(r, place) == flow[r].pc = place

Goto(r, place) == flow' = [flow EXCEPT ![r].pc = place]

FlowInit ==
  /\ LedgerInit
  /\ flow = [r \in Requests |->
               [pc |-> "routing", attempt |-> 0, excluded |-> {},
                rail |-> None, quote |-> None, receipt |-> None]]
  /\ paid = {}

-----------------------------------------------------------------------------
(***************************************************************************)
(* Router.decide picks one of the rails that have not failed yet.  Cost,   *)
(* preference and stickiness only rank the candidates, so any of them can  *)
(* win, with any quote or none.  The policy's per-call limit is checked on *)
(* the winner, and refuses a winner without a quote.                       *)
(***************************************************************************)
PassesGate(rail, quote) ==
  \/ MaxPerCall[rail] = None
  \/ quote # None /\ quote <= MaxPerCall[rail]

(* Mutation: the receipt of the previous attempt is kept. *)
RoutedKeepingReceipt(local, rail, quote) ==
  [local EXCEPT !.pc = IF PassesGate(rail, quote) THEN "drawing" ELSE "refused",
                !.rail = rail, !.quote = quote]

Routed(local, rail, quote) ==
  [local EXCEPT !.pc = IF PassesGate(rail, quote) THEN "drawing" ELSE "refused",
                !.rail = rail, !.quote = quote, !.receipt = None]

Route(r, rail, quote) ==
  /\ At(r, "routing")
  /\ rail \notin flow[r].excluded
  /\ flow' = [flow EXCEPT ![r] = Routed(@, rail, quote)]
  /\ UNCHANGED <<ledgerVars, paid>>

(* No rail is left, none parses, or the policy denies those that do. *)
RouteFails(r) ==
  /\ At(r, "routing")
  /\ Goto(r, "refused")
  /\ UNCHANGED <<ledgerVars, paid>>

-----------------------------------------------------------------------------
(***************************************************************************)
(* The draw.  A rail without a quote is paid without a draw if the         *)
(* envelope does not list it, and refused if it does.  Every error of the  *)
(* store ends the request.                                                 *)
(***************************************************************************)
SkipDraw(r) ==
  /\ At(r, "drawing")
  /\ flow[r].quote = None
  /\ Goto(r, IF flow[r].rail \in AllowedRails THEN "refused" ELSE "paying")
  /\ UNCHANGED <<ledgerVars, paid>>

Drawing(r) == At(r, "drawing") /\ flow[r].quote # None

DrawGranted(r) ==
  /\ Drawing(r)
  /\ DrawReserves(KeyOf(r), flow[r].quote) \/ DrawReplays(KeyOf(r), flow[r].quote)
  /\ flow' = [flow EXCEPT ![r].pc = "paying",
                          ![r].receipt = ReceiptOf(KeyOf(r), draws'[KeyOf(r)])]
  /\ UNCHANGED paid

DrawRefused(r) ==
  /\ Drawing(r)
  /\ ~ (EnvelopeOpen /\ flow[r].quote <= Available)
  /\ Goto(r, "refused")
  /\ UNCHANGED <<ledgerVars, paid>>

(* The keystore fails, or the receipt does not verify. *)
DrawBreaks(r) ==
  /\ Drawing(r)
  /\ \/ DrawLosesReceipt(KeyOf(r), flow[r].quote)
     \/ DrawFailsVerification(KeyOf(r), flow[r].quote)
  /\ Goto(r, "refused")
  /\ UNCHANGED paid

-----------------------------------------------------------------------------
(***************************************************************************)
(* adapter.pay.  The funds leave before pay() returns.  It may then return *)
(* the credential, or raise PostCommitPaymentError, or, on some rails,     *)
(* raise any other exception (LND's stream ends without a verdict): the    *)
(* flow cannot tell that from a payment that did not happen.               *)
(***************************************************************************)
Payment(r) == [request |-> r, attempt |-> flow[r].attempt, rail |-> flow[r].rail,
               quote |-> flow[r].quote, receipt |-> flow[r].receipt]

FundsLeave(r) ==
  /\ At(r, "paying")
  /\ paid' = paid \cup {Payment(r)}
  /\ Goto(r, "committed")
  /\ UNCHANGED ledgerVars

PayReturns(r) ==
  /\ At(r, "committed")
  /\ Goto(r, "retrying")
  /\ UNCHANGED <<ledgerVars, paid>>

(* Mutation: PostCommitPaymentError is not told from the other exceptions. *)
PayFailsAnyhow(r) ==
  /\ At(r, "committed")
  /\ Goto(r, "rolling_back")
  /\ UNCHANGED <<ledgerVars, paid>>

PayFailsPostCommit(r) ==
  /\ At(r, "committed")
  /\ Goto(r, "confirming")
  /\ UNCHANGED <<ledgerVars, paid>>

PayFails(r) ==
  /\ \/ At(r, "paying")
     \/ At(r, "committed") /\ flow[r].rail \in AmbiguousRails
  /\ Goto(r, "rolling_back")
  /\ UNCHANGED <<ledgerVars, paid>>

(* Mutation: the attempts share one idempotency key. *)
AdvancedSameAttempt(local) ==
  [local EXCEPT !.pc = "routing", !.excluded = @ \cup {local.rail}]

(***************************************************************************)
(* _rollback_safe, which swallows every error of the store, and            *)
(* state.advance: the rail is excluded and the next attempt begins.        *)
(***************************************************************************)
Advanced(local) ==
  [local EXCEPT !.pc = "routing",
                !.excluded = @ \cup {local.rail},
                !.attempt = @ + 1]

Release(r) ==
  /\ At(r, "rolling_back")
  /\ IF flow[r].receipt = None
     THEN UNCHANGED ledgerVars
     ELSE Rollback(flow[r].receipt.key) \/ UNCHANGED ledgerVars
  /\ flow' = [flow EXCEPT ![r] = Advanced(@)]
  /\ UNCHANGED paid

(***************************************************************************)
(* The retry, its credential's persistence and recovery.  Whatever the     *)
(* outcome, a transport failure included, the flow goes on to confirm.     *)
(***************************************************************************)
RetryReturns(r) ==
  /\ At(r, "retrying")
  /\ Goto(r, "confirming")
  /\ UNCHANGED <<ledgerVars, paid>>

(***************************************************************************)
(* _confirm_draw_safe settles the amount of the receipt and swallows every *)
(* error of the store.  A draw already settled is left alone.              *)
(***************************************************************************)
SettleDraw(receipt) ==
  \/ Confirm(receipt.key, receipt.amount)
  \/ ~ Confirmable(receipt.key) /\ UNCHANGED ledgerVars

ConfirmDraw(r) ==
  /\ At(r, "confirming")
  /\ IF flow[r].receipt = None
     THEN UNCHANGED ledgerVars
     ELSE SettleDraw(flow[r].receipt)
  /\ Goto(r, "done")
  /\ UNCHANGED paid

ConfirmFails(r) ==
  /\ At(r, "confirming")
  /\ flow[r].receipt # None
  /\ Goto(r, "unconfirmed")
  /\ UNCHANGED <<ledgerVars, paid>>

-----------------------------------------------------------------------------
FlowStep(r) ==
  \/ \E rail \in Rails, quote \in Amounts \cup {None} : Route(r, rail, quote)
  \/ RouteFails(r)
  \/ SkipDraw(r)
  \/ DrawGranted(r)
  \/ DrawRefused(r)
  \/ DrawBreaks(r)
  \/ FundsLeave(r)
  \/ PayReturns(r)
  \/ PayFailsPostCommit(r)
  \/ PayFails(r)
  \/ Release(r)
  \/ RetryReturns(r)
  \/ ConfirmDraw(r)
  \/ ConfirmFails(r)

(***************************************************************************)
(* The caller cancels the request, httpx closes the flow, or the process   *)
(* ends: nothing in the flow runs after that, and nothing catches it.  The *)
(* thread that executes a draw is not cancelled with its caller, so the    *)
(* row can be inserted and its receipt lost.                               *)
(***************************************************************************)
Cancel(r) ==
  /\ ~ Ended(r)
  /\ Goto(r, "cancelled")
  /\ UNCHANGED <<ledgerVars, paid>>

CancelDraw(r) ==
  /\ Drawing(r)
  /\ DrawLosesReceipt(KeyOf(r), flow[r].quote)
  /\ Goto(r, "cancelled")
  /\ UNCHANGED paid

(* What happens to the envelope whatever the requests do. *)
Background ==
  /\ Reap \/ Tick \/ \E s \in {"active", "frozen"} : SetStatus(s)
  /\ UNCHANGED <<flow, paid>>

FlowNext ==
  \/ \E r \in Requests : FlowStep(r) \/ Cancel(r) \/ CancelDraw(r)
  \/ Background

FlowSpec == FlowInit /\ [][FlowNext]_flowVars

-----------------------------------------------------------------------------
(***************************************************************************)
(* Type invariant: the locals of the flows and the payments have their     *)
(* types.                                                                  *)
(***************************************************************************)
Local ==
  [pc : Places, attempt : 0 .. Cardinality(Rails), excluded : SUBSET Rails,
   rail : Rails \cup {None}, quote : Amounts \cup {None},
   receipt : Receipt \cup {None}]

FlowTypeOK ==
  /\ LedgerTypeOK
  /\ flow \in [Requests -> Local]
  /\ paid \subseteq [request : Requests, attempt : Attempts, rail : Rails,
                     quote : Amounts \cup {None}, receipt : Receipt \cup {None}]

(***************************************************************************)
(* Spend is never missing from the ledger once a flow has run to its end:   *)
(* the draw of the payment that ended it is settled with the amount of its *)
(* receipt, even if the reaper expired the draw while the payment or the   *)
(* retry was under way (_confirm_draw_safe and confirm_sync).              *)
(***************************************************************************)
SpendIsRecorded ==
  \A p \in paid :
    p.receipt # None /\ At(p.request, "done") /\ p.attempt = flow[p.request].attempt
      => /\ draws[p.receipt.key].state = "settled"
         /\ draws[p.receipt.key].settled = p.quote

(***************************************************************************)
(* A draw that the flow gave up, because its payment failed, is never      *)
(* charged: not by a later attempt, which has its own draw or none, and    *)
(* not by the confirm that may settle a draw the reaper rolled back ("this *)
(* cannot resurrect a cancelled draw", confirm_sync).                      *)
(***************************************************************************)
GivenUpDrawsAreNotCharged ==
  \A r \in Requests, i \in Attempts :
    i < flow[r].attempt => draws[<<r, i>>].state # "settled"

(***************************************************************************)
(* A request pays again only after a failure that hid a payment: two       *)
(* payments of one request are on different rails, and the earlier rail is *)
(* one whose pay() can fail after the funds have left (the two except      *)
(* clauses around adapter.pay).                                            *)
(***************************************************************************)
OnlyHiddenPaymentsAreRepeated ==
  \A p, q \in paid :
    p.request = q.request /\ p.attempt < q.attempt
      => p.rail \in AmbiguousRails /\ p.rail # q.rail

(***************************************************************************)
(* No payment escapes its limits on any attempt: one on a rail that the    *)
(* envelope lists is covered by a draw of its own, for its own quote, and  *)
(* none exceeds the policy's limit per call (the gate and the draw phase). *)
(***************************************************************************)
PaymentsAreAuthorised ==
  \A p \in paid :
    /\ p.rail \in AllowedRails \/ p.quote # None
         => /\ p.receipt # None
            /\ p.receipt.key = <<p.request, p.attempt>>
            /\ p.receipt.amount = p.quote
    /\ MaxPerCall[p.rail] # None => p.quote # None /\ p.quote <= MaxPerCall[p.rail]

(***************************************************************************)
(* _confirm_draw_safe on rollback: it is reserved for pay-phase failures   *)
(* where pay() raised before the wire commit.                              *)
(***************************************************************************)
RolledBackPaysNeverLeft ==
  \A p \in paid : flow[p.request].attempt <= p.attempt
=============================================================================
