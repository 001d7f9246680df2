------------------------ MODULE CredentialLifecycle ------------------------
(***************************************************************************)
(* The life of payment credentials: persisted by the auth flow before the  *)
(* retry (_auth.py), redeemed or recovered after it by CredentialRecoverer *)
(* (credentials/recovery.py), in a store whose every write is one          *)
(* transaction (credentials/store.py).  The flow calls the recoverer once. *)
(* A recovery job is any other caller of attempt_recovery, which may run   *)
(* beside the flow or after a crash of it.  Every write may fail, and most *)
(* failures are swallowed.                                                 *)
(***************************************************************************)
CONSTANTS
  Credentials,   \* pairs (request_id, rail) with a credential to persist
  Jobs           \* the other callers of attempt_recovery

ASSUME JobsAssumption == "flow" \notin Jobs

Callers == {"flow"} \cup Jobs

VARIABLES
  row,      \* credentials.state of each credential, "absent" without a row
  reason,   \* credentials.manual_hold_reason
  expired,  \* the credentials whose expires_at has passed
  call,     \* where the call of each caller on each credential has got to
  why,      \* the reason that the call passes to _terminal
  served    \* history: the credentials that a 2xx response has answered

vars == <<row, reason, expired, call, why, served>>

Terminal == {"redeemed", "manual_hold"}

RowStates == {"absent", "persisted", "recovering"} \cup Terminal

Reasons == {"exhausted", "expired"}

Over == {"ended", "crashed"}

Places == {"paid", "retrying", "marking", "idle", "loading", "entering",
           "replaying", "redeeming", "holding"} \cup Over

At(c, w, place) == call[<<c, w>>] = place

Goto(c, w, place) == call' = [call EXCEPT ![<<c, w>>] = place]

Init ==
  /\ row = [c \in Credentials |-> "absent"]
  /\ reason = [c \in Credentials |-> "none"]
  /\ expired = {}
  /\ call = [i \in Credentials \X Callers |-> IF i[2] = "flow" THEN "paid" ELSE "idle"]
  /\ why = [i \in Credentials \X Callers |-> "exhausted"]
  /\ served = {}

-----------------------------------------------------------------------------
(* Mutation: a redeemed credential may still be put on hold. *)
SuccessorsOfRedeemed(s) ==
  CASE s \in {"persisted", "recovering"} -> {"recovering"} \cup Terminal
    [] s = "redeemed" -> {"manual_hold"}
    [] OTHER -> {}

(* _VALID_TRANSITIONS, the edges that _transition_sync lets pass. *)
Successors(s) ==
  IF s \in {"persisted", "recovering"} THEN {"recovering"} \cup Terminal ELSE {}

(* Mutation: the UPDATE does not write manual_hold_reason. *)
TransitionWithoutReason(c, s, because) ==
  /\ s \in Successors(row[c])
  /\ row' = [row EXCEPT ![c] = s]
  /\ UNCHANGED reason

(***************************************************************************)
(* store.transition: a legal edge is taken in one transaction, and a hold  *)
(* needs a reason.  An illegal edge, or a failing database, leaves the row *)
(* alone and raises.                                                       *)
(***************************************************************************)
Transition(c, s, because) ==
  /\ s \in Successors(row[c])
  /\ s = "manual_hold" => because # "none"
  /\ row' = [row EXCEPT ![c] = s]
  /\ reason' = [reason EXCEPT ![c] = because]

TransitionFails == UNCHANGED <<row, reason>>

(* store.persist, idempotent on (request_id, rail). *)
Persist(c) ==
  /\ At(c, "flow", "paid")
  /\ row' = [row EXCEPT ![c] = IF @ = "absent" THEN "persisted" ELSE @]
  /\ Goto(c, "flow", "retrying")
  /\ UNCHANGED <<reason, expired, why, served>>

(* The retry proceeds without recovery tracking. *)
PersistFails(c) ==
  /\ At(c, "flow", "paid")
  /\ Goto(c, "flow", "ended")
  /\ UNCHANGED <<row, reason, expired, why, served>>

-----------------------------------------------------------------------------
(* _handle_credential_post_response: 2xx and 3xx redeem, the rest recovers. *)
RetrySucceeds(c) ==
  /\ At(c, "flow", "retrying")
  /\ served' = served \cup {c}
  /\ Goto(c, "flow", "marking")
  /\ UNCHANGED <<row, reason, expired, why>>

RetryFails(c) ==
  /\ At(c, "flow", "retrying")
  /\ Goto(c, "flow", "loading")
  /\ UNCHANGED <<row, reason, expired, why, served>>

(* mark_redeemed, and the end of a recovery that succeeded. *)
Redeem(c, w) ==
  /\ call[<<c, w>>] \in {"marking", "redeeming"}
  /\ Transition(c, "redeemed", "none") \/ TransitionFails
  /\ Goto(c, w, "ended")
  /\ UNCHANGED <<expired, why, served>>

-----------------------------------------------------------------------------
HoldReason(c) == IF c \in expired THEN "expired" ELSE "exhausted"

(***************************************************************************)
(* attempt_recovery reads the row: it returns from a terminal state, puts  *)
(* an expired credential on hold, and otherwise enters RECOVERING.         *)
(***************************************************************************)
AfterLoad(c) ==
  IF row[c] \in Terminal \cup {"absent"} THEN "ended"
  ELSE IF c \in expired THEN "holding"
  ELSE "entering"

Load(c, w) ==
  /\ At(c, w, "loading")
  /\ Goto(c, w, AfterLoad(c))
  /\ why' = [why EXCEPT ![<<c, w>>] = HoldReason(c)]
  /\ UNCHANGED <<row, reason, expired, served>>

(* The read of the row raises; the flow logs it and goes on. *)
LoadFails(c, w) ==
  /\ At(c, w, "loading")
  /\ Goto(c, w, "ended")
  /\ UNCHANGED <<row, reason, expired, why, served>>

(* Mutation: a transition that fails is tried again. *)
EnterUntilItWorks(c, w) ==
  /\ At(c, w, "entering")
  /\ \/ Transition(c, "recovering", "none") /\ Goto(c, w, "replaying")
     \/ TransitionFails /\ Goto(c, w, "loading")
  /\ UNCHANGED <<expired, why, served>>

(* A transition that fails ends the recovery: raised or reported exhausted. *)
Enter(c, w) ==
  /\ At(c, w, "entering")
  /\ \/ Transition(c, "recovering", "none") /\ Goto(c, w, "replaying")
     \/ TransitionFails /\ Goto(c, w, "ended")
  /\ UNCHANGED <<expired, why, served>>

(* strategy.recover replays the credential at the fulfilment URLs. *)
ReplaySucceeds(c, w) ==
  /\ At(c, w, "replaying")
  /\ served' = served \cup {c}
  /\ Goto(c, w, "redeeming")
  /\ UNCHANGED <<row, reason, expired, why>>

(* Mutation: an exhausted strategy is reported as a success. *)
ReplayFailsRedeemed(c, w) ==
  /\ At(c, w, "replaying")
  /\ Goto(c, w, "redeeming")
  /\ UNCHANGED <<row, reason, expired, why, served>>

(* No shape, no step left, a transport error, or the strategy raises. *)
ReplayFails(c, w) ==
  /\ At(c, w, "replaying")
  /\ Goto(c, w, "holding")
  /\ UNCHANGED <<row, reason, expired, why, served>>

(* _terminal: the transition, whose failure is swallowed. *)
Hold(c, w) ==
  /\ At(c, w, "holding")
  /\ Transition(c, "manual_hold", why[<<c, w>>]) \/ TransitionFails
  /\ Goto(c, w, "ended")
  /\ UNCHANGED <<expired, why, served>>

-----------------------------------------------------------------------------
FlowStep(c) ==
  Persist(c) \/ PersistFails(c) \/ RetrySucceeds(c) \/ RetryFails(c)

(* attempt_recovery is called for a credential found in the store. *)
StartJob(c, j) ==
  /\ At(c, j, "idle")
  /\ row[c] # "absent"
  /\ Goto(c, j, "loading")
  /\ UNCHANGED <<row, reason, expired, why, served>>

RecoveryStep(c, w) ==
  \/ Load(c, w) \/ LoadFails(c, w) \/ Enter(c, w)
  \/ ReplaySucceeds(c, w) \/ ReplayFails(c, w)
  \/ Redeem(c, w) \/ Hold(c, w)

(* The process ends, or the request is cancelled, in the middle of a call. *)
Crash(c, w) ==
  /\ call[<<c, w>>] \notin Over \cup {"idle"}
  /\ Goto(c, w, "crashed")
  /\ UNCHANGED <<row, reason, expired, why, served>>

Expire(c) ==
  /\ c \notin expired
  /\ expired' = expired \cup {c}
  /\ UNCHANGED <<row, reason, call, why, served>>

Next ==
  \E c \in Credentials :
    \/ FlowStep(c)
    \/ \E j \in Jobs : StartJob(c, j)
    \/ \E w \in Callers : RecoveryStep(c, w) \/ Crash(c, w)
    \/ Expire(c)

Spec == Init /\ [][Next]_vars

(* A call that is not cut off runs on: every await in it returns or raises. *)
FairSpec ==
  /\ Spec
  /\ \A c \in Credentials : WF_vars(FlowStep(c))
  /\ \A c \in Credentials, w \in Callers : WF_vars(RecoveryStep(c, w))

-----------------------------------------------------------------------------
(***************************************************************************)
(* Type invariant: rows, calls and histories have their types.             *)
(***************************************************************************)
TypeOK ==
  /\ row \in [Credentials -> RowStates]
  /\ reason \in [Credentials -> Reasons \cup {"none"}]
  /\ expired \subseteq Credentials
  /\ call \in [Credentials \X Callers -> Places]
  /\ why \in [Credentials \X Callers -> Reasons]
  /\ served \subseteq Credentials

Machine == INSTANCE CredentialStateMachine WITH state <- row

(***************************************************************************)
(* However the calls on a credential interleave, fail and crash, the rows  *)
(* follow the documented state machine: in particular a credential that is *)
(* redeemed or on hold stays so, although a call that has seen it alive    *)
(* may want to move it (_transition_sync).                                 *)
(***************************************************************************)
FollowsStateMachine == Machine!MachineSpec

(***************************************************************************)
(* A credential is redeemed only if a response has really answered it, and *)
(* one that has been answered is on hold only if a second caller has been  *)
(* at work: the flow alone never gives up a credential that has served.    *)
(***************************************************************************)
RowsTellService ==
  \A c \in Credentials :
    /\ row[c] = "redeemed" => c \in served
    /\ row[c] = "manual_hold" /\ c \in served => \E j \in Jobs : ~ At(c, j, "idle")

(***************************************************************************)
(* The reason of a hold is recorded with the hold and only with it, and a  *)
(* credential held as expired has expired (_terminal, _transition_sync).   *)
(***************************************************************************)
HoldsHaveReasons ==
  \A c \in Credentials :
    /\ reason[c] # "none" <=> row[c] = "manual_hold"
    /\ reason[c] = "expired" => c \in expired

(***************************************************************************)
(* Every call comes to an end: a flow that has paid, and a recovery that   *)
(* has begun, is over some time, unless a crash cuts it off.               *)
(***************************************************************************)
CallsEnd ==
  \A c \in Credentials, w \in Callers : call[<<c, w>>] # "idle" ~> call[<<c, w>>] \in Over
=============================================================================
