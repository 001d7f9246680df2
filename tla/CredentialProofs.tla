------------------------- MODULE CredentialProofs -------------------------
(***************************************************************************)
(* Proofs about CredentialLifecycle, for any set of credentials and any    *)
(* set of recovery jobs.                                                   *)
(***************************************************************************)
EXTENDS CredentialLifecycle, TLAPS

(* What a step of one call on one credential can do to row and reason. *)
RowSteps(c) ==
  \/ UNCHANGED <<row, reason>>
  \/ /\ row' = [row EXCEPT ![c] = IF @ = "absent" THEN "persisted" ELSE @]
     /\ UNCHANGED reason
  \/ \E s \in {"recovering"} \cup Terminal, b \in Reasons \cup {"none"} : Transition(c, s, b)

(* Every step writes the row of one credential at most, and no row but    *)
(* through persist or transition.                                         *)
LEMMA RowsMoveByTransition ==
  TypeOK /\ [Next]_vars => UNCHANGED <<row, reason>> \/ \E c \in Credentials : RowSteps(c)
<1> SUFFICES ASSUME TypeOK, [Next]_vars, ~ UNCHANGED <<row, reason>>
             PROVE  \E c \in Credentials : RowSteps(c)
  OBVIOUS
<1>1. Next
  BY DEF vars
<1>2. PICK c \in Credentials :
        \/ FlowStep(c)
        \/ \E j \in Jobs : StartJob(c, j)
        \/ \E w \in Callers : RecoveryStep(c, w) \/ Crash(c, w)
        \/ Expire(c)
  BY <1>1 DEF Next
<1>3. CASE FlowStep(c)
  BY <1>2, <1>3 DEF FlowStep, Persist, PersistFails, RetrySucceeds, RetryFails, RowSteps
<1>4. CASE \E j \in Jobs : StartJob(c, j)
  BY <1>4 DEF StartJob
<1>5. ASSUME NEW w \in Callers, RecoveryStep(c, w)
      PROVE  RowSteps(c)
  <2>1. CASE Load(c, w) \/ LoadFails(c, w) \/ ReplaySucceeds(c, w) \/ ReplayFails(c, w)
    BY <2>1 DEF Load, LoadFails, ReplaySucceeds, ReplayFails
  <2>2. CASE Enter(c, w)
    BY <2>2 DEF Enter, TransitionFails, RowSteps
  <2>3. CASE Redeem(c, w)
    BY <2>3 DEF Redeem, TransitionFails, RowSteps, Terminal
  <2>4. CASE Hold(c, w)
    <3>1. why[<<c, w>>] \in Reasons
      BY <1>2, <1>5 DEF TypeOK
    <3>2. QED BY <2>4, <3>1 DEF Hold, TransitionFails, RowSteps, Terminal
  <2>5. QED BY <1>5, <2>1, <2>2, <2>3, <2>4 DEF RecoveryStep
<1>6. CASE \E w \in Callers : Crash(c, w)
  BY <1>6 DEF Crash
<1>7. CASE Expire(c)
  BY <1>7 DEF Expire
<1>8. QED BY <1>2, <1>3, <1>4, <1>5, <1>6, <1>7

-----------------------------------------------------------------------------
(* What a step does to the rest: the calls and the histories keep their   *)
(* types.                                                                 *)
LEMMA CallsKeepTypes ==
  TypeOK /\ [Next]_vars
    => /\ expired' \subseteq Credentials
       /\ served' \subseteq Credentials
       /\ call' \in [Credentials \X Callers -> Places]
       /\ why' \in [Credentials \X Callers -> Reasons]
<1> SUFFICES ASSUME TypeOK, [Next]_vars
             PROVE  /\ expired' \subseteq Credentials
                    /\ served' \subseteq Credentials
                                 /\ call' \in [Credentials \X Callers -> Places]
                    /\ why' \in [Credentials \X Callers -> Reasons]
  OBVIOUS
<1> USE DEF TypeOK
<1>1. CASE UNCHANGED vars
  BY <1>1 DEF vars
<1>2. ASSUME NEW c \in Credentials, FlowStep(c)
      PROVE  /\ UNCHANGED <<expired, why>>
             /\ served' \subseteq Credentials
             /\ call' \in [Credentials \X Callers -> Places]
  BY <1>2 DEF FlowStep, Persist, PersistFails, RetrySucceeds, RetryFails, Goto, Places, Over, Callers
<1>3. ASSUME NEW c \in Credentials, NEW j \in Jobs, StartJob(c, j)
      PROVE  /\ UNCHANGED <<expired, why, served>>
             /\ call' \in [Credentials \X Callers -> Places]
  BY <1>3 DEF StartJob, Goto, Places
<1>4. ASSUME NEW c \in Credentials, NEW w \in Callers, RecoveryStep(c, w)
      PROVE  /\ UNCHANGED expired
             /\ served' \subseteq Credentials
                   /\ call' \in [Credentials \X Callers -> Places]
             /\ why' \in [Credentials \X Callers -> Reasons]
  <2>1. CASE Load(c, w)
    BY <2>1 DEF Load, Goto, AfterLoad, HoldReason, Places, Over, Reasons
  <2>2. CASE LoadFails(c, w) \/ Enter(c, w) \/ ReplayFails(c, w) \/ Redeem(c, w) \/ Hold(c, w)
    BY <2>2 DEF LoadFails, Enter, ReplayFails, Redeem, Hold, Goto, Places, Over
  <2>3. CASE ReplaySucceeds(c, w)
    BY <2>3 DEF ReplaySucceeds, Goto, Places, Over
  <2>4. QED BY <1>4, <2>1, <2>2, <2>3 DEF RecoveryStep
<1>5. ASSUME NEW c \in Credentials, NEW w \in Callers, Crash(c, w)
      PROVE  /\ UNCHANGED <<expired, why, served>>
             /\ call' \in [Credentials \X Callers -> Places]
  BY <1>5 DEF Crash, Goto, Places, Over
<1>6. ASSUME NEW c \in Credentials, Expire(c)
      PROVE  /\ expired' \subseteq Credentials
             /\ UNCHANGED <<call, why, served>>
  BY <1>6 DEF Expire
<1>7. QED BY <1>1, <1>2, <1>3, <1>4, <1>5, <1>6 DEF Next

(* The type invariant is inductive. *)
LEMMA TypeStep == TypeOK /\ [Next]_vars => TypeOK'
<1> SUFFICES ASSUME TypeOK, [Next]_vars
             PROVE  TypeOK'
  OBVIOUS
<1>1. /\ row' \in [Credentials -> RowStates]
      /\ reason' \in [Credentials -> Reasons \cup {"none"}]
  <2>1. CASE UNCHANGED <<row, reason>>
    BY <2>1 DEF TypeOK
  <2>2. ASSUME NEW c \in Credentials, RowSteps(c)
        PROVE  /\ row' \in [Credentials -> RowStates]
               /\ reason' \in [Credentials -> Reasons \cup {"none"}]
    BY <2>2 DEF TypeOK, RowSteps, Transition, RowStates, Terminal
  <2>3. QED BY <2>1, <2>2, RowsMoveByTransition
<1>2. QED BY <1>1, CallsKeepTypes DEF TypeOK

(* The initial state has the types of the invariant. *)
LEMMA TypeInit == Init => TypeOK
BY DEF Init, TypeOK, RowStates, Reasons, Places, Over, Terminal

(* Rows, calls and histories keep their types in every behaviour of the   *)
(* recoverer and the store (credentials/recovery.py, credentials/store.py). *)
THEOREM TypeCorrect == Spec => []TypeOK
<1>1. QED BY TypeInit, TypeStep, PTL DEF Spec

-----------------------------------------------------------------------------
(* Whatever the callers do, the rows follow the documented state machine:  *)
(* the calls of the recoverer implement CredentialStateMachine.            *)
THEOREM ImplementsStateMachine == Spec => FollowsStateMachine
<1>1. Init => Machine!MachineInit
  BY DEF Init, Machine!MachineInit
<1>2. TypeOK /\ [Next]_vars => [Machine!MachineNext]_row
  <2> SUFFICES ASSUME TypeOK, [Next]_vars, row' # row
               PROVE  Machine!MachineNext
    OBVIOUS
  <2>1. PICK c \in Credentials : RowSteps(c)
    BY RowsMoveByTransition
  <2>2. CASE row' = [row EXCEPT ![c] = IF @ = "absent" THEN "persisted" ELSE @]
    <3>1. row[c] = "absent"
      BY <2>2 DEF TypeOK
    <3>2. QED BY <2>2, <3>1 DEF Machine!MachineNext, Machine!Insert
  <2>3. ASSUME NEW s \in {"recovering"} \cup Terminal, NEW b, Transition(c, s, b)
        PROVE  Machine!MachineNext
    <3>1. Machine!Move(c, s)
      BY <2>3 DEF Transition, Successors, Terminal, Machine!Move, Machine!Successors,
                  Machine!Terminal
    <3>2. QED BY <3>1 DEF Machine!MachineNext, Machine!Terminal, Terminal
  <2>4. QED BY <2>1, <2>2, <2>3 DEF RowSteps
<1>3. QED BY <1>1, <1>2, TypeCorrect, PTL DEF Spec, FollowsStateMachine, Machine!MachineSpec

-----------------------------------------------------------------------------
(***************************************************************************)
(* RowsTellService is not inductive: it needs to be known where the calls  *)
(* on an answered credential can be.  A call about to redeem has seen a    *)
(* response; and while no job has started, an answered credential is not   *)
(* on hold and its flow is past every point from which it could be.        *)
(***************************************************************************)
Alone(c) == \A j \in Jobs : call[<<c, j>>] = "idle"

MayStillHold == {"paid", "retrying", "loading", "entering", "replaying", "holding"}

ServiceInv ==
  \A c \in Credentials :
    /\ \A w \in Callers : call[<<c, w>>] \in {"marking", "redeeming"} => c \in served
    /\ row[c] = "redeemed" => c \in served
    /\ Alone(c) => /\ c \in served => /\ row[c] # "manual_hold"
                                      /\ call[<<c, "flow">>] \notin MayStillHold
                   /\ call[<<c, "flow">>] \notin {"holding", "ended", "crashed"}
                        => row[c] # "manual_hold"

(* A credential on hold has a reason, and nobody claims expiry too soon.   *)
ReasonInv ==
  /\ HoldsHaveReasons
  /\ \A c \in Credentials, w \in Callers : why[<<c, w>>] = "expired" => c \in expired

(* A transition, whether it succeeds or fails, touches one row at most.    *)
LEMMA TransitionRows ==
  ASSUME TypeOK, NEW d \in Credentials, NEW s, NEW b, Transition(d, s, b) \/ TransitionFails
  PROVE  \A e \in Credentials : row'[e] = row[e] \/ (e = d /\ row'[e] = s)
BY DEF TypeOK, Transition, TransitionFails

(* ServiceInv, one credential at a time.                                   *)
LEMMA ServiceStep == TypeOK /\ ServiceInv /\ [Next]_vars => ServiceInv'
<1> SUFFICES ASSUME TypeOK, ServiceInv, [Next]_vars, NEW c \in Credentials
             PROVE  /\ \A w \in Callers : call'[<<c, w>>] \in {"marking", "redeeming"} => c \in served'
                    /\ row'[c] = "redeemed" => c \in served'
                    /\ Alone(c)' => /\ c \in served' => /\ row'[c] # "manual_hold"
                                                        /\ call'[<<c, "flow">>] \notin MayStillHold
                                    /\ call'[<<c, "flow">>] \notin {"holding", "ended", "crashed"}
                                         => row'[c] # "manual_hold"
  BY DEF ServiceInv
<1> "flow" \in Callers /\ Jobs \subseteq Callers /\ "flow" \notin Jobs
  BY JobsAssumption DEF Callers
<1> USE DEF TypeOK, ServiceInv, MayStillHold
<1>1. CASE UNCHANGED vars
  BY <1>1 DEF vars, Alone
<1>2. ASSUME NEW d \in Credentials, FlowStep(d)
      PROVE  ServiceInv'
  <2>1. CASE Persist(d)
    <3>1. \A e \in Credentials, w \in Callers :
            call'[<<e, w>>] = IF e = d /\ w = "flow" THEN "retrying" ELSE call[<<e, w>>]
      BY <2>1 DEF Persist, Goto
    <3>2. \A e \in Credentials : row'[e] = row[e] \/ row'[e] = "persisted"
      BY <2>1 DEF Persist
    <3>3. call[<<d, "flow">>] = "paid" /\ served' = served
      BY <2>1 DEF Persist, At
    <3>4. QED BY <3>1, <3>2, <3>3 DEF Alone
  <2>2. CASE PersistFails(d)
    BY <2>2 DEF PersistFails, At, Goto, Alone
  <2>3. CASE RetrySucceeds(d)
    BY <2>3 DEF RetrySucceeds, At, Goto, Alone
  <2>4. CASE RetryFails(d)
    BY <2>4 DEF RetryFails, At, Goto, Alone
  <2>5. QED BY <1>2, <2>1, <2>2, <2>3, <2>4 DEF FlowStep
<1>3. ASSUME NEW d \in Credentials, NEW j \in Jobs, StartJob(d, j)
      PROVE  ServiceInv'
  BY <1>3 DEF StartJob, At, Goto, Alone
<1>4. ASSUME NEW d \in Credentials, NEW v \in Callers, RecoveryStep(d, v)
      PROVE  ServiceInv'
  <2>1. v = "flow" \/ ~ Alone(d)
    BY <1>4 DEF Callers, Alone, RecoveryStep, Load, LoadFails, Enter, ReplaySucceeds,
                ReplayFails, Redeem, Hold, At
  <2>2. CASE Load(d, v)
    BY <2>1, <2>2 DEF Load, At, Goto, Alone, AfterLoad, Terminal
  <2>3. CASE LoadFails(d, v) \/ ReplayFails(d, v)
    BY <2>1, <2>3 DEF LoadFails, ReplayFails, At, Goto, Alone
  <2>4. CASE Enter(d, v)
    <3>1. PICK place \in {"replaying", "ended"} :
            \A e \in Credentials, w \in Callers :
              call'[<<e, w>>] = IF e = d /\ w = v THEN place ELSE call[<<e, w>>]
      BY <2>4 DEF Enter, Goto
    <3>2. \A e \in Credentials : row'[e] = row[e] \/ row'[e] = "recovering"
      BY <2>4 DEF Enter, Transition, TransitionFails
    <3>3. call[<<d, v>>] = "entering" /\ served' = served
      BY <2>4 DEF Enter, At
    <3>4. \A e \in Credentials : Alone(e)' => Alone(e)
      BY <3>1 DEF Alone
    <3>5. ASSUME NEW e \in Credentials
          PROVE  ServiceInv!(e)'
      <4>1. CASE e # d
        BY <3>1, <3>2, <3>3, <3>4, <4>1
      <4>2. CASE e = d
        BY <2>1, <3>1, <3>2, <3>3, <3>4, <4>2
      <4>3. QED BY <4>1, <4>2
    <3>6. QED BY <3>5
  <2>5. CASE ReplaySucceeds(d, v)
    BY <2>1, <2>5 DEF ReplaySucceeds, At, Goto, Alone
  <2>6. CASE Redeem(d, v)
    <3>1. \A e \in Credentials, w \in Callers :
            call'[<<e, w>>] = IF e = d /\ w = v THEN "ended" ELSE call[<<e, w>>]
      BY <2>6 DEF Redeem, Goto
    <3>2. \A e \in Credentials : row'[e] = row[e] \/ (e = d /\ row'[e] = "redeemed")
      BY <2>6, TransitionRows DEF Redeem
    <3>3. call[<<d, v>>] \in {"marking", "redeeming"} /\ served' = served
      BY <2>6 DEF Redeem
    <3>4. \A e \in Credentials : Alone(e)' => Alone(e)
      BY <3>1 DEF Alone
    <3>5. ASSUME NEW e \in Credentials
          PROVE  ServiceInv!(e)'
      <4>1. CASE e # d
        BY <3>1, <3>2, <3>3, <3>4, <4>1
      <4>2. CASE e = d
        BY <2>1, <3>1, <3>2, <3>3, <3>4, <4>2
      <4>3. QED BY <4>1, <4>2
    <3>6. QED BY <3>5
  <2>7. CASE Hold(d, v)
    <3>1. \A e \in Credentials, w \in Callers :
            call'[<<e, w>>] = IF e = d /\ w = v THEN "ended" ELSE call[<<e, w>>]
      BY <2>7 DEF Hold, Goto
    <3>2. \A e \in Credentials : row'[e] = row[e] \/ (e = d /\ row'[e] = "manual_hold")
      BY <2>7, TransitionRows DEF Hold
    <3>3. call[<<d, v>>] = "holding" /\ served' = served
      BY <2>7 DEF Hold, At
    <3>4. \A e \in Credentials : Alone(e)' => Alone(e)
      BY <3>1 DEF Alone
    <3>5. ASSUME NEW e \in Credentials
          PROVE  ServiceInv!(e)'
      <4>1. CASE e # d
        BY <3>1, <3>2, <3>3, <3>4, <4>1
      <4>2. CASE e = d
        BY <2>1, <3>1, <3>2, <3>3, <3>4, <4>2
      <4>3. QED BY <4>1, <4>2
    <3>6. QED BY <3>5
  <2>8. QED BY <1>4, <2>2, <2>3, <2>4, <2>5, <2>6, <2>7 DEF RecoveryStep
<1>5. ASSUME NEW d \in Credentials, NEW v \in Callers, Crash(d, v)
      PROVE  ServiceInv'
  BY <1>5 DEF Crash, Goto, Alone, Over
<1>6. ASSUME NEW d \in Credentials, Expire(d)
      PROVE  ServiceInv'
  BY <1>6 DEF Expire, Alone
<1>7. QED BY <1>1, <1>2, <1>3, <1>4, <1>5, <1>6 DEF Next

(* A redeemed credential has been answered, and the flow alone never puts  *)
(* an answered credential on hold (attempt_recovery).                      *)
THEOREM RowsTellTheService == Spec => []RowsTellService
<1>1. Init => ServiceInv
  BY JobsAssumption DEF Init, ServiceInv, Callers
<1>2. TypeOK /\ ServiceInv => RowsTellService
  BY DEF ServiceInv, RowsTellService, At, Alone
<1>3. QED BY <1>1, <1>2, ServiceStep, TypeCorrect, PTL DEF Spec

-----------------------------------------------------------------------------
(* The reasons of the held credentials stay with their rows. *)
LEMMA ReasonStep == TypeOK /\ ReasonInv /\ [Next]_vars => ReasonInv'
<1> SUFFICES ASSUME TypeOK, ReasonInv, [Next]_vars
             PROVE  ReasonInv'
  OBVIOUS
<1> USE DEF TypeOK, ReasonInv, HoldsHaveReasons
<1>1. CASE UNCHANGED vars
  BY <1>1 DEF vars
<1>2. ASSUME NEW d \in Credentials, FlowStep(d)
      PROVE  ReasonInv'
  BY <1>2 DEF FlowStep, Persist, PersistFails, RetrySucceeds, RetryFails
<1>3. ASSUME NEW d \in Credentials, NEW j \in Jobs, StartJob(d, j)
      PROVE  ReasonInv'
  BY <1>3 DEF StartJob
<1>4. ASSUME NEW d \in Credentials, NEW v \in Callers, RecoveryStep(d, v)
      PROVE  ReasonInv'
  <2>1. CASE Load(d, v)
    BY <2>1 DEF Load, HoldReason
  <2>2. CASE LoadFails(d, v) \/ ReplaySucceeds(d, v) \/ ReplayFails(d, v)
    BY <2>2 DEF LoadFails, ReplaySucceeds, ReplayFails
  <2>3. CASE Enter(d, v)
    BY <2>3 DEF Enter, Transition, TransitionFails, Successors, Reasons
  <2>4. CASE Redeem(d, v)
    BY <2>4 DEF Redeem, Transition, TransitionFails, Successors, Reasons
  <2>5. CASE Hold(d, v)
    BY <2>5 DEF Hold, Transition, TransitionFails, Reasons
  <2>6. QED BY <1>4, <2>1, <2>2, <2>3, <2>4, <2>5 DEF RecoveryStep
<1>5. ASSUME NEW d \in Credentials, NEW v \in Callers, Crash(d, v)
      PROVE  ReasonInv'
  BY <1>5 DEF Crash
<1>6. ASSUME NEW d \in Credentials, Expire(d)
      PROVE  ReasonInv'
  BY <1>6 DEF Expire
<1>7. QED BY <1>1, <1>2, <1>3, <1>4, <1>5, <1>6 DEF Next

(* A hold has a reason, and a reason a hold; nothing is held as expired    *)
(* that has not expired (_terminal and _transition_sync).                  *)
THEOREM HoldsAreExplained == Spec => []HoldsHaveReasons
<1>1. Init => ReasonInv
  BY DEF Init, ReasonInv, HoldsHaveReasons
<1>2. ReasonInv => HoldsHaveReasons
  BY DEF ReasonInv
<1>3. QED BY <1>1, <1>2, ReasonStep, TypeCorrect, PTL DEF Spec
=============================================================================
