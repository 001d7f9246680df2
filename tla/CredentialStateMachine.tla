----------------------- MODULE CredentialStateMachine -----------------------
(***************************************************************************)
(* What the credential store promises (credentials/store.py): a credential *)
(* is persisted once and moves along the edges of _VALID_TRANSITIONS only. *)
(***************************************************************************)
CONSTANT Credentials

VARIABLE state   \* credentials.state of each credential, "absent" without a row

Terminal == {"redeemed", "manual_hold"}

(* _VALID_TRANSITIONS. *)
Successors(s) ==
  IF s \in {"persisted", "recovering"} THEN {"recovering"} \cup Terminal ELSE {}

MachineInit == state = [c \in Credentials |-> "absent"]

Insert(c) ==
  /\ state[c] = "absent"
  /\ state' = [state EXCEPT ![c] = "persisted"]

Move(c, s) ==
  /\ s \in Successors(state[c])
  /\ state' = [state EXCEPT ![c] = s]

MachineNext ==
  \E c \in Credentials : Insert(c) \/ \E s \in {"recovering"} \cup Terminal : Move(c, s)

MachineSpec == MachineInit /\ [][MachineNext]_state
=============================================================================
