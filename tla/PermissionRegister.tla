------------------------ MODULE PermissionRegister ------------------------
(***************************************************************************)
(* What the permissions of one group on one cluster promise: a register of  *)
(* the applications the group may use, which is granted and withdrawn from  *)
(* one request at a time.  Requests that overlap, one whose read fails and  *)
(* one whose change is made but not answered leave it unspecified until     *)
(* they are over and nobody sees the permissions from before.               *)
(***************************************************************************)
CONSTANTS Apps, All, Unspecified

VARIABLES allowed, verdict

registerVars == <<allowed, verdict>>

Permissions == (SUBSET Apps) \cup {{All}}
Verdicts == [app : Apps, may : BOOLEAN]

RegisterInit == allowed = {All} /\ verdict = Unspecified

(* All applications are granted until one is named.                        *)
Grant(a) ==
  /\ allowed # Unspecified
  /\ allowed' = (allowed \ {All}) \cup {a}
  /\ UNCHANGED verdict

GrantAll == allowed # Unspecified /\ allowed' = {All} /\ UNCHANGED verdict

Withdraw(a) ==
  /\ allowed # Unspecified /\ a \in allowed
  /\ allowed' = allowed \ {a}
  /\ UNCHANGED verdict

WithdrawAll == allowed # Unspecified /\ allowed' = {} /\ UNCHANGED verdict

Ask(a) ==
  /\ allowed # Unspecified
  /\ verdict' = [app |-> a, may |-> allowed \cap {a, All} # {}]
  /\ UNCHANGED allowed

Disturb == allowed' = Unspecified /\ verdict' = Unspecified

Settle ==
  /\ allowed = Unspecified
  /\ allowed' \in Permissions /\ verdict' \in Verdicts \cup {Unspecified}

RegisterNext ==
  \/ GrantAll \/ WithdrawAll \/ Disturb \/ Settle
  \/ \E a \in Apps : Grant(a) \/ Withdraw(a) \/ Ask(a)

RegisterSpec == RegisterInit /\ [][RegisterNext]_registerVars
=============================================================================
