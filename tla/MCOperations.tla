---------------------------- MODULE MCOperations ----------------------------
(***************************************************************************)
(* What users and administrators ask for beside the conversation: test     *)
(* environments and approvals.  The parts do not share state: a behaviour  *)
(* runs one of them and leaves the other where it starts.                  *)
(***************************************************************************)
EXTENDS TestProvision, ControlActions

VARIABLE part

Init == part \in {"provision", "approval"} /\ ProvisionInit /\ ActionsInit

\* One start state is enough for a part that stays where it is.
InitPart == Init /\ (part # "provision" => ~test.active)

Next ==
  \/ part = "provision" /\ ProvisionNext /\ UNCHANGED <<part, avars>>
  \/ part = "approval" /\ ActionsNext /\ UNCHANGED <<part, pvars>>

\* ProvisionFairness, where provisioning is the part that runs.
PartFairness ==
  /\ \A w \in Runs : WF_pvars(part = "provision" /\ RunStep(w))
  /\ \A r \in Replicas : WF_pvars(part = "provision" /\ ScanStep(r))

Spec == InitPart /\ [][Next]_<<part, pvars, avars>> /\ PartFairness
=============================================================================
