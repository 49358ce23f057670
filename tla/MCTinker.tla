------------------------------ MODULE MCTinker ------------------------------
(***************************************************************************)
(* Tinker on small files: a network and a key vault in a resource group,   *)
(* with a traffic manager beside them; or a subnet of the network, and     *)
(* a secret.  The switch of delete has no case for a traffic manager, and  *)
(* that of either command hides the error of a secret.                     *)
(***************************************************************************)
EXTENDS Tinker

MCTasks == {"group", "network", "vault", "profile", "subnet", "secret"}
MCKinds == [group |-> "ResourceGroup", network |-> "VirtualNetwork",
            vault |-> "Keyvault", profile |-> "TrafficManager",
            subnet |-> "Subnet", secret |-> "Secret"]
MCNeeds == [group |-> {}, network |-> {"group"}, vault |-> {"group"}, profile |-> {},
            subnet |-> {"network"}, secret |-> {"vault"}]

Deployment == {"group", "network", "vault", "profile"}
Addition == {"subnet", "secret"}
MCFiles == [ensure |-> {Deployment, Addition}, delete |-> {Deployment, Addition}]

\* Calls to Azure and to Kubernetes fail, operations fail, in both commands.
MCFaults == [c \in DOMAIN MCFiles |-> {"arm", "kube", "failedOp"}]
=============================================================================
