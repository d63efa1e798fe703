------------------------------- MODULE MCParts -------------------------------
(***************************************************************************)
(* The parts of the extension that share no state with one another, in one *)
(* instance for TLC: the admission, the credentials, the control plane and *)
(* its webhook.  Only one of them moves in a behaviour, the others stay as *)
(* they are in the beginning, where no action of theirs that is fair is    *)
(* enabled.                                                                *)
(***************************************************************************)
EXTENDS MCAdmission, Credentials, ControlPlane, ControlPlaneEnsurer

CONSTANTS t1, t2, p1, p2, malformed, fast, slow

(* Two accounts in two projects, one of them with a kubeconfig the owner     *)
(* made; a secret without a token, and one whose namespace is no name.    *)
MCDatas ==
  LET Secret(token, namespace, kubeconfig) ==
        [token |-> token, namespace |-> namespace, username |-> "user", kubeconfig |-> kubeconfig]
      foreign ==
        [server |-> "elsewhere", token |-> t1, username |-> "user", namespace |-> p1]
  IN  {Secret(t1, p1, Missing), Secret(t2, p2, foreign),
       Secret(Missing, p2, Missing), Secret(t1, malformed, Missing)}

MCMayBe ==
  [class \in {fast, slow} |-> IF class = fast THEN {"missing", "ExpandOnly"} ELSE {"Static"}]

(* No flag is given twice; whatever Gardener writes may lack a container.  *)
Commands ==
  SetToAllKPermutations({Flag("--v", "2"), Flag("--cloud-provider", "other"), Flag("--cloud-config", "file")})

Containers(name) ==
  UNION {SetToAllKPermutations({[name |-> name, command |-> c], [name |-> "vpn", command |-> c]}) :
           c \in Commands}

Deployments(name) == {[containers |-> c, volumes |-> <<>>] : c \in Containers(name)}

OldSidecar == [name |-> Sidecar, command |-> <<>>, mounts |-> <<>>]
Manager    == [name |-> "machine-controller-manager", command |-> <<>>]

MCWritten ==
  [kind \in Kinds |->
     CASE kind \in {"kube-apiserver", "kube-controller-manager"} -> Deployments(kind)
       [] kind = "machine-controller-manager" ->
            [containers : SetToAllKPermutations({OldSidecar, Manager}),
             volumes    : SetToAllKPermutations({[name |-> "cloudprovider", secret |-> "other"],
                                                 [name |-> "logs", secret |-> "none"]})]
       [] kind = "vpa" -> SetToAllKPermutations({[name |-> Sidecar], [name |-> Manager.name]})
       [] kind = "kubelet" ->
            UNION {SetToAllKPermutations({[name |-> "ExecStart", command |-> c], SetHostname,
                                          [name |-> "ExecStartPre", command |-> "mkdir"]}) :
                     c \in Commands}]

PartsInit == Init /\ CredentialsInit /\ ControlPlaneInit /\ EnsurerInit

PartsNext ==
  \/ /\ CredentialsInit /\ ControlPlaneInit /\ EnsurerInit
     /\ Next /\ UNCHANGED <<credentialsVars, controlPlaneVars, component>>
  \/ /\ Init /\ ControlPlaneInit /\ EnsurerInit
     /\ CredentialsNext /\ UNCHANGED <<portsVars, imagesVars, controlPlaneVars, component>>
  \/ /\ Init /\ CredentialsInit /\ EnsurerInit
     /\ ControlPlaneNext /\ UNCHANGED <<portsVars, imagesVars, credentialsVars, component>>
  \/ /\ Init /\ CredentialsInit /\ ControlPlaneInit
     /\ EnsurerNext /\ UNCHANGED <<portsVars, imagesVars, credentialsVars, controlPlaneVars>>

FairSpec ==
  /\ PartsInit
  /\ [][PartsNext]_<<portsVars, imagesVars, credentialsVars, controlPlaneVars, component>>
  /\ CredentialsFairness /\ ControlPlaneFairness
=============================================================================
