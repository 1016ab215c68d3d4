------------------------------ MODULE LinuxCli ------------------------------
(***************************************************************************)
(* The headless Linux CLI (desktop/cli.py): commands that each run in a    *)
(* process of their own and share two files, the credential                *)
(* (linux_credential_store.py) and the state (state.py), and one cluster,  *)
(* k3s on the host (native_k3s.py) with the Secret deployed into it.       *)
(* Nothing locks the files, and a command may be killed, or raise, at any  *)
(* step. status, logs, activate and diagnostics write nothing; the sync of *)
(* the allocation to Cloud is best-effort and changes nothing here. The    *)
(* gVisor script is the one LocalCluster models; here it is a step that    *)
(* may fail. A login's polling is the loop LoginFlow models.               *)
(***************************************************************************)

CONSTANTS Procs,        \* processes in which commands run
          Grants,       \* logins that can complete
          Devices, Allocs,
          DefaultAlloc, \* default_allocation of this host
          None, Torn

ASSUME CliAssumption ==
    /\ DefaultAlloc \in Allocs
    /\ None \notin Grants \cup Devices \cup Allocs
    /\ Torn \notin [device: Devices \cup {None}, alloc: Allocs \cup {None}]

VARIABLES token,     \* the credential file
          file,      \* the state file
          deviceOf,  \* Cloud: the device each completed login registered
          k3s,       \* is there a cluster, and does its service run
          kube,      \* the kubeconfig's entries "browseterm": do they reach it
          secret,    \* the device-credential Secret in the cluster
          cmd,       \* each process: the command, its step and its locals
          raced,     \* history: a command wrote while another was running
          chosen     \* history: the allocation last saved; None after a cut save

cluster == <<k3s, kube, secret>>
vars    == <<token, file, deviceOf, cluster, cmd, raced, chosen>>

States == [device: Devices \cup {None}, alloc: Allocs \cup {None}]
EmptyState == [device |-> None, alloc |-> None]

Commands == {"setup", "repair", "configure", "uninstall", "purge"}

\* The save each step completes, and where the command goes on.
AfterWrite == [writeDefaults |-> "login", writeDevice |-> "choose",
               writeChoice |-> "install", writeClear |-> "forget"]
Writing == DOMAIN AfterWrite
CmdSteps == Writing \cup {"load", "credential", "login", "storeToken", "storeDevice", "choose",
                          "install", "merge", "deploy", "remove", "clean", "clear", "forget"}

NoCmd == [name |-> "none", step |-> "idle", token |-> None, device |-> None, alloc |-> None]

Goto(p, step) == cmd' = [cmd EXCEPT ![p].step = step]
End(p) == cmd' = [cmd EXCEPT ![p] = NoCmd]

Others(p) == {q \in Procs \ {p} : cmd[q].step # "idle"}
Writes(p) == raced' = (raced \/ Others(p) # {})

\* load_state: what does not parse, or is not there, is a fresh state.
LoadState == IF file = Torn THEN EmptyState ELSE file

\* save opens the file, which empties it, and then writes the text; over
\* another's text that came in between it may leave one that does not parse.
Truncate(p) == file' = EmptyState /\ Writes(p)
Written(state) == IF file = EmptyState THEN {state} ELSE {state, Torn}

-----------------------------------------------------------------------------
Init ==
    /\ token = None
    /\ file = EmptyState
    /\ deviceOf = [g \in Grants |-> None]
    /\ k3s = "absent" /\ kube = "none" /\ secret = None
    /\ cmd = [p \in Procs |-> NoCmd]
    /\ raced = FALSE /\ chosen = None

\* The user, as root; uninstall reads the state only once k3s is gone.
Invoke(p, name) ==
    /\ cmd[p].step = "idle"
    /\ cmd' = [cmd EXCEPT ![p] = [NoCmd EXCEPT !.name = name,
                 !.step = IF name \in {"uninstall", "purge"} THEN "remove" ELSE "load"]]
    /\ UNCHANGED <<token, file, deviceOf, cluster, raced, chosen>>

\* CliError, ClusterError, any other exception, Ctrl-C or a kill.
Dies(p) ==
    /\ cmd[p].step # "idle"
    /\ End(p)
    /\ chosen' = IF cmd[p].step \in Writing THEN None ELSE chosen
    /\ UNCHANGED <<token, file, deviceOf, cluster, raced>>

\* Mutant: a text that does not parse is used as it is.
Load_Raw(p) ==
    /\ cmd[p].step = "load"
    /\ cmd' = [cmd EXCEPT ![p].device = IF file = Torn THEN Torn ELSE file.device,
                          ![p].alloc = LoadState.alloc,
                          ![p].step = IF cmd[p].name = "configure" THEN "choose" ELSE "credential"]
    /\ UNCHANGED <<token, file, deviceOf, cluster, raced, chosen>>

Load(p) ==
    /\ cmd[p].step = "load"
    /\ cmd' = [cmd EXCEPT ![p].device = LoadState.device,
                          ![p].alloc = LoadState.alloc,
                          ![p].step = IF cmd[p].name = "configure" THEN "choose" ELSE "credential"]
    /\ UNCHANGED <<token, file, deviceOf, cluster, raced, chosen>>

\* The state as the command knows it is written.
WriteState(p) ==
    /\ cmd[p].step \in Writing
    /\ file' \in Written([device |-> cmd[p].device, alloc |-> cmd[p].alloc])
    /\ IF cmd[p].step = "writeChoice" /\ cmd[p].name = "configure"
       THEN End(p)
       ELSE cmd' = [cmd EXCEPT ![p].step = AfterWrite[@],
                               ![p].alloc = IF cmd[p].step \in {"writeChoice", "writeClear"} THEN None ELSE @]
    /\ Writes(p)
    /\ chosen' = IF \/ cmd[p].step = "writeChoice"
                    \/ cmd[p].step = "writeDefaults" /\ chosen = None
                 THEN cmd[p].alloc ELSE chosen
    /\ UNCHANGED <<token, deviceOf, cluster>>

(***************************************************************************)
(* ensure_login                                                            *)
(***************************************************************************)
\* A stored credential is used as it is.
FindCredential(p) ==
    /\ cmd[p].step = "credential" /\ cmd[p].name = "setup"
    /\ token # None
    /\ cmd' = [cmd EXCEPT ![p].token = token, ![p].step = "choose"]
    /\ UNCHANGED <<token, file, deviceOf, cluster, raced, chosen>>

\* Mutant: the defaults replace the allocation that is there.
NoCredential_Defaults(p) ==
    /\ cmd[p].step = "credential" /\ cmd[p].name = "setup"
    /\ token = None /\ cmd[p].alloc # None
    /\ cmd' = [cmd EXCEPT ![p].alloc = DefaultAlloc, ![p].step = "writeDefaults"]
    /\ Truncate(p)
    /\ UNCHANGED <<token, deviceOf, cluster, chosen>>

\* ensure_allocation_defaults finds a value.
NoCredential(p) ==
    /\ cmd[p].step = "credential" /\ cmd[p].name = "setup"
    /\ token = None /\ cmd[p].alloc # None
    /\ Goto(p, "login")
    /\ UNCHANGED <<token, file, deviceOf, cluster, raced, chosen>>

\* It finds none, and saves the defaults.
SaveDefaults(p) ==
    /\ cmd[p].step = "credential" /\ cmd[p].name = "setup"
    /\ token = None /\ cmd[p].alloc = None
    /\ cmd' = [cmd EXCEPT ![p].alloc = DefaultAlloc, ![p].step = "writeDefaults"]
    /\ Truncate(p)
    /\ UNCHANGED <<token, deviceOf, cluster, chosen>>

\* Cloud answers a poll "complete", with a credential and a device.
LoginCompletes(p) ==
    /\ cmd[p].step = "login"
    /\ \E g \in Grants, d \in Devices :
         /\ deviceOf[g] = None
         /\ deviceOf' = [deviceOf EXCEPT ![g] = d]
         /\ cmd' = [cmd EXCEPT ![p].token = g, ![p].device = d, ![p].step = "storeToken"]
    /\ UNCHANGED <<token, file, cluster, raced, chosen>>

\* set_device_token; a file cut short is empty and reads as no credential.
StoreToken(p) ==
    /\ cmd[p].step = "storeToken"
    /\ token' = cmd[p].token
    /\ Goto(p, "storeDevice")
    /\ Writes(p)
    /\ UNCHANGED <<file, deviceOf, cluster, chosen>>

StoreDevice(p) ==
    /\ cmd[p].step = "storeDevice"
    /\ Truncate(p)
    /\ Goto(p, "writeDevice")
    /\ UNCHANGED <<token, deviceOf, cluster, chosen>>

(***************************************************************************)
(* setup, configure, repair                                                *)
(***************************************************************************)
\* The prompt, or the arguments, within the detected limits.
Choose(p) ==
    /\ cmd[p].step = "choose"
    /\ \E a \in Allocs : cmd' = [cmd EXCEPT ![p].alloc = a, ![p].step = "writeChoice"]
    /\ Truncate(p)
    /\ UNCHANGED <<token, deviceOf, cluster, chosen>>

\* Without a credential or an allocation there is nothing to repair: it dies.
Repair(p) ==
    /\ cmd[p].step = "credential" /\ cmd[p].name = "repair"
    /\ token # None /\ cmd[p].alloc # None
    /\ cmd' = [cmd EXCEPT ![p].token = token, ![p].alloc = None, ![p].step = "install"]
    /\ UNCHANGED <<token, file, deviceOf, cluster, raced, chosen>>

\* The installer, over what is there or afresh, then the gVisor script.
InstallK3s(p) ==
    /\ cmd[p].step = "install"
    /\ k3s' = "running"
    /\ Goto(p, "merge")
    /\ UNCHANGED <<token, file, deviceOf, kube, secret, raced, chosen>>

\* The entries already in the user's kubeconfig win over the fetched ones.
MergeKubeconfig(p) ==
    /\ cmd[p].step = "merge"
    /\ k3s # "absent"
    /\ kube' = IF kube = "none" THEN "current" ELSE kube
    /\ Goto(p, "deploy")
    /\ UNCHANGED <<token, file, deviceOf, k3s, secret, raced, chosen>>

\* local_stack.deploy refuses without a device id; what fails after the
\* Secret is the command's death once it is there.
Deploy(p) ==
    /\ cmd[p].step = "deploy"
    /\ k3s = "running" /\ kube = "current"
    /\ cmd[p].device # None
    /\ secret' = [device |-> cmd[p].device, token |-> cmd[p].token]
    /\ End(p)
    /\ Writes(p)
    /\ UNCHANGED <<token, file, deviceOf, k3s, kube, chosen>>

(***************************************************************************)
(* uninstall, with --purge-state or without                                *)
(***************************************************************************)
\* The cluster takes its Secret along; entries that reached it are stale.
Uninstalled ==
    /\ k3s' = "absent"
    /\ secret' = None
    /\ kube' = IF kube = "none" THEN "none" ELSE "stale"

\* Mutant: a failing uninstaller does not stop the purge.
RemoveCluster_GoesOn(p) ==
    /\ cmd[p].step = "remove"
    /\ \/ Uninstalled
       \/ UNCHANGED cluster
    /\ Goto(p, "clean")
    /\ Writes(p)
    /\ UNCHANGED <<token, file, deviceOf, chosen>>

\* k3s-uninstall.sh, if it is there.
RemoveCluster(p) ==
    /\ cmd[p].step = "remove"
    /\ Uninstalled
    /\ Goto(p, "clean")
    /\ Writes(p)
    /\ UNCHANGED <<token, file, deviceOf, chosen>>

\* Mutant: the credential is deleted before the state is cleared.
CleanKubeconfig_TokenFirst(p) ==
    /\ cmd[p].step = "clean"
    /\ kube' \in {kube, "none"}
    /\ IF cmd[p].name = "purge"
       THEN token' = None /\ Goto(p, "clear")
       ELSE UNCHANGED token /\ End(p)
    /\ UNCHANGED <<file, deviceOf, k3s, secret, raced, chosen>>

\* The kubeconfig's entries are deleted as far as that works.
CleanKubeconfig(p) ==
    /\ cmd[p].step = "clean"
    /\ kube' \in {kube, "none"}
    /\ IF cmd[p].name = "purge" THEN Goto(p, "clear") ELSE End(p)
    /\ UNCHANGED <<token, file, deviceOf, k3s, secret, raced, chosen>>

\* load_state and clear: the allocation stays.
ClearState(p) ==
    /\ cmd[p].step = "clear"
    /\ cmd' = [cmd EXCEPT ![p].device = None, ![p].alloc = LoadState.alloc, ![p].step = "writeClear"]
    /\ Truncate(p)
    /\ UNCHANGED <<token, deviceOf, cluster, chosen>>

ForgetToken(p) ==
    /\ cmd[p].step = "forget"
    /\ token' = None
    /\ End(p)
    /\ Writes(p)
    /\ UNCHANGED <<file, deviceOf, cluster, chosen>>

(***************************************************************************)
(* start, stop                                                             *)
(***************************************************************************)
Systemctl ==
    /\ k3s # "absent"
    /\ k3s' \in {"running", "stopped"}
    /\ UNCHANGED <<token, file, deviceOf, kube, secret, cmd, raced, chosen>>
-----------------------------------------------------------------------------
SetupStep(p) ==
    \/ FindCredential(p)
    \/ NoCredential(p)
    \/ SaveDefaults(p)
    \/ LoginCompletes(p)
    \/ StoreToken(p)
    \/ StoreDevice(p)
    \/ Choose(p)
    \/ Repair(p)
    \/ InstallK3s(p)
    \/ MergeKubeconfig(p)
    \/ Deploy(p)

UninstallStep(p) ==
    \/ RemoveCluster(p)
    \/ CleanKubeconfig(p)
    \/ ClearState(p)
    \/ ForgetToken(p)

Next ==
    \/ \E p \in Procs :
         \/ \E name \in Commands : Invoke(p, name)
         \/ Dies(p)
         \/ Load(p)
         \/ WriteState(p)
         \/ SetupStep(p)
         \/ UninstallStep(p)
    \/ Systemctl

Spec == Init /\ [][Next]_vars
-----------------------------------------------------------------------------
\* Every variable keeps its type.
TypeOK ==
    /\ token \in Grants \cup {None}
    /\ file \in States \cup {Torn}
    /\ deviceOf \in [Grants -> Devices \cup {None}]
    /\ k3s \in {"absent", "running", "stopped"}
    /\ kube \in {"none", "current", "stale"}
    /\ secret \in [device: Devices, token: Grants] \cup {None}
    /\ cmd \in [Procs -> [name: Commands \cup {"none"}, step: CmdSteps \cup {"idle"},
                          token: Grants \cup {None}, device: Devices \cup {None},
                          alloc: Allocs \cup {None}]]
    /\ raced \in BOOLEAN /\ chosen \in Allocs \cup {None}

(***************************************************************************)
(* However commands are killed and run again, a device id in the state     *)
(* file is that of the stored credential: a login that stored only the     *)
(* credential, or a purge that cleared only the state, leaves no id of     *)
(* another login behind. (The converse fails: a login that is killed       *)
(* between its two stores leaves a credential without an id.)              *)
(***************************************************************************)
StateNamesCredential ==
    ~raced /\ LoadState.device # None =>
        token # None /\ deviceOf[token] = LoadState.device

(***************************************************************************)
(* The cluster runs with the credential that is stored, and with its       *)
(* device id: no failed or interrupted uninstall, purge or second login    *)
(* leaves it running with one the host has forgotten.                      *)
(***************************************************************************)
SecretIsStored ==
    ~raced /\ secret # None =>
        secret.token = token /\ deviceOf[token] = secret.device

(***************************************************************************)
(* The saved allocation is the one last chosen, through purges, failed     *)
(* logins and new ones, unless a save was cut short.                       *)
(***************************************************************************)
AllocationIsKept ==
    /\ ~raced /\ chosen # None
    /\ \A p \in Procs : cmd[p].step \notin Writing
    => LoadState.alloc = chosen
=============================================================================
