--------------------------- MODULE Prerequisites ---------------------------
(***************************************************************************)
(* What Setup needs before it can create the VM: Multipass, installed and  *)
(* on the PATH of the running app, and on Windows Hyper-V                  *)
(* (desktop/cluster_manager.py, _ensure_multipass_installed and            *)
(* _ensure_hyperv_enabled). Whatever Setup cannot do itself it asks of the *)
(* user, in the error that ends it, and expects another click.             *)
(*                                                                         *)
(* The app extends its PATH once, when it starts, by the directories that  *)
(* exist then. A computer is one of Hosts for good; Multipass, Hyper-V and *)
(* VirtualBox come to it while the model runs and do not go.               *)
(***************************************************************************)
EXTENDS Naturals

VARIABLES host,       \* the computer
          installed,  \* what has been installed on it
          hyperv,     \* the Windows feature
          sees,       \* is Multipass's directory on the PATH of the running app
          setup,      \* the step of Setup
          asked       \* what the last Setup has asked of the user

vars == <<host, installed, hyperv, sees, setup, asked>>

Hosts == [os: {"darwin", "win32", "other"},
          manager: BOOLEAN,  \* brew or winget
          dir: BOOLEAN,      \* does Multipass's directory exist without Multipass
          pro: BOOLEAN]      \* a Windows edition with Hyper-V

Programs == {"multipass", "virtualbox"}
Advice == {"nothing", "retry", "install", "relaunch", "reboot", "virtualbox"}

\* A ClusterError ends Setup and is shown.
Ask(advice) == setup' = "idle" /\ asked' = advice
Goto(step)  == setup' = step /\ UNCHANGED asked

Init ==
    /\ host \in {h \in Hosts : (h.os = "other" => ~h.manager /\ h.dir) /\ (h.os # "win32" => h.pro)}
    /\ installed \in SUBSET {"multipass"}
    /\ hyperv \in (IF host.os = "win32" /\ host.pro THEN {"off", "on"} ELSE {"off"})
    /\ sees = (host.dir \/ installed # {})
    /\ setup = "idle"
    /\ asked = "nothing"

-----------------------------------------------------------------------------
(***************************************************************************)
(* The app                                                                 *)
(***************************************************************************)
_ensure_tool_dirs_on_path == sees' = (host.dir \/ "multipass" \in installed)

_multipass_on_path == sees /\ "multipass" \in installed

ClickSetup ==
    /\ setup = "idle"
    /\ Goto("multipass")
    /\ UNCHANGED <<host, installed, hyperv, sees>>

\* _ensure_multipass_installed
EnsureMultipass ==
    /\ setup = "multipass"
    /\ \/ _multipass_on_path /\ Goto("hyperv")
       \/ ~_multipass_on_path /\ host.manager /\ Goto("install")
       \/ ~_multipass_on_path /\ ~host.manager /\ Ask("install")
    /\ UNCHANGED <<host, installed, hyperv, sees>>

\* Mutant: an installed Multipass is taken to be one that the app finds.
Install_Unchecked ==
    /\ setup = "install"
    /\ installed' = installed \cup {"multipass"}
    /\ Goto("hyperv")
    /\ UNCHANGED <<host, hyperv, sees>>

\* brew install, winget install; done by the user's password or consent.
Install ==
    /\ setup = "install"
    /\ installed' = installed \cup {"multipass"}
    /\ IF sees THEN Goto("hyperv") ELSE Ask("relaunch")
    /\ UNCHANGED <<host, hyperv, sees>>

\* Refused, failed, or timed out, before it was installed or after.
InstallFails ==
    /\ setup = "install"
    /\ installed' \in {installed, installed \cup {"multipass"}}
    /\ Ask("retry")
    /\ UNCHANGED <<host, hyperv, sees>>

\* sc query vmms: any failure is a no. The service comes with the restart.
EnabledAnswers == {hyperv = "on", FALSE}

\* Mutant: the edition is not asked for.
EnsureHyperV_AnyEdition ==
    /\ setup = "hyperv"
    /\ IF host.os # "win32" THEN Goto("ready")
       ELSE \E enabled \in EnabledAnswers : Goto(IF enabled THEN "ready" ELSE "enable")
    /\ UNCHANGED <<host, installed, hyperv, sees>>

\* _ensure_hyperv_enabled
EnsureHyperV ==
    /\ setup = "hyperv"
    /\ IF host.os # "win32" THEN Goto("ready")
       ELSE IF ~host.pro THEN Ask("virtualbox")
       ELSE \E enabled \in EnabledAnswers : Goto(IF enabled THEN "ready" ELSE "enable")
    /\ UNCHANGED <<host, installed, hyperv, sees>>

\* Mutant: success always means that a restart is needed.
EnableHyperV_AlwaysAsks ==
    /\ setup = "enable"
    /\ hyperv' = IF hyperv = "off" THEN "pending" ELSE hyperv
    /\ Ask("reboot")
    /\ UNCHANGED <<host, installed, sees>>

\* _enable_hyperv: DISM enables the feature, or finds it waiting for a restart
\* (3010), or has nothing to do (0).
EnableHyperV ==
    /\ setup = "enable"
    /\ hyperv' = IF hyperv = "off" THEN "pending" ELSE hyperv
    /\ IF hyperv = "on" THEN Goto("ready") ELSE Ask("reboot")
    /\ UNCHANGED <<host, installed, sees>>

\* Elevation declined, DISM failed, 900 seconds over.
EnableFails ==
    /\ setup = "enable"
    /\ Ask("retry")
    /\ UNCHANGED <<host, installed, hyperv, sees>>

\* Setup goes on to the VM, which LocalCluster models, and ends.
CreateVM ==
    /\ setup = "ready"
    /\ Ask("nothing")
    /\ UNCHANGED <<host, installed, hyperv, sees>>

(***************************************************************************)
(* The user                                                                *)
(***************************************************************************)
InstallByHand ==
    /\ setup = "idle" /\ asked = "install"
    /\ installed' = installed \cup {"multipass"}
    /\ asked' = "retry"
    /\ UNCHANGED <<host, hyperv, sees, setup>>

InstallVirtualBox ==
    /\ setup = "idle" /\ asked = "virtualbox"
    /\ installed' = installed \cup {"virtualbox"}
    /\ asked' = "retry"
    /\ UNCHANGED <<host, hyperv, sees, setup>>

\* Asked for or not. A Setup that is killed is one that fails.
Relaunch ==
    /\ setup = "idle"
    /\ _ensure_tool_dirs_on_path
    /\ Ask("nothing")
    /\ UNCHANGED <<host, installed, hyperv>>

Reboot ==
    /\ setup = "idle" /\ asked = "reboot"
    /\ hyperv' = IF hyperv = "pending" THEN "on" ELSE hyperv
    /\ _ensure_tool_dirs_on_path
    /\ Ask("nothing")
    /\ UNCHANGED <<host, installed>>

-----------------------------------------------------------------------------
SetupStep ==
    \/ EnsureMultipass
    \/ Install
    \/ InstallFails
    \/ EnsureHyperV
    \/ EnableHyperV
    \/ EnableFails
    \/ CreateVM

Next == SetupStep \/ ClickSetup \/ InstallByHand \/ InstallVirtualBox \/ Relaunch \/ Reboot

Spec == Init /\ [][Next]_vars

\* Setup runs, and a user who keeps at it does what it asks: an installation
\* that is tried again and again succeeds, and is consented to.
FairSpec ==
    /\ Spec
    /\ WF_vars(SetupStep) /\ SF_vars(Install) /\ SF_vars(EnableHyperV)
    /\ SF_vars(InstallByHand) /\ SF_vars(InstallVirtualBox) /\ SF_vars(Reboot)
    /\ SF_vars(asked = "relaunch" /\ Relaunch) /\ SF_vars(ClickSetup)

-----------------------------------------------------------------------------
\* Only a Windows that has Hyper-V is asked to turn it on or to restart for it.
TypeOK ==
    /\ host \in Hosts
    /\ installed \subseteq Programs
    /\ hyperv \in {"off", "pending", "on"}
    /\ sees \in BOOLEAN
    /\ setup \in {"idle", "multipass", "install", "hyperv", "enable", "ready"}
    /\ asked \in Advice
    /\ hyperv # "off" \/ setup = "enable" \/ asked = "reboot" => host.os = "win32" /\ host.pro

(* cluster_manager.py:283-286, 412-428: Setup goes on to the VM only with a
   Multipass that this process finds and, on Windows, a Hyper-V that works,
   whatever was installed, declined or restarted before. *)
VMCanBeCreated ==
    setup = "ready" => /\ _multipass_on_path
                       /\ host.os = "win32" => hyperv = "on"

(* cluster_manager.py:387-394: a restart is asked for only when one is
   outstanding, though the query of the service may deny a Hyper-V that works. *)
RestartIsNeeded == asked = "reboot" => hyperv = "pending"

\* Without a package manager, a directory that the app did not see when it started.
Unseen == ~host.dir /\ ~host.manager
Home   == host.os = "win32" /\ ~host.pro

(* cluster_manager.py:273-304, 412-443: who does what the messages ask gets to
   the VM, although installations fail and prompts are declined. Excepted are
   Windows Home, and a Multipass installed by hand into a directory that is new:
   their messages never ask for what would help. *)
AdviceLeadsToVM == (~Home /\ ~Unseen) => []<>(setup = "ready")

(* cluster_manager.py:431-436: "Multipass needs VirtualBox instead on Windows
   Home. Install VirtualBox ..., then click Setup again." *)
VirtualBoxLeadsToVM == (asked = "virtualbox") ~> (setup = "ready")
=============================================================================
