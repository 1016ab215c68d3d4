---------------------------- MODULE LocalCluster ----------------------------
(***************************************************************************)
(* The local cluster: one Multipass VM that runs k3s with the gVisor       *)
(* runtime, and the host's kubeconfig entry that reaches it                *)
(* (desktop/cluster_manager.py), driven by                                 *)
(*   - the Setup and Teardown calls of the Device page (desktop/api.py,    *)
(*     app.js), each a thread of the GUI process. The page disables its    *)
(*     button while its own call runs, but a page loaded meanwhile (after  *)
(*     a logout and a login) starts with a fresh button, so calls overlap; *)
(*   - the daemon's health check (desktop/daemon.py), which restarts a VM  *)
(*     that stopped;                                                       *)
(*   - the outside: the Mac sleeps and the VM stops, the user deletes the  *)
(*     VM with multipass, the GUI is killed.                               *)
(*                                                                         *)
(* Every command is a step of its own and may fail, time out or be         *)
(* answered wrongly. A failure after a step's effect is the failure of the *)
(* next step before its own. A script inside the VM is taken to stop when  *)
(* its client times out. VMs are told apart by the order of their          *)
(* launches: an address, a certificate or a key of the kubeconfig denotes  *)
(* the VM that issued it.                                                  *)
(***************************************************************************)
EXTENDS Naturals, FiniteSets

CONSTANTS Calls,    \* threads that serve setup_cluster and teardown_cluster
          Allocs,   \* allocations the sliders can be set to
          MaxVMs,   \* bound: how many VMs are launched
          NoVM

VARIABLES vm,         \* the VM named "browseterm", as multipass knows it
          launched,   \* how many VMs have been launched
          kube,       \* the entries named "browseterm" in ~/.kube/config
          alloc,      \* the allocation in the GUI's DesktopState
          page,       \* the Cluster section of the page: its button
          call,       \* each call: its step and its locals
          health,     \* the daemon's health check
          tidy,       \* history: every deletion cleaned up, with no other call about
          misled      \* history: the allocation has changed under a VM, see Reallocates

history == <<tidy, misled>>
vars    == <<vm, launched, kube, alloc, page, call, health, history>>

Parts  == {"context", "cluster", "user"}   \* of a kubeconfig entry
Absent == 0
Gens   == 1..MaxVMs
Bins   == {"runsc", "sentry"}  \* runsc with its shim; gvisor_sentry

VMs == [gen: Gens, size: Allocs, on: BOOLEAN, k3s: BOOLEAN,
        bins: SUBSET Bins,  \* installed in /usr/local/bin
        tmpl: BOOLEAN,      \* does the containerd template name runsc
        loaded: BOOLEAN]    \* did k3s start with that template

ASSUME ClusterAssumption == MaxVMs \in Nat \ {0} /\ NoVM \notin VMs

SetupSteps == {"exists", "launch", "k3s", "binaries", "runsc",
               "sentry", "template", "restart", "fetch", "view", "write", "deploy"}
TeardownSteps == {"delete", "context", "cluster", "user"}
Cleaning == {"context", "cluster", "user"}

NoEntry == [p \in Parts |-> Absent]
EntryOf(gen) == [p \in Parts |-> gen]

NoCall == [step |-> "idle", want |-> NoVM, at |-> Absent,
           seen |-> NoEntry, here |-> FALSE, alone |-> FALSE]

Exists  == vm # NoVM
Up      == Exists /\ vm.on
Running == {c \in Calls : call[c].step # "idle"}

Goto(c, step) == call' = [call EXCEPT ![c].step = step]
Finish(c) == call' = [call EXCEPT ![c] = [NoCall EXCEPT !.step = "status", !.here = call[c].here]]
FreshPage == [label |-> "Setup", busy |-> FALSE]  \* as app.html is written

-----------------------------------------------------------------------------
Init ==
    /\ vm = NoVM
    /\ launched = 0
    /\ kube = NoEntry
    /\ alloc \in Allocs
    /\ page = FreshPage
    /\ call = [c \in Calls |-> NoCall]
    /\ health = "waiting"
    /\ tidy = TRUE /\ misled = FALSE

(***************************************************************************)
(* The page                                                                *)
(***************************************************************************)
\* cluster_exists: any failure of multipass reads as "no".
ExistsAnswers == {Exists, FALSE}

Label(exists) == IF exists THEN "Teardown" ELSE "Setup"

\* init, after a login or a launch: the HTML first, the status later.
LoadPage ==
    /\ page' = FreshPage
    /\ call' = [c \in Calls |-> [call[c] EXCEPT !.here = FALSE]]
    /\ UNCHANGED <<vm, launched, kube, alloc, health, history>>

\* loadClusterStatus, which leaves a busy button alone.
LoadClusterStatus ==
    /\ ~page.busy
    /\ \E exists \in ExistsAnswers : page' = [page EXCEPT !.label = Label(exists)]
    /\ UNCHANGED <<vm, launched, kube, alloc, call, health, history>>

Busy(step) == \E c \in Calls : call[c].step \in step

\* A call starts: none that runs is alone any more.
Start(c, step, want) ==
    call' = [d \in Calls |->
               IF d = c
               THEN [step |-> step, want |-> want, at |-> Absent, seen |-> NoEntry,
                     here |-> TRUE, alone |-> (Running = {})]
               ELSE [call[d] EXCEPT !.alone = FALSE]]

(***************************************************************************)
(* The allocation becomes a. Nothing resizes a VM that is there, or whose  *)
(* launch has begun: the history variable misled records that the          *)
(* allocation became another one, until the next VM is asked for.          *)
(***************************************************************************)
Reallocates(a) ==
    /\ alloc' = a
    /\ misled' = /\ Exists \/ Busy({"exists", "launch"})
                 /\ misled \/ a # alloc

\* Mutant: the allocation is not saved before the VM is made.
ClickSetup_Unsaved(c) ==
    /\ call[c].step = "idle"
    /\ ~page.busy /\ page.label = "Setup"
    /\ \E a \in Allocs : Start(c, "exists", a)
    /\ page' = [page EXCEPT !.busy = TRUE]
    /\ tidy' = (tidy /\ ~Busy(TeardownSteps))
    /\ UNCHANGED <<vm, launched, kube, alloc, health, misled>>

\* toggleCluster, and _save_allocation, the first thing setup_cluster does.
ClickSetup(c) ==
    /\ call[c].step = "idle"
    /\ ~page.busy /\ page.label = "Setup"
    /\ \E a \in Allocs : Reallocates(a) /\ Start(c, "exists", a)
    /\ page' = [page EXCEPT !.busy = TRUE]
    /\ tidy' = (tidy /\ ~Busy(TeardownSteps))
    /\ UNCHANGED <<vm, launched, kube, health>>

ClickTeardown(c) ==
    /\ call[c].step = "idle"
    /\ ~page.busy /\ page.label = "Teardown"
    /\ Start(c, "delete", NoVM)
    /\ page' = [page EXCEPT !.busy = TRUE]
    /\ tidy' = (tidy /\ Running = {})
    /\ UNCHANGED <<vm, launched, kube, alloc, health, misled>>

\* cluster_status ends a call; the page that made it, if still there, renders it.
Answer(c) ==
    /\ call[c].step = "status"
    /\ call' = [call EXCEPT ![c] = NoCall]
    /\ \E exists \in ExistsAnswers :
         page' = IF call[c].here THEN [label |-> Label(exists), busy |-> FALSE] ELSE page
    /\ UNCHANGED <<vm, launched, kube, alloc, health, history>>

(***************************************************************************)
(* create_cluster and deploy                                               *)
(***************************************************************************)
\* ClusterError, at any step.
SetupFails(c) ==
    /\ call[c].step \in SetupSteps
    /\ Finish(c)
    /\ UNCHANGED <<vm, launched, kube, alloc, page, health, history>>

\* Multipass and Hyper-V are there, or now installed; is the VM?
CheckExists(c) ==
    /\ call[c].step = "exists"
    /\ \E exists \in ExistsAnswers : Goto(c, IF exists THEN "k3s" ELSE "launch")
    /\ UNCHANGED <<vm, launched, kube, alloc, page, health, history>>

\* multipass launch; "already exists" counts as done.
Launch(c) ==
    /\ call[c].step = "launch"
    /\ IF Exists
       THEN UNCHANGED <<vm, launched>>
       ELSE /\ launched < MaxVMs
            /\ launched' = launched + 1
            /\ vm' = [gen |-> launched + 1, size |-> call[c].want, on |-> TRUE, k3s |-> FALSE,
                      bins |-> {}, tmpl |-> FALSE, loaded |-> FALSE]
    /\ call' = [call EXCEPT ![c].step = "k3s", ![c].want = NoVM]
    /\ UNCHANGED <<kube, alloc, page, health, history>>

\* Mutant: a reinstalled k3s is left running as it is.
InstallK3s_NoRestart(c) ==
    /\ call[c].step = "k3s"
    /\ Up
    /\ vm' = [vm EXCEPT !.k3s = TRUE]
    /\ Goto(c, "binaries")
    /\ UNCHANGED <<launched, kube, alloc, page, health, history>>

\* The installer (re)starts the service, which reads the template.
InstallK3s(c) ==
    /\ call[c].step = "k3s"
    /\ Up
    /\ vm' = [vm EXCEPT !.k3s = TRUE, !.loaded = vm.tmpl]
    /\ Goto(c, "binaries")
    /\ UNCHANGED <<launched, kube, alloc, page, health, history>>

\* The gVisor script starts: are runsc and gvisor_sentry both there?
CheckBinaries(c) ==
    /\ call[c].step = "binaries"
    /\ Up
    /\ call' = [call EXCEPT ![c].step = IF vm.bins = Bins THEN "template" ELSE "runsc",
                            ![c].at = vm.gen]
    /\ UNCHANGED <<vm, launched, kube, alloc, page, health, history>>

\* A script lives no longer than the VM it runs in.
InScript(c, step) == call[c].step = step /\ Up /\ vm.gen = call[c].at

MoveRunsc(c) ==
    /\ InScript(c, "runsc")
    /\ vm' = [vm EXCEPT !.bins = @ \cup {"runsc"}]
    /\ Goto(c, "sentry")
    /\ UNCHANGED <<launched, kube, alloc, page, health, history>>

MoveSentry(c) ==
    /\ InScript(c, "sentry")
    /\ vm' = [vm EXCEPT !.bins = @ \cup {"sentry"}]
    /\ Goto(c, "template")
    /\ UNCHANGED <<launched, kube, alloc, page, health, history>>

\* A template that names runsc already means k3s is left untouched.
WriteTemplate(c) ==
    /\ InScript(c, "template")
    /\ vm' = [vm EXCEPT !.tmpl = TRUE]
    /\ Goto(c, IF vm.tmpl THEN "fetch" ELSE "restart")
    /\ UNCHANGED <<launched, kube, alloc, page, health, history>>

RestartK3s(c) ==
    /\ InScript(c, "restart")
    /\ vm' = [vm EXCEPT !.loaded = TRUE]
    /\ Goto(c, "fetch")
    /\ UNCHANGED <<launched, kube, alloc, page, health, history>>

\* multipass info for the address, then k3s.yaml.
FetchKubeconfig(c) ==
    /\ call[c].step = "fetch"
    /\ Up /\ vm.k3s
    /\ call' = [call EXCEPT ![c].step = "view", ![c].at = vm.gen]
    /\ UNCHANGED <<vm, launched, kube, alloc, page, health, history>>

\* kubectl config view --flatten: the file listed first wins.
ViewMerged(c) ==
    /\ call[c].step = "view"
    /\ call' = [call EXCEPT ![c].step = "write",
                            ![c].seen = [p \in Parts |-> IF kube[p] = Absent THEN call[c].at ELSE kube[p]]]
    /\ UNCHANGED <<vm, launched, kube, alloc, page, health, history>>

\* No kubectl, or 15 seconds over: not a ClusterError, so nothing answers the page.
ViewCrashes(c) ==
    /\ call[c].step = "view"
    /\ call' = [call EXCEPT ![c] = NoCall]
    /\ UNCHANGED <<vm, launched, kube, alloc, page, health, history>>

WriteKubeconfig(c) ==
    /\ call[c].step = "write"
    /\ kube' = call[c].seen
    /\ call' = [call EXCEPT ![c].step = "deploy", ![c].seen = NoEntry]
    /\ UNCHANGED <<vm, launched, alloc, page, health, history>>

\* local_stack.deploy: kubectl reaches the VM through the three entries.
Deploy(c) ==
    /\ call[c].step = "deploy"
    /\ Up /\ vm.k3s /\ kube = EntryOf(vm.gen)
    /\ Finish(c)
    /\ UNCHANGED <<vm, launched, kube, alloc, page, health, history>>

(***************************************************************************)
(* delete_cluster                                                          *)
(***************************************************************************)
\* multipass delete --purge
DeleteVM(c) ==
    /\ call[c].step = "delete"
    /\ Exists
    /\ vm' = NoVM
    /\ Goto(c, "context")
    /\ UNCHANGED <<launched, kube, alloc, page, health, history>>

\* It raises; a timeout may still have deleted the VM.
DeleteFails(c) ==
    /\ call[c].step = "delete"
    /\ vm' \in {vm, NoVM}
    /\ tidy' = (tidy /\ vm' = vm)
    /\ Finish(c)
    /\ UNCHANGED <<launched, kube, alloc, page, health, misled>>

\* The next entry, whatever became of this one.
NextEntry(c) ==
    CASE call[c].step = "context" -> Goto(c, "cluster")
      [] call[c].step = "cluster" -> Goto(c, "user")
      [] call[c].step = "user"    -> Finish(c)

\* Mutant: the user entry is forgotten.
Clean_KeepsUser(c) ==
    /\ call[c].step \in Cleaning
    /\ kube' = [kube EXCEPT ![call[c].step] = IF call[c].step = "user" THEN @ ELSE Absent]
    /\ NextEntry(c)
    /\ UNCHANGED <<vm, launched, alloc, page, health, history>>

\* kubectl config delete-context, delete-cluster, delete-user
Clean(c) ==
    /\ call[c].step \in Cleaning
    /\ kube' = [kube EXCEPT ![call[c].step] = Absent]
    /\ NextEntry(c)
    /\ UNCHANGED <<vm, launched, alloc, page, health, history>>

\* "Best-effort": the next entry is tried anyway.
CleanFails(c) ==
    /\ call[c].step \in Cleaning
    /\ tidy' = FALSE
    /\ NextEntry(c)
    /\ UNCHANGED <<vm, launched, kube, alloc, page, health, misled>>

(***************************************************************************)
(* _health_check_once, of a device that is logged in                       *)
(***************************************************************************)
HealthFinds ==
    /\ health = "waiting"
    /\ Exists
    /\ health' = "asking"
    /\ UNCHANGED <<vm, launched, kube, alloc, page, call, history>>

\* vm_state: a failure, and a VM that is gone, read as "Unknown".
HealthAsks ==
    /\ health = "asking"
    /\ \E state \in {IF Up THEN "Running" ELSE IF Exists THEN "Stopped" ELSE "Unknown", "Unknown"} :
         health' = IF state = "Running" THEN "waiting" ELSE "starting"
    /\ UNCHANGED <<vm, launched, kube, alloc, page, call, history>>

\* multipass start; k3s starts with the VM.
HealthStarts ==
    /\ health = "starting"
    /\ Exists
    /\ vm' = IF vm.on THEN vm ELSE [vm EXCEPT !.on = TRUE, !.loaded = vm.tmpl /\ vm.k3s]
    /\ health' = "waiting"
    /\ UNCHANGED <<launched, kube, alloc, page, call, history>>

\* Mutant: one failed start is the last.
HealthFails_GivesUp ==
    /\ health = "starting"
    /\ health' = "stopped"
    /\ UNCHANGED <<vm, launched, kube, alloc, page, call, history>>

HealthFails ==
    /\ health = "starting"
    /\ health' = "waiting"
    /\ UNCHANGED <<vm, launched, kube, alloc, page, call, history>>

\* The keychain is locked, or multipass prints no JSON: only ClusterError is caught.
HealthDies ==
    /\ health \in {"waiting", "asking"}
    /\ health' = "dead"
    /\ UNCHANGED <<vm, launched, kube, alloc, page, call, history>>

\* The process lives on without the thread, so only a reboot brings it back.
DaemonRelaunch ==
    /\ health = "dead"
    /\ health' = "waiting"
    /\ UNCHANGED <<vm, launched, kube, alloc, page, call, history>>

(***************************************************************************)
(* The outside                                                             *)
(***************************************************************************)
\* The Mac slept and multipass stopped the VM.
VMStops ==
    /\ Up
    /\ vm' = [vm EXCEPT !.on = FALSE]
    /\ UNCHANGED <<launched, kube, alloc, page, call, health, history>>

VMDeletedOutside ==
    /\ Exists
    /\ vm' = NoVM
    /\ tidy' = FALSE
    /\ UNCHANGED <<launched, kube, alloc, page, call, health, misled>>

\* The GUI is killed, its calls with it, and opened again: it reads the state
\* file, where a save of the daemon may have put back an older allocation, or
\* which may be lost and give the defaults (module DeviceSession).
Quit ==
    /\ call' = [c \in Calls |-> NoCall]
    /\ page' = FreshPage
    /\ \E a \in Allocs : Reallocates(a)
    /\ tidy' = (tidy /\ \A c \in Calls : call[c].step \notin Cleaning)
    /\ UNCHANGED <<vm, launched, kube, health>>

-----------------------------------------------------------------------------
SetupStep(c) ==
    \/ SetupFails(c)
    \/ CheckExists(c)
    \/ Launch(c)
    \/ InstallK3s(c)
    \/ CheckBinaries(c)
    \/ MoveRunsc(c)
    \/ MoveSentry(c)
    \/ WriteTemplate(c)
    \/ RestartK3s(c)
    \/ FetchKubeconfig(c)
    \/ ViewMerged(c)
    \/ ViewCrashes(c)
    \/ WriteKubeconfig(c)
    \/ Deploy(c)

TeardownStep(c) ==
    \/ DeleteVM(c)
    \/ DeleteFails(c)
    \/ Clean(c)
    \/ CleanFails(c)

CallStep(c) == SetupStep(c) \/ TeardownStep(c) \/ Answer(c)

Health ==
    \/ HealthFinds
    \/ HealthAsks
    \/ HealthStarts
    \/ HealthFails

Next ==
    \/ LoadPage
    \/ LoadClusterStatus
    \/ \E c \in Calls : ClickSetup(c) \/ ClickTeardown(c) \/ CallStep(c)
    \/ Health
    \/ HealthDies
    \/ DaemonRelaunch
    \/ VMStops
    \/ VMDeletedOutside
    \/ Quit

Spec == Init /\ [][Next]_vars

(***************************************************************************)
(* Fairness: the loop's timer fires, its commands return, and a VM that is *)
(* asked to start again and again starts. Calls return: every command has  *)
(* a timeout. The page, the user and the outside owe nothing.              *)
(***************************************************************************)
FairSpec ==
    /\ Spec
    /\ WF_vars(Health) /\ SF_vars(HealthStarts)
    /\ \A c \in Calls : WF_vars(CallStep(c))
-----------------------------------------------------------------------------
\* Every variable keeps its type.
TypeOK ==
    /\ vm \in VMs \cup {NoVM}
    /\ launched \in 0..MaxVMs
    /\ kube \in [Parts -> 0..MaxVMs]
    /\ alloc \in Allocs
    /\ page \in [label: {"Setup", "Teardown"}, busy: BOOLEAN]
    /\ call \in [Calls -> [step: SetupSteps \cup TeardownSteps \cup {"idle", "status"},
                           want: Allocs \cup {NoVM}, at: 0..MaxVMs,
                           seen: [Parts -> 0..MaxVMs], here: BOOLEAN, alone: BOOLEAN]]
    /\ health \in {"waiting", "asking", "starting", "dead"}
    /\ tidy \in BOOLEAN /\ misled \in BOOLEAN

(***************************************************************************)
(* At rest the kubeconfig names no VM or the one that exists, with all     *)
(* three entries, unless a deletion once left something behind or ran      *)
(* beside another call: whatever fails in Setup, at whatever step, and     *)
(* even if two Setups overlap, nothing stale is left for the next.         *)
(***************************************************************************)
EntryIsCurrent ==
    tidy /\ Running = {} =>
        \/ kube = NoEntry
        \/ Exists /\ kube = EntryOf(vm.gen)

(***************************************************************************)
(* A Setup that has passed its gVisor step, with no other call beside it,  *)
(* has runsc installed, registered and loaded by the k3s that runs,        *)
(* however earlier Setups were cut short or overlapped: without it every   *)
(* terminal's pod stays Pending.                                           *)
(***************************************************************************)
GVisorActive ==
    \A c \in Calls :
        /\ call[c].alone
        /\ call[c].step \in {"fetch", "view", "write", "deploy"}
        /\ Exists /\ vm.gen = call[c].at
        => vm.bins = Bins /\ vm.tmpl /\ vm.loaded

(***************************************************************************)
(* The VM has the size the Cluster section shows and Cloud is told, until  *)
(* another one is chosen by a Setup on a page that does not know of the VM *)
(* or of a Setup before it, or read from the file by a restart of the app. *)
(* The next VM has the right size again, however Setups and Teardowns were *)
(* cut short before.                                                       *)
(***************************************************************************)
SizeIsAllocation == ~misled /\ Exists => vm.size = alloc

(***************************************************************************)
(* A VM that stopped while the device is logged in comes back, or is       *)
(* deleted, as long as the health check's thread lives (daemon.py:22:      *)
(* "starts the VM back up if it's not Running").                           *)
(***************************************************************************)
StoppedVMRestarts == (Exists /\ ~vm.on) ~> (Up \/ ~Exists \/ health = "dead")
=============================================================================
