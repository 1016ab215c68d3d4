# Verification of browseterm-desktop

TLA+ models of browseterm-desktop, the TLC runs that check them, and TLAPS
proofs. Source paths are relative to the repository (`desktop/app.py` and so
on). `PROJECT.json` relates every definition to the lines it models and lists the
runs, the mutants, the findings, the hazards and the theorems.

## 1. The system

browseterm-desktop turns a computer into a "device" of Browseterm. It logs the
user in at Cloud (an OAuth device grant), keeps one credential and one small
state file, builds a local Kubernetes cluster from a Multipass VM, deploys the
Browseterm workloads into it, and keeps VM and session alive from a daemon.

| Component | State it keeps | Operations | Interacts with |
|---|---|---|---|
| GUI, `app.py`, `api.py` | in-memory `DesktopState`, `_login_in_progress`, the window's page | start-up check, start_login, logout, device_info, cluster_status, setup_cluster, teardown_cluster, activate_device | Cloud, keychain, state file, cluster manager, the page through pywebview (a thread per call) |
| Page, `web/` | buttons, busy mark, label, sliders, pod table | clicks, `init`, rendering | GUI |
| State file, `state.py` | device id and name, allocation | load, save, clear, defaults | GUI, daemon, CLI (other processes, no lock) |
| Keychain, `keychain.py`; `linux_credential_store.py` | one credential | get, set, delete | GUI, daemon; CLI |
| Cloud client, `cloud_client.py` | none | login start and poll, get, update, heartbeat | Cloud |
| Daemon, `daemon.py` | none of its own | heartbeat every 25 min, health check every 60 s | keychain, state file, Cloud, cluster manager; launchd restarts it |
| Cluster manager, `cluster_manager.py` | the VM, what is installed in it, `~/.kube/config` | install Multipass, Hyper-V, launch, k3s, gVisor, kubeconfig, delete, pods | multipass, kubectl, brew, winget, DISM |
| Local stack, `local_stack.py` | workloads and Secrets in the cluster, images | deploy | kubectl, make, docker |
| Linux CLI, `cli.py`, `native_k3s.py` | as state file and credential file | setup, configure, repair, activate, uninstall, ... | Cloud, k3s on the host |
| Device info, `device_info.py` | none | hardware totals, default allocation | GUI, CLI |
| Configuration, packaging, CI | constants | | |

What makes it hard: the GUI's threads share a `DesktopState` with no lock; GUI and
daemon share a file and a keychain with no lock; network calls of 10 seconds and
installations of minutes lie between a read and its use; the page that disables a
button can be replaced while the call behind it still runs; commands time out
after or before they had their effect; processes are killed anywhere; the VM
stops, or is deleted, behind the app's back.

What makes each correct:

* session: credential and device id belong together, in memory, on disk and in
  the cluster; an accepted credential is not lost uninvited, a revoked one is
  dropped; what was forgotten stays forgotten;
* login flow: one at a time, never stuck, polls at the provider's pace, ends in
  bounded time, does not time out on an approved code;
* cluster: kubeconfig, gVisor and the VM's size agree with the VM that exists,
  whatever failed before; a stopped VM is restarted;
* prerequisites: Setup goes on to the VM only when it can be created, and doing what
  its messages ask leads there;
* stack: nothing is deployed before what it needs; a Setup that ran to its end leaves
  one device's workloads on current images, whatever earlier Setups left;
* pods: a crashed pod is restarted in the end, and no other is touched;
* allocation: the default, what can be chosen, what is shown, what is saved and what
  Cloud has agree with each other and with the computer.

## 2. Modules

| Module | Models | Runs |
|---|---|---|
| `DeviceSession` | keychain, state file, GUI session, daemon heartbeat, Cloud's answers | `session_*` (through `MCDeviceSession`) |
| `DeviceSession_proofs` | proofs about it | |
| `LoginFlow` | one login thread with its time | `login_*` |
| `LoginFlow_proofs` | proofs about it | |
| `LocalCluster` | Setup, Teardown, VM, kubeconfig, health check | `cluster_*` (through `MCLocalCluster`) |
| `LocalCluster_proofs` | proofs about it | |
| `LinuxCli` | the Linux CLI's commands, its two files, native k3s | `cli_*` (through `MCLinuxCli`) |
| `LinuxCli_proofs` | proofs about it | |
| `CrashWatch` | pods, and what the pod monitor promises about them | |
| `PodMonitor` | the daemon's and the page's restarts of pods; implements `CrashWatch` | `pods_restart` |
| `PodMonitor_proofs` | proofs about it, the refinement | |
| `Prerequisites` | Multipass, Hyper-V and the user who does what Setup asks | `install_*` |
| `Prerequisites_proofs` | proofs about it | |
| `LocalStack` | `local_stack.deploy` step by step | `stack_order` (through `MCLocalStack`) |
| `LocalStack_proofs` | proofs about it | |
| `Allocation` | defaults, rounding, sliders, CLI limits, Cloud's copy | `allocation_gui` |
| `Allocation_proofs` | proofs about it | |

How they fit: a Setup is `Prerequisites`, then `LocalCluster`, then `LocalStack`; its
argument comes from `Allocation`, its credential from `DeviceSession`, whose login is
`LoginFlow`; `PodMonitor` watches the result.

### 2.1 DeviceSession

`keychain` is the stored credential, `file` the state file, `mem` the GUI's
`DesktopState`. A *grant* is a completed login and its credential; `deviceOf`
says for which device Cloud issued it. Device id and name change together in the
code and are one value, the three allocation figures another.

`login[g]`, `call[c]` and `hb` are the program counters and locals of the login
threads, of the threads that serve calls of the page, and of the heartbeat. A step
ends where a thread can be interrupted with an effect: between a read of the
keychain and the request, between the request and what its answer causes, between
a change of the memory, the truncation of the state file, the snapshot and the write,
and between the keychain and the file. The module's actions follow the code:

* `Launch`, `ResolveStart`, `CheckReply`, `Exit`: `DesktopApp.__init__`, `run`,
  `_resolve_start_kwargs`. `Exit` is closing and killing, at any step.
* `StartLogin` ... `LoginDies`: `_handle_start_login`, `_run_login_flow`. The
  polling is one step here; `LoginFlow` opens it.
* `DeviceInfo*`, `ClusterStatus`, `Setup`, `CallWrite`, `Create*`, `Deploy`,
  `Logout*`: `Api` and `_handle_logout`. `loads` and `busy` keep a page to
  the calls its JavaScript makes: two on load, and one Setup at a time per page.
  `CallDies` is an exception that a call lets through.
* `Hb*`, `DaemonExit`: `_heartbeat_once` and launchd. `HbDies` is an exception other
  than `CloudClientError` (keychain, disk, an answer that is not JSON), which ends the
  heartbeat's thread and not its process; only a restart of the process (`DaemonExit`)
  brings it back.
* `Revoke`: Cloud. `Response` is what Cloud may answer: a credential used for
  another device, or revoked, gets 401 or 404; any request can fail in transport.

`DesktopState.save` is three steps of the thread that runs it, `save[t]`: `SaveOpens`
truncates the file (which then reads as a fresh state: `load_state` catches the parse
error), `SaveDumps` is `asdict(self)`, the snapshot of the memory that all threads of
the GUI share, and `Flush`, part of the thread's next action, writes the snapshot as the
file is closed. In between other threads change the memory, truncate and write, so an
old snapshot can be the last one written. When another save has written since the
truncation, the two texts may also overlap into one that does not parse (`Garbled`); an
overlap that happens to parse as a third state is not modelled. The daemon has a memory
of its own, and nobody changes the snapshot that it saves; its save is two steps,
`HbClear` and `HbWrite`. The check and the setting of `_login_in_progress` are one step:
clicks of one page are serialised by the page's disabled buttons.

Three history variables name what the promises depend on, and it is the code that promises
no more:

* `interference`: another actor got into one of three windows (a login between its two
  stores, or before its save has truncated the file; a Setup between its two reads), or a
  login died there, or the GUI ended with its saves unsettled;
* `unsettled`: a save began while another was under way, or failed, and none has since had
  the file to itself from its truncation on;
* `cut`: a save was killed, has failed, or was left unsettled by the GUI's end.

Properties that hold: `SingleLoginFlow`, `SessionIsPaired` (outside the windows; on disk
while saves are settled), `SecretIsPaired`, `DiskForgetsWithMemory` (while saves are
settled), `UninvitedLogoutNeedsTwoLogins`, `RestartKeepsOnlyLogin` (a start asks the user
of the only login to log in again only after a save was cut short or overlapped another)
and, with fairness and a heartbeat thread that is not dead for good,
`RevokedCredentialIsDropped`. `NeverLoggedOutUninvited` is what `spec.md:3` says, and is
violated: see section 5.

`Operations` bounds the calls that run beside each other: `offered`, one of its functions, is
chosen at the start of a behaviour and says which kinds of call each of `Calls` may be.

### 2.2 LoginFlow

One login thread, `_run_login_flow`, against a clock. `interval`, `deadline` and
`wake` are the thread's locals, `pace` the spacing the provider demands, `seen`
whether the code was approved when the last poll was sent: an approved code is not
answered "pending". Requests take up to `MaxTransit`, sleeps up to `MaxLag` longer
than asked. `Click` is `startLogin` of the page with `_handle_start_login`,
`Reopen` closing and opening the window, after which a new process starts with a
new flag. `cli.py:76-100` runs the same loop, which is one step of `LinuxCli`.

### 2.3 LocalCluster

`vm` is what multipass knows of the VM `browseterm` and what the scripts installed
in it; VMs are numbered by their launch, and a kubeconfig entry is the number of
the VM that issued it, so a stale address or certificate is another number. Each
command of `create_cluster` and `delete_cluster`, and each command of the gVisor
script with an effect, is a step. `SetupFails` is a `ClusterError` at any step; a
command that fails after its effect is the failure of the next step. What is
assumed: a script inside the VM stops when its client times out, a restarted VM
keeps its address, and `multipass launch` refuses a name that exists.
`InstallK3s` restarts the service, as the docstring of `_install_k3s` says of the
external installer; `GVisorActive` depends on it.

`page` is the button and its busy mark. A page loaded again starts with a fresh
button while calls of the old page run on; `here` says whether the page that made
a call is still shown. Three history variables name what a promise depends on:
`tidy` (no deletion was cut short, failed, or ran beside another call), `misled`
(the allocation became another one while there was a VM, or its launch had begun) and
`alone` (no other call ran beside this one). `alloc` is the allocation in the GUI's
`DesktopState`, which the Cluster section shows and Cloud is told. A Setup chooses it
(on a page that does not know of the VM it can), and a restart of the app reads it from
a file where the daemon may have put back an older one, or which may be lost and give the
defaults, so `Quit` may change it to any (`Reallocates`). `misled` ends with the next VM.

### 2.4 LinuxCli

`token` is the credential file and `file` the state file; `k3s`, `kube` and `secret`
are the cluster on the host, whether the kubeconfig's entries reach it, and the
Secret deployed into it. `cmd[p]` is the command a process runs, its step and its
locals (`token`, and of the loaded `DesktopState` the device id and the allocation).
A save is a truncation and a write, as in `DeviceSession`. `Dies` is every way a
command ends early: a `CliError`, a `ClusterError`, an exception nobody catches,
Ctrl-C or a kill; since it may come at every step, a command that fails after its
effect is one that dies before the next step. `Invoke` is the user, in as many
terminals as there are processes. `status`, `logs`, `activate` and `diagnostics`
change no local state.

`raced` records that a command wrote to one of the stores while another was running;
nothing locks them, and the properties promise nothing then. Without a race they hold
for every sequence of commands, failures and kills: the state file never names the
device of another login than the stored credential's (`StateNamesCredential`), the
cluster never runs with a credential the host has forgotten (`SecretIsStored`), and
the allocation is the one last chosen (`AllocationIsKept`). They rest on the order of
the code: k3s goes before the state, the device id before the credential, and a
failing uninstaller stops the purge. Stale kubeconfig entries are one value here; how
they come about part by part is in `LocalCluster`.

### 2.5 CrashWatch and PodMonitor

`CrashWatch` is the abstract specification: Kubernetes makes pods, breaks them, lets
them recover and replaces them, and the app may do one thing, `Restart`, to a monitored
pod that has crashed. `PodMonitor` is the code: the health check's list (`todo`), its
loop, `restart_pod` with its 30 seconds, and the table's buttons, which hold a name for
as long as nobody renders the table again. Its `Spec` implements `CrashWatch`
(`OnlyCrashedPodsRestart`), with the pods as they are and the app's steps mapped to
`Restart` or to nothing. That rests on deleting by pod name: names are not used again,
so an old name is a recovered pod's at worst (`recovered` remembers that) or nobody's
(`Gone`). A number is used again in the model only after every list that held the old
pod's name has had it replaced by `Gone`.

`Slow` are the Deployments whose pods need more than 30 seconds to go. The time-out
ends the daemon's loop over the list, which begins again with the same pod a minute
later; `CrashingPodRestarts` excepts the workloads listed after a slow one, for the
code does not restart those. `DaemonDies` is an exception other than `ClusterError` at any
step of a round: the thread ends, the process lives on, and only a restart of it
(`DaemonRelaunch`, a reboot say) brings the thread back. The property is promised under the
condition that the thread is not dead for good.

### 2.6 Prerequisites

One Setup from its click to the point where it creates the VM, again and again, on
every computer of `Hosts`: system, package manager, whether Multipass's directory is
there before Multipass, Windows edition. `asked` is what the last error message told the
user. `sees` is the PATH of the running process, extended once at import by the
directories that exist then (`cluster_manager.py:58-70`). DISM's answers 0 and 3010, the
query of the service that may deny what is there, declined prompts and time-outs are
outcomes of the steps.

### 2.7 LocalStack

`Plan` is `deploy`'s list of steps that have an effect; a Setup is a place in it with
what it was given at its start: device, and the repositories' version. A step needs what
the command needs (a namespace for a Secret, a Deployment for a restart, the CronJob for
the Job), so a Setup that comes upon another's cluster fails like the code's. `Fail` is a
failure at any step, the resolution of Cloud's address included. `Needs` and `SecretOf` are
the manifests of the other repositories, as the docstrings of `local_stack.py` quote them.

`kubectl apply` and `kubectl rollout restart` return at once and nothing waits for the
rollout, so `Apply` and `_restart_deployment` only note in `manifests` what was applied and
take the workload out of `pods`, which holds the workloads whose latest rollout has started
a pod, with the image that pod pulled and the device it read. `PodStarts` is Kubernetes: it
starts the pod some time or never, and replaces it at will; no fairness is assumed. The pods
of earlier rollouts run on until the latest one's is ready, **which may be never** (an image
that crashes, a credential that is refused), with the images and the device of their time.
They are not in the state, as nothing depends on what they run, and the properties promise
nothing about them. `Followed` and `MaxPods` bound which workloads have pods in the state,
and how many at a time; since no Setup looks at a pod and no pod at another, one at a time is
enough.

`:latest` is one for all computers (`config.py:93`), and a `make` that is given up after its
time-out may go on and push. So at any time `LatePush` puts any version of an image there;
one older than what a running or complete Setup builds is a Setup of another kind at work. `deployed` is the last Setup that ran to its end with
no other kind of Setup beside it since: what the properties promise about.

### 2.8 Allocation

CPU, memory and storage go the same ways side by side, so `host.kind` is one of them,
in quarters of a core or GB. `Rounded` is Python's `round` (ties to even), `Snap` the
browser's correction of a range input, `Shown` the rounded total that is the slider's
`max`. `status` is the answer the page waits for, `call` the Setups that run, of this
page or of one before (`here`). Answers arrive in the order in which they were computed:
pywebview, which serves each call on a thread of its own, does not promise that, and two
answers of one page that overtake each other are not modelled. `DefaultIsHalf` is the
reference definition of the default.

## 3. Runs

All bounds are the constants of the cfg files.

| Run | Result | Instance | Shows |
|---|---|---|---|
| `session_safety` | holds | 2 grants, 2 devices, 2 calls of different kinds, or logouts, 1 allocation | every safety property of 2.1 |
| `session_liveness` | holds | 2 grants, 1 device, 1 call (of cluster_status and logout) | a revoked credential is dropped |
| `session_uninvited` | violated | as safety, every call | `spec.md:3`: a late 401 deletes the next login's credential |
| `login_safety` | holds | floor 2, expiry 4 or 7, intervals 1, 2, 3, transit 2, lag 1, 2 slow_downs | pace, end and fairness of polling |
| `cluster_safety` | holds | 2 calls, 2 VMs, 1 allocation | kubeconfig and gVisor after any history of failures |
| `cluster_restart` | holds | 1 call, 2 VMs, 2 allocations | the VM's size, and a stopped VM is restarted |
| `cli_safety` | holds | 2 processes, 2 grants, 2 devices, 2 allocations | credential, state, allocation and Secret after any commands and kills |
| `pods_restart` | holds | 2 Deployments, 1 slow, 1 Job, 2 pods each, 1 call, 1 trouble | the refinement, and that crashed pods are restarted |
| `install_advice` | holds | every computer | when the VM can be created, and that the advice leads there |
| `install_home` | violated | every computer | `cluster_manager.py:434`: VirtualBox does not help |
| `stack_order` | holds | 2 Setups, 1 change, the pods of the status monitor or of tunnel-registrar | order, one device, current images |
| `allocation_gui` | holds | 2 CPU, 2 memory and 3 storage capacities, 2 calls | default, limits, sliders, Cloud's copy |

Why the bounds are enough to meet the interesting cases. Every conflict in the
session is between one thing that is old and one that is new: two grants and two
devices give a stale credential and a stale device id, two calls and the heartbeat
give three writers of the file beside the login. (With two grants a page can be loaded again
under a waiting login, which is when the flag matters, but a third would be needed for a
second login to start there; `OneLoginAtATime` is proved for any number.) The two calls
are any two of device_info, cluster_status, Setup and logout (`UnlikeCalls`), and two logouts
(it takes these to reload the page under a running login), but not two others of one kind
beside each other; the proofs are for any. The run of the session's safety has one
allocation, of which its properties do not speak. In `LoginFlow` an interval
below the floor, one above it and none are distinct cases, the shorter
lifetime lets a code expire between two polls, and two slow_downs carry the
interval past it. In `LocalCluster` two VMs in a row make every entry stale once;
`launched` bounds only how often Setup succeeds in launching. The VM's size is checked
with one call at a time: another allocation chosen beside a launch is what `misled` excepts.
`LinuxCli` has no bound but its sets; two grants and two devices give an old and a new
login, two processes every overlap of two commands. In `PodMonitor` the slow Deployment
is the last of the list, so that its time-outs hit the rounds of the other; two pods of
a workload are an old one on its way out and its successor; one trouble is one click,
rollout, failure of kubectl or death of the thread, while pods crash and recover without bound.
`Prerequisites` has no bound at all. In `LocalStack` two Setups are an older and a newer
one, in sequence or side by side, any number of times; one change is one login, one
update or one new cluster between any two of their steps. `Allocation`'s capacities
(quarters of a core or GB) are whole ones and halves, which round down (22.5 GB) and up
(3.5, 5.5 and 27.5 GB), with defaults on the sliders' stops and between them; nothing
else bounds it.

TLC explores about 1.6 million states for `session_safety`, 1.5 million each for
`stack_order` and `cli_safety`, 1.2 million for `cluster_safety`, 700,000 for
`allocation_gui` (a minute or two each), and at most 150,000 for the others.
Symmetry is used only in safety runs, and only of constants the specification treats alike. Deadlock is checked everywhere.

### Fairness

* `DeviceSession`: the daemon's steps. launchd (`KeepAlive`) restarts the daemon, so
  it is not killed at the same step of every heartbeat: strong fairness of
  `HbSend`, `HbDelete`, `HbClear`, `HbWrite`. Requests end by httpx's timeout.
  Cloud, asked for ever with a credential it refuses, answers 401 some time: strong
  fairness of that answer. The user and the GUI owe nothing. An exception may end the
  heartbeat's thread at any step (`HbDies`), and nothing has to bring it back
  (`DaemonExit` is not fair), so the property is conditional: the thread is not dead
  for good.
* `LoginFlow`: the thread runs, its requests return, time passes while it sleeps.
* `LocalCluster`: the health check's loop runs; a VM that is asked again and again to
  start starts (strong fairness of `HealthStarts`); calls return, since every
  command has a timeout. `DaemonRelaunch` is not fair: nothing relaunches a process
  that still runs.
* `PodMonitor`: the loop runs every minute and calls are served (weak fairness); a
  deleted pod goes in the end, strong fairness for the slow ones, which do not go while a
  command waits for them, and do in between. Clicks, crashes, recoveries and rollouts owe
  nothing. The thread may die in any round (`DaemonDies`), `DaemonRelaunch` is not fair, and
  the property has the same condition.
* `LocalStack` has no fairness: a rollout may never finish, and no property says that it does.
* `Prerequisites`: Setup's steps run; a user who keeps at it clicks Setup, does what the
  last message asked, and consents to an installation some time (strong fairness). A
  user who gives up gets no VM, and the code can do nothing about that.

## 4. Proofs

`DeviceSession_proofs` proves, for any sets of grants, devices, calls and
allocations, from `ConstantsAssumption` (`None`, `Torn` and `Garbled` are not among the
other values, a grant is not a call, and `Operations` offers calls that the page makes) alone:

* `TypeCorrect`: `Spec => []TypeOK`;
* `SessionInvariant`: `Spec => []SessionInv`, from which follow `OneLoginAtATime`,
  `DiskForgets`, `SessionPairing` and `SecretPairing`;
* `UninvitedLogout`: the action property `UninvitedLogoutNeedsTwoLogins`.

None of these properties is inductive. A 401 that the heartbeat is about to act on
says something only if the pair it sent is known to come from completed
logins, so `SessionInv` adds where every credential and device id that sits in a
local came from (`TokensAreGranted`, `DevicesAreKnown`), that a request carries both
(`RequestsAreComplete`: a heartbeat at its deletion was really refused), that no
thread outlives its process (`ClosedIsQuiet`), that as long as saves are settled at most
one is under way and its snapshot is what the memory still holds (`SavesAreCurrent`), and
what is true inside each window while no other actor has entered it, and of the file once
no save is pending (`WindowsAreAlone`, of `Alone` and `FileFollows`). Frame lemmas say what each
actor leaves alone; effect lemmas say how a step may change the credential, the
file and memory; each conjunct then has one lemma with a case per action it depends
on. `UninvitedLogout` follows because a refused pair that is known either has
a credential of another login or a device id of another login
(`RefusalNamesAnotherLogin`).

`PodMonitor_proofs` proves, from `MonitorAssumption` (workloads are numbers, monitored
or not, and the bounds are numbers), `TypeCorrect` and `Refinement`: `Spec =>
OnlyCrashedPodsRestart`, that is, `PodMonitor` implements `CrashWatch`. That a deletion is
CrashWatch's `Restart` (`DeletionIsRestart`) needs to be known of the name by which it is
done; `HeldHaveCrashed` says that whoever holds a name that a pod bears, the daemon's list
or a call, holds that of a monitored pod that has crashed. It is kept because pods
only age (`PodsAge`: they stay, and none becomes fresh) and because a pod that is gone
takes its name with it (`VanishInv`).

`Prerequisites_proofs` proves, from no assumption, `TypeCorrect`,
`VMComesAfterPrerequisites` (`VMCanBeCreated`) and `RestartsAreNeeded`
(`RestartIsNeeded`). `VMCanBeCreated` speaks of Setup's last step only; the invariant adds
that Setup has a Multipass it finds from its second step on (`MultipassIsFound`).

`LinuxCli_proofs` proves, from `CliAssumption` (the default is an allocation; `None` and
`Torn` are not among the other values), `TypeCorrect`, `StatePairing`
(`StateNamesCredential`), `SecretPairing` (`SecretIsStored`) and `AllocationSurvives`
(`AllocationIsKept`). What the stores hold between commands is not enough for any of them: a
command acts on what it read before. `Knows` says, for each of its steps, what that is and
how the stores look there (a file about to be written has been emptied, an uninstall that goes
on to the state has removed the Secret), and `StoresAgree` what holds of the stores at any
time. Both are claimed only while nothing has raced (`Unraced`). A step that writes nothing
keeps them because everybody's stores stay as they are (`QuietStep`), a step that writes
because whoever else ran would have made it a race (`WritesAlone`).

`LoginFlow_proofs` proves, from `TimingAssumption` (floor and default lifetime are
positive, the other times natural numbers), `TypeCorrect`, `ApprovalCounts`
(`ApprovalInTimeCounts`), `PollingEnds` (`PollingIsBounded`) and the action property
`PaceIsKept` (`PollsArePaced`). Time passes while the thread sleeps and while a poll is
in transit, but the deadline is looked at only at the head of the loop, so the
invariant relates the times: the thread sleeps at least as long as the pace demands, it
fell asleep before the deadline, a poll was sent when a sleep ended, and an approval that
a poll does not carry came after it was sent. Their sum is how late the last poll can be.

`LocalCluster_proofs` proves, from `ClusterAssumption` (there may be a VM, and `NoVM` is
none), `TypeCorrect`, `EntriesAreCurrent` (`EntryIsCurrent`), `GVisorIsLoaded`
(`GVisorActive`) and `SizeIsKept` (`SizeIsAllocation`). The invariant says what a step
may rely on: `AloneIsAlone` and `DeletesAlone`, that nothing runs beside a call that has
had no company; `EntriesHold`, which of the entries may be what while a Setup merges and a
deletion cleans; `ScriptHolds`, that a Setup alone at its n-th step has the VM prepared as
far as the steps before it go, also where it skipped them because of what an earlier Setup
left; `SizeIsWanted`, that a Setup that may still launch wants the size that the Cluster
section shows, until another is chosen or read from the file.

`LocalStack_proofs` proves, from `StackAssumption` (the bound on changes is a number) and for
any number of Setups, `TypeCorrect`, `NeedsAreMet` (`NeedsComeFirst`), `OneDevice`
(`StackIsOneDevice`) and `CurrentImages` (`ImagesAreCurrent`). First the plan, which the
model puts together from the parts of `deploy`, is shown to be a list of 25 steps
(`PlanSteps`), so that the order it stands for becomes a fact: every workload is applied after
all that its containers need (`ApplyOrder`) and restarted after its image, its Secret and
itself (`RestartOrder`). The invariant then says that what a Setup did before its k-th step is
there (`SetupsCarry`), and still of its device and version if nobody of another kind ran
beside it (`KindsAreApart`, `SetupsDeploy`); at its last step that is everything
(`PlanIsComplete`, `WasDeployed`). What it says of a workload's pod it says of one that the
latest rollout has started, whenever that is: `RollsIs` and `ApplyIs` say that a rollout
takes the pod out of `pods`, `PodStays` that a pod that starts later runs what the
complete Setup has left,
`PodsAreAsNamed` that it is of the device the applied manifest names, and `LatePushIs` that a
push of an older build makes the newer Setups beside it mixed.

`Allocation_proofs` proves, from `AllocationAssumption` (capacities in quarters, a CPU whole,
none below what is least) and for any sets of them and any number of calls, `TypeCorrect`, `DefaultIsNearHalf`
(`DefaultIsHalf`), `Fits` (`AllocationFits`), `SliderIsRight` (`SliderShowsSaved`) and
`CloudIsRight` (`CloudKnowsSaved`). `RoundedIs`, `DefaultIs` and `SnapIs` say what rounding,
default and slider compute for every number. The invariant adds that nothing happens before
something is saved (`NothingYet`: that makes what a later login or status saves the same
again), that whatever a Setup in progress was asked for fits as well (`EverythingFits`), that
an update in progress carries what was saved last, unless another one runs beside it
(`CloudIsTold`), and that the status a page waits for is still true unless a Setup was clicked
(`StatusIsSaved`).

So every safety property that a run checks is a theorem for every value of the constants,
with one exception, `RestartKeepsOnlyLogin` of `DeviceSession`, which is model-checked only.
Also only model-checked: liveness (`RevokedCredentialIsDropped`, `FlagIsReleased`,
`StoppedVMRestarts`, `CrashingPodRestarts`, `AdviceLeadsToVM`), which is out of the
prover's reach.

## 5. Findings

Two are violated runs; `PROJECT.json` quotes both sides:

1. `session_uninvited`: the heartbeat deletes the credential that is stored, not the one
   it sent.
2. `install_home`: Windows Home is told to install VirtualBox and click Setup again,
   which is refused again whatever is installed.

Further disagreements between the code and its texts met while modelling. The models
contain the steps that lead to them; no run is spent on them:

* `daemon.py:97`: `clear` saves a snapshot loaded before the request, so an allocation
  chosen meanwhile comes back as the old one on disk; `state.py:9` says that allocation
  fields survive `clear`.
* `state.py:45` truncates the file before the new text is written: a GUI killed in between,
  or whose write fails, shows the login page at its next start (`app.py:107-110`), with the
  credential stored and accepted; `spec.md:3` says that only a logout logs the app out.
  `RestartKeepsOnlyLogin` says that with one login nothing but such a save, or one that
  overlapped another, does that.
* `daemon.py:88` catches only `CloudClientError`: an error of the keychain or of the disk, or
  an answer that is not JSON, ends the heartbeat's thread while the process lives (`HbDies`);
  `daemon.py:98-99` speaks of trying again at the next interval.
* `local_stack.py:353` calls a rollout restart forcing running pods to pick up the new image;
  the old pods run on until the new one is ready, which nobody waits for (`PodStarts`).
* `app.py:237-238` enables the login buttons before `app.py:211` resets the flag; a click
  in between disables them for good, though `app.py:69` says "Please try again."
* `cluster_manager.py:610`: the user's kubeconfig comes first, so `browseterm` entries that
  a VM deleted outside the app left behind win over the fetched ones;
  `cluster_manager.py:577-579` says that every later kubectl call "just works".
* `daemon.py:121` catches only `ClusterError`: any other exception ends the health check's
  thread while the process lives, so launchd does not relaunch it; `daemon.py:24-25` says
  that the loop starts the VM again.
* `cli.py:88-91`: a CLI killed between storing the credential and saving the device id skips
  the login ever after; `cli.py:268` advises a setup, and only a purge helps.
* `app.py:151` says that the registered allocation and the one the Cluster section shows
  are always the same: a default storage that is no multiple of 5 GB (11, of 22) is shown
  as the nearest stop of the slider (`app.html:94`).
* `cli.py:122` prints the limit rounded to whole GB, and refuses it when it was rounded up.
* `cluster_manager.py:279-281` says that a Multipass installed mid-session is found without
  a restart; where its directory is new it is not (`cluster_manager.py:65`), and no message
  asks for the restart.
* `app.py:205` wants errors of the login surfaced; one raised while the GUI stores the
  granted credential reaches no handler (`StoringFails` of `LoginFlow`).
* `kubectl config view` is not run through `_run`: a missing kubectl is no `ClusterError`
  (`ViewCrashes` of `LocalCluster`) and leaves the page's button busy.

## 6. Not modelled, and the plan

Not modelled, and why:

* how each system is asked for its hardware, HTTP and JSON, the text of manifests,
  progress rows, wording: I/O and layout;
* `config.py`, `main.py`, `daemond.py`: constants and two calls; packaging and CI, but for
  launchd's `KeepAlive`: build files; the tests, which were read as documentation;
* kubectl's current context during a Setup (`local_stack.py:495`): what the make targets of
  other repositories do with it is not in this one; for the same reason a
  make target that is given up and applies its manifest later (its push is modelled), and
  the snapshot image a node has cached
  (`local_stack.py:401-407` says that it is to be cleared by hand);
* what the pods of earlier rollouts run while the latest rollout is not ready;
* two answers of one page that overtake each other (2.8);
* two texts of the state file that overlap into one that parses as a third state (2.1);
* entries of other tools in the user's kubeconfig.

Planned: refinements proved and checked, of an abstract session (logged in as a device,
or not), implemented by `DeviceSession` without interference, and of an abstract login
(waiting, then one outcome), implemented by `LoginFlow` and by the CLI's loop.
