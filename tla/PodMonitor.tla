----------------------------- MODULE PodMonitor -----------------------------
(***************************************************************************)
(* Restarting crashed pods (desktop/cluster_manager.py, list_pods and      *)
(* restart_pod): by the daemon's health check, which restarts everything   *)
(* that crashes, and by the buttons of the Device page's pod table         *)
(* (desktop/api.py, app.js). Both list first and delete later, by a name   *)
(* that may by then be a recovered pod's or nobody's.                      *)
(*                                                                         *)
(* kubectl delete waits until the pod is gone. _run gives it 30 seconds,   *)
(* and what it raises ends the daemon's loop over the list. Slow is the    *)
(* set of Deployments whose pods take longer than that. The VM runs and    *)
(* the table is shown throughout; LocalCluster has them come and go.       *)
(***************************************************************************)
EXTENDS Naturals

CONSTANTS Deployments, Jobs, MaxPods,
          Slow,      \* Deployments whose pods outlast the 30 seconds
          Calls,     \* threads that serve the page's calls
          MaxTrouble  \* bound: clicks, rollouts, failures of kubectl, deaths of the thread

ASSUME MonitorAssumption ==
    /\ Deployments \subseteq Nat /\ Jobs \subseteq Nat
    /\ Deployments \cap Jobs = {}
    /\ Slow \subseteq Deployments
    /\ MaxPods \in Nat \ {0} /\ MaxTrouble \in Nat

VARIABLES pods,     \* the pods there are, by name
          daemon,   \* the health check: its step, the list it goes through, its pod
          call,     \* each call of restart_workload_pod: its step and its pod
          trouble,  \* failures, deaths of the thread and clicks at the page so far
          replaced  \* pods others have deleted so far

vars == <<pods, daemon, call, trouble, replaced>>

\* Its part of the state is the same one here.
Cluster == INSTANCE CrashWatch WITH pods <- pods, replaced <- replaced

Workloads == Deployments \cup Jobs

\* A pod that is gone: whoever still has its name has a name that nobody bears.
Gone(w)     == <<w, 0>>
NamesOrGone == Workloads \X (0..MaxPods)
Names       == Workloads \X (1..MaxPods)
NoPod       == <<0, 0>>

DaemonIdle == [step |-> "waiting", todo |-> {}, pod |-> NoPod]
CallIdle   == [step |-> "idle", pod |-> NoPod]

Init ==
    /\ Cluster!Init
    /\ daemon = DaemonIdle
    /\ call = [c \in Calls |-> CallIdle]
    /\ trouble = 0

-----------------------------------------------------------------------------
(***************************************************************************)
(* list_pods                                                               *)
(***************************************************************************)
is_monitored_pod(p) == p[1] \in Deployments

Crashing == {p \in DOMAIN pods : is_monitored_pod(p) /\ pods[p] \in Cluster!Listed}

(***************************************************************************)
(* _health_check_once                                                      *)
(***************************************************************************)
\* A multipass or kubectl that fails to tell is a round without pods: none starts.
RoundStarts ==
    /\ daemon.step = "waiting"
    /\ Crashing # {}
    /\ daemon' = [daemon EXCEPT !.step = "loop", !.todo = Crashing]
    /\ UNCHANGED <<pods, call, trouble, replaced>>

\* The list is in the order of the names: nothing of it comes before p.
IsNext(p) == p \in daemon.todo /\ \A q \in daemon.todo : p[1] <= q[1]

\* Mutant: the deletion is followed like one of the page's calls.
DaemonDeletes_Waits(p) ==
    /\ daemon.step = "loop"
    /\ IsNext(p)
    /\ p \in DOMAIN pods
    /\ Cluster!Delete(p)
    /\ daemon' = [step |-> "wait", todo |-> daemon.todo \ {p}, pod |-> p]
    /\ UNCHANGED <<call, trouble, replaced>>

\* Mutant: what is deleted is the pod that the Deployment has now.
DaemonDeletes_ByWorkload(p) ==
    /\ daemon.step = "loop"
    /\ IsNext(p)
    /\ \E q \in Cluster!PodsOf(p[1]) :
         /\ Cluster!Delete(q)
         /\ daemon' = [step |-> "delete", todo |-> daemon.todo \ {p}, pod |-> q]
    /\ UNCHANGED <<call, trouble, replaced>>

\* kubectl delete pod is accepted.
DaemonDeletes(p) ==
    /\ daemon.step = "loop"
    /\ IsNext(p)
    /\ p \in DOMAIN pods
    /\ Cluster!Delete(p)
    /\ daemon' = [step |-> "delete", todo |-> daemon.todo \ {p}, pod |-> p]
    /\ UNCHANGED <<call, trouble, replaced>>

\* The pod is gone, and the loop goes on.
DaemonGoesOn ==
    /\ daemon.step = "delete"
    /\ daemon.pod[2] = 0
    /\ daemon' = IF daemon.todo = {} THEN DaemonIdle
                                     ELSE [daemon EXCEPT !.step = "loop", !.pod = NoPod]
    /\ UNCHANGED <<pods, call, trouble, replaced>>

\* Mutant: after a failure the loop tries the same list again.
RoundFails_Retries ==
    /\ \/ daemon.step = "loop" /\ \E p \in daemon.todo : IsNext(p) /\ p[2] = 0
       \/ daemon.step = "delete" /\ daemon.pod[2] # 0 /\ daemon.pod[1] \in Slow
    /\ daemon' = IF daemon.todo = {} THEN DaemonIdle
                                     ELSE [daemon EXCEPT !.step = "loop", !.pod = NoPod]
    /\ UNCHANGED <<pods, call, trouble, replaced>>

\* ClusterError: no such pod, 30 seconds over, or a failure of kubectl.
RoundFails ==
    /\ \/ daemon.step = "loop" /\ UNCHANGED trouble
          /\ \E p \in daemon.todo : IsNext(p) /\ p[2] = 0
       \/ daemon.step = "delete" /\ UNCHANGED trouble
          /\ daemon.pod[2] # 0 /\ daemon.pod[1] \in Slow
       \/ daemon.step \in {"loop", "delete"}
          /\ trouble + replaced < MaxTrouble /\ trouble' = trouble + 1
    /\ daemon' = DaemonIdle
    /\ UNCHANGED <<pods, call, replaced>>

\* The keychain is locked, or multipass or kubectl prints no JSON: only
\* ClusterError is caught, and the thread ends wherever it is.
DaemonDies ==
    /\ daemon.step # "dead"
    /\ trouble + replaced < MaxTrouble /\ trouble' = trouble + 1
    /\ daemon' = [DaemonIdle EXCEPT !.step = "dead"]
    /\ UNCHANGED <<pods, call, replaced>>

\* The process lives on without the thread, so launchd does not bring it back;
\* a reboot does.
DaemonRelaunch ==
    /\ daemon.step = "dead"
    /\ daemon' = DaemonIdle
    /\ UNCHANGED <<pods, call, trouble, replaced>>

(***************************************************************************)
(* The page                                                                *)
(***************************************************************************)
\* A click on a button of the table. Polls are rendered in the order of their
\* answers and their failures keep the table, so it may be of any age: a button
\* is there for any pod that has crashed since it was made, gone or not.
ClickRestart(c, p) ==
    /\ call[c] = CallIdle
    /\ trouble + replaced < MaxTrouble
    /\ is_monitored_pod(p)
    /\ p \notin Names \/ (p \in DOMAIN pods /\ pods[p] # "fresh")
    /\ call' = [call EXCEPT ![c] = [step |-> "delete", pod |-> p]]
    /\ trouble' = trouble + 1
    /\ UNCHANGED <<pods, daemon, replaced>>

CallDeletes(c) ==
    /\ call[c].step = "delete"
    /\ call[c].pod \in DOMAIN pods
    /\ Cluster!Delete(call[c].pod)
    /\ call' = [call EXCEPT ![c].step = "wait"]
    /\ UNCHANGED <<daemon, trouble, replaced>>

\* Deleted, not found, failed or timed out; the answer is the next list.
CallReturns(c) ==
    /\ \/ call[c].step = "delete"
       \/ call[c].step = "wait" /\ (call[c].pod[2] = 0 \/ call[c].pod[1] \in Slow)
    /\ call' = [call EXCEPT ![c] = CallIdle]
    /\ UNCHANGED <<pods, daemon, trouble, replaced>>

(***************************************************************************)
(* Kubernetes                                                              *)
(***************************************************************************)
Churn ==
    /\ \/ \E w \in Deployments : Cluster!Create(w)
       \/ \E p \in DOMAIN pods : Cluster!Crash(p) \/ Cluster!Recover(p)
    /\ UNCHANGED <<daemon, call, trouble>>

Awaited == {daemon.pod} \cup {call[c].pod : c \in Calls}

\* The pod is gone at last; its name lives on in lists.
Vanish(p) ==
    LET Name(q) == IF q = p THEN Gone(p[1]) ELSE q
        InList(list) == {Name(q) : q \in list}
    IN  /\ p[1] \in Slow => p \notin Awaited
        /\ Cluster!Vanish(p)
        /\ daemon' = [daemon EXCEPT !.todo = InList(@), !.pod = Name(@)]
        /\ call' = [c \in Calls |-> [call[c] EXCEPT !.pod = Name(@)]]
        /\ UNCHANGED trouble

\* A Setup that is run again rolls the Deployments out.
Replace(p) ==
    /\ trouble + replaced < MaxTrouble
    /\ Cluster!Replace(p)
    /\ UNCHANGED <<daemon, call, trouble>>

-----------------------------------------------------------------------------
Round == RoundStarts \/ DaemonGoesOn \/ RoundFails \/ \E p \in Names : DaemonDeletes(p)
Serve(c) == CallDeletes(c) \/ CallReturns(c)

Next ==
    \/ Round
    \/ DaemonDies
    \/ DaemonRelaunch
    \/ \E c \in Calls : Serve(c) \/ \E p \in NamesOrGone : ClickRestart(c, p)
    \/ Churn
    \/ \E p \in DOMAIN pods : Vanish(p) \/ Replace(p)

\* While its thread lives the loop runs every minute, calls are served, deleted
\* pods go in the end. Nothing makes a dead thread come back.
Fairness ==
    /\ WF_vars(Round)
    /\ \A c \in Calls : WF_vars(Serve(c))
    /\ \A p \in (Deployments \ Slow) \X (1..MaxPods) : WF_vars(p \in DOMAIN pods /\ Vanish(p))
    /\ \A p \in Slow \X (1..MaxPods) : SF_vars(p \in DOMAIN pods /\ Vanish(p))

Spec == Init /\ [][Next]_vars /\ Fairness

-----------------------------------------------------------------------------
\* Parameters and locals keep their types.
TypeOK ==
    /\ Cluster!TypeOK
    /\ daemon \in [step: {"waiting", "loop", "delete", "dead"}, todo: SUBSET NamesOrGone,
                   pod: NamesOrGone \cup {NoPod}]
    /\ call \in [Calls -> [step: {"idle", "delete", "wait"}, pod: NamesOrGone \cup {NoPod}]]
    /\ trouble \in 0..MaxTrouble
    /\ replaced \in 0..MaxTrouble

(* cluster_manager.py restart_pod, daemon.py:26: however long ago the list was
   made, and whatever has become of its pods and of the workloads since, daemon
   and buttons restart only monitored pods that have crashed, never the pod
   that took the place of one. *)
OnlyCrashedPodsRestart == Cluster!Spec

Starved(w) == \E v \in Slow : v < w
CrashesOn(w) == \E p \in Cluster!PodsOf(w) : pods[p] = "crashing"

(* daemon.py:117: a monitored pod that keeps crashing is restarted, though
   rounds fail, others crash too and people restart pods between list and
   deletion, provided the thread of the health check is not dead for good.
   Workloads listed after one whose pods go slowly are excepted: the time-out
   ends the loop before it comes to them. *)
CrashingPodRestarts ==
    ([]<>(daemon.step # "dead")) =>
    \A w \in Deployments : ~Starved(w) => (CrashesOn(w) ~> ~CrashesOn(w))
=============================================================================
