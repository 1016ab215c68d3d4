----------------------------- MODULE CrashWatch -----------------------------
(***************************************************************************)
(* What the pod monitor promises, and the cluster it works on: a monitored *)
(* pod is restarted only once it has crashed, whoever asked for that and   *)
(* however old the list was that named it. Who watches, and when, is left  *)
(* to PodMonitor, which implements this.                                   *)
(*                                                                         *)
(* A workload is a number, the place of its name in the list that kubectl  *)
(* prints. A pod's name is its workload and a number that tells its pods   *)
(* apart; in Kubernetes the latter is random and never used twice.         *)
(***************************************************************************)
EXTENDS Naturals

CONSTANTS Deployments,  \* the monitored workloads, MONITORED_WORKLOAD_PREFIXES
          Jobs,         \* the others, of whose pods one has failed and stays
          MaxPods       \* bound: pods of a Deployment at a time

VARIABLES pods,     \* the pods there are, by name
          replaced  \* how many pods others than the app have deleted

Names == (Deployments \cup Jobs) \X (1..MaxPods)

\* Pods that start and pods that run are alike to the code: they do not crash.
Living    == {"fresh", "crashing", "recovered"}
Leaving   == {"leaving", "failing"}  \* deleted, and still listed, as crashing or not
PodStates == Living \cup Leaving

Listed    == {"crashing", "failing"}  \* what _is_crashing says yes to
Suspected == Listed \cup {"recovered"}  \* and what it has said yes to

TypeOK ==
    /\ DOMAIN pods \subseteq Names
    /\ pods \in [DOMAIN pods -> PodStates]
    /\ replaced \in Nat

Init ==
    /\ pods = [p \in {q \in Names : q[2] = 1} |-> IF p[1] \in Jobs THEN "crashing" ELSE "fresh"]
    /\ replaced = 0

PodsOf(w) == {p \in DOMAIN pods : p[1] = w}
Become(p, state) == pods' = [pods EXCEPT ![p] = state]

(***************************************************************************)
(* Kubernetes                                                              *)
(***************************************************************************)
\* The ReplicaSet: one pod that is not on its way out.
Create(w) ==
    /\ \A p \in PodsOf(w) : pods[p] \in Leaving
    /\ \E k \in 1..MaxPods :
         /\ <<w, k>> \notin DOMAIN pods
         /\ \A j \in 1..(k - 1) : <<w, j>> \in DOMAIN pods
         /\ pods' = [p \in DOMAIN pods \cup {<<w, k>>} |->
                       IF p = <<w, k>> THEN "fresh" ELSE pods[p]]
    /\ UNCHANGED replaced

\* One of _CRASH_WAITING_REASONS, a container that ended in an error, or phase Failed.
Crash(p) ==
    /\ pods[p] \notin Listed
    /\ Become(p, IF pods[p] \in Leaving THEN "failing" ELSE "crashing")
    /\ UNCHANGED replaced

\* kubelet's next attempt at the container works.
Recover(p) ==
    /\ p[1] \in Deployments
    /\ pods[p] = "crashing"
    /\ Become(p, "recovered")
    /\ UNCHANGED replaced

Vanish(p) ==
    /\ pods[p] \in Leaving
    /\ pods' = [q \in DOMAIN pods \ {p} |-> pods[q]]
    /\ UNCHANGED replaced

\* kubectl delete pod, which may find the pod deleted already.
Delete(p) ==
    Become(p, IF pods[p] \in Listed THEN "failing" ELSE "leaving")

\* Someone else: a rollout of the next Setup, an eviction.
Replace(p) ==
    /\ p[1] \in Deployments
    /\ pods[p] \in Living
    /\ Delete(p)
    /\ replaced' = replaced + 1

(***************************************************************************)
(* The app: restart_pod                                                    *)
(***************************************************************************)
Restart(p) ==
    /\ p[1] \in Deployments
    /\ pods[p] \in Suspected
    /\ Delete(p)
    /\ UNCHANGED replaced

-----------------------------------------------------------------------------
Next ==
    \/ \E w \in Deployments : Create(w)
    \/ \E p \in DOMAIN pods : Crash(p) \/ Recover(p) \/ Vanish(p) \/ Replace(p) \/ Restart(p)

Spec == Init /\ [][Next]_<<pods, replaced>>
=============================================================================
