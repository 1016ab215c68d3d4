------------------------------ MODULE LocalStack ------------------------------
(***************************************************************************)
(* The last part of Setup, which deploys the workloads to the cluster that *)
(* LocalCluster models (desktop/local_stack.py): a fixed list of steps,    *)
(* run from its beginning by every Setup and given up at the first step    *)
(* that fails. It takes up to hours, so meanwhile the user logs in again,  *)
(* the repositories are updated, the cluster is torn down, or another      *)
(* Setup runs from a page loaded later.                                    *)
(*                                                                         *)
(* A device's credential is the number of the login that issued it, and    *)
(* an image the version of the repositories it was built from. A failure   *)
(* after a step's effect is the failure of the next step before its own.   *)
(*                                                                         *)
(* Nothing waits for a rollout (kubectl apply, rollout restart): Kubernetes *)
(* starts its pod in its own time, or never, and the pods of earlier       *)
(* rollouts run on until that one is ready. What those run decides nothing, *)
(* so they are not in the state.                                           *)
(***************************************************************************)
EXTENDS Naturals, Sequences, FiniteSets

CONSTANTS Setups,     \* threads that serve setup_cluster
          Followed,   \* bound: the workloads whose pods ever start ...
          MaxPods,    \* bound: ... and how many of them have one at a time
          MaxChanges  \* bound: logins, updates of the repositories, and new clusters

ASSUME StackAssumption == MaxChanges \in Nat

VARIABLES logins,    \* logins so far: the last one's credential is current
          source,    \* the version of the repositories
          clusters,  \* clusters so far
          images,    \* what ":latest" is at Docker Hub, by image
          envmk,     \* the device in the env.mk of two repositories
          objs,      \* what the cluster has that pods need, with its value
          manifests, \* the workloads that have been applied: the device their manifest names
          pods,      \* those whose latest rollout has started its pod: what it runs
          setup,     \* each Setup: its place in the plan and its locals
          orderly,   \* history: no Setup was running when the cluster was torn down
          deployed   \* history: the last complete Setup with no other kind at work since it began

outside == <<logins, source, clusters>>
stack   == <<objs, manifests, pods>>
vars    == <<outside, images, envmk, stack, setup, orderly, deployed>>

None == 0
Numbers == 1..(MaxChanges + 1)
Changes == (logins - 1) + (source - 1) + (clusters - 1)

Secrets == {"internal-api-token", "device-credential", "device-credentials",
            "repo-credentials", "ngrok-credentials"}
Objects == Secrets \cup {"namespace", "gvisor", "certs"}
OfDevice == {"device-credential", "device-credentials"}

ImageOf == [agent |-> "agent", ngrok |-> "tunnel-registrar", socket |-> "socket-ssh"]
Images  == {"agent", "tunnel-registrar", "snapshot-job", "socket-ssh"}
Configured == {"monitor", "reaper"}  \* their manifests name the device
Workloads  == {"minio", "cert-manager", "maker"} \cup Configured \cup DOMAIN ImageOf

\* What a workload's containers wait for or call (the manifests of the other repositories).
Needs == [w \in Workloads |->
    CASE w = "maker" -> {"internal-api-token", "repo-credentials", "certs", "gvisor", "minio"}
      [] w = "agent" -> {"device-credential", "certs"}
      [] w = "ngrok" -> {"device-credentials", "ngrok-credentials"}
      [] OTHER       -> {}]

\* Where its pod gets the device from.
SecretOf == [agent |-> "device-credential", ngrok |-> "device-credentials"]

(***************************************************************************)
(* deploy                                                                  *)
(***************************************************************************)
Do(what, names) == [i \in DOMAIN names |-> <<what, names[i]>>]

\* Mutant: nobody creates the Secret that only tunnel-registrar reads.
Prepare_OneDeviceSecret ==
    Do("ensure", <<"namespace", "internal-api-token", "device-credential",
                   "repo-credentials", "ngrok-credentials", "gvisor">>)

Prepare ==
    Do("ensure", <<"namespace", "internal-api-token", "device-credential", "device-credentials",
                   "repo-credentials", "ngrok-credentials", "gvisor">>)

_deploy_cert_manager == <<<<"apply", "cert-manager">>, <<"job", "certs">>>>

_deploy_device_agent == <<<<"apply", "agent">>, <<"restart", "agent">>>>

\* _deploy_status_monitor, _deploy_reaper
DeployConfigured(w) == <<<<"write", w>>, <<"apply", w>>>>

\* Mutant: applying the manifest is thought to be enough.
_deploy_socket_ssh_NoRestarts == Do("apply", <<"socket", "ngrok">>)

_deploy_socket_ssh == Do("apply", <<"socket", "ngrok">>) \o Do("restart", <<"ngrok", "socket">>)

\* The steps that have an effect, in their order.
Plan ==
       Prepare
    \o Do("apply", <<"minio">>)
    \o _deploy_cert_manager
    \o Do("apply", <<"maker">>)
    \o Do("build", <<"agent">>) \o _deploy_device_agent
    \o DeployConfigured("monitor") \o DeployConfigured("reaper")
    \o Do("build", <<"tunnel-registrar", "snapshot-job", "socket-ssh">>)
    \o _deploy_socket_ssh

Idle == [at |-> 0, device |-> None, source |-> None, mixed |-> FALSE]

Running == {c \in Setups : setup[c] # Idle}
Step(c, what, name) == setup[c].at \in 1..Len(Plan) /\ Plan[setup[c].at] = <<what, name>>

NextStep(c) == setup' = [setup EXCEPT ![c].at = @ + 1]

Init ==
    /\ logins = 1
    /\ source = 1
    /\ clusters = 1
    /\ images = [i \in Images |-> None]
    /\ envmk = [w \in Configured |-> None]
    /\ objs = <<>> /\ manifests = <<>> /\ pods = <<>>
    /\ setup = [c \in Setups |-> Idle]
    /\ orderly = TRUE /\ deployed = Idle

\* create_cluster is done; the credential is read, or was cleared meanwhile.
Start(c) ==
    /\ setup[c] = Idle
    /\ \E device \in {logins, None} :
         LET Same(s) == s.device = device /\ s.source = source
             Beside(s) == [s EXCEPT !.mixed = @ \/ ~Same(s)]
         IN  /\ setup' = [d \in Setups |->
                   IF d = c THEN [at |-> 1, device |-> device, source |-> source,
                                  mixed |-> \E r \in Running : ~Same(setup[r])]
                   ELSE IF d \in Running THEN Beside(setup[d]) ELSE Idle]
             /\ deployed' = IF Same(deployed) THEN deployed ELSE Idle
    /\ UNCHANGED <<outside, images, envmk, stack, orderly>>

With(f, x, y) == [z \in DOMAIN f \cup {x} |-> IF z = x THEN y ELSE f[z]]

\* LocalStackError and other ClusterErrors. The Job that was given up after its
\* time may still succeed.
Fail(c) ==
    /\ c \in Running
    /\ setup' = [setup EXCEPT ![c] = Idle]
    /\ \/ UNCHANGED objs
       \/ /\ Step(c, "job", "certs") /\ "cert-manager" \in DOMAIN manifests
          /\ objs' = With(objs, "certs", 1)
    /\ UNCHANGED <<outside, images, envmk, manifests, pods, orderly, deployed>>

Value(c, o) == IF o \in OfDevice THEN setup[c].device ELSE 1

\* Mutant: an empty credential is a credential.
Ensure_Unchecked(c, o) ==
    /\ Step(c, "ensure", o)
    /\ o \in Secrets => "namespace" \in DOMAIN objs
    /\ objs' = With(objs, o, Value(c, o))
    /\ NextStep(c)
    /\ UNCHANGED <<outside, images, envmk, manifests, pods, orderly, deployed>>

\* kubectl create --dry-run | kubectl apply; without credential an error.
Ensure(c, o) ==
    /\ Step(c, "ensure", o)
    /\ o \in Secrets => "namespace" \in DOMAIN objs
    /\ o \in OfDevice => setup[c].device # None
    /\ objs' = With(objs, o, Value(c, o))
    /\ NextStep(c)
    /\ UNCHANGED <<outside, images, envmk, manifests, pods, orderly, deployed>>

\* _trigger_and_wait_cronjob: the Job mints the certificates.
CertJob(c) ==
    /\ Step(c, "job", "certs")
    /\ "cert-manager" \in DOMAIN manifests
    /\ objs' = With(objs, "certs", 1)
    /\ NextStep(c)
    /\ UNCHANGED <<outside, images, envmk, manifests, pods, orderly, deployed>>

\* docker build and push, of what the repository was at some time since the start.
Build(c, i) ==
    /\ Step(c, "build", i)
    /\ \E v \in setup[c].source..source : images' = [images EXCEPT ![i] = v]
    /\ NextStep(c)
    /\ UNCHANGED <<outside, envmk, stack, orderly, deployed>>

WriteEnvMk(c, w) ==
    /\ Step(c, "write", w)
    /\ envmk' = [envmk EXCEPT ![w] = setup[c].device]
    /\ NextStep(c)
    /\ UNCHANGED <<outside, images, stack, orderly, deployed>>

\* The pod of an earlier rollout may run on, but it is the last one that is to replace it.
Rolls(w) == pods' = [x \in DOMAIN pods \ {w} |-> pods[x]]

NamedBy(w) == IF w \in Configured THEN envmk[w] ELSE None

\* Mutant: a Deployment that is there is left as it is.
Apply_OnlyOnce(c, w) ==
    /\ Step(c, "apply", w)
    /\ "namespace" \in DOMAIN objs
    /\ IF w \in DOMAIN manifests
       THEN UNCHANGED <<manifests, pods>>
       ELSE manifests' = With(manifests, w, NamedBy(w)) /\ Rolls(w)
    /\ NextStep(c)
    /\ UNCHANGED <<outside, images, envmk, objs, orderly, deployed>>

\* kubectl apply: a new Deployment, a manifest that names another device, or no change.
Apply(c, w) ==
    /\ Step(c, "apply", w)
    /\ "namespace" \in DOMAIN objs
    /\ IF w \in DOMAIN manifests /\ manifests[w] = NamedBy(w)
       THEN UNCHANGED <<manifests, pods>>
       ELSE manifests' = With(manifests, w, NamedBy(w)) /\ Rolls(w)
    /\ NextStep(c)
    /\ UNCHANGED <<outside, images, envmk, objs, orderly, deployed>>

\* kubectl rollout restart
_restart_deployment(c, w) ==
    /\ Step(c, "restart", w)
    /\ w \in DOMAIN manifests
    /\ Rolls(w)
    /\ NextStep(c)
    /\ UNCHANGED <<outside, images, envmk, objs, manifests, orderly, deployed>>

Complete(c) ==
    /\ setup[c].at = Len(Plan) + 1
    /\ deployed' = IF setup[c].mixed THEN deployed ELSE [setup[c] EXCEPT !.at = 0]
    /\ setup' = [setup EXCEPT ![c] = Idle]
    /\ UNCHANGED <<outside, images, envmk, stack, orderly>>

(***************************************************************************)
(* Beside it                                                               *)
(***************************************************************************)
Login ==
    /\ Changes < MaxChanges
    /\ logins' = logins + 1
    /\ UNCHANGED <<source, clusters, images, envmk, stack, setup, orderly, deployed>>

PullRepos ==
    /\ Changes < MaxChanges
    /\ source' = source + 1
    /\ UNCHANGED <<logins, clusters, images, envmk, stack, setup, orderly, deployed>>

\* What a pod gets as it starts: it pulls its image and reads its Secret.
Pod(w) ==
    [image  |-> IF w \in DOMAIN ImageOf THEN images[ImageOf[w]] ELSE None,
     device |-> IF w \in DOMAIN SecretOf /\ SecretOf[w] \in DOMAIN objs
                THEN objs[SecretOf[w]] ELSE manifests[w]]

\* Kubernetes starts the rollout's pod, at some time or never; so do again, later,
\* the health check, a button of the page, or kubelet.
PodStarts(w) ==
    /\ Cardinality(DOMAIN pods \cup {w}) <= MaxPods
    /\ pods' = With(pods, w, Pod(w))
    /\ UNCHANGED <<outside, images, envmk, objs, manifests, setup, orderly, deployed>>

\* A docker push that no running Setup waits for: of a make that was given up after its
\* time-out and goes on, or of another computer. Pushed are images of Followed workloads.
Pushes == {ImageOf[w] : w \in Followed \cap DOMAIN ImageOf} \X (1..source)

\* If it is older than what a Setup builds, another kind of Setup is at work.
LatePush(i, v) ==
    /\ images' = [images EXCEPT ![i] = v]
    /\ setup' = [c \in Setups |-> IF setup[c].source > v THEN [setup[c] EXCEPT !.mixed = TRUE]
                                  ELSE setup[c]]
    /\ deployed' = IF deployed.source > v THEN Idle ELSE deployed
    /\ UNCHANGED <<outside, envmk, stack, orderly>>

\* Teardown and the next create_cluster: an empty cluster. A Setup that still
\* runs comes upon it.
NewCluster ==
    /\ Changes < MaxChanges
    /\ clusters' = clusters + 1
    /\ objs' = <<>> /\ manifests' = <<>> /\ pods' = <<>>
    /\ setup' = [c \in Setups |-> IF c \in Running THEN [setup[c] EXCEPT !.mixed = TRUE] ELSE Idle]
    /\ orderly' = (Running = {})
    /\ deployed' = Idle
    /\ UNCHANGED <<logins, source, images, envmk>>

-----------------------------------------------------------------------------
SetupStep(c) ==
    \/ Start(c)
    \/ Fail(c)
    \/ \E o \in Objects : Ensure(c, o)
    \/ CertJob(c)
    \/ \E i \in Images : Build(c, i)
    \/ \E w \in Configured : WriteEnvMk(c, w)
    \/ \E w \in Workloads : Apply(c, w) \/ _restart_deployment(c, w)
    \/ Complete(c)

Next ==
    \/ \E c \in Setups : SetupStep(c)
    \/ \E w \in Followed \cap DOMAIN manifests : PodStarts(w)
    \/ \E push \in Pushes : LatePush(push[1], push[2])
    \/ Login
    \/ PullRepos
    \/ NewCluster

Spec == Init /\ [][Next]_vars

-----------------------------------------------------------------------------
SetupType == [at: 0..(Len(Plan) + 1), device: {None} \cup Numbers,
              source: {None} \cup Numbers, mixed: BOOLEAN]

\* The Secrets of the device hold a credential, never an empty one.
TypeOK ==
    /\ logins \in Numbers /\ source \in Numbers /\ clusters \in Numbers
    /\ images \in [Images -> {None} \cup Numbers]
    /\ envmk \in [Configured -> {None} \cup Numbers]
    /\ DOMAIN objs \subseteq Objects
    /\ \A o \in DOMAIN objs : objs[o] \in Numbers
    /\ DOMAIN manifests \subseteq Workloads
    /\ \A w \in DOMAIN manifests : manifests[w] \in {None} \cup Numbers
    /\ DOMAIN pods \subseteq DOMAIN manifests
    /\ \A w \in DOMAIN pods : pods[w] \in [image: {None} \cup Numbers, device: {None} \cup Numbers]
    /\ setup \in [Setups -> SetupType]
    /\ orderly \in BOOLEAN
    /\ deployed \in SetupType

(* local_stack.py:475-484: "in the order each one's own manifest requires". No
   workload is ever applied before what its containers need, in whatever
   state earlier Setups have left the cluster and whatever runs beside this one;
   only a Setup that outlives its cluster comes too early in the next. *)
NeedsComeFirst ==
    orderly => \A w \in DOMAIN manifests :
                  /\ Needs[w] \subseteq DOMAIN objs \cup DOMAIN manifests
                  /\ w \in DOMAIN ImageOf => images[ImageOf[w]] # None

IsDeployed == deployed # Idle

(* local_stack.py:446-468, 182-215: after a Setup that has run to its end, every
   workload is there, and of those that know the device every pod that the
   latest rollout has started, or starts ever after, knows the one whose
   credential the Setup was given, although an earlier Setup of another login
   stopped between any two of them and people log in while it runs. Setup does
   not wait for the rollouts: until such a pod is ready, which may be never,
   the pod of an earlier rollout runs on and knows the device of its time. *)
StackIsOneDevice ==
    IsDeployed =>
        /\ DOMAIN manifests = Workloads
        /\ \A w \in DOMAIN pods \cap (Configured \cup DOMAIN SecretOf) :
              pods[w].device = deployed.device

(* local_stack.py:352-363: no pod that the latest rollout has started, or starts
   ever after, is on an image older than the repositories were when a complete
   Setup started, though Setups before, beside or after it fail between an
   image's build and its pods' restart. As above the pods of earlier rollouts
   may run on; and an older build spoils it that another computer pushes, or a make
   that was given up. *)
ImagesAreCurrent ==
    IsDeployed => \A w \in DOMAIN pods \cap DOMAIN ImageOf : pods[w].image >= deployed.source
=============================================================================
