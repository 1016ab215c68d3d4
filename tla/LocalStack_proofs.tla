-------------------------- MODULE LocalStack_proofs --------------------------
(***************************************************************************)
(* Proofs about LocalStack, for any number of Setups, logins, updates of   *)
(* the repositories and new clusters: no workload is applied before what   *)
(* it needs, and what starts after a complete Setup is one device's and as *)
(* new as the repositories were.                                           *)
(***************************************************************************)
EXTENDS LocalStack, SequenceTheorems, TLAPS

USE StackAssumption

(***************************************************************************)
(* The plan, step by step                                                  *)
(***************************************************************************)
\* The list of steps, written out.
StepList ==
    << <<"ensure", "namespace">>, <<"ensure", "internal-api-token">>,
       <<"ensure", "device-credential">>, <<"ensure", "device-credentials">>,
       <<"ensure", "repo-credentials">>, <<"ensure", "ngrok-credentials">>, <<"ensure", "gvisor">>,
       <<"apply", "minio">>, <<"apply", "cert-manager">>, <<"job", "certs">>, <<"apply", "maker">>,
       <<"build", "agent">>, <<"apply", "agent">>, <<"restart", "agent">>,
       <<"write", "monitor">>, <<"apply", "monitor">>, <<"write", "reaper">>, <<"apply", "reaper">>,
       <<"build", "tunnel-registrar">>, <<"build", "snapshot-job">>, <<"build", "socket-ssh">>,
       <<"apply", "socket">>, <<"apply", "ngrok">>, <<"restart", "ngrok">>, <<"restart", "socket">> >>

\* s is the part of it that follows the first m steps.
IsPart(s, m, n) ==
    /\ s \in Seq({StepList[i] : i \in Nat}) /\ Len(s) = n
    /\ \A i \in 1..n : s[i] = StepList[m + i]

Part(m, n) == [i \in 1..n |-> StepList[m + i]]

(* A part of the list is one. *)
LEMMA PartIs == \A m, n \in Nat : IsPart(Part(m, n), m, n)
<1> SUFFICES ASSUME NEW m \in Nat, NEW n \in Nat PROVE IsPart(Part(m, n), m, n)
  OBVIOUS
<1>1. \A i \in 1..n : StepList[m + i] \in {StepList[j] : j \in Nat}
  OBVIOUS
<1> QED BY <1>1 DEF IsPart, Part

(* Two parts that follow each other are a part. *)
LEMMA Joined ==
    ASSUME NEW l \in Nat, NEW m \in Nat, NEW n \in Nat, NEW s, NEW t,
           IsPart(s, l, m), IsPart(t, l + m, n)
    PROVE  IsPart(s \o t, l, m + n)
<1> DEFINE S == {StepList[i] : i \in Nat}
<1>1. s \in Seq(S) /\ Len(s) = m /\ \A i \in 1..m : s[i] = StepList[l + i]
  BY DEF IsPart
<1>2. t \in Seq(S) /\ Len(t) = n /\ \A i \in 1..n : t[i] = StepList[l + m + i]
  BY DEF IsPart
<1> HIDE DEF S
<1>3. /\ s \o t \in Seq(S)
      /\ Len(s \o t) = m + n
      /\ \A i \in 1..(m + n) : (s \o t)[i] = IF i <= m THEN s[i] ELSE t[i - m]
  BY <1>1, <1>2, ConcatProperties
<1>4. ASSUME NEW i \in 1..(m + n) PROVE (s \o t)[i] = StepList[l + i]
  <2>1. CASE i <= m
    <3>1. i \in 1..m
      BY <2>1
    <3> QED BY <1>1, <1>3, <2>1, <3>1
  <2>2. CASE ~(i <= m)
    <3>1. i - m \in 1..n /\ l + m + (i - m) = l + i
      BY <2>2
    <3> QED BY <1>2, <1>3, <2>2, <3>1
  <2> QED BY <2>1, <2>2
<1> QED BY <1>3, <1>4 DEF IsPart, S

(* The plan is the list. *)
LEMMA PlanSteps == Len(Plan) = 25 /\ \A i \in 1..25 : Plan[i] = StepList[i]
<1>1. IsPart(Prepare, 0, 7)
  <2>1. Prepare = Part(0, 7)
    BY DEF Prepare, Do, Part, StepList
  <2> QED BY <2>1, PartIs
<1>2. IsPart(Do("apply", <<"minio">>), 7, 1)
  <2>1. Do("apply", <<"minio">>) = Part(7, 1)
    BY DEF Do, Part, StepList
  <2> QED BY <2>1, PartIs
<1>3. IsPart(_deploy_cert_manager, 8, 2)
  <2>1. _deploy_cert_manager = Part(8, 2)
    BY DEF _deploy_cert_manager, Part, StepList
  <2> QED BY <2>1, PartIs
<1>4. IsPart(Do("apply", <<"maker">>), 10, 1)
  <2>1. Do("apply", <<"maker">>) = Part(10, 1)
    BY DEF Do, Part, StepList
  <2> QED BY <2>1, PartIs
<1>5. IsPart(Do("build", <<"agent">>), 11, 1)
  <2>1. Do("build", <<"agent">>) = Part(11, 1)
    BY DEF Do, Part, StepList
  <2> QED BY <2>1, PartIs
<1>6. IsPart(_deploy_device_agent, 12, 2)
  <2>1. _deploy_device_agent = Part(12, 2)
    BY DEF _deploy_device_agent, Part, StepList
  <2> QED BY <2>1, PartIs
<1>7. IsPart(DeployConfigured("monitor"), 14, 2)
  <2>1. DeployConfigured("monitor") = Part(14, 2)
    BY DEF DeployConfigured, Part, StepList
  <2> QED BY <2>1, PartIs
<1>8. IsPart(DeployConfigured("reaper"), 16, 2)
  <2>1. DeployConfigured("reaper") = Part(16, 2)
    BY DEF DeployConfigured, Part, StepList
  <2> QED BY <2>1, PartIs
<1>9. IsPart(Do("build", <<"tunnel-registrar", "snapshot-job", "socket-ssh">>), 18, 3)
  <2>1. Do("build", <<"tunnel-registrar", "snapshot-job", "socket-ssh">>) = Part(18, 3)
    BY DEF Do, Part, StepList
  <2> QED BY <2>1, PartIs
<1>10. IsPart(Do("apply", <<"socket", "ngrok">>), 21, 2)
  <2>1. Do("apply", <<"socket", "ngrok">>) = Part(21, 2)
    BY DEF Do, Part, StepList
  <2> QED BY <2>1, PartIs
<1>11. IsPart(Do("restart", <<"ngrok", "socket">>), 23, 2)
  <2>1. Do("restart", <<"ngrok", "socket">>) = Part(23, 2)
    BY DEF Do, Part, StepList
  <2> QED BY <2>1, PartIs
<1>12. IsPart(_deploy_socket_ssh, 21, 4)
  BY <1>10, <1>11, Joined DEF _deploy_socket_ssh
<1>13. IsPart(Plan, 0, 25)
  BY <1>1, <1>2, <1>3, <1>4, <1>5, <1>6, <1>7, <1>8, <1>9, <1>12, Joined DEF Plan
<1> QED
  BY <1>13 DEF IsPart

(***************************************************************************)
(* The parts of the invariant                                              *)
(***************************************************************************)
\* The steps that come before the k-th.
Passed(k, what, name) == \E j \in 1..(k - 1) : Plan[j] = <<what, name>>

Place == 1..26

\* A Setup that runs has a place in the plan, and knows the repositories' version.
SetupIsPlaced ==
    \A c \in Setups : setup[c] = Idle \/ (setup[c].at \in Place /\ setup[c].source \in Numbers)

\* What a Setup has put in the cluster before its k-th step is there.
Carries(k) ==
    /\ \A o \in Objects : Passed(k, "ensure", o) \/ Passed(k, "job", o) => o \in DOMAIN objs
    /\ \A w \in Workloads : Passed(k, "apply", w) => w \in DOMAIN manifests
    /\ \A i \in Images : Passed(k, "build", i) => images[i] # None

\* It is for the device that s deploys for, and no older than the repositories were at its start.
IsOf(k, s) ==
    /\ \A o \in OfDevice : Passed(k, "ensure", o) => objs[o] = s.device
    /\ \A w \in Configured : /\ Passed(k, "write", w) => envmk[w] = s.device
                             /\ Passed(k, "apply", w) => manifests[w] = s.device
    /\ \A i \in Images : Passed(k, "build", i) => images[i] >= s.source
    /\ \A w \in DOMAIN ImageOf \cap DOMAIN pods : Passed(k, "restart", w) => pods[w].image >= s.source
    /\ \A w \in DOMAIN SecretOf \cap DOMAIN pods : Passed(k, "restart", w) => pods[w].device = s.device

Deploys(k, s) == Carries(k) /\ IsOf(k, s)

SetupsCarry ==
    orderly => \A c \in Setups : \A k \in Place : setup[c].at = k => Carries(k)

\* Unless it is mixed, a Setup deploys for one device, and the last complete one did.
SetupsDeploy ==
    \A c \in Setups : \A s \in SetupType :
        setup[c] = s /\ s # Idle /\ ~s.mixed => Deploys(s.at, s)
WasDeployed == \A s \in SetupType : deployed = s /\ s # Idle => Deploys(26, s)

\* Whoever runs beside it is of the same kind.
SameKind(s, r) == s.device = r.device /\ s.source = r.source
KindsAreApart ==
    \A d \in Setups : setup[d] # Idle =>
        /\ \A c \in Setups : setup[c] # Idle /\ ~setup[c].mixed => SameKind(setup[d], setup[c])
        /\ deployed # Idle => SameKind(setup[d], deployed)

\* The pod that the latest rollout has started is of the device that the manifest names.
PodsAreAsNamed == \A w \in Configured \cap DOMAIN pods : pods[w].device = manifests[w]

TypeInv == TypeOK /\ SetupIsPlaced

Inv == /\ TypeInv
       /\ SetupsCarry
       /\ NeedsComeFirst
       /\ KindsAreApart
       /\ PodsAreAsNamed
       /\ SetupsDeploy
       /\ WasDeployed

(***************************************************************************)
(* What comes before what                                                  *)
(***************************************************************************)
(* A step of the list comes before a later one. *)
LEMMA Passes ==
    ASSUME NEW k \in 1..26, NEW j \in 1..(k - 1), NEW what, NEW name, StepList[j] = <<what, name>>
    PROVE  Passed(k, what, name)
<1>1. Plan[j] = <<what, name>>
  BY PlanSteps
<1> QED BY <1>1 DEF Passed

(* What has come before goes on to. *)
LEMMA PassedEarlier ==
    ASSUME NEW k \in 1..26, NEW j \in 1..k, NEW what, NEW name, Passed(j, what, name)
    PROVE  Passed(k, what, name)
  BY DEF Passed

(* One step more has come before the next. *)
LEMMA PassedMore ==
    ASSUME NEW k \in 1..25, NEW what, NEW name
    PROVE  Passed(k + 1, what, name) <=> Passed(k, what, name) \/ Plan[k] = <<what, name>>
  BY DEF Passed

(* Where workloads are applied. *)
LEMMA Applied ==
    ASSUME NEW k \in 1..25, NEW w, StepList[k] = <<"apply", w>>
    PROVE  \/ w \in {"minio", "cert-manager"}
           \/ (k = 11 /\ w = "maker") \/ (k = 13 /\ w = "agent")
           \/ (k = 16 /\ w = "monitor") \/ (k = 18 /\ w = "reaper")
           \/ (k = 22 /\ w = "socket") \/ (k = 23 /\ w = "ngrok")
<1>1. StepList[k][1] = "apply" /\ StepList[k][2] = w
  OBVIOUS
<1>2. k \in {8, 9, 11, 13, 16, 18, 22, 23}
  BY <1>1 DEF StepList
<1>3. /\ StepList[8][2] = "minio" /\ StepList[9][2] = "cert-manager" /\ StepList[11][2] = "maker"
      /\ StepList[13][2] = "agent" /\ StepList[16][2] = "monitor" /\ StepList[18][2] = "reaper"
      /\ StepList[22][2] = "socket" /\ StepList[23][2] = "ngrok"
  BY DEF StepList
<1> QED BY <1>1, <1>2, <1>3

(* Where they are restarted. *)
LEMMA Restarted ==
    ASSUME NEW k \in 1..25, NEW w, StepList[k] = <<"restart", w>>
    PROVE  (k = 14 /\ w = "agent") \/ (k = 24 /\ w = "ngrok") \/ (k = 25 /\ w = "socket")
<1>1. StepList[k][1] = "restart" /\ StepList[k][2] = w
  OBVIOUS
<1>2. k \in {14, 24, 25}
  BY <1>1 DEF StepList
<1>3. StepList[14][2] = "agent" /\ StepList[24][2] = "ngrok" /\ StepList[25][2] = "socket"
  BY DEF StepList
<1> QED BY <1>1, <1>2, <1>3

(* A workload is applied after all that its containers need. *)
LEMMA ApplyOrder ==
    ASSUME NEW k \in 1..25, NEW w \in Workloads, Plan[k] = <<"apply", w>>
    PROVE  /\ \A n \in Needs[w] :
                \/ n \in Objects /\ (Passed(k, "ensure", n) \/ Passed(k, "job", n))
                \/ n \in Workloads /\ Passed(k, "apply", n)
           /\ w \in DOMAIN ImageOf => Passed(k, "build", ImageOf[w])
           /\ w \in Configured => Passed(k, "write", w)
<1>1. \/ w \in {"minio", "cert-manager"}
      \/ (k = 11 /\ w = "maker") \/ (k = 13 /\ w = "agent")
      \/ (k = 16 /\ w = "monitor") \/ (k = 18 /\ w = "reaper")
      \/ (k = 22 /\ w = "socket") \/ (k = 23 /\ w = "ngrok")
  BY PlanSteps, Applied
<1>2. CASE w \in {"minio", "cert-manager"}
  BY <1>2 DEF Needs, ImageOf, Configured
<1>3. CASE k = 11 /\ w = "maker"
  <2>1. /\ StepList[2] = <<"ensure", "internal-api-token">>
        /\ StepList[5] = <<"ensure", "repo-credentials">> /\ StepList[7] = <<"ensure", "gvisor">>
        /\ StepList[8] = <<"apply", "minio">> /\ StepList[10] = <<"job", "certs">>
    BY DEF StepList
  <2>2. /\ Passed(k, "ensure", "internal-api-token") /\ Passed(k, "ensure", "repo-credentials")
        /\ Passed(k, "ensure", "gvisor") /\ Passed(k, "apply", "minio") /\ Passed(k, "job", "certs")
    BY <1>3, <2>1, Passes
  <2> QED BY <1>3, <2>2 DEF Needs, ImageOf, Configured, Objects, Secrets, Workloads
<1>4. CASE k = 13 /\ w = "agent"
  <2>1. /\ StepList[3] = <<"ensure", "device-credential">> /\ StepList[10] = <<"job", "certs">>
        /\ StepList[12] = <<"build", "agent">>
    BY DEF StepList
  <2>2. /\ Passed(k, "ensure", "device-credential") /\ Passed(k, "job", "certs")
        /\ Passed(k, "build", "agent")
    BY <1>4, <2>1, Passes
  <2> QED BY <1>4, <2>2 DEF Needs, ImageOf, Configured, Objects, Secrets
<1>5. CASE (k = 16 /\ w = "monitor") \/ (k = 18 /\ w = "reaper")
  <2>1. StepList[15] = <<"write", "monitor">> /\ StepList[17] = <<"write", "reaper">>
    BY DEF StepList
  <2>2. Passed(k, "write", w)
    BY <1>5, <2>1, Passes
  <2> QED BY <1>5, <2>2 DEF Needs, ImageOf
<1>6. CASE k = 22 /\ w = "socket"
  <2>1. StepList[21] = <<"build", "socket-ssh">>
    BY DEF StepList
  <2>2. Passed(k, "build", "socket-ssh")
    BY <1>6, <2>1, Passes
  <2> QED BY <1>6, <2>2 DEF Needs, ImageOf, Configured
<1>7. CASE k = 23 /\ w = "ngrok"
  <2>1. /\ StepList[4] = <<"ensure", "device-credentials">>
        /\ StepList[6] = <<"ensure", "ngrok-credentials">>
        /\ StepList[19] = <<"build", "tunnel-registrar">>
    BY DEF StepList
  <2>2. /\ Passed(k, "ensure", "device-credentials") /\ Passed(k, "ensure", "ngrok-credentials")
        /\ Passed(k, "build", "tunnel-registrar")
    BY <1>7, <2>1, Passes
  <2> QED BY <1>7, <2>2 DEF Needs, ImageOf, Configured, Objects, Secrets
<1> QED BY <1>1, <1>2, <1>3, <1>4, <1>5, <1>6, <1>7

(* A workload is restarted after its image is built, and its Secret and itself applied. *)
LEMMA RestartOrder ==
    ASSUME NEW k \in 1..25, NEW w, Plan[k] = <<"restart", w>>
    PROVE  /\ w \in DOMAIN ImageOf
           /\ Passed(k, "apply", w) /\ Passed(k, "build", ImageOf[w])
           /\ w \in DOMAIN SecretOf => Passed(k, "ensure", SecretOf[w])
<1>1. (k = 14 /\ w = "agent") \/ (k = 24 /\ w = "ngrok") \/ (k = 25 /\ w = "socket")
  BY PlanSteps, Restarted
<1>2. /\ StepList[3] = <<"ensure", "device-credential">> /\ StepList[4] = <<"ensure", "device-credentials">>
      /\ StepList[12] = <<"build", "agent">> /\ StepList[13] = <<"apply", "agent">>
      /\ StepList[19] = <<"build", "tunnel-registrar">> /\ StepList[21] = <<"build", "socket-ssh">>
      /\ StepList[22] = <<"apply", "socket">> /\ StepList[23] = <<"apply", "ngrok">>
  BY DEF StepList
<1>3. CASE k = 14 /\ w = "agent"
  <2>1. Passed(k, "ensure", "device-credential") /\ Passed(k, "build", "agent") /\ Passed(k, "apply", "agent")
    BY <1>2, <1>3, Passes
  <2> QED BY <1>3, <2>1 DEF ImageOf, SecretOf
<1>4. CASE k = 24 /\ w = "ngrok"
  <2>1. /\ Passed(k, "ensure", "device-credentials") /\ Passed(k, "build", "tunnel-registrar")
        /\ Passed(k, "apply", "ngrok")
    BY <1>2, <1>4, Passes
  <2> QED BY <1>4, <2>1 DEF ImageOf, SecretOf
<1>5. CASE k = 25 /\ w = "socket"
  <2>1. Passed(k, "build", "socket-ssh") /\ Passed(k, "apply", "socket")
    BY <1>2, <1>5, Passes
  <2> QED BY <1>5, <2>1 DEF ImageOf, SecretOf
<1> QED BY <1>1, <1>3, <1>4, <1>5

(* So it is while the plan goes on. *)
LEMMA PassedOrder ==
    ASSUME NEW k \in 1..26, NEW w
    PROVE  /\ w \in Configured /\ Passed(k, "apply", w) => Passed(k, "write", w)
           /\ Passed(k, "restart", w) =>
                /\ w \in DOMAIN ImageOf
                /\ Passed(k, "apply", w) /\ Passed(k, "build", ImageOf[w])
                /\ w \in DOMAIN SecretOf => Passed(k, "ensure", SecretOf[w])
<1>1. ASSUME w \in Configured, Passed(k, "apply", w) PROVE Passed(k, "write", w)
  <2>1. PICK j \in 1..(k - 1) : Plan[j] = <<"apply", w>>
    BY <1>1 DEF Passed
  <2>2. j \in 1..25 /\ w \in Workloads /\ j \in 1..k
    BY <1>1 DEF Workloads
  <2>3. Passed(j, "write", w)
    BY <1>1, <2>1, <2>2, ApplyOrder
  <2> QED BY <2>2, <2>3, PassedEarlier
<1>2. ASSUME Passed(k, "restart", w)
      PROVE  /\ w \in DOMAIN ImageOf
             /\ Passed(k, "apply", w) /\ Passed(k, "build", ImageOf[w])
             /\ w \in DOMAIN SecretOf => Passed(k, "ensure", SecretOf[w])
  <2>1. PICK j \in 1..(k - 1) : Plan[j] = <<"restart", w>>
    BY <1>2 DEF Passed
  <2>2. j \in 1..25 /\ j \in 1..k
    OBVIOUS
  <2>3. /\ w \in DOMAIN ImageOf
        /\ Passed(j, "apply", w) /\ Passed(j, "build", ImageOf[w])
        /\ w \in DOMAIN SecretOf => Passed(j, "ensure", SecretOf[w])
    BY <2>1, <2>2, RestartOrder
  <2> QED BY <2>2, <2>3, PassedEarlier
<1> QED BY <1>1, <1>2

(* In the end every workload is applied, and those with an image of ours restarted. *)
LEMMA PlanIsComplete ==
    /\ \A w \in Workloads : Passed(26, "apply", w)
    /\ \A w \in DOMAIN ImageOf : Passed(26, "restart", w)
<1>1. /\ StepList[8] = <<"apply", "minio">> /\ StepList[9] = <<"apply", "cert-manager">>
      /\ StepList[11] = <<"apply", "maker">> /\ StepList[13] = <<"apply", "agent">>
      /\ StepList[16] = <<"apply", "monitor">> /\ StepList[18] = <<"apply", "reaper">>
      /\ StepList[22] = <<"apply", "socket">> /\ StepList[23] = <<"apply", "ngrok">>
      /\ StepList[14] = <<"restart", "agent">> /\ StepList[24] = <<"restart", "ngrok">>
      /\ StepList[25] = <<"restart", "socket">>
  BY DEF StepList
<1>2. /\ Passed(26, "apply", "minio") /\ Passed(26, "apply", "cert-manager")
      /\ Passed(26, "apply", "maker") /\ Passed(26, "apply", "agent")
      /\ Passed(26, "apply", "monitor") /\ Passed(26, "apply", "reaper")
      /\ Passed(26, "apply", "socket") /\ Passed(26, "apply", "ngrok")
      /\ Passed(26, "restart", "agent") /\ Passed(26, "restart", "ngrok")
      /\ Passed(26, "restart", "socket")
  BY <1>1, Passes
<1> QED BY <1>2 DEF Workloads, ImageOf, Configured

(***************************************************************************)
(* Types                                                                   *)
(***************************************************************************)
Maybe   == {None} \cup Numbers
PodType == [image: Maybe, device: Maybe]

(* The first version and the absence of one. *)
LEMMA NumberTypes == /\ 1 \in Numbers /\ None \notin Numbers /\ None \in Maybe
                     /\ \A n \in Numbers : n \in Maybe /\ n \in Nat /\ n >= 1
  BY DEF Numbers, None, Maybe

(* What is stored in the cluster is of its type. *)
LEMMA ObjsType ==
    ASSUME TypeInv, NEW o \in Objects, NEW v \in Numbers, objs' = With(objs, o, v)
    PROVE  DOMAIN objs' \subseteq Objects /\ \A x \in DOMAIN objs' : objs'[x] \in Numbers
<1>1. DOMAIN objs' = DOMAIN objs \cup {o} /\ objs'[o] = v /\ \A x \in DOMAIN objs : x # o => objs'[x] = objs[x]
  BY DEF With
<1>2. DOMAIN objs \subseteq Objects /\ \A x \in DOMAIN objs : objs[x] \in Numbers
  BY DEF TypeInv, TypeOK
<1> QED BY <1>1, <1>2

(* A step of the plan has its place, and is a step of a Setup that runs. *)
LEMMA StepPlace ==
    ASSUME NEW c \in Setups, NEW what, NEW name, Step(c, what, name)
    PROVE  /\ setup[c].at \in 1..25 /\ Plan[setup[c].at] = <<what, name>>
           /\ setup[c] # Idle
  BY PlanSteps DEF Step, Idle

\* A step of the plan that succeeds.
Works(c) ==
    \/ \E o \in Objects : Ensure(c, o)
    \/ CertJob(c)
    \/ \E i \in Images : Build(c, i)
    \/ \E w \in Configured : WriteEnvMk(c, w)
    \/ \E w \in Workloads : Apply(c, w) \/ _restart_deployment(c, w)

(* It takes its Setup, and nobody else, to the next place. *)
LEMMA WorksOn ==
    ASSUME TypeInv, NEW c \in Setups, Works(c)
    PROVE  /\ setup[c].at \in 1..25 /\ setup[c] # Idle
           /\ setup' = [setup EXCEPT ![c].at = @ + 1]
           /\ setup'[c] # Idle
           /\ setup'[c] \in SetupType
           /\ setup'[c].at = setup[c].at + 1
           /\ setup'[c].device = setup[c].device /\ setup'[c].source = setup[c].source
           /\ setup'[c].mixed = setup[c].mixed
           /\ \A d \in Setups : d # c => setup'[d] = setup[d]
           /\ setup' \in [Setups -> SetupType]
           /\ UNCHANGED <<logins, source, clusters, orderly, deployed>>
<1>1. \E what, name : Step(c, what, name)
  BY DEF Works, Ensure, CertJob, Build, WriteEnvMk, Apply, _restart_deployment
<1>2. setup[c].at \in 1..25 /\ setup[c] # Idle
  BY <1>1, StepPlace
<1>3. NextStep(c) /\ UNCHANGED <<logins, source, clusters, orderly, deployed>>
  BY DEF Works, Ensure, CertJob, Build, WriteEnvMk, Apply, _restart_deployment, outside
<1>4. setup \in [Setups -> SetupType] /\ setup[c] \in SetupType
  BY DEF TypeInv, TypeOK
<1>5. setup' = [setup EXCEPT ![c].at = @ + 1]
  BY <1>3 DEF NextStep
<1>6. /\ setup'[c] = [setup[c] EXCEPT !.at = @ + 1]
      /\ \A d \in Setups : d # c => setup'[d] = setup[d]
  BY <1>4, <1>5
<1>7. /\ setup'[c] \in SetupType
      /\ setup'[c].at = setup[c].at + 1
      /\ setup'[c].device = setup[c].device /\ setup'[c].source = setup[c].source
      /\ setup'[c].mixed = setup[c].mixed
  BY <1>2, <1>4, <1>6, PlanSteps DEF SetupType
<1>8. setup'[c] # Idle
  BY <1>2, <1>7 DEF Idle
<1>9. setup' \in [Setups -> SetupType]
  BY <1>4, <1>5, <1>6, <1>7
<1> QED BY <1>2, <1>3, <1>5, <1>6, <1>7, <1>8, <1>9

(* A manifest and a pod that starts have their types. *)
LEMMA PodTypes ==
    ASSUME TypeInv, NEW w \in Workloads
    PROVE  /\ NamedBy(w) \in Maybe
           /\ w \in DOMAIN manifests => Pod(w) \in PodType
<1>1. NamedBy(w) \in Maybe
  BY NumberTypes DEF TypeInv, TypeOK, NamedBy, Maybe
<1>2. w \in DOMAIN SecretOf /\ SecretOf[w] \in DOMAIN objs => objs[SecretOf[w]] \in Maybe
  BY NumberTypes DEF TypeInv, TypeOK
<1>3. w \in DOMAIN ImageOf => images[ImageOf[w]] \in Maybe
  BY DEF TypeInv, TypeOK, ImageOf, Images, Maybe
<1>4. w \in DOMAIN manifests => manifests[w] \in Maybe
  BY DEF TypeInv, TypeOK, Maybe
<1> QED BY <1>1, <1>2, <1>3, <1>4, NumberTypes DEF Pod, PodType

(* A rollout takes the pod of the one before it away from the latest. *)
LEMMA RollsIs ==
    ASSUME NEW w, Rolls(w)
    PROVE  DOMAIN pods' = DOMAIN pods \ {w} /\ \A x \in DOMAIN pods' : pods'[x] = pods[x]
  BY DEF Rolls

(* What Apply does to the manifests and the pods. *)
LEMMA ApplyIs ==
    ASSUME NEW c, NEW w, Apply(c, w)
    PROVE  /\ w \in DOMAIN manifests' /\ manifests'[w] = NamedBy(w)
           /\ DOMAIN manifests' = DOMAIN manifests \cup {w}
           /\ \A x \in DOMAIN manifests : x # w => manifests'[x] = manifests[x]
           /\ DOMAIN pods' \subseteq DOMAIN pods
           /\ \A x \in DOMAIN pods' : pods'[x] = pods[x]
           /\ w \in DOMAIN pods' => w \in DOMAIN manifests /\ manifests'[w] = manifests[w]
           /\ \A x \in DOMAIN pods : x # w => x \in DOMAIN pods'
           /\ UNCHANGED <<images, envmk, objs>>
<1>1. CASE w \in DOMAIN manifests /\ manifests[w] = NamedBy(w)
  <2>1. manifests' = manifests /\ pods' = pods /\ UNCHANGED <<images, envmk, objs>>
    BY <1>1 DEF Apply
  <2> QED BY <1>1, <2>1
<1>2. CASE ~(w \in DOMAIN manifests /\ manifests[w] = NamedBy(w))
  <2>1. manifests' = With(manifests, w, NamedBy(w)) /\ Rolls(w) /\ UNCHANGED <<images, envmk, objs>>
    BY <1>2 DEF Apply
  <2> QED BY <2>1, RollsIs DEF With
<1> QED BY <1>1, <1>2

(* What others push. *)
LEMMA PushTypes ==
    ASSUME TypeInv
    PROVE  \A push \in Pushes : push[1] \in Images /\ push[2] \in Numbers
<1>1. 1..source \subseteq Numbers
  BY DEF TypeInv, TypeOK, Numbers
<1>2. \A w \in Followed \cap DOMAIN ImageOf : ImageOf[w] \in Images
  BY DEF ImageOf, Images
<1> QED BY <1>1, <1>2 DEF Pushes

(* Every step keeps the types. *)
LEMMA StepType == TypeInv /\ [Next]_vars => TypeInv'
<1> SUFFICES ASSUME TypeInv, [Next]_vars PROVE TypeInv'
  OBVIOUS
<1>t. /\ logins \in Numbers /\ source \in Numbers /\ clusters \in Numbers
      /\ images \in [Images -> Maybe] /\ envmk \in [Configured -> Maybe]
      /\ DOMAIN objs \subseteq Objects /\ (\A o \in DOMAIN objs : objs[o] \in Numbers)
      /\ DOMAIN manifests \subseteq Workloads /\ (\A w \in DOMAIN manifests : manifests[w] \in Maybe)
      /\ DOMAIN pods \subseteq DOMAIN manifests /\ (\A w \in DOMAIN pods : pods[w] \in PodType)
      /\ setup \in [Setups -> SetupType] /\ SetupIsPlaced
  BY DEF TypeInv, TypeOK, Maybe, PodType
<1>k. \A c \in Setups : setup[c].device \in Maybe /\ setup[c].source \in Maybe
  BY <1>t DEF SetupType, Maybe
<1>i. Idle \in SetupType
  BY PlanSteps DEF Idle, SetupType
<1> USE DEF TypeInv, TypeOK
<1>1. ASSUME NEW c \in Setups, Works(c) PROVE TypeInv'
  <2>w. setup' \in [Setups -> SetupType] /\ SetupIsPlaced' /\ UNCHANGED <<logins, source, clusters, orderly, deployed>>
    BY <1>1, <1>t, WorksOn DEF SetupIsPlaced, Place
  <2>1. ASSUME NEW o \in Objects, Ensure(c, o) PROVE TypeInv'
    <3>1. Value(c, o) \in Numbers
      BY <2>1, <1>k, NumberTypes DEF Ensure, Value, Maybe
    <3>2. DOMAIN objs' \subseteq Objects /\ \A x \in DOMAIN objs' : objs'[x] \in Numbers
      BY <2>1, <3>1, ObjsType DEF Ensure
    <3> QED BY <2>1, <2>w, <3>2 DEF Ensure
  <2>2. CASE CertJob(c)
    <3>1. DOMAIN objs' \subseteq Objects /\ \A x \in DOMAIN objs' : objs'[x] \in Numbers
      BY <2>2, NumberTypes, ObjsType DEF CertJob, Objects
    <3> QED BY <2>2, <2>w, <3>1 DEF CertJob
  <2>3. ASSUME NEW i \in Images, Build(c, i) PROVE TypeInv'
    <3>1. PICK v \in setup[c].source..source : images' = [images EXCEPT ![i] = v]
      BY <2>3 DEF Build
    <3>2. setup[c].source \in Numbers
      BY <1>1, <1>t, WorksOn DEF SetupIsPlaced
    <3>3. v \in Maybe
      BY <1>t, <3>2 DEF Numbers, Maybe
    <3>4. images' \in [Images -> Maybe]
      BY <1>t, <3>1, <3>3
    <3> QED BY <2>3, <2>w, <3>4 DEF Build, Maybe, stack
  <2>4. ASSUME NEW w \in Configured, WriteEnvMk(c, w) PROVE TypeInv'
    <3>1. envmk' \in [Configured -> Maybe]
      BY <2>4, <1>t, <1>k DEF WriteEnvMk
    <3> QED BY <2>4, <2>w, <3>1 DEF WriteEnvMk, Maybe, stack
  <2>5. ASSUME NEW w \in Workloads, Apply(c, w) PROVE TypeInv'
    <3>1. /\ DOMAIN manifests' = DOMAIN manifests \cup {w} /\ manifests'[w] = NamedBy(w)
          /\ \A x \in DOMAIN manifests : x # w => manifests'[x] = manifests[x]
      BY <2>5, ApplyIs
    <3>2. DOMAIN manifests' \subseteq Workloads /\ \A x \in DOMAIN manifests' : manifests'[x] \in Maybe
      BY <1>t, <3>1, PodTypes
    <3>3. DOMAIN pods' \subseteq DOMAIN pods /\ \A x \in DOMAIN pods' : pods'[x] = pods[x]
      BY <2>5, ApplyIs
    <3>4. DOMAIN pods' \subseteq DOMAIN manifests' /\ \A x \in DOMAIN pods' : pods'[x] \in PodType
      BY <1>t, <3>1, <3>3
    <3> QED BY <2>5, <2>w, <3>2, <3>4 DEF Apply, PodType, Maybe
  <2>6. ASSUME NEW w \in Workloads, _restart_deployment(c, w) PROVE TypeInv'
    <3>1. DOMAIN pods' \subseteq DOMAIN manifests /\ \A x \in DOMAIN pods' : pods'[x] \in PodType
      BY <2>6, <1>t, RollsIs DEF _restart_deployment
    <3> QED BY <2>6, <2>w, <3>1 DEF _restart_deployment, PodType, Maybe
  <2> QED BY <1>1, <2>1, <2>2, <2>3, <2>4, <2>5, <2>6 DEF Works
<1>2. ASSUME NEW c \in Setups, Start(c) PROVE TypeInv'
  <2>1. PICK device \in {logins, None} :
          LET Same(s) == s.device = device /\ s.source = source
              Beside(s) == [s EXCEPT !.mixed = @ \/ ~Same(s)]
          IN  /\ setup' = [d \in Setups |->
                    IF d = c THEN [at |-> 1, device |-> device, source |-> source,
                                   mixed |-> \E r \in Running : ~Same(setup[r])]
                    ELSE IF d \in Running THEN Beside(setup[d]) ELSE Idle]
              /\ deployed' = IF Same(deployed) THEN deployed ELSE Idle
    BY <1>2 DEF Start
  <2>2. device \in Maybe /\ source \in Maybe
    BY <1>t, NumberTypes
  <2>3. /\ setup'[c] \in SetupType
        /\ setup'[c].at = 1 /\ setup'[c].source = source
    BY <2>1, <2>2, PlanSteps DEF SetupType, Maybe
  <2>4. ASSUME NEW d \in Setups, d # c
        PROVE  /\ setup'[d] \in SetupType
               /\ setup'[d] = Idle \/ (/\ setup'[d].at = setup[d].at /\ setup[d] # Idle
                                       /\ setup'[d].source = setup[d].source)
    <3>1. setup[d] \in SetupType
      BY <1>t
    <3>2. CASE d \notin Running
      <4>1. setup'[d] = Idle
        BY <2>1, <2>4, <3>2
      <4> QED BY <4>1, <1>i
    <3>3. CASE d \in Running
      <4>1. setup'[d] = [setup[d] EXCEPT !.mixed =
                           @ \/ ~(setup[d].device = device /\ setup[d].source = source)]
        BY <2>1, <2>4, <3>3
      <4>2. setup[d] # Idle
        BY <3>3 DEF Running
      <4> QED BY <3>1, <4>1, <4>2 DEF SetupType
    <3> QED BY <3>2, <3>3
  <2>5. setup' \in [Setups -> SetupType] /\ SetupIsPlaced'
    <3>1. setup' = [d \in Setups |-> setup'[d]]
      BY <2>1
    <3>2. \A d \in Setups : setup'[d] \in SetupType
      BY <2>3, <2>4
    <3>3. source' = source
      BY <1>2 DEF Start, outside
    <3> QED BY <1>t, <2>3, <2>4, <3>1, <3>2, <3>3 DEF SetupIsPlaced, Place
  <2>6. deployed' \in SetupType
    BY <2>1, <1>i
  <2> QED BY <1>2, <2>5, <2>6 DEF Start, outside, stack
<1>3. ASSUME NEW c \in Setups, Fail(c) PROVE TypeInv'
  <2>1. setup' \in [Setups -> SetupType] /\ SetupIsPlaced'
    BY <1>3, <1>t, <1>i DEF Fail, SetupIsPlaced, outside
  <2>2. DOMAIN objs' \subseteq Objects /\ \A x \in DOMAIN objs' : objs'[x] \in Numbers
    BY <1>3, <1>t, NumberTypes, ObjsType DEF Fail, Objects
  <2> QED BY <1>3, <2>1, <2>2 DEF Fail, outside
<1>4. ASSUME NEW c \in Setups, Complete(c) PROVE TypeInv'
  <2>1. setup' \in [Setups -> SetupType] /\ SetupIsPlaced'
    BY <1>4, <1>t, <1>i DEF Complete, SetupIsPlaced, outside
  <2>2. [setup[c] EXCEPT !.at = 0] \in SetupType
    BY <1>t, PlanSteps DEF SetupType
  <2> QED BY <1>4, <2>1, <2>2 DEF Complete, outside, stack
<1>5. ASSUME NEW w \in DOMAIN manifests, PodStarts(w) PROVE TypeInv'
  <2>1. Pod(w) \in PodType
    BY <1>t, PodTypes
  <2>2. DOMAIN pods' \subseteq DOMAIN manifests /\ \A x \in DOMAIN pods' : pods'[x] \in PodType
    BY <1>5, <1>t, <2>1 DEF PodStarts, With
  <2> QED BY <1>5, <2>2 DEF PodStarts, PodType, Maybe, SetupIsPlaced, outside
<1>10. ASSUME NEW i \in Images, NEW v \in Numbers, LatePush(i, v) PROVE TypeInv'
  <2>2. images' \in [Images -> Maybe]
    BY <1>10, <1>t, NumberTypes DEF LatePush
  <2>3. setup' \in [Setups -> SetupType] /\ SetupIsPlaced'
    <3>1. \A c \in Setups : \/ setup'[c] = setup[c]
                           \/ setup'[c] = [setup[c] EXCEPT !.mixed = TRUE]
      BY <1>10 DEF LatePush
    <3>2. ASSUME NEW c \in Setups
          PROVE  /\ setup'[c] \in SetupType /\ setup'[c].at = setup[c].at
                 /\ setup'[c].source = setup[c].source
      <4>1. setup[c] \in SetupType
        BY <1>t
      <4>2. CASE setup'[c] = setup[c]
        BY <4>1, <4>2
      <4>3. CASE setup'[c] = [setup[c] EXCEPT !.mixed = TRUE]
        BY <4>1, <4>3 DEF SetupType
      <4> QED BY <3>1, <4>2, <4>3
    <3>3. ASSUME NEW c \in Setups, setup[c] = Idle PROVE setup'[c] = Idle
      <4>1. setup[c].source = 0 /\ ~(0 > v)
        BY <3>3 DEF Idle, None, Numbers
      <4> QED BY <1>10, <3>3, <4>1 DEF LatePush
    <3>4. setup' = [c \in Setups |-> setup'[c]]
      BY <1>10 DEF LatePush
    <3> QED BY <1>t, <3>2, <3>3, <3>4 DEF SetupIsPlaced
  <2>4. deployed' \in SetupType
    BY <1>10, <1>i DEF LatePush
  <2> QED BY <1>10, <2>2, <2>3, <2>4 DEF LatePush, outside, stack, Maybe
<1>6. CASE Login
  BY <1>6, <1>t DEF Login, Changes, Numbers, SetupIsPlaced, stack
<1>7. CASE PullRepos
  BY <1>7, <1>t DEF PullRepos, Changes, Numbers, SetupIsPlaced, stack
<1>8. CASE NewCluster
  <2>1. ASSUME NEW c \in Setups
        PROVE  /\ setup'[c] \in SetupType
               /\ setup'[c] = Idle \/ (setup'[c].at = setup[c].at /\ setup[c] # Idle
                                       /\ setup'[c].source = setup[c].source)
    <3>1. setup[c] \in SetupType
      BY <1>t
    <3>2. CASE c \in Running
      <4>1. setup'[c] = [setup[c] EXCEPT !.mixed = TRUE] /\ setup[c] # Idle
        BY <1>8, <3>2 DEF NewCluster, Running
      <4> QED BY <3>1, <4>1 DEF SetupType
    <3>3. CASE c \notin Running
      <4>1. setup'[c] = Idle
        BY <1>8, <3>3 DEF NewCluster
      <4> QED BY <4>1, <1>i
    <3> QED BY <3>2, <3>3
  <2>2. setup' \in [Setups -> SetupType] /\ SetupIsPlaced'
    <3>1. setup' = [c \in Setups |-> setup'[c]]
      BY <1>8 DEF NewCluster
    <3>2. \A c \in Setups : setup'[c] \in SetupType
      BY <2>1
    <3> QED BY <1>8, <1>t, <2>1, <3>1, <3>2 DEF SetupIsPlaced, NewCluster
  <2>3. orderly' \in BOOLEAN /\ clusters' \in Numbers
    BY <1>8, <1>t DEF NewCluster, Changes, Numbers
  <2>4. DOMAIN objs' = {} /\ DOMAIN manifests' = {} /\ DOMAIN pods' = {}
    BY <1>8 DEF NewCluster
  <2> QED BY <1>8, <1>t, <1>i, <2>2, <2>3, <2>4 DEF NewCluster
<1>9. CASE UNCHANGED vars
  BY <1>9 DEF vars, outside, stack, SetupIsPlaced
<1>11. \A push \in Pushes : push[1] \in Images /\ push[2] \in Numbers
  BY PushTypes
<1> QED
  BY <1>1, <1>2, <1>3, <1>4, <1>5, <1>6, <1>7, <1>8, <1>9, <1>10, <1>11 DEF Next, SetupStep, Works

(***************************************************************************)
(* What is in the cluster                                                  *)
(***************************************************************************)
\* Nothing is taken away.
Grows == /\ DOMAIN objs \subseteq DOMAIN objs'
         /\ DOMAIN manifests \subseteq DOMAIN manifests'
         /\ \A i \in Images : images[i] # None => images'[i] # None

(* In one cluster nothing is. *)
LEMMA StepGrows == TypeInv /\ [Next]_vars /\ ~NewCluster => Grows
<1> SUFFICES ASSUME TypeInv, [Next]_vars, ~NewCluster PROVE Grows
  OBVIOUS
<1>1. ASSUME NEW c \in Setups, Works(c) PROVE Grows
  <2>1. ASSUME NEW o, NEW v, objs' = With(objs, o, v), UNCHANGED <<manifests, images>> PROVE Grows
    BY <2>1 DEF With, Grows
  <2>2. CASE (\E o \in Objects : Ensure(c, o)) \/ CertJob(c)
    BY <2>1, <2>2 DEF Ensure, CertJob
  <2>3. ASSUME NEW i \in Images, Build(c, i) PROVE Grows
    <3>1. PICK v \in setup[c].source..source : images' = [images EXCEPT ![i] = v]
      BY <2>3 DEF Build
    <3>2. setup[c].source \in Numbers
      BY <1>1, WorksOn DEF TypeInv, SetupIsPlaced
    <3>3. v # None
      BY <3>2 DEF Numbers, None
    <3> QED BY <2>3, <3>1, <3>3 DEF Build, stack, Grows, TypeInv, TypeOK
  <2>4. CASE \E w \in Configured : WriteEnvMk(c, w)
    BY <2>4 DEF WriteEnvMk, stack, Grows
  <2>5. ASSUME NEW w \in Workloads, Apply(c, w) PROVE Grows
    BY <2>5, ApplyIs DEF Grows
  <2>6. CASE \E w \in Workloads : _restart_deployment(c, w)
    BY <2>6 DEF _restart_deployment, Grows
  <2> QED BY <1>1, <2>2, <2>3, <2>4, <2>5, <2>6 DEF Works
<1>2. ASSUME NEW c \in Setups, Start(c) \/ Complete(c) PROVE Grows
  BY <1>2 DEF Start, Complete, stack, Grows
<1>3. ASSUME NEW c \in Setups, Fail(c) PROVE Grows
  <2>1. \E v : objs' \in {objs, With(objs, "certs", v)}
    BY <1>3 DEF Fail
  <2> QED BY <1>3, <2>1 DEF Fail, With, Grows
<1>4. CASE (\E w \in Followed \cap DOMAIN manifests : PodStarts(w)) \/ Login \/ PullRepos \/ UNCHANGED vars
  BY <1>4 DEF PodStarts, Login, PullRepos, vars, stack, Grows
<1>5. ASSUME NEW push \in Pushes, LatePush(push[1], push[2]) PROVE Grows
  <2>1. push[2] # None /\ images \in [Images -> Maybe]
    BY NumberTypes, PushTypes DEF TypeInv, TypeOK, Maybe
  <2> QED BY <1>5, <2>1 DEF LatePush, stack, Grows
<1> QED BY <1>1, <1>2, <1>3, <1>4, <1>5 DEF Next, SetupStep, Works

(* So what a Setup has put there stays there. *)
LEMMA CarriesOn == ASSUME Grows, NEW k, Carries(k) PROVE Carries(k)'
  BY DEF Grows, Carries, Passed

(* And the step that it takes is added. *)
LEMMA WorkCarries ==
    ASSUME TypeInv, NEW c \in Setups, Works(c), NEW k \in 1..25, setup[c].at = k, Carries(k)
    PROVE  Carries(k + 1)'
<1>1. Carries(k)'
  <2>1. ~NewCluster
    BY WorksOn DEF NewCluster, TypeInv, TypeOK, Numbers, Changes
  <2> QED BY <2>1, StepGrows, CarriesOn DEF Next, SetupStep, Works
<1>2. ASSUME NEW what, NEW name, Step(c, what, name)
      PROVE  \A x, y : Passed(k + 1, x, y) => Passed(k, x, y) \/ (x = what /\ y = name)
  <2>1. Plan[k] = <<what, name>>
    BY <1>2, StepPlace
  <2> QED BY <2>1, PassedMore
<1>3. /\ \A o \in Objects : Ensure(c, o) => Step(c, "ensure", o) /\ o \in DOMAIN objs'
      /\ CertJob(c) => Step(c, "job", "certs") /\ "certs" \in DOMAIN objs'
  BY DEF Ensure, CertJob, With
<1>4. ASSUME NEW i \in Images, Build(c, i) PROVE Step(c, "build", i) /\ images'[i] # None
  <2>1. PICK v \in setup[c].source..source : images' = [images EXCEPT ![i] = v]
    BY <1>4 DEF Build
  <2>2. setup[c].source \in Numbers
    BY WorksOn DEF TypeInv, SetupIsPlaced
  <2>3. v # None
    BY <2>2 DEF Numbers, None
  <2> QED BY <1>4, <2>1, <2>3 DEF Build, TypeInv, TypeOK
<1>5. \A w \in Configured : WriteEnvMk(c, w) => Step(c, "write", w)
  BY DEF WriteEnvMk
<1>6. ASSUME NEW w \in Workloads, Apply(c, w) PROVE Step(c, "apply", w) /\ w \in DOMAIN manifests'
  BY <1>6, ApplyIs DEF Apply
<1>7. \A w \in Workloads : _restart_deployment(c, w) => Step(c, "restart", w)
  BY DEF _restart_deployment
<1>8. PICK what, name :
        /\ Step(c, what, name)
        /\ what \in {"ensure", "job"} => name \in DOMAIN objs'
        /\ what = "build" => images'[name] # None
        /\ what = "apply" => name \in DOMAIN manifests'
  BY <1>3, <1>4, <1>5, <1>6, <1>7 DEF Works
<1>9. \A x, y : Passed(k + 1, x, y) => Passed(k, x, y) \/ (x = what /\ y = name)
  BY <1>2, <1>8
<1> QED BY <1>1, <1>8, <1>9 DEF Carries, Passed

(* What a Start does to the Setups. *)
LEMMA StartIs ==
    ASSUME TypeInv, NEW c \in Setups, Start(c)
    PROVE  /\ setup[c] = Idle
           /\ setup'[c].at = 1 /\ setup'[c].source = source
           /\ \A d \in Setups : d # c => \/ setup[d] = Idle /\ setup'[d] = Idle
                                         \/ /\ setup[d] # Idle
                                            /\ setup'[d].at = setup[d].at
                                            /\ setup'[d].device = setup[d].device
                                            /\ setup'[d].source = setup[d].source
                                            /\ setup[d].mixed => setup'[d].mixed
           /\ \A d \in Setups : setup[d] # Idle => \/ setup'[d].mixed /\ setup'[c].mixed
                                                   \/ /\ setup[d].device = setup'[c].device
                                                      /\ setup[d].source = source
           /\ deployed' = Idle \/ /\ deployed' = deployed
                                  /\ deployed.device = setup'[c].device /\ deployed.source = source
           /\ UNCHANGED <<objs, manifests, pods, images, envmk, orderly>>
<1> DEFINE Same(device, s) == s.device = device /\ s.source = source
<1>1. setup[c] = Idle /\ UNCHANGED <<objs, manifests, pods, images, envmk, orderly>>
  BY DEF Start, stack
<1>2. PICK device \in {logins, None} :
        /\ setup' = [d \in Setups |->
              IF d = c THEN [at |-> 1, device |-> device, source |-> source,
                             mixed |-> \E r \in Running : ~Same(device, setup[r])]
              ELSE IF d \in Running THEN [setup[d] EXCEPT !.mixed = @ \/ ~Same(device, setup[d])]
              ELSE Idle]
        /\ deployed' = IF Same(device, deployed) THEN deployed ELSE Idle
  BY DEF Start
<1>3. /\ setup'[c].at = 1 /\ setup'[c].source = source /\ setup'[c].device = device
      /\ (\E r \in Running : ~Same(device, setup[r])) => setup'[c].mixed
  BY <1>2
<1>4. ASSUME NEW d \in Setups, d # c, setup[d] # Idle
      PROVE  /\ setup'[d].at = setup[d].at
             /\ setup'[d].device = setup[d].device
             /\ setup'[d].source = setup[d].source
             /\ setup[d].mixed => setup'[d].mixed
             /\ ~Same(device, setup[d]) => setup'[d].mixed
  <2>1. setup'[d] = [setup[d] EXCEPT !.mixed = @ \/ ~Same(device, setup[d])]
    BY <1>2, <1>4 DEF Running
  <2>2. setup[d] \in SetupType
    BY DEF TypeInv, TypeOK
  <2> HIDE DEF Same
  <2> QED BY <2>1, <2>2 DEF SetupType
<1>5. \A d \in Setups : d # c /\ setup[d] = Idle => setup'[d] = Idle
  BY <1>2 DEF Running
<1>6. ASSUME NEW d \in Setups, setup[d] # Idle
      PROVE  Same(device, setup[d]) \/ (setup'[d].mixed /\ setup'[c].mixed)
  <2>1. d \in Running /\ d # c
    BY <1>1, <1>6 DEF Running
  <2> QED BY <1>3, <1>4, <1>6, <2>1
<1>7. deployed' = Idle \/ (deployed' = deployed /\ Same(device, deployed))
  BY <1>2
<1> QED BY <1>1, <1>3, <1>4, <1>5, <1>6, <1>7

(* What a new cluster does to them. *)
LEMMA NewClusterIs ==
    ASSUME TypeInv, NewCluster, NEW d \in Setups
    PROVE  \/ setup[d] = Idle /\ setup'[d] = Idle
           \/ setup[d] # Idle /\ setup'[d].mixed
<1>1. setup[d] \in SetupType
  BY DEF TypeInv, TypeOK
<1>2. CASE setup[d] # Idle
  <2>1. setup'[d] = [setup[d] EXCEPT !.mixed = TRUE]
    BY <1>2 DEF NewCluster, Running
  <2> QED BY <1>1, <1>2, <2>1 DEF SetupType
<1>3. CASE setup[d] = Idle
  BY <1>3 DEF NewCluster, Running
<1> QED BY <1>2, <1>3

(* What a late push does to them. *)
LEMMA LatePushIs ==
    ASSUME TypeInv, NEW i \in Images, NEW v \in Numbers, LatePush(i, v)
    PROVE  /\ images' = [images EXCEPT ![i] = v]
           /\ UNCHANGED <<envmk, objs, manifests, pods, orderly>>
           /\ deployed' = Idle \/ (deployed' = deployed /\ ~(deployed.source > v))
           /\ \A d \in Setups :
                 \/ setup'[d] = setup[d] /\ ~(setup[d].source > v)
                 \/ /\ setup[d] # Idle
                    /\ setup'[d].mixed /\ setup'[d].at = setup[d].at
                    /\ setup'[d].device = setup[d].device /\ setup'[d].source = setup[d].source
<1>1. ASSUME NEW d \in Setups, setup[d].source > v
      PROVE  /\ setup[d] # Idle
             /\ setup'[d].mixed /\ setup'[d].at = setup[d].at
             /\ setup'[d].device = setup[d].device /\ setup'[d].source = setup[d].source
  <2>1. setup'[d] = [setup[d] EXCEPT !.mixed = TRUE]
    BY <1>1 DEF LatePush
  <2>2. setup[d] \in SetupType
    BY DEF TypeInv, TypeOK
  <2>3. setup[d] # Idle
    BY <1>1 DEF Idle, None, Numbers
  <2> QED BY <2>1, <2>2, <2>3 DEF SetupType
<1>2. \A d \in Setups : ~(setup[d].source > v) => setup'[d] = setup[d]
  BY DEF LatePush
<1>3. deployed' = Idle \/ (deployed' = deployed /\ ~(deployed.source > v))
  BY DEF LatePush
<1> QED BY <1>1, <1>2, <1>3 DEF LatePush, stack

(* Before its first step a Setup has put nothing there. *)
LEMMA FirstStep == \A what, name : ~Passed(1, what, name)
  BY DEF Passed

(* What a Setup that is in its own cluster has put there is there. *)
LEMMA StepCarry ==
    ASSUME TypeInv, SetupsCarry, [Next]_vars
    PROVE  SetupsCarry'
<1> SUFFICES ASSUME orderly', NEW c \in Setups, NEW k \in Place, setup'[c].at = k
             PROVE  Carries(k)'
  BY DEF SetupsCarry
<1>t. setup \in [Setups -> SetupType]
  BY DEF TypeInv, TypeOK
<1>0. setup'[c] # Idle
  BY DEF Idle, Place
<1>1. ~NewCluster
  <2> SUFFICES ASSUME NewCluster PROVE FALSE
    OBVIOUS
  <2>1. Running = {}
    BY DEF NewCluster
  <2>2. setup'[c] = Idle
    BY <2>1 DEF NewCluster
  <2> QED BY <1>0, <2>2
<1>2. Grows
  BY <1>1, StepGrows
<1>3. orderly => (setup[c].at = k => Carries(k)')
  BY <1>2, CarriesOn DEF SetupsCarry
<1>4. ASSUME NEW d \in Setups, Works(d) PROVE Carries(k)'
  <2>1. orderly
    BY <1>4, WorksOn
  <2>2. CASE d = c
    <3>1. setup[c].at \in 1..25 /\ k = setup[c].at + 1
      BY <1>4, <2>2, WorksOn
    <3>2. setup[c].at \in Place
      BY <3>1 DEF Place
    <3>3. Carries(setup[c].at)
      BY <2>1, <3>2 DEF SetupsCarry
    <3> DEFINE j == setup[c].at
    <3>4. \E i \in 1..25 : setup[c].at = i /\ k = i + 1 /\ Carries(i)
      BY <3>1, <3>3
    <3>5. PICK i \in 1..25 : setup[c].at = i /\ k = i + 1 /\ Carries(i)
      BY <3>4
    <3>6. Carries(i + 1)'
      BY <1>4, <2>2, <3>5, WorkCarries
    <3> QED BY <3>5, <3>6
  <2>3. CASE d # c
    <3>1. setup'[c] = setup[c]
      BY <1>4, <2>3, WorksOn
    <3> QED BY <1>3, <2>1, <3>1
  <2> QED BY <2>2, <2>3
<1>5. ASSUME NEW d \in Setups, Start(d) PROVE Carries(k)'
  <2>1. orderly /\ (k = 1 \/ setup[c].at = k)
    BY <1>0, <1>5, StartIs
  <2> QED BY <1>3, <2>1, FirstStep DEF Carries, Passed
<1>6. ASSUME NEW d \in Setups, Fail(d) \/ Complete(d) PROVE Carries(k)'
  <2>1. orderly /\ setup'[c] = setup[c]
    BY <1>t, <1>0, <1>6 DEF Fail, Complete
  <2> QED BY <1>3, <2>1
<1>7. CASE (\E w \in Followed \cap DOMAIN manifests : PodStarts(w)) \/ Login \/ PullRepos \/ UNCHANGED vars
  BY <1>3, <1>7 DEF PodStarts, Login, PullRepos, vars
<1>8. ASSUME NEW push \in Pushes, LatePush(push[1], push[2]) PROVE Carries(k)'
  <2>1. push[1] \in Images /\ push[2] \in Numbers
    BY PushTypes
  <2>2. setup[c].at = k /\ orderly
    BY <1>8, <2>1, LatePushIs
  <2> QED BY <1>3, <2>2
<1> QED BY <1>1, <1>4, <1>5, <1>6, <1>7, <1>8 DEF Next, SetupStep, Works

(* A workload comes after its needs. *)
LEMMA StepNeeds ==
    ASSUME TypeInv, SetupsCarry, NeedsComeFirst, [Next]_vars
    PROVE  NeedsComeFirst'
<1> SUFFICES ASSUME orderly', NEW w \in DOMAIN manifests'
             PROVE  /\ Needs[w] \subseteq DOMAIN objs' \cup DOMAIN manifests'
                    /\ w \in DOMAIN ImageOf => images'[ImageOf[w]] # None
  BY DEF NeedsComeFirst
<1>1. ~NewCluster
  <2>1. NewCluster => DOMAIN manifests' = {}
    BY DEF NewCluster
  <2> QED BY <2>1
<1>2. Grows
  BY <1>1, StepGrows
<1>i. \A x \in DOMAIN ImageOf : ImageOf[x] \in Images
  BY DEF ImageOf, Images
<1>3. orderly
  <2>1. \A c \in Setups : Works(c) \/ Start(c) \/ Fail(c) \/ Complete(c) => orderly' = orderly
    BY WorksOn DEF Start, Fail, Complete
  <2> QED BY <1>1, <2>1 DEF Next, SetupStep, Works, PodStarts, LatePush, Login, PullRepos, vars
<1>4. CASE w \in DOMAIN manifests
  BY <1>2, <1>3, <1>4, <1>i DEF NeedsComeFirst, Grows
<1>5. CASE w \notin DOMAIN manifests
  <2>1. PICK c \in Setups : Works(c) \/ Start(c) \/ Fail(c) \/ Complete(c)
    BY <1>1, <1>5 DEF Next, SetupStep, Works, PodStarts, LatePush, Login, PullRepos, vars, stack
  <2>2. ~Start(c) /\ ~Fail(c) /\ ~Complete(c)
    BY <1>5 DEF Start, Fail, Complete, stack
  <2>3. PICK x \in Workloads : Apply(c, x) \/ _restart_deployment(c, x)
    BY <1>5, <2>1, <2>2 DEF Works, Ensure, CertJob, Build, WriteEnvMk, stack
  <2>4. ~_restart_deployment(c, x)
    BY <1>5 DEF _restart_deployment
  <2>6. x = w /\ Apply(c, w)
    BY <1>5, <2>3, <2>4, ApplyIs
  <2>7. PICK k \in 1..25 : setup[c].at = k /\ Plan[k] = <<"apply", w>>
    BY <2>6, StepPlace DEF Apply
  <2>8. Carries(k)
    BY <1>3, <2>7 DEF SetupsCarry, Place
  <2>9. /\ \A n \in Needs[w] :
             \/ n \in Objects /\ (Passed(k, "ensure", n) \/ Passed(k, "job", n))
             \/ n \in Workloads /\ Passed(k, "apply", n)
        /\ w \in DOMAIN ImageOf => Passed(k, "build", ImageOf[w])
    BY <2>3, <2>6, <2>7, ApplyOrder
  <2>10. Needs[w] \subseteq DOMAIN objs \cup DOMAIN manifests
    BY <2>8, <2>9 DEF Carries
  <2>11. w \in DOMAIN ImageOf => images[ImageOf[w]] # None
    BY <2>8, <2>9, <1>i DEF Carries
  <2> QED BY <1>2, <1>i, <2>10, <2>11 DEF Grows
<1> QED BY <1>4, <1>5

(***************************************************************************)
(* Whose it is                                                             *)
(***************************************************************************)
(* Setups of another kind are told apart, or mark each other. *)
LEMMA StepKinds ==
    ASSUME TypeInv, KindsAreApart, [Next]_vars
    PROVE  KindsAreApart'
<1>t. setup \in [Setups -> SetupType]
  BY DEF TypeInv, TypeOK
<1>1. ASSUME NEW c \in Setups, Works(c) PROVE KindsAreApart'
  <2>1. /\ deployed' = deployed
        /\ \A d \in Setups : /\ setup'[d] = Idle <=> setup[d] = Idle
                             /\ setup'[d].mixed = setup[d].mixed
                             /\ setup'[d].device = setup[d].device
                             /\ setup'[d].source = setup[d].source
    BY <1>1, WorksOn
  <2> QED BY <2>1 DEF KindsAreApart, SameKind
<1>2. ASSUME NEW c \in Setups, Start(c) PROVE KindsAreApart'
  BY <1>2, StartIs DEF KindsAreApart, SameKind
<1>3. ASSUME NEW c \in Setups, Fail(c) PROVE KindsAreApart'
  <2>1. deployed' = deployed /\ \A d \in Setups : setup'[d] # Idle => setup'[d] = setup[d]
    BY <1>3, <1>t DEF Fail
  <2> QED BY <2>1 DEF KindsAreApart, SameKind
<1>4. ASSUME NEW c \in Setups, Complete(c) PROVE KindsAreApart'
  <2>1. \A d \in Setups : setup'[d] # Idle => setup'[d] = setup[d]
    BY <1>4, <1>t DEF Complete
  <2>2. CASE setup[c].mixed
    <3>1. deployed' = deployed
      BY <1>4, <2>2 DEF Complete
    <3> QED BY <2>1, <3>1 DEF KindsAreApart, SameKind
  <2>3. CASE ~setup[c].mixed
    <3>1. deployed' = [setup[c] EXCEPT !.at = 0] /\ setup[c] # Idle
      BY <1>4, <2>3, PlanSteps DEF Complete, Idle
    <3>2. deployed'.device = setup[c].device /\ deployed'.source = setup[c].source
      BY <1>t, <3>1 DEF SetupType
    <3> QED BY <2>1, <2>3, <3>1, <3>2 DEF KindsAreApart, SameKind
  <2> QED BY <2>2, <2>3
<1>5. CASE NewCluster
  <2>1. deployed' = Idle
    BY <1>5 DEF NewCluster
  <2>2. \A d \in Setups : setup'[d] # Idle => setup'[d].mixed
    BY <1>5, NewClusterIs
  <2> QED BY <2>1, <2>2 DEF KindsAreApart, SameKind
<1>6. CASE (\E w \in Followed \cap DOMAIN manifests : PodStarts(w)) \/ Login \/ PullRepos \/ UNCHANGED vars
  <2>1. setup' = setup /\ deployed' = deployed
    BY <1>6 DEF PodStarts, Login, PullRepos, vars
  <2> QED BY <2>1 DEF KindsAreApart, SameKind
<1>7. ASSUME NEW push \in Pushes, LatePush(push[1], push[2]) PROVE KindsAreApart'
  <2>1. push[1] \in Images /\ push[2] \in Numbers
    BY PushTypes
  <2>2. \A d \in Setups : /\ setup'[d] # Idle => setup[d] # Idle
                          /\ ~setup'[d].mixed => ~setup[d].mixed
                          /\ setup'[d].device = setup[d].device
                          /\ setup'[d].source = setup[d].source
    BY <1>7, <2>1, LatePushIs
  <2>3. deployed' = Idle \/ deployed' = deployed
    BY <1>7, <2>1, LatePushIs
  <2> QED BY <2>2, <2>3 DEF KindsAreApart, SameKind
<1> QED BY <1>1, <1>2, <1>3, <1>4, <1>5, <1>6, <1>7 DEF Next, SetupStep, Works

(* The names of Secrets and images. *)
LEMMA NameTypes ==
    /\ \A w \in DOMAIN ImageOf : ImageOf[w] \in Images /\ w \in Workloads /\ w \notin Configured
    /\ \A w \in DOMAIN SecretOf : SecretOf[w] \in OfDevice /\ w \in DOMAIN ImageOf
    /\ OfDevice \subseteq Objects /\ "certs" \notin OfDevice
    /\ Configured \subseteq Workloads
  BY DEF ImageOf, SecretOf, Images, OfDevice, Objects, Secrets, Configured, Workloads

(* A pod that starts is of its device and its image. *)
LEMMA PodStays ==
    ASSUME NEW k \in Place, NEW s \in SetupType, Deploys(k, s), NEW w \in DOMAIN manifests,
           pods' = With(pods, w, Pod(w)), UNCHANGED <<objs, manifests, images, envmk>>
    PROVE  IsOf(k, s)'
<1>c. Carries(k) /\ IsOf(k, s)
  BY DEF Deploys
<1>0. /\ DOMAIN pods' = DOMAIN pods \cup {w} /\ pods'[w] = Pod(w)
      /\ \A x \in DOMAIN pods : x # w => pods'[x] = pods[x]
  BY DEF With
<1>1. objs' = objs /\ manifests' = manifests /\ images' = images /\ envmk' = envmk
  OBVIOUS
<1>2. ASSUME Passed(k, "restart", w)
      PROVE  /\ pods'[w].image >= s.source
             /\ w \in DOMAIN SecretOf => pods'[w].device = s.device
  <2>1. /\ w \in DOMAIN ImageOf /\ Passed(k, "build", ImageOf[w])
        /\ w \in DOMAIN SecretOf => Passed(k, "ensure", SecretOf[w])
    BY <1>2, PassedOrder DEF Place
  <2>2. pods'[w].image = images[ImageOf[w]] /\ images[ImageOf[w]] >= s.source
    BY <1>c, <1>0, <2>1, NameTypes DEF Pod, IsOf
  <2>3. w \in DOMAIN SecretOf => pods'[w].device = objs[SecretOf[w]] /\ objs[SecretOf[w]] = s.device
    BY <1>c, <1>0, <2>1, NameTypes DEF Pod, IsOf, Carries
  <2> QED BY <2>2, <2>3
<1>3. \A x \in DOMAIN ImageOf \cap DOMAIN pods' : Passed(k, "restart", x) => pods'[x].image >= s.source
  BY <1>c, <1>0, <1>2 DEF IsOf
<1>4. \A x \in DOMAIN SecretOf \cap DOMAIN pods' : Passed(k, "restart", x) => pods'[x].device = s.device
  BY <1>c, <1>0, <1>2 DEF IsOf
<1> QED BY <1>c, <1>1, <1>3, <1>4 DEF IsOf, Passed

(* A rollout takes pods away. *)
LEMMA RollStays ==
    ASSUME NEW k, NEW s, IsOf(k, s), UNCHANGED <<objs, images, envmk>>,
           \A x \in Configured : Passed(k, "apply", x) => manifests'[x] = manifests[x],
           DOMAIN pods' \subseteq DOMAIN pods, \A x \in DOMAIN pods' : pods'[x] = pods[x]
    PROVE  IsOf(k, s)'
<1>1. objs' = objs /\ images' = images /\ envmk' = envmk
  OBVIOUS
<1>2. \A x \in DOMAIN ImageOf \cap DOMAIN pods' : Passed(k, "restart", x) => pods'[x].image >= s.source
  BY DEF IsOf
<1>3. \A x \in DOMAIN SecretOf \cap DOMAIN pods' : Passed(k, "restart", x) => pods'[x].device = s.device
  BY DEF IsOf
<1>4. \A x \in Configured : Passed(k, "apply", x) => manifests'[x] = s.device
  BY DEF IsOf
<1> QED BY <1>1, <1>2, <1>3, <1>4 DEF IsOf, Passed

(* Nor does a Setup of the same kind spoil it. *)
LEMMA WorkStays ==
    ASSUME TypeInv, NEW k \in Place, NEW s \in SetupType, Deploys(k, s),
           NEW c \in Setups, Works(c), setup[c].device = s.device, setup[c].source = s.source
    PROVE  IsOf(k, s)'
<1>c. Carries(k) /\ IsOf(k, s)
  BY DEF Deploys
<1>1. ASSUME NEW o \in Objects, Ensure(c, o) PROVE IsOf(k, s)'
  <2>1. objs' = With(objs, o, Value(c, o)) /\ UNCHANGED <<manifests, pods, images, envmk>>
    BY <1>1 DEF Ensure
  <2>2. \A x \in OfDevice : Passed(k, "ensure", x) => x \in DOMAIN objs
    BY <1>c, NameTypes DEF Carries
  <2>3. \A x \in OfDevice : Passed(k, "ensure", x) => objs'[x] = s.device
    BY <1>c, <2>1, <2>2 DEF With, Value, IsOf
  <2> QED BY <1>c, <2>1, <2>3 DEF IsOf, Passed
<1>2. CASE CertJob(c)
  <2>1. objs' = With(objs, "certs", 1) /\ UNCHANGED <<manifests, pods, images, envmk>>
    BY <1>2 DEF CertJob
  <2>2. \A x \in OfDevice : Passed(k, "ensure", x) => x \in DOMAIN objs
    BY <1>c, NameTypes DEF Carries
  <2>3. \A x \in OfDevice : Passed(k, "ensure", x) => objs'[x] = s.device
    BY <1>c, <2>1, <2>2, NameTypes DEF With, IsOf
  <2> QED BY <1>c, <2>1, <2>3 DEF IsOf, Passed
<1>3. ASSUME NEW i \in Images, Build(c, i) PROVE IsOf(k, s)'
  <2>1. PICK v \in setup[c].source..source : images' = [images EXCEPT ![i] = v]
    BY <1>3 DEF Build
  <2>2. \A x \in Images : Passed(k, "build", x) => images'[x] >= s.source
    BY <1>c, <2>1 DEF TypeInv, TypeOK, IsOf
  <2> QED BY <1>c, <1>3, <2>2 DEF Build, stack, IsOf, Passed
<1>4. ASSUME NEW w \in Configured, WriteEnvMk(c, w) PROVE IsOf(k, s)'
  <2>1. \A x \in Configured : Passed(k, "write", x) => envmk'[x] = s.device
    BY <1>c, <1>4 DEF WriteEnvMk, TypeInv, TypeOK, IsOf
  <2> QED BY <1>c, <1>4, <2>1 DEF WriteEnvMk, stack, IsOf, Passed
<1>5. ASSUME NEW w \in Workloads, Apply(c, w) PROVE IsOf(k, s)'
  <2>1. ASSUME NEW x \in Configured, Passed(k, "apply", x)
        PROVE  x \in DOMAIN manifests /\ envmk[x] = s.device /\ manifests[x] = s.device
    BY <1>c, <2>1, PassedOrder, NameTypes DEF Place, IsOf, Carries
  <2>2. ASSUME NEW x \in Configured, Passed(k, "apply", x)
        PROVE  manifests'[x] = manifests[x]
    BY <1>5, <2>1, <2>2, ApplyIs DEF NamedBy
  <2>3. /\ UNCHANGED <<objs, images, envmk>>
        /\ DOMAIN pods' \subseteq DOMAIN pods /\ \A x \in DOMAIN pods' : pods'[x] = pods[x]
    BY <1>5, ApplyIs
  <2> QED BY <1>c, <2>2, <2>3, RollStays
<1>6. ASSUME NEW w \in Workloads, _restart_deployment(c, w) PROVE IsOf(k, s)'
  <2>1. UNCHANGED <<objs, manifests, images, envmk>> /\ Rolls(w)
    BY <1>6 DEF _restart_deployment
  <2> QED BY <1>c, <2>1, RollsIs, RollStays
<1> QED BY <1>1, <1>2, <1>3, <1>4, <1>5, <1>6 DEF Works

(* Nothing of it is spoiled while nothing changes. *)
LEMMA SameStays ==
    ASSUME NEW k, NEW s, IsOf(k, s), UNCHANGED <<objs, manifests, pods, images, envmk>>
    PROVE  IsOf(k, s)'
<1>1. objs' = objs /\ manifests' = manifests /\ pods' = pods /\ images' = images /\ envmk' = envmk
  OBVIOUS
<1> QED BY <1>1 DEF IsOf, Passed

(* What one kind of Setup has deployed stays while no other kind is at work. *)
LEMMA DeploysOn ==
    ASSUME TypeInv, NEW k \in Place, NEW s \in SetupType, Deploys(k, s), [Next]_vars, ~NewCluster,
           \A d \in Setups : Works(d) => SameKind(setup[d], s),
           \A push \in Pushes : LatePush(push[1], push[2]) => ~(s.source > push[2])
    PROVE  Deploys(k, s)'
<1>c. Carries(k) /\ IsOf(k, s)
  BY DEF Deploys
<1>1. Carries(k)'
  BY <1>c, StepGrows, CarriesOn
<1>2. ASSUME NEW d \in Setups, Works(d) PROVE IsOf(k, s)'
  BY <1>2, WorkStays DEF SameKind
<1>3. ASSUME NEW d \in Setups, Start(d) \/ Complete(d) PROVE IsOf(k, s)'
  <2>1. UNCHANGED <<objs, manifests, pods, images, envmk>>
    BY <1>3 DEF Start, Complete, stack
  <2> QED BY <1>c, <2>1, SameStays
<1>4. ASSUME NEW d \in Setups, Fail(d) PROVE IsOf(k, s)'
  <2>1. UNCHANGED <<manifests, pods, images, envmk>> /\ objs' \in {objs, With(objs, "certs", 1)}
    BY <1>4 DEF Fail
  <2>2. \A x \in OfDevice : Passed(k, "ensure", x) => x \in DOMAIN objs
    BY <1>c, NameTypes DEF Carries
  <2>3. \A x \in OfDevice : Passed(k, "ensure", x) => objs'[x] = s.device
    BY <1>c, <2>1, <2>2, NameTypes DEF With, IsOf
  <2> QED BY <1>c, <2>1, <2>3 DEF IsOf, Passed
<1>5. ASSUME NEW w \in DOMAIN manifests, PodStarts(w) PROVE IsOf(k, s)'
  BY <1>5, PodStays DEF PodStarts
<1>6. ASSUME Login \/ PullRepos \/ UNCHANGED vars PROVE IsOf(k, s)'
  <2>1. UNCHANGED <<objs, manifests, pods, images, envmk>>
    BY <1>6 DEF Login, PullRepos, vars, stack
  <2> QED BY <1>c, <2>1, SameStays
<1>8. ASSUME NEW push \in Pushes, LatePush(push[1], push[2]) PROVE IsOf(k, s)'
  <2>1. /\ push[1] \in Images /\ push[2] \in Numbers
        /\ images \in [Images -> Maybe]
    BY PushTypes DEF TypeInv, TypeOK, Maybe
  <2>2. /\ images' = [images EXCEPT ![push[1]] = push[2]]
        /\ UNCHANGED <<envmk, objs, manifests, pods>>
    BY <1>8, <2>1, LatePushIs
  <2>3. ~(s.source > push[2]) /\ s.source \in Nat /\ push[2] \in Nat
    BY <1>8, <2>1, NumberTypes DEF SetupType, Numbers, None
  <2>4. \A i \in Images : Passed(k, "build", i) => images'[i] >= s.source
    BY <1>c, <2>1, <2>2, <2>3 DEF IsOf
  <2> QED BY <1>c, <2>2, <2>4 DEF IsOf, Passed
<1>7. IsOf(k, s)'
  <2>1. \/ \E d \in Setups : Works(d) \/ Start(d) \/ Complete(d) \/ Fail(d)
        \/ \E w \in DOMAIN manifests : PodStarts(w)
        \/ \E push \in Pushes : LatePush(push[1], push[2])
        \/ Login \/ PullRepos \/ UNCHANGED vars
    BY DEF Next, SetupStep, Works
  <2> QED BY <2>1, <1>2, <1>3, <1>4, <1>5, <1>6, <1>8
<1> QED BY <1>1, <1>7 DEF Deploys

(* And the step that a Setup takes is added. *)
LEMMA WorkDeploys ==
    ASSUME TypeInv, NEW c \in Setups, Works(c), NEW k \in 1..25, NEW s \in SetupType,
           setup[c] = s, s.at = k, Deploys(k, s)
    PROVE  Deploys(k + 1, s)'
<1>c. Carries(k) /\ IsOf(k, s)
  BY DEF Deploys
<1>1. IsOf(k, s)'
  BY WorkStays DEF Place
<1>2. Carries(k + 1)'
  BY <1>c, WorkCarries
<1>s. s.source \in Numbers
  BY WorksOn DEF TypeInv, SetupIsPlaced
<1>3. ASSUME NEW o \in Objects, Ensure(c, o)
      PROVE  Step(c, "ensure", o) /\ (o \in OfDevice => objs'[o] = s.device)
  BY <1>3 DEF Ensure, With, Value
<1>4. ASSUME NEW i \in Images, Build(c, i) PROVE Step(c, "build", i) /\ images'[i] >= s.source
  <2>1. PICK v \in s.source..source : images' = [images EXCEPT ![i] = v]
    BY <1>4 DEF Build
  <2>2. images'[i] = v
    BY <2>1 DEF TypeInv, TypeOK
  <2>3. source \in Nat /\ s.source \in Nat
    BY <1>s DEF TypeInv, TypeOK, Numbers
  <2> QED BY <1>4, <2>2, <2>3 DEF Build
<1>5. ASSUME NEW w \in Configured, WriteEnvMk(c, w)
      PROVE  Step(c, "write", w) /\ envmk'[w] = s.device
  BY <1>5 DEF WriteEnvMk, TypeInv, TypeOK
<1>6. ASSUME NEW w \in Workloads, Apply(c, w)
      PROVE  Step(c, "apply", w) /\ (w \in Configured => manifests'[w] = s.device)
  <2>1. Step(c, "apply", w) /\ Plan[k] = <<"apply", w>>
    BY <1>6, StepPlace DEF Apply
  <2> SUFFICES ASSUME w \in Configured PROVE manifests'[w] = s.device
    BY <2>1
  <2>2. Passed(k, "write", w)
    BY <2>1, ApplyOrder
  <2>3. envmk[w] = s.device
    BY <1>c, <2>2 DEF IsOf
  <2> QED BY <1>6, <2>3, ApplyIs DEF NamedBy
<1>7. ASSUME NEW w \in Workloads, _restart_deployment(c, w)
      PROVE  Step(c, "restart", w) /\ w \notin DOMAIN pods'
  BY <1>7, RollsIs DEF _restart_deployment
<1>8. PICK what, name :
        /\ Step(c, what, name)
        /\ what = "ensure" /\ name \in OfDevice => objs'[name] = s.device
        /\ what = "write" => envmk'[name] = s.device
        /\ what = "apply" /\ name \in Configured => manifests'[name] = s.device
        /\ what = "build" => images'[name] >= s.source
        /\ what = "restart" => name \notin DOMAIN pods'
  BY <1>3, <1>4, <1>5, <1>6, <1>7 DEF Works, CertJob
<1>9. \A x, y : Passed(k + 1, x, y) => Passed(k, x, y) \/ (x = what /\ y = name)
  <2>1. Plan[k] = <<what, name>>
    BY <1>8, StepPlace
  <2> QED BY <2>1, PassedMore
<1>10. IsOf(k + 1, s)'
  <2>1. \A o \in OfDevice : Passed(k + 1, "ensure", o) => objs'[o] = s.device
    BY <1>1, <1>8, <1>9 DEF IsOf, Passed
  <2>2. /\ \A w \in Configured : Passed(k + 1, "write", w) => envmk'[w] = s.device
        /\ \A w \in Configured : Passed(k + 1, "apply", w) => manifests'[w] = s.device
    <3>1. ASSUME NEW w \in Configured, Passed(k + 1, "write", w) PROVE envmk'[w] = s.device
      BY <1>1, <1>8, <1>9, <3>1 DEF IsOf, Passed
    <3>2. ASSUME NEW w \in Configured, Passed(k + 1, "apply", w) PROVE manifests'[w] = s.device
      BY <1>1, <1>8, <1>9, <3>2 DEF IsOf, Passed
    <3> QED BY <3>1, <3>2
  <2>3. \A i \in Images : Passed(k + 1, "build", i) => images'[i] >= s.source
    BY <1>1, <1>8, <1>9 DEF IsOf, Passed
  <2>4. \A w \in DOMAIN ImageOf \cap DOMAIN pods' : Passed(k + 1, "restart", w) => pods'[w].image >= s.source
    BY <1>1, <1>8, <1>9 DEF IsOf, Passed
  <2>5. \A w \in DOMAIN SecretOf \cap DOMAIN pods' : Passed(k + 1, "restart", w) => pods'[w].device = s.device
    BY <1>1, <1>8, <1>9 DEF IsOf, Passed
  <2> QED BY <2>1, <2>2, <2>3, <2>4, <2>5 DEF IsOf, Passed
<1> QED BY <1>2, <1>10 DEF Deploys

(* A Setup that is not mixed, or was complete, has deployed for its kind. *)
LEMMA StepDeploy ==
    ASSUME TypeInv, KindsAreApart, SetupsDeploy, WasDeployed, [Next]_vars
    PROVE  SetupsDeploy' /\ WasDeployed'
<1>t. setup \in [Setups -> SetupType] /\ deployed \in SetupType /\ SetupIsPlaced
  BY DEF TypeInv, TypeOK
<1>w. \A d \in Setups : Works(d) => setup[d] # Idle
  BY WorksOn
<1>p. \A push \in Pushes : push[1] \in Images /\ push[2] \in Numbers
  BY PushTypes
<1>1. ASSUME NEW c \in Setups, NEW s \in SetupType, setup'[c] = s, s # Idle, ~s.mixed
      PROVE  Deploys(s.at, s)'
  <2>1. ~NewCluster
    BY <1>1, NewClusterIs
  <2>2. ASSUME NEW r \in SetupType, setup[c] = r, r.at = s.at, SameKind(s, r), r # Idle, ~r.mixed
        PROVE  Deploys(s.at, s)'
    <3>1. s.at \in Place /\ Deploys(s.at, r)
      BY <1>t, <2>2 DEF SetupIsPlaced, SetupsDeploy
    <3>2. \A d \in Setups : Works(d) => SameKind(setup[d], r)
      BY <1>w, <2>2 DEF KindsAreApart
    <3>6. ASSUME NEW push \in Pushes, LatePush(push[1], push[2]) PROVE ~(r.source > push[2])
      BY <1>1, <1>p, <2>2, <3>6, LatePushIs
    <3>3. PICK k \in Place : k = s.at
      BY <3>1
    <3>4. Deploys(k, r)'
      BY <2>1, <3>1, <3>2, <3>3, <3>6, DeploysOn
    <3>5. Deploys(k, s)'
      BY <2>2, <3>4 DEF SameKind, Deploys, IsOf
    <3> QED BY <3>3, <3>5
  <2>3. CASE setup'[c] = setup[c]
    BY <1>1, <2>2, <2>3 DEF SameKind
  <2>4. CASE Works(c)
    <3>1. PICK r \in SetupType : setup[c] = r
      BY <1>t
    <3>2. /\ r # Idle /\ ~r.mixed /\ r.at \in 1..25 /\ s.at = r.at + 1 /\ SameKind(s, r)
      BY <1>1, <2>4, <3>1, WorksOn DEF SameKind
    <3>3. Deploys(r.at, r)
      BY <3>1, <3>2 DEF SetupsDeploy
    <3>4. PICK k \in 1..25 : k = r.at
      BY <3>2
    <3>5. Deploys(k + 1, r)'
      BY <2>4, <3>1, <3>3, <3>4, WorkDeploys
    <3>6. Deploys(k + 1, s)'
      BY <3>2, <3>5 DEF SameKind, Deploys, IsOf
    <3> QED BY <3>2, <3>4, <3>6
  <2>5. ASSUME NEW d \in Setups, Start(d), setup'[c] # setup[c] PROVE Deploys(s.at, s)'
    <3>1. CASE d = c
      <4>1. s.at = 1
        BY <1>1, <2>5, <3>1, StartIs
      <4>2. Deploys(1, s)'
        BY FirstStep DEF Deploys, Carries, IsOf, Passed
      <4> QED BY <4>1, <4>2
    <3>2. CASE d # c
      <4>1. /\ setup[c] # Idle /\ setup[c].at = s.at /\ SameKind(s, setup[c])
            /\ ~setup[c].mixed
        BY <1>1, <2>5, <3>2, StartIs DEF SameKind
      <4> QED BY <1>t, <2>2, <4>1
    <3> QED BY <3>1, <3>2
  <2>6. \/ setup'[c] = setup[c]
        \/ Works(c)
        \/ \E d \in Setups : Start(d)
    <3>1. \A d \in Setups : Works(d) => d = c \/ setup'[c] = setup[c]
      BY WorksOn
    <3>2. \A d \in Setups : Fail(d) \/ Complete(d) => setup'[c] = setup[c]
      BY <1>t, <1>1 DEF Fail, Complete
    <3>3. ASSUME NEW push \in Pushes, LatePush(push[1], push[2]) PROVE setup'[c] = setup[c]
      BY <1>1, <1>p, <3>3, LatePushIs
    <3> QED
      BY <2>1, <3>1, <3>2, <3>3 DEF Next, SetupStep, Works, PodStarts, Login, PullRepos, vars
  <2> QED BY <2>3, <2>4, <2>5, <2>6
<1>2. ASSUME NEW s \in SetupType, deployed' = s, s # Idle PROVE Deploys(26, s)'
  <2>1. ~NewCluster
    BY <1>2 DEF NewCluster
  <2>2. CASE deployed' = deployed
    <3>1. Deploys(26, s) /\ 26 \in Place
      BY <1>2, <2>2 DEF WasDeployed, Place
    <3>2. \A d \in Setups : Works(d) => SameKind(setup[d], s)
      BY <1>2, <1>w, <2>2 DEF KindsAreApart
    <3>3. ASSUME NEW push \in Pushes, LatePush(push[1], push[2]) PROVE ~(s.source > push[2])
      BY <1>2, <1>p, <2>2, <3>3, LatePushIs
    <3> QED BY <2>1, <3>1, <3>2, <3>3, DeploysOn
  <2>3. ASSUME NEW c \in Setups, Complete(c), ~setup[c].mixed PROVE Deploys(26, s)'
    <3>1. PICK r \in SetupType : setup[c] = r
      BY <1>t
    <3>2. r # Idle /\ r.at = 26
      BY <2>3, <3>1, PlanSteps DEF Complete, Idle
    <3>3. SameKind(s, r)
      BY <1>2, <2>3, <3>1 DEF Complete, SameKind, SetupType
    <3>4. Deploys(26, r)
      BY <2>3, <3>1, <3>2 DEF SetupsDeploy
    <3>5. UNCHANGED <<objs, manifests, pods, images, envmk>>
      BY <2>3 DEF Complete, stack
    <3> QED BY <3>3, <3>4, <3>5 DEF SameKind, Deploys, Carries, IsOf, Passed
  <2>4. deployed' = deployed \/ \E c \in Setups : Complete(c) /\ ~setup[c].mixed
    <3>1. \A c \in Setups : Works(c) \/ Start(c) \/ Fail(c) => deployed' = deployed
      BY <1>2, WorksOn, StartIs DEF Fail
    <3>2. \A c \in Setups : Complete(c) => deployed' = deployed \/ ~setup[c].mixed
      BY DEF Complete
    <3>3. ASSUME NEW push \in Pushes, LatePush(push[1], push[2]) PROVE deployed' = deployed
      BY <1>2, <1>p, <3>3, LatePushIs
    <3> QED
      BY <2>1, <3>1, <3>2, <3>3 DEF Next, SetupStep, Works, PodStarts, Login, PullRepos, vars
  <2> QED BY <2>2, <2>3, <2>4
<1>3. SetupsDeploy'
  BY <1>1 DEF SetupsDeploy
<1>4. WasDeployed'
  BY <1>2 DEF WasDeployed
<1> QED BY <1>3, <1>4

(* The latest pod is of the device that the manifest names. *)
LEMMA StepNamed ==
    ASSUME TypeInv, PodsAreAsNamed, [Next]_vars
    PROVE  PodsAreAsNamed'
<1>1. ASSUME NEW c \in Setups, NEW w, Apply(c, w) PROVE PodsAreAsNamed'
  BY <1>1, ApplyIs DEF PodsAreAsNamed, TypeInv, TypeOK
<1>2. ASSUME NEW c \in Setups, NEW w, _restart_deployment(c, w) PROVE PodsAreAsNamed'
  BY <1>2, RollsIs DEF _restart_deployment, PodsAreAsNamed
<1>3. ASSUME NEW w \in DOMAIN manifests, PodStarts(w) PROVE PodsAreAsNamed'
  <2>1. w \in Configured => Pod(w).device = manifests[w]
    BY NameTypes DEF Pod
  <2> QED BY <1>3, <2>1 DEF PodStarts, With, PodsAreAsNamed
<1>4. CASE UNCHANGED <<manifests, pods>>
  BY <1>4 DEF PodsAreAsNamed
<1>5. CASE NewCluster
  BY <1>5 DEF NewCluster, PodsAreAsNamed
<1>6. \/ \E c \in Setups : \E w \in Workloads : Apply(c, w) \/ _restart_deployment(c, w)
      \/ \E w \in DOMAIN manifests : PodStarts(w)
      \/ UNCHANGED <<manifests, pods>>
      \/ NewCluster
  BY DEF Next, SetupStep, Start, Fail, Ensure, CertJob, Build, WriteEnvMk, Complete,
         LatePush, Login, PullRepos, vars, stack
<1> QED BY <1>1, <1>2, <1>3, <1>4, <1>5, <1>6

(***************************************************************************)
(* The invariant, and what follows from it                                 *)
(***************************************************************************)
(* The first state satisfies the invariant. *)
LEMMA InitInv == Init => Inv
<1> SUFFICES ASSUME Init PROVE Inv
  OBVIOUS
<1>1. Idle \in SetupType
  BY PlanSteps DEF Idle, SetupType
<1>2. \A c \in Setups : setup[c] = Idle /\ setup[c].at = 0
  BY DEF Init, Idle
<1>3. DOMAIN objs = {} /\ DOMAIN manifests = {} /\ DOMAIN pods = {}
  BY DEF Init
<1>4. TypeInv
  BY <1>1, <1>2, <1>3, NumberTypes DEF Init, TypeInv, TypeOK, SetupIsPlaced
<1>5. SetupsCarry
  BY <1>2 DEF SetupsCarry, Place
<1>6. NeedsComeFirst
  BY <1>3 DEF NeedsComeFirst
<1>7. KindsAreApart /\ SetupsDeploy
  BY <1>2 DEF KindsAreApart, SetupsDeploy
<1>8. WasDeployed
  BY DEF Init, WasDeployed
<1>9. PodsAreAsNamed
  BY <1>3 DEF PodsAreAsNamed
<1> QED BY <1>4, <1>5, <1>6, <1>7, <1>8, <1>9 DEF Inv

(* Every reachable state satisfies it. *)
THEOREM Invariant == Spec => []Inv
<1>1. Inv /\ [Next]_vars => Inv'
  BY StepType, StepCarry, StepNeeds, StepKinds, StepNamed, StepDeploy DEF Inv
<1> QED BY InitInv, <1>1, PTL DEF Spec

(* Every variable keeps its type; the Secrets of the device are never empty. *)
THEOREM TypeCorrect == Spec => []TypeOK
<1>1. Inv => TypeOK
  BY DEF Inv, TypeInv
<1> QED BY Invariant, <1>1, PTL

(* No workload is applied before what its containers need, however many Setups overlap or *)
(* were given up, as long as none outlives its cluster.                                   *)
THEOREM NeedsAreMet == Spec => []NeedsComeFirst
<1>1. Inv => NeedsComeFirst
  BY DEF Inv
<1> QED BY Invariant, <1>1, PTL

(* After a complete Setup all workloads are there, and every pod of their latest rollout, *)
(* whenever Kubernetes starts it, knows its device.                                       *)
THEOREM OneDevice == Spec => []StackIsOneDevice
<1>1. Inv => StackIsOneDevice
  <2> SUFFICES ASSUME Inv, IsDeployed
               PROVE  /\ DOMAIN manifests = Workloads
                      /\ \A w \in DOMAIN pods \cap (Configured \cup DOMAIN SecretOf) :
                            pods[w].device = deployed.device
    BY DEF StackIsOneDevice
  <2>1. Carries(26) /\ IsOf(26, deployed) /\ DOMAIN manifests \subseteq Workloads /\ PodsAreAsNamed
    BY DEF Inv, TypeInv, TypeOK, WasDeployed, IsDeployed, Deploys
  <2>2. \A w \in DOMAIN pods \cap Configured : pods[w].device = deployed.device
    BY <2>1, PlanIsComplete, NameTypes DEF IsOf, PodsAreAsNamed
  <2>3. \A w \in DOMAIN pods \cap DOMAIN SecretOf : pods[w].device = deployed.device
    BY <2>1, PlanIsComplete, NameTypes DEF IsOf
  <2> QED BY <2>1, <2>2, <2>3, PlanIsComplete DEF Carries
<1> QED BY Invariant, <1>1, PTL

(* And none of these pods is on an image older than the repositories were when the Setup  *)
(* started, unless an older build that was given up has pushed since.                     *)
THEOREM CurrentImages == Spec => []ImagesAreCurrent
<1>1. Inv => ImagesAreCurrent
  <2> SUFFICES ASSUME Inv, IsDeployed, NEW w \in DOMAIN pods \cap DOMAIN ImageOf
               PROVE  pods[w].image >= deployed.source
    BY DEF ImagesAreCurrent
  <2>1. IsOf(26, deployed)
    BY DEF Inv, TypeInv, TypeOK, WasDeployed, IsDeployed, Deploys
  <2> QED BY <2>1, PlanIsComplete, NameTypes DEF IsOf
<1> QED BY Invariant, <1>1, PTL
=============================================================================
