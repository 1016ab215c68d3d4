-------------------------- MODULE PodMonitor_proofs --------------------------
(***************************************************************************)
(* Proof that PodMonitor implements CrashWatch, for any workloads, pods,   *)
(* calls and bounds: whatever lists daemon and page go by, only monitored  *)
(* pods that have crashed are restarted.                                   *)
(***************************************************************************)
EXTENDS PodMonitor, TLAPS

\* The names that someone is going to delete.
Held == daemon.todo \cup {call[c].pod : c \in Calls}

\* Whoever holds a name that a pod bears holds that of a monitored pod which has
\* crashed at some time: a name does not pass to the next pod.
HeldHaveCrashed ==
    \A p \in Held : p \in Names => /\ is_monitored_pod(p)
                                   /\ p \in DOMAIN pods
                                   /\ pods[p] # "fresh"

Inv == TypeOK /\ HeldHaveCrashed

USE MonitorAssumption

(***************************************************************************)
(* Names                                                                   *)
(***************************************************************************)
(* A name that nobody bears is none of the names that pods have. *)
LEMMA GoneIsNoName ==
    ASSUME NEW w \in Workloads
    PROVE  Gone(w) \in NamesOrGone /\ Gone(w) \notin Names
  BY DEF Gone, NamesOrGone, Names

(* NoPod, which stands for no pod at all, is none of them either. *)
LEMMA NoPodIsNoName == NoPod \notin Names
  BY DEF NoPod, Names

(* Names of pods are names; CrashWatch has the same ones. *)
LEMMA NamesAreNames ==
    /\ Names \subseteq NamesOrGone
    /\ Cluster!Names = Names
    /\ \A p \in NamesOrGone : p[1] \in Workloads
  BY DEF Names, NamesOrGone, Cluster!Names, Workloads

(***************************************************************************)
(* What the steps do to pods                                               *)
(***************************************************************************)
\* Pods stay, and none of them becomes a fresh one.
PodsAge ==
    /\ DOMAIN pods \subseteq DOMAIN pods'
    /\ \A p \in DOMAIN pods : pods[p] # "fresh" => pods'[p] # "fresh"

(* A deletion changes one pod's state, to one that is leaving. *)
LEMMA DeleteAges ==
    ASSUME TypeOK, NEW p \in DOMAIN pods, Cluster!Delete(p), UNCHANGED replaced
    PROVE  Cluster!TypeOK' /\ PodsAge
  BY DEF TypeOK, PodsAge, Cluster!TypeOK, Cluster!Delete, Cluster!Become,
         Cluster!PodStates, Cluster!Living, Cluster!Leaving, Cluster!Listed

(* A new pod takes a name that nobody bears. *)
LEMMA CreateAges ==
    ASSUME TypeOK, NEW w \in Deployments, Cluster!Create(w)
    PROVE  Cluster!TypeOK' /\ PodsAge
<1>1. PICK k \in 1..MaxPods :
        /\ <<w, k>> \notin DOMAIN pods
        /\ pods' = [q \in DOMAIN pods \cup {<<w, k>>} |->
                      IF q = <<w, k>> THEN "fresh" ELSE pods[q]]
  BY DEF Cluster!Create
<1>2. <<w, k>> \in Cluster!Names
  BY DEF Cluster!Names
<1>3. DOMAIN pods' = DOMAIN pods \cup {<<w, k>>}
  BY <1>1
<1>4. \A q \in DOMAIN pods : pods'[q] = pods[q]
  BY <1>1
<1>5. pods'[<<w, k>>] = "fresh"
  BY <1>1
<1>6. pods' \in [DOMAIN pods' -> Cluster!PodStates]
  BY <1>1, <1>3 DEF TypeOK, Cluster!TypeOK, Cluster!PodStates, Cluster!Living
<1> QED
  BY <1>2, <1>3, <1>4, <1>6 DEF TypeOK, PodsAge, Cluster!TypeOK, Cluster!Create

(* So do a crash, a recovery and a rollout. *)
LEMMA KubernetesAges ==
    ASSUME TypeOK, NEW p \in DOMAIN pods,
           Cluster!Crash(p) \/ Cluster!Recover(p) \/ Cluster!Replace(p)
    PROVE  Cluster!TypeOK' /\ PodsAge
  BY DEF TypeOK, PodsAge, Cluster!TypeOK, Cluster!Crash, Cluster!Recover, Cluster!Replace,
         Cluster!Delete, Cluster!Become,
         Cluster!PodStates, Cluster!Living, Cluster!Leaving, Cluster!Listed

(* Names stay those of crashed pods while pods age and nobody gets a new one. *)
LEMMA HeldAge ==
    ASSUME HeldHaveCrashed, PodsAge, Held' \cap Names \subseteq Held
    PROVE  HeldHaveCrashed'
  BY DEF HeldHaveCrashed, PodsAge, is_monitored_pod, Names, Workloads

(***************************************************************************)
(* The invariant                                                           *)
(***************************************************************************)
(* At first nobody holds a name, and the Jobs' pods have failed. *)
LEMMA InitInv == Init => Inv
<1> SUFFICES ASSUME Init PROVE Inv
  OBVIOUS
<1>1. Cluster!TypeOK
  BY DEF Init, Cluster!Init, Cluster!TypeOK, Cluster!Names, Cluster!PodStates, Cluster!Living
<1>2. TypeOK
  BY <1>1 DEF Init, TypeOK, DaemonIdle, CallIdle, Cluster!Init
<1>3. Held \subseteq {NoPod}
  BY DEF Init, Held, DaemonIdle, CallIdle
<1> QED
  BY <1>2, <1>3, NoPodIsNoName DEF Inv, HeldHaveCrashed

(* The rest of the state keeps its type when a deleted pod's name is struck out. *)
LEMMA VanishInv ==
    ASSUME Inv, NEW p \in DOMAIN pods, Vanish(p)
    PROVE  Inv'
<1> DEFINE Name(q) == IF q = p THEN Gone(p[1]) ELSE q
<1>1. p \in Names /\ p[1] \in Workloads /\ DOMAIN pods \subseteq Names
  BY NamesAreNames DEF Inv, TypeOK, Cluster!TypeOK
<1>2. \A q \in NamesOrGone \cup {NoPod} : Name(q) \in NamesOrGone \cup {NoPod}
  BY <1>1, GoneIsNoName
<1>3. \A q \in NamesOrGone : Name(q) \in NamesOrGone
  BY <1>1, GoneIsNoName
<1>4. \A q : Name(q) \in Names => Name(q) = q /\ q # p
  BY <1>1, GoneIsNoName
<1>5. /\ daemon' = [daemon EXCEPT !.todo = {Name(q) : q \in daemon.todo}, !.pod = Name(daemon.pod)]
      /\ call' = [c \in Calls |-> [call[c] EXCEPT !.pod = Name(call[c].pod)]]
      /\ pods' = [q \in DOMAIN pods \ {p} |-> pods[q]]
      /\ UNCHANGED <<trouble, replaced>>
  BY DEF Vanish, Cluster!Vanish
<1>6. Cluster!TypeOK'
  BY <1>5 DEF Inv, TypeOK, Cluster!TypeOK
<1>7. daemon' \in [step: {"waiting", "loop", "delete", "dead"}, todo: SUBSET NamesOrGone,
                   pod: NamesOrGone \cup {NoPod}]
  <2>1. {Name(q) : q \in daemon.todo} \in SUBSET NamesOrGone
    BY <1>3 DEF Inv, TypeOK
  <2>2. Name(daemon.pod) \in NamesOrGone \cup {NoPod}
    BY <1>2 DEF Inv, TypeOK
  <2> HIDE DEF Name
  <2> QED BY <1>5, <2>1, <2>2 DEF Inv, TypeOK
<1>8. call' \in [Calls -> [step: {"idle", "delete", "wait"}, pod: NamesOrGone \cup {NoPod}]]
  <2>1. \A c \in Calls : Name(call[c].pod) \in NamesOrGone \cup {NoPod}
    BY <1>2 DEF Inv, TypeOK
  <2> HIDE DEF Name
  <2> QED BY <1>5, <2>1 DEF Inv, TypeOK
<1>9. TypeOK'
  BY <1>5, <1>6, <1>7, <1>8 DEF Inv, TypeOK
<1>10. HeldHaveCrashed'
  <2> SUFFICES ASSUME NEW q \in Held', q \in Names
               PROVE  q \in Held /\ q # p
    BY <1>5 DEF Inv, HeldHaveCrashed, is_monitored_pod, Names, Workloads
  <2>1. CASE q \in daemon'.todo
    <3>1. daemon'.todo = {Name(r) : r \in daemon.todo}
      BY <1>5 DEF Inv, TypeOK
    <3>2. PICK r \in daemon.todo : q = Name(r)
      BY <2>1, <3>1
    <3> QED BY <1>4, <3>2 DEF Held
  <2>2. CASE \E c \in Calls : q = call'[c].pod
    <3>1. PICK c \in Calls : q = call'[c].pod
      BY <2>2
    <3>2. call'[c].pod = Name(call[c].pod)
      BY <1>5 DEF Inv, TypeOK
    <3> QED BY <1>4, <3>1, <3>2 DEF Held
  <2> QED BY <2>1, <2>2 DEF Held
<1> QED BY <1>9, <1>10 DEF Inv

(* Every step keeps the invariant: whoever takes up a name takes a crashed pod's,
   and nobody's deletion or pod touches the names that others hold. *)
LEMMA StepInv == Inv /\ [Next]_vars => Inv'
<1> SUFFICES ASSUME Inv, [Next]_vars PROVE Inv'
  OBVIOUS
<1>t. TypeOK /\ HeldHaveCrashed
  BY DEF Inv
<1>n. DOMAIN pods \subseteq Names
  BY NamesAreNames DEF Inv, TypeOK, Cluster!TypeOK
<1>1. CASE RoundStarts
  <2>1. Crashing \subseteq DOMAIN pods /\ \A p \in Crashing : is_monitored_pod(p) /\ pods[p] # "fresh"
    BY DEF Crashing, Cluster!Listed
  <2>2. TypeOK'
    BY <1>1, <1>t, <1>n, <2>1, NamesAreNames DEF RoundStarts, TypeOK, Cluster!TypeOK
  <2>3. Held' \subseteq Held \cup Crashing
    BY <1>1, <1>t DEF RoundStarts, Held, TypeOK
  <2> QED
    BY <1>1, <1>t, <2>1, <2>2, <2>3 DEF RoundStarts, Inv, HeldHaveCrashed, is_monitored_pod
<1>2. CASE DaemonGoesOn
  <2>1. TypeOK'
    BY <1>2, <1>t DEF DaemonGoesOn, TypeOK, Cluster!TypeOK, DaemonIdle
  <2>2. Held' \subseteq Held
    BY <1>2, <1>t DEF DaemonGoesOn, Held, TypeOK, DaemonIdle
  <2>3. PodsAge
    BY <1>2 DEF DaemonGoesOn, PodsAge
  <2> QED BY <1>t, <2>1, <2>2, <2>3, HeldAge DEF Inv
<1>3. CASE RoundFails
  <2>1. TypeOK'
    BY <1>3, <1>t DEF RoundFails, TypeOK, Cluster!TypeOK, DaemonIdle
  <2>2. Held' \subseteq Held
    BY <1>3, <1>t DEF RoundFails, Held, TypeOK, DaemonIdle
  <2>3. PodsAge
    BY <1>3 DEF RoundFails, PodsAge
  <2> QED BY <1>t, <2>1, <2>2, <2>3, HeldAge DEF Inv
<1>12. CASE DaemonDies \/ DaemonRelaunch
  <2>1. TypeOK'
    BY <1>12, <1>t DEF DaemonDies, DaemonRelaunch, TypeOK, Cluster!TypeOK, DaemonIdle
  <2>2. Held' \subseteq Held
    BY <1>12, <1>t DEF DaemonDies, DaemonRelaunch, Held, TypeOK, DaemonIdle
  <2>3. PodsAge
    BY <1>12 DEF DaemonDies, DaemonRelaunch, PodsAge
  <2> QED BY <1>t, <2>1, <2>2, <2>3, HeldAge DEF Inv
<1>4. ASSUME NEW p \in Names, DaemonDeletes(p) PROVE Inv'
  <2>1. p \in DOMAIN pods /\ Cluster!Delete(p) /\ UNCHANGED <<call, trouble, replaced>>
    BY <1>4 DEF DaemonDeletes
  <2>2. Cluster!TypeOK' /\ PodsAge
    BY <1>t, <2>1, DeleteAges
  <2>3. TypeOK'
    BY <1>4, <1>t, <2>1, <2>2, NamesAreNames DEF DaemonDeletes, TypeOK
  <2>4. Held' \subseteq Held
    BY <1>4, <1>t, <2>1 DEF DaemonDeletes, Held, TypeOK
  <2> QED BY <1>t, <2>2, <2>3, <2>4, HeldAge DEF Inv
<1>5. ASSUME NEW c \in Calls, NEW p \in NamesOrGone, ClickRestart(c, p) PROVE Inv'
  <2>1. TypeOK'
    BY <1>5, <1>t DEF ClickRestart, TypeOK, Cluster!TypeOK
  <2>2. Held' \subseteq Held \cup {p}
    BY <1>5, <1>t DEF ClickRestart, Held, TypeOK
  <2>3. p \in Names => is_monitored_pod(p) /\ p \in DOMAIN pods /\ pods[p] # "fresh"
    BY <1>5 DEF ClickRestart
  <2>4. UNCHANGED pods
    BY <1>5 DEF ClickRestart
  <2> QED BY <1>t, <2>1, <2>2, <2>3, <2>4 DEF Inv, HeldHaveCrashed, is_monitored_pod
<1>6. ASSUME NEW c \in Calls, CallDeletes(c) PROVE Inv'
  <2>1. /\ call[c].pod \in DOMAIN pods /\ Cluster!Delete(call[c].pod)
        /\ UNCHANGED <<daemon, trouble, replaced>>
    BY <1>6 DEF CallDeletes
  <2>2. Cluster!TypeOK' /\ PodsAge
    BY <1>t, <2>1, DeleteAges
  <2>3. TypeOK'
    BY <1>6, <1>t, <2>1, <2>2 DEF CallDeletes, TypeOK
  <2>4. Held' \subseteq Held
    BY <1>6, <1>t, <2>1 DEF CallDeletes, Held, TypeOK
  <2> QED BY <1>t, <2>2, <2>3, <2>4, HeldAge DEF Inv
<1>7. ASSUME NEW c \in Calls, CallReturns(c) PROVE Inv'
  <2>1. TypeOK'
    BY <1>7, <1>t DEF CallReturns, TypeOK, Cluster!TypeOK, CallIdle
  <2>2. Held' \subseteq Held \cup {NoPod}
    BY <1>7, <1>t DEF CallReturns, Held, TypeOK, CallIdle
  <2>3. PodsAge
    BY <1>7 DEF CallReturns, PodsAge
  <2> QED BY <1>t, <2>1, <2>2, <2>3, NoPodIsNoName, HeldAge DEF Inv
<1>8. CASE Churn
  <2>1. Cluster!TypeOK' /\ PodsAge /\ UNCHANGED <<daemon, call, trouble, replaced>>
    <3>1. CASE \E w \in Deployments : Cluster!Create(w)
      BY <1>8, <1>t, <3>1, CreateAges DEF Churn, Cluster!Create
    <3>2. CASE \E p \in DOMAIN pods : Cluster!Crash(p) \/ Cluster!Recover(p)
      BY <1>8, <1>t, <3>2, KubernetesAges DEF Churn, Cluster!Crash, Cluster!Recover
    <3> QED BY <1>8, <3>1, <3>2 DEF Churn
  <2>2. TypeOK' /\ Held' = Held
    BY <1>t, <2>1 DEF TypeOK, Held
  <2> QED BY <1>t, <2>1, <2>2, HeldAge DEF Inv
<1>9. ASSUME NEW p \in DOMAIN pods, Vanish(p) PROVE Inv'
  BY <1>9, VanishInv
<1>10. ASSUME NEW p \in DOMAIN pods, Replace(p) PROVE Inv'
  <2>1. Cluster!Replace(p) /\ UNCHANGED <<daemon, call, trouble>> /\ trouble + replaced < MaxTrouble
    BY <1>10 DEF Replace
  <2>2. Cluster!TypeOK' /\ PodsAge
    BY <1>t, <2>1, KubernetesAges
  <2>3. TypeOK' /\ Held' = Held
    BY <1>t, <2>1, <2>2 DEF TypeOK, Held, Cluster!Replace
  <2> QED BY <1>t, <2>2, <2>3, HeldAge DEF Inv
<1>11. CASE UNCHANGED vars
  BY <1>11 DEF vars, Inv, TypeOK, HeldHaveCrashed, Held, Cluster!TypeOK, is_monitored_pod
<1> QED
  BY <1>1, <1>2, <1>3, <1>4, <1>5, <1>6, <1>7, <1>8, <1>9, <1>10, <1>11, <1>12
     DEF Next, Round, Serve

(* Locals, calls and pods keep their types. *)
THEOREM TypeCorrect == Spec => []TypeOK
<1>1. Inv => TypeOK
  BY DEF Inv
<1> QED BY InitInv, StepInv, <1>1, PTL DEF Spec

(***************************************************************************)
(* The refinement                                                          *)
(***************************************************************************)
(* A deletion through a held name is CrashWatch's Restart, or changes nothing. *)
LEMMA DeletionIsRestart ==
    ASSUME Inv, NEW p \in Held, p \in DOMAIN pods, Cluster!Delete(p), UNCHANGED replaced
    PROVE  [Cluster!Next]_<<pods, replaced>>
<1>1. p \in Names /\ is_monitored_pod(p) /\ pods[p] # "fresh"
  BY NamesAreNames DEF Inv, TypeOK, Cluster!TypeOK, HeldHaveCrashed
<1>2. CASE pods[p] \in Cluster!Suspected
  <2>1. Cluster!Restart(p)
    BY <1>1, <1>2 DEF Cluster!Restart, is_monitored_pod
  <2> QED BY <2>1 DEF Cluster!Next
<1>3. CASE pods[p] = "leaving"
  BY <1>3 DEF Inv, TypeOK, Cluster!TypeOK, Cluster!Delete, Cluster!Become, Cluster!Listed
<1> QED
  BY <1>1, <1>2, <1>3 DEF Inv, TypeOK, Cluster!TypeOK, Cluster!Suspected, Cluster!Listed,
                          Cluster!PodStates, Cluster!Living, Cluster!Leaving

(* Every step of daemon, page and Kubernetes is one of CrashWatch's, or changes no pod. *)
LEMMA StepRefines == Inv /\ [Next]_vars => [Cluster!Next]_<<pods, replaced>>
<1> SUFFICES ASSUME Inv, [Next]_vars PROVE [Cluster!Next]_<<pods, replaced>>
  OBVIOUS
<1>1. CASE RoundStarts \/ DaemonGoesOn \/ RoundFails \/ DaemonDies \/ DaemonRelaunch
  BY <1>1 DEF RoundStarts, DaemonGoesOn, RoundFails, DaemonDies, DaemonRelaunch
<1>2. ASSUME NEW p \in Names, DaemonDeletes(p) PROVE [Cluster!Next]_<<pods, replaced>>
  BY <1>2, DeletionIsRestart DEF DaemonDeletes, IsNext, Held
<1>3. ASSUME NEW c \in Calls, CallDeletes(c) PROVE [Cluster!Next]_<<pods, replaced>>
  BY <1>3, DeletionIsRestart DEF CallDeletes, Held
<1>4. ASSUME NEW c \in Calls, CallReturns(c) \/ \E p \in NamesOrGone : ClickRestart(c, p)
      PROVE  [Cluster!Next]_<<pods, replaced>>
  BY <1>4 DEF CallReturns, ClickRestart
<1>5. CASE Churn
  BY <1>5 DEF Churn, Cluster!Next
<1>6. ASSUME NEW p \in DOMAIN pods, Vanish(p) PROVE [Cluster!Next]_<<pods, replaced>>
  BY <1>6 DEF Vanish, Cluster!Next
<1>7. ASSUME NEW p \in DOMAIN pods, Replace(p) PROVE [Cluster!Next]_<<pods, replaced>>
  BY <1>7 DEF Replace, Cluster!Next
<1>8. CASE UNCHANGED vars
  BY <1>8 DEF vars
<1> QED
  BY <1>1, <1>2, <1>3, <1>4, <1>5, <1>6, <1>7, <1>8 DEF Next, Round, Serve

(* restart_pod deletes by name, daemon and buttons out of old lists: still only
   monitored pods that have crashed are restarted. *)
THEOREM Refinement == Spec => OnlyCrashedPodsRestart
<1>1. Init => Cluster!Init
  BY DEF Init
<1> QED BY <1>1, InitInv, StepInv, StepRefines, PTL DEF Spec, OnlyCrashedPodsRestart, Cluster!Spec
=============================================================================
