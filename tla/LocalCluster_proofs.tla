-------------------------- MODULE LocalCluster_proofs --------------------------
(***************************************************************************)
(* Proofs about LocalCluster, for any calls, allocations and number of     *)
(* VMs: whatever commands fail and whatever calls overlap, the kubeconfig  *)
(* names the VM that exists, a Setup alone leaves gVisor loaded, and the   *)
(* VM has the size that is shown.                                          *)
(***************************************************************************)
EXTENDS LocalCluster, TLAPS

USE ClusterAssumption

(***************************************************************************)
(* The parts of the invariant                                              *)
(***************************************************************************)
\* A call that may still launch the VM knows its size.
WantIsGiven == \A c \in Calls : call[c].step \in {"exists", "launch"} => call[c].want \in Allocs

Others(c) == Calls \ {c}
Only(c) == \A d \in Others(c) : call[d].step = "idle"

\* No other call runs beside one that is alone, nor beside a tidy deletion.
AloneIsAlone == \A c \in Calls : call[c].alone => Only(c)
DeletesAlone == \A c \in Calls : tidy /\ call[c].step \in TeardownSteps => Only(c)

\* What the kubeconfig holds between Setups, in them, and as a deletion cleans it up.
EntriesHoldNow ==
    /\ (\A c \in Calls : call[c].step \notin Cleaning) =>
         kube = NoEntry \/ (Exists /\ kube = EntryOf(vm.gen))
    /\ \A c \in Calls :
         /\ call[c].step = "view" => Exists /\ call[c].at = vm.gen
         /\ call[c].step = "write" => Exists /\ call[c].seen = EntryOf(vm.gen)
         /\ call[c].step \in {"cluster", "user"} => kube["context"] = Absent
         /\ call[c].step = "user" => kube["cluster"] = Absent

EntriesHold == tidy => EntriesHoldNow

\* How far a Setup without company has come with the VM.
ScriptIsDone(c) ==
    /\ call[c].step \in {"binaries", "runsc", "sentry", "template", "restart",
                         "fetch", "view", "write", "deploy"} =>
         vm.k3s /\ (vm.tmpl => vm.loaded \/ call[c].step = "restart")
    /\ call[c].step = "sentry" => "runsc" \in vm.bins
    /\ call[c].step \in {"template", "restart", "fetch", "view", "write", "deploy"} =>
         vm.bins = Bins
    /\ call[c].step \in {"restart", "fetch", "view", "write", "deploy"} => vm.tmpl

ScriptHolds == \A c \in Calls : call[c].alone /\ Exists => ScriptIsDone(c)

\* The allocation is the one the next VM is to be launched with.
SizeIsWanted ==
    ~misled => \A c \in Calls : call[c].step \in {"exists", "launch"} => call[c].want = alloc

\* The types, with a name for each set that the steps choose from.
MaybeGens == 0..MaxVMs
Entries   == [Parts -> MaybeGens]
VMBins    == SUBSET Bins
CallSteps == SetupSteps \cup TeardownSteps \cup {"idle", "status"}
Wants     == Allocs \cup {NoVM}
VMType    == [gen: Gens, size: Allocs, on: BOOLEAN, k3s: BOOLEAN, bins: VMBins, tmpl: BOOLEAN,
              loaded: BOOLEAN]
CallType  == [step: CallSteps, want: Wants, at: MaybeGens, seen: Entries, here: BOOLEAN, alone: BOOLEAN]
PageType  == [label: {"Setup", "Teardown"}, busy: BOOLEAN]

Typed ==
    /\ vm \in VMType \cup {NoVM}
    /\ launched \in MaybeGens
    /\ kube \in Entries
    /\ alloc \in Allocs
    /\ page \in PageType
    /\ call \in [Calls -> CallType]
    /\ health \in {"waiting", "asking", "starting", "dead"}
    /\ tidy \in BOOLEAN /\ misled \in BOOLEAN

TypeInv == Typed /\ WantIsGiven

Inv == /\ TypeInv
       /\ AloneIsAlone
       /\ DeletesAlone
       /\ EntriesHold
       /\ ScriptHolds
       /\ SizeIsWanted
       /\ SizeIsAllocation

(***************************************************************************)
(* Types                                                                   *)
(***************************************************************************)
(* TypeOK says the same. *)
LEMMA TypedIsTypeOK == Typed <=> TypeOK
  BY DEF Typed, TypeOK, CallType, CallSteps, Wants, Entries, MaybeGens, VMType, VMs, VMBins, PageType

(* A VM is not the absence of one. *)
LEMMA NoVMType == NoVM \notin VMType
  BY DEF VMs, VMType, VMBins

(* Entries and generations are of their types. *)
LEMMA EntryTypes ==
    /\ Absent \in MaybeGens /\ Gens \subseteq MaybeGens
    /\ NoEntry \in Entries
    /\ \A gen \in MaybeGens : EntryOf(gen) \in Entries
  BY DEF NoEntry, EntryOf, Absent, Entries, MaybeGens, Gens

(* A call that does not run is a call. *)
LEMMA NoCallType == NoCall \in CallType
  BY EntryTypes DEF NoCall, CallType, CallSteps, Wants

(* The calls keep their types and their wants when one of them goes on. *)
LEMMA GotoType ==
    ASSUME TypeInv, NEW c \in Calls, NEW step \in SetupSteps \cup TeardownSteps,
           Goto(c, step), step # "exists", step = "launch" => call[c].step = "exists"
    PROVE  call' \in [Calls -> CallType] /\ WantIsGiven'
  BY DEF TypeInv, Typed, WantIsGiven, Goto, CallType, CallSteps

(* So do they when one of them ends. *)
LEMMA FinishType ==
    ASSUME TypeInv, NEW c \in Calls, Finish(c)
    PROVE  call' \in [Calls -> CallType] /\ WantIsGiven'
  BY NoCallType DEF TypeInv, Typed, WantIsGiven, Finish, CallType, CallSteps

(* So do they when one of them starts. *)
LEMMA StartType ==
    ASSUME TypeInv, NEW c \in Calls, NEW step \in {"exists", "delete"}, NEW want \in Allocs \cup {NoVM},
           step = "exists" => want \in Allocs, Start(c, step, want)
    PROVE  call' \in [Calls -> CallType] /\ WantIsGiven'
<1> DEFINE alone == Running = {}
           new == [step |-> step, want |-> want, at |-> Absent, seen |-> NoEntry,
                   here |-> TRUE, alone |-> alone]
           old(d) == [call[d] EXCEPT !.alone = FALSE]
<1>1. call' = [d \in Calls |-> IF d = c THEN new ELSE old(d)]
  BY DEF Start
<1>2. alone \in BOOLEAN
  OBVIOUS
<1>3. new \in CallType /\ new.step = step /\ new.want = want
  <2> HIDE DEF alone
  <2> QED BY <1>2, EntryTypes DEF CallType, CallSteps, Wants, SetupSteps, TeardownSteps, Absent
<1>4. ASSUME NEW d \in Calls
      PROVE  /\ old(d) \in CallType
             /\ old(d).step = call[d].step /\ old(d).want = call[d].want
  <2>1. call[d] \in CallType
    BY DEF CallType, TypeInv, Typed
  <2> QED BY <2>1 DEF CallType
<1> HIDE DEF new, old
<1>5. \A d \in Calls : call'[d] = IF d = c THEN new ELSE old(d)
  BY <1>1
<1>6. call' \in [Calls -> CallType]
  BY <1>1, <1>3, <1>4
<1> QED BY <1>3, <1>4, <1>5, <1>6 DEF TypeInv, WantIsGiven

(* So do they when one of them goes on to the next entry, or ends. *)
LEMMA NextEntryType ==
    ASSUME TypeInv, NEW c \in Calls, call[c].step \in Cleaning, NextEntry(c)
    PROVE  call' \in [Calls -> CallType] /\ WantIsGiven'
<1>1. Goto(c, "cluster") \/ Goto(c, "user") \/ Finish(c)
  BY DEF NextEntry, Cleaning
<1> QED BY <1>1, GotoType, FinishType DEF TeardownSteps

(* Every step keeps the types, and a launched VM has a size. *)
LEMMA StepType == TypeInv /\ [Next]_vars => TypeInv'
<1> SUFFICES ASSUME TypeInv, [Next]_vars PROVE TypeInv'
  OBVIOUS
<1>t. Typed /\ WantIsGiven /\ call \in [Calls -> CallType]
  BY DEF TypeInv, Typed
<1>1. CASE LoadPage
  <2>1. call' \in [Calls -> CallType] /\ WantIsGiven'
    BY <1>1, <1>t DEF LoadPage, CallType, WantIsGiven
  <2> QED BY <1>1, <1>t, <2>1 DEF LoadPage, TypeInv, Typed, FreshPage, PageType, history
<1>2. CASE LoadClusterStatus
  BY <1>2 DEF LoadClusterStatus, TypeInv, Typed, WantIsGiven, Label, PageType, history
<1>3. ASSUME NEW c \in Calls, ClickSetup(c) PROVE TypeInv'
  <2>1. PICK a \in Allocs : Reallocates(a) /\ Start(c, "exists", a)
    BY <1>3 DEF ClickSetup
  <2>2. call' \in [Calls -> CallType] /\ WantIsGiven'
    BY <2>1, StartType
  <2>3. tidy' \in BOOLEAN
    BY <1>3 DEF ClickSetup
  <2>4. alloc' \in Allocs /\ misled' \in BOOLEAN
    BY <2>1 DEF Reallocates
  <2> QED BY <1>3, <1>t, <2>1, <2>2, <2>3, <2>4 DEF ClickSetup, TypeInv, Typed, PageType
<1>4. ASSUME NEW c \in Calls, ClickTeardown(c) PROVE TypeInv'
  <2>1. call' \in [Calls -> CallType] /\ WantIsGiven'
    BY <1>4, StartType DEF ClickTeardown
  <2>2. tidy' \in BOOLEAN
    BY <1>4 DEF ClickTeardown
  <2> QED BY <1>4, <1>t, <2>1, <2>2 DEF ClickTeardown, TypeInv, Typed, PageType
<1>5. ASSUME NEW c \in Calls, Answer(c) PROVE TypeInv'
  <2>1. call' \in [Calls -> CallType] /\ WantIsGiven'
    BY <1>5, <1>t, NoCallType DEF Answer, WantIsGiven, NoCall, CallType
  <2> QED BY <1>5, <1>t, <2>1 DEF Answer, TypeInv, Typed, Label, PageType, history
<1>6. ASSUME NEW c \in Calls, SetupFails(c) \/ Deploy(c) PROVE TypeInv'
  BY <1>6, <1>t, FinishType DEF SetupFails, Deploy, TypeInv, Typed, history
<1>7. ASSUME NEW c \in Calls, CheckExists(c) PROVE TypeInv'
  BY <1>7, <1>t, GotoType DEF CheckExists, TypeInv, Typed, history, SetupSteps, CallSteps, Wants
<1>8. ASSUME NEW c \in Calls, Launch(c) PROVE TypeInv'
  <2>1. call' \in [Calls -> CallType] /\ WantIsGiven'
    <3>1. call' \in [Calls -> CallType]
      BY <1>8, <1>t DEF Launch, CallType, SetupSteps, CallSteps, Wants
    <3>2. \A d \in Calls : call'[d].step \in {"exists", "launch"} => d # c /\ call'[d] = call[d]
      BY <1>8, <1>t DEF Launch, CallType, CallSteps, Wants
    <3> QED BY <3>1, <3>2, <1>t DEF WantIsGiven
  <2>2. vm' \in VMType \cup {NoVM} /\ launched' \in MaybeGens
    <3>1. CASE Exists
      BY <1>8, <1>t, <3>1 DEF Launch, Typed
    <3>2. CASE ~Exists
      <4>1. launched + 1 \in Gens /\ launched + 1 \in MaybeGens
        BY <1>8, <1>t, <3>2 DEF Launch, Typed, Gens, MaybeGens
      <4>2. call[c].want \in Allocs
        BY <1>8, <1>t DEF Launch, WantIsGiven
      <4>3. {} \in VMBins
        BY DEF VMBins
      <4>4. /\ launched' = launched + 1
            /\ vm' = [gen |-> launched + 1, size |-> call[c].want, on |-> TRUE, k3s |-> FALSE,
                      bins |-> {}, tmpl |-> FALSE, loaded |-> FALSE]
        BY <1>8, <3>2 DEF Launch
      <4> QED BY <4>1, <4>2, <4>3, <4>4 DEF VMType
    <3> QED BY <3>1, <3>2
  <2> QED BY <1>8, <1>t, <2>1, <2>2 DEF Launch, TypeInv, Typed, history
<1>9. ASSUME NEW c \in Calls,
             InstallK3s(c) \/ MoveRunsc(c) \/ MoveSentry(c) \/ WriteTemplate(c) \/ RestartK3s(c)
      PROVE  TypeInv'
  <2>1. call' \in [Calls -> CallType] /\ WantIsGiven'
    BY <1>9, GotoType DEF InstallK3s, MoveRunsc, MoveSentry, WriteTemplate, RestartK3s, SetupSteps, CallSteps, Wants
  <2>2. vm \in VMType
    BY <1>9, <1>t DEF InstallK3s, MoveRunsc, MoveSentry, WriteTemplate, RestartK3s, InScript,
       Up, Exists, Typed
  <2>3. vm.bins \cup {"runsc"} \in VMBins /\ vm.bins \cup {"sentry"} \in VMBins
    BY <2>2 DEF VMType, VMBins, Bins
  <2>4. vm' \in VMType
    BY <1>9, <2>2, <2>3 DEF InstallK3s, MoveRunsc, MoveSentry, WriteTemplate, RestartK3s, VMType
  <2> QED BY <1>9, <1>t, <2>1, <2>4
          DEF InstallK3s, MoveRunsc, MoveSentry, WriteTemplate, RestartK3s, TypeInv, Typed, history
<1>10. ASSUME NEW c \in Calls, CheckBinaries(c) \/ FetchKubeconfig(c) PROVE TypeInv'
  <2>1. vm.gen \in MaybeGens
    BY <1>10, <1>t, EntryTypes DEF CheckBinaries, FetchKubeconfig, Up, Exists, Typed, VMType
  <2>2. call' \in [Calls -> CallType] /\ WantIsGiven'
    BY <1>10, <1>t, <2>1 DEF CheckBinaries, FetchKubeconfig, WantIsGiven, CallType, SetupSteps, CallSteps, Wants
  <2> QED BY <1>10, <1>t, <2>2 DEF CheckBinaries, FetchKubeconfig, TypeInv, Typed, history
<1>11. ASSUME NEW c \in Calls, ViewMerged(c) PROVE TypeInv'
  <2>1. [p \in Parts |-> IF kube[p] = Absent THEN call[c].at ELSE kube[p]] \in Entries
    BY <1>t DEF Typed, CallType, Entries
  <2>2. call' \in [Calls -> CallType] /\ WantIsGiven'
    BY <1>11, <1>t, <2>1 DEF ViewMerged, WantIsGiven, CallType, SetupSteps, CallSteps, Wants
  <2> QED BY <1>11, <1>t, <2>2 DEF ViewMerged, TypeInv, Typed, history
<1>12. ASSUME NEW c \in Calls, ViewCrashes(c) PROVE TypeInv'
  <2>1. call' \in [Calls -> CallType] /\ WantIsGiven'
    BY <1>12, <1>t, NoCallType DEF ViewCrashes, WantIsGiven, NoCall, CallType
  <2> QED BY <1>12, <1>t, <2>1 DEF ViewCrashes, TypeInv, Typed, history
<1>13. ASSUME NEW c \in Calls, WriteKubeconfig(c) PROVE TypeInv'
  <2>1. call' \in [Calls -> CallType] /\ WantIsGiven'
    <3>1. NoEntry \in Entries
      BY EntryTypes
    <3> QED BY <1>13, <1>t, <3>1 DEF WriteKubeconfig, WantIsGiven, CallType, SetupSteps, CallSteps
  <2> QED BY <1>13, <1>t, <2>1 DEF WriteKubeconfig, TypeInv, Typed, CallType, history
<1>14. ASSUME NEW c \in Calls, DeleteVM(c) PROVE TypeInv'
  BY <1>14, <1>t, GotoType DEF DeleteVM, TypeInv, Typed, history, TeardownSteps
<1>15. ASSUME NEW c \in Calls, DeleteFails(c) PROVE TypeInv'
  <2>1. tidy' \in BOOLEAN
    BY <1>15 DEF DeleteFails
  <2> QED BY <1>15, <1>t, <2>1, FinishType DEF DeleteFails, TypeInv, Typed
<1>16. ASSUME NEW c \in Calls, Clean(c) \/ CleanFails(c) PROVE TypeInv'
  <2>1. call' \in [Calls -> CallType] /\ WantIsGiven'
    BY <1>16, NextEntryType DEF Clean, CleanFails
  <2>2. kube' \in Entries
    BY <1>16, <1>t, EntryTypes DEF Clean, CleanFails, Typed, Entries
  <2> HIDE DEF NextEntry
  <2> QED BY <1>16, <1>t, <2>1, <2>2 DEF Clean, CleanFails, TypeInv, Typed, history
<1>17. CASE Health \/ HealthDies \/ DaemonRelaunch
  BY <1>17 DEF Health, HealthFinds, HealthAsks, HealthStarts, HealthFails, HealthDies,
     DaemonRelaunch, TypeInv, Typed, WantIsGiven, VMType, Exists, history
<1>18. CASE VMStops \/ VMDeletedOutside
  BY <1>18 DEF VMStops, VMDeletedOutside, TypeInv, Typed, WantIsGiven, VMType, Up, Exists, history
<1>19. CASE Quit
  <2>1. call' \in [Calls -> CallType] /\ WantIsGiven'
    BY <1>19, NoCallType DEF Quit, WantIsGiven, NoCall, CallType
  <2>2. tidy' \in BOOLEAN
    BY <1>19 DEF Quit
  <2>3. alloc' \in Allocs /\ misled' \in BOOLEAN
    BY <1>19 DEF Quit, Reallocates
  <2> QED BY <1>19, <1>t, <2>1, <2>2, <2>3 DEF Quit, TypeInv, Typed, FreshPage, PageType
<1>20. CASE UNCHANGED vars
  BY <1>20 DEF vars, history, TypeInv, Typed, WantIsGiven
<1> QED
  BY <1>1, <1>2, <1>3, <1>4, <1>5, <1>6, <1>7, <1>8, <1>9, <1>10, <1>11, <1>12, <1>13,
     <1>14, <1>15, <1>16, <1>17, <1>18, <1>19, <1>20
     DEF Next, CallStep, SetupStep, TeardownStep

(***************************************************************************)
(* Calls beside each other                                                 *)
(***************************************************************************)
\* A call goes on or ends: the others stay as they are, and no Setup becomes a deletion.
GoesOn(c) ==
    /\ \A d \in Others(c) : call'[d] = call[d]
    /\ call[c].step # "idle"
    /\ call'[c].alone => call[c].alone
    /\ call'[c].step \in TeardownSteps => call[c].step \in TeardownSteps
    /\ call'[c].step \in {"exists", "launch"} =>
         call[c].step = "exists" /\ call'[c].want = call[c].want
    /\ tidy' => tidy
    /\ UNCHANGED <<alloc, misled>>

(* So does each step of a call. *)
LEMMA CallGoesOn ==
    ASSUME TypeInv, NEW c \in Calls, CallStep(c)
    PROVE  GoesOn(c)
<1>t. call \in [Calls -> CallType]
  BY DEF TypeInv, Typed
<1> USE DEF GoesOn, Others, SetupSteps, TeardownSteps, CallType
<1>1. CASE SetupFails(c) \/ Deploy(c) \/ DeleteFails(c)
  <2>1. Finish(c) /\ call[c].step \in SetupSteps \cup {"delete"} /\ UNCHANGED <<alloc, misled>>
    BY <1>1 DEF SetupFails, Deploy, DeleteFails, history
  <2>2. tidy' => tidy
    BY <1>1 DEF SetupFails, Deploy, DeleteFails, history
  <2>3. /\ \A d \in Others(c) : call'[d] = call[d]
        /\ call'[c].step = "status" /\ ~call'[c].alone
    BY <2>1, <1>t DEF Finish, NoCall
  <2> QED BY <2>1, <2>2, <2>3
<1>2. CASE Answer(c) \/ ViewCrashes(c)
  BY <1>2, <1>t DEF Answer, ViewCrashes, NoCall, history
<1>3. CASE CheckExists(c) \/ InstallK3s(c) \/ MoveRunsc(c) \/ MoveSentry(c) \/ WriteTemplate(c)
           \/ RestartK3s(c) \/ DeleteVM(c)
  BY <1>3, <1>t DEF CheckExists, InstallK3s, MoveRunsc, MoveSentry, WriteTemplate, RestartK3s,
                    DeleteVM, InScript, Goto, history
<1>4. CASE Launch(c) \/ CheckBinaries(c) \/ FetchKubeconfig(c)
  BY <1>4, <1>t DEF Launch, CheckBinaries, FetchKubeconfig, history
<1>5. CASE ViewMerged(c) \/ WriteKubeconfig(c)
  BY <1>5, <1>t DEF ViewMerged, WriteKubeconfig, history
<1>6. CASE Clean(c) \/ CleanFails(c)
  <2>1. Goto(c, "cluster") \/ Goto(c, "user") \/ Finish(c)
    BY <1>6 DEF Clean, CleanFails, NextEntry, Cleaning
  <2>2. call[c].step \in Cleaning /\ (tidy' => tidy) /\ UNCHANGED <<alloc, misled>>
    BY <1>6 DEF Clean, CleanFails, history
  <2> QED BY <2>1, <2>2, <1>t DEF Goto, Finish, NoCall, Cleaning
<1> QED
  BY <1>1, <1>2, <1>3, <1>4, <1>5, <1>6 DEF CallStep, SetupStep, TeardownStep

(* While a call goes on or ends nobody else starts, so who is alone stays so. *)
LEMMA GoesOnAlone ==
    ASSUME AloneIsAlone, DeletesAlone, NEW c \in Calls, GoesOn(c)
    PROVE  AloneIsAlone' /\ DeletesAlone'
<1> USE DEF GoesOn, Others, Only
<1>1. \A d \in Calls : call'[d].alone => Only(d)'
  <2> SUFFICES ASSUME NEW d \in Calls, call'[d].alone, NEW e \in Others(d)
               PROVE  call'[e].step = "idle"
    OBVIOUS
  <2>1. call[d].alone /\ call[e].step = "idle"
    BY DEF AloneIsAlone
  <2> QED BY <2>1
<1>2. \A d \in Calls : tidy' /\ call'[d].step \in TeardownSteps => Only(d)'
  <2> SUFFICES ASSUME NEW d \in Calls, tidy', call'[d].step \in TeardownSteps, NEW e \in Others(d)
               PROVE  call'[e].step = "idle"
    OBVIOUS
  <2>1. call[d].step \in TeardownSteps /\ call[e].step = "idle"
    BY DEF DeletesAlone
  <2> QED BY <2>1
<1> QED BY <1>1, <1>2 DEF AloneIsAlone, DeletesAlone

(* A call that ends asks for the status, or is over. *)
LEMMA Ends ==
    ASSUME call \in [Calls -> CallType], NEW c \in Calls,
           Finish(c) \/ call' = [call EXCEPT ![c] = NoCall]
    PROVE  call'[c].step \in {"idle", "status"}
<1>1. CASE Finish(c)
  BY <1>1 DEF Finish, NoCall
<1>2. CASE call' = [call EXCEPT ![c] = NoCall]
  <2>1. call'[c] = NoCall
    BY <1>2
  <2> QED BY <2>1 DEF NoCall
<1> QED BY <1>1, <1>2

\* A call begins: it is alone if nothing runs, and the others are alone no more.
Begins(c, step, want) ==
    /\ call[c].step = "idle"
    /\ call'[c].step = step /\ call'[c].want = want
    /\ call'[c].alone => Only(c)
    /\ \A d \in Others(c) : /\ call'[d].step = call[d].step /\ call'[d].want = call[d].want
                           /\ call'[d].at = call[d].at /\ call'[d].seen = call[d].seen
                           /\ ~call'[d].alone

(* So does a click on the button. *)
LEMMA ClickBegins ==
    ASSUME TypeInv, NEW c \in Calls, call[c].step = "idle", NEW step, NEW want, Start(c, step, want)
    PROVE  Begins(c, step, want)
<1>t. call \in [Calls -> CallType]
  BY DEF TypeInv, Typed
<1>1. call'[c].step = step /\ call'[c].want = want
  BY DEF Start
<1>2. call'[c].alone <=> Running = {}
  BY DEF Start
<1>3. Running = {} => Only(c)
  BY DEF Running, Only, Others
<1>4. ASSUME NEW d \in Others(c)
      PROVE  /\ call'[d].step = call[d].step /\ call'[d].want = call[d].want
             /\ call'[d].at = call[d].at /\ call'[d].seen = call[d].seen
             /\ ~call'[d].alone
  <2>1. call'[d] = [call[d] EXCEPT !.alone = FALSE] /\ call[d] \in CallType
    BY <1>t, <1>4 DEF Start, Others
  <2> QED BY <2>1 DEF CallType
<1> QED BY <1>1, <1>2, <1>3, <1>4 DEF Begins

(* Every step keeps alone what is alone. *)
LEMMA StepAlone ==
    ASSUME TypeInv, AloneIsAlone, DeletesAlone, [Next]_vars
    PROVE  AloneIsAlone' /\ DeletesAlone'
<1>t. call \in [Calls -> CallType]
  BY DEF TypeInv, Typed
<1>1. ASSUME NEW c \in Calls, CallStep(c) PROVE AloneIsAlone' /\ DeletesAlone'
  BY <1>1, CallGoesOn, GoesOnAlone
<1>2. ASSUME NEW c \in Calls, ClickSetup(c) PROVE AloneIsAlone' /\ DeletesAlone'
  <2>1. PICK a \in Allocs : Begins(c, "exists", a)
    BY <1>2, ClickBegins DEF ClickSetup
  <2>2. tidy' => ~Busy(TeardownSteps)
    BY <1>2 DEF ClickSetup
  <2> QED
    BY <2>1, <2>2 DEF Begins, AloneIsAlone, DeletesAlone, Only, Others, Busy, TeardownSteps
<1>3. ASSUME NEW c \in Calls, ClickTeardown(c) PROVE AloneIsAlone' /\ DeletesAlone'
  <2>1. Begins(c, "delete", NoVM)
    BY <1>3, ClickBegins DEF ClickTeardown
  <2>2. tidy' => Running = {}
    BY <1>3 DEF ClickTeardown
  <2> QED
    BY <2>1, <2>2 DEF Begins, AloneIsAlone, DeletesAlone, Only, Others, Running, TeardownSteps
<1>4. CASE LoadPage
  <2>1. \A c \in Calls : call'[c].step = call[c].step /\ call'[c].alone = call[c].alone
    BY <1>4, <1>t DEF LoadPage, CallType
  <2> QED BY <1>4, <2>1 DEF LoadPage, AloneIsAlone, DeletesAlone, Only, Others, history
<1>5. CASE LoadClusterStatus \/ Health \/ HealthDies \/ DaemonRelaunch \/ VMStops \/ UNCHANGED vars
  BY <1>5 DEF LoadClusterStatus, Health, HealthFinds, HealthAsks, HealthStarts, HealthFails,
     HealthDies, DaemonRelaunch, VMStops, vars, history, AloneIsAlone, DeletesAlone, Only, Others
<1>6. CASE VMDeletedOutside
  BY <1>6 DEF VMDeletedOutside, AloneIsAlone, DeletesAlone, Only, Others
<1>7. CASE Quit
  BY <1>7 DEF Quit, NoCall, AloneIsAlone, DeletesAlone, Only, Others, TeardownSteps
<1> QED
  BY <1>1, <1>2, <1>3, <1>4, <1>5, <1>6, <1>7 DEF Next

(***************************************************************************)
(* The kubeconfig                                                          *)
(***************************************************************************)
\* The steps of calls that say something of the entries.
Telling == Cleaning \cup {"view", "write"}

(* Entries hold on while nobody touches them and the VM stays the same one. *)
LEMMA EntriesStay ==
    ASSUME EntriesHoldNow, UNCHANGED kube, Exists => Exists' /\ vm'.gen = vm.gen,
           \A c \in Calls :
              \/ /\ call'[c].step = call[c].step
                 /\ call'[c].at = call[c].at /\ call'[c].seen = call[c].seen
              \/ call[c].step \notin Cleaning /\ call'[c].step \notin Telling
    PROVE  EntriesHoldNow'
<1>1. (\A c \in Calls : call'[c].step \notin Cleaning) => \A c \in Calls : call[c].step \notin Cleaning
  BY DEF Telling
<1>2. (kube = NoEntry \/ (Exists /\ kube = EntryOf(vm.gen))) =>
        (kube = NoEntry \/ (Exists /\ kube = EntryOf(vm.gen)))'
  BY DEF NoEntry, EntryOf
<1>3. ASSUME NEW c \in Calls
      PROVE  /\ call'[c].step = "view" => Exists' /\ call'[c].at = vm'.gen
             /\ call'[c].step = "write" => Exists' /\ call'[c].seen = EntryOf(vm'.gen)
             /\ call'[c].step \in {"cluster", "user"} => kube'["context"] = Absent
             /\ call'[c].step = "user" => kube'["cluster"] = Absent
  BY DEF EntriesHoldNow, Telling, Cleaning
<1> QED BY <1>1, <1>2, <1>3 DEF EntriesHoldNow

(* A step of a tidy history leaves the entries as they should be. *)
LEMMA StepEntries ==
    ASSUME TypeInv, DeletesAlone, EntriesHold, [Next]_vars
    PROVE  EntriesHold'
<1> SUFFICES ASSUME tidy' PROVE EntriesHoldNow'
  BY DEF EntriesHold
<1>t. /\ call \in [Calls -> CallType] /\ vm \in VMType \cup {NoVM} /\ kube \in Entries
      /\ vm' \in VMType \cup {NoVM}
  BY StepType DEF TypeInv, Typed
<1>1. ASSUME NEW c \in Calls, GoesOn(c), call[c].step \notin TeardownSteps
      PROVE  /\ EntriesHoldNow
             /\ \A d \in Calls : call[d].step \notin Cleaning /\ call'[d].step \notin Cleaning
             /\ kube = NoEntry \/ (Exists /\ kube = EntryOf(vm.gen))
  <2>1. tidy /\ EntriesHoldNow
    BY <1>1 DEF GoesOn, EntriesHold
  <2>2. \A d \in Calls : call[d].step \notin TeardownSteps
    BY <1>1, <2>1 DEF GoesOn, DeletesAlone, Only, Others
  <2>3. \A d \in Calls : call'[d].step \notin TeardownSteps
    BY <1>1, <2>2 DEF GoesOn, Others
  <2> QED BY <2>1, <2>2, <2>3 DEF TeardownSteps, Cleaning, EntriesHoldNow
<1>2. ASSUME NEW c \in Calls,
             \/ SetupFails(c) \/ CheckExists(c) \/ CheckBinaries(c) \/ ViewCrashes(c)
             \/ Deploy(c) \/ Answer(c)
      PROVE  EntriesHoldNow'
  <2>1. GoesOn(c) /\ EntriesHoldNow
    BY <1>2, CallGoesOn DEF CallStep, SetupStep, GoesOn, EntriesHold
  <2>2. call[c].step \notin Cleaning /\ call'[c].step \notin Telling /\ UNCHANGED <<vm, kube>>
    <3>1. CASE CheckExists(c) \/ CheckBinaries(c)
      BY <1>2, <3>1, <1>t DEF CheckExists, CheckBinaries, Goto, Cleaning, Telling, CallType
    <3>2. CASE SetupFails(c) \/ ViewCrashes(c) \/ Deploy(c) \/ Answer(c)
      <4>1. Finish(c) \/ call' = [call EXCEPT ![c] = NoCall]
        BY <3>2 DEF SetupFails, ViewCrashes, Deploy, Answer
      <4>2. call'[c].step \in {"idle", "status"}
        BY <4>1, <1>t, Ends
      <4>3. call[c].step \notin Cleaning /\ UNCHANGED <<vm, kube>>
        BY <3>2 DEF SetupFails, ViewCrashes, Deploy, Answer, Cleaning, SetupSteps
      <4> QED BY <4>2, <4>3 DEF Telling, Cleaning
    <3> QED BY <1>2, <3>1, <3>2
  <2> QED BY <2>1, <2>2, EntriesStay DEF GoesOn, Others, Exists
<1>3. ASSUME NEW c \in Calls,
             InstallK3s(c) \/ MoveRunsc(c) \/ MoveSentry(c) \/ WriteTemplate(c) \/ RestartK3s(c)
      PROVE  EntriesHoldNow'
  <2>1. GoesOn(c) /\ EntriesHoldNow
    BY <1>3, CallGoesOn DEF CallStep, SetupStep, GoesOn, EntriesHold
  <2>2. call[c].step \notin Cleaning /\ call'[c].step \notin Telling /\ kube' = kube
    BY <1>3, <1>t DEF InstallK3s, MoveRunsc, MoveSentry, WriteTemplate, RestartK3s, InScript,
       Goto, Cleaning, Telling, CallType
  <2>3. vm \in VMType
    BY <1>3, <1>t DEF InstallK3s, MoveRunsc, MoveSentry, WriteTemplate, RestartK3s, InScript, Up, Exists
  <2>4. vm'.gen = vm.gen /\ vm' \in VMType
    BY <1>3, <2>3 DEF InstallK3s, MoveRunsc, MoveSentry, WriteTemplate, RestartK3s, VMType, VMBins, Bins
  <2> QED BY <2>1, <2>2, <2>4, NoVMType, EntriesStay DEF GoesOn, Others, Exists
<1>4. ASSUME NEW c \in Calls, DeleteFails(c) PROVE EntriesHoldNow'
  <2>1. GoesOn(c) /\ EntriesHoldNow
    BY <1>4, CallGoesOn DEF CallStep, TeardownStep, GoesOn, EntriesHold
  <2>2. vm' = vm
    BY <1>4 DEF DeleteFails
  <2>3. call[c].step \notin Cleaning /\ call'[c].step \notin Telling /\ kube' = kube
    BY <1>4, <1>t DEF DeleteFails, Finish, NoCall, Cleaning, Telling, CallType
  <2> QED BY <2>1, <2>2, <2>3, EntriesStay DEF GoesOn, Others, Exists
<1>5. ASSUME NEW c \in Calls, Launch(c) PROVE EntriesHoldNow'
  <2>1. GoesOn(c) /\ call[c].step = "launch" /\ call'[c].step = "k3s" /\ kube' = kube
    BY <1>5, <1>t, CallGoesOn DEF CallStep, SetupStep, Launch, CallType
  <2>2. /\ EntriesHoldNow
        /\ \A d \in Calls : call[d].step \notin Cleaning /\ call'[d].step \notin Cleaning
        /\ kube = NoEntry \/ (Exists /\ kube = EntryOf(vm.gen))
    BY <1>1, <2>1 DEF TeardownSteps
  <2>3. CASE Exists
    <3>1. vm' = vm
      BY <1>5, <2>3 DEF Launch
    <3> QED BY <2>1, <2>2, <3>1, EntriesStay DEF GoesOn, Others, Exists, Telling
  <2>4. CASE ~Exists
    <3>1. \A d \in Calls : call'[d].step \notin {"view", "write"}
      BY <2>1, <2>2, <2>4 DEF EntriesHoldNow, GoesOn, Others
    <3> QED BY <2>1, <2>2, <2>4, <3>1 DEF EntriesHoldNow, NoEntry, Cleaning
  <2> QED BY <2>3, <2>4
<1>6. ASSUME NEW c \in Calls, FetchKubeconfig(c) PROVE EntriesHoldNow'
  <2>1. /\ GoesOn(c) /\ call[c].step = "fetch" /\ Exists /\ UNCHANGED <<vm, kube>>
        /\ call'[c].step = "view" /\ call'[c].at = vm.gen
    BY <1>6, <1>t, CallGoesOn DEF CallStep, SetupStep, FetchKubeconfig, Up, CallType
  <2>2. /\ EntriesHoldNow
        /\ \A d \in Calls : call[d].step \notin Cleaning /\ call'[d].step \notin Cleaning
        /\ kube = NoEntry \/ (Exists /\ kube = EntryOf(vm.gen))
    BY <1>1, <2>1 DEF TeardownSteps
  <2> QED BY <2>1, <2>2 DEF EntriesHoldNow, NoEntry, EntryOf, GoesOn, Others, Exists, Cleaning
<1>7. ASSUME NEW c \in Calls, ViewMerged(c) PROVE EntriesHoldNow'
  <2>1. /\ GoesOn(c) /\ call[c].step = "view" /\ UNCHANGED <<vm, kube>>
        /\ call'[c].step = "write"
        /\ call'[c].seen = [p \in Parts |-> IF kube[p] = Absent THEN call[c].at ELSE kube[p]]
    BY <1>7, <1>t, CallGoesOn DEF CallStep, SetupStep, ViewMerged, CallType
  <2>2. /\ EntriesHoldNow
        /\ \A d \in Calls : call[d].step \notin Cleaning /\ call'[d].step \notin Cleaning
        /\ kube = NoEntry \/ (Exists /\ kube = EntryOf(vm.gen))
    BY <1>1, <2>1 DEF TeardownSteps
  <2>3. Exists /\ call[c].at = vm.gen
    BY <2>1, <2>2 DEF EntriesHoldNow
  <2>4. call'[c].seen = EntryOf(vm.gen)
    BY <2>1, <2>2, <2>3 DEF NoEntry, EntryOf
  <2> HIDE DEF EntryOf
  <2> QED BY <2>1, <2>2, <2>3, <2>4 DEF EntriesHoldNow, GoesOn, Others, Exists, Cleaning
<1>8. ASSUME NEW c \in Calls, WriteKubeconfig(c) PROVE EntriesHoldNow'
  <2>1. /\ GoesOn(c) /\ call[c].step = "write" /\ vm' = vm /\ kube' = call[c].seen
        /\ call'[c].step = "deploy"
    BY <1>8, <1>t, CallGoesOn DEF CallStep, SetupStep, WriteKubeconfig, CallType
  <2>2. EntriesHoldNow /\ \A d \in Calls : call'[d].step \notin Cleaning
    BY <1>1, <2>1 DEF TeardownSteps
  <2>3. Exists /\ kube' = EntryOf(vm.gen)
    BY <2>1, <2>2 DEF EntriesHoldNow
  <2> QED BY <2>1, <2>2, <2>3 DEF EntriesHoldNow, EntryOf, GoesOn, Others, Exists, Cleaning
<1>9. ASSUME NEW c \in Calls, DeleteVM(c) PROVE EntriesHoldNow'
  <2>1. GoesOn(c) /\ call[c].step = "delete" /\ call'[c].step = "context"
    BY <1>9, <1>t, CallGoesOn DEF CallStep, TeardownStep, DeleteVM, Goto, CallType
  <2>2. \A d \in Others(c) : call'[d].step = "idle"
    BY <2>1 DEF GoesOn, DeletesAlone, Only, TeardownSteps
  <2> QED BY <2>1, <2>2 DEF EntriesHoldNow, Others, Cleaning
<1>10. ASSUME NEW c \in Calls, Clean(c) PROVE EntriesHoldNow'
  <2>1. /\ GoesOn(c) /\ call[c].step \in Cleaning /\ EntriesHoldNow /\ vm' = vm
        /\ kube' = [kube EXCEPT ![call[c].step] = Absent]
    BY <1>10, CallGoesOn DEF CallStep, TeardownStep, Clean, GoesOn, EntriesHold
  <2>2. \A d \in Others(c) : call'[d].step = "idle"
    BY <2>1 DEF GoesOn, DeletesAlone, Only, TeardownSteps, Cleaning
  <2>3. kube' \in Entries /\ kube \in [Parts -> MaybeGens]
    BY <1>t, <2>1, EntryTypes DEF Entries
  <2>4. CASE call[c].step = "context"
    <3>1. kube'["context"] = Absent
      BY <2>1, <2>3, <2>4 DEF Parts
    <3>2. call'[c].step = "cluster"
      BY <1>10, <1>t, <2>4 DEF Clean, NextEntry, Goto, CallType
    <3> QED BY <3>1, <3>2, <2>2 DEF EntriesHoldNow, Others, Cleaning
  <2>5. CASE call[c].step = "cluster"
    <3>1. kube'["context"] = Absent /\ kube'["cluster"] = Absent
      BY <2>1, <2>3, <2>5 DEF Parts, EntriesHoldNow
    <3>2. call'[c].step = "user"
      BY <1>10, <1>t, <2>5 DEF Clean, NextEntry, Goto, CallType
    <3> QED BY <3>1, <3>2, <2>2 DEF EntriesHoldNow, Others, Cleaning
  <2>6. CASE call[c].step = "user"
    <3>1. kube'["context"] = Absent /\ kube'["cluster"] = Absent /\ kube'["user"] = Absent
      BY <2>1, <2>3, <2>6 DEF Parts, EntriesHoldNow
    <3>2. kube' = NoEntry
      BY <3>1, <2>3 DEF NoEntry, Entries, Parts
    <3>3. call'[c].step = "status"
      BY <1>10, <1>t, <2>6 DEF Clean, NextEntry, Finish, NoCall, CallType
    <3> QED BY <3>2, <3>3, <2>2 DEF EntriesHoldNow, Others, Cleaning
  <2> QED BY <2>1, <2>4, <2>5, <2>6 DEF Cleaning
<1>11. ASSUME NEW c \in Calls, ClickSetup(c) PROVE EntriesHoldNow'
  <2>1. tidy /\ EntriesHoldNow
    BY <1>11 DEF ClickSetup, EntriesHold
  <2>2. PICK a \in Allocs : Begins(c, "exists", a)
    BY <1>11, ClickBegins DEF ClickSetup
  <2> QED BY <1>11, <2>1, <2>2, EntriesStay DEF ClickSetup, Begins, Others, Exists, Cleaning, Telling
<1>12. ASSUME NEW c \in Calls, ClickTeardown(c) PROVE EntriesHoldNow'
  <2>1. tidy /\ EntriesHoldNow
    BY <1>12 DEF ClickTeardown, EntriesHold
  <2>2. Begins(c, "delete", NoVM)
    BY <1>12, ClickBegins DEF ClickTeardown
  <2> QED BY <1>12, <2>1, <2>2, EntriesStay DEF ClickTeardown, Begins, Others, Exists, Cleaning, Telling
<1>13. CASE LoadPage
  <2>1. EntriesHoldNow
    BY <1>13 DEF LoadPage, history, EntriesHold
  <2>2. \A c \in Calls : /\ call'[c].step = call[c].step
                         /\ call'[c].at = call[c].at /\ call'[c].seen = call[c].seen
    BY <1>13, <1>t DEF LoadPage, CallType
  <2> QED BY <1>13, <2>1, <2>2, EntriesStay DEF LoadPage, Exists
<1>14. CASE LoadClusterStatus \/ Health \/ HealthDies \/ DaemonRelaunch \/ VMStops \/ UNCHANGED vars
  <2>1. EntriesHoldNow
    BY <1>14 DEF LoadClusterStatus, Health, HealthFinds, HealthAsks, HealthStarts, HealthFails,
       HealthDies, DaemonRelaunch, VMStops, vars, history, EntriesHold
  <2>2. UNCHANGED <<kube, call>>
    BY <1>14 DEF LoadClusterStatus, Health, HealthFinds, HealthAsks, HealthStarts, HealthFails,
       HealthDies, DaemonRelaunch, VMStops, vars
  <2>3. CASE vm' = vm
    BY <2>1, <2>2, <2>3, EntriesStay DEF Exists
  <2>4. CASE HealthStarts \/ VMStops
    <3>1. vm \in VMType
      BY <2>4, <1>t DEF HealthStarts, VMStops, Up, Exists
    <3>2. vm' \in VMType /\ vm'.gen = vm.gen
      BY <2>4, <3>1 DEF HealthStarts, VMStops, VMType
    <3> QED BY <2>1, <2>2, <3>2, NoVMType, EntriesStay DEF Exists
  <2> QED
    BY <1>14, <2>3, <2>4 DEF LoadClusterStatus, Health, HealthFinds, HealthAsks, HealthFails,
       HealthDies, DaemonRelaunch, vars
<1>15. CASE Quit
  <2>1. tidy /\ (\A c \in Calls : call[c].step \notin Cleaning)
    BY <1>15 DEF Quit
  <2>2. (\A c \in Calls : call'[c].step = "idle") /\ UNCHANGED <<vm, kube>>
    BY <1>15 DEF Quit, NoCall
  <2> QED BY <2>1, <2>2 DEF EntriesHold, EntriesHoldNow, NoEntry, EntryOf, Exists, Cleaning
<1>16. ~VMDeletedOutside /\ \A c \in Calls : ~CleanFails(c)
  BY DEF VMDeletedOutside, CleanFails
<1> QED
  BY <1>2, <1>3, <1>4, <1>5, <1>6, <1>7, <1>8, <1>9, <1>10, <1>11, <1>12, <1>13, <1>14, <1>15, <1>16
     DEF Next, CallStep, SetupStep, TeardownStep

(***************************************************************************)
(* gVisor                                                                  *)
(***************************************************************************)
(* A Setup alone keeps the VM prepared as far as it has come. *)
LEMMA StepScript ==
    ASSUME TypeInv, AloneIsAlone, ScriptHolds, [Next]_vars
    PROVE  ScriptHolds'
<1> SUFFICES ASSUME NEW c \in Calls, call'[c].alone, Exists' PROVE ScriptIsDone(c)'
  BY DEF ScriptHolds
<1>t. /\ call \in [Calls -> CallType] /\ vm \in VMType \cup {NoVM}
  BY DEF TypeInv, Typed
<1> DEFINE Scripted == {"binaries", "runsc", "sentry", "template", "restart",
                        "fetch", "view", "write", "deploy"}
<1>1. call'[c].step \notin Scripted => ScriptIsDone(c)'
  BY DEF ScriptIsDone
<1>2. call[c].alone /\ Exists => ScriptIsDone(c)
  BY DEF ScriptHolds
<1>3. ASSUME NEW d \in Others(c), CallStep(d) PROVE FALSE
  <2>1. GoesOn(d) /\ d \in Calls
    BY <1>3, CallGoesOn DEF Others
  <2>2. call[c].alone /\ call[d].step # "idle"
    BY <2>1 DEF GoesOn, Others
  <2> QED BY <2>2, <1>3 DEF AloneIsAlone, Only
<1>4. ASSUME NEW d \in Calls, ClickSetup(d) \/ ClickTeardown(d) PROVE ScriptIsDone(c)'
  <2>1. PICK step, want : step \in {"exists", "delete"} /\ Begins(d, step, want)
    BY <1>4, ClickBegins DEF ClickSetup, ClickTeardown
  <2>2. d = c
    BY <2>1 DEF Begins, Others
  <2> QED BY <2>1, <2>2, <1>1 DEF Begins
<1>5. ASSUME \/ SetupFails(c) \/ CheckExists(c) \/ Launch(c) \/ ViewCrashes(c) \/ Deploy(c)
             \/ DeleteVM(c) \/ DeleteFails(c) \/ Answer(c)
      PROVE  ScriptIsDone(c)'
  <2>1. CASE CheckExists(c) \/ Launch(c) \/ DeleteVM(c)
    <3>1. call'[c].step \notin Scripted
      BY <2>1, <1>t DEF CheckExists, Launch, DeleteVM, Goto, CallType
    <3> QED BY <3>1, <1>1
  <2>2. CASE SetupFails(c) \/ ViewCrashes(c) \/ Deploy(c) \/ DeleteFails(c) \/ Answer(c)
    <3>1. Finish(c) \/ call' = [call EXCEPT ![c] = NoCall]
      BY <2>2 DEF SetupFails, ViewCrashes, Deploy, DeleteFails, Answer
    <3>2. call'[c].step \in {"idle", "status"}
      BY <3>1, <1>t, Ends
    <3> QED BY <3>2, <1>1
  <2> QED BY <1>5, <2>1, <2>2
<1>6. ASSUME Clean(c) \/ CleanFails(c) PROVE ScriptIsDone(c)'
  <2>1. Goto(c, "cluster") \/ Goto(c, "user") \/ Finish(c)
    BY <1>6 DEF Clean, CleanFails, NextEntry, Cleaning
  <2>2. call'[c].step \in {"cluster", "user", "idle", "status"}
    <3>1. Goto(c, "cluster") \/ Goto(c, "user") => call'[c].step \in {"cluster", "user"}
      BY <1>t DEF Goto, CallType
    <3>2. Finish(c) => call'[c].step \in {"idle", "status"}
      BY <1>t, Ends
    <3> QED BY <2>1, <3>1, <3>2
  <2> QED BY <2>2, <1>1
<1>7. CASE InstallK3s(c)
  <2>1. vm \in VMType /\ call'[c].step = "binaries"
    BY <1>7, <1>t DEF InstallK3s, Up, Exists, Goto, CallType
  <2>2. vm'.k3s /\ vm'.loaded = vm'.tmpl
    BY <1>7, <2>1 DEF InstallK3s, VMType
  <2> QED BY <2>1, <2>2 DEF ScriptIsDone
<1>8. CASE CheckBinaries(c)
  <2>1. /\ Exists /\ call[c].alone /\ call[c].step = "binaries" /\ vm' = vm
        /\ call'[c].step = IF vm.bins = Bins THEN "template" ELSE "runsc"
    BY <1>8, <1>t DEF CheckBinaries, Up, CallType
  <2> QED BY <2>1, <1>2 DEF ScriptIsDone
<1>9. CASE MoveRunsc(c)
  <2>1. /\ Exists /\ call[c].alone /\ call[c].step = "runsc" /\ vm \in VMType
        /\ call'[c].step = "sentry"
    BY <1>9, <1>t DEF MoveRunsc, InScript, Up, Exists, Goto, CallType
  <2>2. /\ vm'.k3s = vm.k3s /\ vm'.tmpl = vm.tmpl /\ vm'.loaded = vm.loaded
        /\ "runsc" \in vm'.bins
    BY <1>9, <2>1 DEF MoveRunsc, VMType
  <2> QED BY <2>1, <2>2, <1>2 DEF ScriptIsDone
<1>10. CASE MoveSentry(c)
  <2>1. /\ Exists /\ call[c].alone /\ call[c].step = "sentry" /\ vm \in VMType
        /\ call'[c].step = "template"
    BY <1>10, <1>t DEF MoveSentry, InScript, Up, Exists, Goto, CallType
  <2>2. /\ vm'.k3s = vm.k3s /\ vm'.tmpl = vm.tmpl /\ vm'.loaded = vm.loaded
        /\ vm'.bins = vm.bins \cup {"sentry"}
    BY <1>10, <2>1 DEF MoveSentry, VMType
  <2>3. "runsc" \in vm.bins /\ vm.bins \subseteq Bins
    BY <2>1, <1>2 DEF ScriptIsDone, VMType, VMBins
  <2>4. vm'.bins = Bins
    BY <2>2, <2>3 DEF Bins
  <2> QED BY <2>1, <2>2, <2>4, <1>2 DEF ScriptIsDone
<1>11. CASE WriteTemplate(c)
  <2>1. /\ Exists /\ call[c].alone /\ call[c].step = "template" /\ vm \in VMType
        /\ call'[c].step = IF vm.tmpl THEN "fetch" ELSE "restart"
    BY <1>11, <1>t DEF WriteTemplate, InScript, Up, Exists, Goto, CallType
  <2>2. vm'.k3s = vm.k3s /\ vm'.tmpl /\ vm'.loaded = vm.loaded /\ vm'.bins = vm.bins
    BY <1>11, <2>1 DEF WriteTemplate, VMType
  <2> QED BY <2>1, <2>2, <1>2 DEF ScriptIsDone
<1>12. CASE RestartK3s(c)
  <2>1. /\ Exists /\ call[c].alone /\ call[c].step = "restart" /\ vm \in VMType
        /\ call'[c].step = "fetch"
    BY <1>12, <1>t DEF RestartK3s, InScript, Up, Exists, Goto, CallType
  <2>2. vm'.k3s = vm.k3s /\ vm'.tmpl = vm.tmpl /\ vm'.loaded /\ vm'.bins = vm.bins
    BY <1>12, <2>1 DEF RestartK3s, VMType
  <2> QED BY <2>1, <2>2, <1>2 DEF ScriptIsDone
<1>13. CASE FetchKubeconfig(c) \/ ViewMerged(c) \/ WriteKubeconfig(c)
  <2>1. /\ call[c].alone /\ vm' = vm
        /\ call[c].step \in {"fetch", "view", "write"}
        /\ call'[c].step \in {"view", "write", "deploy"}
    BY <1>13, <1>t DEF FetchKubeconfig, ViewMerged, WriteKubeconfig, CallType
  <2> QED BY <2>1, <1>2 DEF ScriptIsDone, Exists
<1>14. CASE Quit
  BY <1>14, <1>1 DEF Quit, NoCall
<1>15. CASE LoadPage
  <2>1. call'[c].step = call[c].step /\ call'[c].alone = call[c].alone /\ vm' = vm
    BY <1>15, <1>t DEF LoadPage, CallType
  <2> QED BY <2>1, <1>2 DEF ScriptIsDone, Exists
<1>16. CASE HealthStarts
  <2>1. vm \in VMType /\ call' = call /\ call[c].alone /\ Exists
    BY <1>16, <1>t DEF HealthStarts, Exists
  <2>2. /\ vm'.k3s = vm.k3s /\ vm'.tmpl = vm.tmpl /\ vm'.bins = vm.bins
        /\ vm'.loaded = vm.loaded \/ vm'.loaded = (vm.tmpl /\ vm.k3s)
    BY <1>16, <2>1 DEF HealthStarts, VMType
  <2> QED BY <2>1, <2>2, <1>2 DEF ScriptIsDone
<1>17. CASE VMStops
  <2>1. vm \in VMType /\ call' = call /\ call[c].alone /\ Exists
    BY <1>17, <1>t DEF VMStops, Up, Exists
  <2>2. vm'.k3s = vm.k3s /\ vm'.tmpl = vm.tmpl /\ vm'.bins = vm.bins /\ vm'.loaded = vm.loaded
    BY <1>17, <2>1 DEF VMStops, VMType
  <2> QED BY <2>1, <2>2, <1>2 DEF ScriptIsDone
<1>18. CASE \/ LoadClusterStatus \/ HealthFinds \/ HealthAsks \/ HealthFails \/ HealthDies
            \/ DaemonRelaunch \/ UNCHANGED vars
  <2>1. UNCHANGED <<vm, call>>
    BY <1>18 DEF LoadClusterStatus, HealthFinds, HealthAsks, HealthFails, HealthDies,
       DaemonRelaunch, vars
  <2> QED BY <2>1, <1>2 DEF ScriptIsDone, Exists
<1>19. ~VMDeletedOutside
  BY DEF VMDeletedOutside, Exists
<1> QED
  BY <1>3, <1>4, <1>5, <1>6, <1>7, <1>8, <1>9, <1>10, <1>11, <1>12, <1>13, <1>14, <1>15,
     <1>16, <1>17, <1>18, <1>19
     DEF Next, CallStep, SetupStep, TeardownStep, Health, Others

(***************************************************************************)
(* The size                                                                *)
(***************************************************************************)
(* A step of a call that does not launch leaves the VM's size, or no VM. *)
LEMMA SizeStays ==
    ASSUME TypeInv, NEW c \in Calls, CallStep(c), Launch(c) => Exists, Exists'
    PROVE  Exists /\ vm'.size = vm.size
<1>t. vm \in VMType \cup {NoVM}
  BY DEF TypeInv, Typed
<1>1. CASE InstallK3s(c) \/ MoveRunsc(c) \/ MoveSentry(c) \/ WriteTemplate(c) \/ RestartK3s(c)
  <2>1. Exists /\ vm \in VMType
    BY <1>1, <1>t DEF InstallK3s, MoveRunsc, MoveSentry, WriteTemplate, RestartK3s, InScript, Up, Exists
  <2> QED
    BY <1>1, <2>1 DEF InstallK3s, MoveRunsc, MoveSentry, WriteTemplate, RestartK3s, VMType
<1>2. CASE DeleteVM(c) \/ DeleteFails(c)
  BY <1>2 DEF DeleteVM, DeleteFails, Exists
<1>3. CASE \/ SetupFails(c) \/ CheckExists(c) \/ Launch(c) \/ CheckBinaries(c) \/ FetchKubeconfig(c)
           \/ ViewMerged(c) \/ ViewCrashes(c) \/ WriteKubeconfig(c) \/ Deploy(c) \/ Clean(c)
           \/ CleanFails(c) \/ Answer(c)
  BY <1>3 DEF SetupFails, CheckExists, Launch, CheckBinaries, FetchKubeconfig, ViewMerged,
     ViewCrashes, WriteKubeconfig, Deploy, Clean, CleanFails, Answer, Exists
<1> QED BY <1>1, <1>2, <1>3 DEF CallStep, SetupStep, TeardownStep

(* Every step keeps the size and the wish for it equal to the allocation. *)
LEMMA StepSize ==
    ASSUME TypeInv, SizeIsWanted, SizeIsAllocation, [Next]_vars
    PROVE  SizeIsWanted' /\ SizeIsAllocation'
<1>t. call \in [Calls -> CallType] /\ vm \in VMType \cup {NoVM}
  BY DEF TypeInv, Typed
<1>1. ASSUME NEW c \in Calls, CallStep(c) PROVE SizeIsWanted' /\ SizeIsAllocation'
  <2>1. GoesOn(c)
    BY <1>1, CallGoesOn
  <2>2. SizeIsWanted'
    BY <2>1 DEF GoesOn, Others, SizeIsWanted
  <2>3. CASE Launch(c) /\ ~Exists
    <3>1. vm'.size = call[c].want /\ call[c].step = "launch"
      BY <2>3 DEF Launch
    <3> QED BY <2>1, <2>2, <3>1 DEF GoesOn, SizeIsWanted, SizeIsAllocation
  <2>4. CASE Launch(c) => Exists
    BY <1>1, <2>1, <2>2, <2>4, SizeStays DEF GoesOn, SizeIsAllocation
  <2> QED BY <2>3, <2>4
<1>2. ASSUME NEW c \in Calls, ClickSetup(c) PROVE SizeIsWanted' /\ SizeIsAllocation'
  <2>1. PICK a \in Allocs : Reallocates(a) /\ Begins(c, "exists", a)
    BY <1>2, ClickBegins DEF ClickSetup
  <2>2. vm' = vm
    BY <1>2 DEF ClickSetup
  <2> SUFFICES ASSUME ~misled' PROVE SizeIsWanted' /\ SizeIsAllocation'
    BY DEF SizeIsWanted, SizeIsAllocation
  <2>3. call'[c].want = a /\ alloc' = a
    BY <2>1 DEF Reallocates, Begins
  <2>4. CASE ~Exists /\ ~Busy({"exists", "launch"})
    <3>1. \A d \in Others(c) : call'[d].step \notin {"exists", "launch"}
      BY <2>1, <2>4 DEF Begins, Others, Busy
    <3> QED BY <2>2, <2>3, <2>4, <3>1 DEF SizeIsWanted, SizeIsAllocation, Others, Exists
  <2>5. CASE Exists \/ Busy({"exists", "launch"})
    <3>1. ~misled /\ alloc' = alloc
      BY <2>1, <2>5 DEF Reallocates
    <3> QED BY <2>1, <2>2, <2>3, <3>1 DEF SizeIsWanted, SizeIsAllocation, Begins, Others, Exists
  <2> QED BY <2>4, <2>5
<1>3. ASSUME NEW c \in Calls, ClickTeardown(c) PROVE SizeIsWanted' /\ SizeIsAllocation'
  <2>1. Begins(c, "delete", NoVM)
    BY <1>3, ClickBegins DEF ClickTeardown
  <2> QED
    BY <1>3, <2>1 DEF ClickTeardown, SizeIsWanted, SizeIsAllocation, Begins, Others, Exists
<1>4. CASE LoadPage
  <2>1. \A c \in Calls : call'[c].step = call[c].step /\ call'[c].want = call[c].want
    BY <1>4, <1>t DEF LoadPage, CallType
  <2> QED BY <1>4, <2>1 DEF LoadPage, history, SizeIsWanted, SizeIsAllocation, Exists
<1>5. CASE HealthStarts \/ VMStops
  <2>1. Exists /\ vm \in VMType
    BY <1>5, <1>t DEF HealthStarts, VMStops, Up, Exists
  <2>2. vm'.size = vm.size
    BY <1>5, <2>1 DEF HealthStarts, VMStops, VMType
  <2> QED
    BY <1>5, <2>1, <2>2 DEF HealthStarts, VMStops, history, SizeIsWanted, SizeIsAllocation
<1>6. CASE \/ LoadClusterStatus \/ HealthFinds \/ HealthAsks \/ HealthFails \/ HealthDies
           \/ DaemonRelaunch \/ VMDeletedOutside \/ UNCHANGED vars
  BY <1>6 DEF LoadClusterStatus, HealthFinds, HealthAsks, HealthFails, HealthDies,
     DaemonRelaunch, VMDeletedOutside, vars, history, SizeIsWanted, SizeIsAllocation, Exists
<1>7. CASE Quit
  <2>1. PICK a \in Allocs : Reallocates(a)
    BY <1>7 DEF Quit
  <2>2. SizeIsWanted' /\ vm' = vm
    BY <1>7 DEF Quit, NoCall, SizeIsWanted
  <2>3. ~misled' /\ Exists => ~misled /\ alloc' = alloc
    BY <2>1 DEF Reallocates
  <2> QED BY <2>2, <2>3 DEF SizeIsAllocation, Exists
<1> QED
  BY <1>1, <1>2, <1>3, <1>4, <1>5, <1>6, <1>7 DEF Next, Health

(***************************************************************************)
(* The invariant, and what follows from it                                 *)
(***************************************************************************)
(* The first state satisfies the invariant. *)
LEMMA InitInv == Init => Inv
<1> SUFFICES ASSUME Init PROVE Inv
  OBVIOUS
<1>1. TypeInv
  <2>1. FreshPage \in PageType /\ launched \in MaybeGens
    BY DEF Init, FreshPage, PageType, MaybeGens
  <2>2. call \in [Calls -> CallType]
    BY NoCallType DEF Init
  <2>3. \A c \in Calls : call[c].step = "idle"
    BY DEF Init, NoCall
  <2> QED BY <2>1, <2>2, <2>3, EntryTypes DEF Init, TypeInv, Typed, WantIsGiven
<1>2. \A c \in Calls : call[c] = NoCall
  BY DEF Init
<1>3. \A c \in Calls : call[c].step = "idle" /\ ~call[c].alone
  BY <1>2 DEF NoCall
<1>4. AloneIsAlone /\ DeletesAlone /\ ScriptHolds /\ SizeIsWanted
  BY <1>3 DEF AloneIsAlone, DeletesAlone, TeardownSteps, ScriptHolds, SizeIsWanted
<1>5. EntriesHold /\ SizeIsAllocation
  BY <1>3 DEF Init, EntriesHold, EntriesHoldNow, SizeIsAllocation, Exists
<1> QED BY <1>1, <1>4, <1>5 DEF Inv

(* Every reachable state satisfies it. *)
THEOREM Invariant == Spec => []Inv
<1>1. Inv /\ [Next]_vars => Inv'
  BY StepType, StepAlone, StepEntries, StepScript, StepSize DEF Inv
<1> QED BY InitInv, <1>1, PTL DEF Spec

(* Every variable keeps its type, for any calls, allocations and number of VMs. *)
THEOREM TypeCorrect == Spec => []TypeOK
<1>1. Inv => TypeOK
  BY TypedIsTypeOK DEF Inv, TypeInv
<1> QED BY Invariant, <1>1, PTL

(* At rest the kubeconfig names no VM or the one that exists, however many Setups overlapped *)
(* or were cut short, until a deletion fails to clean up or has company.                     *)
THEOREM EntriesAreCurrent == Spec => []EntryIsCurrent
<1>1. Inv => EntryIsCurrent
  <2> SUFFICES ASSUME EntriesHold, tidy, Running = {}
               PROVE  kube = NoEntry \/ (Exists /\ kube = EntryOf(vm.gen))
    BY DEF Inv, EntryIsCurrent
  <2>1. \A c \in Calls : call[c].step = "idle"
    BY DEF Running
  <2> QED BY <2>1 DEF EntriesHold, EntriesHoldNow, Cleaning
<1> QED BY Invariant, <1>1, PTL

(* A Setup alone that has passed the gVisor step has runsc installed, registered and loaded. *)
THEOREM GVisorIsLoaded == Spec => []GVisorActive
<1>1. Inv => GVisorActive
  BY DEF Inv, ScriptHolds, ScriptIsDone, GVisorActive
<1> QED BY Invariant, <1>1, PTL

(* The VM has the size that is shown until another one is chosen or read over it. *)
THEOREM SizeIsKept == Spec => []SizeIsAllocation
<1>1. Inv => SizeIsAllocation
  BY DEF Inv
<1> QED BY Invariant, <1>1, PTL
=============================================================================
