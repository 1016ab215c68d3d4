------------------------ MODULE Prerequisites_proofs ------------------------
(***************************************************************************)
(* Proofs about Prerequisites, on every kind of computer and for any       *)
(* number of Setups, installations and restarts.                           *)
(***************************************************************************)
EXTENDS Prerequisites, TLAPS

\* Past the first step Setup has a Multipass that this process finds: the PATH
\* loses it only to a relaunch, which ends Setup.
MultipassIsFound ==
    setup \in {"hyperv", "enable", "ready"} => _multipass_on_path

Inv == TypeOK /\ MultipassIsFound /\ VMCanBeCreated /\ RestartIsNeeded

(* Before the first click nothing is asked and Setup is nowhere. *)
LEMMA InitInv == Init => Inv
  BY DEF Init, Inv, TypeOK, MultipassIsFound, VMCanBeCreated, RestartIsNeeded, Hosts, Programs, Advice

(* Every step of Setup, of the user and of the computer keeps the invariant. *)
LEMMA StepInv == Inv /\ [Next]_vars => Inv'
<1> SUFFICES ASSUME Inv, [Next]_vars PROVE Inv'
  OBVIOUS
<1> USE DEF Inv, TypeOK, MultipassIsFound, VMCanBeCreated, RestartIsNeeded, Programs, Advice,
            _multipass_on_path, Ask, Goto
<1>1. CASE EnsureMultipass
  BY <1>1 DEF EnsureMultipass
<1>2. CASE Install
  BY <1>2 DEF Install
<1>3. CASE InstallFails
  BY <1>3 DEF InstallFails
<1>4. CASE EnsureHyperV
  BY <1>4 DEF EnsureHyperV, EnabledAnswers
<1>5. CASE EnableHyperV
  BY <1>5 DEF EnableHyperV
<1>6. CASE EnableFails
  BY <1>6 DEF EnableFails
<1>7. CASE CreateVM
  BY <1>7 DEF CreateVM
<1>8. CASE ClickSetup
  BY <1>8 DEF ClickSetup
<1>9. CASE InstallByHand
  BY <1>9 DEF InstallByHand
<1>10. CASE InstallVirtualBox
  BY <1>10 DEF InstallVirtualBox
<1>11. CASE Relaunch
  BY <1>11 DEF Relaunch, _ensure_tool_dirs_on_path
<1>12. CASE Reboot
  BY <1>12 DEF Reboot, _ensure_tool_dirs_on_path
<1>13. CASE UNCHANGED vars
  BY <1>13 DEF vars
<1> QED
  BY <1>1, <1>2, <1>3, <1>4, <1>5, <1>6, <1>7, <1>8, <1>9, <1>10, <1>11, <1>12, <1>13
     DEF Next, SetupStep

(* Setup, its messages and the computer are always in a state that the code knows,
   and only a Windows that has Hyper-V is asked to turn it on. *)
THEOREM TypeCorrect == Spec => []TypeOK
<1>1. Inv => TypeOK
  BY DEF Inv
<1> QED BY InitInv, StepInv, <1>1, PTL DEF Spec

(* _ensure_multipass_installed and _ensure_hyperv_enabled let Setup go on only when
   the VM can be created. *)
THEOREM VMComesAfterPrerequisites == Spec => []VMCanBeCreated
<1>1. Inv => VMCanBeCreated
  BY DEF Inv
<1> QED BY InitInv, StepInv, <1>1, PTL DEF Spec

(* A restart of Windows is asked for only when Hyper-V waits for one. *)
THEOREM RestartsAreNeeded == Spec => []RestartIsNeeded
<1>1. Inv => RestartIsNeeded
  BY DEF Inv
<1> QED BY InitInv, StepInv, <1>1, PTL DEF Spec
=============================================================================
