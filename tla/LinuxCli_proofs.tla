--------------------------- MODULE LinuxCli_proofs ---------------------------
(***************************************************************************)
(* Proofs about LinuxCli, for any processes, logins, devices and           *)
(* allocations: whatever commands are run, fail and are killed, without a  *)
(* race the state file, the Secret and the stored credential are of one    *)
(* login, and the allocation is the one last chosen.                       *)
(***************************************************************************)
EXTENDS LinuxCli, TLAPS

USE CliAssumption

(***************************************************************************)
(* What a command knows at each of its steps                               *)
(***************************************************************************)
\* From here on a command has a credential to work with.
HasCredential(p) ==
    \/ cmd[p].step \in {"storeToken", "storeDevice", "writeDevice", "install", "merge", "deploy"}
    \/ cmd[p].step \in {"choose", "writeChoice"} /\ cmd[p].name # "configure"

CredentialIsHeld == \A p \in Procs : HasCredential(p) => cmd[p].token # None

\* What was read is still what is stored; a file to be written has been emptied.
FileIsKnown(p) ==
    /\ cmd[p].step \in {"credential", "login", "choose"} => cmd[p].device = LoadState.device
    /\ cmd[p].step \in {"credential", "login", "storeToken", "storeDevice", "choose"} =>
         cmd[p].alloc = LoadState.alloc
    /\ cmd[p].step \in Writing => file = EmptyState

\* A login begins with nothing stored, and ends with what Cloud gave it.
LoginIsFresh(p) ==
    /\ cmd[p].step \in {"writeDefaults", "login", "storeToken"} => token = None
    /\ cmd[p].step = "writeDefaults" => cmd[p].device = None
    /\ cmd[p].step \in {"storeToken", "storeDevice"} => LoadState.device = None
    /\ cmd[p].step \in {"storeToken", "storeDevice", "writeDevice"} =>
         cmd[p].device # None /\ deviceOf[cmd[p].token] = cmd[p].device

\* A credential that is used is the one that is stored, with its device.
CredentialIsStored(p) ==
    /\ HasCredential(p) /\ cmd[p].step # "storeToken" => token = cmd[p].token
    /\ cmd[p].step \in {"writeChoice", "install", "merge", "deploy"} /\ cmd[p].device # None =>
         token # None /\ deviceOf[token] = cmd[p].device

\* An uninstall has removed the Secret before it goes on, a purge the device
\* before it forgets the credential.
ClusterIsGone(p) ==
    /\ cmd[p].step \in {"clean", "clear", "writeClear", "forget"} => secret = None
    /\ cmd[p].step = "writeClear" => cmd[p].device = None
    /\ cmd[p].step = "forget" => LoadState.device = None

\* What is about to be saved is the allocation that was chosen, or nobody chose.
AllocationIsCarried(p) ==
    chosen # None => /\ cmd[p].step # "writeDefaults"
                     /\ cmd[p].step \in {"writeDevice", "writeClear"} => cmd[p].alloc = chosen

Knows(p) == /\ FileIsKnown(p)
            /\ LoginIsFresh(p)
            /\ CredentialIsStored(p)
            /\ ClusterIsGone(p)
            /\ AllocationIsCarried(p)

StoresAgree == StateNamesCredential /\ SecretIsStored /\ AllocationIsKept

Unraced == ~raced => file # Torn /\ StoresAgree /\ \A p \in Procs : Knows(p)

Inv == TypeOK /\ CredentialIsHeld /\ Unraced

(***************************************************************************)
(* Types                                                                   *)
(***************************************************************************)
(* What load_state returns is a state, whatever the file holds. *)
LEMMA LoadStateType ==
    ASSUME file \in States \cup {Torn}
    PROVE  LoadState \in States
  BY DEF LoadState, States, EmptyState

(* What a save leaves behind is a state or does not parse. *)
LEMMA WrittenType ==
    ASSUME NEW state \in States
    PROVE  Written(state) \subseteq States \cup {Torn}
  BY DEF Written

(* Every step keeps the types, races or not; that a Secret is never deployed without
   a credential is part of them. *)
LEMMA StepType == TypeOK /\ CredentialIsHeld /\ [Next]_vars => TypeOK' /\ CredentialIsHeld'
<1> SUFFICES ASSUME TypeOK, CredentialIsHeld, [Next]_vars
             PROVE  TypeOK' /\ CredentialIsHeld'
  OBVIOUS
<1>l. LoadState \in States
  BY LoadStateType DEF TypeOK
<1> USE DEF TypeOK, CredentialIsHeld, HasCredential, CmdSteps, Writing, AfterWrite, cluster
<1>1. ASSUME NEW p \in Procs, NEW name \in Commands, Invoke(p, name)
      PROVE  TypeOK' /\ CredentialIsHeld'
  BY <1>1 DEF Invoke, NoCmd
<1>2. ASSUME NEW p \in Procs, Dies(p) PROVE TypeOK' /\ CredentialIsHeld'
  BY <1>2 DEF Dies, End, NoCmd
<1>3. ASSUME NEW p \in Procs, Load(p) PROVE TypeOK' /\ CredentialIsHeld'
  BY <1>3, <1>l DEF Load, States
<1>4. ASSUME NEW p \in Procs, WriteState(p) PROVE TypeOK' /\ CredentialIsHeld'
  BY <1>4, WrittenType DEF WriteState, States, End, NoCmd, Writes
<1>5. ASSUME NEW p \in Procs, FindCredential(p) PROVE TypeOK' /\ CredentialIsHeld'
  BY <1>5 DEF FindCredential
<1>6. ASSUME NEW p \in Procs, NoCredential(p) PROVE TypeOK' /\ CredentialIsHeld'
  BY <1>6 DEF NoCredential, Goto
<1>7. ASSUME NEW p \in Procs, SaveDefaults(p) PROVE TypeOK' /\ CredentialIsHeld'
  BY <1>7 DEF SaveDefaults, Truncate, Writes, EmptyState, States
<1>8. ASSUME NEW p \in Procs, LoginCompletes(p) PROVE TypeOK' /\ CredentialIsHeld'
  BY <1>8 DEF LoginCompletes
<1>9. ASSUME NEW p \in Procs, StoreToken(p) PROVE TypeOK' /\ CredentialIsHeld'
  BY <1>9 DEF StoreToken, Goto, Writes
<1>10. ASSUME NEW p \in Procs, StoreDevice(p) PROVE TypeOK' /\ CredentialIsHeld'
  BY <1>10 DEF StoreDevice, Goto, Truncate, Writes, EmptyState, States
<1>11. ASSUME NEW p \in Procs, Choose(p) PROVE TypeOK' /\ CredentialIsHeld'
  BY <1>11 DEF Choose, Truncate, Writes, EmptyState, States
<1>12. ASSUME NEW p \in Procs, Repair(p) PROVE TypeOK' /\ CredentialIsHeld'
  BY <1>12 DEF Repair
<1>13. ASSUME NEW p \in Procs, InstallK3s(p) PROVE TypeOK' /\ CredentialIsHeld'
  BY <1>13 DEF InstallK3s, Goto
<1>14. ASSUME NEW p \in Procs, MergeKubeconfig(p) PROVE TypeOK' /\ CredentialIsHeld'
  BY <1>14 DEF MergeKubeconfig, Goto
<1>15. ASSUME NEW p \in Procs, Deploy(p) PROVE TypeOK' /\ CredentialIsHeld'
  BY <1>15 DEF Deploy, End, NoCmd, Writes
<1>16. ASSUME NEW p \in Procs, RemoveCluster(p) PROVE TypeOK' /\ CredentialIsHeld'
  BY <1>16 DEF RemoveCluster, Uninstalled, Goto, Writes
<1>17. ASSUME NEW p \in Procs, CleanKubeconfig(p) PROVE TypeOK' /\ CredentialIsHeld'
  BY <1>17 DEF CleanKubeconfig, Goto, End, NoCmd
<1>18. ASSUME NEW p \in Procs, ClearState(p) PROVE TypeOK' /\ CredentialIsHeld'
  BY <1>18, <1>l DEF ClearState, Truncate, Writes, EmptyState, States
<1>19. ASSUME NEW p \in Procs, ForgetToken(p) PROVE TypeOK' /\ CredentialIsHeld'
  BY <1>19 DEF ForgetToken, End, NoCmd, Writes
<1>20. CASE Systemctl
  BY <1>20 DEF Systemctl
<1>21. CASE UNCHANGED vars
  BY <1>21 DEF vars
<1> QED
  BY <1>1, <1>2, <1>3, <1>4, <1>5, <1>6, <1>7, <1>8, <1>9, <1>10, <1>11, <1>12, <1>13,
     <1>14, <1>15, <1>16, <1>17, <1>18, <1>19, <1>20, <1>21
     DEF Next, SetupStep, UninstallStep

(***************************************************************************)
(* Without a race                                                          *)
(***************************************************************************)
\* Nothing stored changes but for Cloud's registering another login, and for a
\* save that was cut short.
Quiet ==
    /\ UNCHANGED <<token, file, secret, raced>>
    /\ \A g \in Grants : deviceOf[g] # None => deviceOf'[g] = deviceOf[g]
    /\ chosen' \in {chosen, None}

(* What a command knows stays true while others do nothing to the stores. *)
LEMMA QuietKnows ==
    ASSUME TypeOK, CredentialIsHeld, Quiet, NEW q \in Procs, Knows(q), cmd'[q] = cmd[q]
    PROVE  Knows(q)'
<1>1. LoadState' = LoadState
  BY DEF LoadState, Quiet
<1>2. cmd[q].token \in Grants \cup {None} /\ token \in Grants \cup {None}
  BY DEF TypeOK
<1>3. FileIsKnown(q)' /\ ClusterIsGone(q)' /\ AllocationIsCarried(q)'
  BY <1>1 DEF Knows, FileIsKnown, ClusterIsGone, AllocationIsCarried, Quiet
<1>4. HasCredential(q)' = HasCredential(q)
  BY DEF HasCredential
<1>5. CredentialIsStored(q)'
  BY <1>1, <1>2, <1>4 DEF Knows, CredentialIsStored, Quiet
<1>6. LoginIsFresh(q)'
  BY <1>1, <1>2 DEF Knows, LoginIsFresh, Quiet, CredentialIsHeld, HasCredential
<1> QED
  BY <1>3, <1>5, <1>6 DEF Knows

(* So does what holds of the stores. *)
LEMMA QuietStores ==
    ASSUME TypeOK, Quiet, StateNamesCredential, SecretIsStored
    PROVE  StateNamesCredential' /\ SecretIsStored'
<1>1. LoadState' = LoadState /\ LoadState \in States
  BY LoadStateType DEF LoadState, Quiet, TypeOK
<1>2. token \in Grants \cup {None} /\ secret \in [device: Devices, token: Grants] \cup {None}
  BY DEF TypeOK
<1> QED
  BY <1>1, <1>2 DEF StateNamesCredential, SecretIsStored, Quiet, States

(* A process that runs no command knows nothing. *)
LEMMA IdleKnows ==
    ASSUME NEW p \in Procs, cmd[p].step = "idle"
    PROVE  Knows(p)
  BY DEF Knows, FileIsKnown, LoginIsFresh, CredentialIsStored, ClusterIsGone, AllocationIsCarried,
         HasCredential, Writing, AfterWrite

(* A write that is no race happens while no other command runs. *)
LEMMA WritesAlone ==
    ASSUME NEW p \in Procs, Writes(p), ~raced'
    PROVE  ~raced /\ \A q \in Procs \ {p} : cmd[q].step = "idle"
  BY DEF Writes, Others

(* A quiet step keeps the invariant if the command that takes it knows what its
   next step needs; leaving a save half done forgets the choice. *)
LEMMA QuietStep ==
    ASSUME Inv, Quiet, NEW p \in Procs, ~raced,
           \A q \in Procs \ {p} : cmd'[q] = cmd[q],
           Knows(p)',
           chosen' # None => cmd[p].step \notin Writing
    PROVE  Unraced'
<1>1. file' # Torn /\ StateNamesCredential' /\ SecretIsStored'
  BY QuietStores DEF Inv, Unraced, StoresAgree, Quiet
<1>2. \A q \in Procs : Knows(q)'
  BY QuietKnows DEF Inv, Unraced
<1>3. AllocationIsKept'
  <2> SUFFICES ASSUME chosen' # None, \A q \in Procs : cmd'[q].step \notin Writing
               PROVE  LoadState' = LoadState /\ LoadState.alloc = chosen
    BY DEF AllocationIsKept, Quiet
  <2>1. \A q \in Procs : cmd[q].step \notin Writing
    OBVIOUS
  <2> QED BY <2>1 DEF Quiet, LoadState, Inv, Unraced, StoresAgree, AllocationIsKept
<1> QED
  BY <1>1, <1>2, <1>3 DEF Unraced, StoresAgree

(* A write keeps it if what is stored then agrees and the command knows it. *)
LEMMA WriteStep ==
    ASSUME NEW p \in Procs, Writes(p), ~raced',
           \A q \in Procs \ {p} : cmd'[q] = cmd[q],
           file' # Torn, StoresAgree', Knows(p)'
    PROVE  Unraced'
<1>1. \A q \in Procs \ {p} : Knows(q)'
  <2> SUFFICES ASSUME NEW q \in Procs \ {p} PROVE Knows(q)'
    OBVIOUS
  <2>1. cmd'[q].step = "idle"
    BY WritesAlone
  <2> QED
    BY <2>1 DEF Knows, FileIsKnown, LoginIsFresh, CredentialIsStored, ClusterIsGone,
                AllocationIsCarried, HasCredential, Writing, AfterWrite
<1> QED
  BY <1>1 DEF Unraced

(* What the shared part of the invariant says. *)
LEMMA AgreeFacts ==
    ASSUME TypeOK, ~raced, StoresAgree
    PROVE  /\ LoadState \in States
           /\ LoadState.device # None => token # None /\ deviceOf[token] = LoadState.device
           /\ secret # None => /\ token # None /\ secret.token = token
                               /\ deviceOf[token] = secret.device
           /\ chosen # None /\ (\A q \in Procs : cmd[q].step \notin Writing) =>
                LoadState.alloc = chosen
<1>1. LoadState \in States
  BY LoadStateType DEF TypeOK
<1> QED
  BY <1>1 DEF TypeOK, StoresAgree, StateNamesCredential, SecretIsStored, AllocationIsKept

(* Every step keeps the invariant: first the steps that write nothing, then those that
   write, which are alone or a race. *)
LEMMA StepUnraced == Inv /\ [Next]_vars => Unraced'
<1> SUFFICES ASSUME Inv, [Next]_vars, ~raced' PROVE Unraced'
  BY DEF Unraced
<1>t. TypeOK /\ CredentialIsHeld
  BY DEF Inv
<1>r. ~raced => /\ file # Torn /\ StoresAgree
                /\ \A p \in Procs : Knows(p)
  BY DEF Inv, Unraced
<1> USE DEF Knows, FileIsKnown, LoginIsFresh, CredentialIsStored, ClusterIsGone,
            AllocationIsCarried, HasCredential, Writing, AfterWrite, cluster
<1>1. ASSUME NEW p \in Procs, NEW name \in Commands, Invoke(p, name) PROVE Unraced'
  <2>1. /\ Quiet /\ ~raced /\ chosen' = chosen
        /\ \A q \in Procs \ {p} : cmd'[q] = cmd[q]
        /\ cmd[p].step = "idle" /\ cmd'[p].step \in {"remove", "load"}
    BY <1>1, <1>t DEF Invoke, Quiet, TypeOK, NoCmd
  <2>2. Knows(p)'
    BY <2>1
  <2>3. cmd[p].step \notin Writing
    BY <2>1
  <2> QED BY <2>1, <2>2, <2>3, QuietStep
<1>2. ASSUME NEW p \in Procs, Dies(p) PROVE Unraced'
  <2>1. /\ Quiet /\ ~raced
        /\ \A q \in Procs \ {p} : cmd'[q] = cmd[q]
        /\ cmd'[p].step = "idle"
        /\ chosen' # None => cmd[p].step \notin Writing
    BY <1>2, <1>t DEF Dies, End, Quiet, TypeOK, NoCmd
  <2>2. Knows(p)'
    BY <2>1
  <2> QED BY <2>1, <2>2, QuietStep
<1>3. ASSUME NEW p \in Procs, Load(p) PROVE Unraced'
  <2>1. /\ Quiet /\ ~raced /\ chosen' = chosen
        /\ \A q \in Procs \ {p} : cmd'[q] = cmd[q]
        /\ cmd[p].step = "load" /\ cmd'[p].name = cmd[p].name
        /\ cmd'[p].device = LoadState.device /\ cmd'[p].alloc = LoadState.alloc
        /\ cmd'[p].step = IF cmd[p].name = "configure" THEN "choose" ELSE "credential"
    BY <1>3, <1>t DEF Load, Quiet, TypeOK
  <2>2. LoadState' = LoadState
    BY <2>1 DEF Quiet, LoadState
  <2>3. Knows(p)'
    BY <2>1, <2>2
  <2>4. cmd[p].step \notin Writing
    BY <2>1
  <2> QED BY <2>1, <2>3, <2>4, QuietStep
<1>4. ASSUME NEW p \in Procs, FindCredential(p) PROVE Unraced'
  <2>1. /\ Quiet /\ ~raced /\ chosen' = chosen
        /\ \A q \in Procs \ {p} : cmd'[q] = cmd[q]
        /\ cmd[p].step = "credential"
        /\ cmd'[p].device = cmd[p].device /\ cmd'[p].alloc = cmd[p].alloc
        /\ cmd'[p].token = token
        /\ cmd'[p].step = "choose"
    BY <1>4, <1>t DEF FindCredential, Quiet, TypeOK
  <2>2. LoadState' = LoadState /\ Knows(p)
    BY <2>1, <1>r DEF Quiet, LoadState
  <2>3. Knows(p)'
    BY <2>1, <2>2 DEF Quiet
  <2>4. cmd[p].step \notin Writing
    BY <2>1
  <2> QED BY <2>1, <2>3, <2>4, QuietStep
<1>5. ASSUME NEW p \in Procs, NoCredential(p) PROVE Unraced'
  <2>1. /\ Quiet /\ ~raced /\ chosen' = chosen
        /\ \A q \in Procs \ {p} : cmd'[q] = cmd[q]
        /\ cmd[p].step = "credential" /\ token = None
        /\ cmd'[p].device = cmd[p].device /\ cmd'[p].alloc = cmd[p].alloc
        /\ cmd'[p].step = "login"
    BY <1>5, <1>t DEF NoCredential, Goto, Quiet, TypeOK
  <2>2. LoadState' = LoadState /\ Knows(p)
    BY <2>1, <1>r DEF Quiet, LoadState
  <2>3. Knows(p)'
    BY <2>1, <2>2 DEF Quiet
  <2>4. cmd[p].step \notin Writing
    BY <2>1
  <2> QED BY <2>1, <2>3, <2>4, QuietStep
<1>6. ASSUME NEW p \in Procs, LoginCompletes(p) PROVE Unraced'
  <2>1. PICK g \in Grants, d \in Devices :
          /\ deviceOf[g] = None
          /\ deviceOf' = [deviceOf EXCEPT ![g] = d]
          /\ cmd' = [cmd EXCEPT ![p].token = g, ![p].device = d, ![p].step = "storeToken"]
    BY <1>6 DEF LoginCompletes
  <2>2. /\ Quiet /\ ~raced /\ chosen' = chosen
        /\ \A q \in Procs \ {p} : cmd'[q] = cmd[q]
        /\ cmd[p].step = "login"
        /\ cmd'[p].token = g /\ cmd'[p].device = d /\ cmd'[p].alloc = cmd[p].alloc
        /\ cmd'[p].step = "storeToken" /\ deviceOf'[g] = d
    BY <1>6, <1>t, <2>1 DEF LoginCompletes, Quiet, TypeOK
  <2>3. LoadState' = LoadState /\ Knows(p) /\ token = None
    BY <2>2, <1>r DEF Quiet, LoadState
  <2>4. LoadState.device = None
    BY <2>2, <2>3, <1>r, <1>t, AgreeFacts
  <2>5. Knows(p)'
    BY <2>2, <2>3, <2>4 DEF Quiet
  <2>6. cmd[p].step \notin Writing
    BY <2>2
  <2> QED BY <2>2, <2>5, <2>6, QuietStep
<1>7. ASSUME NEW p \in Procs, Repair(p) PROVE Unraced'
  <2>1. /\ Quiet /\ ~raced /\ chosen' = chosen
        /\ \A q \in Procs \ {p} : cmd'[q] = cmd[q]
        /\ cmd[p].step = "credential" /\ token # None
        /\ cmd'[p].device = cmd[p].device /\ cmd'[p].token = token
        /\ cmd'[p].step = "install" /\ deviceOf' = deviceOf
    BY <1>7, <1>t DEF Repair, Quiet, TypeOK
  <2>2. LoadState' = LoadState /\ cmd[p].device = LoadState.device
    BY <2>1, <1>r DEF Quiet, LoadState
  <2>3. cmd[p].device # None => deviceOf[token] = cmd[p].device
    BY <2>1, <2>2, <1>r, <1>t, AgreeFacts
  <2>4. Knows(p)'
    BY <2>1, <2>2, <2>3 DEF Quiet
  <2>5. cmd[p].step \notin Writing
    BY <2>1
  <2> QED BY <2>1, <2>4, <2>5, QuietStep
<1>8. ASSUME NEW p \in Procs, InstallK3s(p) \/ MergeKubeconfig(p) PROVE Unraced'
  <2>1. /\ Quiet /\ ~raced /\ chosen' = chosen
        /\ \A q \in Procs \ {p} : cmd'[q] = cmd[q]
        /\ cmd[p].step \in {"install", "merge"}
        /\ cmd'[p].device = cmd[p].device /\ cmd'[p].token = cmd[p].token
        /\ cmd'[p].step \in {"merge", "deploy"} /\ deviceOf' = deviceOf
    BY <1>8, <1>t DEF InstallK3s, MergeKubeconfig, Goto, Quiet, TypeOK
  <2>2. Knows(p)
    BY <2>1, <1>r
  <2>3. Knows(p)'
    BY <2>1, <2>2 DEF Quiet
  <2>4. cmd[p].step \notin Writing
    BY <2>1
  <2> QED BY <2>1, <2>3, <2>4, QuietStep
<1>9. ASSUME NEW p \in Procs, CleanKubeconfig(p) PROVE Unraced'
  <2>1. /\ Quiet /\ ~raced /\ chosen' = chosen
        /\ \A q \in Procs \ {p} : cmd'[q] = cmd[q]
        /\ cmd[p].step = "clean" /\ cmd'[p].step \in {"clear", "idle"}
    BY <1>9, <1>t DEF CleanKubeconfig, Goto, End, NoCmd, Quiet, TypeOK
  <2>2. Knows(p)
    BY <2>1, <1>r
  <2>3. Knows(p)'
    BY <2>1, <2>2 DEF Quiet
  <2>4. cmd[p].step \notin Writing
    BY <2>1
  <2> QED BY <2>1, <2>3, <2>4, QuietStep
<1>10. CASE Systemctl \/ UNCHANGED vars
  <2>1. /\ UNCHANGED <<token, file, deviceOf, secret, cmd, raced, chosen>>
    BY <1>10 DEF Systemctl, vars
  <2> QED
    BY <2>1, <1>r DEF Unraced, StoresAgree, StateNamesCredential, SecretIsStored, AllocationIsKept,
         LoadState
<1>11. ASSUME NEW p \in Procs, WriteState(p) PROVE Unraced'
  <2>1. /\ Writes(p) /\ ~raced /\ UNCHANGED <<token, secret, deviceOf>>
        /\ \A q \in Procs \ {p} : cmd'[q] = cmd[q]
        /\ cmd[p].step \in Writing
        /\ file' \in Written([device |-> cmd[p].device, alloc |-> cmd[p].alloc])
        /\ chosen' = IF \/ cmd[p].step = "writeChoice"
                        \/ cmd[p].step = "writeDefaults" /\ chosen = None
                     THEN cmd[p].alloc ELSE chosen
    BY <1>11, <1>t, WritesAlone DEF WriteState, End, NoCmd, TypeOK
  <2>2. file = EmptyState /\ Knows(p) /\ StoresAgree
    BY <2>1, <1>r
  <2>3. /\ file' = [device |-> cmd[p].device, alloc |-> cmd[p].alloc]
        /\ file' # Torn /\ LoadState' = file'
    BY <2>1, <2>2, <1>t DEF Written, TypeOK, LoadState
  <2>4. CASE cmd[p].step = "writeChoice"
    <3>1. \/ cmd'[p].step = "idle"
          \/ /\ cmd'[p].step = "install" /\ cmd[p].name # "configure"
             /\ cmd'[p].device = cmd[p].device /\ cmd'[p].token = cmd[p].token
      BY <1>11, <1>t, <2>4 DEF WriteState, End, NoCmd, TypeOK
    <3>2. StoresAgree'
      BY <2>1, <2>2, <2>3, <2>4 DEF StoresAgree, StateNamesCredential, SecretIsStored, AllocationIsKept
    <3>3. Knows(p)'
      BY <2>1, <2>2, <2>3, <2>4, <3>1
    <3> QED BY <2>1, <2>3, <3>2, <3>3, WriteStep
  <2>5. CASE cmd[p].step = "writeDefaults"
    <3>1. /\ cmd'[p].step = "login" /\ cmd'[p].device = cmd[p].device /\ cmd'[p].alloc = cmd[p].alloc
      BY <1>11, <1>t, <2>5 DEF WriteState, TypeOK
    <3>2. StoresAgree'
      BY <2>1, <2>2, <2>3, <2>5 DEF StoresAgree, StateNamesCredential, SecretIsStored, AllocationIsKept
    <3>3. Knows(p)'
      BY <2>1, <2>2, <2>3, <2>5, <3>1
    <3> QED BY <2>1, <2>3, <3>2, <3>3, WriteStep
  <2>6. CASE cmd[p].step = "writeDevice"
    <3>1. /\ cmd'[p].step = "choose" /\ cmd'[p].device = cmd[p].device
          /\ cmd'[p].alloc = cmd[p].alloc /\ cmd'[p].token = cmd[p].token
      BY <1>11, <1>t, <2>6 DEF WriteState, TypeOK
    <3>2. StoresAgree'
      BY <2>1, <2>2, <2>3, <2>6, <1>t
         DEF StoresAgree, StateNamesCredential, SecretIsStored, AllocationIsKept, CredentialIsHeld
    <3>3. Knows(p)'
      BY <2>1, <2>2, <2>3, <2>6, <3>1
    <3> QED BY <2>1, <2>3, <3>2, <3>3, WriteStep
  <2>7. CASE cmd[p].step = "writeClear"
    <3>1. cmd'[p].step = "forget"
      BY <1>11, <1>t, <2>7 DEF WriteState, TypeOK
    <3>2. StoresAgree'
      BY <2>1, <2>2, <2>3, <2>7 DEF StoresAgree, StateNamesCredential, SecretIsStored, AllocationIsKept
    <3>3. Knows(p)'
      BY <2>1, <2>2, <2>3, <2>7, <3>1
    <3> QED BY <2>1, <2>3, <3>2, <3>3, WriteStep
  <2> QED BY <2>1, <2>4, <2>5, <2>6, <2>7
<1>12. ASSUME NEW p \in Procs, SaveDefaults(p) PROVE Unraced'
  <2>1. /\ Writes(p) /\ ~raced /\ UNCHANGED <<token, secret, deviceOf, chosen>>
        /\ \A q \in Procs \ {p} : cmd'[q] = cmd[q] /\ cmd[q].step = "idle"
        /\ cmd[p].step = "credential" /\ token = None /\ cmd[p].alloc = None
        /\ file' = EmptyState
        /\ cmd'[p].step = "writeDefaults" /\ cmd'[p].device = cmd[p].device
    BY <1>12, <1>t, WritesAlone DEF SaveDefaults, Truncate, TypeOK
  <2>2. Knows(p) /\ StoresAgree
    BY <2>1, <1>r
  <2>3. file' # Torn /\ LoadState' = EmptyState
    BY <2>1 DEF LoadState, EmptyState, States
  <2>4. chosen = None /\ cmd[p].device = None
    BY <2>1, <2>2, <1>t, AgreeFacts
  <2>5. StoresAgree'
    BY <2>1, <2>2, <2>3 DEF StoresAgree, StateNamesCredential, SecretIsStored, AllocationIsKept, EmptyState
  <2>6. Knows(p)'
    BY <2>1, <2>2, <2>3, <2>4
  <2> QED BY <2>1, <2>3, <2>5, <2>6, WriteStep
<1>13. ASSUME NEW p \in Procs, StoreToken(p) PROVE Unraced'
  <2>1. /\ Writes(p) /\ ~raced /\ UNCHANGED <<file, secret, deviceOf, chosen>>
        /\ \A q \in Procs \ {p} : cmd'[q] = cmd[q] /\ cmd[q].step = "idle"
        /\ cmd[p].step = "storeToken" /\ token' = cmd[p].token
        /\ cmd'[p].step = "storeDevice" /\ cmd'[p].device = cmd[p].device
        /\ cmd'[p].alloc = cmd[p].alloc /\ cmd'[p].token = cmd[p].token
    BY <1>13, <1>t, WritesAlone DEF StoreToken, Goto, TypeOK
  <2>2. Knows(p) /\ StoresAgree /\ file # Torn /\ LoadState' = LoadState
    BY <2>1, <1>r DEF LoadState
  <2>3. secret = None
    BY <2>1, <2>2, <1>t, AgreeFacts
  <2>4. StoresAgree'
    BY <2>1, <2>2, <2>3 DEF StoresAgree, StateNamesCredential, SecretIsStored, AllocationIsKept
  <2>5. Knows(p)'
    BY <2>1, <2>2
  <2> QED BY <2>1, <2>2, <2>4, <2>5, WriteStep
<1>14. ASSUME NEW p \in Procs, StoreDevice(p) PROVE Unraced'
  <2>1. /\ Writes(p) /\ ~raced /\ UNCHANGED <<token, secret, deviceOf, chosen>>
        /\ \A q \in Procs \ {p} : cmd'[q] = cmd[q] /\ cmd[q].step = "idle"
        /\ cmd[p].step = "storeDevice" /\ file' = EmptyState
        /\ cmd'[p].step = "writeDevice" /\ cmd'[p].device = cmd[p].device
        /\ cmd'[p].alloc = cmd[p].alloc /\ cmd'[p].token = cmd[p].token
    BY <1>14, <1>t, WritesAlone DEF StoreDevice, Goto, Truncate, TypeOK
  <2>2. Knows(p) /\ StoresAgree
    BY <2>1, <1>r
  <2>3. file' # Torn /\ LoadState' = EmptyState
    BY <2>1 DEF LoadState, EmptyState, States
  <2>4. chosen # None => cmd[p].alloc = chosen
    BY <2>1, <2>2, <1>t, AgreeFacts
  <2>5. StoresAgree'
    BY <2>1, <2>2, <2>3 DEF StoresAgree, StateNamesCredential, SecretIsStored, AllocationIsKept, EmptyState
  <2>6. Knows(p)'
    BY <2>1, <2>2, <2>3, <2>4
  <2> QED BY <2>1, <2>3, <2>5, <2>6, WriteStep
<1>15. ASSUME NEW p \in Procs, Choose(p) PROVE Unraced'
  <2>1. /\ Writes(p) /\ ~raced /\ UNCHANGED <<token, secret, deviceOf, chosen>>
        /\ \A q \in Procs \ {p} : cmd'[q] = cmd[q] /\ cmd[q].step = "idle"
        /\ cmd[p].step = "choose" /\ file' = EmptyState
        /\ cmd'[p].step = "writeChoice" /\ cmd'[p].device = cmd[p].device
        /\ cmd'[p].name = cmd[p].name /\ cmd'[p].token = cmd[p].token
    BY <1>15, <1>t, WritesAlone DEF Choose, Truncate, TypeOK
  <2>2. Knows(p) /\ StoresAgree
    BY <2>1, <1>r
  <2>3. file' # Torn /\ LoadState' = EmptyState
    BY <2>1 DEF LoadState, EmptyState, States
  <2>4. cmd[p].device # None => token # None /\ deviceOf[token] = cmd[p].device
    BY <2>1, <2>2, <1>t, AgreeFacts
  <2>5. StoresAgree'
    BY <2>1, <2>2, <2>3 DEF StoresAgree, StateNamesCredential, SecretIsStored, AllocationIsKept, EmptyState
  <2>6. Knows(p)'
    BY <2>1, <2>2, <2>3, <2>4
  <2> QED BY <2>1, <2>3, <2>5, <2>6, WriteStep
<1>16. ASSUME NEW p \in Procs, Deploy(p) PROVE Unraced'
  <2>1. /\ Writes(p) /\ ~raced /\ UNCHANGED <<token, file, deviceOf, chosen>>
        /\ \A q \in Procs \ {p} : cmd'[q] = cmd[q] /\ cmd[q].step = "idle"
        /\ cmd[p].step = "deploy" /\ cmd[p].device # None
        /\ secret' = [device |-> cmd[p].device, token |-> cmd[p].token]
        /\ cmd'[p].step = "idle"
    BY <1>16, <1>t, WritesAlone DEF Deploy, End, NoCmd, TypeOK
  <2>2. Knows(p) /\ StoresAgree /\ file # Torn /\ LoadState' = LoadState
    BY <2>1, <1>r DEF LoadState
  <2>3. StoresAgree'
    BY <2>1, <2>2 DEF StoresAgree, StateNamesCredential, SecretIsStored, AllocationIsKept
  <2>4. Knows(p)'
    BY <2>1
  <2> QED BY <2>1, <2>2, <2>3, <2>4, WriteStep
<1>17. ASSUME NEW p \in Procs, RemoveCluster(p) PROVE Unraced'
  <2>1. /\ Writes(p) /\ ~raced /\ UNCHANGED <<token, file, deviceOf, chosen>>
        /\ \A q \in Procs \ {p} : cmd'[q] = cmd[q] /\ cmd[q].step = "idle"
        /\ cmd[p].step = "remove" /\ secret' = None
        /\ cmd'[p].step = "clean"
    BY <1>17, <1>t, WritesAlone DEF RemoveCluster, Uninstalled, Goto, TypeOK
  <2>2. Knows(p) /\ StoresAgree /\ file # Torn /\ LoadState' = LoadState
    BY <2>1, <1>r DEF LoadState
  <2>3. StoresAgree'
    BY <2>1, <2>2 DEF StoresAgree, StateNamesCredential, SecretIsStored, AllocationIsKept
  <2>4. Knows(p)'
    BY <2>1
  <2> QED BY <2>1, <2>2, <2>3, <2>4, WriteStep
<1>18. ASSUME NEW p \in Procs, ClearState(p) PROVE Unraced'
  <2>1. /\ Writes(p) /\ ~raced /\ UNCHANGED <<token, secret, deviceOf, chosen>>
        /\ \A q \in Procs \ {p} : cmd'[q] = cmd[q] /\ cmd[q].step = "idle"
        /\ cmd[p].step = "clear" /\ file' = EmptyState
        /\ cmd'[p].step = "writeClear" /\ cmd'[p].device = None
        /\ cmd'[p].alloc = LoadState.alloc
    BY <1>18, <1>t, WritesAlone DEF ClearState, Truncate, TypeOK
  <2>2. Knows(p) /\ StoresAgree
    BY <2>1, <1>r
  <2>3. file' # Torn /\ LoadState' = EmptyState
    BY <2>1 DEF LoadState, EmptyState, States
  <2>4. chosen # None => LoadState.alloc = chosen
    BY <2>1, <2>2, <1>t, AgreeFacts
  <2>5. StoresAgree'
    BY <2>1, <2>2, <2>3 DEF StoresAgree, StateNamesCredential, SecretIsStored, AllocationIsKept, EmptyState
  <2>6. Knows(p)'
    BY <2>1, <2>2, <2>3, <2>4
  <2> QED BY <2>1, <2>3, <2>5, <2>6, WriteStep
<1>19. ASSUME NEW p \in Procs, ForgetToken(p) PROVE Unraced'
  <2>1. /\ Writes(p) /\ ~raced /\ UNCHANGED <<file, secret, deviceOf, chosen>>
        /\ \A q \in Procs \ {p} : cmd'[q] = cmd[q] /\ cmd[q].step = "idle"
        /\ cmd[p].step = "forget" /\ token' = None
        /\ cmd'[p].step = "idle"
    BY <1>19, <1>t, WritesAlone DEF ForgetToken, End, NoCmd, TypeOK
  <2>2. Knows(p) /\ StoresAgree /\ file # Torn /\ LoadState' = LoadState
    BY <2>1, <1>r DEF LoadState
  <2>3. StoresAgree'
    BY <2>1, <2>2 DEF StoresAgree, StateNamesCredential, SecretIsStored, AllocationIsKept
  <2>4. Knows(p)'
    BY <2>1
  <2> QED BY <2>1, <2>2, <2>3, <2>4, WriteStep
<1> QED
  BY <1>1, <1>2, <1>3, <1>4, <1>5, <1>6, <1>7, <1>8, <1>9, <1>10,
     <1>11, <1>12, <1>13, <1>14, <1>15, <1>16, <1>17, <1>18, <1>19
     DEF Next, SetupStep, UninstallStep

(* At first nothing is stored and no command runs. *)
LEMMA InitInv == Init => Inv
<1> SUFFICES ASSUME Init PROVE Inv
  OBVIOUS
<1>1. /\ TypeOK /\ CredentialIsHeld
      /\ \A p \in Procs : cmd[p].step = "idle"
  BY DEF Init, TypeOK, CredentialIsHeld, HasCredential, EmptyState, States, NoCmd, CmdSteps, cluster
<1>2. \A p \in Procs : Knows(p)
  BY <1>1, IdleKnows
<1>3. file # Torn /\ StoresAgree
  BY DEF Init, StoresAgree, StateNamesCredential, SecretIsStored, AllocationIsKept, LoadState,
         EmptyState, States, cluster
<1> QED
  BY <1>1, <1>2, <1>3 DEF Inv, Unraced

(***************************************************************************)
(* The theorems                                                            *)
(***************************************************************************)
(* The invariant holds of every command line session. *)
LEMMA Invariant == Spec => []Inv
<1>1. Inv /\ [Next]_vars => Inv'
  BY StepType, StepUnraced DEF Inv
<1> QED BY InitInv, <1>1, PTL DEF Spec

(* Stores, processes and the Secret keep their types, races or not; no command
   deploys a Secret without a credential or device. *)
THEOREM TypeCorrect == Spec => []TypeOK
<1>1. Inv => TypeOK
  BY DEF Inv
<1> QED BY Invariant, <1>1, PTL

(* cli.py:88-93, 318-328: however commands are killed and run again, the state
   file names the device of no other login than the stored credential's. *)
THEOREM StatePairing == Spec => []StateNamesCredential
<1>1. Inv => StateNamesCredential
  BY DEF Inv, Unraced, StoresAgree, StateNamesCredential
<1> QED BY Invariant, <1>1, PTL

(* cli.py:177-184, 318-328: the cluster runs with the stored credential and its device, or
   with none. *)
THEOREM SecretPairing == Spec => []SecretIsStored
<1>1. Inv => SecretIsStored
  BY DEF Inv, Unraced, StoresAgree, SecretIsStored
<1> QED BY Invariant, <1>1, PTL

(* state.py:9-11: the saved allocation is the one last chosen, through
   purges, failed logins and new ones. *)
THEOREM AllocationSurvives == Spec => []AllocationIsKept
<1>1. Inv => AllocationIsKept
  BY DEF Inv, Unraced, StoresAgree, AllocationIsKept
<1> QED BY Invariant, <1>1, PTL
=============================================================================
