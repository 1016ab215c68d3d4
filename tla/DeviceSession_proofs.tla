------------------------ MODULE DeviceSession_proofs ------------------------
(***************************************************************************)
(* Proofs about DeviceSession, for any number of logins, devices, calls    *)
(* of the page and allocations.                                            *)
(***************************************************************************)
EXTENDS DeviceSession, TLAPS

\* A fresh state is a state.
LEMMA EmptyStateType == EmptyState \in SavedState
BY DEF EmptyState, SavedState

\* What a reader finds in the state file is a state.
LEMMA LoadStateType ==
    ASSUME NEW f \in SavedState \union {Torn, Garbled}
    PROVE  LoadState(f) \in SavedState
BY ConstantsAssumption DEF LoadState, SavedState, EmptyState

\* A fresh state does not stand for a device, a broken file for none.
LEMMA LoadStateOf ==
    /\ LoadState(Torn).device = None
    /\ LoadState(Garbled).device = None
    /\ \A state \in SavedState : LoadState(state) = state
BY ConstantsAssumption DEF LoadState, EmptyState, SavedState

\* The steps of a save keep the types of what they change.
LEMMA SaveType ==
    ASSUME TypeOK, NEW t \in Threads, BeginSave(t) \/ Flush(t) \/ DropSave(t)
    PROVE  /\ save' \in [Threads -> [step : SaveSteps, state : SavedState]]
           /\ unsettled' \in BOOLEAN
           /\ cut' \in BOOLEAN
<1>1. CASE BeginSave(t)
      BY <1>1 DEF BeginSave, SaveSteps, TypeOK
<1>2. CASE Flush(t)
      BY <1>2, EmptyStateType DEF Flush, NoSave, SaveSteps, TypeOK
<1>3. CASE DropSave(t)
      BY <1>3, EmptyStateType DEF DropSave, NoSave, SaveSteps, TypeOK
<1> QED BY <1>1, <1>2, <1>3

\* A flush leaves a state or a broken file.
LEMMA FlushType ==
    ASSUME TypeOK, NEW t \in Threads, Flush(t)
    PROVE  file' \in SavedState \union {Torn, Garbled}
BY DEF Flush, Written, TypeOK

\* Types hold initially ...
THEOREM InitType == Init => TypeOK
<1> SUFFICES ASSUME Init PROVE TypeOK
    OBVIOUS
<1>1. IdleBeat \in [pc : BeatSteps, token : Grants \union {None}, saved : SavedState]
    BY EmptyStateType DEF IdleBeat, BeatSteps
<1>2. IdleCall \in [pc : CallSteps, token : Grants \union {None},
                   device : Devices \union {None}]
    BY DEF IdleCall, CallSteps
<1>3. "idle" \in LoginSteps /\ "closed" \in Pages
    BY DEF LoginSteps, Pages
<1>4. NoSave \in [step : SaveSteps, state : SavedState]
    BY EmptyStateType DEF NoSave, SaveSteps
<1> QED BY <1>1, <1>2, <1>3, <1>4, EmptyStateType DEF Init, TypeOK

\* ... and every step of every actor keeps them.
THEOREM NextType == TypeOK /\ [Next]_vars => TypeOK'
<1> SUFFICES ASSUME TypeOK, [Next]_vars PROVE TypeOK'
    OBVIOUS
<1> USE DEF local, saves, outside, ui, gui
<1>t. \A t \in Grants \union Calls : t \in Threads
      BY DEF Threads
<1>1. CASE Launch
      BY <1>1, LoadStateType DEF Launch, Pages, TypeOK
<1>2. CASE ResolveStart
      BY <1>2 DEF ResolveStart, Show, LoadCalls, Pages, TypeOK
<1>3. CASE CheckReply
      BY <1>3 DEF CheckReply, Show, LoadCalls, Pages, TypeOK
<1>4. CASE Exit
  <2>1. NoSave \in [step : SaveSteps, state : SavedState]
        BY EmptyStateType DEF NoSave, SaveSteps
  <2> QED BY <1>4, <2>1 DEF Exit, OpensWindow, IdleCall, Pages, LoginSteps, CallSteps,
             SavedState, EmptyState, TypeOK
<1>5. CASE StartLoginIgnored
      BY <1>5 DEF StartLoginIgnored, TypeOK
<1>6. ASSUME NEW g \in Grants, StartLogin(g) PROVE TypeOK'
      BY <1>6 DEF StartLogin, LoginSteps, TypeOK
<1>7. ASSUME NEW g \in Grants, Revoke(g) PROVE TypeOK'
      BY <1>7 DEF Revoke, TypeOK
<1>8. ASSUME NEW g \in Grants, LoginThread(g) PROVE TypeOK'
  <2>1. CASE Register(g)
    <3>1. CASE NeedsDefaults
      <4>1. SaveDefaults(g)
            BY <2>1, <3>1 DEF Register
      <4>2. BeginSave(g) /\ file' = file
            BY <4>1 DEF SaveDefaults, BeginSave
      <4>3. mem' \in SavedState
            BY <4>1, ConstantsAssumption DEF SaveDefaults, SavedState, TypeOK
      <4>4. login' \in [Grants -> LoginSteps]
            BY <2>1, <3>1 DEF Register, LoginSteps, TypeOK
      <4> QED BY <1>t, <2>1, <4>2, <4>3, <4>4, SaveType DEF Register, TypeOK
    <3>2. CASE ~NeedsDefaults
          BY <2>1, <3>2 DEF Register, LoginSteps, TypeOK
    <3> QED BY <3>1, <3>2
  <2>2. CASE SavePayload(g)
        BY <1>t, <2>2, SaveType, FlushType DEF SavePayload, LoginSteps, TypeOK
  <2>3. CASE LoginFails(g)
        BY <1>t, <2>3, SaveType DEF LoginFails, LoginSteps, TypeOK
  <2>4. CASE LoginCompletes(g)
    <3> PICK d \in Devices : deviceOf' = [deviceOf EXCEPT ![g] = d]
        BY <2>4 DEF LoginCompletes
    <3>1. deviceOf' \in [Grants -> Devices \union {None}]
        BY DEF TypeOK
    <3>2. login' \in [Grants -> LoginSteps]
        BY <2>4 DEF LoginCompletes, LoginSteps, TypeOK
    <3> QED BY <2>4, <3>1, <3>2 DEF LoginCompletes, TypeOK
  <2>5. CASE StoreToken(g)
        BY <2>5 DEF StoreToken, OpensWindow, LoginSteps, TypeOK
  <2>6. CASE StoreDevice(g)
    <3>1. /\ mem' \in SavedState /\ file' = file
          /\ login' \in [Grants -> LoginSteps]
          BY <2>6 DEF StoreDevice, BeginSave, LoginSteps, SavedState, TypeOK
    <3>2. BeginSave(g)
          BY <2>6 DEF StoreDevice
    <3> QED BY <1>t, <2>6, <3>1, <3>2, SaveType DEF StoreDevice, TypeOK
  <2>7. CASE FinishLogin(g)
    <3>1. Flush(g) /\ Show("app")
          BY <2>7 DEF FinishLogin
    <3>2. /\ page' \in Pages /\ buttons' \in BOOLEAN /\ loads' \subseteq LoadCalls
          /\ busy' \in Calls \union {None}
          BY <3>1 DEF Show, LoadCalls, Pages
    <3> QED BY <1>t, <2>7, <3>1, <3>2, SaveType, FlushType DEF FinishLogin, LoginSteps, TypeOK
  <2>8. CASE LoginDies(g)
        BY <1>t, <2>8, SaveType DEF LoginDies, OpensWindow, LoginSteps, TypeOK
  <2> QED BY <1>8, <2>1, <2>2, <2>3, <2>4, <2>5, <2>6, <2>7, <2>8 DEF LoginThread
<1>9. ASSUME NEW c \in Calls, BridgeThread(c) PROVE TypeOK'
  <2> USE DEF Step, Return, IdleCall
  <2>1. CASE DeviceInfo(c)
        BY <2>1 DEF DeviceInfo, CallSteps, TypeOK
  <2>2. CASE DeviceInfoSend(c)
    <3>1. call' \in [Calls -> [pc : CallSteps, token : Grants \union {None},
                              device : Devices \union {None}]]
      <4>1. mem.device \in Devices \union {None}
            BY DEF SavedState, TypeOK
      <4>2. call[c] \in [pc : CallSteps, token : Grants \union {None},
                         device : Devices \union {None}]
            BY DEF TypeOK
      <4>3. \/ call' = [call EXCEPT ![c] = [IdleCall EXCEPT !.pc = "idle"]]
            \/ call' = [call EXCEPT ![c] = [pc |-> "info_sent", token |-> call[c].token,
                                           device |-> mem.device]]
            BY <2>2, <4>2 DEF DeviceInfoSend
      <4>4. /\ [IdleCall EXCEPT !.pc = "idle"] \in [pc : CallSteps, token : Grants \union {None},
                         device : Devices \union {None}]
            /\ [pc |-> "info_sent", token |-> call[c].token, device |-> mem.device]
               \in [pc : CallSteps, token : Grants \union {None}, device : Devices \union {None}]
            BY <4>1, <4>2 DEF CallSteps
      <4> QED BY <4>3, <4>4 DEF TypeOK
    <3> QED BY <2>2, <3>1 DEF DeviceInfoSend, TypeOK
  <2>3. CASE DeviceInfoReply(c)
    <3>1. /\ mem' \in SavedState /\ file' = file
          /\ BeginSave(c) \/ UNCHANGED saves
          BY <2>3 DEF DeviceInfoReply, BeginSave, SavedState, TypeOK
    <3>2. call' \in [Calls -> [pc : CallSteps, token : Grants \union {None},
                              device : Devices \union {None}]]
          BY <2>3 DEF DeviceInfoReply, CallSteps, TypeOK
    <3>3. CASE BeginSave(c)
          BY <1>t, <2>3, <3>1, <3>2, <3>3, SaveType DEF DeviceInfoReply, TypeOK
    <3>4. CASE UNCHANGED saves
          BY <2>3, <3>1, <3>2, <3>4 DEF DeviceInfoReply, TypeOK
    <3> QED BY <3>1, <3>3, <3>4
  <2>4. CASE ClusterStatus(c)
    <3>1. CASE NeedsDefaults
      <4>1. /\ BeginSave(c) /\ file' = file
            /\ mem' \in SavedState
            /\ call' \in [Calls -> [pc : CallSteps, token : Grants \union {None},
                                   device : Devices \union {None}]]
            <5>1. DefaultAlloc \in Allocs
                  BY ConstantsAssumption
            <5>2. BeginSave(c) /\ file' = file /\ mem' = [mem EXCEPT !.alloc = DefaultAlloc]
                  BY <2>4, <3>1 DEF ClusterStatus, SaveDefaults, BeginSave
            <5>3. mem' \in SavedState
                  BY <5>1, <5>2 DEF SavedState, TypeOK
            <5>4. call' = [call EXCEPT ![c] = [IdleCall EXCEPT !.pc = "status_write"]]
                  BY <2>4, <3>1 DEF ClusterStatus, Step
            <5>5. IdleCall \in [pc : CallSteps, token : Grants \union {None},
                                device : Devices \union {None}]
                  BY DEF IdleCall, CallSteps
            <5>6. [IdleCall EXCEPT !.pc = "status_write"]
                     \in [pc : CallSteps, token : Grants \union {None},
                          device : Devices \union {None}]
                  BY <5>5 DEF CallSteps
            <5> QED BY <5>2, <5>3, <5>4, <5>6 DEF TypeOK
      <4> QED BY <1>t, <2>4, <4>1, SaveType DEF ClusterStatus, TypeOK
    <3>2. CASE ~NeedsDefaults
          BY <2>4, <3>2 DEF ClusterStatus, TypeOK
    <3> QED BY <3>1, <3>2
  <2>5. CASE Setup(c)
    <3>1. /\ BeginSave(c) /\ file' = file
          /\ mem' \in SavedState
          /\ call' \in [Calls -> [pc : CallSteps, token : Grants \union {None},
                                 device : Devices \union {None}]]
          BY <2>5 DEF Setup, BeginSave, CallSteps, SavedState, TypeOK
    <3> QED BY <1>t, <2>5, <3>1, SaveType DEF Setup, TypeOK
  <2>6. CASE CallWrite(c)
    <3>1. call' \in [Calls -> [pc : CallSteps, token : Grants \union {None},
                              device : Devices \union {None}]]
          BY <2>6 DEF CallWrite, CallSteps, TypeOK
    <3>2. Flush(c)
          BY <2>6 DEF CallWrite
    <3> QED BY <1>t, <2>6, <3>1, <3>2, SaveType, FlushType DEF CallWrite, TypeOK
  <2>7. CASE CreateFails(c)
        BY <2>7 DEF CreateFails, Rendered, CallSteps, TypeOK
  <2>8. CASE CreateDone(c)
    <3>1. mem.device \in Devices \union {None}
        BY DEF SavedState, TypeOK
    <3>2. call' \in [Calls -> [pc : CallSteps, token : Grants \union {None},
                              device : Devices \union {None}]]
      <4>1. call' = [call EXCEPT ![c] = [call[c] EXCEPT !.pc = "deploy",
                                                       !.device = mem.device]]
            BY <2>8 DEF CreateDone, TypeOK
      <4>2. [call[c] EXCEPT !.pc = "deploy", !.device = mem.device]
              \in [pc : CallSteps, token : Grants \union {None},
                   device : Devices \union {None}]
        <5>1. call[c] \in [pc : CallSteps, token : Grants \union {None},
                           device : Devices \union {None}]
              BY DEF TypeOK
        <5> QED BY <3>1, <5>1 DEF CallSteps
      <4> QED BY <4>1, <4>2 DEF TypeOK
    <3>3. interference' \in BOOLEAN
        BY <2>8 DEF CreateDone, OpensWindow
    <3> QED BY <2>8, <3>2, <3>3 DEF CreateDone, TypeOK
  <2>9. CASE Deploy(c)
        BY <2>9 DEF Deploy, Rendered, CallSteps, TypeOK
  <2>10. CASE Logout(c)
        BY <2>10 DEF Logout, CallSteps, TypeOK
  <2>11. CASE LogoutDelete(c)
        BY <2>11 DEF LogoutDelete, CallSteps, TypeOK
  <2>12. CASE LogoutClear(c)
    <3>1. /\ BeginSave(c) /\ file' = file
          /\ mem' \in SavedState
          /\ call' \in [Calls -> [pc : CallSteps, token : Grants \union {None},
                                 device : Devices \union {None}]]
          BY <2>12 DEF LogoutClear, BeginSave, CallSteps, SavedState, TypeOK
    <3> QED BY <1>t, <2>12, <3>1, SaveType DEF LogoutClear, TypeOK
  <2>13. CASE LogoutWrite(c)
    <3>1. Flush(c) /\ Show("login")
          BY <2>13 DEF LogoutWrite
    <3>2. /\ page' \in Pages /\ buttons' \in BOOLEAN /\ loads' \subseteq LoadCalls
          /\ busy' \in Calls \union {None}
          BY <3>1 DEF Show, LoadCalls, Pages
    <3> QED BY <1>t, <2>13, <3>1, <3>2, SaveType, FlushType DEF LogoutWrite, CallSteps, TypeOK
  <2>14. CASE CallDies(c)
        BY <1>t, <2>14, SaveType DEF CallDies, CallSteps, TypeOK
  <2> QED BY <1>9, <2>1, <2>2, <2>3, <2>4, <2>5, <2>6, <2>7, <2>8, <2>9, <2>10,
             <2>11, <2>12, <2>13, <2>14 DEF BridgeThread
<1>10. CASE Heartbeat
  <2> USE DEF IdleBeat
  <2>1. CASE HbLoad
        BY <2>1, LoadStateType DEF HbLoad, BeatSteps, TypeOK
  <2>2. CASE HbSend
    <3>1. hb' \in {IdleBeat, [pc |-> "sent", token |-> keychain, saved |-> hb.saved]}
          BY <2>2 DEF HbSend, TypeOK
    <3>2. hb' \in [pc : BeatSteps, token : Grants \union {None}, saved : SavedState]
          BY <3>1, EmptyStateType DEF BeatSteps, TypeOK
    <3> QED BY <2>2, <3>2 DEF HbSend, TypeOK
  <2>3. CASE HbAnswered
        BY <2>3, EmptyStateType DEF HbAnswered, HbAnswer, BeatSteps, TypeOK
  <2>4. CASE HbDelete
        BY <2>4 DEF HbDelete, BeatSteps, TypeOK
  <2>5. CASE HbClear
    <3>1. hb' = [hb EXCEPT !.pc = "write", !.saved = [hb.saved EXCEPT !.device = None]]
        BY <2>5 DEF HbClear, TypeOK
    <3>2. [hb.saved EXCEPT !.device = None] \in SavedState
        BY DEF SavedState, TypeOK
    <3>3. hb' \in [pc : BeatSteps, token : Grants \union {None}, saved : SavedState]
        BY <3>1, <3>2 DEF BeatSteps, TypeOK
    <3> QED BY <2>5, <3>3 DEF HbClear, TypeOK
  <2>6. CASE HbWrite
        BY <2>6, EmptyStateType DEF HbWrite, Written, BeatSteps, TypeOK
  <2>7. CASE HbDies
        BY <2>7, EmptyStateType DEF HbDies, BeatSteps, TypeOK
  <2> QED BY <1>10, <2>1, <2>2, <2>3, <2>4, <2>5, <2>6, <2>7 DEF Heartbeat
<1>11. CASE DaemonExit
      BY <1>11, EmptyStateType DEF DaemonExit, IdleBeat, BeatSteps, TypeOK
<1>12. CASE UNCHANGED vars
      BY <1>12 DEF vars, TypeOK
<1>13. ASSUME NEW t \in Threads, SaveOpens(t) PROVE TypeOK'
      BY <1>13 DEF SaveOpens, SaveSteps, TypeOK
<1>14. ASSUME NEW t \in Threads, SaveDumps(t) PROVE TypeOK'
      BY <1>14 DEF SaveDumps, SaveSteps, TypeOK
<1> QED BY <1>1, <1>2, <1>3, <1>4, <1>5, <1>6, <1>7, <1>8, <1>9, <1>10, <1>11,
           <1>12, <1>13, <1>14 DEF Next

\* Every variable keeps its type, in every execution.
THEOREM TypeCorrect == Spec => []TypeOK
BY InitType, NextType, PTL DEF Spec

-----------------------------------------------------------------------------
(***************************************************************************)
(* What the proofs need to know of the locals of the threads.              *)
(***************************************************************************)
Known(d) == d = None \/ \E h \in Grants : deviceOf[h] = d

Granted(t) == t = None \/ deviceOf[t] # None

Refused(t, d) == t \in revoked \/ deviceOf[t] # d

\* Every device id on this machine is one that Cloud has issued to a login.
DevicesAreKnown ==
    /\ Known(mem.device)
    /\ Known(LoadState(file).device)
    /\ Known(hb.saved.device)
    /\ \A c \in Calls : Known(call[c].device)
    /\ \A t \in Threads : Known(save[t].state.device)

\* Every credential on this machine is one that Cloud has issued, and a
\* login has its device exactly from the moment Cloud completes it.
TokensAreGranted ==
    /\ Granted(keychain)
    /\ Granted(hb.token)
    /\ \A c \in Calls : Granted(call[c].token)
    /\ \A g \in Grants :
         deviceOf[g] = None <=> login[g] \in {"idle", "started", "saving", "polling"}

\* A request carries a credential and a device id, and the daemon deletes
\* a credential only after Cloud has refused the pair it had read.
RequestsAreComplete ==
    /\ hb.pc \in {"sent", "delete"} => hb.token # None /\ hb.saved.device # None
    /\ hb.pc = "delete" => Refused(hb.token, hb.saved.device)
    /\ hb.pc = "write" => hb.saved.device = None
    /\ \A c \in Calls :
         /\ call[c].pc \in {"info", "info_sent"} => call[c].token # None
         /\ call[c].pc = "info_sent" => call[c].device # None

\* Unless saves have overlapped or failed, one is under way at most, and it
\* writes what is in memory.
SavesAreCurrent ==
    unsettled \/ /\ \A t, u \in Saving : t = u
                 /\ \A t \in Threads : save[t].step = "write" => save[t].state = mem

\* The windows of SessionIsPaired and SecretIsPaired, while nobody interferes.
Alone ==
    /\ \A g, h \in Storing : g = h
    /\ \A g \in Storing : keychain \in {None, g}
    /\ Storing = {} => MemoryIsPaired
    /\ \A c \in Deploying :
         keychain # None /\ call[c].device # None => deviceOf[keychain] = call[c].device
    /\ secret # None => deviceOf[secret.token] = secret.device

FileFollows == Storing = {} => unsettled \/ Unsaved # {} \/ FileIsPaired

WindowsAreAlone == interference \/ (Alone /\ FileFollows)

\* A process that has ended runs no thread and remembers nothing.
ClosedIsQuiet ==
    page = "closed" =>
        /\ mem = EmptyState
        /\ Saving = {}
        /\ ~unsettled
        /\ \A c \in Calls : call[c].pc = "idle"
        /\ \A g \in Grants : login[g] \in {"idle", "done", "lost"}

SessionInv ==
    /\ TypeOK
    /\ ClosedIsQuiet
    /\ SingleLoginFlow
    /\ DiskForgetsWithMemory
    /\ DevicesAreKnown
    /\ TokensAreGranted
    /\ RequestsAreComplete
    /\ SavesAreCurrent
    /\ WindowsAreAlone

-----------------------------------------------------------------------------
(***************************************************************************)
(* Frames: what the actors leave alone, and how a step may change the      *)
(* credential, the file and the device id in memory.                       *)
(***************************************************************************)
\* A call of the page leaves the logins, the flag and the daemon alone.
LEMMA BridgeFrame ==
    ASSUME NEW c \in Calls, BridgeThread(c)
    PROVE  UNCHANGED <<deviceOf, revoked, startToken, inProgress, login, hb>>
BY DEF BridgeThread, DeviceInfo, DeviceInfoSend, DeviceInfoReply, ClusterStatus,
       Setup, CallWrite, CreateFails, CreateDone, Deploy, Logout, LogoutDelete,
       LogoutClear, LogoutWrite, CallDies, local, outside, ui

\* The daemon touches nothing but the keychain, the file and its locals.
LEMMA HeartbeatFrame ==
    ASSUME Heartbeat \/ DaemonExit
    PROVE  UNCHANGED <<mem, save, unsettled, cut, deviceOf, revoked, page, buttons,
                       loads, busy, startToken, inProgress, login, call, secret,
                       interference>>
BY DEF Heartbeat, HbLoad, HbSend, HbAnswered, HbAnswer, HbDelete, HbClear,
       HbWrite, HbDies, DaemonExit, local, saves, outside, gui, ui

\* Logins and revocations leave the calls and the daemon alone.
LEMMA LoginFrame ==
    ASSUME NEW g \in Grants, StartLogin(g) \/ LoginThread(g) \/ Revoke(g)
    PROVE  UNCHANGED <<startToken, call, secret, hb>>
BY DEF StartLogin, LoginThread, Revoke, Register, SavePayload, LoginFails,
       LoginCompletes, StoreToken, StoreDevice, FinishLogin, LoginDies, gui, ui

\* Opening the window and clicking in vain change no stored credential.
LEMMA PageFrame ==
    ASSUME Launch \/ ResolveStart \/ CheckReply \/ StartLoginIgnored
    PROVE  UNCHANGED <<keychain, saves, deviceOf, revoked, inProgress, login,
                       call, secret, interference, hb>>
BY DEF Launch, ResolveStart, CheckReply, StartLoginIgnored, local, outside

\* The middle of a save changes the file and the save.
LEMMA SaveFrame ==
    ASSUME NEW t \in Threads, SaveOpens(t) \/ SaveDumps(t)
    PROVE  UNCHANGED <<keychain, mem, outside, gui, hb>>
BY DEF SaveOpens, SaveDumps

\* At most one login waits, and the flag says whether one does.
LEMMA SingleLoginFlowStep ==
    ASSUME TypeOK, SingleLoginFlow, [Next]_vars
    PROVE  SingleLoginFlow'
<1> USE DEF SingleLoginFlow, Waiting
<1>1. CASE Exit
      BY <1>1 DEF Exit, TypeOK
<1>2. ASSUME NEW g \in Grants, StartLogin(g) PROVE SingleLoginFlow'
      BY <1>2 DEF StartLogin, TypeOK
<1>3. ASSUME NEW g \in Grants, LoginThread(g) PROVE SingleLoginFlow'
  <2>1. CASE Register(g)
        BY <2>1 DEF Register, TypeOK
  <2>2. CASE SavePayload(g)
        BY <2>2 DEF SavePayload, TypeOK
  <2>3. CASE LoginFails(g)
        BY <2>3 DEF LoginFails, TypeOK
  <2>4. CASE LoginCompletes(g)
        BY <2>4 DEF LoginCompletes, TypeOK
  <2>5. CASE StoreToken(g) \/ StoreDevice(g) \/ FinishLogin(g) \/ LoginDies(g)
    <3>1. /\ login[g] \notin {"started", "saving", "polling"}
          /\ \E pc \in {"device", "write", "done", "lost"} :
                login' = [login EXCEPT ![g] = pc]
          /\ inProgress' = inProgress
          BY <2>5 DEF StoreToken, StoreDevice, FinishLogin, LoginDies
    <3> QED BY <3>1 DEF TypeOK
  <2> QED BY <1>3, <2>1, <2>2, <2>3, <2>4, <2>5 DEF LoginThread
<1>4. CASE UNCHANGED <<login, inProgress>>
      BY <1>4
<1> QED BY <1>1, <1>2, <1>3, <1>4, BridgeFrame, HeartbeatFrame, PageFrame, SaveFrame
        DEF Next, Revoke, gui, vars

(***************************************************************************)
(* What a step may do to the file, the memory and the saves: nothing, one  *)
(* of the steps of a save, an unparseable or deviceless file left by the   *)
(* daemon, a start or the end of the process.                              *)
(***************************************************************************)
Unsaving  == UNCHANGED <<mem, file, save, unsettled>>
Begins(t) == BeginSave(t) /\ page' = page /\ mem'.device \in {mem.device, None}
Flushes(t) == Flush(t) /\ mem' = mem
Drops(t)   == DropSave(t) /\ UNCHANGED <<mem, file>>
DaemonSaves ==
    /\ UNCHANGED <<mem, save, unsettled, page, login>>
    /\ LoadState(file').device = None

\* What the logins' threads do to them.
LEMMA LoginSaves ==
    ASSUME TypeOK, NEW g \in Grants, StartLogin(g) \/ LoginThread(g) \/ Revoke(g)
    PROVE  Unsaving \/ Begins(g) \/ StoreDevice(g) \/ Flushes(g) \/ Drops(g)
<1> USE DEF Unsaving, Begins, Flushes, Drops
<1>1. CASE StartLogin(g) \/ Revoke(g) \/ LoginCompletes(g) \/ StoreToken(g)
      BY <1>1 DEF StartLogin, Revoke, LoginCompletes, StoreToken, local, saves
<1>2. CASE Register(g)
      BY <1>2 DEF Register, SaveDefaults, BeginSave, saves, ui, TypeOK, SavedState
<1>3. CASE SavePayload(g) \/ FinishLogin(g)
      BY <1>3 DEF SavePayload, FinishLogin
<1>4. CASE LoginFails(g) \/ LoginDies(g)
      BY <1>4 DEF LoginFails, LoginDies
<1> QED BY <1>1, <1>2, <1>3, <1>4 DEF LoginThread

\* What the calls of the page do to them.
LEMMA CallSaves ==
    ASSUME TypeOK, NEW c \in Calls, BridgeThread(c)
    PROVE  Unsaving \/ Begins(c) \/ Flushes(c) \/ Drops(c)
<1> USE DEF Unsaving, Begins, Flushes, Drops
<1>1. CASE DeviceInfo(c) \/ DeviceInfoSend(c) \/ CreateFails(c) \/ CreateDone(c) \/ Deploy(c)
      BY <1>1 DEF DeviceInfo, DeviceInfoSend, CreateFails, CreateDone, Deploy, local, saves
<1>2. CASE DeviceInfoReply(c)
      BY <1>2 DEF DeviceInfoReply, saves, BeginSave, ui, TypeOK, SavedState
<1>3. CASE ClusterStatus(c)
      BY <1>3 DEF ClusterStatus, SaveDefaults, BeginSave, saves, TypeOK, SavedState
<1>4. CASE Setup(c)
      BY <1>4 DEF Setup, TypeOK, SavedState
<1>5. CASE CallWrite(c) \/ LogoutWrite(c)
      BY <1>5 DEF CallWrite, LogoutWrite
<1>6. CASE Logout(c) \/ LogoutDelete(c)
      BY <1>6 DEF Logout, LogoutDelete, local, saves
<1>7. CASE LogoutClear(c)
      BY <1>7 DEF LogoutClear, ui, TypeOK, SavedState
<1>8. CASE CallDies(c)
      BY <1>8 DEF CallDies
<1> QED BY <1>1, <1>2, <1>3, <1>4, <1>5, <1>6, <1>7, <1>8 DEF BridgeThread

\* What the daemon does to them.
LEMMA DaemonSavesNothing ==
    ASSUME TypeOK, RequestsAreComplete, Heartbeat \/ DaemonExit
    PROVE  Unsaving \/ DaemonSaves
<1>1. UNCHANGED <<mem, save, unsettled, page, login>>
      BY HeartbeatFrame
<1>2. CASE HbClear
      BY <1>1, <1>2, LoadStateOf DEF HbClear, DaemonSaves
<1>3. CASE HbWrite
  <2>1. hb.saved \in SavedState /\ hb.saved.device = None
        BY <1>3 DEF HbWrite, RequestsAreComplete, TypeOK
  <2>2. file' \in {hb.saved, Garbled}
        BY <1>3 DEF HbWrite, Written
  <2> QED BY <1>1, <2>1, <2>2, LoadStateOf DEF DaemonSaves
<1>4. CASE HbLoad \/ HbSend \/ HbAnswered \/ HbDelete \/ HbDies \/ DaemonExit
      BY <1>1, <1>4 DEF HbLoad, HbSend, HbAnswered, HbAnswer, HbDelete, HbDies,
         DaemonExit, local, saves, Unsaving
<1> QED BY <1>2, <1>3, <1>4 DEF Heartbeat

\* What a step does to them.
LEMMA LocalEffect ==
    ASSUME TypeOK, RequestsAreComplete, [Next]_vars
    PROVE  \/ Unsaving
           \/ DaemonSaves
           \/ Launch
           \/ Exit
           \/ \E g \in Grants : StoreDevice(g)
           \/ \E t \in Threads : \/ Begins(t) \/ Flushes(t) \/ Drops(t)
                               \/ SaveOpens(t) \/ SaveDumps(t)
<1>1. \A t \in Grants \union Calls : t \in Threads
      BY DEF Threads
<1>2. CASE ResolveStart \/ CheckReply \/ StartLoginIgnored \/ UNCHANGED vars
      BY <1>2 DEF ResolveStart, CheckReply, StartLoginIgnored, vars, local, saves, Unsaving
<1>3. ASSUME NEW g \in Grants, StartLogin(g) \/ LoginThread(g) \/ Revoke(g)
      PROVE  \/ Unsaving \/ StoreDevice(g)
             \/ \E t \in Threads : Begins(t) \/ Flushes(t) \/ Drops(t)
      BY <1>1, <1>3, LoginSaves
<1>4. ASSUME NEW c \in Calls, BridgeThread(c)
      PROVE  Unsaving \/ \E t \in Threads : Begins(t) \/ Flushes(t) \/ Drops(t)
      BY <1>1, <1>4, CallSaves
<1> QED BY <1>2, <1>3, <1>4, DaemonSavesNothing DEF Next

\* The device id in memory is the old one, none, the file's at a start, or
\* the one of the login that stores it.
LEMMA MemEffect ==
    ASSUME TypeOK, RequestsAreComplete, [Next]_vars
    PROVE  \/ mem'.device = mem.device
           \/ mem'.device = None
           \/ mem' = LoadState(file) /\ Launch
           \/ \E g \in Grants : StoreDevice(g)
<1>1. Exit => mem'.device = None
      BY DEF Exit, EmptyState
<1>2. Launch => mem' = LoadState(file)
      BY DEF Launch
<1> QED BY <1>1, <1>2, LocalEffect, SaveFrame
        DEF Unsaving, DaemonSaves, Begins, Flushes, Drops

\* The file's device id is the old one, none, or that of a flushed snapshot.
LEMMA FileEffect ==
    ASSUME TypeOK, RequestsAreComplete, [Next]_vars
    PROVE  \/ file' = file
           \/ LoadState(file').device = None
           \/ \E t \in Threads :
                /\ Flushes(t) /\ save[t].step = "write"
                /\ LoadState(file').device = save[t].state.device
<1>1. ASSUME NEW t \in Threads, Flushes(t)
      PROVE  \/ LoadState(file').device = None
             \/ /\ save[t].step = "write"
                /\ LoadState(file').device = save[t].state.device
  <2>1. save[t].state \in SavedState
        BY DEF TypeOK
  <2>2. save[t].step = "write" /\ file' \in {save[t].state, Garbled}
        BY <1>1 DEF Flushes, Flush, Written
  <2> QED BY <2>1, <2>2, LoadStateOf
<1>2. Launch \/ Exit => file' = file
      BY DEF Launch, Exit, saves
<1>3. ASSUME NEW g \in Grants, StoreDevice(g) PROVE file' = file
      BY <1>3 DEF StoreDevice, BeginSave
<1>4. ASSUME NEW t \in Threads, SaveOpens(t) \/ SaveDumps(t)
      PROVE  file' = file \/ LoadState(file').device = None
      BY <1>4, LoadStateOf DEF SaveOpens, SaveDumps
<1> QED BY <1>1, <1>2, <1>3, <1>4, LocalEffect
        DEF Unsaving, DaemonSaves, Begins, BeginSave, Drops

\* The credential changes only by a deletion or by the login that stores it.
LEMMA KeychainEffect ==
    ASSUME [Next]_vars
    PROVE  \/ keychain' = keychain
           \/ keychain' = None
           \/ \E g \in Grants : StoreToken(g)
<1>1. ASSUME NEW g \in Grants, StartLogin(g) \/ LoginThread(g) \/ Revoke(g), ~StoreToken(g)
      PROVE  keychain' = keychain
      BY <1>1 DEF StartLogin, LoginThread, Revoke, Register, SavePayload,
           LoginFails, LoginCompletes, StoreDevice, FinishLogin, LoginDies, local
<1>2. ASSUME NEW c \in Calls, BridgeThread(c) PROVE keychain' \in {keychain, None}
      BY <1>2 DEF BridgeThread, DeviceInfo, DeviceInfoSend, DeviceInfoReply,
             ClusterStatus, Setup, CallWrite, CreateFails, CreateDone, Deploy,
             Logout, LogoutDelete, LogoutClear, LogoutWrite, CallDies, local
<1>3. CASE Heartbeat \/ DaemonExit
      BY <1>3 DEF Heartbeat, HbLoad, HbSend, HbAnswered, HbAnswer, HbDelete,
           HbClear, HbWrite, HbDies, DaemonExit, local
<1> QED BY <1>1, <1>2, <1>3, PageFrame, SaveFrame DEF Next, Exit, vars, local

-----------------------------------------------------------------------------
(***************************************************************************)
(* Each part of the invariant is preserved.                                *)
(***************************************************************************)

\* While the process is closed, only a start concerns it.
LEMMA ClosedStep ==
    ASSUME TypeOK, ClosedIsQuiet, page = "closed", [Next]_vars
    PROVE  \/ Launch
           \/ UNCHANGED <<page, mem, save, unsettled, login, call>>
<1> USE DEF ClosedIsQuiet
<1>1. ASSUME NEW g \in Grants, StartLogin(g) \/ LoginThread(g) \/ Revoke(g)
      PROVE  UNCHANGED <<page, mem, save, unsettled, login, call>>
  <2>1. Revoke(g)
        BY <1>1 DEF StartLogin, LoginThread, Register, SavePayload, LoginFails,
           LoginCompletes, StoreToken, StoreDevice, FinishLogin, LoginDies
  <2> QED BY <2>1 DEF Revoke, local, saves, gui, ui
<1>2. ASSUME NEW c \in Calls, BridgeThread(c) PROVE FALSE
      BY <1>2 DEF BridgeThread, DeviceInfo, DeviceInfoSend, DeviceInfoReply,
             ClusterStatus, Setup, CallWrite, CreateFails, CreateDone, Deploy,
             Logout, LogoutDelete, LogoutClear, LogoutWrite, CallDies
<1>3. CASE Exit \/ ResolveStart \/ CheckReply \/ StartLoginIgnored
      BY <1>3 DEF Exit, ResolveStart, CheckReply, StartLoginIgnored
<1>4. ASSUME NEW t \in Threads, SaveOpens(t) \/ SaveDumps(t) PROVE FALSE
      BY <1>4 DEF SaveOpens, SaveDumps, Saving
<1> QED BY <1>1, <1>2, <1>3, <1>4, HeartbeatFrame DEF Next, vars, local, saves, gui, ui

\* No thread of the GUI, and no save, outlives its process.
LEMMA ClosedIsQuietStep ==
    ASSUME TypeOK, ClosedIsQuiet, [Next]_vars
    PROVE  ClosedIsQuiet'
<1> SUFFICES ASSUME page' = "closed" PROVE ClosedIsQuiet'
    BY DEF ClosedIsQuiet
<1>1. CASE page = "closed"
  <2>1. UNCHANGED <<page, mem, save, unsettled, login, call>>
        BY <1>1, ClosedStep DEF Launch
  <2>2. Saving' = Saving
        BY <2>1 DEF Saving
  <2> QED BY <1>1, <2>1, <2>2 DEF ClosedIsQuiet
<1>2. CASE page # "closed"
  <2>1. ASSUME NEW g \in Grants, StartLogin(g) \/ LoginThread(g) \/ Revoke(g)
        PROVE  FALSE
        BY <1>2, <2>1 DEF StartLogin, LoginThread, Revoke, Register, SavePayload,
             LoginFails, LoginCompletes, StoreToken, StoreDevice, FinishLogin,
             LoginDies, Show, gui, ui
  <2>2. ASSUME NEW c \in Calls, BridgeThread(c) PROVE FALSE
        BY <1>2, <2>2 DEF BridgeThread, DeviceInfo, DeviceInfoSend,
             DeviceInfoReply, ClusterStatus, Setup, CallWrite, CreateFails,
             CreateDone, Deploy, Logout, LogoutDelete, LogoutClear, LogoutWrite,
             CallDies, Show, ui
  <2>3. CASE Launch \/ ResolveStart \/ CheckReply \/ StartLoginIgnored
        BY <1>2, <2>3 DEF Launch, ResolveStart, CheckReply, StartLoginIgnored, Show
  <2>4. CASE Exit
    <3>1. Saving' = {}
          BY <2>4 DEF Exit, NoSave, Saving
    <3> QED BY <2>4, <3>1 DEF Exit, IdleCall, ClosedIsQuiet, LoginSteps, TypeOK
  <2>5. ASSUME NEW t \in Threads, SaveOpens(t) \/ SaveDumps(t) PROVE FALSE
        BY <1>2, <2>5, SaveFrame DEF gui, ui
  <2> QED BY <1>2, <2>1, <2>2, <2>3, <2>4, <2>5, HeartbeatFrame DEF Next, vars, gui, ui
<1> QED BY <1>1, <1>2

\* The first step of a save, and its end, as seen by the other saves.
LEMMA SavingStep ==
    ASSUME TypeOK, NEW t \in Threads
    PROVE  /\ BeginSave(t) => /\ Saving' = Saving \union {t}
                              /\ save'[t].step = "open"
                              /\ \A u \in Threads \ {t} : save'[u] = save[u]
           /\ SaveOpens(t) => /\ Saving' = Saving /\ t \in Saving
                              /\ save'[t].step = "dump"
                              /\ \A u \in Threads \ {t} : save'[u] = save[u]
           /\ SaveDumps(t) => /\ Saving' = Saving
                              /\ save[t].step = "dump"
                              /\ save'[t].step = "write" /\ save'[t].state = mem
                              /\ \A u \in Threads \ {t} : save'[u] = save[u]
           /\ Flush(t) \/ DropSave(t) => /\ Saving' = Saving \ {t}
                                         /\ save'[t] = NoSave
                                         /\ \A u \in Threads \ {t} : save'[u] = save[u]
<1>1. BeginSave(t) => /\ Saving' = Saving \union {t}
                      /\ save'[t].step = "open"
                      /\ \A u \in Threads \ {t} : save'[u] = save[u]
      BY DEF BeginSave, Saving, TypeOK
<1>2. SaveOpens(t) => /\ Saving' = Saving /\ t \in Saving
                      /\ save'[t].step = "dump"
                      /\ \A u \in Threads \ {t} : save'[u] = save[u]
      BY DEF SaveOpens, Saving, TypeOK
<1>3. SaveDumps(t) => /\ Saving' = Saving
                      /\ save[t].step = "dump"
                      /\ save'[t].step = "write" /\ save'[t].state = mem
                      /\ \A u \in Threads \ {t} : save'[u] = save[u]
      BY DEF SaveDumps, Saving, TypeOK
<1>4. Flush(t) \/ DropSave(t) => /\ Saving' = Saving \ {t}
                                 /\ save'[t] = NoSave
                                 /\ \A u \in Threads \ {t} : save'[u] = save[u]
      BY DEF Flush, DropSave, NoSave, Saving, TypeOK
<1> QED BY <1>1, <1>2, <1>3, <1>4

\* A snapshot is out of date only where saves have overlapped or failed.
LEMMA SavesAreCurrentStep ==
    ASSUME TypeOK, ClosedIsQuiet, RequestsAreComplete, SavesAreCurrent, [Next]_vars
    PROVE  SavesAreCurrent'
<1> SUFFICES ASSUME ~unsettled'
             PROVE  /\ \A u, v \in Saving' : u = v
                    /\ \A u \in Threads : save'[u].step = "write" => save'[u].state = mem'
    BY DEF SavesAreCurrent
<1>1. CASE Unsaving \/ DaemonSaves
      BY <1>1 DEF Unsaving, DaemonSaves, SavesAreCurrent, Saving
<1>2. CASE Launch
  <2>1. Saving = {} /\ save' = save
        BY <1>2 DEF Launch, ClosedIsQuiet, saves
  <2> QED BY <2>1 DEF Saving
<1>3. CASE Exit
      BY <1>3 DEF Exit, NoSave, Saving
<1>4. ASSUME NEW t \in Threads, BeginSave(t)
      PROVE  /\ \A u, v \in Saving' : u = v
             /\ \A u \in Threads : save'[u].step = "write" => save'[u].state = mem'
  <2>1. Saving = {}
        BY <1>4 DEF BeginSave
  <2> QED BY <1>4, <2>1, SavingStep DEF Saving
<1>5. ASSUME NEW g \in Grants, StoreDevice(g)
      PROVE  \E t \in Threads : BeginSave(t)
      BY <1>5 DEF StoreDevice, Threads
<1>6. ASSUME NEW t \in Threads, SaveOpens(t)
      PROVE  /\ \A u, v \in Saving' : u = v
             /\ \A u \in Threads : save'[u].step = "write" => save'[u].state = mem'
  <2>1. Saving = {t} \/ ~unsettled
        BY <1>6 DEF SaveOpens
  <2>2. \A u \in Saving : u = t
        BY <1>6, <2>1, SavingStep DEF SavesAreCurrent
  <2> QED BY <1>6, <2>2, SavingStep DEF Saving
<1>7. ASSUME NEW t \in Threads, SaveDumps(t)
      PROVE  /\ \A u, v \in Saving' : u = v
             /\ \A u \in Threads : save'[u].step = "write" => save'[u].state = mem'
  <2>1. ~unsettled /\ mem' = mem
        BY <1>7 DEF SaveDumps
  <2> QED BY <1>7, <2>1, SavingStep DEF SavesAreCurrent
<1>8. ASSUME NEW t \in Threads, Flushes(t) \/ Drops(t)
      PROVE  /\ \A u, v \in Saving' : u = v
             /\ \A u \in Threads : save'[u].step = "write" => save'[u].state = mem'
  <2>1. mem' = mem /\ (Flush(t) \/ DropSave(t))
        BY <1>8 DEF Flushes, Drops
  <2>2. ~unsettled
        BY <2>1 DEF Flush, DropSave
  <2>3. \A u, v \in Saving : u = v
        BY <2>2 DEF SavesAreCurrent
  <2>4. \A u \in Threads : save[u].step = "write" => save[u].state = mem
        BY <2>2 DEF SavesAreCurrent
  <2> QED BY <2>1, <2>3, <2>4, SavingStep DEF NoSave
<1> QED BY <1>1, <1>2, <1>3, <1>4, <1>5, <1>6, <1>7, <1>8, LocalEffect DEF Begins

\* No settled save leaves a device id on disk that memory has forgotten.
LEMMA DiskForgetsStep ==
    ASSUME TypeOK, ClosedIsQuiet, RequestsAreComplete, SavesAreCurrent,
           DiskForgetsWithMemory, [Next]_vars
    PROVE  DiskForgetsWithMemory'
<1> DEFINE Goal == LoadState(file').device \in {None, mem'.device}
<1> SUFFICES ASSUME page' # "closed", ~unsettled', Changing' = {} PROVE Goal
    BY DEF DiskForgetsWithMemory, LoadState
<1>1. CASE Launch
      BY <1>1 DEF Launch, saves
<1>2. CASE ~Launch
  <2>1. page # "closed"
        BY <1>2, ClosedStep
  <2>2. CASE Unsaving
        BY <2>1, <2>2 DEF Unsaving, DiskForgetsWithMemory, Changing
  <2>3. CASE DaemonSaves
        BY <2>3 DEF DaemonSaves
  <2>4. ASSUME NEW t \in Threads, BeginSave(t) PROVE FALSE
        BY <2>4, SavingStep DEF Changing
  <2>5. ASSUME NEW g \in Grants, StoreDevice(g) PROVE FALSE
        BY <2>4, <2>5 DEF StoreDevice, Threads
  <2>6. ASSUME NEW t \in Threads, SaveOpens(t) PROVE Goal
        BY <2>6, LoadStateOf DEF SaveOpens
  <2>7. ASSUME NEW t \in Threads, SaveDumps(t) PROVE Goal
    <3>1. ~unsettled /\ UNCHANGED <<mem, file>>
          BY <2>7 DEF SaveDumps
    <3>2. Changing = {}
          BY <2>7, SavingStep DEF Changing
    <3> QED BY <2>1, <3>1, <3>2 DEF DiskForgetsWithMemory
  <2>8. ASSUME NEW t \in Threads, Flushes(t) PROVE Goal
    <3>1. ~unsettled /\ mem' = mem /\ save[t].step = "write"
          BY <2>8 DEF Flushes, Flush
    <3>2. save[t].state = mem
          BY <3>1 DEF SavesAreCurrent
    <3>3. mem \in SavedState /\ file' \in {mem, Garbled}
          BY <2>8, <3>2 DEF Flushes, Flush, Written, TypeOK
    <3> QED BY <3>1, <3>3, LoadStateOf
  <2>9. ASSUME NEW t \in Threads, Drops(t) PROVE Goal
    <3>1. ~unsettled /\ t \notin Saving /\ UNCHANGED <<mem, file>>
          BY <2>9 DEF Drops, DropSave
    <3>2. Changing = {}
          BY <2>9, <3>1, SavingStep DEF Changing, Saving, Drops
    <3> QED BY <2>1, <3>1, <3>2 DEF DiskForgetsWithMemory
  <2> QED BY <1>2, <2>2, <2>3, <2>4, <2>5, <2>6, <2>7, <2>8, <2>9, LocalEffect
          DEF Begins, Exit
<1> QED BY <1>1, <1>2

\* Cloud issues a credential once, for one device.
LEMMA DevicesStay ==
    ASSUME TypeOK, TokensAreGranted, [Next]_vars
    PROVE  \/ deviceOf' = deviceOf
           \/ \E g \in Grants : LoginCompletes(g) /\ deviceOf[g] = None
                              /\ \A h \in Grants \ {g} : deviceOf'[h] = deviceOf[h]
<1>1. ASSUME NEW g \in Grants, StartLogin(g) \/ LoginThread(g) \/ Revoke(g),
             ~LoginCompletes(g)
      PROVE  deviceOf' = deviceOf
      BY <1>1 DEF StartLogin, LoginThread, Revoke, Register, SavePayload,
           LoginFails, StoreToken, StoreDevice, FinishLogin, LoginDies, outside
<1>2. ASSUME NEW g \in Grants, LoginCompletes(g)
      PROVE  deviceOf[g] = None /\ \A h \in Grants \ {g} : deviceOf'[h] = deviceOf[h]
      BY <1>2 DEF LoginCompletes, TokensAreGranted, TypeOK
<1> QED BY <1>1, <1>2, BridgeFrame, HeartbeatFrame, PageFrame, SaveFrame
        DEF Next, Exit, vars, outside

\* A window that was entered counts for good.
LEMMA InterferenceStays ==
    ASSUME interference, [Next]_vars
    PROVE  interference'
<1>1. ASSUME NEW g \in Grants, StartLogin(g) \/ LoginThread(g) \/ Revoke(g)
      PROVE  interference'
      BY <1>1 DEF StartLogin, LoginThread, Revoke, Register, SavePayload, LoginFails,
           LoginCompletes, StoreToken, StoreDevice, FinishLogin, LoginDies, OpensWindow, gui
<1>2. ASSUME NEW c \in Calls, BridgeThread(c) PROVE interference'
      BY <1>2 DEF BridgeThread, DeviceInfo, DeviceInfoSend, DeviceInfoReply,
           ClusterStatus, Setup, CallWrite, CreateFails, CreateDone, Deploy,
           Logout, LogoutDelete, LogoutClear, LogoutWrite, CallDies, OpensWindow
<1> QED BY <1>1, <1>2, PageFrame, SaveFrame, HeartbeatFrame
        DEF Next, Exit, OpensWindow, vars, gui

\* Locals of the threads that make requests.
LEMMA RequestsStep ==
    ASSUME TypeOK, TokensAreGranted, RequestsAreComplete, [Next]_vars
    PROVE  RequestsAreComplete'
<1>1. CASE UNCHANGED <<hb, call, deviceOf, revoked>>
      BY <1>1 DEF RequestsAreComplete, Refused
<1>2. ASSUME NEW g \in Grants, Revoke(g) PROVE RequestsAreComplete'
      BY <1>2 DEF Revoke, RequestsAreComplete, Refused, gui
<1>3. ASSUME NEW g \in Grants, LoginCompletes(g) PROVE RequestsAreComplete'
  <2>1. deviceOf[g] = None
        BY <1>3 DEF LoginCompletes, TokensAreGranted
  <2>2. \A t \in Grants : t # g => deviceOf'[t] = deviceOf[t]
        BY <1>3 DEF LoginCompletes, TypeOK
  <2>3. hb.token # g
        BY <2>1, <1>3, ConstantsAssumption DEF TokensAreGranted, Granted
  <2> QED BY <1>3, <2>2, <2>3 DEF LoginCompletes, RequestsAreComplete, Refused, TypeOK
<1>4. CASE Heartbeat \/ DaemonExit
  <2> USE DEF RequestsAreComplete, Refused
  <2>1. CASE HbLoad
        BY <2>1, HeartbeatFrame, <1>4 DEF HbLoad, TypeOK
  <2>2. CASE HbSend
        BY <2>2, HeartbeatFrame, <1>4, EmptyStateType DEF HbSend, IdleBeat, TypeOK
  <2>3. CASE HbAnswered
        BY <2>3, HeartbeatFrame, <1>4
        DEF HbAnswered, HbAnswer, Response, Live, IdleBeat, TypeOK
  <2>4. CASE HbDelete
        BY <2>4, HeartbeatFrame, <1>4 DEF HbDelete, TypeOK
  <2>5. CASE HbClear
        BY <2>5, HeartbeatFrame, <1>4 DEF HbClear, TypeOK, SavedState
  <2>6. CASE HbWrite \/ HbDies \/ DaemonExit
        BY <2>6, HeartbeatFrame, <1>4 DEF HbWrite, HbDies, DaemonExit, IdleBeat, TypeOK
  <2> QED BY <1>4, <2>1, <2>2, <2>3, <2>4, <2>5, <2>6 DEF Heartbeat
<1>5. ASSUME NEW c \in Calls, BridgeThread(c) PROVE RequestsAreComplete'
  <2>1. UNCHANGED <<hb, deviceOf, revoked>>
        BY <1>5, BridgeFrame
  <2> USE DEF RequestsAreComplete, Refused, Step, Return, IdleCall
  <2>2. CASE DeviceInfo(c)
    <3>1. \/ call' = call
          \/ /\ call'[c].pc = "info" /\ call'[c].token # None
             /\ \A b \in Calls \ {c} : call'[b] = call[b]
          BY <2>2 DEF DeviceInfo, TypeOK
    <3> QED BY <2>1, <3>1
  <2>3. CASE DeviceInfoSend(c)
        BY <2>1, <2>3 DEF DeviceInfoSend, TypeOK
  <2>4. CASE DeviceInfoReply(c)
    <3>1. PICK answer \in Response(call[c].token, call[c].device) :
                 \E pc \in {"idle", "info_write"} :
                     call' = [call EXCEPT ![c] = [IdleCall EXCEPT !.pc = pc]]
          BY <2>4 DEF DeviceInfoReply
    <3> QED BY <2>1, <3>1 DEF TypeOK
  <2>5. CASE ClusterStatus(c) \/ Setup(c)
        BY <2>1, <2>5 DEF ClusterStatus, Setup, TypeOK
  <2>6. CASE CallWrite(c) \/ CreateFails(c) \/ CreateDone(c) \/ Deploy(c)
        BY <2>1, <2>6 DEF CallWrite, CreateFails, CreateDone, Deploy, TypeOK
  <2>7. CASE Logout(c) \/ LogoutDelete(c) \/ LogoutClear(c) \/ LogoutWrite(c) \/ CallDies(c)
        BY <2>1, <2>7 DEF Logout, LogoutDelete, LogoutClear, LogoutWrite, CallDies, TypeOK
  <2> QED BY <1>5, <2>2, <2>3, <2>4, <2>5, <2>6, <2>7 DEF BridgeThread
<1>6. CASE Exit
      BY <1>6 DEF Exit, RequestsAreComplete, Refused, IdleCall, outside
<1>7. ASSUME NEW g \in Grants, StartLogin(g) \/ LoginThread(g), ~LoginCompletes(g)
      PROVE  UNCHANGED <<hb, call, deviceOf, revoked>>
      BY <1>7 DEF StartLogin, LoginThread, Register, SavePayload, LoginFails,
           StoreToken, StoreDevice, FinishLogin, LoginDies, outside
<1> QED BY <1>1, <1>2, <1>3, <1>4, <1>5, <1>6, <1>7, PageFrame, SaveFrame
        DEF Next, vars, outside, gui

\* Every device id in a store or a local came from a completed login.
LEMMA DevicesAreKnownStep ==
    ASSUME TypeOK, ClosedIsQuiet, RequestsAreComplete, TokensAreGranted,
           DevicesAreKnown, [Next]_vars
    PROVE  DevicesAreKnown'
<1>1. ASSUME NEW d \in Devices \union {None}, Known(d) PROVE Known(d)'
      BY <1>1, DevicesStay DEF Known
<1>2. Known(None)'
      BY DEF Known
<1>3. Known(mem.device)'
  <2>1. mem.device \in Devices \union {None} /\ LoadState(file).device \in Devices \union {None}
        BY LoadStateType DEF TypeOK, SavedState
  <2>2. ASSUME NEW d \in {None, mem.device, LoadState(file).device}, mem'.device = d
        PROVE  Known(mem.device)'
        BY <1>1, <1>2, <2>1, <2>2 DEF DevicesAreKnown, Known
  <2>3. ASSUME NEW g \in Grants, StoreDevice(g) PROVE Known(mem.device)'
        BY <2>3 DEF StoreDevice, Known, outside, TypeOK, SavedState
  <2> QED BY <2>2, <2>3, MemEffect
<1>4. Known(LoadState(file).device)'
  <2>1. /\ LoadState(file).device \in Devices \union {None}
        /\ \A t \in Threads : save[t].state.device \in Devices \union {None}
        BY LoadStateType DEF TypeOK, SavedState
  <2>2. \/ LoadState(file').device \in {None, LoadState(file).device}
        \/ \E t \in Threads : LoadState(file').device = save[t].state.device
        BY FileEffect
  <2> QED BY <1>1, <1>2, <2>1, <2>2 DEF DevicesAreKnown
<1>5. Known(hb.saved.device)'
  <2>1. hb'.saved.device \in {None, hb.saved.device, LoadState(file).device}
    <3>1. CASE hb' = hb
          BY <3>1
    <3>2. CASE HbLoad
          BY <3>2 DEF HbLoad, TypeOK
    <3>3. CASE HbSend
          BY <3>3 DEF HbSend, IdleBeat, EmptyState, TypeOK
    <3>4. CASE HbAnswered
          BY <3>4 DEF HbAnswered, HbAnswer, IdleBeat, EmptyState, TypeOK
    <3>5. CASE HbDelete
          BY <3>5 DEF HbDelete, TypeOK
    <3>6. CASE HbClear
          BY <3>6 DEF HbClear, TypeOK, SavedState
    <3>7. CASE HbWrite \/ HbDies \/ DaemonExit
          BY <3>7 DEF HbWrite, HbDies, DaemonExit, IdleBeat, EmptyState
    <3> QED BY <3>1, <3>2, <3>3, <3>4, <3>5, <3>6, <3>7, BridgeFrame, LoginFrame,
               PageFrame, SaveFrame DEF Next, Heartbeat, Exit, vars
  <2>2. /\ hb.saved.device \in Devices \union {None}
        /\ LoadState(file).device \in Devices \union {None}
        BY LoadStateType DEF TypeOK, SavedState
  <2> QED BY <1>1, <1>2, <2>1, <2>2 DEF DevicesAreKnown
<1>6. ASSUME NEW c \in Calls PROVE Known(call[c].device)'
  <2>1. call'[c].device \in {None, call[c].device, mem.device}
    <3>1. ASSUME NEW b \in Calls, BridgeThread(b)
          PROVE  call'[c].device \in {None, call[c].device, mem.device}
      <4> USE DEF Step, Return, IdleCall
      <4>0. call \in [Calls -> [pc : CallSteps, token : Grants \union {None},
                               device : Devices \union {None}]]
            BY DEF TypeOK
      <4>1. CASE DeviceInfo(b) \/ DeviceInfoSend(b) \/ DeviceInfoReply(b)
            BY <4>0, <4>1 DEF DeviceInfo, DeviceInfoSend, DeviceInfoReply
      <4>2. CASE ClusterStatus(b) \/ Setup(b) \/ CallWrite(b) \/ CreateFails(b)
            BY <4>0, <4>2 DEF ClusterStatus, Setup, CallWrite, CreateFails
      <4>3. CASE CreateDone(b)
            BY <4>0, <4>3 DEF CreateDone
      <4>4. CASE Deploy(b)
            BY <4>0, <4>4 DEF Deploy
      <4>5. CASE Logout(b) \/ LogoutDelete(b) \/ LogoutClear(b) \/ LogoutWrite(b) \/ CallDies(b)
            BY <4>0, <4>5 DEF Logout, LogoutDelete, LogoutClear, LogoutWrite, CallDies
      <4> QED BY <3>1, <4>1, <4>2, <4>3, <4>4, <4>5 DEF BridgeThread
    <3>2. CASE Exit
          BY <3>2 DEF Exit, IdleCall
    <3>3. CASE call' = call
          BY <3>3
    <3> QED BY <3>1, <3>2, <3>3, HeartbeatFrame, LoginFrame, PageFrame, SaveFrame
            DEF Next, vars, gui
  <2>2. mem.device \in Devices \union {None} /\ call[c].device \in Devices \union {None}
        BY DEF TypeOK, SavedState
  <2> QED BY <1>1, <1>2, <2>1, <2>2 DEF DevicesAreKnown
<1>7. ASSUME NEW t \in Threads PROVE Known(save[t].state.device)'
  <2>1. save'[t].state.device \in {None, save[t].state.device, mem.device}
    <3>1. CASE Unsaving \/ DaemonSaves \/ Launch
          BY <3>1 DEF Unsaving, DaemonSaves, Launch, saves
    <3>2. CASE Exit
          BY <3>2 DEF Exit, NoSave, EmptyState
    <3>3. ASSUME NEW u \in Threads, BeginSave(u)
          PROVE  save'[t].state.device = save[t].state.device
          BY <3>3 DEF BeginSave, TypeOK
    <3>4. ASSUME NEW g \in Grants, StoreDevice(g)
          PROVE  save'[t].state.device = save[t].state.device
          BY <3>3, <3>4 DEF StoreDevice, Threads
    <3>5. ASSUME NEW u \in Threads, SaveOpens(u)
          PROVE  save'[t].state.device = save[t].state.device
          BY <3>5 DEF SaveOpens, TypeOK
    <3>6. ASSUME NEW u \in Threads, SaveDumps(u) \/ Flush(u) \/ DropSave(u)
          PROVE  save'[t].state.device \in {None, save[t].state.device, mem.device}
          BY <3>6, SavingStep DEF NoSave, EmptyState
    <3> QED BY <3>1, <3>2, <3>3, <3>4, <3>5, <3>6, LocalEffect
            DEF Begins, Flushes, Drops
  <2>2. /\ mem.device \in Devices \union {None}
        /\ save[t].state.device \in Devices \union {None}
        BY DEF TypeOK, SavedState
  <2> QED BY <1>1, <1>2, <2>1, <2>2 DEF DevicesAreKnown
<1> QED BY <1>3, <1>4, <1>5, <1>6, <1>7 DEF DevicesAreKnown

\* Every credential in a store or a local came from a completed login.
LEMMA TokensAreGrantedStep ==
    ASSUME TypeOK, TokensAreGranted, [Next]_vars
    PROVE  TokensAreGranted'
<1>2. \A t \in Grants \union {None} : Granted(t) => Granted(t)'
      BY DevicesStay DEF Granted
<1>3. Granted(keychain)'
  <2>1. ASSUME NEW g \in Grants, StoreToken(g) PROVE Granted(keychain)'
        BY <2>1 DEF StoreToken, Granted, TokensAreGranted, outside
  <2>2. keychain \in Grants \union {None}
        BY DEF TypeOK
  <2>5. CASE keychain' = keychain
        BY <1>2, <2>2, <2>5 DEF TokensAreGranted, Granted
  <2>6. CASE keychain' = None
        BY <2>6 DEF Granted
  <2> QED BY <2>1, <2>5, <2>6, KeychainEffect
<1>4. Granted(hb.token)'
  <2>1. hb'.token \in {None, hb.token, keychain}
    <3>1. CASE HbLoad \/ HbDelete \/ HbClear
          BY <3>1 DEF HbLoad, HbDelete, HbClear, TypeOK
    <3>2. CASE HbSend
          BY <3>2 DEF HbSend, IdleBeat, TypeOK
    <3>3. CASE HbAnswered
          BY <3>3 DEF HbAnswered, HbAnswer, IdleBeat, TypeOK
    <3>4. CASE HbWrite \/ HbDies \/ DaemonExit
          BY <3>4 DEF HbWrite, HbDies, DaemonExit, IdleBeat
    <3>5. CASE hb' = hb
          BY <3>5
    <3> QED BY <3>1, <3>2, <3>3, <3>4, <3>5, BridgeFrame, LoginFrame, PageFrame,
               SaveFrame DEF Next, Heartbeat, Exit, vars
  <2>2. hb.token \in Grants \union {None} /\ keychain \in Grants \union {None}
        BY DEF TypeOK
  <2>3. Granted(hb.token) /\ Granted(keychain)
        BY DEF TokensAreGranted
  <2>4. hb'.token = None \/ deviceOf'[hb'.token] # None
        BY <1>2, <2>1, <2>2, <2>3 DEF Granted
  <2> QED BY <2>4 DEF Granted
<1>5. ASSUME NEW c \in Calls PROVE Granted(call[c].token)'
  <2>1. call'[c].token \in {None, call[c].token, keychain}
    <3>1. ASSUME NEW b \in Calls, BridgeThread(b)
          PROVE  call'[c].token \in {None, call[c].token, keychain}
      <4> USE DEF Step, Return, IdleCall
      <4>0. call \in [Calls -> [pc : CallSteps, token : Grants \union {None},
                               device : Devices \union {None}]]
            BY DEF TypeOK
      <4>1. CASE DeviceInfo(b) \/ DeviceInfoSend(b) \/ DeviceInfoReply(b)
            BY <4>0, <4>1 DEF DeviceInfo, DeviceInfoSend, DeviceInfoReply
      <4>2. CASE ClusterStatus(b) \/ Setup(b) \/ CallWrite(b) \/ CreateFails(b)
            BY <4>0, <4>2 DEF ClusterStatus, Setup, CallWrite, CreateFails
      <4>3. CASE CreateDone(b)
            BY <4>0, <4>3 DEF CreateDone
      <4>4. CASE Deploy(b)
            BY <4>0, <4>4 DEF Deploy
      <4>5. CASE Logout(b) \/ LogoutDelete(b) \/ LogoutClear(b) \/ LogoutWrite(b) \/ CallDies(b)
            BY <4>0, <4>5 DEF Logout, LogoutDelete, LogoutClear, LogoutWrite, CallDies
      <4> QED BY <3>1, <4>1, <4>2, <4>3, <4>4, <4>5 DEF BridgeThread
    <3>2. CASE Exit
          BY <3>2 DEF Exit, IdleCall
    <3>3. CASE call' = call
          BY <3>3
    <3> QED BY <3>1, <3>2, <3>3, HeartbeatFrame, LoginFrame, PageFrame, SaveFrame
            DEF Next, vars, gui
  <2>2. call[c].token \in Grants \union {None} /\ keychain \in Grants \union {None}
        BY DEF TypeOK
  <2>3. Granted(call[c].token) /\ Granted(keychain)
        BY DEF TokensAreGranted
  <2>4. call'[c].token = None \/ deviceOf'[call'[c].token] # None
        BY <1>2, <2>1, <2>2, <2>3 DEF Granted
  <2> QED BY <2>4 DEF Granted
<1>6. \A g \in Grants :
        deviceOf'[g] = None <=> login'[g] \in {"idle", "started", "saving", "polling"}
  <2>1. ASSUME NEW h \in Grants, LoginCompletes(h)
        PROVE  /\ deviceOf'[h] # None /\ login'[h] = "granted"
               /\ \A g \in Grants \ {h} : deviceOf'[g] = deviceOf[g] /\ login'[g] = login[g]
        BY <2>1, ConstantsAssumption DEF LoginCompletes, TypeOK
  <2>2. ASSUME NEW h \in Grants, StartLogin(h) \/ LoginThread(h) \/ Revoke(h),
               ~LoginCompletes(h), NEW g \in Grants
        PROVE  login[g] \in {"idle", "started", "saving", "polling"}
               <=> login'[g] \in {"idle", "started", "saving", "polling"}
        BY <2>2 DEF StartLogin, LoginThread, Revoke, Register, SavePayload, LoginFails,
             StoreToken, StoreDevice, FinishLogin, LoginDies, gui, TypeOK
  <2>3. CASE Exit
        BY <2>3 DEF Exit, outside, LoginSteps, TokensAreGranted, TypeOK
  <2>4. CASE UNCHANGED <<login, deviceOf>>
        BY <2>4 DEF TokensAreGranted
  <2>5. ASSUME NEW h \in Grants, StartLogin(h) \/ LoginThread(h) \/ Revoke(h),
               ~LoginCompletes(h)
        PROVE  deviceOf' = deviceOf
        BY <2>5 DEF StartLogin, LoginThread, Revoke, Register, SavePayload,
             LoginFails, StoreToken, StoreDevice, FinishLogin, LoginDies, outside
  <2> QED BY <2>1, <2>2, <2>3, <2>4, <2>5, BridgeFrame, HeartbeatFrame, PageFrame,
             SaveFrame DEF Next, TokensAreGranted, vars, outside, gui
<1> QED BY <1>3, <1>4, <1>5, <1>6 DEF TokensAreGranted

\* A step that enters and leaves no window preserves what holds of them.
LEMMA QuietStep ==
    ASSUME Alone,
           deviceOf' = deviceOf,
           Storing' = Storing,
           keychain' \in {keychain, None},
           secret' = secret,
           mem'.device \in {None, mem.device},
           \A c \in Deploying' : c \in Deploying /\ call'[c].device = call[c].device
    PROVE  Alone'
<1>1. Storing' = {} => MemoryIsPaired'
  <2> SUFFICES ASSUME Storing = {}, keychain # None, keychain' = keychain
               PROVE  mem'.device \in {None, deviceOf[keychain]}
      BY DEF MemoryIsPaired
  <2>1. mem.device \in {None, deviceOf[keychain]}
        BY DEF Alone, MemoryIsPaired
  <2> QED BY <2>1
<1>2. (\A g, h \in Storing : g = h)' /\ (\A g \in Storing : keychain \in {None, g})'
      BY DEF Alone
<1>3. \A c \in Deploying' :
        keychain' # None /\ call'[c].device # None => deviceOf'[keychain'] = call'[c].device
      BY DEF Alone
<1>4. secret' # None => deviceOf'[secret'.token] = secret'.device
      BY DEF Alone
<1> QED BY <1>1, <1>2, <1>3, <1>4 DEF Alone

\* Outside the windows, and without interference, memory, the arguments of
\* Setup and the Secret stay with their credentials.
LEMMA AloneStep ==
    ASSUME TypeOK, ClosedIsQuiet, RequestsAreComplete, TokensAreGranted,
           WindowsAreAlone, [Next]_vars, ~interference'
    PROVE  Alone'
<1>1. CASE ResolveStart \/ CheckReply \/ StartLoginIgnored \/ UNCHANGED vars
  <2>1. UNCHANGED <<deviceOf, login, keychain, secret, call, interference, mem>>
        BY <1>1 DEF ResolveStart, CheckReply, StartLoginIgnored, vars, local, outside, gui
  <2> QED BY <2>1, QuietStep DEF WindowsAreAlone, Storing, Deploying
<1>2. CASE Launch
  <2>1. /\ UNCHANGED <<deviceOf, login, keychain, secret, call, interference>>
        /\ mem' = LoadState(file)
        BY <1>2, PageFrame DEF Launch
  <2>2. Alone /\ FileFollows /\ Storing = {} /\ Unsaved = {} /\ ~unsettled
        BY <1>2, <2>1 DEF Launch, WindowsAreAlone, ClosedIsQuiet, Storing, Unsaved
  <2>3. MemoryIsPaired'
        BY <2>1, <2>2 DEF FileFollows, FileIsPaired, MemoryIsPaired
  <2>4. Storing' = Storing /\ Deploying' = Deploying
        BY <2>1 DEF Storing, Deploying
  <2> QED BY <2>1, <2>2, <2>3, <2>4 DEF Alone
<1>3. CASE Exit
  <2>1. Alone /\ Storing = {}
        BY <1>3 DEF Exit, OpensWindow, WindowsAreAlone
  <2>2. Storing' = {}
        BY <1>3 DEF Exit, Storing, TypeOK, LoginSteps
  <2>3. Deploying' = {}
        BY <1>3 DEF Exit, Deploying, IdleCall
  <2>4. mem'.device = None
        BY <1>3 DEF Exit, EmptyState
  <2> QED BY <1>3, <2>1, <2>2, <2>3, <2>4, QuietStep DEF Exit, outside
<1>4. ASSUME NEW g \in Grants, StartLogin(g) \/ LoginThread(g) PROVE Alone'
  <2>1. CASE StartLogin(g) \/ Register(g) \/ SavePayload(g) \/ LoginFails(g) \/ FinishLogin(g)
    <3>1. /\ UNCHANGED <<deviceOf, keychain, secret, call, interference>>
          /\ login[g] # "device"
          /\ \E pc \in LoginSteps \ {"device"} : login' = [login EXCEPT ![g] = pc]
          BY <2>1 DEF StartLogin, Register, SavePayload, LoginFails, FinishLogin,
               LoginSteps, local, outside
    <3>2. mem'.device = mem.device
          BY <2>1 DEF StartLogin, Register, SavePayload, LoginFails, FinishLogin,
               SaveDefaults, local, TypeOK, SavedState
    <3>3. Storing' = Storing /\ Deploying' = Deploying
          BY <3>1 DEF Storing, Deploying, TypeOK
    <3>4. Alone
          BY <3>1 DEF WindowsAreAlone
    <3> QED BY <3>1, <3>2, <3>3, <3>4, QuietStep
  <2>2. CASE LoginCompletes(g)
    <3>1. deviceOf[g] = None /\ keychain # g
          BY <2>2, ConstantsAssumption DEF LoginCompletes, TokensAreGranted, Granted
    <3>2. /\ Alone
          /\ UNCHANGED <<keychain, mem, secret, call>>
          /\ \A h \in Grants \ {g} : deviceOf'[h] = deviceOf[h]
          BY <2>2 DEF LoginCompletes, WindowsAreAlone, local, TypeOK
    <3>3. Storing' = Storing /\ Deploying' = Deploying
          BY <2>2, <3>2 DEF LoginCompletes, Storing, Deploying, TypeOK
    <3>4. keychain # None => deviceOf'[keychain] = deviceOf[keychain]
          BY <3>1, <3>2 DEF TypeOK
    <3>5. secret # None => /\ secret.token \in Grants \ {g}
                           /\ deviceOf[secret.token] = secret.device
          BY <3>1, <3>2, ConstantsAssumption DEF Alone, TypeOK
    <3>6. Storing' = {} => MemoryIsPaired'
          BY <3>2, <3>3, <3>4 DEF Alone, MemoryIsPaired
    <3> QED BY <3>2, <3>3, <3>4, <3>5, <3>6 DEF Alone
  <2>3. CASE StoreToken(g)
    <3>1. Storing = {} /\ Deploying = {} /\ Alone
          BY <2>3 DEF StoreToken, OpensWindow, WindowsAreAlone
    <3>2. Storing' = {g} /\ Deploying' = {}
          BY <2>3, <3>1 DEF StoreToken, Storing, Deploying, TypeOK
    <3>3. keychain' = g /\ UNCHANGED <<secret, deviceOf>>
          BY <2>3 DEF StoreToken, outside
    <3> QED BY <3>1, <3>2, <3>3 DEF Alone
  <2>4. CASE StoreDevice(g)
    <3>1. /\ Alone
          /\ UNCHANGED <<keychain, deviceOf, secret, call>>
          /\ mem'.device = deviceOf[g]
          BY <2>4 DEF StoreDevice, WindowsAreAlone, outside, TypeOK, SavedState
    <3>2. Storing = {g} /\ keychain \in {None, g}
          BY <2>4, <3>1 DEF StoreDevice, Storing, Alone
    <3>3. Storing' = {} /\ Deploying' = Deploying
          BY <2>4, <3>1, <3>2 DEF StoreDevice, Storing, Deploying, TypeOK
    <3>4. MemoryIsPaired'
          BY <3>1, <3>2 DEF MemoryIsPaired
    <3> QED BY <3>1, <3>3, <3>4 DEF Alone
  <2>5. CASE LoginDies(g)
    <3>1. Alone /\ login[g] # "device"
          BY <2>5 DEF LoginDies, OpensWindow, WindowsAreAlone, Storing
    <3>2. Storing' = Storing /\ Deploying' = Deploying
          BY <2>5, <3>1 DEF LoginDies, Storing, Deploying, TypeOK
    <3> QED BY <2>5, <3>1, <3>2, QuietStep DEF LoginDies, local, outside
  <2> QED BY <1>4, <2>1, <2>2, <2>3, <2>4, <2>5 DEF LoginThread
<1>5. ASSUME NEW c \in Calls, BridgeThread(c) PROVE Alone'
  <2>1. /\ UNCHANGED <<deviceOf, login>>
        /\ Storing' = Storing
        BY <1>5, BridgeFrame DEF Storing
  <2>2. CASE CreateDone(c)
    <3>1. Alone /\ Storing = {}
          BY <2>2 DEF CreateDone, OpensWindow, WindowsAreAlone
    <3>2. UNCHANGED <<keychain, mem, secret>>
          BY <2>2 DEF CreateDone, local
    <3>3. /\ call'[c].device = mem.device
          /\ \A b \in Calls \ {c} : call'[b] = call[b]
          BY <2>2 DEF CreateDone, TypeOK
    <3>4. keychain # None => mem.device \in {None, deviceOf[keychain]}
          BY <3>1 DEF Alone, MemoryIsPaired
    <3>5. \A b \in Deploying' :
            keychain' # None /\ call'[b].device # None => deviceOf'[keychain'] = call'[b].device
          BY <2>1, <3>1, <3>2, <3>3, <3>4 DEF Alone, Deploying
    <3>6. MemoryIsPaired'
          BY <2>1, <3>2, <3>4 DEF MemoryIsPaired
    <3> QED BY <2>1, <3>1, <3>2, <3>5, <3>6 DEF Alone
  <2>3. CASE Deploy(c)
    <3>1. Alone /\ UNCHANGED <<keychain, mem>>
          BY <2>3 DEF Deploy, WindowsAreAlone, local
    <3>2. \A b \in Deploying' : b \in Deploying /\ call'[b] = call[b]
          BY <2>3 DEF Deploy, Return, Step, IdleCall, Deploying, TypeOK
    <3>3. secret' # None => deviceOf[secret'.token] = secret'.device
          BY <2>3, <3>1 DEF Deploy, Deploying, Alone
    <3>4. Storing' = {} => MemoryIsPaired'
          BY <2>1, <3>1 DEF Alone, MemoryIsPaired
    <3> QED BY <2>1, <3>1, <3>2, <3>3, <3>4 DEF Alone
  <2>4. CASE ~CreateDone(c) /\ ~Deploy(c)
    <3>1. UNCHANGED <<secret, interference>> /\ keychain' \in {keychain, None}
          BY <1>5, <2>4 DEF BridgeThread, DeviceInfo, DeviceInfoSend, DeviceInfoReply,
             ClusterStatus, Setup, CallWrite, CreateFails, Logout, LogoutDelete,
             LogoutClear, LogoutWrite, CallDies, local
    <3>2. \A b \in Deploying' : b \in Deploying /\ call'[b] = call[b]
      <4> USE DEF Step, Return, IdleCall, Deploying, TypeOK
      <4>1. CASE DeviceInfo(c) \/ DeviceInfoSend(c) \/ DeviceInfoReply(c)
            BY <4>1 DEF DeviceInfo, DeviceInfoSend, DeviceInfoReply
      <4>2. CASE ClusterStatus(c) \/ Setup(c) \/ CallWrite(c) \/ CreateFails(c)
            BY <4>2 DEF ClusterStatus, Setup, CallWrite, CreateFails
      <4>3. CASE Logout(c) \/ LogoutDelete(c) \/ LogoutClear(c) \/ LogoutWrite(c) \/ CallDies(c)
            BY <4>3 DEF Logout, LogoutDelete, LogoutClear, LogoutWrite, CallDies
      <4> QED BY <1>5, <2>4, <4>1, <4>2, <4>3 DEF BridgeThread
    <3>3. mem'.device \in {mem.device, None}
          BY <1>5, CallSaves DEF Unsaving, Begins, Flushes, Drops
    <3>4. Alone
          BY <3>1 DEF WindowsAreAlone
    <3> QED BY <2>1, <3>1, <3>2, <3>3, <3>4, QuietStep
  <2> QED BY <2>2, <2>3, <2>4
<1>6. CASE Heartbeat \/ DaemonExit
  <2>1. UNCHANGED <<mem, deviceOf, login, call, secret, interference>>
        BY <1>6, HeartbeatFrame
  <2>2. Alone /\ Storing' = Storing /\ Deploying' = Deploying
        BY <2>1 DEF WindowsAreAlone, Storing, Deploying
  <2>3. keychain' \in {keychain, None}
        BY <1>6 DEF Heartbeat, HbLoad, HbSend, HbAnswered, HbAnswer, HbDelete,
           HbClear, HbWrite, HbDies, DaemonExit, local
  <2> QED BY <2>1, <2>2, <2>3, QuietStep
<1>7. ASSUME NEW g \in Grants, Revoke(g) PROVE Alone'
      BY <1>7, QuietStep DEF Revoke, WindowsAreAlone, Storing, Deploying, local, gui
<1>8. ASSUME NEW t \in Threads, SaveOpens(t) \/ SaveDumps(t) PROVE Alone'
      BY <1>8, SaveFrame, QuietStep DEF WindowsAreAlone, Storing, Deploying, outside, gui
<1> QED BY <1>1, <1>2, <1>3, <1>4, <1>5, <1>6, <1>7, <1>8 DEF Next

\* A login that has stored its credential stays in one of its windows until
\* its save truncates the file, unless it dies there.
LEMMA WindowsClose ==
    ASSUME TypeOK, RequestsAreComplete, [Next]_vars, ~interference',
           NEW g \in Storing \union Unsaved
    PROVE  g \in (Storing \union Unsaved)' \/ SaveOpens(g)
<1>1. /\ g \in Grants /\ g \in Threads /\ g \notin Calls
      /\ login[g] = "device" \/ (login[g] = "write" /\ save[g].step = "open")
      BY ConstantsAssumption DEF Storing, Unsaved, Threads
<1>2. login'[g] = login[g] /\ save'[g] = save[g] => g \in (Storing \union Unsaved)'
      BY <1>1 DEF Storing, Unsaved
<1>3. CASE Exit
      BY <1>3 DEF Exit, OpensWindow
<1>4. CASE Heartbeat \/ DaemonExit
      BY <1>2, <1>4, HeartbeatFrame
<1>5. CASE Launch \/ ResolveStart \/ CheckReply \/ StartLoginIgnored \/ UNCHANGED vars
      BY <1>2, <1>5, PageFrame DEF vars, local, gui, saves
<1>6. ASSUME NEW c \in Calls, BridgeThread(c) PROVE g \in (Storing \union Unsaved)'
  <2>1. login' = login /\ g # c /\ c \in Threads
        BY <1>1, <1>6, BridgeFrame DEF Threads
  <2>2. save'[g] = save[g]
        BY <1>1, <1>6, <2>1, CallSaves, SavingStep DEF Unsaving, Begins, Flushes, Drops
  <2> QED BY <1>2, <2>1, <2>2
<1>7. ASSUME NEW h \in Grants \ {g}, StartLogin(h) \/ LoginThread(h) \/ Revoke(h)
      PROVE  g \in (Storing \union Unsaved)'
  <2>1. login'[g] = login[g]
        BY <1>1, <1>7 DEF StartLogin, LoginThread, Revoke, Register, SavePayload, LoginFails,
             LoginCompletes, StoreToken, StoreDevice, FinishLogin, LoginDies, gui, TypeOK
  <2>2. h \in Threads /\ (StoreDevice(h) => BeginSave(h))
        BY DEF Threads, StoreDevice
  <2>3. save'[g] = save[g]
        BY <1>1, <1>7, <2>2, LoginSaves, SavingStep DEF Unsaving, Begins, Flushes, Drops
  <2> QED BY <1>2, <2>1, <2>3
<1>8. CASE StartLogin(g) \/ LoginThread(g) \/ Revoke(g)
  <2>1. CASE Revoke(g)
        BY <1>2, <2>1 DEF Revoke, local, saves, gui
  <2>2. CASE StoreDevice(g)
    <3>1. login'[g] = "write" /\ BeginSave(g)
          BY <1>1, <2>2 DEF StoreDevice, TypeOK
    <3>2. save'[g].step = "open"
          BY <1>1, <3>1, SavingStep
    <3> QED BY <1>1, <3>1, <3>2 DEF Unsaved
  <2>3. CASE LoginDies(g)
        BY <2>3 DEF LoginDies, OpensWindow
  <2>4. CASE StartLogin(g) \/ (LoginThread(g) /\ ~StoreDevice(g) /\ ~LoginDies(g))
        BY <1>1, <2>4 DEF StartLogin, LoginThread, Register, SavePayload, LoginFails,
             LoginCompletes, StoreToken, FinishLogin, Flush
  <2> QED BY <1>8, <2>1, <2>2, <2>3, <2>4
<1>9. ASSUME NEW t \in Threads, SaveOpens(t) \/ SaveDumps(t), ~SaveOpens(g)
      PROVE  g \in (Storing \union Unsaved)'
  <2>1. login' = login
        BY <1>9, SaveFrame DEF gui
  <2>2. save'[g] = save[g] \/ save[g].step = "dump"
        BY <1>1, <1>9, SavingStep
  <2> QED BY <1>1, <2>1, <2>2 DEF Storing, Unsaved
<1> QED BY <1>3, <1>4, <1>5, <1>6, <1>7, <1>8, <1>9 DEF Next

\* Saves are settled again only by a truncation, or by the end of the process.
LEMMA UnsettledStays ==
    ASSUME TypeOK, RequestsAreComplete, unsettled, [Next]_vars, ~interference'
    PROVE  unsettled' \/ \E t \in Threads : SaveOpens(t)
<1>1. ~Exit
      BY DEF Exit, OpensWindow
<1>2. \A g \in Grants : StoreDevice(g) => unsettled'
      BY DEF StoreDevice, BeginSave
<1>3. \A t \in Threads : Begins(t) \/ Flushes(t) \/ Drops(t) \/ SaveDumps(t) => unsettled'
      BY DEF Begins, BeginSave, Flushes, Flush, Drops, DropSave, SaveDumps
<1>4. Unsaving \/ DaemonSaves \/ Launch => unsettled'
      BY DEF Unsaving, DaemonSaves, Launch, saves
<1> QED BY <1>1, <1>2, <1>3, <1>4, LocalEffect

\* Outside the windows, and without interference, the file follows memory.
LEMMA FileFollowsStep ==
    ASSUME TypeOK, ClosedIsQuiet, RequestsAreComplete, TokensAreGranted,
           SavesAreCurrent, WindowsAreAlone, Alone', [Next]_vars, ~interference'
    PROVE  FileFollows'
<1> SUFFICES ASSUME Storing' = {}, ~unsettled', Unsaved' = {}, keychain' # None
             PROVE  LoadState(file').device \in {None, deviceOf'[keychain']}
    BY DEF FileFollows, FileIsPaired, LoadState
<1>1. CASE LoadState(file').device = None
      BY <1>1
<1>2. ASSUME NEW t \in Threads, Flushes(t), save[t].step = "write",
             LoadState(file').device = save[t].state.device
      PROVE  LoadState(file').device \in {None, deviceOf'[keychain']}
  <2>1. ~unsettled /\ mem' = mem
        BY <1>2 DEF Flushes, Flush
  <2>2. save[t].state = mem'
        BY <1>2, <2>1 DEF SavesAreCurrent
  <2> QED BY <1>2, <2>2 DEF Alone, MemoryIsPaired
<1>3. CASE file' = file /\ LoadState(file').device # None
  <2>1. \A t \in Threads : ~SaveOpens(t)
        BY <1>3, LoadStateOf DEF SaveOpens
  <2>2. ~unsettled
        BY <2>1, UnsettledStays
  <2>3. Storing = {} /\ Unsaved = {}
        BY <2>1, WindowsClose DEF Storing, Unsaved, Threads
  <2>4. ~interference
        BY InterferenceStays
  <2>5. FileIsPaired
        BY <2>2, <2>3, <2>4 DEF WindowsAreAlone, FileFollows
  <2>6. keychain' = keychain
    <3>1. ASSUME NEW g \in Grants, StoreToken(g) PROVE FALSE
          BY <3>1 DEF StoreToken, Storing, TypeOK
    <3> QED BY <3>1, KeychainEffect
  <2>7. deviceOf'[keychain] = deviceOf[keychain]
    <3>1. deviceOf[keychain] # None /\ keychain \in Grants
          BY <2>6 DEF TokensAreGranted, Granted, TypeOK
    <3> QED BY <3>1, DevicesStay
  <2> QED BY <1>3, <2>5, <2>6, <2>7 DEF FileIsPaired
<1> QED BY <1>1, <1>2, <1>3, FileEffect

\* The two together.
LEMMA WindowsStep ==
    ASSUME TypeOK, ClosedIsQuiet, RequestsAreComplete, TokensAreGranted,
           SavesAreCurrent, WindowsAreAlone, [Next]_vars
    PROVE  WindowsAreAlone'
BY AloneStep, FileFollowsStep DEF WindowsAreAlone

-----------------------------------------------------------------------------
(***************************************************************************)
(* The invariant, and the properties of DeviceSession that follow.         *)
(***************************************************************************)
\* The invariant holds initially ...
LEMMA SessionInvInit == Init => SessionInv
<1> SUFFICES ASSUME Init PROVE SessionInv
    OBVIOUS
<1>1. TypeOK
      BY InitType
<1>2. SingleLoginFlow
      BY DEF Init, SingleLoginFlow, Waiting
<1>3. ClosedIsQuiet
      BY DEF Init, ClosedIsQuiet, IdleCall, NoSave, Saving
<1>4. DiskForgetsWithMemory
      BY DEF Init, DiskForgetsWithMemory
<1>10. SavesAreCurrent
      BY DEF Init, SavesAreCurrent, Saving, NoSave
<1>5. LoadState(EmptyState).device = None
      BY DEF LoadState, EmptyState
<1>6. DevicesAreKnown
      BY <1>5 DEF Init, DevicesAreKnown, Known, EmptyState, IdleBeat, IdleCall, NoSave
<1>7. TokensAreGranted
      BY DEF Init, TokensAreGranted, Granted, IdleBeat, IdleCall
<1>8. RequestsAreComplete
      BY DEF Init, RequestsAreComplete, IdleBeat, IdleCall
<1>9. WindowsAreAlone
      BY DEF Init, WindowsAreAlone, Alone, FileFollows, MemoryIsPaired, FileIsPaired,
         Storing, Deploying, IdleCall
<1> QED BY <1>1, <1>2, <1>3, <1>4, <1>6, <1>7, <1>8, <1>9, <1>10 DEF SessionInv

\* ... every step keeps it ...
LEMMA SessionInvStep == SessionInv /\ [Next]_vars => SessionInv'
BY NextType, SingleLoginFlowStep, ClosedIsQuietStep, DiskForgetsStep, RequestsStep,
   DevicesAreKnownStep, TokensAreGrantedStep, SavesAreCurrentStep, WindowsStep
   DEF SessionInv

\* ... and so it always holds.
THEOREM SessionInvariant == Spec => []SessionInv
BY SessionInvInit, SessionInvStep, PTL DEF Spec

\* One login waits at a time, and _login_in_progress says whether one does.
THEOREM OneLoginAtATime == Spec => []SingleLoginFlow
<1>1. SessionInv => SingleLoginFlow
      BY DEF SessionInv
<1> QED BY <1>1, SessionInvariant, PTL

\* No later start of the app finds a device id that it has forgotten.
THEOREM DiskForgets == Spec => []DiskForgetsWithMemory
<1>1. SessionInv => DiskForgetsWithMemory
      BY DEF SessionInv
<1> QED BY <1>1, SessionInvariant, PTL

\* Credential and device id belong together unless a window was entered.
THEOREM SessionPairing == Spec => []SessionIsPaired
<1>1. SessionInv => SessionIsPaired
      BY DEF SessionInv, WindowsAreAlone, Alone, FileFollows, SessionIsPaired
<1> QED BY <1>1, SessionInvariant, PTL

\* So does the pair that Setup deploys.
THEOREM SecretPairing == Spec => []SecretIsPaired
<1>1. SessionInv => SecretIsPaired
      BY DEF SessionInv, WindowsAreAlone, Alone, SecretIsPaired
<1> QED BY <1>1, SessionInvariant, PTL

\* A pair that Cloud refuses although it accepts g involves another login.
LEMMA RefusalNamesAnotherLogin ==
    ASSUME TypeOK, NEW g \in Grants, Live(g), deviceOf[g] # None,
           NEW t \in Grants, Granted(t),
           NEW d \in Devices, Known(d), Refused(t, d)
    PROVE  \E h \in Grants \ {g} : deviceOf[h] # None
<1>1. CASE t # g
      BY <1>1, ConstantsAssumption DEF Granted
<1>2. CASE t = g
      BY <1>2, ConstantsAssumption DEF Refused, Known, Live
<1> QED BY <1>1, <1>2

\* Losing an accepted session uninvited takes a second completed login.
THEOREM UninvitedLogout == Spec => UninvitedLogoutNeedsTwoLogins
<1> DEFINE Lost(g) == (Dropped(g) \/ Forgotten(g)) /\ Live(g) /\ deviceOf[g] # None /\ ~LoggingOut
<1>1. ASSUME SessionInv, [Next]_vars, NEW g \in Grants, Lost(g)
      PROVE  \E h \in Grants \ {g} : deviceOf[h] # None
  <2> USE <1>1 DEF SessionInv
  <2>1. CASE HbDelete
    <3>1. hb.pc = "delete"
          BY <2>1 DEF HbDelete
    <3>2. /\ hb.token \in Grants /\ Granted(hb.token)
          /\ hb.saved.device \in Devices /\ Known(hb.saved.device)
          /\ Refused(hb.token, hb.saved.device)
          BY <3>1 DEF RequestsAreComplete, TokensAreGranted, DevicesAreKnown,
                      TypeOK, SavedState
    <3> QED BY <3>2, RefusalNamesAnotherLogin
  <2>2. ASSUME NEW c \in Calls, DeviceInfoReply(c), mem'.device # mem.device
        PROVE  \E h \in Grants \ {g} : deviceOf[h] # None
    <3>1. /\ call[c].token \in Grants /\ Granted(call[c].token)
          /\ call[c].device \in Devices /\ Known(call[c].device)
          BY <2>2 DEF DeviceInfoReply, RequestsAreComplete, TokensAreGranted,
                      DevicesAreKnown, TypeOK
    <3>2. "not_found" \in Response(call[c].token, call[c].device)
          BY <2>2 DEF DeviceInfoReply
    <3>3. Refused(call[c].token, call[c].device)
          BY <3>1, <3>2 DEF Response, Live, Refused
    <3> QED BY <3>1, <3>3, RefusalNamesAnotherLogin
  <2>3. ASSUME NEW c \in Calls, LogoutDelete(c) \/ LogoutClear(c) PROVE FALSE
    <3>1. call'[c].pc # call[c].pc /\ call[c].pc \in {"logout", "clear"}
          BY <2>3 DEF LogoutDelete, LogoutClear, Step, IdleCall, TypeOK
    <3> QED BY <3>1 DEF LoggingOut
  <2>4. CASE Dropped(g)
    <3>1. keychain' # keychain
          BY <2>4, ConstantsAssumption DEF Dropped
    <3>2. ASSUME NEW h \in Grants, StoreToken(h) PROVE FALSE
          BY <2>4, <3>2, ConstantsAssumption DEF StoreToken, Dropped
    <3>3. ASSUME NEW h \in Grants, StartLogin(h) \/ LoginThread(h) \/ Revoke(h), ~StoreToken(h)
          PROVE  keychain' = keychain
          BY <3>3 DEF StartLogin, LoginThread, Revoke, Register, SavePayload,
             LoginFails, LoginCompletes, StoreDevice, FinishLogin, LoginDies, local
    <3>4. ASSUME NEW c \in Calls, BridgeThread(c), ~LogoutDelete(c)
          PROVE  keychain' = keychain
          BY <3>4 DEF BridgeThread, DeviceInfo, DeviceInfoSend, DeviceInfoReply,
             ClusterStatus, Setup, CallWrite, CreateFails, CreateDone, Deploy,
             Logout, LogoutClear, LogoutWrite, CallDies, local
    <3>5. CASE (Heartbeat /\ ~HbDelete) \/ DaemonExit
          BY <3>1, <3>5 DEF Heartbeat, HbLoad, HbSend, HbAnswered, HbAnswer,
             HbClear, HbWrite, HbDies, DaemonExit, local
    <3> QED BY <2>1, <2>3, <3>1, <3>2, <3>3, <3>4, <3>5, PageFrame, SaveFrame
            DEF Next, Exit, vars, local
  <2>5. CASE Forgotten(g)
    <3>1. mem'.device # mem.device /\ mem'.device = None /\ page' # "closed"
          BY <2>5 DEF Forgotten
    <3>2. ASSUME NEW h \in Grants, StoreDevice(h) PROVE FALSE
          BY <3>1, <3>2 DEF StoreDevice, TokensAreGranted, TypeOK, SavedState
    <3>3. ASSUME Launch PROVE FALSE
          BY <2>5, <3>3 DEF Launch, ClosedIsQuiet, EmptyState, Forgotten
    <3>4. ASSUME NEW h \in Grants, StartLogin(h) \/ LoginThread(h) \/ Revoke(h), ~StoreDevice(h)
          PROVE  mem'.device = mem.device
          BY <3>4 DEF StartLogin, LoginThread, Revoke, Register, SavePayload, LoginFails,
             LoginCompletes, StoreToken, FinishLogin, LoginDies, SaveDefaults, local,
             TypeOK, SavedState
    <3>5. ASSUME NEW c \in Calls, BridgeThread(c), ~DeviceInfoReply(c), ~LogoutClear(c)
          PROVE  mem'.device = mem.device
          BY <3>5 DEF BridgeThread, DeviceInfo, DeviceInfoSend, ClusterStatus, Setup,
             CallWrite, CreateFails, CreateDone, Deploy, Logout, LogoutDelete,
             LogoutWrite, CallDies, SaveDefaults, local, TypeOK, SavedState
    <3>6. CASE ResolveStart \/ CheckReply \/ StartLoginIgnored
          BY <3>1, <3>6 DEF ResolveStart, CheckReply, StartLoginIgnored, local
    <3> QED BY <2>2, <2>3, <3>1, <3>2, <3>3, <3>4, <3>5, <3>6, HeartbeatFrame, SaveFrame
            DEF Next, Exit, vars, local
  <2> QED BY <2>4, <2>5
<1>2. SessionInv /\ [Next]_vars
      => [\A g \in Grants : Lost(g) => \E h \in Grants \ {g} : deviceOf[h] # None]_vars
      BY <1>1
<1> QED BY <1>2, SessionInvariant, PTL DEF Spec, UninvitedLogoutNeedsTwoLogins
=============================================================================
