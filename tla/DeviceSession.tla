---------------------------- MODULE DeviceSession ----------------------------
(***************************************************************************)
(* The device session of browseterm-desktop: the credential in the OS      *)
(* keychain, the state file next to it, and everything that reads or       *)
(* writes the pair while the others run:                                   *)
(*                                                                         *)
(*   - the GUI process (desktop/app.py, desktop/api.py): one background    *)
(*     thread per login, one thread per call of the page, one in-memory    *)
(*     DesktopState that all of them share, and a page that decides what   *)
(*     can be clicked;                                                     *)
(*   - the daemon process (desktop/daemon.py): its heartbeat loop;         *)
(*   - Cloud, external: it hands out credentials, revokes them, and        *)
(*     answers the requests that carry one.                                *)
(*                                                                         *)
(* A grant stands for one successful login and for the credential that     *)
(* login yields. device_name always travels with device_id and the three   *)
(* allocation figures always travel together, so each is one value here.   *)
(* How a login polls Cloud, and how it fails, is the module LoginFlow.     *)
(***************************************************************************)
EXTENDS FiniteSets

CONSTANTS Grants,        \* logins Cloud may complete; a grant is its credential
          Devices,       \* device ids Cloud may answer a login with
          Allocs,        \* resource allocations a user may choose
          DefaultAlloc,  \* device_info.default_allocation of this machine
          Calls,         \* threads running calls of the page at the same time
          Operations,    \* a bound: what may be offered (see there)
          None,          \* an absent value
          Torn,          \* the state file between truncation and write
          Garbled        \* the state file after overlapping writes

ASSUME ConstantsAssumption ==
    /\ DefaultAlloc \in Allocs
    /\ None \notin Grants \union Devices \union Allocs \union Calls
    /\ Grants \intersect Calls = {}
    /\ Operations \subseteq
          [Calls -> SUBSET {"device_info", "cluster_status", "setup_cluster", "logout"}]
    /\ {Torn, Garbled} \intersect
          [device : Devices \union {None}, alloc : Allocs \union {None}] = {}

VARIABLES keychain,      \* the stored credential
          file,          \* ~/.browseterm state file
          mem,           \* the GUI's DesktopState
          save,          \* each thread of the GUI: its DesktopState.save
          deviceOf,      \* Cloud: the device each grant was issued for
          revoked,       \* Cloud: credentials that are no longer accepted
          offered,       \* bound: what each call of this behaviour may be a call of
          page,          \* what the window shows
          buttons,       \* are the login buttons enabled
          loads,         \* calls the app page still has to make on load
          busy,          \* the call the Setup button waits for
          startToken,    \* the credential being validated at startup
          inProgress,    \* DesktopApp._login_in_progress
          login,         \* program counter of each login thread
          call,          \* each bridge thread: program counter and locals
          hb,            \* the daemon's heartbeat: program counter and locals
          secret,        \* the pair deployed into the cluster
          interference,  \* history: see OpensWindow
          unsettled,     \* history: see BeginSave
          cut            \* history: a save was killed or has failed

saves == <<file, save, unsettled, cut>>
local == <<keychain, mem, saves>>
outside == <<deviceOf, revoked, offered>>
ui    == <<page, buttons, loads, busy, startToken>>
gui   == <<ui, inProgress, login, call, secret, interference>>
vars  == <<local, outside, gui, hb>>

Threads == Grants \union Calls

SavedState == [device : Devices \union {None}, alloc : Allocs \union {None}]
EmptyState == [device |-> None, alloc |-> None]

Pages      == {"closed", "starting", "checking", "login", "app"}
LoginSteps == {"idle", "started", "saving", "polling", "granted", "device",
               "write", "done", "lost"}
CallSteps  == {"idle", "info", "info_sent", "info_write", "status_write",
               "alloc_write", "create", "deploy", "logout", "clear",
               "logout_write"}
BeatSteps  == {"wait", "loaded", "sent", "delete", "clear", "write", "dead"}
SaveSteps  == {"none", "open", "dump", "write"}

IdleCall == [pc |-> "idle", token |-> None, device |-> None]
IdleBeat == [pc |-> "wait", token |-> None, saved |-> EmptyState]
NoSave   == [step |-> "none", state |-> EmptyState]

(***************************************************************************)
(* The state file. A file that is absent, or that does not parse, reads    *)
(* as a fresh state. DesktopState.save truncates the file, takes a         *)
(* snapshot of the fields and writes that when the file is closed; when    *)
(* another save has written since the truncation, the two texts can also   *)
(* overlap and leave a file that does not parse.                           *)
(***************************************************************************)
LoadState(f) == IF f \in {Torn, Garbled} THEN EmptyState ELSE f

Written(state) == IF file = Torn THEN {state} ELSE {state, Garbled}

Saving == {t \in Threads : save[t].step # "none"}

(***************************************************************************)
(* A thread of the GUI that changes the DesktopState saves it next. The    *)
(* history variable unsettled is TRUE from the moment a save begins while  *)
(* another is under way, or one fails, until a save truncates the file on  *)
(* its own: in between, an old snapshot may be the last one written.       *)
(***************************************************************************)
BeginSave(t) ==
    /\ save' = [save EXCEPT ![t].step = "open"]
    /\ unsettled' = (unsettled \/ Saving # {})
    /\ UNCHANGED <<file, cut>>

Flush(t) ==
    /\ save[t].step = "write"
    /\ file' \in Written(save[t].state)
    /\ save' = [save EXCEPT ![t] = NoSave]
    /\ UNCHANGED <<unsettled, cut>>

\* A save that raises where it is: the memory has changed, the file may not.
DropSave(t) ==
    /\ save' = [save EXCEPT ![t] = NoSave]
    /\ unsettled' = (unsettled \/ t \in Saving)
    /\ cut' = (cut \/ t \in Saving)

\* ensure_allocation_defaults opens the file for writing only the first time
NeedsDefaults == mem.alloc = None

SaveDefaults(t) ==
    /\ mem' = [mem EXCEPT !.alloc = DefaultAlloc]
    /\ BeginSave(t)

(***************************************************************************)
(* What Cloud may answer to a request that carries credential g for        *)
(* device d. A credential used for another device than its own, or after   *)
(* its revocation, is refused. Any request can fail in transport.          *)
(***************************************************************************)
Live(g) == g \in Grants \ revoked

Response(g, d) ==
    {"error"} \union
    IF Live(g) /\ deviceOf[g] = d THEN {"ok"} ELSE {"unauthorized", "not_found"}

(***************************************************************************)
(* The three windows in which the credential and the device id of a        *)
(* session are not changed together: a login that has stored its           *)
(* credential and not yet its device id, the same login until its save     *)
(* truncates the file, and a Setup that has read the device id and not yet *)
(* the credential. The history variable interference records that another  *)
(* actor got into one of them, that the login died there, or that the GUI  *)
(* ended with its saves unsettled.                                         *)
(***************************************************************************)
Storing   == {g \in Grants : login[g] = "device"}
Unsaved   == {g \in Grants : login[g] = "write" /\ save[g].step = "open"}
Deploying == {c \in Calls : call[c].pc = "deploy"}

OpensWindow(hit) == interference' = (interference \/ hit)

-----------------------------------------------------------------------------
\* The state of a fresh installation, with the daemon already running.
Init ==
    /\ keychain = None
    /\ file = EmptyState
    /\ mem = EmptyState
    /\ save = [t \in Threads |-> NoSave]
    /\ deviceOf = [g \in Grants |-> None]
    /\ revoked = {}
    /\ offered \in Operations
    /\ page = "closed"
    /\ buttons = FALSE
    /\ loads = {}
    /\ busy = None
    /\ startToken = None
    /\ inProgress = FALSE
    /\ login = [g \in Grants |-> "idle"]
    /\ call = [c \in Calls |-> IdleCall]
    /\ hb = IdleBeat
    /\ secret = None
    /\ interference = FALSE
    /\ unsettled = FALSE
    /\ cut = FALSE

(***************************************************************************)
(* The two steps of a save that every thread of the GUI takes alike; the   *)
(* third, Flush, is part of what the thread does next.                     *)
(***************************************************************************)
SaveOpens(t) ==
    /\ save[t].step = "open"
    /\ file' = Torn
    /\ save' = [save EXCEPT ![t].step = "dump"]
    /\ unsettled' = (unsettled /\ Saving # {t})
    /\ UNCHANGED <<keychain, mem, cut, outside, gui, hb>>

SaveDumps(t) ==
    /\ save[t].step = "dump"
    /\ save' = [save EXCEPT ![t] = [step |-> "write", state |-> mem]]
    /\ UNCHANGED <<keychain, file, mem, unsettled, cut, outside, gui, hb>>

(***************************************************************************)
(* Starting and leaving the GUI                                            *)
(***************************************************************************)
LoadCalls == {"device_info", "cluster_status"}

Show(p) ==
    /\ page' = p
    /\ buttons' = (p = "login")
    /\ loads' = IF p = "app" THEN LoadCalls \intersect UNION {offered[c] : c \in Calls} ELSE {}
    /\ busy' = None

Launch ==
    /\ page = "closed"
    /\ mem' = LoadState(file)
    /\ page' = "starting"
    /\ UNCHANGED <<keychain, saves, outside, buttons, loads, busy, startToken,
                   inProgress, login, call, secret, interference, hb>>

\* No device id, or no credential: the login page, without asking Cloud.
ResolveStart ==
    /\ page = "starting"
    /\ IF mem.device = None \/ keychain = None
       THEN Show("login") /\ UNCHANGED startToken
       ELSE /\ startToken' = keychain
            /\ page' = "checking"
            /\ UNCHANGED <<buttons, loads, busy>>
    /\ UNCHANGED <<local, outside, inProgress, login, call, secret, interference, hb>>

CheckReply ==
    /\ page = "checking"
    /\ \E answer \in Response(startToken, mem.device) :
         Show(IF answer \in {"unauthorized", "not_found"} THEN "login" ELSE "app")
    /\ startToken' = None
    /\ UNCHANGED <<local, outside, inProgress, login, call, secret, interference, hb>>

\* The process ends, closed or killed, at whatever step its threads are.
Exit ==
    /\ page # "closed"
    /\ page' = "closed"
    /\ mem' = EmptyState
    /\ buttons' = FALSE
    /\ loads' = {}
    /\ busy' = None
    /\ startToken' = None
    /\ inProgress' = FALSE
    /\ login' = [g \in Grants |->
                   CASE login[g] \in {"started", "saving", "polling"} -> "idle"
                     [] login[g] \in {"granted", "device", "write"}   -> "lost"
                     [] OTHER                                         -> login[g]]
    /\ call' = [c \in Calls |-> IdleCall]
    /\ save' = [t \in Threads |-> NoSave]
    /\ unsettled' = FALSE
    /\ cut' = (cut \/ unsettled \/ Saving # {})
    /\ OpensWindow(unsettled \/ Storing \union Unsaved # {})
    /\ UNCHANGED <<keychain, file, outside, secret, hb>>

(***************************************************************************)
(* Login: _handle_start_login and the thread of _run_login_flow            *)
(***************************************************************************)
StartLogin(g) ==
    /\ page = "login" /\ buttons
    /\ ~inProgress
    /\ login[g] = "idle"
    /\ buttons' = FALSE
    /\ inProgress' = TRUE
    /\ login' = [login EXCEPT ![g] = "started"]
    /\ UNCHANGED <<local, outside, page, loads, busy, startToken, call, secret,
                   interference, hb>>

\* The page disables its buttons before the bridge call finds a login running.
StartLoginIgnored ==
    /\ page = "login" /\ buttons
    /\ inProgress
    /\ buttons' = FALSE
    /\ UNCHANGED <<local, outside, page, loads, busy, startToken, inProgress,
                   login, call, secret, interference, hb>>

\* The device code is shown and the registration payload is built.
Register(g) ==
    /\ login[g] = "started"
    /\ IF NeedsDefaults
       THEN SaveDefaults(g) /\ login' = [login EXCEPT ![g] = "saving"]
       ELSE UNCHANGED <<mem, saves>> /\ login' = [login EXCEPT ![g] = "polling"]
    /\ UNCHANGED <<keychain, outside, ui, inProgress, call, secret, interference, hb>>

SavePayload(g) ==
    /\ login[g] = "saving"
    /\ Flush(g)
    /\ login' = [login EXCEPT ![g] = "polling"]
    /\ UNCHANGED <<keychain, mem, outside, ui, inProgress, call, secret,
                   interference, hb>>

\* Any failure before Cloud completes the login: message, buttons, flag.
LoginFails(g) ==
    /\ login[g] \in {"started", "saving", "polling"}
    /\ login' = [login EXCEPT ![g] = "idle"]
    /\ buttons' = (page = "login")
    /\ inProgress' = FALSE
    /\ DropSave(g)
    /\ UNCHANGED <<keychain, file, mem, outside, page, loads, busy, startToken, call,
                   secret, interference, hb>>

\* Mutant: the flag is reset after a failure only.
LoginCompletes_KeepsFlag(g) ==
    /\ login[g] = "polling"
    /\ \E d \in Devices : deviceOf' = [deviceOf EXCEPT ![g] = d]
    /\ login' = [login EXCEPT ![g] = "granted"]
    /\ UNCHANGED <<local, revoked, offered, ui, inProgress, call, secret, interference, hb>>

\* The "complete" answer arrives, and the finally clause resets the flag.
LoginCompletes(g) ==
    /\ login[g] = "polling"
    /\ \E d \in Devices : deviceOf' = [deviceOf EXCEPT ![g] = d]
    /\ login' = [login EXCEPT ![g] = "granted"]
    /\ inProgress' = FALSE
    /\ UNCHANGED <<local, revoked, offered, ui, call, secret, interference, hb>>

StoreToken(g) ==
    /\ login[g] = "granted"
    /\ keychain' = g
    /\ login' = [login EXCEPT ![g] = "device"]
    /\ OpensWindow(Storing # {} \/ Deploying # {})
    /\ UNCHANGED <<mem, saves, outside, ui, inProgress, call, secret, hb>>

\* Mutant: the device id is filled in only where there is none.
StoreDevice_KeepsOld(g) ==
    /\ login[g] = "device"
    /\ mem' = IF mem.device = None THEN [mem EXCEPT !.device = deviceOf[g]] ELSE mem
    /\ BeginSave(g)
    /\ login' = [login EXCEPT ![g] = "write"]
    /\ UNCHANGED <<keychain, outside, ui, inProgress, call, secret, interference, hb>>

\* Mutant: the credential is stored as the device id.
StoreDevice_Token(g) ==
    /\ login[g] = "device"
    /\ mem' = [mem EXCEPT !.device = g]
    /\ BeginSave(g)
    /\ login' = [login EXCEPT ![g] = "write"]
    /\ UNCHANGED <<keychain, outside, ui, inProgress, call, secret, interference, hb>>

StoreDevice(g) ==
    /\ login[g] = "device"
    /\ mem' = [mem EXCEPT !.device = deviceOf[g]]
    /\ BeginSave(g)
    /\ login' = [login EXCEPT ![g] = "write"]
    /\ UNCHANGED <<keychain, outside, ui, inProgress, call, secret, interference, hb>>

FinishLogin(g) ==
    /\ login[g] = "write"
    /\ Flush(g)
    /\ login' = [login EXCEPT ![g] = "done"]
    /\ Show("app")
    /\ UNCHANGED <<keychain, mem, outside, startToken, inProgress, call, secret,
                   interference, hb>>

\* The keychain or the disk refuses a write: nothing catches it out here.
LoginDies(g) ==
    /\ login[g] \in {"granted", "device", "write"}
    /\ login' = [login EXCEPT ![g] = "lost"]
    /\ DropSave(g)
    /\ OpensWindow(g \in Storing \union Unsaved)
    /\ UNCHANGED <<keychain, file, mem, outside, ui, inProgress, call, secret, hb>>

(***************************************************************************)
(* Calls of the app page, each on a thread of its own                      *)
(***************************************************************************)
Step(c, pc) == call' = [call EXCEPT ![c] = [IdleCall EXCEPT !.pc = pc]]
Return(c)   == Step(c, "idle")

\* Api.device_info: the credential is read first, ...
DeviceInfo(c) ==
    /\ page = "app" /\ "device_info" \in loads \intersect offered[c]
    /\ call[c].pc = "idle"
    /\ loads' = loads \ {"device_info"}
    /\ IF keychain = None
       THEN UNCHANGED call
       ELSE call' = [call EXCEPT ![c].pc = "info", ![c].token = keychain]
    /\ UNCHANGED <<local, outside, page, buttons, busy, startToken, inProgress,
                   login, secret, interference, hb>>

\* ... then the device id to ask for, ...
DeviceInfoSend(c) ==
    /\ call[c].pc = "info"
    /\ IF mem.device = None
       THEN Return(c)
       ELSE call' = [call EXCEPT ![c].pc = "info_sent", ![c].device = mem.device]
    /\ UNCHANGED <<local, outside, ui, inProgress, login, secret, interference, hb>>

\* Mutant: any failure of the request forgets the device id.
DeviceInfoReply_AnyFailure(c) ==
    /\ call[c].pc = "info_sent"
    /\ \E answer \in Response(call[c].token, call[c].device) :
         IF answer # "ok"
         THEN /\ mem' = [mem EXCEPT !.device = None]
              /\ BeginSave(c)
              /\ Step(c, "info_write")
         ELSE Return(c) /\ UNCHANGED <<mem, saves>>
    /\ UNCHANGED <<keychain, outside, ui, inProgress, login, secret, interference, hb>>

\* ... and a 404 forgets whatever device id is in memory by then.
DeviceInfoReply(c) ==
    /\ call[c].pc = "info_sent"
    /\ \E answer \in Response(call[c].token, call[c].device) :
         IF answer = "not_found"
         THEN /\ mem' = [mem EXCEPT !.device = None]
              /\ BeginSave(c)
              /\ Step(c, "info_write")
         ELSE Return(c) /\ UNCHANGED <<mem, saves>>
    /\ UNCHANGED <<keychain, outside, ui, inProgress, login, secret, interference, hb>>

\* Api.cluster_status, for what it changes: the defaults.
ClusterStatus(c) ==
    /\ page = "app" /\ "cluster_status" \in loads \intersect offered[c]
    /\ call[c].pc = "idle"
    /\ loads' = loads \ {"cluster_status"}
    /\ IF NeedsDefaults
       THEN SaveDefaults(c) /\ Step(c, "status_write")
       ELSE UNCHANGED <<mem, saves, call>>
    /\ UNCHANGED <<keychain, outside, page, buttons, busy, startToken, inProgress,
                   login, secret, interference, hb>>

\* Api.setup_cluster from a click on Setup: the chosen allocation first.
Setup(c) ==
    /\ page = "app" /\ busy = None
    /\ "setup_cluster" \in offered[c]
    /\ call[c].pc = "idle"
    /\ \E a \in Allocs : mem' = [mem EXCEPT !.alloc = a]
    /\ BeginSave(c)
    /\ busy' = c
    /\ Step(c, "alloc_write")
    /\ UNCHANGED <<keychain, outside, page, buttons, loads, startToken, inProgress,
                   login, secret, interference, hb>>

\* The last step of the saves above; the Cloud update that follows the one
\* of Setup is best-effort and changes nothing here.
CallWrite(c) ==
    /\ call[c].pc \in {"info_write", "status_write", "alloc_write"}
    /\ Flush(c)
    /\ IF call[c].pc = "alloc_write" THEN Step(c, "create") ELSE Return(c)
    /\ UNCHANGED <<keychain, mem, outside, ui, inProgress, login, secret,
                   interference, hb>>

\* The page forgets that it was busy only if it is still the same page.
Rendered(c) == busy' = IF busy = c THEN None ELSE busy

\* create_cluster, minutes long, has failed: cluster_status and back.
CreateFails(c) ==
    /\ call[c].pc = "create"
    /\ Return(c)
    /\ Rendered(c)
    /\ UNCHANGED <<local, outside, page, buttons, loads, startToken, inProgress,
                   login, secret, interference, hb>>

\* It has succeeded: the arguments of deploy are read only now, the device
\* id from memory ...
CreateDone(c) ==
    /\ call[c].pc = "create"
    /\ call' = [call EXCEPT ![c].pc = "deploy", ![c].device = mem.device]
    /\ OpensWindow(Storing # {})
    /\ UNCHANGED <<local, outside, ui, inProgress, login, secret, hb>>

\* ... and the credential from the keychain. deploy refuses a missing one
\* and can fail before or after it has created the Secret.
Deploy(c) ==
    /\ call[c].pc = "deploy"
    /\ \/ UNCHANGED secret
       \/ /\ call[c].device # None
          /\ keychain # None
          /\ secret' = [device |-> call[c].device, token |-> keychain]
    /\ Return(c)
    /\ Rendered(c)
    /\ UNCHANGED <<local, outside, page, buttons, loads, startToken, inProgress,
                   login, interference, hb>>

\* Api.logout from a click on Logout, which stays clickable.
Logout(c) ==
    /\ page = "app"
    /\ "logout" \in offered[c]
    /\ call[c].pc = "idle"
    /\ Step(c, "logout")
    /\ UNCHANGED <<local, outside, ui, inProgress, login, secret, interference, hb>>

LogoutDelete(c) ==
    /\ call[c].pc = "logout"
    /\ keychain' = None
    /\ Step(c, "clear")
    /\ UNCHANGED <<mem, saves, outside, ui, inProgress, login, secret, interference, hb>>

LogoutClear(c) ==
    /\ call[c].pc = "clear"
    /\ mem' = [mem EXCEPT !.device = None]
    /\ BeginSave(c)
    /\ Step(c, "logout_write")
    /\ UNCHANGED <<keychain, outside, ui, inProgress, login, secret, interference, hb>>

LogoutWrite(c) ==
    /\ call[c].pc = "logout_write"
    /\ Flush(c)
    /\ Return(c)
    /\ Show("login")
    /\ UNCHANGED <<keychain, mem, outside, startToken, inProgress, login, secret,
                   interference, hb>>

\* The keychain, the disk or an answer that is not JSON raises what no call
\* catches: the page is not told, and a Setup button stays busy.
CallDies(c) ==
    /\ call[c].pc \notin {"idle", "clear"}
    /\ Return(c)
    /\ DropSave(c)
    /\ UNCHANGED <<keychain, file, mem, outside, ui, inProgress, login, secret,
                   interference, hb>>

(***************************************************************************)
(* The daemon: Daemon._heartbeat_once, in a process of its own             *)
(***************************************************************************)
HbLoad ==
    /\ hb.pc = "wait"
    /\ hb' = [hb EXCEPT !.pc = "loaded", !.saved = LoadState(file)]
    /\ UNCHANGED <<local, outside, gui>>

HbSend ==
    /\ hb.pc = "loaded"
    /\ hb' = IF keychain = None \/ hb.saved.device = None
             THEN IdleBeat
             ELSE [hb EXCEPT !.pc = "sent", !.token = keychain]
    /\ UNCHANGED <<local, outside, gui>>

\* Mutant: any failure of the request condemns the credential.
HbAnswer_AnyFailure(answer) ==
    /\ hb.pc = "sent"
    /\ answer \in Response(hb.token, hb.saved.device)
    /\ hb' = IF answer # "ok" THEN [hb EXCEPT !.pc = "delete"] ELSE IdleBeat
    /\ UNCHANGED <<local, outside, gui>>

\* Mutant: a 401 is retried like any other failure.
HbAnswer_Retries(answer) ==
    /\ hb.pc = "sent"
    /\ answer \in Response(hb.token, hb.saved.device)
    /\ hb' = IdleBeat
    /\ UNCHANGED <<local, outside, gui>>

HbAnswer(answer) ==
    /\ hb.pc = "sent"
    /\ answer \in Response(hb.token, hb.saved.device)
    /\ hb' = IF answer = "unauthorized" THEN [hb EXCEPT !.pc = "delete"] ELSE IdleBeat
    /\ UNCHANGED <<local, outside, gui>>

HbAnswered ==
    \E answer \in {"ok", "error", "unauthorized", "not_found"} : HbAnswer(answer)

HbDelete ==
    /\ hb.pc = "delete"
    /\ keychain' = None
    /\ hb' = [hb EXCEPT !.pc = "clear", !.token = None]
    /\ UNCHANGED <<mem, saves, outside, gui>>

\* Mutant: the snapshot is saved without forgetting its device id.
HbClear_Keeps ==
    /\ hb.pc = "clear"
    /\ file' = Torn
    /\ hb' = [hb EXCEPT !.pc = "write"]
    /\ UNCHANGED <<keychain, mem, save, unsettled, cut, outside, gui>>

\* state.clear() on the snapshot of HbLoad, up to the truncation ...
HbClear ==
    /\ hb.pc = "clear"
    /\ file' = Torn
    /\ hb' = [hb EXCEPT !.pc = "write", !.saved.device = None]
    /\ UNCHANGED <<keychain, mem, save, unsettled, cut, outside, gui>>

\* ... and the write.
HbWrite ==
    /\ hb.pc = "write"
    /\ file' \in Written(hb.saved)
    /\ hb' = IdleBeat
    /\ UNCHANGED <<keychain, mem, save, unsettled, cut, outside, gui>>

\* Only CloudClientError is caught: a keychain or a disk that fails, or an
\* answer that is not JSON, ends the heartbeat thread, the process lives on.
HbDies ==
    /\ hb.pc \notin {"wait", "dead"}
    /\ hb' = [IdleBeat EXCEPT !.pc = "dead"]
    /\ UNCHANGED <<local, outside, gui>>

\* launchd starts the daemon again wherever it was stopped or killed; only
\* so does a dead heartbeat thread come back.
DaemonExit ==
    /\ hb.pc # "wait"
    /\ hb' = IdleBeat
    /\ UNCHANGED <<local, outside, gui>>

(***************************************************************************)
(* Cloud                                                                   *)
(***************************************************************************)
Revoke(g) ==
    /\ deviceOf[g] # None
    /\ g \notin revoked
    /\ revoked' = revoked \union {g}
    /\ UNCHANGED <<local, deviceOf, offered, gui, hb>>

-----------------------------------------------------------------------------
LoginThread(g) ==
    \/ Register(g)
    \/ SavePayload(g)
    \/ LoginFails(g)
    \/ LoginCompletes(g)
    \/ StoreToken(g)
    \/ StoreDevice(g)
    \/ FinishLogin(g)
    \/ LoginDies(g)

BridgeThread(c) ==
    \/ DeviceInfo(c)
    \/ DeviceInfoSend(c)
    \/ DeviceInfoReply(c)
    \/ ClusterStatus(c)
    \/ Setup(c)
    \/ CallWrite(c)
    \/ CreateFails(c)
    \/ CreateDone(c)
    \/ Deploy(c)
    \/ Logout(c)
    \/ LogoutDelete(c)
    \/ LogoutClear(c)
    \/ LogoutWrite(c)
    \/ CallDies(c)

Heartbeat ==
    \/ HbLoad
    \/ HbSend
    \/ HbAnswered
    \/ HbDelete
    \/ HbClear
    \/ HbWrite
    \/ HbDies

Next ==
    \/ Launch
    \/ ResolveStart
    \/ CheckReply
    \/ Exit
    \/ StartLoginIgnored
    \/ \E g \in Grants : StartLogin(g) \/ LoginThread(g) \/ Revoke(g)
    \/ \E c \in Calls : BridgeThread(c)
    \/ \E t \in Threads : SaveOpens(t) \/ SaveDumps(t)
    \/ Heartbeat
    \/ DaemonExit

Spec == Init /\ [][Next]_vars

(***************************************************************************)
(* Fairness: the operating system keeps scheduling the heartbeat thread    *)
(* while it lives, and neither a kill nor an exception hits the same step  *)
(* of every heartbeat; a request ends, at the latest with httpx's timeout; *)
(* and Cloud, asked again and again with a credential it refuses, says so  *)
(* once. Nothing makes a dead thread come back: launchd (KeepAlive) only   *)
(* sees a process that lives. Nothing is assumed of the user or the GUI.   *)
(***************************************************************************)
Fairness ==
    /\ WF_vars(HbLoad)
    /\ SF_vars(HbSend)
    /\ WF_vars(HbAnswered)
    /\ SF_vars(HbAnswer("unauthorized"))
    /\ SF_vars(HbDelete)
    /\ SF_vars(HbClear)
    /\ SF_vars(HbWrite)

FairSpec == Spec /\ Fairness

-----------------------------------------------------------------------------
\* Every variable keeps its type.
TypeOK ==
    /\ keychain \in Grants \union {None}
    /\ file \in SavedState \union {Torn, Garbled}
    /\ mem \in SavedState
    /\ save \in [Threads -> [step : SaveSteps, state : SavedState]]
    /\ deviceOf \in [Grants -> Devices \union {None}]
    /\ revoked \subseteq Grants
    /\ offered \in Operations
    /\ page \in Pages
    /\ buttons \in BOOLEAN
    /\ loads \subseteq LoadCalls
    /\ busy \in Calls \union {None}
    /\ startToken \in Grants \union {None}
    /\ inProgress \in BOOLEAN
    /\ login \in [Grants -> LoginSteps]
    /\ call \in [Calls -> [pc : CallSteps, token : Grants \union {None},
                           device : Devices \union {None}]]
    /\ hb \in [pc : BeatSteps, token : Grants \union {None}, saved : SavedState]
    /\ secret \in [device : Devices, token : Grants] \union {None}
    /\ interference \in BOOLEAN
    /\ unsettled \in BOOLEAN
    /\ cut \in BOOLEAN

(***************************************************************************)
(* At most one login waits for the user at a time, and _login_in_progress  *)
(* says exactly whether one does, even though the page that disables the   *)
(* buttons can be reloaded under a running login by a late logout, and     *)
(* the flag is reset before the credential is stored.                      *)
(***************************************************************************)
Waiting == {g \in Grants : login[g] \in {"started", "saving", "polling"}}

SingleLoginFlow ==
    /\ \A g, h \in Waiting : g = h
    /\ inProgress <=> Waiting # {}

(***************************************************************************)
(* The stored credential, the device id in memory and the one on disk      *)
(* belong to the same login, and so does the pair deployed into the        *)
(* cluster. Cloud refuses any other pair, and the daemon would then delete *)
(* the credential. Holds except inside the windows above, on disk while    *)
(* overlapping saves are unsettled, and after interference.                *)
(***************************************************************************)
MemoryIsPaired ==
    keychain # None => mem.device \in {None, deviceOf[keychain]}

FileIsPaired ==
    keychain # None => LoadState(file).device \in {None, deviceOf[keychain]}

SessionIsPaired ==
    \/ interference \/ Storing # {}
    \/ /\ MemoryIsPaired
       /\ unsettled \/ Unsaved # {} \/ FileIsPaired

SecretIsPaired ==
    interference \/ secret = None \/ deviceOf[secret.token] = secret.device

(***************************************************************************)
(* A device id the running app has forgotten, by logout or by a 404, is    *)
(* not on disk once the save that follows has truncated the file, whatever *)
(* snapshot the daemon writes over it and however earlier saves ended.     *)
(* Saves of the GUI that overlap can put it back (unsettled), until the    *)
(* next one that does not.                                                 *)
(***************************************************************************)
Changing == {t \in Threads : save[t].step = "open"}

DiskForgetsWithMemory ==
    page = "closed" \/ unsettled \/ Changing # {}
    \/ LoadState(file).device \in {None, mem.device}

(***************************************************************************)
(* A credential Cloud still accepts is deleted without a logout of the     *)
(* user, or its device id forgotten in memory by device_info, only where   *)
(* two logins have completed on this machine: late answers, stale reads    *)
(* and restarts never make the daemon or the page turn on the credential   *)
(* of the only login. What a save cut short costs is the next property.    *)
(***************************************************************************)
LoggingOut == \E c \in Calls : call[c].pc \in {"logout", "clear"} /\ call'[c] # call[c]

Dropped(g) == keychain = g /\ keychain' = None

Forgotten(g) ==
    /\ keychain = g
    /\ mem.device = deviceOf[g] /\ mem'.device = None
    /\ page' # "closed"

UninvitedLogoutNeedsTwoLogins ==
    [][\A g \in Grants :
          (Dropped(g) \/ Forgotten(g)) /\ Live(g) /\ deviceOf[g] # None /\ ~LoggingOut
          => \E h \in Grants \ {g} : deviceOf[h] # None]_vars

(***************************************************************************)
(* The start page sends the user of the only completed login, still        *)
(* accepted and still stored, to log in again only where a save was cut    *)
(* short or overlapped another: no sequence of complete saves, of threads  *)
(* in any order, leaves a file that has lost the device id.                *)
(***************************************************************************)
TurnedAway(g) ==
    /\ page = "starting" /\ page' = "login"
    /\ keychain = g /\ login[g] = "done" /\ Live(g)

RestartKeepsOnlyLogin ==
    [][\A g \in Grants :
          TurnedAway(g) => cut \/ \E h \in Grants \ {g} : deviceOf[h] # None]_vars

(***************************************************************************)
(* A credential that Cloud has revoked does not stay in use: as long as it *)
(* is stored next to a device id, the daemon's heartbeats end by deleting  *)
(* it, whatever the GUI does meanwhile and however often the daemon is     *)
(* killed or its thread dies, provided the thread is not dead for good.    *)
(***************************************************************************)
RevokedCredentialIsDropped ==
    ([]<>(hb.pc # "dead")) =>
    \A g \in Grants :
        (keychain = g /\ g \in revoked /\ LoadState(file).device # None)
        ~> (keychain # g \/ LoadState(file).device = None)

(***************************************************************************)
(* spec.md:3: "Unless they explicitly log out, we should never log the     *)
(* desktop app out." A credential that Cloud accepts is deleted by a       *)
(* logout only.                                                            *)
(***************************************************************************)
NeverLoggedOutUninvited ==
    [][\A g \in Grants : Live(g) /\ Dropped(g) => LoggingOut]_vars
=============================================================================
