------------------------------ MODULE Allocation ------------------------------
(***************************************************************************)
(* The share of the computer that its user gives away: the default and its *)
(* rounding (desktop/device_info.py), the copy in the state file, the one  *)
(* Cloud has, and the sliders of the Cluster section (desktop/api.py,      *)
(* app.py, app.js, app.html) or the prompt of the Linux CLI (cli.py).      *)
(*                                                                         *)
(* CPU, memory and storage go the same ways side by side, so one of them   *)
(* is modelled, any one. Amounts are in quarters of a core or GB: what is  *)
(* detected is seldom whole. Setups are only as long as it takes to save   *)
(* and create the VM; LocalCluster models the rest.                        *)
(***************************************************************************)
EXTENDS Naturals, FiniteSets

CONSTANTS Cpus, Memories, Storages,  \* capacities that are detected
          Calls                      \* threads that serve setup_cluster, or the CLI

ASSUME AllocationAssumption ==
    /\ Cpus \cup Memories \cup Storages \subseteq Nat
    /\ \A n \in Cpus : n % 4 = 0 /\ n >= 4
    /\ \A n \in Memories : n >= 4
    /\ \A n \in Storages : n >= 20

VARIABLES host,   \* the program, the kind of amount, and its capacity
          saved,  \* allocated_* of the state file
          chosen, \* has the user ever chosen
          cloud,  \* what Cloud has, once the device is registered
          vm,     \* what the VM was created with
          page,   \* the slider, and what the page knows
          status, \* the answer that a page just loaded waits for
          call,   \* each setup_cluster: its step and its argument
          lost    \* history: Cloud missed an update, or got two that ran side by side

vars == <<host, saved, chosen, cloud, vm, page, status, call, lost>>

None == 0

Capacities == [cpu |-> Cpus, memory |-> Memories, storage |-> Storages]
Hosts == UNION {[program: {"gui", "cli"}, kind: {k}, total: Capacities[k]] : k \in DOMAIN Capacities}

\* The slider's min and step, and the least that the code takes.
Floor == IF host.kind = "storage" THEN 20 ELSE 4

AtLeast(n, floor) == IF n < floor THEN floor ELSE n
Distance(m, n) == IF m < n THEN n - m ELSE m - n

\* Mutant: rounded up.
Rounded_Up(n, unit) == unit * ((n + unit - 1) \div unit)

\* Python's round to a multiple of unit: ties to an even one.
Rounded(n, unit) ==
    LET q == n \div unit
        r == n % unit
        up == 2 * r > unit \/ (2 * r = unit /\ q % 2 = 1)
    IN  unit * (IF up THEN q + 1 ELSE q)

\* Mutant: half, be it nothing.
default_allocation_Half ==
    IF host.kind = "cpu" THEN 4 * ((host.total \div 4) \div 2) ELSE Rounded(host.total, 8) \div 2

default_allocation ==
    AtLeast(IF host.kind = "cpu" THEN 4 * ((host.total \div 4) \div 2) ELSE Rounded(host.total, 8) \div 2,
            Floor)

Defaulted == IF saved = None THEN default_allocation ELSE saved
ensure_allocation_defaults == saved' = Defaulted

-----------------------------------------------------------------------------
(***************************************************************************)
(* The page                                                                *)
(***************************************************************************)
\* total_* in the status, the slider's max.
Shown == Rounded(host.total, 4)

\* Where a slider can stand, and where one comes to stand that is set to n.
Stops(max) == {n \in Floor..AtLeast(max, Floor) : (n - Floor) % Floor = 0}
Snap(n, max) ==
    CHOOSE s \in Stops(max) : \A t \in Stops(max) :
        Distance(s, n) < Distance(t, n) \/ (Distance(s, n) = Distance(t, n) /\ s >= t)

\* app.html, before any status.
FreshPage == [max |-> Floor, slider |-> Floor, loaded |-> FALSE, touched |-> FALSE,
              busy |-> FALSE, locked |-> FALSE]
NoStatus == [amount |-> None, exists |-> FALSE]

CallIdle == [step |-> "idle", want |-> None, here |-> FALSE]

Init ==
    /\ host \in Hosts
    /\ saved = None /\ chosen = FALSE
    /\ cloud = None
    /\ vm = None
    /\ page = FreshPage /\ status = NoStatus
    /\ call = [c \in Calls |-> CallIdle]
    /\ lost = FALSE

\* Mutant: value before max, so the old max holds it.
Rendered_ValueFirst(p, s) ==
    [p EXCEPT !.max = Shown, !.slider = IF p.touched THEN @ ELSE Snap(s.amount, p.max),
              !.loaded = TRUE, !.locked = s.exists]

\* renderCluster
Rendered(p, s) ==
    [p EXCEPT !.max = Shown, !.slider = Snap(IF p.touched THEN @ ELSE s.amount, Shown),
              !.loaded = TRUE, !.locked = s.exists]

Status == [amount |-> Defaulted, exists |-> vm # None]

\* _registration_payload at the end of a login, and the page after it. Cloud
\* takes no more than the capacity.
Login ==
    /\ host.program = "gui"
    /\ ensure_allocation_defaults
    /\ Defaulted <= host.total
    /\ cloud' = Defaulted
    /\ page' = FreshPage /\ status' = NoStatus
    /\ call' = [c \in Calls |-> [call[c] EXCEPT !.here = FALSE]]
    /\ lost' = \E c \in Calls : call[c].step = "update"
    /\ UNCHANGED <<host, chosen, vm>>

\* cluster_status, which the page calls when it is loaded.
StatusRead ==
    /\ host.program = "gui" /\ cloud # None
    /\ ~page.loaded /\ status = NoStatus
    /\ ensure_allocation_defaults
    /\ status' = Status
    /\ UNCHANGED <<host, chosen, cloud, vm, page, call, lost>>

StatusArrives ==
    /\ status # NoStatus
    /\ page' = Rendered(page, status)
    /\ status' = NoStatus
    /\ UNCHANGED <<host, saved, chosen, cloud, vm, call, lost>>

MoveSlider ==
    /\ cloud # None /\ host.program = "gui" /\ ~page.locked
    /\ \E n \in Stops(page.max) : page' = [page EXCEPT !.slider = n, !.touched = TRUE]
    /\ UNCHANGED <<host, saved, chosen, cloud, vm, call, lost, status>>

\* setup_cluster and _save_allocation up to the update.
ClickSetup(c) ==
    /\ host.program = "gui" /\ cloud # None
    /\ ~page.busy /\ ~page.locked
    /\ call[c] = CallIdle
    /\ saved' = page.slider /\ chosen' = TRUE
    /\ page' = [page EXCEPT !.busy = TRUE]
    /\ call' = [call EXCEPT ![c] = [step |-> "update", want |-> page.slider, here |-> TRUE]]
    /\ lost' = \E d \in Calls : call[d].step = "update"
    /\ UNCHANGED <<host, cloud, vm, status>>

CreateVM(c) ==
    /\ call[c].step = "create"
    /\ vm' \in {vm, IF vm = None THEN call[c].want ELSE vm}
    /\ call' = [call EXCEPT ![c].step = "answer"]
    /\ UNCHANGED <<host, saved, chosen, cloud, page, lost, status>>

\* cluster_status again. Answers are delivered in the order they are computed in.
Answer(c) ==
    /\ call[c].step = "answer"
    /\ status = NoStatus
    /\ page' = IF call[c].here THEN Rendered([page EXCEPT !.touched = FALSE, !.busy = FALSE], Status)
                               ELSE page
    /\ call' = [call EXCEPT ![c] = CallIdle]
    /\ UNCHANGED <<host, saved, chosen, cloud, vm, lost, status>>

Teardown ==
    /\ ~page.busy /\ page.locked
    /\ status = NoStatus
    /\ vm' \in {vm, None}
    /\ page' = Rendered([page EXCEPT !.touched = FALSE], [Status EXCEPT !.exists = vm' # None])
    /\ UNCHANGED <<host, saved, chosen, cloud, call, lost, status>>

(***************************************************************************)
(* update_device, best-effort for both programs                            *)
(***************************************************************************)
\* The GUI goes on to the VM.
Updated(c) ==
    call' = [call EXCEPT ![c] = IF host.program = "gui" THEN [@ EXCEPT !.step = "create"] ELSE CallIdle]

\* Mutant: the default is sent.
Update_Default(c) ==
    /\ call[c].step = "update"
    /\ call[c].want <= host.total
    /\ cloud' = default_allocation
    /\ Updated(c)
    /\ UNCHANGED <<host, saved, chosen, vm, page, status, lost>>

Update(c) ==
    /\ call[c].step = "update"
    /\ call[c].want <= host.total
    /\ cloud' = call[c].want
    /\ Updated(c)
    /\ UNCHANGED <<host, saved, chosen, vm, page, status, lost>>

\* Refused for the capacity, or failed: passed over.
UpdateFails(c) ==
    /\ call[c].step = "update"
    /\ Updated(c)
    /\ lost' = TRUE
    /\ UNCHANGED <<host, saved, chosen, cloud, vm, page, status>>

(***************************************************************************)
(* The CLI                                                                 *)
(***************************************************************************)
\* Mutant: checked against the capacity that is printed.
_validate_allocation_Printed(n) == n >= Floor /\ n <= Shown

_validate_allocation(n) == n >= Floor /\ n <= host.total

\* The login registers the default; a prompt, or --memory 1.5Gi, sets another.
CliLogin ==
    /\ host.program = "cli" /\ cloud = None
    /\ ensure_allocation_defaults
    /\ Defaulted <= host.total
    /\ cloud' = Defaulted
    /\ UNCHANGED <<host, chosen, vm, page, call, lost, status>>

CliChooses(c) ==
    /\ host.program = "cli" /\ cloud # None
    /\ \A d \in Calls : call[d] = CallIdle
    /\ \E n \in {Floor - 1, Floor, Floor + 2, default_allocation, host.total, Shown} :
         /\ host.kind = "cpu" => n % 4 = 0
         /\ _validate_allocation(n)
         /\ saved' = n
         /\ call' = [call EXCEPT ![c] = [step |-> "update", want |-> n, here |-> FALSE]]
    /\ chosen' = TRUE
    /\ lost' = FALSE
    /\ UNCHANGED <<host, cloud, vm, page, status>>

-----------------------------------------------------------------------------
Next ==
    \/ Login
    \/ StatusRead
    \/ StatusArrives
    \/ MoveSlider
    \/ Teardown
    \/ CliLogin
    \/ \E c \in Calls :
         \/ ClickSetup(c)
         \/ Update(c)
         \/ UpdateFails(c)
         \/ CreateVM(c)
         \/ Answer(c)
         \/ CliChooses(c)

Spec == Init /\ [][Next]_vars

-----------------------------------------------------------------------------
Amounts == {n \in Nat : n >= Floor}

\* What is chosen, kept, sent and used is never less than the sliders' minimum.
TypeOK ==
    /\ host \in Hosts
    /\ {saved, cloud, vm} \subseteq Amounts \cup {None}
    /\ {chosen, lost} \subseteq BOOLEAN
    /\ page \in [max: Amounts, slider: Amounts, loaded: BOOLEAN, touched: BOOLEAN,
                 busy: BOOLEAN, locked: BOOLEAN]
    /\ page.slider \in Stops(page.max)
    /\ status \in [amount: Amounts \cup {None}, exists: BOOLEAN]
    /\ call \in [Calls -> [step: {"idle", "update", "create", "answer"},
                         want: Amounts \cup {None}, here: BOOLEAN]]

(* device_info.py:23-31 "Half of detected capacity": until somebody chooses, what
   is kept is the whole number nearest to the half, or the least there is, whatever
   the capacity's fraction. *)
DefaultIsHalf ==
    saved # None /\ ~chosen => saved = Floor \/ Distance(2 * saved, host.total) <= 4

(* cli.py:115-124, api.py:92-93: nothing that can be chosen is more than the
   computer has, as far as the CLI goes; the sliders end at the nearest whole,
   half a GB above it at most. The default always fits. *)
AllocationFits ==
    \A n \in {saved, vm} :
        n <= host.total + (IF host.program = "gui" /\ chosen THEN 2 ELSE 0)

(* app.js:65-84, 126-129: a loaded page on which nobody has moved the slider shows
   the saved allocation, or the stop of the slider nearest to it, although answers
   of other pages' calls and the slider's own limits came in between. *)
SliderShowsSaved ==
    page.loaded /\ ~page.touched /\ ~page.busy =>
        \A s \in Stops(Shown) : Distance(page.slider, saved) <= Distance(s, saved)

(* api.py:99-114, cli.py:145-156: Cloud has the allocation that is saved, unless
   the last update failed or ran beside another one. *)
CloudKnowsSaved ==
    cloud # None /\ ~lost /\ (\A c \in Calls : call[c].step # "update") => cloud = saved
=============================================================================
