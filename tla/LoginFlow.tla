------------------------------ MODULE LoginFlow ------------------------------
(***************************************************************************)
(* One login of the GUI (desktop/app.py, _run_login_flow), with its time:  *)
(* the OAuth device grant is started, its code is shown, and Cloud is      *)
(* polled until it completes the login, refuses it, or the code expires.   *)
(* The thread shares with the login page the buttons and a flag; the user  *)
(* may click whenever the buttons are enabled and may approve the code, in *)
(* a browser, whenever it is valid.                                        *)
(*                                                                         *)
(* Time counts from the moment the deadline is computed, in units of which *)
(* Floor make the 5 seconds of _DEFAULT_POLL_INTERVAL_SECONDS.             *)
(***************************************************************************)
EXTENDS Naturals

CONSTANTS Floor,           \* _DEFAULT_POLL_INTERVAL_SECONDS
          DefaultExpiry,   \* DESKTOP_LOGIN_TIMEOUT_SECONDS
          Intervals,       \* poll intervals the provider may ask for; 0: none given
          Expiries,        \* lifetimes it may give a code; 0: none given
          MaxTransit,      \* bound: httpx's timeout of one poll
          MaxLag,          \* bound: how much longer than asked a sleep lasts
          MaxSlowDowns,    \* bound: slow_down answers in one login
          NotYet           \* the time of what has not happened

ASSUME TimingAssumption ==
    /\ Floor \in Nat \ {0} /\ DefaultExpiry \in Nat \ {0}
    /\ Intervals \subseteq Nat /\ Expiries \subseteq Nat
    /\ MaxTransit \in Nat /\ MaxLag \in Nat /\ MaxSlowDowns \in Nat
    /\ NotYet \notin Nat

VARIABLES pc,          \* where the login thread is
          reason,      \* why it gives up
          inProgress,  \* DesktopApp._login_in_progress
          buttons,     \* are the login buttons enabled
          screen,      \* what the page shows
          clock,
          interval, deadline, wake,    \* locals of the thread
          polledAt,    \* when the last poll was sent; 0: none yet
          pace,        \* the provider: the spacing it demands
          slowDowns,   \* the provider: slow_down answers so far
          approvedAt,  \* the user: when the code was approved
          seen         \* was it approved when the last poll was sent

page     == <<buttons, screen>>
locals   == <<interval, deadline, wake, polledAt>>
provider == <<pace, slowDowns, approvedAt, seen>>
vars     == <<pc, reason, inProgress, page, clock, locals, provider>>

Steps == {"idle", "starting", "payload", "asleep", "asking", "failing",
          "leaving", "granted", "storing", "done", "dead"}

AtLeastFloor(n) == IF n > Floor THEN n ELSE Floor
Given(n, default) == IF n = 0 THEN default ELSE n

-----------------------------------------------------------------------------
Init ==
    /\ pc = "idle"
    /\ reason = "none"
    /\ inProgress = FALSE
    /\ buttons = TRUE
    /\ screen = "blank"
    /\ clock = 0
    /\ interval = 0 /\ deadline = 0 /\ wake = 0 /\ polledAt = 0
    /\ pace = 0 /\ slowDowns = 0 /\ approvedAt = NotYet /\ seen = FALSE

\* A thread at its first step, or none: nothing of an earlier login is left.
Afresh(step) ==
    /\ pc' = step
    /\ reason' = "none"
    /\ inProgress' = (step # "idle")
    /\ clock' = 0
    /\ interval' = 0 /\ deadline' = 0 /\ wake' = 0 /\ polledAt' = 0
    /\ pace' = 0 /\ slowDowns' = 0 /\ approvedAt' = NotYet /\ seen' = FALSE

(***************************************************************************)
(* The page                                                                *)
(***************************************************************************)
\* startLogin disables the buttons first; start_login may find the flag set.
Click ==
    /\ buttons
    /\ buttons' = FALSE
    /\ screen' = "starting"
    /\ IF inProgress
       THEN UNCHANGED <<pc, reason, inProgress, clock, locals, provider>>
       ELSE Afresh("starting")

\* The window is closed, which ends the process and its thread, and reopened.
Reopen ==
    /\ Afresh("idle")
    /\ buttons' = TRUE
    /\ screen' = "blank"

(***************************************************************************)
(* The login thread                                                        *)
(***************************************************************************)
GiveUp(why) == pc' = "failing" /\ reason' = why

\* start_device_login, then the code on the page.
ShowCode ==
    /\ pc = "starting"
    /\ pc' = "payload"
    /\ screen' = "code"
    /\ UNCHANGED <<reason, inProgress, buttons, clock, locals, provider>>

StartFails ==
    /\ pc = "starting"
    /\ GiveUp("error")
    /\ UNCHANGED <<inProgress, page, clock, locals, provider>>

\* detect_hardware, or the save of the default allocation, raises.
PayloadFails ==
    /\ pc = "payload"
    /\ GiveUp("error")
    /\ UNCHANGED <<inProgress, page, clock, locals, provider>>

\* The first turn of the loop: the deadline cannot have passed yet.
StartPolling ==
    /\ pc = "payload"
    /\ \E given \in Intervals, expiry \in Expiries :
         /\ interval' = AtLeastFloor(Given(given, Floor))
         /\ pace' = Given(given, Floor)
         /\ deadline' = clock + Given(expiry, DefaultExpiry)
    /\ pc' = "asleep"
    /\ wake' = clock + interval'
    /\ UNCHANGED <<reason, inProgress, page, clock, polledAt, slowDowns, approvedAt, seen>>

\* Mutant: the deadline is checked between the sleep and the poll.
Poll_ChecksDeadline ==
    /\ pc = "asleep" /\ clock >= wake
    /\ IF clock < deadline
       THEN pc' = "asking" /\ UNCHANGED reason
       ELSE GiveUp("timeout")
    /\ polledAt' = clock
    /\ seen' = (approvedAt # NotYet)
    /\ UNCHANGED <<inProgress, page, clock, interval, deadline, wake, pace,
                   slowDowns, approvedAt>>

Poll ==
    /\ pc = "asleep" /\ clock >= wake
    /\ pc' = "asking"
    /\ polledAt' = clock
    /\ seen' = (approvedAt # NotYet)
    /\ UNCHANGED <<reason, inProgress, page, clock, interval, deadline, wake,
                   pace, slowDowns, approvedAt>>

\* The head of the loop after a "pending" answer.
Again(i) ==
    /\ interval' = i
    /\ IF clock < deadline
       THEN pc' = "asleep" /\ wake' = clock + i /\ UNCHANGED reason
       ELSE GiveUp("timeout") /\ UNCHANGED wake

\* Mutant: a pending login is polled again whatever the time.
Pending_Forever ==
    /\ pc = "asking"
    /\ ~seen
    /\ interval' = interval
    /\ pc' = "asleep" /\ wake' = clock + interval
    /\ UNCHANGED <<reason, inProgress, page, clock, deadline, polledAt, provider>>

Pending ==
    /\ pc = "asking"
    /\ ~seen
    /\ Again(interval)
    /\ UNCHANGED <<inProgress, page, clock, deadline, polledAt, provider>>

\* Mutant: a slow_down changes nothing.
PendingSlowDown_Ignored ==
    /\ pc = "asking"
    /\ ~seen
    /\ slowDowns < MaxSlowDowns
    /\ slowDowns' = slowDowns + 1
    /\ pace' = pace + Floor
    /\ Again(interval)
    /\ UNCHANGED <<inProgress, page, clock, deadline, polledAt, approvedAt, seen>>

\* RFC 8628: the client must wait 5 seconds longer from now on.
PendingSlowDown ==
    /\ pc = "asking"
    /\ ~seen
    /\ slowDowns < MaxSlowDowns
    /\ slowDowns' = slowDowns + 1
    /\ pace' = pace + Floor
    /\ Again(interval + Floor)
    /\ UNCHANGED <<inProgress, page, clock, deadline, polledAt, approvedAt, seen>>

\* "expired", "denied", any other status, or CloudClientError.
PollFails ==
    /\ pc = "asking"
    /\ GiveUp("error")
    /\ UNCHANGED <<inProgress, page, clock, locals, provider>>

Complete ==
    /\ pc = "asking"
    /\ approvedAt # NotYet
    /\ pc' = "granted"
    /\ UNCHANGED <<reason, inProgress, page, clock, locals, provider>>

\* Mutant: the reason is shown as it is, without its message.
ShowError_Reason ==
    /\ pc = "failing"
    /\ pc' = "leaving"
    /\ screen' = reason
    /\ buttons' = TRUE
    /\ UNCHANGED <<reason, inProgress, clock, locals, provider>>

\* _show_login_error: the message, and the buttons again.
ShowError ==
    /\ pc = "failing"
    /\ pc' = "leaving"
    /\ screen' = "error"
    /\ buttons' = TRUE
    /\ UNCHANGED <<reason, inProgress, clock, locals, provider>>

\* Mutant: the flag is reset after a success only.
Finally_SuccessOnly ==
    /\ pc \in {"leaving", "granted"}
    /\ pc' = IF pc = "granted" THEN "storing" ELSE "idle"
    /\ inProgress' = (inProgress /\ pc = "leaving")
    /\ UNCHANGED <<reason, page, clock, locals, provider>>

\* The finally clause, after the error and after the success.
Finally ==
    /\ pc \in {"leaving", "granted"}
    /\ pc' = IF pc = "granted" THEN "storing" ELSE "idle"
    /\ inProgress' = FALSE
    /\ UNCHANGED <<reason, page, clock, locals, provider>>

\* The credential and the state are stored: the app page.
Stored ==
    /\ pc = "storing"
    /\ pc' = "done"
    /\ screen' = "app"
    /\ UNCHANGED <<reason, inProgress, buttons, clock, locals, provider>>

\* The keychain or the disk refuses: no handler is left to say so.
StoringFails ==
    /\ pc = "storing"
    /\ pc' = "dead"
    /\ UNCHANGED <<reason, inProgress, page, clock, locals, provider>>

(***************************************************************************)
(* The user and time                                                       *)
(***************************************************************************)
Approve ==
    /\ \/ pc = "payload"
       \/ pc \in {"asleep", "asking"} /\ clock < deadline
    /\ approvedAt = NotYet
    /\ approvedAt' = clock
    /\ UNCHANGED <<pc, reason, inProgress, page, clock, locals, pace, slowDowns, seen>>

Tick ==
    /\ \/ pc = "asleep" /\ clock < wake + MaxLag
       \/ pc = "asking" /\ clock < polledAt + MaxTransit
    /\ clock' = clock + 1
    /\ UNCHANGED <<pc, reason, inProgress, page, locals, provider>>

-----------------------------------------------------------------------------
LoginThread ==
    \/ ShowCode
    \/ StartFails
    \/ PayloadFails
    \/ StartPolling
    \/ Poll
    \/ Pending
    \/ PendingSlowDown
    \/ PollFails
    \/ Complete
    \/ ShowError
    \/ Finally
    \/ Stored
    \/ StoringFails

Next ==
    \/ Click
    \/ Reopen
    \/ LoginThread
    \/ Approve
    \/ Tick

Spec == Init /\ [][Next]_vars

(***************************************************************************)
(* Fairness: the thread is scheduled, its requests return (httpx's timeout *)
(* bounds each) and time passes while it sleeps.                           *)
(***************************************************************************)
FairSpec == Spec /\ WF_vars(LoginThread) /\ WF_vars(Tick)

-----------------------------------------------------------------------------
\* Every variable keeps its type.
TypeOK ==
    /\ pc \in Steps
    /\ reason \in {"none", "error", "timeout"}
    /\ inProgress \in BOOLEAN /\ buttons \in BOOLEAN /\ seen \in BOOLEAN
    /\ screen \in {"blank", "starting", "code", "error", "app"}
    /\ clock \in Nat /\ interval \in Nat /\ deadline \in Nat /\ wake \in Nat
    /\ polledAt \in Nat /\ pace \in Nat /\ slowDowns \in 0..MaxSlowDowns
    /\ approvedAt \in Nat \cup {NotYet}

(***************************************************************************)
(* Cloud is never polled faster than the provider demands: the interval it *)
(* gave, 5 seconds where it gave none, 5 seconds more for each slow_down,  *)
(* counted from the last poll it saw.                                      *)
(***************************************************************************)
PollsArePaced ==
    [][pc = "asleep" /\ pc' = "asking" => clock >= polledAt + pace]_vars

(***************************************************************************)
(* A login does not time out on an approved code: one more poll follows    *)
(* the last sleep, even one that ends after the deadline. The exception is *)
(* an approval in the last moments, while that poll was in transit.        *)
(***************************************************************************)
ApprovalInTimeCounts ==
    reason = "timeout" /\ approvedAt # NotYet => approvedAt + MaxTransit >= deadline

(***************************************************************************)
(* Polling ends: at most one interval, with what slow_downs have added to  *)
(* it, one late wake-up and one poll after the deadline.                   *)
(***************************************************************************)
PollingIsBounded ==
    pc \in {"asleep", "asking"} =>
        clock <= deadline + interval + MaxLag + MaxTransit

(***************************************************************************)
(* The flag that makes every other click a no-op does not stay set: each   *)
(* way out of the flow passes the finally clause.                          *)
(***************************************************************************)
FlagIsReleased == inProgress ~> ~inProgress
=============================================================================
