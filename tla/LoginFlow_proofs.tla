--------------------------- MODULE LoginFlow_proofs ---------------------------
(***************************************************************************)
(* Proofs about LoginFlow, for any intervals, lifetimes, time-outs and     *)
(* delays: polls are paced, polling ends, and no login times out on a code *)
(* that was approved before its last poll.                                 *)
(***************************************************************************)
EXTENDS LoginFlow, TLAPS

USE TimingAssumption

\* The thread sleeps at least as long as the provider demands.
SleepIsLongEnough ==
    pc = "asleep" => interval >= pace /\ wake >= polledAt + pace

\* It sleeps from a time before the deadline, for an interval and a late wake-up.
SleepIsBounded ==
    pc = "asleep" => wake <= deadline + interval /\ clock <= wake + MaxLag

\* A poll was sent when a sleep ended, and is in transit no longer than its time-out.
PollIsBounded ==
    pc = "asking" => /\ interval >= pace
                     /\ polledAt <= deadline + interval + MaxLag
                     /\ polledAt <= clock /\ clock <= polledAt + MaxTransit

\* An approval that a poll does not carry came after it was sent.
ApprovalIsSeen ==
    pc = "asking" /\ ~seen /\ approvedAt # NotYet => approvedAt >= polledAt

\* Until it has an outcome a login has no reason to give up, and before its first
\* sleep it has sent no poll.
LoginIsOpen ==
    /\ pc \in {"starting", "payload", "asleep", "asking"} => reason = "none"
    /\ pc \in {"starting", "payload"} => polledAt = 0

Inv ==
    /\ TypeOK
    /\ LoginIsOpen
    /\ SleepIsLongEnough
    /\ SleepIsBounded
    /\ PollIsBounded
    /\ ApprovalIsSeen
    /\ ApprovalInTimeCounts

(* The interval is never below the one the provider gave, nor below 5 seconds. *)
LEMMA FloorIsPace ==
    ASSUME NEW n \in Intervals
    PROVE  /\ Given(n, Floor) \in Nat
           /\ AtLeastFloor(Given(n, Floor)) \in Nat
           /\ AtLeastFloor(Given(n, Floor)) >= Given(n, Floor)
  BY DEF AtLeastFloor, Given

(* A login that begins, or the page without one, keeps the invariant. *)
LEMMA AfreshInv ==
    ASSUME NEW step \in {"idle", "starting"}, Afresh(step),
           buttons' \in BOOLEAN, screen' \in {"blank", "starting"}
    PROVE  Inv'
<1>1. inProgress' \in BOOLEAN /\ seen' \in BOOLEAN /\ approvedAt' = NotYet /\ reason' = "none"
  BY DEF Afresh
<1>2. /\ clock' = 0 /\ interval' = 0 /\ deadline' = 0 /\ wake' = 0 /\ polledAt' = 0
      /\ pace' = 0 /\ slowDowns' = 0 /\ pc' \in {"idle", "starting"}
  BY DEF Afresh
<1> QED
  BY <1>1, <1>2 DEF Inv, TypeOK, Steps, LoginIsOpen, SleepIsLongEnough, SleepIsBounded, PollIsBounded,
         ApprovalIsSeen, ApprovalInTimeCounts

(* So does a step of a thread that does not poll, whatever the page shows. *)
LEMMA OutsideLoop ==
    ASSUME Inv, UNCHANGED <<clock, locals, provider>>,
           pc' \in Steps \ {"asleep", "asking"},
           reason' \in {"error", reason},
           pc' \in {"starting", "payload"} => pc \in {"starting", "payload"} /\ reason' = reason,
           inProgress' \in BOOLEAN, buttons' \in BOOLEAN,
           screen' \in {"blank", "starting", "code", "error", "app"}
    PROVE  Inv'
  BY DEF Inv, TypeOK, LoginIsOpen, SleepIsLongEnough, SleepIsBounded, PollIsBounded,
         ApprovalIsSeen, ApprovalInTimeCounts, locals, provider

(* The head of the loop: the next sleep is paced, and a time-out comes after the
   last poll was answered. *)
LEMMA AgainInv ==
    ASSUME Inv, pc = "asking", ~seen, NEW i \in Nat, NEW q \in Nat, Again(i),
           i >= q, pace' = q, i >= interval, slowDowns' \in 0..MaxSlowDowns,
           UNCHANGED <<inProgress, page, clock, deadline, polledAt, approvedAt, seen>>
    PROVE  Inv'
<1> USE DEF Inv, TypeOK, Again, GiveUp, page, Steps, LoginIsOpen, SleepIsLongEnough, SleepIsBounded,
            PollIsBounded, ApprovalIsSeen, ApprovalInTimeCounts
<1>1. CASE clock < deadline
  <2>1. pc' = "asleep" /\ wake' = clock + i /\ interval' = i /\ reason' = reason
    BY <1>1
  <2> QED BY <1>1, <2>1
<1>2. CASE ~(clock < deadline)
  <2>1. pc' = "failing" /\ reason' = "timeout" /\ interval' = i /\ wake' = wake
    BY <1>2
  <2>2. approvedAt # NotYet => approvedAt + MaxTransit >= deadline
    BY <1>2
  <2> QED BY <2>1, <2>2
<1> QED BY <1>1, <1>2

(* Every step keeps the invariant. *)
LEMMA StepInv == Inv /\ [Next]_vars => Inv'
<1> SUFFICES ASSUME Inv, [Next]_vars PROVE Inv'
  OBVIOUS
<1> USE DEF page, locals, provider
<1>1. CASE Click
  <2>1. CASE inProgress
    BY <1>1, <2>1 DEF Click, Inv, TypeOK, LoginIsOpen, SleepIsLongEnough, SleepIsBounded, PollIsBounded,
                      ApprovalIsSeen, ApprovalInTimeCounts
  <2>2. CASE ~inProgress
    BY <1>1, <2>2, AfreshInv DEF Click
  <2> QED BY <2>1, <2>2
<1>2. CASE Reopen
  BY <1>2, AfreshInv DEF Reopen
<1>3. CASE ShowCode \/ StartFails \/ PayloadFails \/ PollFails \/ Complete \/ ShowError
           \/ Finally \/ Stored \/ StoringFails
  BY <1>3, OutsideLoop DEF ShowCode, StartFails, PayloadFails, PollFails, Complete, ShowError,
     Finally, Stored, StoringFails, GiveUp, Steps, Inv, TypeOK
<1>4. CASE StartPolling
  <2>1. PICK given \in Intervals, expiry \in Expiries :
          /\ interval' = AtLeastFloor(Given(given, Floor))
          /\ pace' = Given(given, Floor)
          /\ deadline' = clock + Given(expiry, DefaultExpiry)
    BY <1>4 DEF StartPolling
  <2>2. Given(expiry, DefaultExpiry) \in Nat
    BY DEF Given
  <2> HIDE DEF Given
  <2>3. polledAt = 0 /\ reason = "none"
    BY <1>4 DEF StartPolling, Inv, LoginIsOpen
  <2> QED
    BY <1>4, <2>1, <2>2, <2>3, FloorIsPace
       DEF StartPolling, Inv, TypeOK, Steps, LoginIsOpen, SleepIsLongEnough, SleepIsBounded, PollIsBounded,
           ApprovalIsSeen, ApprovalInTimeCounts
<1>5. CASE Poll
  <2>1. seen' \in BOOLEAN /\ (~seen' => approvedAt = NotYet)
    BY <1>5 DEF Poll
  <2>2. /\ pc = "asleep" /\ clock >= wake /\ pc' = "asking" /\ polledAt' = clock
        /\ UNCHANGED <<reason, inProgress, page, clock, interval, deadline, wake, pace,
                       slowDowns, approvedAt>>
    BY <1>5 DEF Poll
  <2> QED
    BY <2>1, <2>2 DEF Inv, TypeOK, Steps, LoginIsOpen, SleepIsLongEnough, SleepIsBounded,
                      PollIsBounded, ApprovalIsSeen, ApprovalInTimeCounts
<1>6. CASE Pending
  <2>1. Inv /\ interval >= pace /\ interval \in Nat /\ pace \in Nat /\ slowDowns \in 0..MaxSlowDowns
    BY <1>6 DEF Pending, Inv, PollIsBounded, TypeOK
  <2> QED BY <1>6, <2>1, AgainInv DEF Pending
<1>7. CASE PendingSlowDown
  <2>1. /\ interval + Floor >= pace + Floor /\ interval + Floor >= interval
        /\ interval + Floor \in Nat /\ pace + Floor \in Nat
        /\ slowDowns' \in 0..MaxSlowDowns
    BY <1>7 DEF PendingSlowDown, Inv, PollIsBounded, TypeOK
  <2> QED BY <1>7, <2>1, AgainInv DEF PendingSlowDown
<1>8. CASE Approve
  BY <1>8 DEF Approve, Inv, TypeOK, LoginIsOpen, SleepIsLongEnough, SleepIsBounded, PollIsBounded,
              ApprovalIsSeen, ApprovalInTimeCounts
<1>9. CASE Tick
  BY <1>9 DEF Tick, Inv, TypeOK, LoginIsOpen, SleepIsLongEnough, SleepIsBounded, PollIsBounded,
              ApprovalIsSeen, ApprovalInTimeCounts
<1>10. CASE UNCHANGED vars
  BY <1>10 DEF vars, Inv, TypeOK, LoginIsOpen, SleepIsLongEnough, SleepIsBounded, PollIsBounded,
               ApprovalIsSeen, ApprovalInTimeCounts
<1> QED
  BY <1>1, <1>2, <1>3, <1>4, <1>5, <1>6, <1>7, <1>8, <1>9, <1>10 DEF Next, LoginThread

(* A login and the page begin with nothing. *)
LEMMA InitInv == Init => Inv
<1> SUFFICES ASSUME Init PROVE Inv
  OBVIOUS
<1>1. inProgress \in BOOLEAN /\ seen \in BOOLEAN /\ buttons \in BOOLEAN
  BY DEF Init
<1>2. /\ pc = "idle" /\ reason = "none" /\ screen = "blank" /\ approvedAt = NotYet
      /\ clock = 0 /\ interval = 0 /\ deadline = 0 /\ wake = 0 /\ polledAt = 0
      /\ pace = 0 /\ slowDowns = 0
  BY DEF Init
<1> QED
  BY <1>1, <1>2 DEF Inv, TypeOK, Steps, LoginIsOpen, SleepIsLongEnough, SleepIsBounded, PollIsBounded,
         ApprovalIsSeen, ApprovalInTimeCounts

(***************************************************************************)
(* The theorems                                                            *)
(***************************************************************************)
(* The invariant holds of every login, one after another. *)
LEMMA Invariant == Spec => []Inv
  BY InitInv, StepInv, PTL DEF Spec

(* Thread, page and times keep their types. *)
THEOREM TypeCorrect == Spec => []TypeOK
<1>1. Inv => TypeOK
  BY DEF Inv
<1> QED BY Invariant, <1>1, PTL

(* app.py:175-193: a login times out on an approved code only if the approval came
   while the last poll was in transit. *)
THEOREM ApprovalCounts == Spec => []ApprovalInTimeCounts
<1>1. Inv => ApprovalInTimeCounts
  BY DEF Inv
<1> QED BY Invariant, <1>1, PTL

(* app.py:175-193: polling ends an interval, a late wake-up and a poll after the
   deadline. *)
THEOREM PollingEnds == Spec => []PollingIsBounded
<1>1. Inv => PollingIsBounded
  BY DEF Inv, TypeOK, SleepIsBounded, PollIsBounded, PollingIsBounded
<1> QED BY Invariant, <1>1, PTL

(* app.py:175-193: Cloud is never polled faster than the provider demands. *)
THEOREM PaceIsKept == Spec => PollsArePaced
<1>1. Inv /\ [Next]_vars => [pc = "asleep" /\ pc' = "asking" => clock >= polledAt + pace]_vars
  <2> SUFFICES ASSUME Inv, Next, pc = "asleep", pc' = "asking"
               PROVE  clock >= polledAt + pace
    OBVIOUS
  <2>1. Poll
    BY DEF Next, LoginThread, Click, Afresh, Reopen, ShowCode, StartFails, PayloadFails,
           StartPolling, Pending, PendingSlowDown, PollFails, Complete, ShowError, Finally,
           Stored, StoringFails, Approve, Tick, GiveUp
  <2> QED BY <2>1 DEF Poll, Inv, TypeOK, SleepIsLongEnough
<1> QED BY Invariant, <1>1, PTL DEF Spec, PollsArePaced
=============================================================================
